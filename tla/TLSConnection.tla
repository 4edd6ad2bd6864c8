---------------------------- MODULE TLSConnection ----------------------------
(***************************************************************************)
(* The connection of an https run: WSConnection with the socket policy of  *)
(* src/parts/websocketpp/src/sockets/tls.hpp in place of plain.hpp.  Two   *)
(* things are different.  start() begins a TLS handshake, and the upgrade  *)
(* is only asked for when handle_socket_init() hears that it succeeded.    *)
(* And shutdown(), which terminate() calls before anything else but the    *)
(* cancelling of the close timer, waits for the peer: as long as it does,  *)
(* the one thread that runs handlers, and with them timers and reads,      *)
(* stands still.                                                           *)
(*                                                                         *)
(* `blocked' is TRUE inside shutdown().  The handler that called           *)
(* terminate() stays at the front of `ready' (or in the loop of            *)
(* handle_read_frame) until shutdown() returns, and then takes the step    *)
(* that WSConnection has for it; nothing else can see the cancelled timer  *)
(* before, because the same thread would have to look.                     *)
(***************************************************************************)
EXTENDS WSConnection

VARIABLES
    tls,       \* the TLS handshake: not begun, outstanding, or how it ended
    blocked,   \* the thread is inside m_socket_ptr->shutdown()
    shutdowns  \* history: calls of shutdown()

tlsvars == <<tls, blocked, shutdowns>>

-----------------------------------------------------------------------------
(* Starting.                                                               *)

\* The handler of async_handshake, handle_init(), which passes the error on
\* to handle_socket_init().
HandleInit(ec) == Completion("handle_init", ec)

\* Wrong variant: the upgrade is asked for without waiting for TLS.
StartHandshakeAndGoOn ==
    /\ RunsOk("handle_connect")
    /\ ready' = Tail(ready)
    /\ tls' = "handshake"
    /\ chain' = "write_request"
    /\ UNCHANGED <<reads, writes, sockvars, outvars, invars, appvars>>

\* handle_connect() without an error: start() and async_init().
StartHandshake ==
    /\ RunsOk("handle_connect")
    /\ ready' = Tail(ready)
    /\ tls' = "handshake"
    /\ UNCHANGED <<netvars, sockvars, outvars, invars, appvars>>

\* The peer completes the TLS handshake or makes it fail.
HandshakeDone(ec) ==
    /\ Alive /\ tls = "handshake"
    /\ tls' = IF ec = "ok" THEN "completed" ELSE "failed"
    /\ ready' = Append(ready, HandleInit(ec))
    /\ UNCHANGED <<netvars, sockvars, outvars, invars, appvars>>

\* Wrong variant: handle_socket_init() does not look at the error.
HandleSocketInitAlways ==
    /\ Runs("handle_init")
    /\ ready' = Tail(ready)
    /\ chain' = "write_request"
    /\ UNCHANGED <<reads, writes, sockvars, outvars, invars, appvars>>

\* handle_socket_init() without an error: role_type::async_init().
HandleSocketInit ==
    /\ RunsOk("handle_init")
    /\ ready' = Tail(ready)
    /\ chain' = "write_request"
    /\ UNCHANGED <<reads, writes, sockvars, outvars, invars, appvars>>

\* handle_socket_init() given an error.
HandleSocketInitFails(cb) ==
    /\ Runs("handle_init") /\ Head(ready).ec = "error"
    /\ Terminate(cb, Tail(ready))
    /\ UNCHANGED <<netvars, outvars, invars>>

-----------------------------------------------------------------------------
(* Ending.                                                                 *)

\* The handler about to run calls terminate() on a connection not closed yet.
TerminateDue ==
    /\ m_state # "CLOSED"
    /\ \/ /\ \E h \in {"handle_init", "handle_write_request",
                       "handle_read_response"} : Runs(h)
          /\ Head(ready).ec = "error"
       \/ /\ Runs("handle_read_frame") /\ Head(ready).ec = "error"
          /\ m_state # "CONNECTING"
       \/ /\ RunsOk("handle_write")
          /\ m_write_queue # <<>> /\ Head(m_write_queue).op \in CloseOps
       \/ Runs("handle_write") /\ Head(ready).ec = "error"
       \/ Runs("terminate") \/ RunsOk("fail_on_expire")

\* In the loop of handle_read_frame(): the next piece of input may be the
\* close frame that ends the closing handshake.
CloseAckPossible ==
    /\ busy /\ m_buf > 0 /\ processor \in {"header", "payload"}
    /\ m_state = "CLOSING"

\* terminate() calls shutdown(), which sends close_notify and waits.
ShutdownBegins ==
    /\ ~blocked
    /\ Alive /\ (TerminateDue \/ CloseAckPossible)
    /\ blocked' = TRUE /\ shutdowns' = shutdowns + 1
    /\ UNCHANGED <<vars, tls>>

\* The peer answers with its close_notify, or the connection is lost:
\* shutdown() returns and the handler goes on to its end.
ShutdownReturns(cb) ==
    /\ blocked
    /\ Ending(cb) \/ HandleSocketInitFails(cb)
    /\ blocked' = FALSE
    /\ UNCHANGED <<tls, shutdowns>>

\* Wrong variant: the connection is closed without shutdown().
EndsAtOnce(cb) ==
    /\ Ending(cb)
    /\ ~busy

\* The handlers that call on_fail() or nothing at all without shutdown():
\* a failed connect, and those that find the connection closed.
EndsWithoutShutdown(cb) ==
    /\ Ending(cb)
    /\ ~busy /\ ~TerminateDue

-----------------------------------------------------------------------------

TLSInit ==
    /\ Init
    /\ tls = "none" /\ blocked = FALSE /\ shutdowns = 0

\* What the thread does as with the plain socket; io_service::run() does not
\* return while the TLS handshake is outstanding.
AsWithPlain ==
    /\ \/ Thread /\ ~RunsOk("handle_connect") /\ ~(NoWork /\ tls = "handshake")
       \/ \E cb \in Behaviours : Calling(cb) \/ EndsWithoutShutdown(cb)
    /\ UNCHANGED tls

TLSThread ==
    \/ ShutdownBegins
    \/ /\ ~blocked
       /\ \/ StartHandshake
          \/ HandleSocketInit /\ UNCHANGED tls
          \/ AsWithPlain
       /\ UNCHANGED <<blocked, shutdowns>>

\* Completions and expiries are delivered by the thread, when it is free.
TLSEnvironment ==
    /\ ~blocked
    /\ \/ \E ec \in {"ok", "error"} : HandshakeDone(ec)
       \/ (Network \/ Timers) /\ UNCHANGED tls
    /\ UNCHANGED <<blocked, shutdowns>>

TLSEnded == Ended /\ UNCHANGED tlsvars

TLSNext ==
    \/ TLSThread \/ TLSEnvironment \/ TLSEnded
    \/ \E cb \in Behaviours : ShutdownReturns(cb)

TLSSpec == TLSInit /\ [][TLSNext]_<<vars, tlsvars>>

\* The thread runs unless it is blocked, and the close timer expires.  The
\* TCP socket is not shut down, so nothing else is certain to complete, and
\* nothing is assumed of the peer.
TLSFairness ==
    /\ WF_<<vars, tlsvars>>(TLSThread)
    /\ WF_<<vars, tlsvars>>(TLSEnvironment /\ CloseTimerExpires)

TLSFairSpec == TLSSpec /\ TLSFairness

-----------------------------------------------------------------------------
(* Properties.                                                             *)

TLSTypeOK ==
    /\ tls \in {"none", "handshake", "completed", "failed"}
    /\ blocked \in BOOLEAN /\ shutdowns \in Nat
    /\ \A i \in DOMAIN ready :
           \/ ready[i] \in Handlers
           \/ ready[i].h = "handle_init" /\ tls \in {"completed", "failed"}

\* Nothing is said on the connection, not even the upgrade asked for, before
\* the TLS handshake has succeeded, and never when it has failed.
TLSFirst ==
    \/ chain \in {"write_request", "read_response"}
    \/ m_state \in {"OPEN", "CLOSING"}
    \/ writes > 0 \/ wire # <<>>
    => tls = "completed"

\* shutdown() is called once at most, although the peer's close, our own, a
\* failed operation and the close timer may all be waiting to end the
\* connection, and no connection is closed without it.
ShutdownOnce ==
    /\ shutdowns <= 1
    /\ m_state = "CLOSED" => shutdowns = 1 /\ ~blocked
    /\ blocked => shutdowns = 1 /\ Alive

\* The variables have their types, and shutdown() is called once.
TLSInv == TLSTypeOK /\ ShutdownOnce

\* tls.hpp:133 waits for the peer.  This is the only thing that can keep a
\* closing connection from being closed: the close timer and every other way
\* out lead at least into shutdown().
ClosingEndsOrWaits ==
    m_state = "CLOSING" ~> (m_state = "CLOSED" \/ ~Alive \/ []blocked)

\* The completion of a failed TLS handshake as that of the request's write.
PlainHandler(c) ==
    IF c.h = "handle_init" THEN [c EXCEPT !.h = "handle_write_request"] ELSE c

\* The first handler has been told that the TLS handshake succeeded.
Secured == ready # <<>> /\ Head(ready) = HandleInit("ok")

PlainReady ==
    LET kept == IF Secured THEN Tail(ready) ELSE ready
    IN  [i \in DOMAIN kept |-> PlainHandler(kept[i])]

\* The TLS handshake as part of writing the request.
PlainChain == IF tls = "handshake" \/ Secured THEN "write_request" ELSE chain

Plain == INSTANCE WSConnection WITH ready <- PlainReady, chain <- PlainChain

\* With a slow write of the request for the TLS handshake, and a slow handler
\* for each shutdown(), the connection of an https run is one of an http run:
\* what is proved of WSConnection is true of it as well.
ImplementsPlain == Plain!Spec

=============================================================================
