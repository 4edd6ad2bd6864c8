------------------------------ MODULE TokenFetch ------------------------------
(***************************************************************************)
(* How a client gets the token of its WebSocket: _get_token() of           *)
(* src/src/socketio/SocketIOHandler.hpp and the blocking HTTP client of    *)
(* cpp-netlib under it (sync_base.hpp, simple_connection.hpp).             *)
(*                                                                         *)
(* The server's response is a sequence of symbols: a status line, header   *)
(* lines, the blank line, and then the body byte by byte, with the size    *)
(* lines and line ends of its chunks if it is chunked.  The network hands  *)
(* it over in pieces of any size, and may close or reset the connection.   *)
(* `pc' is the library call the thread is in.  A call that reads takes     *)
(* pieces until its completion condition holds or an error ends it, and    *)
(* the step that follows is the code up to the next call.                  *)
(***************************************************************************)
EXTENDS Integers, Sequences

CONSTANTS
    Responses,   \* what the server may answer
    Octets,      \* the bytes of a body
    Digits,      \* the size lines: Digits[n] announces a chunk of n bytes
    Endpoints,   \* the addresses the host resolves to, as a number
    SizeT        \* bound: size_t counts modulo this

ASSUME EndpointsAssumption == Endpoints \in Nat /\ SizeT \in Nat \ {0}

\* A byte is not a whole line of the head.
ASSUME OctetsAssumption == Octets \cap {"status", "h", "f", "blank"} = {}

\* A size line says one thing, and is neither the last one nor a line end.
ASSUME DigitsAssumption ==
    /\ DOMAIN Digits = 1..Len(Digits) /\ Len(Digits) \in Nat
    /\ \A n \in DOMAIN Digits : Digits[n] \notin {"0", "CR", "LF"}
    /\ \A n, m \in DOMAIN Digits : Digits[n] = Digits[m] => n = m

\* A response: its status, its header lines ("h", or "f" for a folded one),
\* how the body is delimited, the Content-Length given (a size_t), the body,
\* how much of it each of its chunks brings it to, and whether the server
\* closes the connection afterwards.
Forms == {"until_close", "length", "bad_length", "chunked", "other_encoding"}

\* What is complete of the body after i chunks; the last of them, which is
\* empty, has number Len(r.chunks) + 1.
ChunkEnd(r, i) ==
    IF i = 0 THEN 0 ELSE IF i \in DOMAIN r.chunks THEN r.chunks[i] ELSE Len(r.body)
ChunkSize(r, i) == ChunkEnd(r, i) - ChunkEnd(r, i - 1)

ResponseOK(r) ==
    /\ r.status \in Nat /\ r.head \in Seq({"h", "f"}) /\ r.form \in Forms
    /\ r.length \in 0..(SizeT - 1) /\ r.body \in Seq(Octets)
    /\ r.form = "chunked" =>
           /\ r.chunks \in Seq(1..Len(r.body))
           /\ \A i, j \in 0..Len(r.chunks) : i < j => ChunkEnd(r, i) < ChunkEnd(r, j)
           /\ \A i \in DOMAIN r.chunks : ChunkSize(r, i) \in 1..Len(Digits)
           /\ ChunkEnd(r, Len(r.chunks)) = Len(r.body)
    /\ r.head = <<>> => r.form = "until_close"
    /\ r.closes \in BOOLEAN

ASSUME ResponsesAssumption == \A r \in Responses : ResponseOK(r)

\* The symbols before chunk i: each chunk has a size line and two line ends.
ChunkStart(r, i) == ChunkEnd(r, i - 1) + 5 * (i - 1)

\* Symbol o of chunk i.
ChunkSymbol(r, i, o) ==
    LET size == ChunkSize(r, i)
    IN CASE o = 1                -> IF size = 0 THEN "0" ELSE Digits[size]
         [] o \in {2, size + 4} -> "CR"
         [] o \in {3, size + 5} -> "LF"
         [] OTHER                -> r.body[ChunkEnd(r, i - 1) + o - 3]

\* The body cut into chunks.
Chunked(r) ==
    [p \in 1..ChunkStart(r, Len(r.chunks) + 2) |->
        LET i == CHOOSE i \in 1..(Len(r.chunks) + 1) :
                     ChunkStart(r, i) < p /\ p <= ChunkStart(r, i + 1)
        IN  ChunkSymbol(r, i, p - ChunkStart(r, i))]

Wire(r) == <<"status">> \o r.head \o <<"blank">>
           \o (IF r.form = "chunked" THEN Chunked(r) ELSE r.body)

VARIABLES
    response,   \* what the server answers
    pc,         \* the call the thread is in, or how the fetch has ended
    endpoint,   \* the address being tried
    rest,       \* what is still to come from the server
    dropped,    \* the connection has been closed or reset too early
    buffer,     \* response_buffer
    got,        \* symbols the present call has read
    error,      \* the error the present call has met
    length,     \* what Content-Length leaves to read
    chunk_size, \* what the present chunk still lacks
    body,       \* body_stream
    cut         \* history: a chunk was read without the line end after it

netvars  == <<response, rest, dropped>>
callvars == <<got, error>>
bodyvars == <<length, chunk_size, body, cut>>
vars     == <<pc, endpoint, buffer, netvars, callvars, bodyvars>>

-----------------------------------------------------------------------------
(* The network.                                                            *)

Outcomes == {"token", "exit", "thrown", "aborted"}

Has(x) == \E i \in DOMAIN buffer : buffer[i] = x

HasLineEnd ==
    \E i \in 1..(Len(buffer) - 1) : buffer[i] = "CR" /\ buffer[i + 1] = "LF"

\* Where read_until() finds the end of the headers: a line end twice in a row,
\* so that there must be a header line before the blank one.
HasHeaders ==
    \E i \in 1..(Len(buffer) - 1) : buffer[i] \in {"h", "f"} /\ buffer[i + 1] = "blank"

\* The completion condition of the present call.  read_until() looks at what
\* is in the buffer; transfer_at_least() counts what this call has read.
Enough ==
    CASE pc = "status"                  -> Has("status")
      [] pc = "headers"                 -> HasHeaders
      [] pc \in {"size_line", "last_line"} -> HasLineEnd
      [] pc \in {"normal", "length"}    -> got >= 1
      [] pc = "chunk"                   -> got >= chunk_size
      [] OTHER                          -> TRUE

Reading == ~Enough /\ error = "none"

ReadSome(k) ==
    /\ Reading /\ k <= Len(rest)
    /\ buffer' = buffer \o SubSeq(rest, 1, k)
    /\ rest' = SubSeq(rest, k + 1, Len(rest))
    /\ got' = got + k
    /\ UNCHANGED <<response, dropped, pc, endpoint, error, bodyvars>>

ReadEof ==
    /\ Reading /\ rest = <<>>
    /\ response.closes \/ dropped
    /\ error' = "eof"
    /\ UNCHANGED <<netvars, pc, endpoint, buffer, got, bodyvars>>

\* The connection is closed by the peer before the response is complete.
Drop ==
    /\ pc \notin {"connect", "write"} \cup Outcomes /\ rest # <<>>
    /\ rest' = <<>> /\ dropped' = TRUE
    /\ UNCHANGED <<response, pc, endpoint, buffer, callvars, bodyvars>>

\* The connection is reset: the present read fails, and any later one.
ReadFails ==
    /\ Reading
    /\ error' = "reset"
    /\ rest' = <<>> /\ dropped' = TRUE
    /\ UNCHANGED <<response, pc, endpoint, buffer, got, bodyvars>>

-----------------------------------------------------------------------------
(* The thread.                                                             *)

\* On to the next call, or to the end of the fetch.
Calls(next) == pc' = next /\ got' = 0 /\ error' = "none"

\* The call has come to an end, as it should or by an error.
Returns(call) == pc = call /\ (Enough \/ error # "none")
Succeeds(call) == pc = call /\ Enough

\* init_socket(): the addresses are tried one after the other.
Connect ==
    /\ pc = "connect" /\ endpoint <= Endpoints
    /\ \/ Calls("write") /\ UNCHANGED endpoint
       \/ endpoint' = endpoint + 1 /\ UNCHANGED <<pc, callvars>>
    /\ UNCHANGED <<netvars, buffer, bodyvars>>

ConnectFails ==
    /\ pc = "connect" /\ endpoint > Endpoints
    /\ Calls("thrown")
    /\ UNCHANGED <<netvars, endpoint, buffer, bodyvars>>

\* send_request_impl().
Write ==
    /\ pc = "write"
    /\ Calls("status") \/ Calls("thrown")
    /\ UNCHANGED <<netvars, endpoint, buffer, bodyvars>>

\* The reads of the status line and the headers throw what they meet.
HeadFails ==
    /\ pc \in {"status", "headers"} /\ ~Enough /\ error # "none"
    /\ Calls("thrown")
    /\ UNCHANGED <<netvars, endpoint, buffer, bodyvars>>

ReadStatus ==
    /\ Succeeds("status")
    /\ buffer' = Tail(buffer)
    /\ Calls("headers")
    /\ UNCHANGED <<netvars, endpoint, bodyvars>>

AfterHeaders == SubSeq(buffer, Len(response.head) + 2, Len(buffer))

\* A first header line that continues another one fails an assertion.
ReadHeadersAborts ==
    /\ Succeeds("headers") /\ buffer[1] = "f"
    /\ Calls("aborted")
    /\ UNCHANGED <<netvars, endpoint, buffer, bodyvars>>

\* read_headers(), and read_body() up to its first read.
ReadHeadersUntilClose ==
    /\ Succeeds("headers") /\ buffer[1] = "h"
    /\ response.form = "until_close"
    /\ body' = AfterHeaders /\ buffer' = <<>>
    /\ Calls("normal")
    /\ UNCHANGED <<netvars, endpoint, length, chunk_size, cut>>

\* Wrong variant: what has been read with the headers is not deducted.
ReadHeadersLengthAll ==
    /\ Succeeds("headers") /\ buffer[1] = "h"
    /\ response.form = "length"
    /\ body' = AfterHeaders /\ buffer' = <<>>
    /\ length' = response.length
    /\ Calls(IF length' = 0 THEN "handle" ELSE "length")
    /\ UNCHANGED <<netvars, endpoint, chunk_size, cut>>

ReadHeadersLength ==
    /\ Succeeds("headers") /\ buffer[1] = "h"
    /\ response.form = "length"
    /\ body' = AfterHeaders /\ buffer' = <<>>
    /\ length' = (response.length - Len(AfterHeaders)) % SizeT
    /\ Calls(IF length' = 0 THEN "handle" ELSE "length")
    /\ UNCHANGED <<netvars, endpoint, chunk_size, cut>>

ReadHeadersChunked ==
    /\ Succeeds("headers") /\ buffer[1] = "h"
    /\ response.form = "chunked"
    /\ buffer' = AfterHeaders
    /\ Calls("size_line")
    /\ UNCHANGED <<netvars, endpoint, bodyvars>>

ReadHeadersThrows ==
    /\ Succeeds("headers") /\ buffer[1] = "h"
    /\ response.form \in {"bad_length", "other_encoding"}
    /\ Calls("thrown")
    /\ UNCHANGED <<netvars, endpoint, buffer, bodyvars>>

\* read_body_normal(): any error is the end of the body.
ReadNormal ==
    /\ Returns("normal")
    /\ body' = body \o buffer /\ buffer' = <<>>
    /\ Calls(IF got = 0 THEN "handle" ELSE "normal")
    /\ UNCHANGED <<netvars, endpoint, length, chunk_size, cut>>

\* Wrong variant: the Content-Length body is read once and not to its end.
ReadLengthOnce ==
    /\ Returns("length")
    /\ body' = body \o buffer /\ buffer' = <<>>
    /\ length' = (length - got) % SizeT
    /\ Calls("handle")
    /\ UNCHANGED <<netvars, endpoint, chunk_size, cut>>

\* The loop of the Content-Length body: any error is the end of the body, and
\* so is a length that has come down to exactly 0.
ReadLength ==
    /\ Returns("length")
    /\ body' = body \o buffer /\ buffer' = <<>>
    /\ length' = (length - got) % SizeT
    /\ Calls(IF got = 0 \/ error # "none" \/ length' = 0
             THEN "handle" ELSE "length")
    /\ UNCHANGED <<netvars, endpoint, chunk_size, cut>>

\* What getline() takes from the buffer, and what it leaves.
LineEnd == IF Has("LF") THEN CHOOSE i \in DOMAIN buffer :
                                 /\ buffer[i] = "LF"
                                 /\ \A j \in 1..(i - 1) : buffer[j] # "LF"
           ELSE Len(buffer)
AfterLine == SubSeq(buffer, LineEnd + 1, Len(buffer))

\* A line that does not begin with a number gives 0.
LineSize == IF buffer # <<>> /\ \E n \in DOMAIN Digits : Digits[n] = buffer[1]
            THEN CHOOSE n \in DOMAIN Digits : Digits[n] = buffer[1] ELSE 0

\* The line with the size of the next chunk.  The end of the connection is
\* not an error here.
ReadSizeLine ==
    /\ Returns("size_line")
    /\ Enough \/ error = "eof"
    /\ buffer' = AfterLine
    /\ chunk_size' = LineSize
    /\ Calls(IF LineSize = 0 THEN "last_line" ELSE "chunk")
    /\ UNCHANGED <<netvars, endpoint, length, body, cut>>

ReadLastLine ==
    /\ Returns("last_line")
    /\ Enough \/ error = "eof"
    /\ Calls("handle")
    /\ UNCHANGED <<netvars, endpoint, buffer, bodyvars>>

ReadLineFails ==
    /\ pc \in {"size_line", "last_line"} /\ ~Enough /\ error = "reset"
    /\ Calls("thrown")
    /\ UNCHANGED <<netvars, endpoint, buffer, bodyvars>>

\* As much of the chunk as is in the buffer.
Taken == IF chunk_size <= Len(buffer) THEN chunk_size ELSE Len(buffer)

\* Wrong variant: a chunk that lacks bytes at the end is taken as it is.
ReadChunkShort ==
    /\ Returns("chunk")
    /\ got = 0 => error = "eof"
    /\ LET after == SubSeq(buffer, Taken + 1, Len(buffer))
       IN  /\ body' = body \o SubSeq(buffer, 1, Taken)
           /\ chunk_size' = chunk_size - Taken
           /\ buffer' = SubSeq(after, 3, Len(after))
           /\ cut' = (cut \/ Len(after) < 2)
    /\ Calls("size_line")
    /\ UNCHANGED <<netvars, endpoint, length>>

\* Wrong variant: all that is buffered is taken for the chunk.
ReadChunkGreedy ==
    /\ Returns("chunk")
    /\ got = 0 => error = "eof"
    /\ body' = body \o buffer /\ buffer' = <<>>
    /\ chunk_size' = 0 /\ cut' = cut
    /\ Calls("size_line")
    /\ UNCHANGED <<netvars, endpoint, length>>

\* The bytes of a chunk, then consume(2) for its line end, of which it takes
\* as much as has arrived.  Without an error the chunk is complete; after one
\* the loop reads again, until nothing more comes.
ReadChunk ==
    /\ Returns("chunk")
    /\ got = 0 => error = "eof"
    /\ LET after == SubSeq(buffer, Taken + 1, Len(buffer))
       IN  /\ body' = body \o SubSeq(buffer, 1, Taken)
           /\ chunk_size' = chunk_size - Taken
           /\ buffer' = SubSeq(after, 3, Len(after))
           /\ cut' = (cut \/ Len(after) < 2)
    /\ Calls(IF chunk_size' = 0 THEN "size_line"
             ELSE IF got = 0 THEN "thrown" ELSE "chunk")
    /\ UNCHANGED <<netvars, endpoint, length>>

ReadChunkFails ==
    /\ pc = "chunk" /\ got = 0 /\ error = "reset"
    /\ Calls("thrown")
    /\ UNCHANGED <<netvars, endpoint, buffer, bodyvars>>

\* _get_token() looks at the status of the response it has got.
HandleResponse ==
    /\ pc = "handle"
    /\ Calls(IF response.status = 200 THEN "token" ELSE "exit")
    /\ UNCHANGED <<netvars, endpoint, buffer, bodyvars>>

Ended == pc \in Outcomes /\ UNCHANGED vars

-----------------------------------------------------------------------------

Init ==
    /\ response \in Responses
    /\ pc = "connect" /\ endpoint = 1
    /\ rest = Wire(response) /\ dropped = FALSE
    /\ buffer = <<>> /\ got = 0 /\ error = "none"
    /\ length = 0 /\ chunk_size = 0 /\ body = <<>> /\ cut = FALSE

Thread ==
    \/ Connect \/ ConnectFails \/ Write
    \/ HeadFails \/ ReadStatus \/ ReadHeadersAborts \/ ReadHeadersUntilClose
    \/ ReadHeadersLength \/ ReadHeadersChunked \/ ReadHeadersThrows
    \/ ReadNormal \/ ReadLength
    \/ ReadSizeLine \/ ReadLastLine \/ ReadLineFails
    \/ ReadChunk \/ ReadChunkFails
    \/ HandleResponse

Delivers == (\E k \in 1..Len(rest) : ReadSome(k)) \/ ReadEof

Next == Thread \/ Delivers \/ Drop \/ ReadFails \/ Ended

\* What the server sends arrives, and its closing is noticed; there is no
\* timeout anywhere in the client.
FairSpec == Init /\ [][Next]_vars /\ WF_vars(Thread) /\ WF_vars(Delivers)

-----------------------------------------------------------------------------
(* Properties.                                                             *)

TypeOK ==
    /\ response \in Responses /\ endpoint \in 1..(Endpoints + 1)
    /\ pc \in {"connect", "write", "status", "headers", "normal", "length",
              "size_line", "chunk", "last_line", "handle"} \cup Outcomes
    /\ LET w == Wire(response)
       IN  \E k \in 0..Len(w) : rest = SubSeq(w, k + 1, Len(w))
    /\ dropped \in BOOLEAN
    /\ got \in 0..Len(Wire(response)) /\ error \in {"none", "eof", "reset"}
    /\ body \in Seq(Octets)
    /\ length \in 0..(SizeT - 1) /\ chunk_size \in 0..Len(Digits) /\ cut \in BOOLEAN

\* However the response is cut into pieces, nothing but bytes of the body
\* gets into the body, and none in the wrong place: a line end of a chunk
\* that has not arrived with it is never taken for data, nor data for a size.
\* A token that ends at a colon is therefore the server's.
BodyIsPrefix ==
    Len(body) <= Len(response.body) /\ body = SubSeq(response.body, 1, Len(body))

\* The variables have their types, and the body is the server's so far.
FetchInv == TypeOK /\ BodyIsPrefix

\* A token comes from the whole body, unless the connection broke, which
\* read_body() mostly takes for the end of the body, or a chunk was read
\* whose line end came in a later piece: the next size line is then read as
\* empty and ends the body.
TokenFromWholeBody ==
    pc = "token" /\ ~dropped /\ ~cut
    /\ (response.form = "length" => response.length >= Len(response.body))
    => body = response.body

\* A chunked body that ends too early is noticed inside a chunk: what is
\* accepted is made of whole chunks.
WholeChunks ==
    pc = "token" /\ response.form = "chunked" =>
        \E n \in 0..Len(response.chunks) : Len(body) = ChunkEnd(response, n)

\* The fetch ends once the server has closed the connection, whatever it has
\* sent, and with a Content-Length that is right it does not even depend on
\* that.  A chunked body does: a chunk that is in the buffer already is waited
\* for again.
FetchEnds ==
    \/ response.closes \/ dropped
    \/ response.form = "length" /\ response.length = Len(response.body)
    ~> pc \in Outcomes

=============================================================================
