------------------------ MODULE WSConnection_proofs -------------------------
(***************************************************************************)
(* Proofs about WSConnection, for every handler and every value of the     *)
(* bounds: its inductive invariant, and the safety properties it implies.  *)
(* The first part says what a step does to the views of the queue of       *)
(* handlers that the invariant is stated with, the last part which         *)
(* messages it submits.                                                    *)
(***************************************************************************)
EXTENDS WSConnectionInvariant, TLAPS

-----------------------------------------------------------------------------
(* The views of the queue of completion handlers, when one is appended and *)
(* when the first one is taken off.                                        *)

LEMMA AppendViews ==
    ASSUME NEW s \in Seq(Handlers), NEW x \in Handlers
    PROVE  /\ Append(s, x) \in Seq(Handlers)
           /\ \A H : Any(Append(s, x), H) <=> Any(s, H) \/ x.h \in H
           /\ \A H, ec : Has(Append(s, x), H, ec)
                             <=> Has(s, H, ec) \/ (x.h \in H /\ x.ec = ec)
           /\ \A H : AtMostOne(s, H) /\ (x.h \in H => ~Any(s, H))
                         => AtMostOne(Append(s, x), H)
  <1> DEFINE t == Append(s, x)
  <1>1. /\ t \in Seq(Handlers) /\ Len(t) = Len(s) + 1 /\ Len(s) \in Nat
        /\ DOMAIN t = 1..(Len(s) + 1) /\ DOMAIN s = 1..Len(s)
        /\ \A i \in DOMAIN s : t[i] = s[i]
        /\ t[Len(s) + 1] = x
    OBVIOUS
  <1>2. \A i \in DOMAIN t : i \in DOMAIN s \/ i = Len(s) + 1
    BY <1>1
  <1>3. DOMAIN s \subseteq DOMAIN t /\ Len(s) + 1 \in DOMAIN t
    BY <1>1
  <1> HIDE DEF t
  <1>4. \A H : Any(t, H) <=> Any(s, H) \/ x.h \in H
    BY <1>1, <1>2, <1>3 DEF Any
  <1>5. \A H, ec : Has(t, H, ec) <=> Has(s, H, ec) \/ (x.h \in H /\ x.ec = ec)
    BY <1>1, <1>2, <1>3 DEF Has
  <1>6. \A H : AtMostOne(s, H) /\ (x.h \in H => ~Any(s, H)) => AtMostOne(t, H)
    BY <1>1, <1>2, <1>3 DEF AtMostOne, Any
  <1> QED BY <1>1, <1>4, <1>5, <1>6 DEF t

LEMMA TailViews ==
    ASSUME NEW s \in Seq(Handlers), s # <<>>
    PROVE  /\ Head(s) \in Handlers /\ Tail(s) \in Seq(Handlers)
           /\ \A H : Any(s, H) <=> Head(s).h \in H \/ Any(Tail(s), H)
           /\ \A H, ec : Has(s, H, ec)
                  <=> (Head(s).h \in H /\ Head(s).ec = ec) \/ Has(Tail(s), H, ec)
           /\ \A H : AtMostOne(s, H) =>
                  /\ AtMostOne(Tail(s), H)
                  /\ Head(s).h \in H => ~Any(Tail(s), H)
  <1> DEFINE t == Tail(s)
  <1>1. /\ t \in Seq(Handlers) /\ Len(s) \in Nat /\ Len(s) > 0
        /\ DOMAIN t = 1..(Len(s) - 1) /\ DOMAIN s = 1..Len(s)
        /\ \A i \in DOMAIN t : t[i] = s[i + 1]
        /\ Head(s) = s[1] /\ s[1] \in Handlers
    OBVIOUS
  <1>2. \A i \in DOMAIN s : i = 1 \/ (i - 1 \in DOMAIN t /\ t[i - 1] = s[i])
    BY <1>1
  <1>3. 1 \in DOMAIN s /\ \A i \in DOMAIN t : i + 1 \in DOMAIN s /\ i + 1 # 1
    BY <1>1
  <1> HIDE DEF t
  <1>4. \A H : Any(s, H) <=> Head(s).h \in H \/ Any(t, H)
    BY <1>1, <1>2, <1>3 DEF Any
  <1>5. \A H, ec : Has(s, H, ec)
            <=> (Head(s).h \in H /\ Head(s).ec = ec) \/ Has(t, H, ec)
    BY <1>1, <1>2, <1>3 DEF Has
  <1>6. ASSUME NEW H, AtMostOne(s, H)
        PROVE  AtMostOne(t, H)
    <2> SUFFICES ASSUME NEW i \in DOMAIN t, NEW j \in DOMAIN t,
                        t[i].h \in H, t[j].h \in H
                 PROVE  i = j
      BY DEF AtMostOne
    <2>1. i + 1 = j + 1
      BY <1>1, <1>3, <1>6 DEF AtMostOne
    <2> QED BY <2>1, <1>1
  <1>7. ASSUME NEW H, AtMostOne(s, H), Head(s).h \in H, Any(t, H)
        PROVE  FALSE
    <2>1. PICK i \in DOMAIN t : t[i].h \in H
      BY <1>7 DEF Any
    <2> QED BY <2>1, <1>1, <1>3, <1>7 DEF AtMostOne
  <1> QED BY <1>1, <1>4, <1>5, <1>6, <1>7 DEF t

LEMMA NumbersTyped ==
    ASSUME NEW s \in Seq(Handlers)
    PROVE  Numbers(s) \subseteq Nat
  <1>1. \A i \in Posts(s) : s[i] \in Handlers
    BY DEF Posts
  <1>2. \A x \in Handlers : x.msg.n \in Nat
    BY DEF Handlers, Message
  <1> QED BY <1>1, <1>2 DEF Numbers

\* A handler other than write_message leaves the numbers alone, and the
\* post of message n adds n.
LEMMA AppendNumbers ==
    ASSUME NEW s \in Seq(Handlers), NEW x \in Handlers
    PROVE  /\ x.h # "write_message" =>
                  /\ Numbers(Append(s, x)) = Numbers(s)
                  /\ Increasing(s) => Increasing(Append(s, x))
           /\ x.h = "write_message" =>
                  /\ Numbers(Append(s, x)) = Numbers(s) \cup {x.msg.n}
                  /\ Increasing(s) /\ (\A n \in Numbers(s) : n < x.msg.n)
                         => Increasing(Append(s, x))
  <1> DEFINE t == Append(s, x)
  <1>1. /\ Len(s) \in Nat
        /\ DOMAIN t = 1..(Len(s) + 1) /\ DOMAIN s = 1..Len(s)
        /\ \A i \in DOMAIN s : t[i] = s[i]
        /\ t[Len(s) + 1] = x
    OBVIOUS
  <1> HIDE DEF t
  <1>2. CASE x.h # "write_message"
    <2>1. Posts(t) = Posts(s)
      BY <1>1, <1>2 DEF Posts
    <2>2. \A i \in Posts(s) : t[i] = s[i]
      BY <1>1 DEF Posts
    <2> QED BY <1>2, <2>1, <2>2 DEF Numbers, Increasing, t
  <1>3. CASE x.h = "write_message"
    <2>1. Posts(t) = Posts(s) \cup {Len(s) + 1}
      BY <1>1, <1>3 DEF Posts
    <2>2. \A i \in Posts(s) : t[i] = s[i] /\ i \in Nat /\ i < Len(s) + 1
      BY <1>1 DEF Posts
    <2>3. Numbers(t) = Numbers(s) \cup {x.msg.n}
      BY <1>1, <2>1, <2>2 DEF Numbers
    <2>4. ASSUME Increasing(s), \A n \in Numbers(s) : n < x.msg.n
          PROVE  Increasing(t)
      <3> SUFFICES ASSUME NEW i \in Posts(t), NEW j \in Posts(t), i < j
                   PROVE  t[i].msg.n < t[j].msg.n
        BY DEF Increasing
      <3>1. i \in Posts(s)
        BY <1>1, <2>1, <2>2
      <3>2. CASE j \in Posts(s)
        BY <2>2, <2>4, <3>1, <3>2 DEF Increasing
      <3>3. CASE j = Len(s) + 1
        BY <1>1, <2>2, <2>4, <3>1, <3>3 DEF Numbers
      <3> QED BY <2>1, <3>2, <3>3
    <2> QED BY <1>3, <2>3, <2>4 DEF t
  <1> QED BY <1>2, <1>3

\* The first post holds the least number.
LEMMA TailNumbers ==
    ASSUME NEW s \in Seq(Handlers), s # <<>>
    PROVE  /\ Increasing(s) => Increasing(Tail(s))
           /\ Head(s).h # "write_message" => Numbers(Tail(s)) = Numbers(s)
           /\ Head(s).h = "write_message" /\ Increasing(s) =>
                  /\ Numbers(s) = Numbers(Tail(s)) \cup {Head(s).msg.n}
                  /\ \A n \in Numbers(Tail(s)) : Head(s).msg.n < n
  <1> DEFINE t == Tail(s)
  <1>1. /\ Len(s) \in Nat /\ Len(s) > 0
        /\ DOMAIN t = 1..(Len(s) - 1) /\ DOMAIN s = 1..Len(s)
        /\ \A i \in DOMAIN t : t[i] = s[i + 1]
        /\ Head(s) = s[1]
    OBVIOUS
  <1> HIDE DEF t
  <1>2. \A i \in Posts(t) : i + 1 \in Posts(s) /\ t[i] = s[i + 1] /\ i \in Nat /\ i >= 1
    BY <1>1 DEF Posts
  <1>3. \A i \in Posts(s) : i = 1 \/ (i - 1 \in Posts(t) /\ t[i - 1] = s[i])
    BY <1>1 DEF Posts
  <1>4. ASSUME Increasing(s) PROVE Increasing(t)
    <2> SUFFICES ASSUME NEW i \in Posts(t), NEW j \in Posts(t), i < j
                 PROVE  t[i].msg.n < t[j].msg.n
      BY DEF Increasing
    <2>1. i + 1 < j + 1 /\ i + 1 \in Posts(s) /\ j + 1 \in Posts(s)
      BY <1>2
    <2> QED BY <1>2, <1>4, <2>1 DEF Increasing
  <1>5. ASSUME Head(s).h # "write_message" PROVE Numbers(t) = Numbers(s)
    <2>1. 1 \notin Posts(s)
      BY <1>1, <1>5 DEF Posts
    <2> QED BY <1>2, <1>3, <2>1 DEF Numbers
  <1>6. ASSUME Head(s).h = "write_message", Increasing(s)
        PROVE  /\ Numbers(s) = Numbers(t) \cup {Head(s).msg.n}
               /\ \A n \in Numbers(t) : Head(s).msg.n < n
    <2>1. 1 \in Posts(s)
      BY <1>1, <1>6 DEF Posts
    <2>2. Numbers(s) = Numbers(t) \cup {Head(s).msg.n}
      BY <1>1, <1>2, <1>3, <2>1 DEF Numbers
    <2>3. \A i \in Posts(t) : Head(s).msg.n < t[i].msg.n
      BY <1>1, <1>2, <1>6, <2>1 DEF Increasing
    <2> QED BY <2>2, <2>3 DEF Numbers
  <1> QED BY <1>4, <1>5, <1>6 DEF t

-----------------------------------------------------------------------------
(* What the operators that handlers share do to the queue.                 *)

LEMMA CompletionTyped ==
    ASSUME NEW h \in HandlerNames, NEW ec \in Errors
    PROVE  /\ Completion(h, ec) \in Handlers
           /\ Completion(h, ec).h = h /\ Completion(h, ec).ec = ec
  BY DEF Completion, Handlers, NoMessage, Message, Ops

LEMMA WriteMessageTyped ==
    ASSUME NEW op \in Ops, NEW text \in Text \cup {NoText}, NEW n \in Nat
    PROVE  /\ WriteMessage(op, text, n) \in Handlers
           /\ WriteMessage(op, text, n).h = "write_message"
           /\ WriteMessage(op, text, n).msg.n = n
  BY DEF WriteMessage, Handlers, HandlerNames, Errors, Message

LEMMA OwnFrameTyped ==
    ASSUME NEW op \in Ops, NEW n \in Nat
    PROVE  LET x == WriteMessage(op, NoText, n + 1)
           IN  x \in Handlers /\ x.h = "write_message" /\ x.msg.n = n + 1
  <1>1. n + 1 \in Nat /\ NoText \in Text \cup {NoText}
    OBVIOUS
  <1> QED BY <1>1, WriteMessageTyped

\* To the handlers with a name in H, r and s are the same queue.
SameFor(r, s, H) ==
    /\ Any(r, H) <=> Any(s, H)
    /\ Has(r, H, "ok") <=> Has(s, H, "ok")
    /\ AtMostOne(s, H) => AtMostOne(r, H)

\* r is s, but perhaps for the handlers with a name in names.
SameBut(r, s, names) ==
    /\ r \in Seq(Handlers)
    /\ \A H : H \cap names = {} => SameFor(r, s, H)
    /\ "write_message" \notin names =>
           Numbers(r) = Numbers(s) /\ (Increasing(s) => Increasing(r))

LEMMA AppendIfViews ==
    ASSUME NEW c \in BOOLEAN, NEW s \in Seq(Handlers), NEW x \in Handlers
    PROVE  SameBut(AppendIf(c, s, x), s, {x.h})
  <1>1. CASE c
    <2>1. AppendIf(c, s, x) = Append(s, x)
      BY <1>1 DEF AppendIf
    <2>2. \A H : H \cap {x.h} = {} => SameFor(Append(s, x), s, H)
      BY AppendViews DEF SameFor
    <2> QED BY <2>1, <2>2, AppendViews, AppendNumbers DEF SameBut
  <1>2. CASE ~c
    BY <1>2 DEF AppendIf, SameBut, SameFor
  <1> QED BY <1>1, <1>2

LEMMA SameButTransitive ==
    ASSUME NEW r, NEW s, NEW t, NEW M, NEW N,
           SameBut(r, s, M), SameBut(s, t, N)
    PROVE  SameBut(r, t, M \cup N)
  <1>1. ASSUME NEW H, H \cap (M \cup N) = {}
        PROVE  SameFor(r, t, H)
    <2>1. H \cap M = {} /\ H \cap N = {}
      BY <1>1
    <2> QED BY <2>1 DEF SameBut, SameFor
  <1> QED BY <1>1 DEF SameBut

LEMMA TailSame ==
    ASSUME NEW s \in Seq(Handlers), s # <<>>
    PROVE  SameBut(Tail(s), s, {Head(s).h})
  <1>1. \A H : H \cap {Head(s).h} = {} => SameFor(Tail(s), s, H)
    BY TailViews DEF SameFor
  <1> QED BY <1>1, TailViews, TailNumbers DEF SameBut

States == {"CONNECTING", "OPEN", "CLOSING", "CLOSED"}

\* A callback posts what it calls for: handlers of its timer, a message, a
\* close or a termination.
LEMMA CallbackReadyViews ==
    ASSUME app_timer \in BOOLEAN, m_detached \in BOOLEAN, posted \in Nat,
           NEW cb \in Behaviours, NEW rdy \in Seq(Handlers), NEW st \in States
    PROVE  LET r == CallbackReady(cb, rdy, st) IN
           /\ SameBut(r, rdy, {"app_timer", "write_message", "send_close", "terminate"})
           /\ st # "OPEN" => SameBut(r, rdy, OfHandler)
           /\ st # "CONNECTING" \/ m_detached =>
                  SameBut(r, rdy, {"app_timer", "write_message", "send_close"})
           /\ Numbers(r) = IF Sends(cb, st) THEN Numbers(rdy) \cup {posted + 1}
                           ELSE Numbers(rdy)
           /\ Increasing(rdy) /\ (\A n \in Numbers(rdy) : n <= posted)
                  => Increasing(r)
  <1> DEFINE c1 == app_timer /\ cb.timer # "keep"
             x1 == Completion("app_timer", "aborted")
             r1 == AppendIf(c1, rdy, x1)
             c2 == Sends(cb, st)
             x2 == WriteMessage("TEXT", cb.text, posted + 1)
             r2 == AppendIf(c2, r1, x2)
             c3 == st = "OPEN" /\ cb.call = "close"
             x3 == Completion("send_close", "ok")
             r3 == AppendIf(c3, r2, x3)
             c4 == st = "CONNECTING" /\ ~m_detached /\ cb.call = "close"
             x4 == Completion("terminate", "ok")
             r4 == AppendIf(c4, r3, x4)
  <1>1. CallbackReady(cb, rdy, st) = r4
    BY DEF CallbackReady
  <1>2. /\ c1 \in BOOLEAN /\ c2 \in BOOLEAN /\ c3 \in BOOLEAN /\ c4 \in BOOLEAN
    BY DEF Sends
  <1>3. /\ x1 \in Handlers /\ x1.h = "app_timer"
        /\ x3 \in Handlers /\ x3.h = "send_close"
        /\ x4 \in Handlers /\ x4.h = "terminate"
    BY CompletionTyped DEF HandlerNames, Errors
  <1>4. cb.text \in Text \cup {NoText}
    BY BehavioursAssumption DEF Callbacks
  <1>5. x2 \in Handlers /\ x2.h = "write_message" /\ x2.msg.n = posted + 1
    BY <1>4, WriteMessageTyped DEF Ops
  <1>6. st # "OPEN" => ~c2 /\ ~c3
    BY DEF Sends
  <1>7. st # "CONNECTING" \/ m_detached => ~c4
    OBVIOUS
  <1> HIDE DEF c1, c2, c3, c4, x1, x2, x3, x4
  <1>11. SameBut(r1, rdy, {"app_timer"})
    BY <1>2, <1>3, AppendIfViews
  <1>12. SameBut(r2, r1, {"write_message"}) /\ (~c2 => r2 = r1)
    <2>1. r1 \in Seq(Handlers)
      BY <1>11 DEF SameBut
    <2> QED BY <1>2, <1>5, <2>1, AppendIfViews DEF AppendIf
  <1>13. SameBut(r3, r2, {"send_close"}) /\ (~c3 => r3 = r2)
    <2>1. r2 \in Seq(Handlers)
      BY <1>12 DEF SameBut
    <2> QED BY <1>2, <1>3, <2>1, AppendIfViews DEF AppendIf
  <1>14. SameBut(r4, r3, {"terminate"}) /\ (~c4 => r4 = r3)
    <2>1. r3 \in Seq(Handlers)
      BY <1>13 DEF SameBut
    <2> QED BY <1>2, <1>3, <2>1, AppendIfViews DEF AppendIf
  <1>15. /\ Numbers(r2) = IF c2 THEN Numbers(r1) \cup {posted + 1} ELSE Numbers(r1)
         /\ Increasing(r1) /\ (\A n \in Numbers(r1) : n <= posted)
                => Increasing(r2)
    <2>1. r1 \in Seq(Handlers)
      BY <1>11 DEF SameBut
    <2>2. CASE c2
      <3>1. r2 = Append(r1, x2)
        BY <2>2 DEF AppendIf
      <3>2. Numbers(r2) = Numbers(r1) \cup {x2.msg.n}
        BY <1>5, <2>1, <3>1, AppendNumbers
      <3>3. ASSUME \A n \in Numbers(r1) : n <= posted, Increasing(r1)
            PROVE  Increasing(r2)
        <4>1. \A n \in Numbers(r1) : n \in Nat
          BY <2>1, NumbersTyped
        <4>2. \A n \in Numbers(r1) : n < x2.msg.n
          BY <1>5, <3>3, <4>1
        <4> QED BY <1>5, <2>1, <3>1, <3>3, <4>2, AppendNumbers
      <3> QED BY <1>5, <2>2, <3>2, <3>3
    <2>3. CASE ~c2
      BY <1>12, <2>3
    <2> QED BY <1>2, <2>2, <2>3
  <1> HIDE DEF r1, r2, r3, r4
  <1>16. SameBut(r4, rdy, {"app_timer", "write_message", "send_close", "terminate"})
    <2>1. SameBut(r2, rdy, {"write_message"} \cup {"app_timer"})
      BY <1>11, <1>12, SameButTransitive
    <2>2. SameBut(r3, rdy, {"send_close"} \cup ({"write_message"} \cup {"app_timer"}))
      BY <1>13, <2>1, SameButTransitive
    <2>3. SameBut(r4, rdy, {"terminate"} \cup ({"send_close"} \cup ({"write_message"} \cup {"app_timer"})))
      BY <1>14, <2>2, SameButTransitive
    <2>4. {"terminate"} \cup ({"send_close"} \cup ({"write_message"} \cup {"app_timer"}))
            = {"app_timer", "write_message", "send_close", "terminate"}
      OBVIOUS
    <2> QED BY <2>3, <2>4
  <1>17. st # "OPEN" => SameBut(r4, rdy, OfHandler)
    <2>1. st # "OPEN" => r3 = r1
      BY <1>6, <1>12, <1>13
    <2>2. st # "OPEN" => SameBut(r4, rdy, {"terminate"} \cup {"app_timer"})
      BY <1>11, <1>14, <2>1, SameButTransitive
    <2>3. {"terminate"} \cup {"app_timer"} = OfHandler
      BY DEF OfHandler, Alarm
    <2> QED BY <2>2, <2>3
  <1>18. st # "CONNECTING" \/ m_detached =>
             SameBut(r4, rdy, {"app_timer", "write_message", "send_close"})
    <2>1. SameBut(r2, rdy, {"write_message"} \cup {"app_timer"})
      BY <1>11, <1>12, SameButTransitive
    <2>2. SameBut(r3, rdy, {"send_close"} \cup ({"write_message"} \cup {"app_timer"}))
      BY <1>13, <2>1, SameButTransitive
    <2>3. {"send_close"} \cup ({"write_message"} \cup {"app_timer"})
            = {"app_timer", "write_message", "send_close"}
      OBVIOUS
    <2> QED BY <1>7, <1>14, <2>2, <2>3
  <1>19. /\ Numbers(r1) = Numbers(rdy) /\ (Increasing(rdy) => Increasing(r1))
         /\ Numbers(r3) = Numbers(r2) /\ (Increasing(r2) => Increasing(r3))
         /\ Numbers(r4) = Numbers(r3) /\ (Increasing(r3) => Increasing(r4))
    BY <1>11, <1>13, <1>14 DEF SameBut
  <1> QED
    BY <1>1, <1>15, <1>16, <1>17, <1>18, <1>19 DEF c2


\* What a callback does to the handler's timer and to the numbers.
LEMMA CallbackCallsTyped ==
    ASSUME TypeOK, NEW cb \in Behaviours, NEW st \in States,
           CallbackCalls(cb, st)
    PROVE  /\ posted' = IF Sends(cb, st) THEN posted + 1 ELSE posted
           /\ posted' \in Nat /\ app_timer' \in BOOLEAN
  <1>1. posted' = IF Sends(cb, st) THEN posted + 1 ELSE posted
    BY DEF CallbackCalls
  <1>2. posted \in Nat /\ app_timer \in BOOLEAN
    BY DEF TypeOK
  <1>3. app_timer' \in BOOLEAN
    <2>1. (cb.timer = "rearm") \in BOOLEAN
      OBVIOUS
    <2> QED BY <1>2, <2>1 DEF CallbackCalls
  <1> QED BY <1>1, <1>2, <1>3

\* It may end the process besides.
LEMMA CallbackEffectsTyped ==
    ASSUME TypeOK, NEW cb \in Behaviours, NEW st \in States,
           CallbackEffects(cb, st)
    PROVE  /\ posted' = IF Sends(cb, st) THEN posted + 1 ELSE posted
           /\ posted' \in Nat /\ app_timer' \in BOOLEAN
           /\ proc' \in {proc, "handler"}
  <1>1. CallbackCalls(cb, st) /\ proc' \in {proc, "handler"}
    BY DEF CallbackEffects
  <1> QED BY <1>1, CallbackCallsTyped

\* terminate() closes the connection, whatever its state was.
LEMMA TerminateFacts ==
    ASSUME TypeOK, NEW cb \in Behaviours, NEW rdy \in Seq(Handlers),
           Terminate(cb, rdy)
    PROVE  /\ m_state' = "CLOSED" /\ posted' = posted
           /\ SameBut(ready', rdy, Expiry \cup OfHandler)
           /\ m_timer' \in BOOLEAN /\ m_detached' \in BOOLEAN /\ ended' \in Nat
           /\ app_timer' \in BOOLEAN
           /\ proc' \in {proc, "handler", "log_close_result"}
  <1>1. CASE m_state = "CLOSED"
    BY <1>1 DEF Terminate, TypeOK, SameBut, SameFor, sockvars, appvars
  <1>2. CASE m_state # "CLOSED"
    <2> DEFINE x == Completion("fail_on_expire", "aborted")
               r == AppendIf(m_timer, rdy, x)
    <2>1. /\ m_timer' = FALSE /\ m_state' = "CLOSED" /\ ended' = ended + 1
          /\ m_detached' = TRUE
          /\ ready' = CallbackReady(cb, r, "CLOSED")
          /\ CallbackCalls(cb, "CLOSED")
          /\ proc' \in {proc, "handler", "log_close_result"}
      BY <1>2 DEF Terminate
    <2>2. x \in Handlers /\ x.h = "fail_on_expire"
      BY CompletionTyped DEF HandlerNames, Errors
    <2>3. SameBut(r, rdy, {"fail_on_expire"})
      <3> HIDE DEF x
      <3> QED BY <2>2, AppendIfViews DEF TypeOK
    <2>4. r \in Seq(Handlers)
      BY <2>3 DEF SameBut
    <2> HIDE DEF r
    <2>5. SameBut(ready', r, OfHandler)
      BY <2>1, <2>4, CallbackReadyViews DEF States, TypeOK
    <2>6. SameBut(ready', rdy, OfHandler \cup {"fail_on_expire"})
      BY <2>3, <2>5, SameButTransitive
    <2>7. OfHandler \cup {"fail_on_expire"} = Expiry \cup OfHandler
      BY DEF Expiry
    <2>8. /\ posted' = posted /\ app_timer' \in BOOLEAN
          /\ proc' \in {proc, "handler", "log_close_result"}
      BY <2>1, CallbackCallsTyped DEF States, Sends
    <2>9. m_timer' \in BOOLEAN /\ m_detached' \in BOOLEAN /\ ended' \in Nat
      <3>1. m_timer' \in BOOLEAN
        BY <2>1
      <3>2. m_detached' \in BOOLEAN
        BY <2>1
      <3>3. ended' \in Nat
        BY <2>1 DEF TypeOK
      <3> QED BY <3>1, <3>2, <3>3
    <2>10. SameBut(ready', rdy, Expiry \cup OfHandler)
      BY <2>6, <2>7
    <2> QED BY <2>1, <2>8, <2>9, <2>10
  <1> QED BY <1>1, <1>2

\* send_close() posts a close frame and starts the close timer, or does
\* nothing.
LEMMA SendCloseFacts ==
    ASSUME TypeOK, NEW op \in Ops, NEW rdy \in Seq(Handlers),
           SendClose(op, rdy)
    PROVE  /\ SameBut(ready', rdy, {"write_message"})
           /\ m_state' \in States /\ m_timer' \in BOOLEAN /\ posted' \in Nat
           /\ m_state # "OPEN" \/ m_detached =>
                  ready' = rdy /\ UNCHANGED <<m_state, m_timer, posted>>
           /\ m_state = "OPEN" /\ ~m_detached =>
                  /\ m_state' = "CLOSING" /\ m_timer' = TRUE
                  /\ posted' = posted + 1
                  /\ Numbers(ready') = Numbers(rdy) \cup {posted + 1}
                  /\ Increasing(rdy) /\ (\A n \in Numbers(rdy) : n <= posted)
                         => Increasing(ready')
  <1>1. CASE m_detached \/ m_state # "OPEN"
    BY <1>1 DEF SendClose, TypeOK, States, SameBut, SameFor
  <1>2. CASE ~m_detached /\ m_state = "OPEN"
    <2> DEFINE x == WriteMessage(op, NoText, posted + 1)
    <2>1. /\ m_state' = "CLOSING" /\ m_timer' = TRUE /\ posted' = posted + 1
          /\ ready' = Append(rdy, x) /\ posted \in Nat
      BY <1>2 DEF SendClose, TypeOK
    <2>2. x \in Handlers /\ x.h = "write_message" /\ x.msg.n = posted + 1
      <3>1. posted + 1 \in Nat /\ NoText \in Text \cup {NoText}
        BY <2>1
      <3> QED BY <3>1, WriteMessageTyped
    <2> HIDE DEF x
    <2>3. SameBut(ready', rdy, {"write_message"})
      BY <2>1, <2>2, AppendIfViews DEF AppendIf
    <2>4. Numbers(ready') = Numbers(rdy) \cup {posted + 1}
      BY <2>1, <2>2, AppendNumbers
    <2>5. ASSUME Increasing(rdy), \A n \in Numbers(rdy) : n <= posted
          PROVE  Increasing(ready')
      <3>1. \A n \in Numbers(rdy) : n < x.msg.n
        BY <2>1, <2>2, <2>5, NumbersTyped
      <3> QED BY <2>1, <2>2, <2>5, <3>1, AppendNumbers
    <2> QED BY <1>2, <2>1, <2>3, <2>4, <2>5 DEF States
  <1> QED BY <1>1, <1>2

\* The handler that runs is the first of the queue, which loses it.
LEMMA RunsFacts ==
    ASSUME TypeOK, NEW h, Runs(h)
    PROVE  /\ ready \in Seq(Handlers) /\ ready # <<>>
           /\ Tail(ready) \in Seq(Handlers)
           /\ Head(ready).h = h /\ Head(ready) \in Handlers
           /\ Head(ready).msg \in Message
           /\ SameBut(Tail(ready), ready, {h})
           /\ Any(ready, {h})
           /\ AtMostOne(ready, {h}) => ~Any(Tail(ready), {h})
           /\ Alive /\ ~busy
  <1>1. ready \in Seq(Handlers) /\ ready # <<>> /\ Head(ready).h = h
    BY DEF Runs, TypeOK
  <1>2. Head(ready).msg \in Message
    BY <1>1, TailViews DEF Handlers
  <1>3. SameBut(Tail(ready), ready, {h})
    BY <1>1, TailSame
  <1> QED BY <1>1, <1>2, <1>3, TailViews DEF Runs

\* The environment appends a completion handler.
LEMMA CompletionAppended ==
    ASSUME TypeOK, NEW h \in HandlerNames, NEW ec \in Errors,
           ready' = Append(ready, Completion(h, ec))
    PROVE  /\ SameBut(ready', ready, {h})
           /\ Any(ready', {h})
           /\ Has(ready', {h}, ec)
           /\ \A e : e # ec => (Has(ready', {h}, e) <=> Has(ready, {h}, e))
           /\ \A H : h \in H /\ ~Any(ready, H) => AtMostOne(ready', H)
  <1> DEFINE x == Completion(h, ec)
  <1>1. x \in Handlers /\ x.h = h /\ x.ec = ec /\ ready \in Seq(Handlers)
    BY CompletionTyped DEF TypeOK
  <1> HIDE DEF x
  <1>2. SameBut(Append(ready, x), ready, {h})
    BY <1>1, AppendIfViews DEF AppendIf
  <1>4. \A H : h \in H /\ ~Any(ready, H) => AtMostOne(Append(ready, x), H)
    <2>1. ASSUME NEW H, h \in H, ~Any(ready, H)
          PROVE  AtMostOne(Append(ready, x), H)
      <3>1. Append(ready, x) \in Seq(Handlers) /\ DOMAIN Append(ready, x) = 1..(Len(ready) + 1)
            /\ Len(ready) \in Nat /\ DOMAIN ready = 1..Len(ready)
            /\ \A i \in DOMAIN ready : Append(ready, x)[i] = ready[i]
        BY <1>1
      <3> QED BY <2>1, <3>1 DEF AtMostOne, Any
    <2> QED BY <2>1
  <1> QED BY <1>1, <1>2, <1>4, AppendViews DEF x

-----------------------------------------------------------------------------
(* Every step keeps the types.                                             *)

LEMMA TypeStep ==
    ASSUME TypeOK, WriterInv, [Next]_vars
    PROVE  TypeOK'
  <1> USE DEF netvars, sockvars, outvars, invars, appvars
  <1>1. ASSUME NEW ec \in {"ok", "error", "unknown"}, ConnectDone(ec)
        PROVE  TypeOK'
    <2>1. ready' \in Seq(Handlers)
      BY <1>1, CompletionAppended DEF ConnectDone, HandlerNames, Errors, SameBut
    <2> QED BY <1>1, <2>1 DEF TypeOK, ConnectDone
  <1>2. ASSUME NEW ec \in {"ok", "error"}, WriteRequestDone(ec)
        PROVE  TypeOK'
    <2>1. ready' \in Seq(Handlers)
      BY <1>2, CompletionAppended DEF WriteRequestDone, HandlerNames, Errors, SameBut
    <2> QED BY <1>2, <2>1 DEF TypeOK, WriteRequestDone
  <1>3. ASSUME NEW ec \in {"ok", "error", "unknown", "reset"}, NEW k \in 0..MaxChunk, ReadResponseDone(ec, k)
        PROVE  TypeOK'
    <2>1. ready' \in Seq(Handlers)
      BY <1>3, CompletionAppended DEF ReadResponseDone, HandlerNames, Errors, SameBut
    <2> QED BY <1>3, <2>1 DEF TypeOK, ReadResponseDone
  <1>4. ASSUME NEW k \in 1..MaxChunk, ReadDone(k)
        PROVE  TypeOK'
    <2>1. ready' \in Seq(Handlers)
      BY <1>4, CompletionAppended DEF ReadDone, HandlerNames, Errors, SameBut
    <2> QED BY <1>4, <2>1 DEF TypeOK, ReadDone
  <1>5. ASSUME ReadFail
        PROVE  TypeOK'
    <2>1. ready' \in Seq(Handlers)
      BY <1>5, CompletionAppended DEF ReadFail, HandlerNames, Errors, SameBut
    <2> QED BY <1>5, <2>1 DEF TypeOK, ReadFail
  <1>6. ASSUME WriteDone
        PROVE  TypeOK'
    <2>1. ready' \in Seq(Handlers)
      BY <1>6, CompletionAppended DEF WriteDone, HandlerNames, Errors, SameBut
    <2>2. Head(m_write_queue) \in Message
      BY <1>6 DEF WriteDone, WriterInv, TypeOK
    <2>3. wire' \in Seq(Message)
      BY <1>6, <2>2 DEF WriteDone, TypeOK
    <2> QED BY <1>6, <2>1, <2>3 DEF TypeOK, WriteDone
  <1>7. ASSUME WriteFail
        PROVE  TypeOK'
    <2>1. ready' \in Seq(Handlers)
      BY <1>7, CompletionAppended DEF WriteFail, HandlerNames, Errors, SameBut
    <2> QED BY <1>7, <2>1 DEF TypeOK, WriteFail
  <1>8. ASSUME CloseTimerExpires
        PROVE  TypeOK'
    <2>1. ready' \in Seq(Handlers)
      BY <1>8, CompletionAppended DEF CloseTimerExpires, HandlerNames, Errors, SameBut
    <2>2. m_timer' = FALSE /\ m_timer' \in BOOLEAN
      BY <1>8 DEF CloseTimerExpires
    <2> QED BY <1>8, <2>1, <2>2 DEF TypeOK, CloseTimerExpires
  <1>9. ASSUME AppTimerExpires
        PROVE  TypeOK'
    <2>1. ready' \in Seq(Handlers)
      BY <1>9, CompletionAppended DEF AppTimerExpires, HandlerNames, Errors, SameBut
    <2>2. app_timer' = FALSE /\ app_timer' \in BOOLEAN
      BY <1>9 DEF AppTimerExpires
    <2> QED BY <1>9, <2>1, <2>2 DEF TypeOK, AppTimerExpires
  <1>10. ASSUME HandleConnect
        PROVE  TypeOK'
    <2>1. ready' \in Seq(Handlers)
      BY <1>10, RunsFacts DEF HandleConnect, RunsOk
    <2> QED BY <1>10, <2>1 DEF TypeOK, HandleConnect
  <1>11. ASSUME HandleConnectThrows
        PROVE  TypeOK'
    <2>1. ready' \in Seq(Handlers)
      BY <1>11, RunsFacts DEF HandleConnectThrows
    <2> QED BY <1>11, <2>1 DEF TypeOK, HandleConnectThrows
  <1>12. ASSUME HandleWriteRequest
        PROVE  TypeOK'
    <2>1. ready' \in Seq(Handlers)
      BY <1>12, RunsFacts DEF HandleWriteRequest, RunsOk
    <2> QED BY <1>12, <2>1 DEF TypeOK, HandleWriteRequest
  <1>13. ASSUME HandleReadResponseRefuses
        PROVE  TypeOK'
    <2>1. ready' \in Seq(Handlers)
      BY <1>13, RunsFacts DEF HandleReadResponseRefuses
    <2> QED BY <1>13, <2>1 DEF TypeOK, HandleReadResponseRefuses
  <1>38. ASSUME HandleReadResponseThrows
        PROVE  TypeOK'
    <2>1. ready' \in Seq(Handlers)
      BY <1>38, RunsFacts DEF HandleReadResponseThrows
    <2> QED BY <1>38, <2>1 DEF TypeOK, HandleReadResponseThrows
  <1>14. ASSUME HandleReadFrame
        PROVE  TypeOK'
    <2>1. ready' \in Seq(Handlers)
      BY <1>14, RunsFacts DEF HandleReadFrame, RunsOk
    <2>2. busy' \in BOOLEAN
      BY <1>14 DEF HandleReadFrame
    <2> QED BY <1>14, <2>1, <2>2 DEF TypeOK, HandleReadFrame
  <1>15. ASSUME ReadLoopEnds
        PROVE  TypeOK'
    <2>1. busy' \in BOOLEAN
      BY <1>15 DEF ReadLoopEnds, ReadOn
    <2>2. reads' \in Nat
      BY <1>15 DEF ReadLoopEnds, ReadOn, TypeOK
    <2> QED BY <1>15, <2>1, <2>2 DEF TypeOK, ReadLoopEnds
  <1>16. ASSUME ConsumeHeader
        PROVE  TypeOK'
    BY <1>16 DEF TypeOK, ConsumeHeader, Consumes
  <1>17. ASSUME ConsumePing
        PROVE  TypeOK'
    <2>1. ready' \in Seq(Handlers) /\ posted' \in Nat
      <3> DEFINE x == WriteMessage("PONG", NoText, posted + 1)
      <3>1. ready \in Seq(Handlers) /\ posted \in Nat
        BY DEF TypeOK
      <3>2. posted + 1 \in Nat /\ "PONG" \in Ops /\ NoText \in Text \cup {NoText}
        BY <3>1 DEF Ops, CloseOps
      <3>3. x \in Handlers
        BY <3>2, WriteMessageTyped
      <3>4. \/ ready' = Append(ready, x) /\ posted' = posted + 1
            \/ ready' = ready /\ posted' = posted
        BY <1>17 DEF ConsumePing
      <3> HIDE DEF x
      <3> QED BY <3>1, <3>2, <3>3, <3>4, AppendViews
    <2> QED BY <1>17, <2>1 DEF TypeOK, ConsumePing, Consumes
  <1>18. ASSUME ConsumePong
        PROVE  TypeOK'
    BY <1>18 DEF TypeOK, ConsumePong, Consumes
  <1>19. ASSUME ConsumeClose
        PROVE  TypeOK'
    <2>1. ready' \in Seq(Handlers) /\ posted' \in Nat
      <3> DEFINE x == WriteMessage("CLOSE_ACK", NoText, posted + 1)
      <3>1. ready \in Seq(Handlers) /\ posted \in Nat
        BY DEF TypeOK
      <3>2. posted + 1 \in Nat /\ "CLOSE_ACK" \in Ops /\ NoText \in Text \cup {NoText}
        BY <3>1 DEF Ops, CloseOps
      <3>3. x \in Handlers
        BY <3>2, WriteMessageTyped
      <3>4. \/ ready' = Append(ready, x) /\ posted' = posted + 1
            \/ ready' = ready /\ posted' = posted
        BY <1>19 DEF ConsumeClose
      <3> HIDE DEF x
      <3> QED BY <3>1, <3>2, <3>3, <3>4, AppendViews
    <2> QED BY <1>19, <2>1 DEF TypeOK, ConsumeClose, Consumes
  <1>20. ASSUME NEW expects \in {"header", "payload", "rejected", "nothing"},
               ConsumeViolation(expects)
        PROVE  TypeOK'
    <2>1. SendClose("CLOSE_VIOLATION", ready) /\ ready \in Seq(Handlers)
      BY <1>20 DEF ConsumeViolation, TypeOK
    <2>2. /\ ready' \in Seq(Handlers) /\ m_state' \in States
          /\ m_timer' \in BOOLEAN /\ posted' \in Nat
      BY <2>1, SendCloseFacts DEF SameBut, Ops, CloseOps
    <2>3. m_buf' \in Nat /\ received' = received
      BY <1>20 DEF ConsumeViolation, Consumes, TypeOK
    <2>4. busy' \in BOOLEAN
      BY <1>20 DEF ConsumeViolation, ReadOn
    <2>5. reads' \in Nat
      BY <1>20 DEF ConsumeViolation, ReadOn, TypeOK
    <2> QED BY <1>20, <2>2, <2>3, <2>4, <2>5 DEF TypeOK, ConsumeViolation, States
  <1>21. ASSUME HandleWriteMessage
        PROVE  TypeOK'
    <2>1. /\ ready' \in Seq(Handlers) /\ Head(ready).msg \in Message
      BY <1>21, RunsFacts DEF HandleWriteMessage
    <2>2. m_write_queue' \in Seq(Message)
      <3>1. /\ m_write_queue \in Seq(Message)
            /\ \/ m_write_queue' = Append(m_write_queue, Head(ready).msg)
               \/ m_write_queue' = m_write_queue
        BY <1>21 DEF HandleWriteMessage, TypeOK
      <3> QED BY <2>1, <3>1
    <2>3. m_write_state' \in {"IDLE", "WRITING"} /\ writes' \in Nat
      BY <1>21 DEF HandleWriteMessage, Write, TypeOK
    <2> QED BY <1>21, <2>1, <2>2, <2>3 DEF TypeOK, HandleWriteMessage
  <1>22. ASSUME HandleWrite
        PROVE  TypeOK'
    <2>1. ready' \in Seq(Handlers)
      BY <1>22, RunsFacts DEF HandleWrite, RunsOk
    <2>2. m_write_queue' \in Seq(Message)
      <3>1. /\ m_write_queue \in Seq(Message)
            /\ \/ m_write_queue # <<>> /\ m_write_queue' = Tail(m_write_queue)
               \/ m_write_queue' = m_write_queue
        BY <1>22 DEF HandleWrite, TypeOK
      <3> QED BY <3>1
    <2>3. m_write_state' \in {"IDLE", "WRITING"} /\ writes' \in Nat
      BY <1>22 DEF HandleWrite, Write, TypeOK
    <2> QED BY <1>22, <2>1, <2>2, <2>3 DEF TypeOK, HandleWrite
  <1>23. ASSUME HandleSendClose
        PROVE  TypeOK'
    <2>1. SendClose("CLOSE_NORMAL", Tail(ready)) /\ Tail(ready) \in Seq(Handlers)
      BY <1>23, RunsFacts DEF HandleSendClose
    <2>2. /\ ready' \in Seq(Handlers) /\ m_state' \in States
          /\ m_timer' \in BOOLEAN /\ posted' \in Nat
      BY <2>1, SendCloseFacts DEF SameBut, Ops, CloseOps
    <2> QED BY <1>23, <2>2 DEF TypeOK, HandleSendClose, States
  <1>24. ASSUME HandleAborted
        PROVE  TypeOK'
    <2>1. ready' \in Seq(Handlers)
      BY <1>24, RunsFacts DEF HandleAborted
    <2> QED BY <1>24, <2>1 DEF TypeOK, HandleAborted
  <1>25. ASSUME RunReturns
        PROVE  TypeOK'
    BY <1>25 DEF TypeOK, RunReturns
  <1>26. ASSUME NEW cb \in Behaviours, HandleConnectFails(cb)
        PROVE  TypeOK'
    <2>1. /\ ready' = CallbackReady(cb, Tail(ready), m_state)
          /\ CallbackEffects(cb, m_state) /\ m_state \in States
          /\ Tail(ready) \in Seq(Handlers)
      BY <1>26, RunsFacts DEF HandleConnectFails, TypeOK, States
    <2>2. /\ ready' \in Seq(Handlers) /\ posted' \in Nat
          /\ app_timer' \in BOOLEAN /\ proc' \in {proc, "handler"}
      BY <2>1, CallbackReadyViews, CallbackEffectsTyped DEF SameBut, TypeOK
    <2> QED BY <1>26, <2>2 DEF TypeOK, HandleConnectFails
  <1>27. ASSUME NEW cb \in Behaviours, HandshakeFails(cb)
        PROVE  TypeOK'
    <2>1. Terminate(cb, Tail(ready)) \/ (/\ ready' = Tail(ready) /\ proc' \in {proc, "log_error"}
                 /\ UNCHANGED <<sockvars, app_timer, posted>>)
      BY <1>27 DEF HandshakeFails
    <2>2. Tail(ready) \in Seq(Handlers)
      BY <1>27, RunsFacts, TailViews DEF HandshakeFails, TypeOK, RunsOk
    <2>3. /\ ready' \in Seq(Handlers) /\ m_state' \in States
          /\ m_timer' \in BOOLEAN /\ m_detached' \in BOOLEAN /\ ended' \in Nat
          /\ app_timer' \in BOOLEAN /\ posted' \in Nat
          /\ proc' \in {proc, "handler", "log_error", "log_close_result"}
      BY <2>1, <2>2, TerminateFacts DEF TypeOK, SameBut, States
    <2> QED BY <1>27, <2>3 DEF TypeOK, HandshakeFails, Consumes, States
  <1>28. ASSUME NEW cb \in Behaviours, HandleReadFrameError(cb)
        PROVE  TypeOK'
    <2>1. Terminate(cb, Tail(ready)) \/ (/\ ready' = Tail(ready) /\ proc' \in {proc, "log_error"}
                 /\ UNCHANGED <<sockvars, app_timer, posted>>)
      BY <1>28 DEF HandleReadFrameError
    <2>2. Tail(ready) \in Seq(Handlers)
      BY <1>28, RunsFacts, TailViews DEF HandleReadFrameError, TypeOK, RunsOk
    <2>3. /\ ready' \in Seq(Handlers) /\ m_state' \in States
          /\ m_timer' \in BOOLEAN /\ m_detached' \in BOOLEAN /\ ended' \in Nat
          /\ app_timer' \in BOOLEAN /\ posted' \in Nat
          /\ proc' \in {proc, "handler", "log_error", "log_close_result"}
      BY <2>1, <2>2, TerminateFacts DEF TypeOK, SameBut, States
    <2> QED BY <1>28, <2>3 DEF TypeOK, HandleReadFrameError, Consumes, States
  <1>29. ASSUME NEW cb \in Behaviours, ConsumeCloseAck(cb)
        PROVE  TypeOK'
    <2>1. Terminate(cb, ready) \/ (/\ ready' = ready /\ proc' \in {proc, "log_error"}
                 /\ UNCHANGED <<sockvars, app_timer, posted>>)
      BY <1>29 DEF ConsumeCloseAck
    <2>2. ready \in Seq(Handlers)
      BY <1>29, TailViews DEF ConsumeCloseAck, TypeOK
    <2>3. /\ ready' \in Seq(Handlers) /\ m_state' \in States
          /\ m_timer' \in BOOLEAN /\ m_detached' \in BOOLEAN /\ ended' \in Nat
          /\ app_timer' \in BOOLEAN /\ posted' \in Nat
          /\ proc' \in {proc, "handler", "log_error", "log_close_result"}
      BY <2>1, <2>2, TerminateFacts DEF TypeOK, SameBut, States
    <2> QED BY <1>29, <2>3 DEF TypeOK, ConsumeCloseAck, Consumes, States
  <1>30. ASSUME NEW cb \in Behaviours, HandleWriteClose(cb)
        PROVE  TypeOK'
    <2>1. Terminate(cb, Tail(ready)) \/ (/\ ready' = Tail(ready) /\ proc' \in {proc, "log_error"}
                 /\ UNCHANGED <<sockvars, app_timer, posted>>)
      BY <1>30 DEF HandleWriteClose
    <2>2. Tail(ready) \in Seq(Handlers)
      BY <1>30, RunsFacts, TailViews DEF HandleWriteClose, TypeOK, RunsOk
    <2>3. /\ ready' \in Seq(Handlers) /\ m_state' \in States
          /\ m_timer' \in BOOLEAN /\ m_detached' \in BOOLEAN /\ ended' \in Nat
          /\ app_timer' \in BOOLEAN /\ posted' \in Nat
          /\ proc' \in {proc, "handler", "log_error", "log_close_result"}
      BY <2>1, <2>2, TerminateFacts DEF TypeOK, SameBut, States
    <2> QED BY <1>30, <2>3 DEF TypeOK, HandleWriteClose, Consumes, States
  <1>31. ASSUME NEW cb \in Behaviours, HandleWriteError(cb)
        PROVE  TypeOK'
    <2>1. Terminate(cb, Tail(ready)) \/ (/\ ready' = Tail(ready) /\ proc' \in {proc, "log_error"}
                 /\ UNCHANGED <<sockvars, app_timer, posted>>)
      BY <1>31 DEF HandleWriteError
    <2>2. Tail(ready) \in Seq(Handlers)
      BY <1>31, RunsFacts, TailViews DEF HandleWriteError, TypeOK, RunsOk
    <2>3. /\ ready' \in Seq(Handlers) /\ m_state' \in States
          /\ m_timer' \in BOOLEAN /\ m_detached' \in BOOLEAN /\ ended' \in Nat
          /\ app_timer' \in BOOLEAN /\ posted' \in Nat
          /\ proc' \in {proc, "handler", "log_error", "log_close_result"}
      BY <2>1, <2>2, TerminateFacts DEF TypeOK, SameBut, States
    <2> QED BY <1>31, <2>3 DEF TypeOK, HandleWriteError, Consumes, States
  <1>32. ASSUME NEW cb \in Behaviours, HandleTerminate(cb)
        PROVE  TypeOK'
    <2>1. Terminate(cb, Tail(ready)) \/ (/\ ready' = Tail(ready) /\ proc' \in {proc, "log_error"}
                 /\ UNCHANGED <<sockvars, app_timer, posted>>)
      BY <1>32 DEF HandleTerminate
    <2>2. Tail(ready) \in Seq(Handlers)
      BY <1>32, RunsFacts, TailViews DEF HandleTerminate, TypeOK, RunsOk
    <2>3. /\ ready' \in Seq(Handlers) /\ m_state' \in States
          /\ m_timer' \in BOOLEAN /\ m_detached' \in BOOLEAN /\ ended' \in Nat
          /\ app_timer' \in BOOLEAN /\ posted' \in Nat
          /\ proc' \in {proc, "handler", "log_error", "log_close_result"}
      BY <2>1, <2>2, TerminateFacts DEF TypeOK, SameBut, States
    <2> QED BY <1>32, <2>3 DEF TypeOK, HandleTerminate, Consumes, States
  <1>33. ASSUME NEW cb \in Behaviours, FailOnExpire(cb)
        PROVE  TypeOK'
    <2>1. Terminate(cb, Tail(ready)) \/ (/\ ready' = Tail(ready) /\ proc' \in {proc, "log_error"}
                 /\ UNCHANGED <<sockvars, app_timer, posted>>)
      BY <1>33 DEF FailOnExpire
    <2>2. Tail(ready) \in Seq(Handlers)
      BY <1>33, RunsFacts, TailViews DEF FailOnExpire, TypeOK, RunsOk
    <2>3. /\ ready' \in Seq(Handlers) /\ m_state' \in States
          /\ m_timer' \in BOOLEAN /\ m_detached' \in BOOLEAN /\ ended' \in Nat
          /\ app_timer' \in BOOLEAN /\ posted' \in Nat
          /\ proc' \in {proc, "handler", "log_error", "log_close_result"}
      BY <2>1, <2>2, TerminateFacts DEF TypeOK, SameBut, States
    <2> QED BY <1>33, <2>3 DEF TypeOK, FailOnExpire, Consumes, States
  <1>34. ASSUME NEW cb \in Behaviours, HandleReadResponse(cb)
        PROVE  TypeOK'
    <2> DEFINE r == CallbackReady(cb, Tail(ready), "OPEN")
               x == Completion("handle_read_frame", "ok")
    <2>1. /\ ready' = Append(r, x) /\ CallbackEffects(cb, "OPEN")
          /\ Tail(ready) \in Seq(Handlers)
      BY <1>34, RunsFacts DEF HandleReadResponse, RunsOk
    <2>2. r \in Seq(Handlers)
      BY <2>1, CallbackReadyViews DEF SameBut, TypeOK, States
    <2>3. x \in Handlers
      BY CompletionTyped DEF HandlerNames, Errors
    <2>4. /\ ready' \in Seq(Handlers) /\ posted' \in Nat
          /\ app_timer' \in BOOLEAN /\ proc' \in {proc, "handler"}
      <3> HIDE DEF r, x
      <3> QED BY <2>1, <2>2, <2>3, CallbackEffectsTyped, AppendViews DEF States
    <2> QED BY <1>34, <2>4 DEF TypeOK, HandleReadResponse
  <1>35. ASSUME NEW cb \in Behaviours, ConsumePayload(cb)
        PROVE  TypeOK'
    <2>1. /\ ready' = CallbackReady(cb, ready, m_state)
          /\ CallbackEffects(cb, m_state) /\ m_state \in States
          /\ ready \in Seq(Handlers)
      BY <1>35 DEF ConsumePayload, RunsOk, TypeOK, States
    <2>2. /\ ready' \in Seq(Handlers) /\ posted' \in Nat
          /\ app_timer' \in BOOLEAN /\ proc' \in {proc, "handler"}
      BY <2>1, CallbackReadyViews, CallbackEffectsTyped DEF SameBut, TypeOK
    <2> QED BY <1>35, <2>2 DEF TypeOK, ConsumePayload, Consumes
  <1>36. ASSUME NEW cb \in Behaviours, HandleAppTimer(cb)
        PROVE  TypeOK'
    <2>1. /\ ready' = CallbackReady(cb, Tail(ready), m_state)
          /\ CallbackEffects(cb, m_state) /\ m_state \in States
          /\ Tail(ready) \in Seq(Handlers)
      BY <1>36, RunsFacts DEF HandleAppTimer, RunsOk, TypeOK, States
    <2>2. /\ ready' \in Seq(Handlers) /\ posted' \in Nat
          /\ app_timer' \in BOOLEAN /\ proc' \in {proc, "handler"}
      BY <2>1, CallbackReadyViews, CallbackEffectsTyped DEF SameBut, TypeOK
    <2> QED BY <1>36, <2>2 DEF TypeOK, HandleAppTimer, Consumes
  <1>37. CASE UNCHANGED vars
    BY <1>37 DEF TypeOK, vars
  <1> QED
    BY <1>1, <1>2, <1>3, <1>4, <1>5, <1>6, <1>7, <1>8, <1>9, <1>10, <1>11, <1>12, <1>13, <1>14, <1>15, <1>16, <1>17, <1>18, <1>19, <1>20, <1>21, <1>22, <1>23, <1>24, <1>25, <1>26, <1>27, <1>28, <1>29, <1>30, <1>31, <1>32, <1>33, <1>34, <1>35, <1>36, <1>37,
       <1>38
    DEF Next, ThreadStep, Thread, Ending, Calling, Network, Timers, Ended

-----------------------------------------------------------------------------
(* What each part of the invariant depends on.                             *)

LEMMA NoSession ==
    ASSUME NEW s, ~Any(s, Session)
    PROVE  /\ ~Any(s, Writing) /\ ~Any(s, Reading) /\ ~Any(s, Expiry)
           /\ ~Has(s, Writing, "ok") /\ ~Has(s, Expiry, "ok")
           /\ AtMostOne(s, Writing) /\ AtMostOne(s, Reading)
           /\ Numbers(s) = {} /\ Increasing(s)
  <1>1. \A i \in DOMAIN s : s[i].h \notin Session
    BY DEF Any
  <1>2. Writing \subseteq Session /\ Reading \subseteq Session
        /\ Expiry \subseteq Session /\ "write_message" \in Session
    BY DEF Session
  <1>3. Posts(s) = {}
    BY <1>1, <1>2 DEF Posts
  <1>4. Numbers(s) = {} /\ Increasing(s)
    BY <1>3 DEF Numbers, Increasing
  <1> QED BY <1>1, <1>2, <1>4 DEF Any, Has, AtMostOne

LEMMA NoneAtMostOne ==
    ASSUME NEW s, NEW H, ~Any(s, H)
    PROVE  AtMostOne(s, H) /\ ~Has(s, H, "ok")
  BY DEF Any, AtMostOne, Has

LEMMA HasAny ==
    ASSUME NEW s, NEW H, NEW ec, Has(s, H, ec)
    PROVE  Any(s, H)
  BY DEF Any, Has

\* While the connection is being opened there is nothing but the handshake.
LEMMA ConnectingStep ==
    ASSUME IInv, m_state = "CONNECTING", m_state' = "CONNECTING",
           UNCHANGED <<reads, writes, m_timer, outvars, busy, processor, posted>>,
           SameFor(ready', ready, Session), HandshakeInv',
           app_timer' \/ Any(ready', Alarm) => m_detached'
    PROVE  Inv'
  <1> USE DEF IInv, Inv
  <1>1. /\ ~m_timer /\ reads = 0 /\ writes = 0 /\ ~busy
        /\ processor = "header"
        /\ m_write_state = "IDLE" /\ m_write_queue = <<>>
        /\ wire = <<>> /\ posted = 0 /\ ~Any(ready, Session)
    BY DEF ConnectingInv
  <1>2. /\ ~m_timer' /\ reads' = 0 /\ writes' = 0 /\ ~busy'
        /\ processor' = "header"
        /\ m_write_state' = "IDLE" /\ m_write_queue' = <<>>
        /\ wire' = <<>> /\ posted' = 0 /\ ~Any(ready', Session)
    BY <1>1 DEF SameFor, outvars
  <1>3. ConnectingInv'
    BY <1>2 DEF ConnectingInv
  <1>4. /\ ~Any(ready', Writing) /\ ~Any(ready', Reading) /\ ~Any(ready', Expiry)
        /\ ~Has(ready', Writing, "ok") /\ ~Has(ready', Expiry, "ok")
        /\ AtMostOne(ready', Writing) /\ AtMostOne(ready', Reading)
        /\ Numbers(ready') = {} /\ Increasing(ready')
    BY <1>2, NoSession
  <1>5. ~Written'
    BY <1>4 DEF Written
  <1>6. DetachedInv' /\ DeadlineInv'
    BY DEF DetachedInv, DeadlineInv
  <1>7. WriterInv' /\ FrontInv'
    BY <1>2, <1>4, <1>5 DEF WriterInv, FrontInv
  <1>8. CloseInv'
    BY <1>2 DEF CloseInv, CloseIsLast
  <1>9. Done' = 0
    BY <1>2, <1>5 DEF Done
  <1>10. OrderInv'
    BY <1>2, <1>4, <1>9 DEF OrderInv, WireInOrder
  <1>11. ReaderInv'
    BY <1>2, <1>4 DEF ReaderInv
  <1> QED BY <1>3, <1>6, <1>7, <1>8, <1>10, <1>11

\* After that there is no handshake.
LEMMA SessionPhase ==
    ASSUME IInv, m_state # "CONNECTING"
    PROVE  chain = "none" /\ ~Any(ready, Handshake)
  BY DEF IInv, Inv, HandshakeInv

LEMMA SessionStep ==
    ASSUME IInv, m_state # "CONNECTING", m_state' # "CONNECTING",
           chain' = chain, SameFor(ready', ready, Handshake)
    PROVE  HandshakeInv' /\ ConnectingInv'
  <1>1. chain' = "none" /\ ~Any(ready', Handshake)
    BY SessionPhase DEF SameFor
  <1> QED BY <1>1, NoneAtMostOne DEF HandshakeInv, ConnectingInv

\* What a closed connection still has to keep.
LEMMA EndStep ==
    ASSUME IInv, m_state' = "CLOSED", chain' = "none", ~Any(ready', Handshake),
           wire' = wire, WriterInv', FrontInv', ReaderInv'
    PROVE  Inv'
  <1>1. HandshakeInv'
    BY NoneAtMostOne DEF HandshakeInv
  <1>2. ConnectingInv' /\ DetachedInv' /\ DeadlineInv'
    BY DEF ConnectingInv, DetachedInv, DeadlineInv
  <1>3. CloseInv' /\ OrderInv'
    BY DEF IInv, Inv, CloseInv, CloseIsLast, OrderInv, WireInOrder
  <1> QED BY <1>1, <1>2, <1>3 DEF Inv

LEMMA WriterFrame ==
    ASSUME WriterInv, FrontInv, writes' = writes, UNCHANGED outvars,
           SameFor(ready', ready, Writing)
    PROVE  WriterInv' /\ FrontInv' /\ (Written' <=> Written)
  BY DEF WriterInv, FrontInv, Written, outvars, SameFor

LEMMA ReaderFrame ==
    ASSUME ReaderInv, UNCHANGED <<reads, busy, processor>>,
           SameFor(ready', ready, Reading),
           m_state' = m_state \/ m_state' # "OPEN", Alive' => Alive
    PROVE  ReaderInv'
  BY DEF ReaderInv, SameFor

LEMMA DeadlineFrame ==
    ASSUME DeadlineInv, m_timer' = m_timer, SameFor(ready', ready, Expiry),
           m_state' = m_state \/ m_state' # "CLOSING"
    PROVE  DeadlineInv'
  BY DEF DeadlineInv, SameFor

\* The messages between their submission and the wire, when none moves.
LEMMA LineFrame ==
    ASSUME IInv, writes' = writes, UNCHANGED outvars, posted' = posted,
           m_state' = m_state \/ (m_state = "OPEN" /\ m_state' = "CLOSING"),
           SameFor(ready', ready, Writing),
           Numbers(ready') = Numbers(ready),
           Increasing(ready) => Increasing(ready')
    PROVE  WriterInv' /\ FrontInv' /\ CloseInv' /\ OrderInv'
  <1>1. WriterInv' /\ FrontInv' /\ (Written' <=> Written)
    BY WriterFrame DEF IInv, Inv
  <1>2. Done' = Done
    BY <1>1 DEF Done, outvars
  <1>3. CloseInv'
    BY <1>1 DEF IInv, Inv, CloseInv, CloseIsLast, outvars
  <1>4. OrderInv'
    BY <1>2 DEF IInv, Inv, OrderInv, WireInOrder, outvars
  <1> QED BY <1>1, <1>3, <1>4

\* The same when a message is submitted.
LEMMA LinePost ==
    ASSUME IInv, writes' = writes, UNCHANGED outvars, posted' = posted + 1,
           m_state = "OPEN", m_state' \in {"OPEN", "CLOSING"},
           SameFor(ready', ready, Writing),
           Numbers(ready') = Numbers(ready) \cup {posted + 1},
           Increasing(ready) /\ (\A n \in Numbers(ready) : n <= posted)
               => Increasing(ready')
    PROVE  WriterInv' /\ FrontInv' /\ CloseInv' /\ OrderInv'
  <1>1. WriterInv' /\ FrontInv' /\ (Written' <=> Written)
    BY WriterFrame DEF IInv, Inv
  <1>2. Done' = Done
    BY <1>1 DEF Done, outvars
  <1>3. CloseInv'
    BY <1>1 DEF IInv, Inv, CloseInv, CloseIsLast, outvars
  <1>4. /\ \A j \in DOMAIN m_write_queue : m_write_queue[j].n = Done + j
        /\ Done + Len(m_write_queue) <= posted
        /\ Numbers(ready) = (Done + Len(m_write_queue) + 1)..posted
        /\ Increasing(ready)
    BY DEF IInv, Inv, OrderInv
  <1>5. posted \in Nat /\ Len(m_write_queue) \in Nat /\ Done \in Int
    BY DEF IInv, TypeOK, Done
  <1>6. Increasing(ready')
    BY <1>4, <1>5
  <1>7. Numbers(ready') = (Done + Len(m_write_queue) + 1)..posted'
    BY <1>4, <1>5
  <1>8. Done + Len(m_write_queue) <= posted'
    BY <1>4, <1>5
  <1>9. WireInOrder'
    BY DEF IInv, Inv, OrderInv, WireInOrder, outvars
  <1>10. OrderInv'
    BY <1>2, <1>4, <1>6, <1>7, <1>8, <1>9 DEF OrderInv, outvars
  <1> QED BY <1>1, <1>3, <1>10

-----------------------------------------------------------------------------
(* The handshake.                                                          *)

\* r is a part of s: s itself, or what is left of it.
Part(r, s) ==
    /\ r \in Seq(Handlers)
    /\ \A H : /\ Any(r, H) => Any(s, H)
              /\ Has(r, H, "ok") => Has(s, H, "ok")
              /\ AtMostOne(s, H) => AtMostOne(r, H)

LEMMA TailPart ==
    ASSUME TypeOK, ready # <<>>
    PROVE  Part(Tail(ready), ready) /\ Part(ready, ready)
  BY TailViews DEF Part, TypeOK

LEMMA HandshakeCompletes ==
    ASSUME IInv, NEW h \in Handshake, NEW ec \in Errors,
           chain # "none", chain' = "none",
           ready' = Append(ready, Completion(h, ec)),
           UNCHANGED <<reads, writes, sockvars, outvars, busy, processor, appvars>>
    PROVE  Inv'
  <1>1. /\ m_state = "CONNECTING" /\ ~m_detached /\ ~app_timer
        /\ ~Any(ready, OfHandler) /\ ~Any(ready, Handshake) /\ TypeOK
    BY DEF IInv, Inv, HandshakeInv
  <1>2. h \in HandlerNames
    BY DEF Handshake, HandlerNames
  <1>3. SameBut(ready', ready, {h}) /\ AtMostOne(ready', Handshake)
    BY <1>1, <1>2, CompletionAppended
  <1>4. SameFor(ready', ready, Session) /\ SameFor(ready', ready, OfHandler)
        /\ SameFor(ready', ready, Alarm)
    BY <1>3 DEF SameBut, Session, OfHandler, Alarm, Handshake, Writing, Reading, Expiry
  <1>5. ~Any(ready', OfHandler) /\ ~Any(ready', Alarm)
    BY <1>1, <1>4 DEF SameFor, Any, OfHandler
  <1>6. m_state' = "CONNECTING" /\ ~m_detached' /\ ~app_timer'
    BY <1>1 DEF sockvars, appvars
  <1>7. HandshakeInv'
    BY <1>3, <1>5, <1>6 DEF HandshakeInv
  <1> QED BY <1>1, <1>4, <1>5, <1>6, <1>7, ConnectingStep DEF sockvars, appvars

\* The handler of a handshake operation is alone.
LEMMA HandshakeTaken ==
    ASSUME IInv, NEW h \in Handshake, Runs(h)
    PROVE  /\ m_state = "CONNECTING" /\ ~m_detached /\ ~app_timer
           /\ chain = "none" /\ posted = 0 /\ Tail(ready) \in Seq(Handlers)
           /\ ~Any(Tail(ready), Handshake) /\ AtMostOne(Tail(ready), Handshake)
           /\ ~Any(Tail(ready), OfHandler) /\ ~Any(Tail(ready), Alarm)
           /\ ~Any(ready, Session)
           /\ SameFor(Tail(ready), ready, Session)
           /\ Part(Tail(ready), ready)
  <1>1. /\ Any(ready, {h}) /\ Head(ready).h = h /\ TypeOK
        /\ SameBut(Tail(ready), ready, {h})
        /\ ready \in Seq(Handlers) /\ ready # <<>>
    BY RunsFacts DEF IInv
  <1>2. Any(ready, Handshake)
    BY <1>1 DEF Any
  <1>3. /\ m_state = "CONNECTING" /\ ~m_detached /\ ~app_timer
        /\ chain = "none" /\ ~Any(ready, OfHandler) /\ AtMostOne(ready, Handshake)
    BY <1>2 DEF IInv, Inv, HandshakeInv
  <1>4. /\ ~Any(Tail(ready), Handshake) /\ AtMostOne(Tail(ready), Handshake)
        /\ ~Any(Tail(ready), OfHandler)
    BY <1>1, <1>3, TailViews
  <1>5. ~Any(Tail(ready), Alarm)
    BY <1>4 DEF Any, OfHandler
  <1>6. posted = 0 /\ ~Any(ready, Session)
    BY <1>3 DEF IInv, Inv, ConnectingInv
  <1>7. SameFor(Tail(ready), ready, Session)
    BY <1>1 DEF SameBut, Session, Handshake, Writing, Reading, Expiry
  <1> QED BY <1>1, <1>3, <1>4, <1>5, <1>6, <1>7, TailPart DEF SameBut

\* Its end, or its next operation.
LEMMA HandshakeGoesOn ==
    ASSUME IInv, NEW h \in Handshake, Runs(h), ready' = Tail(ready),
           UNCHANGED <<reads, writes, sockvars, outvars, invars, app_timer, posted>>
    PROVE  Inv'
  <1>1. m_state' = "CONNECTING" /\ ~m_detached' /\ ~app_timer'
    BY HandshakeTaken DEF sockvars
  <1>2. HandshakeInv'
    BY <1>1, HandshakeTaken DEF HandshakeInv
  <1> QED BY <1>1, <1>2, HandshakeTaken, ConnectingStep DEF sockvars, invars

LEMMA HandleConnectFailsInv ==
    ASSUME IInv, NEW cb \in Behaviours, HandleConnectFails(cb)
    PROVE  Inv'
  <1> DEFINE h == "handle_connect"
  <1>1. Runs(h) /\ h \in Handshake /\ TypeOK
    BY DEF HandleConnectFails, Handshake, IInv
  <1>2. /\ m_state = "CONNECTING" /\ chain = "none" /\ posted = 0
        /\ Tail(ready) \in Seq(Handlers) /\ ~Any(Tail(ready), Handshake)
        /\ SameFor(Tail(ready), ready, Session)
    BY <1>1, HandshakeTaken
  <1>3. /\ ready' = CallbackReady(cb, Tail(ready), m_state)
        /\ CallbackEffects(cb, m_state)
        /\ m_state' = m_state /\ m_detached' = TRUE /\ chain' = chain
        /\ UNCHANGED <<reads, writes, m_timer, outvars, busy, processor>>
    BY DEF HandleConnectFails, netvars, invars
  <1>4. SameBut(ready', Tail(ready), OfHandler)
    BY <1>1, <1>2, <1>3, CallbackReadyViews DEF TypeOK, States
  <1>5. SameFor(ready', Tail(ready), Session) /\ SameFor(ready', Tail(ready), Handshake)
    BY <1>4 DEF SameBut, Session, OfHandler, Alarm, Handshake, Writing, Reading, Expiry
  <1>6. SameFor(ready', ready, Session) /\ ~Any(ready', Handshake)
    BY <1>2, <1>5 DEF SameFor
  <1>7. HandshakeInv'
    BY <1>2, <1>3, <1>6, NoneAtMostOne DEF HandshakeInv
  <1>8. posted' = posted
    BY <1>2, <1>3 DEF CallbackEffects, CallbackCalls, Sends
  <1> QED BY <1>2, <1>3, <1>6, <1>7, <1>8, ConnectingStep

\* terminate() where no handshake goes on, or its handler has been taken.
LEMMA EndingStep ==
    ASSUME IInv, NEW cb \in Behaviours, NEW rdy, Part(rdy, ready),
           Terminate(cb, rdy), chain = "none", ~Any(rdy, Handshake),
           UNCHANGED <<netvars, outvars, busy>>
    PROVE  Inv'
  <1>1. rdy \in Seq(Handlers) /\ TypeOK
    BY DEF Part, IInv
  <1>2. m_state' = "CLOSED" /\ SameBut(ready', rdy, Expiry \cup OfHandler)
    BY <1>1, TerminateFacts
  <1>3. /\ SameFor(ready', rdy, Handshake) /\ SameFor(ready', rdy, Writing)
        /\ SameFor(ready', rdy, Reading)
    BY <1>2 DEF SameBut, OfHandler, Alarm, Handshake, Writing, Reading, Expiry
  <1>4. /\ Any(ready', Writing) => Any(ready, Writing)
        /\ Has(ready', Writing, "ok") => Has(ready, Writing, "ok")
        /\ AtMostOne(ready, Writing) => AtMostOne(ready', Writing)
        /\ Any(ready', Reading) => Any(ready, Reading)
        /\ AtMostOne(ready, Reading) => AtMostOne(ready', Reading)
        /\ ~Any(ready', Handshake)
    BY <1>3 DEF Part, SameFor
  <1>5. WriterInv'
    BY <1>4 DEF IInv, Inv, WriterInv, netvars, outvars
  <1>6. FrontInv'
    BY <1>4 DEF IInv, Inv, FrontInv, Written, outvars
  <1>7. ReaderInv'
    BY <1>2, <1>4 DEF IInv, Inv, ReaderInv, netvars
  <1> QED BY <1>2, <1>4, <1>5, <1>6, <1>7, EndStep DEF netvars, outvars

LEMMA HandshakeFailsInv ==
    ASSUME IInv, NEW cb \in Behaviours, HandshakeFails(cb)
    PROVE  Inv'
  <1>1. /\ Terminate(cb, Tail(ready)) /\ UNCHANGED <<netvars, outvars, busy>>
        /\ Runs("handle_write_request") \/ Runs("handle_read_response")
    BY DEF HandshakeFails, invars
  <1>2. chain = "none" /\ ~Any(Tail(ready), Handshake) /\ Part(Tail(ready), ready)
    BY <1>1, HandshakeTaken DEF Handshake
  <1> QED BY <1>1, <1>2, EndingStep

\* The upgrade: the session starts with its first reader and nothing else.
LEMMA HandleReadResponseInv ==
    ASSUME IInv, NEW cb \in Behaviours, HandleReadResponse(cb)
    PROVE  Inv'
  <1> DEFINE h == "handle_read_response"
             r == CallbackReady(cb, Tail(ready), "OPEN")
             x == Completion("handle_read_frame", "ok")
  <1>1. Runs(h) /\ h \in Handshake /\ TypeOK
    BY DEF HandleReadResponse, RunsOk, Handshake, IInv
  <1>2. /\ m_state = "CONNECTING" /\ ~m_detached /\ chain = "none" /\ posted = 0
        /\ Tail(ready) \in Seq(Handlers) /\ ~Any(Tail(ready), Handshake)
        /\ ~Any(Tail(ready), Session)
    BY <1>1, HandshakeTaken DEF SameFor
  <1>3. /\ reads = 0 /\ writes = 0 /\ ~busy /\ processor = "header"
        /\ m_write_queue = <<>> /\ wire = <<>>
    BY <1>2 DEF IInv, Inv, ConnectingInv
  <1>4. /\ ready' = Append(r, x) /\ CallbackEffects(cb, "OPEN")
        /\ m_state' = "OPEN" /\ m_detached' = m_detached
        /\ UNCHANGED <<netvars, outvars, invars>>
    BY DEF HandleReadResponse
  <1>5. /\ SameBut(r, Tail(ready), {"app_timer", "write_message", "send_close"})
        /\ Numbers(r) = IF Sends(cb, "OPEN") THEN Numbers(Tail(ready)) \cup {posted + 1}
                        ELSE Numbers(Tail(ready))
        /\ Increasing(Tail(ready)) /\ (\A n \in Numbers(Tail(ready)) : n <= posted)
                => Increasing(r)
    BY <1>1, <1>2, CallbackReadyViews DEF TypeOK, States
  <1>6. x \in Handlers /\ x.h = "handle_read_frame"
    BY CompletionTyped DEF HandlerNames, Errors
  <1>7. r \in Seq(Handlers)
    BY <1>5 DEF SameBut
  <1> HIDE DEF r, x
  <1>8. ~Any(Tail(ready), Writing) /\ ~Any(Tail(ready), Reading)
        /\ Numbers(Tail(ready)) = {} /\ Increasing(Tail(ready))
    BY <1>2, NoSession
  <1>9. /\ SameFor(r, Tail(ready), Handshake) /\ SameFor(r, Tail(ready), Writing)
        /\ SameFor(r, Tail(ready), Reading)
    BY <1>5 DEF SameBut, Handshake, Writing, Reading
  <1>10. ~Any(r, Handshake) /\ ~Any(r, Writing) /\ ~Any(r, Reading)
    BY <1>2, <1>8, <1>9 DEF SameFor
  <1>11. ~Any(ready', Handshake) /\ ~Any(ready', Writing) /\ Any(ready', Reading)
    BY <1>4, <1>6, <1>7, <1>10, AppendViews DEF Handshake, Writing, Reading
  <1>12. AtMostOne(ready', Reading)
    BY <1>4, <1>6, <1>7, <1>10, AppendViews, NoneAtMostOne
  <1>13. /\ Numbers(ready') = Numbers(r) /\ (Increasing(r) => Increasing(ready'))
    BY <1>4, <1>6, <1>7, AppendNumbers
  <1>14. posted' = (IF Sends(cb, "OPEN") THEN 1 ELSE 0)
    BY <1>2, <1>4 DEF CallbackEffects, CallbackCalls
  <1>15. Numbers(ready') = 1..posted' /\ Increasing(ready') /\ posted' \in Nat
    <2>1. CASE Sends(cb, "OPEN")
      <3>1. Numbers(ready') = {1} /\ posted' = 1
        BY <1>2, <1>5, <1>8, <1>13, <1>14, <2>1
      <3> QED BY <1>5, <1>8, <1>13, <3>1
    <2>2. CASE ~Sends(cb, "OPEN")
      <3>1. Numbers(ready') = {} /\ posted' = 0
        BY <1>5, <1>8, <1>13, <1>14, <2>2
      <3> QED BY <1>5, <1>8, <1>13, <3>1
    <2> QED BY <2>1, <2>2
  <1>16. HandshakeInv' /\ ConnectingInv' /\ DetachedInv' /\ DeadlineInv'
    BY <1>2, <1>4, <1>11, NoneAtMostOne
    DEF HandshakeInv, ConnectingInv, DetachedInv, DeadlineInv, netvars
  <1>17. ~Written' /\ AtMostOne(ready', Writing)
    BY <1>11, NoneAtMostOne DEF Written
  <1>18. /\ reads' = 0 /\ writes' = 0 /\ ~busy' /\ processor' = "header"
         /\ m_write_queue' = <<>> /\ wire' = <<>>
    BY <1>3, <1>4 DEF netvars, outvars, invars
  <1>19. WriterInv' /\ FrontInv' /\ CloseInv'
    BY <1>11, <1>17, <1>18 DEF WriterInv, FrontInv, CloseInv, CloseIsLast
  <1>20. Done' = 0
    BY <1>17, <1>18 DEF Done
  <1>21. OrderInv'
    BY <1>15, <1>18, <1>20 DEF OrderInv, WireInOrder
  <1>22. ReaderInv'
    BY <1>11, <1>12, <1>18 DEF ReaderInv
  <1> QED BY <1>16, <1>19, <1>21, <1>22 DEF Inv

-----------------------------------------------------------------------------
(* The session: the reader.                                                *)

\* A handler of the session runs in the session only.
LEMMA SessionRuns ==
    ASSUME IInv, NEW h \in Session, Runs(h)
    PROVE  /\ m_state # "CONNECTING" /\ TypeOK
           /\ SameBut(Tail(ready), ready, {h}) /\ Part(Tail(ready), ready)
           /\ SameFor(Tail(ready), ready, Handshake)
  <1>1. /\ Any(ready, {h}) /\ TypeOK /\ ready # <<>>
        /\ SameBut(Tail(ready), ready, {h})
    BY RunsFacts DEF IInv
  <1>2. Any(ready, Session)
    BY <1>1 DEF Any
  <1>3. m_state # "CONNECTING"
    BY <1>2 DEF IInv, Inv, ConnectingInv
  <1>4. SameFor(Tail(ready), ready, Handshake)
    BY <1>1 DEF SameBut, Session, Handshake, Writing, Reading, Expiry
  <1> QED BY <1>1, <1>3, <1>4, TailPart

LEMMA ReadCompletes ==
    ASSUME IInv, NEW ec \in Errors, reads > 0, reads' = reads - 1,
           ready' = Append(ready, Completion("handle_read_frame", ec)),
           UNCHANGED <<chain, writes, sockvars, outvars, busy, processor, appvars>>
    PROVE  Inv'
  <1>1. TypeOK /\ m_state # "CONNECTING" /\ reads = 1 /\ ~busy
        /\ ~Any(ready, Reading)
    BY DEF IInv, Inv, ConnectingInv, ReaderInv
  <1>2. /\ SameBut(ready', ready, Reading) /\ Any(ready', Reading)
        /\ AtMostOne(ready', Reading)
    BY <1>1, CompletionAppended DEF HandlerNames, Reading
  <1>3. /\ SameFor(ready', ready, Handshake) /\ SameFor(ready', ready, Writing)
        /\ SameFor(ready', ready, Expiry)
        /\ Numbers(ready') = Numbers(ready)
        /\ Increasing(ready) => Increasing(ready')
    BY <1>2 DEF SameBut, Handshake, Writing, Reading, Expiry
  <1>4. HandshakeInv' /\ ConnectingInv'
    BY <1>1, <1>3, SessionStep DEF sockvars
  <1>5. WriterInv' /\ FrontInv' /\ CloseInv' /\ OrderInv'
    BY <1>3, LineFrame DEF sockvars, appvars
  <1>6. DeadlineInv' /\ DetachedInv'
    BY <1>3, DeadlineFrame DEF IInv, Inv, DetachedInv, sockvars
  <1>7. ReaderInv'
    BY <1>1, <1>2 DEF IInv, Inv, ReaderInv, sockvars
  <1> QED BY <1>4, <1>5, <1>6, <1>7 DEF Inv

LEMMA HandleReadFrameInv ==
    ASSUME IInv, HandleReadFrame
    PROVE  Inv'
  <1> DEFINE h == "handle_read_frame"
  <1>1. Runs(h) /\ h \in Session /\ Reading = {h}
    BY DEF HandleReadFrame, RunsOk, Session, Reading
  <1>2. /\ TypeOK /\ m_state # "CONNECTING"
        /\ SameBut(Tail(ready), ready, Reading)
        /\ SameFor(Tail(ready), ready, Handshake)
    BY <1>1, SessionRuns
  <1>3. Any(ready, Reading) /\ ~Any(Tail(ready), Reading)
    BY <1>1, <1>2, RunsFacts DEF IInv, Inv, ReaderInv
  <1>4. /\ ready' = Tail(ready) /\ busy' = (m_state \in {"OPEN", "CLOSING"})
        /\ UNCHANGED <<netvars, sockvars, outvars, processor, appvars>>
    BY DEF HandleReadFrame
  <1>5. /\ SameFor(ready', ready, Writing) /\ SameFor(ready', ready, Expiry)
        /\ Numbers(ready') = Numbers(ready)
        /\ Increasing(ready) => Increasing(ready')
    BY <1>2, <1>4 DEF SameBut, Writing, Reading, Expiry
  <1>6. HandshakeInv' /\ ConnectingInv'
    BY <1>2, <1>4, SessionStep DEF sockvars, netvars
  <1>7. WriterInv' /\ FrontInv' /\ CloseInv' /\ OrderInv'
    BY <1>4, <1>5, LineFrame DEF sockvars, appvars, netvars
  <1>8. DeadlineInv' /\ DetachedInv'
    BY <1>4, <1>5, DeadlineFrame DEF IInv, Inv, DetachedInv, sockvars
  <1>9. reads = 0 /\ ~Any(ready', Reading)
    BY <1>3, <1>4 DEF IInv, Inv, ReaderInv
  <1>10. m_state = "OPEN" => busy'
    BY <1>4
  <1>11. m_state = "OPEN" => processor \in {"header", "payload"}
    BY DEF IInv, Inv, ReaderInv
  <1>12. ReaderInv'
    BY <1>4, <1>9, <1>10, <1>11, NoneAtMostOne DEF ReaderInv, netvars, sockvars
  <1> QED BY <1>6, <1>7, <1>8, <1>12 DEF Inv

LEMMA HandleReadFrameErrorInv ==
    ASSUME IInv, NEW cb \in Behaviours, HandleReadFrameError(cb)
    PROVE  Inv'
  <1> DEFINE h == "handle_read_frame"
  <1>1. Runs(h) /\ h \in Session
    BY DEF HandleReadFrameError, Session, Reading
  <1>2. /\ m_state # "CONNECTING" /\ Part(Tail(ready), ready)
        /\ SameFor(Tail(ready), ready, Handshake)
    BY <1>1, SessionRuns
  <1>3. chain = "none" /\ ~Any(Tail(ready), Handshake)
    BY <1>2, SessionPhase DEF SameFor
  <1>4. Terminate(cb, Tail(ready)) /\ UNCHANGED <<netvars, outvars, busy>>
    BY <1>2 DEF HandleReadFrameError, invars
  <1> QED BY <1>2, <1>3, <1>4, EndingStep

\* Inside the loop of handle_read_frame() no read is outstanding or waits.
LEMMA BusyFacts ==
    ASSUME IInv, busy
    PROVE  /\ TypeOK /\ m_state # "CONNECTING" /\ reads = 0
           /\ ~Any(ready, Reading) /\ chain = "none" /\ ~Any(ready, Handshake)
           /\ m_state \in {"OPEN", "CLOSING"} => ~m_detached
           /\ m_state = "OPEN" => processor \in {"header", "payload"}
  <1>1. m_state # "CONNECTING"
    BY DEF IInv, Inv, ConnectingInv
  <1> QED BY <1>1, SessionPhase DEF IInv, Inv, ReaderInv, DetachedInv

\* Steps of the loop that post nothing.
LEMMA LoopStep ==
    ASSUME IInv, busy, m_state' = m_state, ready' = ready, ReaderInv',
           UNCHANGED <<chain, writes, sockvars, outvars, posted>>
    PROVE  Inv'
  <1>1. /\ SameFor(ready', ready, Handshake) /\ SameFor(ready', ready, Writing)
        /\ SameFor(ready', ready, Expiry)
    BY DEF SameFor
  <1>2. m_state # "CONNECTING"
    BY BusyFacts
  <1>3. HandshakeInv' /\ ConnectingInv'
    BY <1>1, <1>2, SessionStep
  <1>4. WriterInv' /\ FrontInv' /\ CloseInv' /\ OrderInv'
    BY <1>1, LineFrame
  <1>5. DeadlineInv' /\ DetachedInv'
    BY <1>1, DeadlineFrame DEF IInv, Inv, DetachedInv, sockvars
  <1> QED BY <1>3, <1>4, <1>5 DEF Inv

LEMMA ReadLoopEndsInv ==
    ASSUME IInv, ReadLoopEnds
    PROVE  Inv'
  <1>1. /\ busy /\ ready' = ready /\ m_state' = m_state /\ proc' = proc
        /\ UNCHANGED <<chain, writes, sockvars, outvars, posted, processor>>
        /\ busy' = FALSE
        /\ reads' = IF m_state # "CLOSED" /\ processor # "nothing"
                    THEN reads + 1 ELSE reads
    BY DEF ReadLoopEnds, ReadOn, sockvars, appvars
  <1>2. ReaderInv'
    BY <1>1, BusyFacts, NoneAtMostOne DEF ReaderInv, Alive
  <1> QED BY <1>1, <1>2, LoopStep

LEMMA ConsumeHeaderInv ==
    ASSUME IInv, ConsumeHeader
    PROVE  Inv'
  <1>1. /\ busy /\ ready' = ready /\ m_state' = m_state
        /\ UNCHANGED <<chain, reads, writes, sockvars, outvars, posted, busy>>
        /\ processor' \in {processor, "payload"}
    BY DEF ConsumeHeader, Consumes, sockvars, netvars
  <1>2. ReaderInv'
    BY <1>1, BusyFacts, NoneAtMostOne DEF ReaderInv
  <1> QED BY <1>1, <1>2, LoopStep

LEMMA ConsumePongInv ==
    ASSUME IInv, ConsumePong
    PROVE  Inv'
  <1>1. /\ busy /\ ready' = ready /\ m_state' = m_state
        /\ UNCHANGED <<chain, reads, writes, sockvars, outvars, posted, busy, processor>>
    BY DEF ConsumePong, Consumes, sockvars, netvars, appvars
  <1>2. ReaderInv'
    BY <1>1, BusyFacts, NoneAtMostOne DEF ReaderInv
  <1> QED BY <1>1, <1>2, LoopStep

\* A frame of the connection's own is posted from the loop, or from a
\* handler that has been taken off: rdy is the queue before.
LEMMA PostStep ==
    ASSUME IInv, NEW rdy, SameBut(rdy, ready, {"send_close"}),
           NEW op \in Ops, m_state = "OPEN", m_state' \in {"OPEN", "CLOSING"},
           m_state' = "CLOSING" => m_timer',
           m_state' = "OPEN" => m_timer' = m_timer,
           ready' = Append(rdy, WriteMessage(op, NoText, posted + 1)),
           posted' = posted + 1, ReaderInv',
           UNCHANGED <<chain, writes, m_detached, outvars>>
    PROVE  Inv'
  <1> DEFINE x == WriteMessage(op, NoText, posted + 1)
  <1>1. posted \in Nat /\ posted + 1 \in Nat /\ NoText \in Text \cup {NoText}
    BY DEF IInv, TypeOK
  <1>2. x \in Handlers /\ x.h = "write_message" /\ x.msg.n = posted + 1
    BY <1>1, WriteMessageTyped
  <1> HIDE DEF x
  <1>3. /\ rdy \in Seq(Handlers) /\ SameFor(rdy, ready, Handshake)
        /\ SameFor(rdy, ready, Writing) /\ Numbers(rdy) = Numbers(ready)
        /\ Increasing(ready) => Increasing(rdy)
    BY DEF SameBut, Handshake, Writing
  <1>4. ready' = Append(rdy, x)
    BY DEF x
  <1>5. SameBut(ready', rdy, {"write_message"})
    BY <1>2, <1>3, <1>4, AppendIfViews DEF AppendIf
  <1>6. SameFor(ready', rdy, Handshake) /\ SameFor(ready', rdy, Writing)
    BY <1>5 DEF SameBut, Handshake, Writing
  <1>7. SameFor(ready', ready, Handshake) /\ SameFor(ready', ready, Writing)
    BY <1>3, <1>6 DEF SameFor
  <1>8. Numbers(ready') = Numbers(ready) \cup {posted + 1}
    BY <1>2, <1>3, <1>4, AppendNumbers
  <1>9. ASSUME Increasing(ready), \A n \in Numbers(ready) : n <= posted
        PROVE  Increasing(ready')
    <2>1. \A n \in Numbers(rdy) : n < x.msg.n
      BY <1>1, <1>2, <1>3, <1>9, NumbersTyped
    <2> QED BY <1>2, <1>3, <1>4, <1>9, <2>1, AppendNumbers
  <1>10. HandshakeInv' /\ ConnectingInv'
    BY <1>7, SessionStep
  <1>11. WriterInv' /\ FrontInv' /\ CloseInv' /\ OrderInv'
    BY <1>7, <1>8, <1>9, LinePost
  <1>12. DeadlineInv' /\ DetachedInv'
    BY DEF IInv, Inv, DetachedInv, DeadlineInv
  <1> QED BY <1>10, <1>11, <1>12 DEF Inv

LEMMA ConsumePingInv ==
    ASSUME IInv, ConsumePing
    PROVE  Inv'
  <1>1. /\ busy /\ m_state' = m_state /\ m_timer' = m_timer /\ m_detached' = m_detached
        /\ proc' = proc
        /\ UNCHANGED <<chain, reads, writes, sockvars, outvars, busy, processor>>
    BY DEF ConsumePing, Consumes, sockvars, netvars
  <1>2. \/ /\ m_state = "OPEN" /\ posted' = posted + 1
           /\ ready' = Append(ready, WriteMessage("PONG", NoText, posted + 1))
        \/ posted' = posted /\ ready' = ready
    BY DEF ConsumePing
  <1>3. TypeOK
    BY BusyFacts, <1>1
  <1>4. SameBut(ready, ready, {"send_close"})
    BY <1>3 DEF SameBut, SameFor, TypeOK
  <1>5. CASE /\ m_state = "OPEN" /\ posted' = posted + 1
             /\ ready' = Append(ready, WriteMessage("PONG", NoText, posted + 1))
    <2> DEFINE x == WriteMessage("PONG", NoText, posted + 1)
    <2>1. x \in Handlers /\ x.h = "write_message"
      <3>1. posted \in Nat /\ "PONG" \in Ops
        BY <1>3 DEF TypeOK, Ops
      <3> QED BY <3>1, OwnFrameTyped
    <2> HIDE DEF x
    <2>2. ~Any(ready', Reading)
      BY <1>1, <1>3, <1>5, <2>1, BusyFacts, AppendViews DEF Reading, TypeOK, x
    <2>3. ReaderInv'
      BY <1>1, <2>2, BusyFacts, NoneAtMostOne DEF ReaderInv
    <2>4. "PONG" \in Ops
      BY DEF Ops
    <2> QED BY <1>1, <1>4, <1>5, <2>3, <2>4, PostStep
  <1>6. CASE posted' = posted /\ ready' = ready
    <2>1. ReaderInv'
      BY <1>1, <1>6, BusyFacts, NoneAtMostOne DEF ReaderInv
    <2> QED BY <1>1, <1>6, <2>1, LoopStep
  <1> QED BY <1>2, <1>5, <1>6

LEMMA ConsumeCloseInv ==
    ASSUME IInv, ConsumeClose
    PROVE  Inv'
  <1> DEFINE x == WriteMessage("CLOSE_ACK", NoText, posted + 1)
  <1>1. /\ busy /\ m_state = "OPEN" /\ m_state' = m_state /\ m_timer' = m_timer
        /\ m_detached' = m_detached /\ proc' = proc
        /\ UNCHANGED <<chain, reads, writes, outvars, busy, processor>>
        /\ posted' = posted + 1 /\ ready' = Append(ready, x)
    BY DEF ConsumeClose, Consumes, sockvars, netvars
  <1>2. TypeOK /\ "CLOSE_ACK" \in Ops
    BY BusyFacts, <1>1 DEF Ops, CloseOps
  <1>3. SameBut(ready, ready, {"send_close"})
    BY <1>2 DEF SameBut, SameFor, TypeOK
  <1>4. x \in Handlers /\ x.h = "write_message"
    <2>1. posted \in Nat
      BY <1>2 DEF TypeOK
    <2> QED BY <1>2, <2>1, OwnFrameTyped
  <1>5. ~Any(ready', Reading)
    <2> HIDE DEF x
    <2> QED BY <1>1, <1>2, <1>4, BusyFacts, AppendViews DEF Reading, TypeOK
  <1>6. ReaderInv'
    BY <1>1, <1>5, BusyFacts, NoneAtMostOne DEF ReaderInv
  <1> QED BY <1>1, <1>2, <1>3, <1>6, PostStep

LEMMA ConsumeCloseAckInv ==
    ASSUME IInv, NEW cb \in Behaviours, ConsumeCloseAck(cb)
    PROVE  Inv'
  <1>1. /\ busy /\ Terminate(cb, ready) /\ UNCHANGED <<netvars, outvars, busy>>
    BY DEF ConsumeCloseAck, Consumes
  <1>2. TypeOK /\ chain = "none" /\ ~Any(ready, Handshake)
    BY <1>1, BusyFacts
  <1>3. Part(ready, ready)
    BY <1>2 DEF Part, TypeOK
  <1> QED BY <1>1, <1>2, <1>3, EndingStep

LEMMA ConsumeViolationInv ==
    ASSUME IInv, NEW expects \in {"header", "payload", "rejected", "nothing"},
           ConsumeViolation(expects)
    PROVE  Inv'
  <1>1. /\ busy /\ m_state # "CLOSED" /\ processor' = expects
        /\ SendClose("CLOSE_VIOLATION", ready)
        /\ busy' = FALSE /\ proc' = proc
        /\ reads' \in {reads, reads + 1}
        /\ UNCHANGED <<chain, writes, m_detached, outvars>>
    BY DEF ConsumeViolation, Consumes, ReadOn
  <1>2. TypeOK /\ ready \in Seq(Handlers) /\ "CLOSE_VIOLATION" \in Ops
    BY BusyFacts, <1>1 DEF Ops, CloseOps, TypeOK
  <1>3. m_state \in {"OPEN", "CLOSING"} /\ ~m_detached
    BY <1>1, <1>2, BusyFacts DEF TypeOK
  <1>4. SameBut(ready', ready, {"write_message"})
    BY <1>1, <1>2, SendCloseFacts
  <1>5. ~Any(ready', Reading)
    BY <1>1, <1>4, BusyFacts DEF SameBut, SameFor, Reading
  <1>6. m_state' = "CLOSING"
    BY <1>1, <1>2, <1>3, SendCloseFacts
  <1>7. reads = 0 /\ reads' \in {0, 1}
    BY <1>1, BusyFacts
  <1>8. ReaderInv'
    BY <1>1, <1>5, <1>6, <1>7, NoneAtMostOne DEF ReaderInv
  <1>9. CASE m_state = "OPEN"
    <2>1. SameBut(ready, ready, {"send_close"})
      BY <1>2 DEF SameBut, SameFor
    <2>2. /\ m_timer' = TRUE /\ posted' = posted + 1
          /\ ready' = Append(ready, WriteMessage("CLOSE_VIOLATION", NoText, posted + 1))
      BY <1>1, <1>3, <1>9 DEF SendClose
    <2> QED BY <1>1, <1>2, <1>6, <1>8, <1>9, <2>1, <2>2, PostStep
  <1>10. CASE m_state = "CLOSING"
    <2>1. ready' = ready /\ UNCHANGED <<m_state, m_timer, posted>>
      BY <1>1, <1>10 DEF SendClose
    <2>2. /\ SameFor(ready', ready, Handshake) /\ SameFor(ready', ready, Writing)
          /\ SameFor(ready', ready, Expiry)
      BY <2>1 DEF SameFor
    <2>3. HandshakeInv' /\ ConnectingInv'
      BY <1>1, <1>10, <2>1, <2>2, SessionStep
    <2>4. WriterInv' /\ FrontInv' /\ CloseInv' /\ OrderInv'
      BY <1>1, <2>1, <2>2, LineFrame
    <2>5. DeadlineInv' /\ DetachedInv'
      BY <1>1, <2>1, <2>2, DeadlineFrame DEF IInv, Inv, DetachedInv
    <2> QED BY <1>8, <2>3, <2>4, <2>5 DEF Inv
  <1> QED BY <1>3, <1>9, <1>10

\* A callback in the session, made from the loop or by the timer: rdy is the
\* queue before, from which at most a handler of the timer is gone.
LEMMA CallbackStep ==
    ASSUME IInv, m_state # "CONNECTING", m_state' = m_state,
           NEW cb \in Behaviours, NEW rdy, SameBut(rdy, ready, Alarm),
           ready' = CallbackReady(cb, rdy, m_state),
           CallbackEffects(cb, m_state),
           processor' \in {processor, "header"},
           UNCHANGED <<netvars, sockvars, outvars, busy>>
    PROVE  Inv'
  <1> DEFINE K == {"app_timer", "write_message", "send_close"}
  <1>1. TypeOK /\ m_state \in States /\ rdy \in Seq(Handlers) /\ posted \in Nat
    BY DEF IInv, TypeOK, States, SameBut
  <1>2. /\ SameBut(ready', rdy, K)
        /\ Numbers(ready') = IF Sends(cb, m_state) THEN Numbers(rdy) \cup {posted + 1}
                             ELSE Numbers(rdy)
        /\ Increasing(rdy) /\ (\A n \in Numbers(rdy) : n <= posted)
               => Increasing(ready')
    BY <1>1, CallbackReadyViews DEF TypeOK
  <1>3. /\ SameFor(ready', rdy, Handshake) /\ SameFor(ready', rdy, Writing)
        /\ SameFor(ready', rdy, Reading) /\ SameFor(ready', rdy, Expiry)
    BY <1>2 DEF SameBut, Handshake, Writing, Reading, Expiry
  <1>4. /\ SameFor(rdy, ready, Handshake) /\ SameFor(rdy, ready, Writing)
        /\ SameFor(rdy, ready, Reading) /\ SameFor(rdy, ready, Expiry)
        /\ Numbers(rdy) = Numbers(ready) /\ (Increasing(ready) => Increasing(rdy))
    BY DEF SameBut, Handshake, Writing, Reading, Expiry, Alarm
  <1>5. /\ SameFor(ready', ready, Handshake) /\ SameFor(ready', ready, Writing)
        /\ SameFor(ready', ready, Reading) /\ SameFor(ready', ready, Expiry)
    BY <1>3, <1>4 DEF SameFor
  <1>6. /\ posted' = IF Sends(cb, m_state) THEN posted + 1 ELSE posted
        /\ proc' \in {proc, "handler"}
    BY <1>1, CallbackEffectsTyped
  <1>7. HandshakeInv' /\ ConnectingInv'
    BY <1>5, SessionStep DEF netvars
  <1>8. WriterInv' /\ FrontInv' /\ CloseInv' /\ OrderInv'
    <2>1. CASE Sends(cb, m_state)
      <3>1. m_state = "OPEN" /\ posted' = posted + 1
        BY <1>6, <2>1 DEF Sends
      <3>2. Numbers(ready') = Numbers(ready) \cup {posted + 1}
        BY <1>2, <1>4, <2>1
      <3>3. Increasing(ready) /\ (\A n \in Numbers(ready) : n <= posted)
                => Increasing(ready')
        BY <1>2, <1>4
      <3> QED BY <1>5, <3>1, <3>2, <3>3, LinePost DEF netvars
    <2>2. CASE ~Sends(cb, m_state)
      <3>1. posted' = posted /\ Numbers(ready') = Numbers(ready)
        BY <1>2, <1>4, <1>6, <2>2
      <3>2. CASE m_state # "CLOSED"
        <4>1. \A n \in Numbers(ready) : n <= posted
          <5>1. Numbers(ready) = (Done + Len(m_write_queue) + 1)..posted
            BY <3>2 DEF IInv, Inv, OrderInv
          <5> QED BY <5>1
        <4>2. Increasing(ready) => Increasing(ready')
          BY <1>2, <1>4, <4>1
        <4> QED BY <1>5, <3>1, <4>2, LineFrame DEF netvars
      <3>3. CASE m_state = "CLOSED"
        <4>1. WriterInv' /\ FrontInv'
          BY <1>5, WriterFrame DEF IInv, Inv, netvars
        <4> QED BY <3>3, <4>1
            DEF IInv, Inv, CloseInv, CloseIsLast, OrderInv, WireInOrder, outvars
      <3> QED BY <3>2, <3>3
    <2> QED BY <2>1, <2>2
  <1>9. DeadlineInv' /\ DetachedInv'
    BY <1>5, DeadlineFrame DEF IInv, Inv, DetachedInv, sockvars
  <1>10. ReaderInv'
    BY <1>5, <1>6 DEF IInv, Inv, ReaderInv, SameFor, Alive, netvars
  <1> QED BY <1>7, <1>8, <1>9, <1>10 DEF Inv

LEMMA ConsumePayloadInv ==
    ASSUME IInv, NEW cb \in Behaviours, ConsumePayload(cb)
    PROVE  Inv'
  <1>1. /\ busy /\ ready' = CallbackReady(cb, ready, m_state)
        /\ CallbackEffects(cb, m_state) /\ processor' = "header"
        /\ m_state' = m_state
        /\ UNCHANGED <<netvars, sockvars, outvars, busy>>
    BY DEF ConsumePayload, Consumes, sockvars
  <1>2. TypeOK /\ m_state # "CONNECTING"
    BY <1>1, BusyFacts
  <1>3. SameBut(ready, ready, Alarm)
    BY <1>2 DEF SameBut, SameFor, TypeOK
  <1> QED BY <1>1, <1>2, <1>3, CallbackStep

-----------------------------------------------------------------------------
(* The session: the writer.                                                *)

\* What the line of messages looks like before the connection is closed.
LEMMA LineFacts ==
    ASSUME IInv, m_state # "CLOSED"
    PROVE  /\ \A j \in DOMAIN m_write_queue : m_write_queue[j].n = Done + j
           /\ Done + Len(m_write_queue) <= posted
           /\ Numbers(ready) = (Done + Len(m_write_queue) + 1)..posted
           /\ Increasing(ready)
           /\ Done \in Int /\ posted \in Nat /\ Len(m_write_queue) \in Nat
           /\ m_write_queue \in Seq(Message) /\ wire \in Seq(Message)
  BY DEF IInv, Inv, OrderInv, TypeOK, Done

LEMMA WriteDoneInv ==
    ASSUME IInv, WriteDone
    PROVE  Inv'
  <1> DEFINE f == Head(m_write_queue)
  <1>1. /\ writes > 0 /\ m_state # "CLOSED" /\ writes' = writes - 1
        /\ wire' = Append(wire, f)
        /\ ready' = Append(ready, Completion("handle_write", "ok"))
        /\ UNCHANGED <<chain, reads, sockvars, m_write_state, m_write_queue,
                       invars, appvars>>
    BY DEF WriteDone
  <1>2. /\ TypeOK /\ m_state # "CONNECTING" /\ writes = 1 /\ ~Any(ready, Writing)
        /\ m_write_state = "WRITING" /\ m_write_queue # <<>>
    BY <1>1 DEF IInv, Inv, ConnectingInv, WriterInv
  <1>3. /\ SameBut(ready', ready, Writing) /\ Any(ready', Writing)
        /\ AtMostOne(ready', Writing) /\ Has(ready', Writing, "ok")
    BY <1>1, <1>2, CompletionAppended DEF HandlerNames, Writing, Errors
  <1>4. /\ SameFor(ready', ready, Handshake) /\ SameFor(ready', ready, Reading)
        /\ SameFor(ready', ready, Expiry)
        /\ Numbers(ready') = Numbers(ready)
        /\ Increasing(ready) => Increasing(ready')
    BY <1>3 DEF SameBut, Handshake, Writing, Reading, Expiry
  <1>5. HandshakeInv' /\ ConnectingInv'
    BY <1>1, <1>2, <1>4, SessionStep DEF sockvars
  <1>6. DeadlineInv' /\ DetachedInv'
    BY <1>1, <1>4, DeadlineFrame DEF IInv, Inv, DetachedInv, sockvars
  <1>7. ReaderInv'
    BY <1>1, <1>4, ReaderFrame DEF IInv, Inv, sockvars, invars, appvars, Alive
  <1>8. WriterInv'
    BY <1>1, <1>2, <1>3 DEF WriterInv
  <1>9. ~Written /\ Written'
    BY <1>2, <1>3, HasAny DEF Written
  <1>10. /\ wire \in Seq(Message) /\ f \in Message /\ f = m_write_queue[1]
         /\ 1 \in DOMAIN m_write_queue
    BY <1>2 DEF TypeOK
  <1> HIDE DEF f
  <1>11. /\ Len(wire') = Len(wire) + 1 /\ wire'[Len(wire')] = f /\ wire' # <<>>
         /\ \A i \in DOMAIN wire' : i = Len(wire') \/ (i \in DOMAIN wire /\ wire'[i] = wire[i])
         /\ Len(wire) \in Nat
    BY <1>1, <1>10
  <1>12. FrontInv'
    BY <1>1, <1>10, <1>11 DEF FrontInv, f
  <1>13. wire # <<>> => wire[Len(wire)].op \notin CloseOps
    BY <1>1, <1>9 DEF IInv, Inv, CloseInv
  <1>14. \A i \in DOMAIN wire : wire[i].op \notin CloseOps
    BY <1>10, <1>13 DEF IInv, Inv, CloseInv, CloseIsLast
  <1>15. CloseInv'
    BY <1>9, <1>11, <1>14 DEF CloseInv, CloseIsLast
  <1>16. Done' = Done /\ Done = Len(wire)
    BY <1>9, <1>11 DEF Done
  <1>17. f.n = Len(wire')
    BY <1>1, <1>10, <1>11, <1>16, LineFacts
  <1>18. WireInOrder'
    BY <1>11, <1>17 DEF IInv, Inv, OrderInv, WireInOrder
  <1>19. OrderInv'
    BY <1>1, <1>4, <1>16, <1>18, LineFacts DEF OrderInv, appvars
  <1> QED BY <1>5, <1>6, <1>7, <1>8, <1>12, <1>15, <1>19 DEF Inv

LEMMA WriteFailInv ==
    ASSUME IInv, WriteFail
    PROVE  Inv'
  <1>1. /\ writes > 0 /\ writes' = writes - 1
        /\ ready' = Append(ready, Completion("handle_write", "error"))
        /\ UNCHANGED <<chain, reads, sockvars, outvars, invars, appvars>>
    BY DEF WriteFail
  <1>2. /\ TypeOK /\ m_state # "CONNECTING" /\ writes = 1 /\ ~Any(ready, Writing)
        /\ m_write_state = "WRITING" /\ m_write_queue # <<>>
    BY <1>1 DEF IInv, Inv, ConnectingInv, WriterInv
  <1>3. /\ SameBut(ready', ready, Writing) /\ Any(ready', Writing)
        /\ AtMostOne(ready', Writing)
        /\ Has(ready', Writing, "ok") <=> Has(ready, Writing, "ok")
    BY <1>1, <1>2, CompletionAppended DEF HandlerNames, Writing, Errors
  <1>4. /\ SameFor(ready', ready, Handshake) /\ SameFor(ready', ready, Reading)
        /\ SameFor(ready', ready, Expiry)
        /\ Numbers(ready') = Numbers(ready)
        /\ Increasing(ready) => Increasing(ready')
    BY <1>3 DEF SameBut, Handshake, Writing, Reading, Expiry
  <1>5. HandshakeInv' /\ ConnectingInv'
    BY <1>1, <1>2, <1>4, SessionStep DEF sockvars
  <1>6. DeadlineInv' /\ DetachedInv'
    BY <1>1, <1>4, DeadlineFrame DEF IInv, Inv, DetachedInv, sockvars
  <1>7. ReaderInv'
    BY <1>1, <1>4, ReaderFrame DEF IInv, Inv, sockvars, invars, appvars, Alive
  <1>8. WriterInv'
    BY <1>1, <1>2, <1>3 DEF WriterInv, outvars
  <1>9. Written' <=> Written
    BY <1>3 DEF Written
  <1>10. FrontInv' /\ CloseInv'
    BY <1>1, <1>9 DEF IInv, Inv, FrontInv, CloseInv, CloseIsLast, sockvars, outvars
  <1>11. Done' = Done
    BY <1>1, <1>9 DEF Done, outvars
  <1>12. OrderInv'
    BY <1>1, <1>4, <1>11 DEF IInv, Inv, OrderInv, WireInOrder, sockvars, outvars, appvars
  <1> QED BY <1>5, <1>6, <1>7, <1>8, <1>10, <1>12 DEF Inv

LEMMA HandleWriteMessageInv ==
    ASSUME IInv, HandleWriteMessage
    PROVE  Inv'
  <1> DEFINE h == "write_message"
             m == Head(ready).msg
  <1>1. Runs(h) /\ h \in Session
    BY DEF HandleWriteMessage, Session
  <1>2. /\ TypeOK /\ m_state # "CONNECTING"
        /\ SameBut(Tail(ready), ready, {h})
        /\ SameFor(Tail(ready), ready, Handshake)
    BY <1>1, SessionRuns
  <1>3. /\ ready' = Tail(ready)
        /\ UNCHANGED <<chain, reads, sockvars, wire, invars, appvars>>
    BY DEF HandleWriteMessage
  <1>4. /\ SameFor(ready', ready, Writing) /\ SameFor(ready', ready, Reading)
        /\ SameFor(ready', ready, Expiry)
    BY <1>2, <1>3 DEF SameBut, Writing, Reading, Expiry
  <1>5. HandshakeInv' /\ ConnectingInv'
    BY <1>2, <1>3, SessionStep DEF sockvars
  <1>6. DeadlineInv' /\ DetachedInv'
    BY <1>3, <1>4, DeadlineFrame DEF IInv, Inv, DetachedInv, sockvars
  <1>7. ReaderInv'
    BY <1>3, <1>4, ReaderFrame DEF IInv, Inv, sockvars, invars, appvars, Alive
  <1>8. CASE m_state \notin {"OPEN", "CLOSING"}
    <2>1. m_state = "CLOSED" /\ m_state' = "CLOSED"
      BY <1>2, <1>3, <1>8 DEF TypeOK, sockvars
    <2>2. UNCHANGED <<m_write_queue, m_write_state, writes>>
      BY <1>8 DEF HandleWriteMessage
    <2>3. WriterInv' /\ FrontInv'
      BY <1>3, <1>4, <2>2, WriterFrame DEF IInv, Inv, outvars
    <2>4. CloseInv' /\ OrderInv'
      BY <1>3, <2>1 DEF IInv, Inv, CloseInv, CloseIsLast, OrderInv, WireInOrder
    <2> QED BY <1>5, <1>6, <1>7, <2>3, <2>4 DEF Inv
  <1>9. CASE m_state \in {"OPEN", "CLOSING"}
    <2>1. /\ m_write_queue' = Append(m_write_queue, m)
          /\ Write(m_write_queue', m_write_state)
      BY <1>9 DEF HandleWriteMessage
    <2>2. ready \in Seq(Handlers) /\ ready # <<>> /\ Head(ready).h = h /\ m \in Message
      BY <1>1, <1>2, RunsFacts
    <2> HIDE DEF m
    <2>3. /\ m_write_queue' # <<>>
          /\ m_write_queue # <<>> => Head(m_write_queue') = Head(m_write_queue)
          /\ Len(m_write_queue') = Len(m_write_queue) + 1
          /\ m_write_queue'[Len(m_write_queue) + 1] = m
          /\ \A j \in DOMAIN m_write_queue' :
                 j = Len(m_write_queue) + 1
                 \/ (j \in DOMAIN m_write_queue /\ m_write_queue'[j] = m_write_queue[j])
      BY <1>2, <2>1, <2>2 DEF TypeOK
    <2>4. Written' <=> Written
      BY <1>4 DEF Written, SameFor
    <2>5. WriterInv'
      BY <1>4, <2>1, <2>3 DEF IInv, Inv, WriterInv, Write, SameFor
    <2>6. Written => m_write_queue # <<>>
      BY HasAny DEF IInv, Inv, WriterInv, Written
    <2>7. FrontInv'
      BY <1>3, <2>3, <2>4, <2>6 DEF IInv, Inv, FrontInv
    <2>8. CloseInv'
      BY <1>3, <2>4 DEF IInv, Inv, CloseInv, CloseIsLast, sockvars
    <2>9. Done' = Done
      BY <1>3, <2>4 DEF Done
    <2>10. /\ Numbers(ready) = Numbers(ready') \cup {m.n}
           /\ \A n \in Numbers(ready') : m.n < n
           /\ Increasing(ready')
      BY <1>3, <1>9, <2>2, LineFacts, TailNumbers DEF m
    <2>11. m.n \in Nat
      BY <2>2 DEF Message
    <2>12. m.n = Done + Len(m_write_queue) + 1 /\ m.n <= posted
      <3>1. m.n \in (Done + Len(m_write_queue) + 1)..posted
        BY <1>9, <2>10, LineFacts
      <3>2. Done + Len(m_write_queue) + 1 \in (Done + Len(m_write_queue) + 1)..posted
        BY <1>9, <3>1, LineFacts
      <3>3. Done + Len(m_write_queue) + 1 \in Numbers(ready') \cup {m.n}
        BY <1>9, <2>10, <3>2, LineFacts
      <3> QED BY <1>9, <2>10, <2>11, <3>1, <3>3, LineFacts
    <2>13. Numbers(ready') = (Done + Len(m_write_queue') + 1)..posted
      <3>1. \A n : n \in Numbers(ready') <=> n \in Numbers(ready) /\ n # m.n
        BY <2>10, <2>11
      <3>2. \A n : n \in (Done + Len(m_write_queue) + 1)..posted /\ n # m.n
                   <=> n \in (Done + Len(m_write_queue') + 1)..posted
        <4> DEFINE a == Done + Len(m_write_queue) + 1
        <4>1. a \in Int /\ posted \in Int /\ m.n = a
          BY <1>9, <2>12, LineFacts
        <4>2. Done + Len(m_write_queue') + 1 = a + 1
          BY <1>9, <2>3, LineFacts
        <4> HIDE DEF a
        <4>3. \A n : n \in a..posted /\ n # a <=> n \in (a + 1)..posted
          BY <4>1
        <4>4. \A n : n \in a..posted /\ n # m.n
                     <=> n \in (Done + Len(m_write_queue') + 1)..posted
          BY <4>1, <4>2, <4>3
        <4> QED BY <4>4 DEF a
      <3>3. Numbers(ready) = (Done + Len(m_write_queue) + 1)..posted
        BY <1>9, LineFacts
      <3> QED BY <3>1, <3>2, <3>3
    <2>14. \A j \in DOMAIN m_write_queue' : m_write_queue'[j].n = Done + j
      <3>1. SUFFICES ASSUME NEW j \in DOMAIN m_write_queue'
                     PROVE  m_write_queue'[j].n = Done + j
        OBVIOUS
      <3>2. CASE j = Len(m_write_queue) + 1 /\ m_write_queue'[j] = m
        <4>1. m.n = Done + Len(m_write_queue) + 1 /\ Done \in Int /\ Len(m_write_queue) \in Nat
          BY <1>9, <2>12, LineFacts
        <4>2. m.n = Done + j
          BY <3>2, <4>1
        <4> QED BY <3>2, <4>2
      <3>3. CASE j \in DOMAIN m_write_queue /\ m_write_queue'[j] = m_write_queue[j]
        <4>1. m_write_queue[j].n = Done + j
          BY <1>9, <3>3, LineFacts
        <4> QED BY <3>3, <4>1
      <3> QED BY <2>3, <3>1, <3>2, <3>3
    <2>15. Done + Len(m_write_queue') <= posted
      BY <1>9, <2>3, <2>12, LineFacts
    <2>16. WireInOrder'
      BY <1>3 DEF IInv, Inv, OrderInv, WireInOrder
    <2>17. OrderInv'
      BY <1>3, <2>9, <2>10, <2>13, <2>14, <2>15, <2>16 DEF OrderInv, appvars
    <2> QED BY <1>5, <1>6, <1>7, <2>5, <2>7, <2>8, <2>17 DEF Inv
  <1> QED BY <1>8, <1>9

LEMMA HandleWriteInv ==
    ASSUME IInv, HandleWrite
    PROVE  Inv'
  <1> DEFINE h == "handle_write"
             f == Head(m_write_queue)
  <1>1. Runs(h) /\ h \in Session /\ Writing = {h} /\ Head(ready).ec = "ok"
    BY DEF HandleWrite, RunsOk, Session, Writing
  <1>2. /\ TypeOK /\ m_state # "CONNECTING"
        /\ SameBut(Tail(ready), ready, Writing)
        /\ SameFor(Tail(ready), ready, Handshake)
    BY <1>1, SessionRuns
  <1>3. /\ ready' = Tail(ready)
        /\ UNCHANGED <<chain, reads, sockvars, wire, invars, appvars>>
    BY DEF HandleWrite
  <1>4. /\ SameFor(ready', ready, Reading) /\ SameFor(ready', ready, Expiry)
        /\ Numbers(ready') = Numbers(ready)
        /\ Increasing(ready) => Increasing(ready')
    BY <1>2, <1>3 DEF SameBut, Writing, Reading, Expiry
  <1>5. HandshakeInv' /\ ConnectingInv'
    BY <1>2, <1>3, <1>4, SessionStep DEF sockvars
  <1>6. DeadlineInv' /\ DetachedInv'
    BY <1>3, <1>4, DeadlineFrame DEF IInv, Inv, DetachedInv, sockvars
  <1>7. ReaderInv'
    BY <1>3, <1>4, ReaderFrame DEF IInv, Inv, sockvars, invars, appvars, Alive
  <1>8. /\ ready \in Seq(Handlers) /\ ready # <<>>
        /\ Any(ready, Writing) /\ ~Any(ready', Writing)
    BY <1>1, <1>2, <1>3, RunsFacts DEF IInv, Inv, WriterInv
  <1>9. Written
    BY <1>1, <1>8, TailViews DEF Written, RunsOk, Runs
  <1>10. ~Written'
    BY <1>8, NoneAtMostOne DEF Written
  <1>11. m_write_queue # <<>> /\ writes = 0
    BY <1>8 DEF IInv, Inv, WriterInv
  <1>12. m_write_queue' = Tail(m_write_queue)
    BY <1>11 DEF HandleWrite
  <1>13. \/ m_write_state' = "IDLE" /\ writes' = 0
         \/ m_write_state' = "WRITING" /\ writes' = 1 /\ m_write_queue' # <<>>
    BY <1>11 DEF HandleWrite, Write
  <1>14. WriterInv'
    BY <1>8, <1>13, NoneAtMostOne DEF WriterInv
  <1>15. FrontInv'
    BY <1>10 DEF FrontInv
  <1>16. wire # <<>> /\ wire[Len(wire)] = f /\ f.op \notin CloseOps
    BY <1>9, <1>11 DEF IInv, Inv, FrontInv, HandleWrite
  <1>17. CloseInv'
    BY <1>3, <1>16 DEF IInv, Inv, CloseInv, CloseIsLast
  <1>18. Done' = Done + 1 /\ Len(wire) \in Nat
    BY <1>2, <1>3, <1>9, <1>10 DEF Done, TypeOK
  <1>19. WireInOrder'
    BY <1>3 DEF IInv, Inv, OrderInv, WireInOrder
  <1>20. /\ Len(m_write_queue') = Len(m_write_queue) - 1
         /\ \A j \in DOMAIN m_write_queue' :
                j \in Nat /\ j + 1 \in DOMAIN m_write_queue
                /\ m_write_queue'[j] = m_write_queue[j + 1]
    BY <1>2, <1>11, <1>12 DEF TypeOK
  <1>21. CASE m_state = "CLOSED"
    BY <1>3, <1>5, <1>6, <1>7, <1>14, <1>15, <1>17, <1>19, <1>21
    DEF Inv, OrderInv, sockvars
  <1>22. CASE m_state # "CLOSED"
    <2>1. /\ Done \in Int /\ Len(m_write_queue) \in Nat
          /\ \A j \in DOMAIN m_write_queue : m_write_queue[j].n = Done + j
      BY <1>22, LineFacts
    <2>2. \A j \in DOMAIN m_write_queue' : m_write_queue'[j].n = Done' + j
      BY <1>18, <1>20, <2>1
    <2>3. Done' + Len(m_write_queue') = Done + Len(m_write_queue)
      BY <1>18, <1>20, <2>1
    <2>4. OrderInv'
      BY <1>3, <1>4, <1>19, <1>22, <2>2, <2>3, LineFacts DEF OrderInv, appvars
    <2> QED BY <1>5, <1>6, <1>7, <1>14, <1>15, <1>17, <2>4 DEF Inv
  <1> QED BY <1>21, <1>22

LEMMA HandleWriteCloseInv ==
    ASSUME IInv, NEW cb \in Behaviours, HandleWriteClose(cb)
    PROVE  Inv'
  <1> DEFINE h == "handle_write"
  <1>1. Runs(h) /\ h \in Session /\ Writing = {h}
    BY DEF HandleWriteClose, RunsOk, Session, Writing
  <1>2. /\ TypeOK /\ m_state # "CONNECTING" /\ Tail(ready) \in Seq(Handlers)
        /\ SameBut(Tail(ready), ready, Writing)
        /\ SameFor(Tail(ready), ready, Handshake)
    BY <1>1, SessionRuns DEF SameBut
  <1>3. /\ Terminate(cb, Tail(ready)) /\ m_write_state' = "IDLE"
        /\ UNCHANGED <<netvars, wire, busy>>
    BY DEF HandleWriteClose, invars
  <1>4. Any(ready, Writing) /\ ~Any(Tail(ready), Writing)
    BY <1>1, <1>2, RunsFacts DEF IInv, Inv, WriterInv
  <1>5. m_state' = "CLOSED" /\ SameBut(ready', Tail(ready), Expiry \cup OfHandler)
    BY <1>2, <1>3, TerminateFacts
  <1>6. /\ SameFor(ready', Tail(ready), Handshake)
        /\ SameFor(ready', Tail(ready), Writing)
        /\ SameFor(ready', Tail(ready), Reading)
    BY <1>5 DEF SameBut, OfHandler, Alarm, Handshake, Writing, Reading, Expiry
  <1>7. SameFor(Tail(ready), ready, Reading)
    BY <1>2 DEF SameBut, Writing, Reading
  <1>8. chain' = "none" /\ ~Any(ready', Handshake)
    BY <1>2, <1>3, <1>6, SessionPhase DEF SameFor, netvars
  <1>9. ~Any(ready', Writing)
    BY <1>4, <1>6 DEF SameFor
  <1>10. writes' = 0
    BY <1>3, <1>4 DEF IInv, Inv, WriterInv, netvars
  <1>11. WriterInv' /\ FrontInv'
    BY <1>9, <1>10, NoneAtMostOne DEF WriterInv, FrontInv, Written
  <1>12. ReaderInv'
    BY <1>3, <1>5, <1>6, <1>7 DEF IInv, Inv, ReaderInv, SameFor, netvars
  <1> QED BY <1>3, <1>5, <1>8, <1>11, <1>12, EndStep

LEMMA HandleWriteErrorInv ==
    ASSUME IInv, NEW cb \in Behaviours, HandleWriteError(cb)
    PROVE  Inv'
  <1> DEFINE h == "handle_write"
  <1>1. Runs(h) /\ h \in Session
    BY DEF HandleWriteError, Session, Writing
  <1>2. /\ TypeOK /\ m_state # "CONNECTING" /\ Part(Tail(ready), ready)
        /\ SameFor(Tail(ready), ready, Handshake)
    BY <1>1, SessionRuns
  <1>3. chain = "none" /\ ~Any(Tail(ready), Handshake)
    BY <1>2, SessionPhase DEF SameFor
  <1>4. UNCHANGED <<netvars, outvars, busy>>
    BY DEF HandleWriteError, invars
  <1>5. CASE m_detached
    <2>1. m_state = "CLOSED"
      BY <1>2, <1>5 DEF IInv, Inv, DetachedInv, TypeOK
    <2>2. ready' = Tail(ready) /\ m_state' = m_state
      BY <1>5 DEF HandleWriteError, sockvars
    <2>3. /\ Any(ready', Writing) => Any(ready, Writing)
          /\ Has(ready', Writing, "ok") => Has(ready, Writing, "ok")
          /\ AtMostOne(ready, Writing) => AtMostOne(ready', Writing)
          /\ Any(ready', Reading) => Any(ready, Reading)
          /\ AtMostOne(ready, Reading) => AtMostOne(ready', Reading)
      BY <1>2, <2>2 DEF Part
    <2>4. WriterInv' /\ FrontInv'
      BY <1>4, <2>3 DEF IInv, Inv, WriterInv, FrontInv, Written, netvars, outvars
    <2>5. ReaderInv'
      BY <1>4, <2>1, <2>2, <2>3 DEF IInv, Inv, ReaderInv, netvars
    <2> QED BY <1>3, <1>4, <2>1, <2>2, <2>4, <2>5, EndStep DEF netvars, outvars
  <1>6. CASE ~m_detached
    <2>1. Terminate(cb, Tail(ready))
      BY <1>6 DEF HandleWriteError
    <2> QED BY <1>2, <1>3, <1>4, <2>1, EndingStep
  <1> QED BY <1>2, <1>5, <1>6 DEF TypeOK

-----------------------------------------------------------------------------
(* Closing and the timers.                                                 *)

\* The queue has changed, but not for the parts of the session, and nothing
\* else that they depend on has.
LEMMA SessionFrame ==
    ASSUME IInv, m_state # "CONNECTING",
           UNCHANGED <<netvars, m_state, m_detached, outvars, busy, processor, posted>>,
           SameFor(ready', ready, Handshake), SameFor(ready', ready, Writing),
           SameFor(ready', ready, Reading), Numbers(ready') = Numbers(ready),
           Increasing(ready) => Increasing(ready'),
           Alive' => Alive, DeadlineInv'
    PROVE  Inv'
  <1>1. HandshakeInv' /\ ConnectingInv'
    BY SessionStep DEF netvars
  <1>2. WriterInv' /\ FrontInv' /\ CloseInv' /\ OrderInv'
    BY LineFrame DEF netvars
  <1>3. DetachedInv'
    BY DEF IInv, Inv, DetachedInv
  <1>4. ReaderInv'
    BY ReaderFrame DEF IInv, Inv, netvars
  <1> QED BY <1>1, <1>2, <1>3, <1>4 DEF Inv

LEMMA HandleSendCloseInv ==
    ASSUME IInv, HandleSendClose
    PROVE  Inv'
  <1> DEFINE h == "send_close"
  <1>1. Runs(h) /\ h \in Session
    BY DEF HandleSendClose, Session
  <1>2. /\ TypeOK /\ m_state # "CONNECTING" /\ Tail(ready) \in Seq(Handlers)
        /\ SameBut(Tail(ready), ready, {h})
    BY <1>1, SessionRuns DEF SameBut
  <1>3. /\ SendClose("CLOSE_NORMAL", Tail(ready))
        /\ UNCHANGED <<netvars, m_detached, outvars, busy, processor>>
        /\ proc' = proc
    BY DEF HandleSendClose, invars
  <1>4. /\ SameFor(Tail(ready), ready, Handshake) /\ SameFor(Tail(ready), ready, Writing)
        /\ SameFor(Tail(ready), ready, Reading) /\ SameFor(Tail(ready), ready, Expiry)
        /\ Numbers(Tail(ready)) = Numbers(ready)
        /\ Increasing(ready) => Increasing(Tail(ready))
    BY <1>2 DEF SameBut, Handshake, Writing, Reading, Expiry
  <1>5. CASE m_detached \/ m_state # "OPEN"
    <2>1. ready' = Tail(ready) /\ UNCHANGED <<m_state, m_timer, posted>>
      BY <1>3, <1>5 DEF SendClose
    <2>2. DeadlineInv'
      BY <1>4, <2>1, DeadlineFrame DEF IInv, Inv
    <2> QED BY <1>2, <1>3, <1>4, <2>1, <2>2, SessionFrame DEF Alive
  <1>6. CASE ~m_detached /\ m_state = "OPEN"
    <2>1. /\ m_state' = "CLOSING" /\ m_timer' = TRUE /\ posted' = posted + 1
          /\ ready' = Append(Tail(ready), WriteMessage("CLOSE_NORMAL", NoText, posted + 1))
      BY <1>3, <1>6 DEF SendClose
    <2>2. "CLOSE_NORMAL" \in Ops
      BY DEF Ops, CloseOps
    <2>3. SameBut(ready', Tail(ready), {"write_message"})
      BY <1>2, <1>3, <2>2, SendCloseFacts
    <2>4. SameFor(ready', ready, Reading)
      BY <1>4, <2>3 DEF SameBut, SameFor, Reading
    <2>5. ReaderInv'
      BY <1>3, <2>1, <2>4, ReaderFrame DEF IInv, Inv, netvars, Alive
    <2> QED BY <1>2, <1>3, <1>6, <2>1, <2>2, <2>5, PostStep DEF netvars
  <1> QED BY <1>2, <1>5, <1>6 DEF TypeOK

LEMMA FailOnExpireInv ==
    ASSUME IInv, NEW cb \in Behaviours, FailOnExpire(cb)
    PROVE  Inv'
  <1> DEFINE h == "fail_on_expire"
  <1>1. Runs(h) /\ h \in Session
    BY DEF FailOnExpire, RunsOk, Session, Expiry
  <1>2. /\ m_state # "CONNECTING" /\ Part(Tail(ready), ready)
        /\ SameFor(Tail(ready), ready, Handshake)
    BY <1>1, SessionRuns
  <1>3. chain = "none" /\ ~Any(Tail(ready), Handshake)
    BY <1>2, SessionPhase DEF SameFor
  <1>4. Terminate(cb, Tail(ready)) /\ UNCHANGED <<netvars, outvars, busy>>
    BY DEF FailOnExpire, invars
  <1> QED BY <1>2, <1>3, <1>4, EndingStep

\* A handler that a callback has posted, or of its timer, runs when the
\* handshake is over.
LEMMA AfterHandshake ==
    ASSUME IInv, NEW h \in OfHandler, Runs(h)
    PROVE  /\ TypeOK /\ chain = "none" /\ ~Any(ready, Handshake)
           /\ SameBut(Tail(ready), ready, {h}) /\ Part(Tail(ready), ready)
           /\ Tail(ready) \in Seq(Handlers)
           /\ SameFor(Tail(ready), ready, Handshake)
           /\ SameFor(Tail(ready), ready, Session)
           /\ ~Any(Tail(ready), Handshake)
           /\ Alive /\ ~busy
           /\ h = "app_timer" /\ m_state = "CONNECTING" => m_detached
  <1>1. /\ Any(ready, {h}) /\ TypeOK /\ ready # <<>> /\ Alive /\ ~busy
        /\ SameBut(Tail(ready), ready, {h}) /\ Tail(ready) \in Seq(Handlers)
    BY RunsFacts DEF IInv
  <1>2. Any(ready, OfHandler)
    BY <1>1 DEF Any
  <1>3. chain = "none" /\ ~Any(ready, Handshake)
    BY <1>2 DEF IInv, Inv, HandshakeInv
  <1>4. SameFor(Tail(ready), ready, Handshake) /\ SameFor(Tail(ready), ready, Session)
    BY <1>1 DEF SameBut, OfHandler, Alarm, Handshake, Session, Writing, Reading, Expiry
  <1>5. h = "app_timer" /\ m_state = "CONNECTING" => m_detached
    BY <1>1 DEF IInv, Inv, ConnectingInv, Alarm
  <1> QED BY <1>1, <1>3, <1>4, <1>5, TailPart DEF SameFor

LEMMA HandleTerminateInv ==
    ASSUME IInv, NEW cb \in Behaviours, HandleTerminate(cb)
    PROVE  Inv'
  <1>1. /\ Runs("terminate") /\ "terminate" \in OfHandler
        /\ Terminate(cb, Tail(ready)) /\ UNCHANGED <<netvars, outvars, busy>>
    BY DEF HandleTerminate, OfHandler, invars
  <1> QED BY <1>1, AfterHandshake, EndingStep

LEMMA HandleAbortedInv ==
    ASSUME IInv, HandleAborted
    PROVE  Inv'
  <1>1. /\ ready' = Tail(ready) /\ Head(ready).ec = "aborted"
        /\ UNCHANGED <<netvars, sockvars, outvars, invars, appvars>>
    BY DEF HandleAborted
  <1>2. CASE Runs("fail_on_expire")
    <2> DEFINE h == "fail_on_expire"
    <2>1. h \in Session /\ Expiry = {h}
      BY DEF Session, Expiry
    <2>2. /\ m_state # "CONNECTING" /\ TypeOK
          /\ SameBut(Tail(ready), ready, Expiry)
          /\ SameFor(ready', ready, Handshake)
      BY <1>1, <1>2, <2>1, SessionRuns
    <2>3. /\ SameFor(ready', ready, Writing) /\ SameFor(ready', ready, Reading)
          /\ Numbers(ready') = Numbers(ready)
          /\ Increasing(ready) => Increasing(ready')
      BY <1>1, <2>2 DEF SameBut, Writing, Reading, Expiry
    <2>4. ready \in Seq(Handlers) /\ ready # <<>>
      BY <1>2, <2>2, RunsFacts
    <2>5. Has(ready', Expiry, "ok") <=> Has(ready, Expiry, "ok")
      BY <1>1, <2>4, TailViews
    <2>6. DeadlineInv'
      BY <1>1, <2>5 DEF IInv, Inv, DeadlineInv, sockvars
    <2> QED BY <1>1, <2>2, <2>3, <2>6, SessionFrame
        DEF sockvars, invars, appvars, Alive
  <1>3. CASE Runs("app_timer")
    <2> DEFINE h == "app_timer"
    <2>1. h \in OfHandler
      BY DEF OfHandler, Alarm
    <2>2. /\ TypeOK /\ chain = "none" /\ ~Any(ready', Handshake)
          /\ SameBut(ready', ready, {h})
          /\ SameFor(ready', ready, Handshake) /\ SameFor(ready', ready, Session)
          /\ m_state = "CONNECTING" => m_detached
      BY <1>1, <1>3, <2>1, AfterHandshake
    <2>3. CASE m_state = "CONNECTING"
      <3>1. HandshakeInv'
        BY <1>1, <2>2, NoneAtMostOne DEF HandshakeInv, netvars
      <3> QED BY <1>1, <2>2, <2>3, <3>1, ConnectingStep
          DEF netvars, sockvars, invars, appvars
    <2>4. CASE m_state # "CONNECTING"
      <3>1. /\ SameFor(ready', ready, Writing) /\ SameFor(ready', ready, Reading)
            /\ SameFor(ready', ready, Expiry)
            /\ Numbers(ready') = Numbers(ready)
            /\ Increasing(ready) => Increasing(ready')
        BY <2>2 DEF SameBut, Writing, Reading, Expiry
      <3>2. DeadlineInv'
        BY <1>1, <3>1, DeadlineFrame DEF IInv, Inv, sockvars
      <3> QED BY <1>1, <2>2, <2>4, <3>1, <3>2, SessionFrame
          DEF sockvars, invars, appvars, Alive
    <2> QED BY <2>3, <2>4
  <1> QED BY <1>2, <1>3 DEF HandleAborted

LEMMA HandleAppTimerInv ==
    ASSUME IInv, NEW cb \in Behaviours, HandleAppTimer(cb)
    PROVE  Inv'
  <1> DEFINE h == "app_timer"
  <1>1. /\ Runs(h) /\ h \in OfHandler /\ Alarm = {h}
        /\ ready' = CallbackReady(cb, Tail(ready), m_state)
        /\ CallbackEffects(cb, m_state)
        /\ UNCHANGED <<netvars, sockvars, outvars, busy, processor>>
    BY DEF HandleAppTimer, RunsOk, OfHandler, Alarm, invars
  <1>2. /\ TypeOK /\ chain = "none" /\ ~Any(Tail(ready), Handshake)
        /\ SameBut(Tail(ready), ready, Alarm) /\ Tail(ready) \in Seq(Handlers)
        /\ SameFor(Tail(ready), ready, Session)
        /\ m_state = "CONNECTING" => m_detached
    BY <1>1, AfterHandshake
  <1>3. CASE m_state = "CONNECTING"
    <2>1. SameBut(ready', Tail(ready), OfHandler)
      BY <1>1, <1>2, <1>3, CallbackReadyViews DEF States, TypeOK
    <2>2. SameFor(ready', Tail(ready), Session) /\ SameFor(ready', Tail(ready), Handshake)
      BY <2>1 DEF SameBut, OfHandler, Alarm, Handshake, Session, Writing, Reading, Expiry
    <2>3. SameFor(ready', ready, Session) /\ ~Any(ready', Handshake)
      BY <1>2, <2>2 DEF SameFor
    <2>4. HandshakeInv'
      BY <1>1, <1>2, <2>3, NoneAtMostOne DEF HandshakeInv, netvars
    <2>5. posted' = posted
      BY <1>1, <1>3 DEF CallbackEffects, CallbackCalls, Sends
    <2> QED BY <1>1, <1>2, <1>3, <2>3, <2>4, <2>5, ConnectingStep
        DEF netvars, sockvars
  <1>4. CASE m_state # "CONNECTING"
    BY <1>1, <1>2, <1>4, CallbackStep DEF sockvars
  <1> QED BY <1>3, <1>4

LEMMA CloseTimerExpiresInv ==
    ASSUME IInv, CloseTimerExpires
    PROVE  Inv'
  <1>1. /\ m_timer /\ ready' = Append(ready, Completion("fail_on_expire", "ok"))
        /\ UNCHANGED <<netvars, m_state, m_detached, outvars, invars, appvars>>
    BY DEF CloseTimerExpires
  <1>2. TypeOK /\ m_state # "CONNECTING"
    BY <1>1 DEF IInv, Inv, ConnectingInv
  <1>3. SameBut(ready', ready, Expiry) /\ Has(ready', Expiry, "ok")
    BY <1>1, <1>2, CompletionAppended DEF HandlerNames, Errors, Expiry
  <1>4. /\ SameFor(ready', ready, Handshake)
        /\ SameFor(ready', ready, Writing) /\ SameFor(ready', ready, Reading)
        /\ Numbers(ready') = Numbers(ready)
        /\ Increasing(ready) => Increasing(ready')
    BY <1>3 DEF SameBut, Handshake, Writing, Reading, Expiry
  <1>5. DeadlineInv'
    BY <1>3 DEF DeadlineInv
  <1> QED BY <1>1, <1>2, <1>4, <1>5, SessionFrame DEF invars, appvars, Alive

LEMMA AppTimerExpiresInv ==
    ASSUME IInv, AppTimerExpires
    PROVE  Inv'
  <1> DEFINE h == "app_timer"
  <1>1. /\ app_timer /\ app_timer' = FALSE /\ proc' = proc
        /\ ready' = Append(ready, Completion(h, "ok"))
        /\ UNCHANGED <<netvars, sockvars, outvars, invars, posted>>
    BY DEF AppTimerExpires
  <1>2. /\ TypeOK /\ chain = "none" /\ ~Any(ready, Handshake)
        /\ m_state = "CONNECTING" => m_detached
    BY <1>1 DEF IInv, Inv, HandshakeInv, ConnectingInv
  <1>3. SameBut(ready', ready, {h})
    BY <1>1, <1>2, CompletionAppended DEF HandlerNames, Errors
  <1>4. /\ SameFor(ready', ready, Handshake) /\ SameFor(ready', ready, Session)
        /\ SameFor(ready', ready, Writing) /\ SameFor(ready', ready, Reading)
        /\ SameFor(ready', ready, Expiry)
        /\ Numbers(ready') = Numbers(ready)
        /\ Increasing(ready) => Increasing(ready')
    BY <1>3 DEF SameBut, Handshake, Session, Writing, Reading, Expiry
  <1>5. CASE m_state = "CONNECTING"
    <2>1. HandshakeInv'
      BY <1>1, <1>2, <1>4, NoneAtMostOne DEF HandshakeInv, netvars, SameFor
    <2> QED BY <1>1, <1>2, <1>4, <1>5, <2>1, ConnectingStep
        DEF netvars, sockvars, invars
  <1>6. CASE m_state # "CONNECTING"
    <2>1. DeadlineInv'
      BY <1>1, <1>4, DeadlineFrame DEF IInv, Inv, sockvars
    <2> QED BY <1>1, <1>4, <1>6, <2>1, SessionFrame DEF sockvars, invars, Alive
  <1> QED BY <1>5, <1>6

\* Nothing changes but how the process stands.
LEMMA UnchangedInv ==
    ASSUME IInv, Alive' => Alive,
           UNCHANGED <<ready, netvars, sockvars, outvars, invars, app_timer, posted>>
    PROVE  Inv'
  <1>1. HandshakeInv' /\ ConnectingInv' /\ DetachedInv' /\ DeadlineInv'
    BY DEF IInv, Inv, HandshakeInv, ConnectingInv, DetachedInv, DeadlineInv,
           netvars, sockvars, outvars, invars
  <1>2. WriterInv' /\ FrontInv' /\ CloseInv' /\ OrderInv'
    BY DEF IInv, Inv, WriterInv, FrontInv, CloseInv, CloseIsLast, OrderInv,
           WireInOrder, Written, Done, netvars, sockvars, outvars
  <1>3. ReaderInv'
    BY DEF IInv, Inv, ReaderInv, netvars, sockvars, invars
  <1> QED BY <1>1, <1>2, <1>3 DEF Inv

-----------------------------------------------------------------------------
(* The invariant and the properties it implies.                            *)

LEMMA EnvironmentInv ==
    ASSUME IInv, Network \/ Timers
    PROVE  Inv'
  <1>1. ASSUME NEW ec \in {"ok", "error", "unknown"}, ConnectDone(ec) PROVE Inv'
    <2>1. "handle_connect" \in Handshake /\ ec \in Errors
      BY DEF Handshake, Errors
    <2> QED BY <1>1, <2>1, HandshakeCompletes DEF ConnectDone, invars
  <1>2. ASSUME NEW ec \in {"ok", "error"}, WriteRequestDone(ec) PROVE Inv'
    <2>1. "handle_write_request" \in Handshake /\ ec \in Errors
      BY DEF Handshake, Errors
    <2> QED BY <1>2, <2>1, HandshakeCompletes DEF WriteRequestDone, invars
  <1>3. ASSUME NEW ec \in {"ok", "error", "unknown", "reset"}, NEW k \in 0..MaxChunk,
               ReadResponseDone(ec, k)
        PROVE  Inv'
    <2>1. "handle_read_response" \in Handshake /\ ec \in Errors
      BY DEF Handshake, Errors
    <2> QED BY <1>3, <2>1, HandshakeCompletes DEF ReadResponseDone, invars
  <1>4. ASSUME NEW k \in 1..MaxChunk, ReadDone(k) PROVE Inv'
    <2>1. "ok" \in Errors
      BY DEF Errors
    <2> QED BY <1>4, <2>1, ReadCompletes DEF ReadDone
  <1>5. CASE ReadFail
    <2>1. "error" \in Errors
      BY DEF Errors
    <2> QED BY <1>5, <2>1, ReadCompletes DEF ReadFail, invars
  <1>6. CASE WriteDone
    BY <1>6, WriteDoneInv
  <1>7. CASE WriteFail
    BY <1>7, WriteFailInv
  <1>8. CASE CloseTimerExpires
    BY <1>8, CloseTimerExpiresInv
  <1>9. CASE AppTimerExpires
    BY <1>9, AppTimerExpiresInv
  <1> QED
    BY <1>1, <1>2, <1>3, <1>4, <1>5, <1>6, <1>7, <1>8, <1>9
    DEF Network, Timers

LEMMA ThreadInv ==
    ASSUME IInv, Thread
    PROVE  Inv'
  <1>1. CASE HandleConnect
    <2>1. Runs("handle_connect") /\ "handle_connect" \in Handshake
      BY <1>1 DEF HandleConnect, RunsOk, Handshake
    <2> QED BY <1>1, <2>1, HandshakeGoesOn DEF HandleConnect, netvars, appvars
  <1>2. CASE HandleConnectThrows
    <2>1. Runs("handle_connect") /\ "handle_connect" \in Handshake
      BY <1>2 DEF HandleConnectThrows, Handshake
    <2> QED BY <1>2, <2>1, HandshakeGoesOn DEF HandleConnectThrows, netvars, appvars
  <1>3. CASE HandleWriteRequest
    <2>1. Runs("handle_write_request") /\ "handle_write_request" \in Handshake
      BY <1>3 DEF HandleWriteRequest, RunsOk, Handshake
    <2> QED BY <1>3, <2>1, HandshakeGoesOn DEF HandleWriteRequest, netvars, appvars
  <1>4. CASE HandleReadResponseRefuses
    <2>1. Runs("handle_read_response") /\ "handle_read_response" \in Handshake
      BY <1>4 DEF HandleReadResponseRefuses, Handshake
    <2> QED BY <1>4, <2>1, HandshakeGoesOn DEF HandleReadResponseRefuses, netvars, appvars
  <1>17. CASE HandleReadResponseThrows
    <2>1. Runs("handle_read_response") /\ "handle_read_response" \in Handshake
      BY <1>17 DEF HandleReadResponseThrows, Handshake
    <2> QED BY <1>17, <2>1, HandshakeGoesOn DEF HandleReadResponseThrows, netvars, appvars
  <1>5. CASE HandleReadFrame
    BY <1>5, HandleReadFrameInv
  <1>6. CASE ReadLoopEnds
    BY <1>6, ReadLoopEndsInv
  <1>7. CASE ConsumeHeader
    BY <1>7, ConsumeHeaderInv
  <1>8. CASE ConsumePing
    BY <1>8, ConsumePingInv
  <1>9. CASE ConsumePong
    BY <1>9, ConsumePongInv
  <1>10. CASE ConsumeClose
    BY <1>10, ConsumeCloseInv
  <1>11. ASSUME NEW expects \in {"header", "payload", "rejected", "nothing"},
                ConsumeViolation(expects)
         PROVE  Inv'
    BY <1>11, ConsumeViolationInv
  <1>12. CASE HandleWriteMessage
    BY <1>12, HandleWriteMessageInv
  <1>13. CASE HandleWrite
    BY <1>13, HandleWriteInv
  <1>14. CASE HandleSendClose
    BY <1>14, HandleSendCloseInv
  <1>15. CASE HandleAborted
    BY <1>15, HandleAbortedInv
  <1>16. CASE RunReturns
    BY <1>16, UnchangedInv DEF RunReturns, Alive
  <1> QED
    BY <1>1, <1>2, <1>3, <1>4, <1>5, <1>6, <1>7, <1>8,
       <1>9, <1>10, <1>11, <1>12, <1>13, <1>14, <1>15, <1>16,
       <1>17
    DEF Thread

LEMMA CallingInv ==
    ASSUME IInv, NEW cb \in Behaviours, Ending(cb) \/ Calling(cb)
    PROVE  Inv'
  <1>1. CASE HandleConnectFails(cb)
    BY <1>1, HandleConnectFailsInv
  <1>2. CASE HandshakeFails(cb)
    BY <1>2, HandshakeFailsInv
  <1>3. CASE HandleReadFrameError(cb)
    BY <1>3, HandleReadFrameErrorInv
  <1>4. CASE ConsumeCloseAck(cb)
    BY <1>4, ConsumeCloseAckInv
  <1>5. CASE HandleWriteClose(cb)
    BY <1>5, HandleWriteCloseInv
  <1>6. CASE HandleWriteError(cb)
    BY <1>6, HandleWriteErrorInv
  <1>7. CASE HandleTerminate(cb)
    BY <1>7, HandleTerminateInv
  <1>8. CASE FailOnExpire(cb)
    BY <1>8, FailOnExpireInv
  <1>9. CASE HandleReadResponse(cb)
    BY <1>9, HandleReadResponseInv
  <1>10. CASE ConsumePayload(cb)
    BY <1>10, ConsumePayloadInv
  <1>11. CASE HandleAppTimer(cb)
    BY <1>11, HandleAppTimerInv
  <1> QED
    BY <1>1, <1>2, <1>3, <1>4, <1>5, <1>6, <1>7, <1>8, <1>9, <1>10, <1>11
    DEF Ending, Calling

LEMMA InitInv == Init => IInv
  <1> SUFFICES ASSUME Init PROVE IInv
    OBVIOUS
  <1>1. /\ ready = <<>> /\ m_state = "CONNECTING" /\ wire = <<>>
        /\ m_write_queue = <<>> /\ reads = 0 /\ writes = 0 /\ ~busy
        /\ ~m_timer /\ ~app_timer /\ ~m_detached /\ posted = 0
        /\ processor = "header" /\ m_write_state = "IDLE" /\ m_state # "CLOSED"
    BY DEF Init
  <1>2. TypeOK
    <2>1. ready \in Seq(Handlers) /\ m_write_queue \in Seq(Message)
          /\ wire \in Seq(Message)
      BY <1>1
    <2>2. /\ busy \in BOOLEAN /\ app_timer \in BOOLEAN
          /\ m_detached \in BOOLEAN /\ m_timer \in BOOLEAN
      BY DEF Init
    <2> QED BY <2>1, <2>2 DEF Init, TypeOK
  <1>3. \A H : ~Any(ready, H)
    BY <1>1 DEF Any
  <1>4. /\ ~Any(ready, Handshake) /\ AtMostOne(ready, Handshake)
        /\ ~Any(ready, OfHandler) /\ ~Any(ready, Session) /\ ~Any(ready, Alarm)
    BY <1>3, NoneAtMostOne
  <1>5. /\ ~Any(ready, Writing) /\ ~Any(ready, Reading)
        /\ AtMostOne(ready, Writing) /\ AtMostOne(ready, Reading)
        /\ ~Has(ready, Writing, "ok")
        /\ Numbers(ready) = {} /\ Increasing(ready)
    BY <1>4, NoSession
  <1>6. HandshakeInv /\ ConnectingInv /\ DetachedInv /\ DeadlineInv
    BY <1>1, <1>4 DEF HandshakeInv, ConnectingInv, DetachedInv, DeadlineInv
  <1>7. WriterInv /\ FrontInv /\ CloseInv
    BY <1>1, <1>5 DEF WriterInv, FrontInv, CloseInv, CloseIsLast, Written
  <1>8. Done = 0
    BY <1>1, <1>5 DEF Done, Written
  <1>9. OrderInv
    BY <1>1, <1>5, <1>8 DEF OrderInv, WireInOrder
  <1>10. ReaderInv
    BY <1>1, <1>5 DEF ReaderInv
  <1> QED BY <1>2, <1>6, <1>7, <1>9, <1>10 DEF IInv, Inv

LEMMA InvStep == IInv /\ [Next]_vars => IInv'
  <1> SUFFICES ASSUME IInv, [Next]_vars PROVE IInv'
    OBVIOUS
  <1>1. TypeOK'
    BY TypeStep DEF IInv, Inv
  <1>2. ASSUME UNCHANGED vars PROVE Inv'
    BY <1>2, UnchangedInv DEF vars, appvars, Alive
  <1>3. Inv'
    BY <1>2, EnvironmentInv, ThreadInv, CallingInv DEF Next, ThreadStep, Ended
  <1> QED BY <1>1, <1>3 DEF IInv

\* The inductive invariant holds for every handler, every set of texts and
\* every bound: the phases of the handshake, of the reader, of the writer and
\* of the close timer never contradict each other.
THEOREM InductiveInvariant == Spec => []IInv
  BY InitInv, InvStep, PTL DEF Spec

\* Every field of the connection keeps its type.
THEOREM TypeCorrect == Spec => []TypeOK
  <1>1. IInv => TypeOK
    BY DEF IInv
  <1> QED BY <1>1, InductiveInvariant, PTL

\* The frames on the wire are the messages in the order in which they were
\* submitted, none of them twice and none skipped, for any number of messages
\* and however their posts interleave with the writes.
THEOREM FramesInOrder == Spec => []WireInOrder
  <1>1. IInv => WireInOrder
    BY DEF IInv, Inv, OrderInv
  <1> QED BY <1>1, InductiveInvariant, PTL

\* Nothing follows a close frame on the wire and no second one is sent, even
\* when both sides close, the peer sends several close frames, or messages
\* are queued behind ours.
THEOREM CloseFrameIsLast == Spec => []CloseIsLast
  <1>1. IInv => CloseIsLast
    BY DEF IInv, Inv, CloseInv
  <1> QED BY <1>1, InductiveInvariant, PTL

\* Writes never overlap, and the frame being written stays in the queue until
\* handle_write() takes it off.
THEOREM WritesDoNotOverlap == Spec => []OneWriter
  <1>1. IInv => OneWriter
    BY DEF IInv, Inv, WriterInv, OneWriter
  <1> QED BY <1>1, InductiveInvariant, PTL

\* The three phases of the reader exclude each other.
LEMMA ReaderInvariant == IInv => OneReader
  <1> SUFFICES ASSUME IInv PROVE OneReader
    OBVIOUS
  <1> DEFINE W == Waiting("handle_read_frame")
             readers == {"outstanding"} \X (1..reads)
                        \cup {"waiting"} \X W
                        \cup {"running"} \X (IF busy THEN {1} ELSE {})
  <1>1. /\ reads \in {0, 1} /\ AtMostOne(ready, Reading)
        /\ Any(ready, Reading) => reads = 0 /\ ~busy
        /\ busy => reads = 0
        /\ Alive /\ m_state = "OPEN" => reads = 1 \/ busy \/ Any(ready, Reading)
    BY DEF IInv, Inv, ReaderInv
  <1>2. /\ \A i, j \in W : i = j
        /\ Any(ready, Reading) <=> W # {}
    BY <1>1 DEF Waiting, Reading, Any, AtMostOne
  <1>3. \A i \in 1..reads : i = 1 /\ reads = 1
    BY <1>1
  <1> HIDE DEF W
  <1>4. \A r1, r2 \in readers : r1 = r2
    <2> SUFFICES ASSUME NEW r1 \in readers, NEW r2 \in readers
                 PROVE  r1 = r2
      OBVIOUS
    <2>1. CASE reads = 1
      <3>1. W = {} /\ ~busy
        BY <1>1, <1>2, <2>1
      <3>2. r1 = <<"outstanding", 1>> /\ r2 = <<"outstanding", 1>>
        BY <1>3, <3>1
      <3> QED BY <3>2
    <2>2. CASE reads = 0 /\ busy
      <3>1. W = {}
        BY <1>1, <1>2, <2>2
      <3>2. r1 = <<"running", 1>> /\ r2 = <<"running", 1>>
        BY <1>3, <2>2, <3>1
      <3> QED BY <3>2
    <2>3. CASE reads = 0 /\ ~busy
      <3>1. r1 \in {"waiting"} \X W /\ r2 \in {"waiting"} \X W
        BY <1>3, <2>3
      <3> QED BY <1>2, <3>1
    <2> QED BY <1>1, <2>1, <2>2, <2>3
  <1>5. ASSUME Alive, m_state = "OPEN" PROVE readers # {}
    <2>1. CASE reads = 1
      <3>1. <<"outstanding", 1>> \in readers
        BY <2>1
      <3> QED BY <3>1
    <2>2. CASE busy
      <3>1. <<"running", 1>> \in readers
        BY <2>2
      <3> QED BY <3>1
    <2>3. CASE Any(ready, Reading)
      <3>1. PICK i \in W : TRUE
        BY <1>2, <2>3
      <3>2. <<"waiting", i>> \in readers
        OBVIOUS
      <3> QED BY <3>2
    <2> QED BY <1>1, <1>5, <2>1, <2>2, <2>3
  <1> QED BY <1>4, <1>5 DEF OneReader, W

\* The reader is never lost while the connection is open, nor doubled at any
\* time.
THEOREM ReaderIsUnique == Spec => []OneReader
  BY ReaderInvariant, InductiveInvariant, PTL

\* A deadline is one of the views of the queue.
LEMMA DeadlineInvariant == IInv => ClosingHasDeadline
  <1> SUFFICES ASSUME IInv, m_state = "CLOSING", ~m_timer
               PROVE  \E i \in DOMAIN ready :
                          ready[i].h = "fail_on_expire" /\ ready[i].ec = "ok"
    BY DEF ClosingHasDeadline
  <1>1. Has(ready, Expiry, "ok")
    BY DEF IInv, Inv, DeadlineInv
  <1> QED BY <1>1 DEF Has, Expiry

\* Once the connection has begun to close, its close timer is running or the
\* expiry is about to be handled, until it is closed.
THEOREM ClosingIsTimed == Spec => []ClosingHasDeadline
  BY DeadlineInvariant, InductiveInvariant, PTL

-----------------------------------------------------------------------------
(* The messages: which of them a step submits for writing, whatever else   *)
(* it does, and that none is ever made up: what is on the wire, in the     *)
(* write queue or in a post has been submitted.                            *)

PostedIn(s) == {s[i].msg : i \in Posts(s)}
Elements(q) == {q[i] : i \in DOMAIN q}

\* The messages that are somewhere on their way, or have arrived.
Messages == Elements(wire) \cup Elements(m_write_queue) \cup PostedIn(ready)

\* A close() of the handler waits to be carried out.
CloseAsked == Any(ready, {"send_close"})

SubmitsNothing == posted' = posted /\ Messages' \subseteq Messages

Submits(m) ==
    /\ posted' = posted + 1 /\ m.n = posted + 1
    /\ Messages' \subseteq Messages \cup {m}

OwnFrame(op) == [op |-> op, text |-> NoText, n |-> posted + 1]
TextFrame(text) == [op |-> "TEXT", text |-> text, n |-> posted + 1]

-----------------------------------------------------------------------------
(* Sequences.                                                              *)

\* A post appended to the queue is the only new one.
LEMMA AppendPosted ==
    ASSUME NEW s \in Seq(Handlers), NEW x \in Handlers
    PROVE  /\ x.h # "write_message" => PostedIn(Append(s, x)) = PostedIn(s)
           /\ PostedIn(Append(s, x)) \subseteq PostedIn(s) \cup {x.msg}
  <1> DEFINE t == Append(s, x)
  <1>1. /\ Len(s) \in Nat
        /\ DOMAIN t = 1..(Len(s) + 1) /\ DOMAIN s = 1..Len(s)
        /\ \A i \in DOMAIN s : t[i] = s[i]
        /\ t[Len(s) + 1] = x
    OBVIOUS
  <1> HIDE DEF t
  <1>2. \A i \in Posts(t) : i \in Posts(s) \/ i = Len(s) + 1
    BY <1>1 DEF Posts
  <1>3. Posts(s) \subseteq Posts(t) /\ \A i \in Posts(s) : t[i] = s[i]
    BY <1>1 DEF Posts
  <1>4. x.h # "write_message" => Posts(t) = Posts(s)
    BY <1>1, <1>2, <1>3 DEF Posts
  <1>5. PostedIn(t) \subseteq PostedIn(s) \cup {x.msg}
    BY <1>1, <1>2, <1>3 DEF PostedIn
  <1>6. x.h # "write_message" => PostedIn(t) = PostedIn(s)
    BY <1>3, <1>4 DEF PostedIn
  <1> QED BY <1>5, <1>6 DEF t

\* The queue without its first handler has its other posts.
LEMMA TailPosted ==
    ASSUME NEW s \in Seq(Handlers), s # <<>>
    PROVE  /\ PostedIn(Tail(s)) \subseteq PostedIn(s)
           /\ Head(s).h = "write_message" => Head(s).msg \in PostedIn(s)
  <1> DEFINE t == Tail(s)
  <1>1. /\ Len(s) \in Nat /\ Len(s) > 0
        /\ DOMAIN t = 1..(Len(s) - 1) /\ DOMAIN s = 1..Len(s)
        /\ \A i \in DOMAIN t : t[i] = s[i + 1]
        /\ Head(s) = s[1]
    OBVIOUS
  <1> HIDE DEF t
  <1>2. \A i \in Posts(t) : i + 1 \in Posts(s) /\ t[i] = s[i + 1]
    BY <1>1 DEF Posts
  <1>3. PostedIn(t) \subseteq PostedIn(s) BY <1>2 DEF PostedIn
  <1>4. Head(s).h = "write_message" => Head(s).msg \in PostedIn(s)
    BY <1>1 DEF Posts, PostedIn
  <1> QED BY <1>3, <1>4 DEF t

\* Elements of a sequence that grows, and of one that loses its first.
LEMMA ElementsFacts ==
    ASSUME NEW S, NEW q \in Seq(S)
    PROVE  /\ \A x \in S : Elements(Append(q, x)) = Elements(q) \cup {x}
           /\ q # <<>> =>
                  /\ Head(q) \in Elements(q)
                  /\ Elements(Tail(q)) \subseteq Elements(q)
  <1>1. ASSUME NEW x \in S
        PROVE  Elements(Append(q, x)) = Elements(q) \cup {x}
    <2> DEFINE t == Append(q, x)
    <2>1. /\ Len(q) \in Nat
          /\ DOMAIN t = 1..(Len(q) + 1) /\ DOMAIN q = 1..Len(q)
          /\ \A i \in DOMAIN q : t[i] = q[i]
          /\ t[Len(q) + 1] = x
      OBVIOUS
    <2> HIDE DEF t
    <2>2. \A i \in DOMAIN t : i \in DOMAIN q \/ i = Len(q) + 1
      BY <2>1
    <2>3. DOMAIN q \subseteq DOMAIN t /\ Len(q) + 1 \in DOMAIN t
      BY <2>1
    <2>4. Elements(t) = Elements(q) \cup {x}
      BY <2>1, <2>2, <2>3 DEF Elements
    <2> QED BY <2>4 DEF t
  <1>2. ASSUME q # <<>>
        PROVE  Head(q) \in Elements(q) /\ Elements(Tail(q)) \subseteq Elements(q)
    <2> DEFINE t == Tail(q)
    <2>1. /\ Len(q) \in Nat /\ Len(q) > 0
          /\ DOMAIN t = 1..(Len(q) - 1) /\ DOMAIN q = 1..Len(q)
          /\ \A i \in DOMAIN t : t[i] = q[i + 1]
          /\ Head(q) = q[1]
      BY <1>2
    <2> HIDE DEF t
    <2>2. 1 \in DOMAIN q /\ \A i \in DOMAIN t : i + 1 \in DOMAIN q
      BY <2>1
    <2>3. Head(q) \in Elements(q) BY <2>1, <2>2 DEF Elements
    <2>4. Elements(t) \subseteq Elements(q) BY <2>1, <2>2 DEF Elements
    <2> QED BY <2>3, <2>4 DEF t
  <1> QED BY <1>1, <1>2

-----------------------------------------------------------------------------
(* What a step submits.                                                    *)

\* Nothing is submitted by completing, dropping or reordering handlers that
\* post no message.
LEMMA SubmitsNothingWhen ==
    ASSUME posted' = posted, UNCHANGED outvars,
           PostedIn(ready') \subseteq PostedIn(ready)
    PROVE  SubmitsNothing
  BY DEF SubmitsNothing, Messages, outvars, Elements, PostedIn, Posts

\* The queue with a handler other than write_message and send_close added.
LEMMA CompletionPosted ==
    ASSUME TypeOK, NEW h \in HandlerNames \ {"write_message", "send_close"},
           NEW ec \in Errors, ready' = Append(ready, Completion(h, ec))
    PROVE  PostedIn(ready') \subseteq PostedIn(ready) /\ (CloseAsked' => CloseAsked)
  <1>1. Completion(h, ec) \in Handlers /\ Completion(h, ec).h = h
    BY CompletionTyped
  <1>2. ready \in Seq(Handlers) BY DEF TypeOK
  <1>3. PostedIn(Append(ready, Completion(h, ec))) = PostedIn(ready)
    BY <1>1, <1>2, AppendPosted
  <1>4. Any(Append(ready, Completion(h, ec)), {"send_close"}) => CloseAsked
    BY <1>1, <1>2, AppendViews DEF CloseAsked
  <1> QED BY <1>3, <1>4 DEF CloseAsked, PostedIn, Posts, Any

\* The queue with its first handler taken off.
LEMMA TakenOff ==
    ASSUME TypeOK, ready # <<>>
    PROVE  /\ Tail(ready) \in Seq(Handlers)
           /\ PostedIn(Tail(ready)) \subseteq PostedIn(ready)
           /\ Any(Tail(ready), {"send_close"}) => CloseAsked
  BY TailPosted, TailViews DEF TypeOK, CloseAsked

\* A frame of the connection's own is submitted by posting it.
LEMMA OwnFrameSubmitted ==
    ASSUME TypeOK, NEW op \in Ops, NEW rdy \in Seq(Handlers),
           PostedIn(rdy) \subseteq PostedIn(ready),
           Any(rdy, {"send_close"}) => CloseAsked,
           ready' = Append(rdy, WriteMessage(op, NoText, posted + 1)),
           posted' = posted + 1, UNCHANGED outvars
    PROVE  Submits(OwnFrame(op)) /\ (CloseAsked' => CloseAsked)
  <1> DEFINE x == WriteMessage(op, NoText, posted + 1)
  <1>1. x \in Handlers /\ x.h = "write_message"
    BY OwnFrameTyped DEF TypeOK
  <1>2. x.msg = OwnFrame(op) BY DEF WriteMessage, OwnFrame
  <1> HIDE DEF x
  <1>3. PostedIn(ready') \subseteq PostedIn(ready) \cup {OwnFrame(op)}
    BY <1>1, <1>2, AppendPosted DEF x
  <1>4. CloseAsked' => CloseAsked
    <2>1. Any(ready', {"send_close"}) => CloseAsked
      BY <1>1, AppendViews DEF x
    <2> QED BY <2>1 DEF CloseAsked, Any
  <1>5. Messages' \subseteq Messages \cup {OwnFrame(op)}
    BY <1>3 DEF Messages, outvars, Elements, PostedIn, Posts
  <1> QED BY <1>4, <1>5 DEF Submits, OwnFrame

\* send_close() submits a close frame, or does nothing.
LEMMA SendCloseSubmits ==
    ASSUME TypeOK, NEW op \in Ops, NEW rdy \in Seq(Handlers),
           PostedIn(rdy) \subseteq PostedIn(ready),
           Any(rdy, {"send_close"}) => CloseAsked,
           SendClose(op, rdy), UNCHANGED outvars
    PROVE  /\ SubmitsNothing \/ Submits(OwnFrame(op))
           /\ CloseAsked' => CloseAsked
  <1>1. CASE m_detached \/ m_state # "OPEN"
    <2>1. ready' = rdy /\ posted' = posted
      BY <1>1 DEF SendClose
    <2>2. PostedIn(ready') \subseteq PostedIn(ready)
      BY <2>1 DEF PostedIn, Posts
    <2> QED BY <2>1, <2>2, SubmitsNothingWhen DEF CloseAsked, Any
  <1>2. CASE ~(m_detached \/ m_state # "OPEN")
    BY <1>2, OwnFrameSubmitted DEF SendClose
  <1> QED BY <1>1, <1>2

\* A callback submits the text it sends, if the connection is open, and asks
\* for the close if it calls close() then.
LEMMA CallbackSubmits ==
    ASSUME TypeOK, NEW cb \in Behaviours, NEW rdy \in Seq(Handlers),
           PostedIn(rdy) \subseteq PostedIn(ready),
           Any(rdy, {"send_close"}) => CloseAsked,
           NEW st \in States, NEW r, r = CallbackReady(cb, rdy, st)
    PROVE  /\ r \in Seq(Handlers)
           /\ PostedIn(r) \subseteq
                  IF Sends(cb, st) THEN PostedIn(ready) \cup {TextFrame(cb.text)}
                  ELSE PostedIn(ready)
           /\ Any(r, {"send_close"}) =>
                  CloseAsked \/ (st = "OPEN" /\ cb.call = "close")
  <1> DEFINE c1 == app_timer /\ cb.timer # "keep"
             x1 == Completion("app_timer", "aborted")
             r1 == AppendIf(c1, rdy, x1)
             c2 == Sends(cb, st)
             x2 == WriteMessage("TEXT", cb.text, posted + 1)
             r2 == AppendIf(c2, r1, x2)
             c3 == st = "OPEN" /\ cb.call = "close"
             x3 == Completion("send_close", "ok")
             r3 == AppendIf(c3, r2, x3)
             c4 == st = "CONNECTING" /\ ~m_detached /\ cb.call = "close"
             x4 == Completion("terminate", "ok")
             r4 == AppendIf(c4, r3, x4)
  <1>1. r = r4 BY DEF CallbackReady
  <1>2. /\ x1 \in Handlers /\ x1.h = "app_timer"
        /\ x3 \in Handlers /\ x3.h = "send_close"
        /\ x4 \in Handlers /\ x4.h = "terminate"
    BY CompletionTyped DEF HandlerNames, Errors
  <1>3. cb.text \in Text \cup {NoText}
    BY BehavioursAssumption DEF Callbacks
  <1>4. x2 \in Handlers /\ x2.h = "write_message"
    <2>1. posted + 1 \in Nat /\ "TEXT" \in Ops BY DEF TypeOK, Ops
    <2> QED BY <1>3, <2>1, WriteMessageTyped
  <1>5. x2.msg = TextFrame(cb.text) BY DEF WriteMessage, TextFrame
  <1> HIDE DEF c1, c2, c3, c4, x1, x2, x3, x4
  <1>6. /\ r1 \in Seq(Handlers)
        /\ PostedIn(r1) = PostedIn(rdy)
        /\ Any(r1, {"send_close"}) => CloseAsked
    BY <1>2, AppendPosted, AppendViews DEF AppendIf
  <1>7. /\ r2 \in Seq(Handlers)
        /\ PostedIn(r2) \subseteq IF c2 THEN PostedIn(rdy) \cup {x2.msg}
                                  ELSE PostedIn(rdy)
        /\ Any(r2, {"send_close"}) => CloseAsked
    <2> HIDE DEF r1
    <2> QED BY <1>4, <1>6, AppendPosted, AppendViews DEF AppendIf
  <1>8. /\ r3 \in Seq(Handlers)
        /\ PostedIn(r3) = PostedIn(r2)
        /\ Any(r3, {"send_close"}) => CloseAsked \/ c3
    <2> HIDE DEF r2
    <2> QED BY <1>2, <1>7, AppendPosted, AppendViews DEF AppendIf
  <1>9. /\ r4 \in Seq(Handlers)
        /\ PostedIn(r4) = PostedIn(r3)
        /\ Any(r4, {"send_close"}) => CloseAsked \/ c3
    <2> HIDE DEF r3
    <2> QED BY <1>2, <1>8, AppendPosted, AppendViews DEF AppendIf
  <1> HIDE DEF r1, r2, r3, r4
  <1> QED BY <1>1, <1>5, <1>7, <1>8, <1>9 DEF c2, c3

\* So do the steps of on_open(), on_message() and the timer's callback.
LEMMA CallingSubmits ==
    ASSUME IInv, NEW cb \in Behaviours, Calling(cb)
    PROVE  LET st == IF HandleReadResponse(cb) THEN "OPEN" ELSE m_state IN
           /\ IF Sends(cb, st) THEN Submits(TextFrame(cb.text))
              ELSE SubmitsNothing
           /\ CloseAsked' => CloseAsked \/ (st = "OPEN" /\ cb.call = "close")
           /\ UNCHANGED wire
  <1> DEFINE st == IF HandleReadResponse(cb) THEN "OPEN" ELSE m_state
             rdy == IF busy THEN ready ELSE Tail(ready)
             r == CallbackReady(cb, rdy, st)
  <1>0. TypeOK BY DEF IInv
  <1>1. st \in States BY <1>0 DEF TypeOK, States
  <1>2. /\ rdy \in Seq(Handlers)
        /\ PostedIn(rdy) \subseteq PostedIn(ready)
        /\ Any(rdy, {"send_close"}) => CloseAsked
    <2>1. busy \/ ready # <<>>
      BY DEF Calling, HandleReadResponse, ConsumePayload, HandleAppTimer,
             Consumes, RunsOk, Runs
    <2>2. ready \in Seq(Handlers) BY <1>0 DEF TypeOK
    <2> QED BY <1>0, <2>1, <2>2, TakenOff DEF CloseAsked
  <1>3. /\ ready' = r \/ ready' = Append(r, Completion("handle_read_frame", "ok"))
        /\ CallbackEffects(cb, st)
        /\ UNCHANGED outvars
    <2>1. CASE HandleReadResponse(cb)
      BY <2>1 DEF HandleReadResponse, RunsOk, Runs
    <2>2. CASE ~HandleReadResponse(cb)
      BY <2>2 DEF Calling, ConsumePayload, HandleAppTimer, Consumes, RunsOk, Runs
    <2> QED BY <2>1, <2>2
  <1> HIDE DEF st, rdy
  <1>4. /\ r \in Seq(Handlers)
        /\ PostedIn(r) \subseteq
               IF Sends(cb, st) THEN PostedIn(ready) \cup {TextFrame(cb.text)}
               ELSE PostedIn(ready)
        /\ Any(r, {"send_close"}) =>
               CloseAsked \/ (st = "OPEN" /\ cb.call = "close")
    BY <1>0, <1>1, <1>2, CallbackSubmits
  <1> HIDE DEF r
  <1>5. /\ Completion("handle_read_frame", "ok") \in Handlers
        /\ Completion("handle_read_frame", "ok").h = "handle_read_frame"
    BY CompletionTyped DEF HandlerNames, Errors
  <1>6. PostedIn(ready') = PostedIn(r)
    BY <1>3, <1>4, <1>5, AppendPosted
  <1>7. Any(ready', {"send_close"}) => Any(r, {"send_close"})
    BY <1>3, <1>4, <1>5, AppendViews
  <1>8. Messages' \subseteq Elements(wire) \cup Elements(m_write_queue) \cup PostedIn(r)
    BY <1>3, <1>6 DEF Messages, outvars, Elements, PostedIn, Posts
  <1>9. posted' = IF Sends(cb, st) THEN posted + 1 ELSE posted
    BY <1>3 DEF CallbackEffects, CallbackCalls
  <1>10. IF Sends(cb, st) THEN Submits(TextFrame(cb.text)) ELSE SubmitsNothing
    BY <1>4, <1>8, <1>9 DEF Submits, SubmitsNothing, Messages, TextFrame
  <1>11. CloseAsked' => Any(r, {"send_close"})
    BY <1>7 DEF CloseAsked, Any
  <1>12. UNCHANGED wire BY <1>3 DEF outvars
  <1> QED BY <1>4, <1>10, <1>11, <1>12 DEF st

\* on_fail() and on_close() submit nothing if they call nothing.
LEMMA TerminateSubmits ==
    ASSUME TypeOK, NEW cb \in Behaviours, cb.call = "none",
           NEW rdy \in Seq(Handlers), PostedIn(rdy) \subseteq PostedIn(ready),
           Any(rdy, {"send_close"}) => CloseAsked, Terminate(cb, rdy)
    PROVE  /\ posted' = posted /\ PostedIn(ready') \subseteq PostedIn(ready)
           /\ CloseAsked' => CloseAsked
  <1>1. CASE m_state = "CLOSED"
    <2>1. ready' = rdy /\ posted' = posted
      BY <1>1 DEF Terminate, appvars
    <2> QED BY <2>1 DEF CloseAsked, Any, PostedIn, Posts
  <1>2. CASE m_state # "CLOSED"
    <2> DEFINE x == Completion("fail_on_expire", "aborted")
               rdy2 == AppendIf(m_timer, rdy, x)
    <2>1. ready' = CallbackReady(cb, rdy2, "CLOSED") /\ CallbackCalls(cb, "CLOSED")
      BY <1>2 DEF Terminate
    <2>2. x \in Handlers /\ x.h = "fail_on_expire"
      BY CompletionTyped DEF HandlerNames, Errors
    <2> HIDE DEF x
    <2>3. /\ rdy2 \in Seq(Handlers) /\ PostedIn(rdy2) \subseteq PostedIn(ready)
          /\ Any(rdy2, {"send_close"}) => CloseAsked
      BY <2>2, AppendPosted, AppendViews DEF AppendIf
    <2> HIDE DEF rdy2
    <2>4. ~Sends(cb, "CLOSED") /\ "CLOSED" \in States
      BY DEF Sends, States
    <2>5. PostedIn(ready') \subseteq PostedIn(ready)
          /\ (Any(ready', {"send_close"}) => CloseAsked)
      BY <2>1, <2>3, <2>4, CallbackSubmits
    <2>6. posted' = posted BY <2>1, <2>4 DEF CallbackCalls
    <2> QED BY <2>5, <2>6 DEF CloseAsked, Any, PostedIn, Posts
  <1> QED BY <1>1, <1>2

\* Nothing is submitted by the end of a connection.
LEMMA EndingSubmits ==
    ASSUME IInv, NEW cb \in Behaviours, cb.call = "none", Ending(cb)
    PROVE  SubmitsNothing /\ (CloseAsked' => CloseAsked) /\ UNCHANGED wire
  <1>0. TypeOK /\ WriterInv BY DEF IInv, Inv
  <1>1. ready \in Seq(Handlers) /\ (ready # <<>> =>
            /\ Tail(ready) \in Seq(Handlers)
            /\ PostedIn(Tail(ready)) \subseteq PostedIn(ready)
            /\ Any(Tail(ready), {"send_close"}) => CloseAsked)
    BY <1>0, TakenOff DEF TypeOK
  <1>2. PostedIn(ready) \subseteq PostedIn(ready)
        /\ (Any(ready, {"send_close"}) => CloseAsked)
    BY DEF CloseAsked
  <1>3. /\ posted' = posted /\ PostedIn(ready') \subseteq PostedIn(ready)
        /\ CloseAsked' => CloseAsked
    <2>1. CASE HandleConnectFails(cb)
      <3>1. ready # <<>> /\ ready' = CallbackReady(cb, Tail(ready), m_state)
            /\ CallbackEffects(cb, m_state)
        BY <2>1 DEF HandleConnectFails, Runs
      <3>2. m_state \in States /\ ~Sends(cb, m_state)
        BY <1>0 DEF TypeOK, States, Sends
      <3>3. PostedIn(ready') \subseteq PostedIn(ready)
            /\ (Any(ready', {"send_close"}) => CloseAsked)
        BY <1>0, <1>1, <3>1, <3>2, CallbackSubmits
      <3>4. posted' = posted BY <3>1, <3>2 DEF CallbackEffects, CallbackCalls
      <3> QED BY <3>3, <3>4 DEF CloseAsked, Any, PostedIn, Posts
    <2>2. CASE /\ ready # <<>> /\ ready' = Tail(ready) /\ posted' = posted
      BY <1>1, <2>2 DEF CloseAsked, Any, PostedIn, Posts
    <2>3. CASE ready # <<>> /\ Terminate(cb, Tail(ready))
      BY <1>0, <1>1, <2>3, TerminateSubmits
    <2>4. CASE Terminate(cb, ready)
      BY <1>0, <1>1, <1>2, <2>4, TerminateSubmits
    <2>5. CASE ~HandleConnectFails(cb)
      <3>1. \/ ready # <<>> /\ ready' = Tail(ready) /\ posted' = posted
            \/ ready # <<>> /\ Terminate(cb, Tail(ready))
            \/ Terminate(cb, ready)
        BY <2>5 DEF Ending, HandshakeFails, HandleReadFrameError,
             ConsumeCloseAck, HandleWriteClose, HandleWriteError,
             HandleTerminate, FailOnExpire, Runs, RunsOk, appvars
      <3> QED BY <3>1, <2>2, <2>3, <2>4
    <2> QED BY <2>1, <2>5
  <1>4. /\ wire' = wire
        /\ m_write_queue' = m_write_queue
           \/ (m_write_queue # <<>> /\ m_write_queue' = Tail(m_write_queue))
    BY DEF Ending, HandleConnectFails, HandshakeFails, HandleReadFrameError,
           ConsumeCloseAck, HandleWriteClose, HandleWriteError,
           HandleTerminate, FailOnExpire, outvars
  <1>5. Elements(m_write_queue') \subseteq Elements(m_write_queue)
    BY <1>0, <1>4, ElementsFacts DEF TypeOK
  <1>6. Messages' \subseteq Messages
    BY <1>3, <1>4, <1>5 DEF Messages, Elements, PostedIn, Posts
  <1> QED BY <1>3, <1>4, <1>6 DEF SubmitsNothing

-----------------------------------------------------------------------------
(* The steps that call no method of the handler.                           *)

\* What the thread may submit on its own, and that it asks for no close.
OwnSubmission ==
    /\ \/ SubmitsNothing
       \/ \E op \in Ops \ {"TEXT", "CLOSE_NORMAL"} : Submits(OwnFrame(op))
       \/ CloseAsked /\ Submits(OwnFrame("CLOSE_NORMAL"))
    /\ CloseAsked' => CloseAsked

\* Completions and expiries submit nothing; a frame that has been written is
\* still one of the messages.
LEMMA EnvironmentSubmits ==
    ASSUME TypeOK, WriterInv, Network \/ Timers
    PROVE  SubmitsNothing /\ (CloseAsked' => CloseAsked)
  <1> DEFINE Finishes(names) ==
                 \E h \in names, ec \in Errors : ready' = Append(ready, Completion(h, ec))
             Names == HandlerNames \ {"write_message", "send_close"}
  <1>1. Finishes(Names) /\ posted' = posted /\ m_write_queue' = m_write_queue
    <2> USE DEF outvars, appvars, HandlerNames, Errors
    <2>1. CASE Network
      BY <2>1 DEF Network, ConnectDone, WriteRequestDone, ReadResponseDone,
                  ReadDone, ReadFail, WriteDone, WriteFail
    <2>2. CASE Timers
      BY <2>2 DEF Timers, CloseTimerExpires, AppTimerExpires
    <2> QED BY <2>1, <2>2
  <1>2. PostedIn(ready') \subseteq PostedIn(ready) /\ (CloseAsked' => CloseAsked)
    BY <1>1, CompletionPosted
  <1>3. Elements(wire') \subseteq Elements(wire) \cup Elements(m_write_queue)
    <2>1. CASE WriteDone
      <3>1. m_write_queue # <<>> /\ Head(m_write_queue) \in Message
        BY <2>1 DEF WriteDone, WriterInv, TypeOK
      <3>2. Head(m_write_queue) \in Elements(m_write_queue)
        BY <3>1, ElementsFacts DEF TypeOK
      <3>3. Elements(Append(wire, Head(m_write_queue)))
                = Elements(wire) \cup {Head(m_write_queue)}
        BY <3>1, ElementsFacts DEF TypeOK
      <3> QED BY <2>1, <3>2, <3>3 DEF WriteDone, Elements
    <2>2. CASE ~WriteDone
      <3>1. wire' = wire
        BY <2>2 DEF Network, Timers, ConnectDone, WriteRequestDone,
             ReadResponseDone, ReadDone, ReadFail, WriteFail,
             CloseTimerExpires, AppTimerExpires, outvars
      <3> QED BY <3>1 DEF Elements
    <2> QED BY <2>1, <2>2
  <1>4. Messages' \subseteq Messages
    BY <1>1, <1>2, <1>3 DEF Messages, Elements, PostedIn, Posts
  <1> QED BY <1>1, <1>2, <1>4 DEF SubmitsNothing

\* The writer moves messages on, from the posts to the queue and off it.
LEMMA WriterSubmits ==
    ASSUME TypeOK, HandleWriteMessage \/ HandleWrite
    PROVE  SubmitsNothing /\ (CloseAsked' => CloseAsked)
  <1>1. /\ ready # <<>> /\ ready' = Tail(ready)
        /\ posted' = posted /\ wire' = wire
    BY DEF HandleWriteMessage, HandleWrite, RunsOk, Runs, appvars
  <1>2. /\ PostedIn(ready') \subseteq PostedIn(ready)
        /\ CloseAsked' => CloseAsked
    BY <1>1, TakenOff DEF PostedIn, Posts, CloseAsked, Any
  <1>3. Elements(m_write_queue') \subseteq Elements(m_write_queue) \cup PostedIn(ready)
    <2>1. CASE HandleWriteMessage
      <3>1. Head(ready).h = "write_message" BY <2>1 DEF HandleWriteMessage, Runs
      <3>2. Head(ready).msg \in PostedIn(ready) /\ Head(ready).msg \in Message
        BY <1>1, <3>1, TailPosted, TailViews DEF TypeOK, Handlers
      <3>3. Elements(Append(m_write_queue, Head(ready).msg))
                = Elements(m_write_queue) \cup {Head(ready).msg}
        BY <3>2, ElementsFacts DEF TypeOK
      <3>4. \/ m_write_queue' = m_write_queue
            \/ m_write_queue' = Append(m_write_queue, Head(ready).msg)
        BY <2>1 DEF HandleWriteMessage
      <3> QED BY <3>2, <3>3, <3>4 DEF Elements
    <2>2. CASE HandleWrite
      <3>1. \/ m_write_queue' = m_write_queue
            \/ m_write_queue # <<>> /\ m_write_queue' = Tail(m_write_queue)
        BY <2>2 DEF HandleWrite
      <3> QED BY <3>1, ElementsFacts DEF TypeOK, Elements
    <2> QED BY <2>1, <2>2
  <1>4. Messages' \subseteq Messages
    BY <1>1, <1>2, <1>3 DEF Messages, Elements, PostedIn, Posts
  <1> QED BY <1>1, <1>2, <1>4 DEF SubmitsNothing

\* What each handler of the thread submits.
LEMMA ThreadSubmits ==
    ASSUME TypeOK, WriterInv, Thread
    PROVE  OwnSubmission /\ UNCHANGED wire
  <1>1. ready \in Seq(Handlers) BY DEF TypeOK
  <1>2. CASE HandleWriteMessage \/ HandleWrite
    BY <1>2, WriterSubmits DEF OwnSubmission, HandleWriteMessage, HandleWrite
  <1>3. CASE ConsumePing \/ ConsumeClose
    <2>1. UNCHANGED outvars BY <1>3 DEF ConsumePing, ConsumeClose
    <2>2. \/ posted' = posted /\ ready' = ready
          \/ /\ posted' = posted + 1
             /\ \E op \in {"PONG", "CLOSE_ACK"} :
                    ready' = Append(ready, WriteMessage(op, NoText, posted + 1))
      BY <1>3 DEF ConsumePing, ConsumeClose
    <2>3. {"PONG", "CLOSE_ACK"} \subseteq Ops \ {"TEXT", "CLOSE_NORMAL"}
      BY DEF Ops, CloseOps
    <2>4. CASE posted' = posted /\ ready' = ready
      BY <2>1, <2>4, SubmitsNothingWhen
         DEF PostedIn, Posts, CloseAsked, Any, OwnSubmission, outvars
    <2>5. CASE /\ posted' = posted + 1
               /\ \E op \in {"PONG", "CLOSE_ACK"} :
                      ready' = Append(ready, WriteMessage(op, NoText, posted + 1))
      <3>1. PICK op \in {"PONG", "CLOSE_ACK"} :
                ready' = Append(ready, WriteMessage(op, NoText, posted + 1))
        BY <2>5
      <3>2. Submits(OwnFrame(op)) /\ (CloseAsked' => CloseAsked)
        BY <1>1, <2>1, <2>3, <2>5, <3>1, OwnFrameSubmitted DEF CloseAsked
      <3> QED BY <2>1, <2>3, <3>2 DEF OwnSubmission, outvars
    <2> QED BY <2>2, <2>4, <2>5
  <1>4. ASSUME NEW expects, ConsumeViolation(expects)
        PROVE  OwnSubmission /\ UNCHANGED wire
    <2>1. SendClose("CLOSE_VIOLATION", ready) /\ UNCHANGED outvars
      BY <1>4 DEF ConsumeViolation
    <2>2. "CLOSE_VIOLATION" \in Ops \ {"TEXT", "CLOSE_NORMAL"}
      BY DEF Ops, CloseOps
    <2>3. /\ SubmitsNothing \/ Submits(OwnFrame("CLOSE_VIOLATION"))
          /\ CloseAsked' => CloseAsked
      BY <1>1, <2>1, <2>2, SendCloseSubmits DEF CloseAsked
    <2> QED BY <2>1, <2>2, <2>3 DEF OwnSubmission, outvars
  <1>5. CASE HandleSendClose
    <2>1. /\ ready # <<>> /\ Head(ready).h = "send_close"
          /\ SendClose("CLOSE_NORMAL", Tail(ready)) /\ UNCHANGED outvars
      BY <1>5 DEF HandleSendClose, Runs
    <2>2. CloseAsked BY <1>1, <2>1, TailViews DEF CloseAsked
    <2>3. "CLOSE_NORMAL" \in Ops BY DEF Ops, CloseOps
    <2>4. SubmitsNothing \/ Submits(OwnFrame("CLOSE_NORMAL"))
      BY <2>1, <2>3, TakenOff, SendCloseSubmits
    <2> QED BY <2>1, <2>2, <2>4 DEF OwnSubmission, outvars
  <1>6. CASE /\ UNCHANGED <<posted, outvars>>
             /\ ready' = ready \/ (ready # <<>> /\ ready' = Tail(ready))
    <2>1. PostedIn(ready') \subseteq PostedIn(ready) /\ (CloseAsked' => CloseAsked)
      BY <1>6, TakenOff DEF PostedIn, Posts, CloseAsked, Any
    <2> QED BY <1>6, <2>1, SubmitsNothingWhen DEF OwnSubmission, outvars
  <1>7. CASE /\ ~HandleWriteMessage /\ ~HandleWrite /\ ~HandleSendClose
             /\ ~ConsumePing /\ ~ConsumeClose
             /\ ~\E expects \in {"header", "payload", "rejected", "nothing"} :
                     ConsumeViolation(expects)
    <2>1. /\ UNCHANGED <<posted, outvars>>
          /\ ready' = ready \/ (ready # <<>> /\ ready' = Tail(ready))
      BY <1>7 DEF Thread, HandleConnect, HandleConnectThrows,
           HandleWriteRequest, HandleReadResponseThrows,
           HandleReadResponseRefuses, HandleReadFrame,
           ReadLoopEnds, ConsumeHeader, ConsumePong, HandleAborted, RunReturns,
           RunsOk, Runs, appvars
    <2> QED BY <1>6, <2>1
  <1> QED BY <1>2, <1>3, <1>4, <1>5, <1>7
=============================================================================
