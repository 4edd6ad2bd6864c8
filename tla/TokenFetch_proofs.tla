------------------------- MODULE TokenFetch_proofs -------------------------
(***************************************************************************)
(* Proofs about TokenFetch, for every set of responses and every way they  *)
(* are cut into pieces: its inductive invariant, which says where in the   *)
(* response each call of the thread is, and that the body read is the      *)
(* server's.                                                               *)
(***************************************************************************)
EXTENDS TokenFetch, TLAPS

-----------------------------------------------------------------------------
(* The inductive invariant.                                                *)

\* Where the body begins, and the number of chunks.
HeadSize(r) == Len(r.head) + 2
N(r) == Len(r.chunks)

\* The buffer has what comes after the first a symbols of the response, and
\* the network what comes after that, unless the connection is gone.
Holds(r, a) ==
    \E b \in a..Len(Wire(r)) :
        /\ buffer = SubSeq(Wire(r), a + 1, b)
        /\ rest = IF dropped THEN <<>> ELSE SubSeq(Wire(r), b + 1, Len(Wire(r)))

\* A call counts what it has put into the buffer, and an error comes when
\* there is nothing more to come.
CallInv ==
    /\ \E a \in 0..Len(Wire(response)) : Holds(response, a)
    /\ got <= Len(buffer)
    /\ error # "none" => rest = <<>>

\* The head: status line and header lines are taken off the buffer.
HeadInv ==
    /\ pc \in {"connect", "write", "status"} => Holds(response, 0)
    /\ pc = "headers" => Holds(response, 1)
    /\ pc \in {"connect", "write", "status", "headers"} => body = <<>> /\ ~cut

\* A body that is not chunked is taken as it comes.
PlainInv ==
    /\ pc = "normal" => response.form = "until_close"
    /\ pc = "length" => /\ response.form = "length"
                        /\ length = (response.length - Len(body)) % SizeT
    /\ pc \in {"normal", "length"} =>
           Holds(response, HeadSize(response) + Len(body)) /\ got = Len(buffer)

\* Before a size line the body consists of whole chunks, and the buffer
\* begins with that line, or else with the line end before it or its LF.
SizeLineInv ==
    pc = "size_line" =>
        /\ response.form = "chunked"
        /\ \E i \in 1..(N(response) + 1) :
              LET start == HeadSize(response) + ChunkStart(response, i)
              IN  /\ Len(body) = ChunkEnd(response, i - 1)
                  /\ IF cut THEN i > 1 /\ (Holds(response, start - 1) \/ Holds(response, start - 2))
                     ELSE Holds(response, start)

\* In a chunk the buffer begins with its bytes, all of them, unless the
\* connection is gone and with it the rest of the chunk.
ChunkInv ==
    pc = "chunk" =>
        /\ response.form = "chunked"
        /\ \/ \E i \in 1..N(response) :
                 /\ ~cut /\ Len(body) = ChunkEnd(response, i - 1)
                 /\ chunk_size = ChunkSize(response, i)
                 /\ Holds(response, HeadSize(response) + ChunkStart(response, i) + 3)
           \/ dropped /\ rest = <<>> /\ buffer = <<>> /\ chunk_size > 0

\* A chunked body that has been read to its end consists of whole chunks, and
\* of all of them if all went well.
EndInv ==
    pc \in {"last_line", "handle", "token"}
    /\ (pc = "last_line" \/ response.form = "chunked") =>
        /\ response.form = "chunked"
        /\ \E i \in 0..N(response) : Len(body) = ChunkEnd(response, i)
        /\ dropped \/ cut \/ Len(body) = Len(response.body)

\* Any other one is whole, unless the connection was lost or the length was
\* too small.
WholeInv ==
    pc \in {"handle", "token"} /\ response.form # "chunked" =>
        \/ dropped \/ Len(body) = Len(response.body)
        \/ response.form = "length" /\ response.length < Len(response.body)

IInv == /\ TypeOK /\ BodyIsPrefix /\ CallInv /\ HeadInv /\ PlainInv
        /\ SizeLineInv /\ ChunkInv /\ EndInv /\ WholeInv

-----------------------------------------------------------------------------
(* Sequences, and numbers modulo SizeT.                                    *)

\* The part of s between a and b.
LEMMA PartFacts ==
    ASSUME NEW S, NEW s \in Seq(S), NEW a \in Nat, NEW b \in Nat, a <= b, b <= Len(s)
    PROVE  /\ SubSeq(s, a + 1, b) \in Seq(S)
           /\ Len(SubSeq(s, a + 1, b)) = b - a
           /\ \A j \in 1..(b - a) : SubSeq(s, a + 1, b)[j] = s[a + j]
           /\ SubSeq(s, a + 1, b) = <<>> <=> a = b
  OBVIOUS

\* A part of a part, from its beginning or to its end.
LEMMA PartOfPart ==
    ASSUME NEW S, NEW s \in Seq(S), NEW a \in Nat, NEW b \in Nat, a <= b, b <= Len(s),
           NEW k \in 0..(b - a)
    PROVE  /\ SubSeq(SubSeq(s, a + 1, b), 1, k) = SubSeq(s, a + 1, a + k)
           /\ SubSeq(SubSeq(s, a + 1, b), k + 1, b - a) = SubSeq(s, a + k + 1, b)
  OBVIOUS

\* Parts one behind the other.
LEMMA PartsJoin ==
    ASSUME NEW S, NEW s \in Seq(S), NEW a \in Nat, NEW b \in Nat, NEW c \in Nat,
           a <= b, b <= c, c <= Len(s)
    PROVE  SubSeq(s, a + 1, b) \o SubSeq(s, b + 1, c) = SubSeq(s, a + 1, c)
  OBVIOUS

\* Equal element by element
LEMMA PartsEqual ==
    ASSUME NEW S, NEW T, NEW s \in Seq(S), NEW t \in Seq(T),
           NEW a \in Nat, NEW b \in Nat, NEW n \in Nat,
           a + n <= Len(s), b + n <= Len(t),
           \A j \in 1..n : s[a + j] = t[b + j]
    PROVE  SubSeq(s, a + 1, a + n) = SubSeq(t, b + 1, b + n)
  OBVIOUS

\* Division with remainder.
LEMMA ModFacts ==
    ASSUME NEW S \in Nat \ {0}, NEW x \in Int
    PROVE  /\ x % S \in 0..(S - 1)
           /\ \E q \in Int : x = q * S + (x % S)
  <1>1. x \div S \in Int OBVIOUS
  <1>2. x = (x \div S) * S + (x % S) OBVIOUS
  <1>3. x % S \in 0..(S - 1) OBVIOUS
  <1> QED BY <1>1, <1>2, <1>3

\* The one multiple between -S and S.
LEMMA Multiples ==
    ASSUME NEW S \in Nat \ {0}, NEW q \in Int, q * S > 0 - S, q * S < S
    PROVE  q = 0
  OBVIOUS

\* The remainder is the only one.
LEMMA ModUnique ==
    ASSUME NEW S \in Nat \ {0}, NEW x \in Int, NEW y \in 0..(S - 1), NEW q \in Int,
           x = q * S + y
    PROVE  x % S = y
  <1>1. PICK p \in Int : x = p * S + (x % S) BY ModFacts
  <1>2. x % S \in 0..(S - 1) BY ModFacts
  <1> DEFINE m == x % S
  <1> HIDE DEF m
  <1>3. m \in Int /\ 0 <= m /\ m < S /\ x = p * S + m BY <1>1, <1>2 DEF m
  <1>4. (p - q) * S = y - m
    <2>1. p * S \in Int /\ q * S \in Int /\ (p - q) * S = p * S - q * S OBVIOUS
    <2> QED BY <2>1, <1>3
  <1>5. p - q \in Int /\ (p - q) * S > 0 - S /\ (p - q) * S < S BY <1>3, <1>4
  <1> DEFINE d == p - q
  <1>6. d \in Int /\ d * S > 0 - S /\ d * S < S /\ d * S = y - m BY <1>4, <1>5
  <1> HIDE DEF d
  <1>7. d = 0 BY <1>6, Multiples
  <1>8. d * S = 0 BY <1>7
  <1>9. y = m BY <1>6, <1>8, <1>3
  <1> QED BY <1>9 DEF m

\* What is left is known from the whole.
LEMMA ModMinus ==
    ASSUME NEW S \in Nat \ {0}, NEW x \in Int, NEW n \in Nat
    PROVE  ((x % S) - n) % S = (x - n) % S
  <1>1. PICK p \in Int : x = p * S + (x % S) BY ModFacts
  <1>2. x % S \in Int BY ModFacts
  <1> DEFINE y == (x % S) - n
  <1>3. y \in Int /\ x - n = p * S + y
    <2>1. p * S \in Int OBVIOUS
    <2> QED BY <2>1, <1>1, <1>2
  <1> HIDE DEF y
  <1>4. PICK q \in Int : y = q * S + (y % S) BY <1>3, ModFacts
  <1>5. y % S \in 0..(S - 1) BY <1>3, ModFacts
  <1>6. x - n = (p + q) * S + (y % S)
    <2>1. p * S \in Int /\ q * S \in Int /\ (p + q) * S = p * S + q * S OBVIOUS
    <2>2. y % S \in Int BY <1>5
    <2> QED BY <2>1, <2>2, <1>3, <1>4
  <1>7. x - n \in Int /\ p + q \in Int OBVIOUS
  <1>8. (x - n) % S = y % S BY <1>5, <1>6, <1>7, ModUnique
  <1> QED BY <1>8 DEF y

\* A length that has come down to 0 was not more than what has been read.
LEMMA LengthUsedUp ==
    ASSUME NEW S \in Nat \ {0}, NEW x \in 0..(S-1), NEW n \in Nat, (x - n) % S = 0
    PROVE  x <= n
  <1>0. x - n \in Int OBVIOUS
  <1>1. PICK q \in Int : x - n = q * S + 0
    <2>1. PICK q \in Int : x - n = q * S + ((x - n) % S) BY <1>0, ModFacts
    <2> QED BY <2>1
  <1>2. SUFFICES ASSUME n < x PROVE FALSE OBVIOUS
  <1>3. q * S \in Int OBVIOUS
  <1>4. q * S > 0 /\ q * S < S BY <1>1, <1>2, <1>3
  <1>5. q = 0 BY <1>4, Multiples
  <1> QED BY <1>4, <1>5

-----------------------------------------------------------------------------
(* The response.                                                           *)

BodyPart(r) == IF r.form = "chunked" THEN Chunked(r) ELSE r.body
Elements(s) == {s[i] : i \in DOMAIN s}

\* What is assumed of a response.
LEMMA ResponseFacts ==
    ASSUME NEW r \in Responses
    PROVE  ResponseOK(r)
  BY ResponsesAssumption

\* The chunks begin one behind the other.
LEMMA ChunkFacts ==
    ASSUME NEW r \in Responses, r.form = "chunked"
    PROVE  /\ N(r) \in Nat /\ r.body \in Seq(Octets) /\ Len(r.body) \in Nat
           /\ \A i \in 0..(N(r) + 2) : ChunkEnd(r, i) \in 0..Len(r.body)
           /\ \A i \in 1..(N(r) + 2) : ChunkStart(r, i) \in Nat
           /\ \A i, j \in 0..(N(r) + 2) : i <= j => ChunkEnd(r, i) <= ChunkEnd(r, j)
           /\ \A i, j \in 1..(N(r) + 2) : i < j => ChunkStart(r, i) < ChunkStart(r, j)
           /\ \A i \in 1..N(r) : ChunkSize(r, i) \in 1..Len(Digits)
           /\ ChunkSize(r, N(r) + 1) = 0 /\ ChunkEnd(r, 0) = 0
           /\ ChunkEnd(r, N(r)) = Len(r.body) /\ ChunkEnd(r, N(r) + 1) = Len(r.body)
           /\ \A i \in 1..(N(r) + 1) :
                  /\ ChunkStart(r, i + 1) = ChunkStart(r, i) + 5 + ChunkSize(r, i)
                  /\ ChunkEnd(r, i) = ChunkEnd(r, i - 1) + ChunkSize(r, i)
                  /\ ChunkSize(r, i) \in 0..Len(Digits)
  <1> DEFINE n == N(r)
  <1>0. r.body \in Seq(Octets) BY ResponseFacts DEF ResponseOK
  <1>1. /\ n \in Nat /\ Len(r.body) \in Nat /\ DOMAIN r.chunks = 1..n
        /\ \A i \in 1..n : r.chunks[i] \in 1..Len(r.body)
        /\ \A i, j \in 0..n : i < j => ChunkEnd(r, i) < ChunkEnd(r, j)
        /\ \A i \in 1..n : ChunkSize(r, i) \in 1..Len(Digits)
        /\ ChunkEnd(r, n) = Len(r.body)
    BY ResponseFacts, SMTT(30) DEF ResponseOK, N
  <1>2. /\ ChunkEnd(r, 0) = 0
        /\ \A i \in 1..n : ChunkEnd(r, i) = r.chunks[i]
        /\ \A i \in (n + 1)..(n + 2) : ChunkEnd(r, i) = Len(r.body)
    BY <1>1 DEF ChunkEnd
  <1> HIDE DEF n
  <1>3. \A i \in 0..(n + 2) : ChunkEnd(r, i) \in 0..Len(r.body)
    <2> SUFFICES ASSUME NEW i \in 0..(n + 2) PROVE ChunkEnd(r, i) \in 0..Len(r.body)
      OBVIOUS
    <2>1. i = 0 \/ i \in 1..n \/ i \in (n + 1)..(n + 2) BY <1>1
    <2>2. CASE i \in 1..n
      <3>1. ChunkEnd(r, i) = r.chunks[i] /\ r.chunks[i] \in 1..Len(r.body)
        BY <2>2, <1>1, <1>2
      <3> QED BY <3>1, <1>1
    <2> QED BY <2>1, <2>2, <1>1, <1>2
  <1>4. \A i, j \in 0..(n + 2) : i <= j => ChunkEnd(r, i) <= ChunkEnd(r, j)
    <2> SUFFICES ASSUME NEW i \in 0..(n + 2), NEW j \in 0..(n + 2), i <= j
                 PROVE ChunkEnd(r, i) <= ChunkEnd(r, j)
      OBVIOUS
    <2>1. CASE j \in (n + 1)..(n + 2) BY <2>1, <1>2, <1>3
    <2>2. CASE i = j BY <2>2, <1>3
    <2>3. CASE i < j /\ j \in 0..n
      <3>1. i \in 0..n BY <2>3, <1>1
      <3> QED BY <3>1, <2>3, <1>1, <1>3
    <2>4. i = j \/ i < j OBVIOUS
    <2>5. j \in 0..n \/ j \in (n + 1)..(n + 2) BY <1>1
    <2> QED BY <2>1, <2>2, <2>3, <2>4, <2>5
  <1>5. \A i \in 1..(n + 2) : ChunkStart(r, i) = ChunkEnd(r, i - 1) + 5 * (i - 1)
                              /\ ChunkEnd(r, i - 1) \in Nat
    BY <1>1, <1>3 DEF ChunkStart
  <1>6. \A i, j \in 1..(n + 2) : i < j => ChunkStart(r, i) < ChunkStart(r, j)
    <2> SUFFICES ASSUME NEW i \in 1..(n + 2), NEW j \in 1..(n + 2), i < j
                 PROVE ChunkStart(r, i) < ChunkStart(r, j)
      OBVIOUS
    <2>1. i - 1 \in 0..(n + 2) /\ j - 1 \in 0..(n + 2) /\ i - 1 <= j - 1 BY <1>1
    <2>2. ChunkEnd(r, i - 1) <= ChunkEnd(r, j - 1) BY <2>1, <1>4
    <2>3. /\ ChunkStart(r, i) = ChunkEnd(r, i - 1) + 5 * (i - 1)
          /\ ChunkStart(r, j) = ChunkEnd(r, j - 1) + 5 * (j - 1)
          /\ ChunkEnd(r, i - 1) \in Nat /\ ChunkEnd(r, j - 1) \in Nat
      BY <1>5
    <2>4. i \in Int /\ j \in Int BY <1>1
    <2> QED BY <2>2, <2>3, <2>4
  <1>7. \A i \in 1..(n + 1) :
            /\ ChunkSize(r, i) = ChunkEnd(r, i) - ChunkEnd(r, i - 1)
            /\ ChunkEnd(r, i) \in Nat /\ ChunkEnd(r, i - 1) \in Nat
            /\ ChunkStart(r, i + 1) = ChunkEnd(r, i) + 5 * i
            /\ ChunkStart(r, i) = ChunkEnd(r, i - 1) + 5 * (i - 1)
    BY <1>1, <1>3, <1>5 DEF ChunkSize, ChunkStart
  <1>8. ChunkSize(r, n + 1) = 0
    <2>1. (n + 1) - 1 = n /\ n + 1 \in (n + 1)..(n + 2) BY <1>1
    <2> QED BY <2>1, <1>1, <1>2 DEF ChunkSize
  <1>9. Len(Digits) \in Nat BY DigitsAssumption
  <1>10. \A i \in 1..(n + 1) :
           /\ ChunkStart(r, i + 1) = ChunkStart(r, i) + 5 + ChunkSize(r, i)
           /\ ChunkEnd(r, i) = ChunkEnd(r, i - 1) + ChunkSize(r, i)
           /\ ChunkSize(r, i) \in 0..Len(Digits)
    <2> SUFFICES ASSUME NEW i \in 1..(n + 1)
                 PROVE  /\ ChunkStart(r, i + 1) = ChunkStart(r, i) + 5 + ChunkSize(r, i)
                        /\ ChunkEnd(r, i) = ChunkEnd(r, i - 1) + ChunkSize(r, i)
                        /\ ChunkSize(r, i) \in 0..Len(Digits)
      OBVIOUS
    <2>1. i \in 1..n \/ i = n + 1 BY <1>1
    <2>2. ChunkSize(r, i) \in 0..Len(Digits) BY <2>1, <1>1, <1>8, <1>9
    <2>3. /\ ChunkSize(r, i) = ChunkEnd(r, i) - ChunkEnd(r, i - 1)
          /\ ChunkEnd(r, i) \in Nat /\ ChunkEnd(r, i - 1) \in Nat
          /\ ChunkStart(r, i + 1) = ChunkEnd(r, i) + 5 * i
          /\ ChunkStart(r, i) = ChunkEnd(r, i - 1) + 5 * (i - 1)
      BY <1>7
    <2>4. i \in Int BY <1>1
    <2> QED BY <2>2, <2>3, <2>4
  <1>11. \A i \in 1..(n + 2) : ChunkStart(r, i) \in Nat BY <1>5, <1>1
  <1>12. ChunkEnd(r, n + 1) = Len(r.body) BY <1>2, <1>1
  <1> QED BY <1>0, <1>1, <1>2, <1>3, <1>4, <1>6, <1>8, <1>10, <1>11, <1>12 DEF n

\* The symbols of chunk i are where it is.
LEMMA ChunkedAt ==
    ASSUME NEW r \in Responses, r.form = "chunked",
           NEW i \in 1..(N(r) + 1), NEW o \in 1..(5 + ChunkSize(r, i))
    PROVE  /\ ChunkStart(r, i) + o \in DOMAIN Chunked(r)
           /\ Chunked(r)[ChunkStart(r, i) + o] = ChunkSymbol(r, i, o)
  <1> DEFINE p == ChunkStart(r, i) + o
             at(k) == ChunkStart(r, k) < p /\ p <= ChunkStart(r, k + 1)
  <1>1. /\ N(r) \in Nat
        /\ \A k \in 1..(N(r) + 2) : ChunkStart(r, k) \in Nat
        /\ \A k, j \in 1..(N(r) + 2) : k < j => ChunkStart(r, k) < ChunkStart(r, j)
        /\ ChunkStart(r, i + 1) = ChunkStart(r, i) + 5 + ChunkSize(r, i)
        /\ ChunkSize(r, i) \in Nat
    <2>1. Len(Digits) \in Nat BY DigitsAssumption
    <2> QED BY <2>1, ChunkFacts
  <1>2. /\ i \in 1..(N(r) + 2) /\ i + 1 \in 1..(N(r) + 2) /\ N(r) + 2 \in 1..(N(r) + 2)
        /\ i + 1 <= N(r) + 2
    BY <1>1
  <1>3. at(i) BY <1>1, <1>2
  <1>4. ASSUME NEW k \in 1..(N(r) + 1), at(k) PROVE k = i
    <2>1. k \in 1..(N(r) + 2) /\ k + 1 \in 1..(N(r) + 2) BY <1>1
    <2>2. ~(k < i)
      <3> SUFFICES ASSUME k < i PROVE FALSE OBVIOUS
      <3>1. k + 1 = i \/ k + 1 < i BY <1>1
      <3>2. ChunkStart(r, k + 1) <= ChunkStart(r, i) BY <3>1, <2>1, <1>1, <1>2
      <3> QED BY <3>2, <1>4, <1>1, <1>2, <2>1
    <2>3. ~(i < k)
      <3> SUFFICES ASSUME i < k PROVE FALSE OBVIOUS
      <3>1. i + 1 = k \/ i + 1 < k BY <1>1
      <3>2. ChunkStart(r, i + 1) <= ChunkStart(r, k) BY <3>1, <2>1, <1>1, <1>2
      <3> QED BY <3>2, <1>4, <1>1, <1>2, <2>1, <1>3
    <2> QED BY <2>2, <2>3, <1>1
  <1>5. i = CHOOSE k \in 1..(N(r) + 1) : at(k)
    BY <1>3, <1>4
  <1>6. p \in 1..ChunkStart(r, N(r) + 2)
    <2>1. i + 1 = N(r) + 2 \/ i + 1 < N(r) + 2 BY <1>1
    <2>2. ChunkStart(r, i + 1) <= ChunkStart(r, N(r) + 2) BY <2>1, <1>1, <1>2
    <2> QED BY <2>2, <1>1, <1>2
  <1>7. p - ChunkStart(r, i) = o BY <1>1, <1>2
  <1>8. Chunked(r)[p] =
          LET k == CHOOSE k \in 1..(N(r) + 1) : at(k)
          IN  ChunkSymbol(r, k, p - ChunkStart(r, k))
    BY <1>6 DEF Chunked, N
  <1>9. DOMAIN Chunked(r) = 1..ChunkStart(r, N(r) + 2)
    BY DEF Chunked, N
  <1> QED BY <1>5, <1>6, <1>7, <1>8, <1>9

\* The head and the body of the response are where they are.
LEMMA WireFacts ==
    ASSUME NEW r \in Responses
    PROVE  /\ Wire(r) \in Seq(Elements(Wire(r)))
           /\ HeadSize(r) \in Nat /\ HeadSize(r) >= 2 /\ Len(BodyPart(r)) \in Nat
           /\ Len(Wire(r)) = HeadSize(r) + Len(BodyPart(r))
           /\ \A j \in 1..Len(BodyPart(r)) : Wire(r)[HeadSize(r) + j] = BodyPart(r)[j]
           /\ Wire(r)[1] = "status"
           /\ \A j \in 2..(HeadSize(r) - 1) : Wire(r)[j] \in {"h", "f"}
           /\ BodyPart(r) \in Seq(Elements(BodyPart(r)))
  <1>1. r.head \in Seq({"h", "f"}) /\ r.body \in Seq(Octets)
    BY ResponseFacts DEF ResponseOK
  <1>2. PICK T : BodyPart(r) \in Seq(T)
    <2>1. CASE r.form = "chunked"
      <3> DEFINE L == ChunkStart(r, Len(r.chunks) + 2)
      <3>1. L \in Nat
        <4>1. N(r) + 2 \in 1..(N(r) + 2) BY <2>1, ChunkFacts
        <4> QED BY <4>1, <2>1, ChunkFacts DEF N
      <3>2. DOMAIN Chunked(r) = 1..L /\ Chunked(r) = [p \in 1..L |-> Chunked(r)[p]]
        BY DEF Chunked
      <3>3. Chunked(r) \in Seq(Elements(Chunked(r)))
        <4> HIDE DEF L
        <4> QED BY <3>1, <3>2 DEF Elements
      <3> QED BY <3>3, <2>1 DEF BodyPart
    <2>2. CASE r.form # "chunked" BY <2>2, <1>1 DEF BodyPart
    <2> QED BY <2>1, <2>2
  <1> DEFINE b == BodyPart(r)
             h == r.head
             a == <<"status">> \o h
             c == a \o <<"blank">>
             H == {"h", "f", "status", "blank"}
  <1>3. Wire(r) = c \o b BY DEF Wire, BodyPart
  <1>4. h \in Seq(H) /\ Len(h) \in Nat /\ \A j \in 1..Len(h) : h[j] \in {"h", "f"}
    BY <1>1
  <1> HIDE DEF b, h
  <1>5. /\ a \in Seq(H) /\ Len(a) = Len(h) + 1 /\ a[1] = "status"
        /\ \A j \in 2..(Len(h) + 1) : a[j] = h[j - 1]
    BY <1>4
  <1> HIDE DEF a
  <1>6. /\ c \in Seq(H) /\ Len(c) = Len(h) + 2 /\ c[1] = "status"
        /\ \A j \in 2..(Len(h) + 1) : c[j] = h[j - 1]
    BY <1>4, <1>5
  <1> HIDE DEF c, H
  <1>7. b \in Seq(T) BY <1>2 DEF b
  <1>8. /\ c \o b \in Seq(H \cup T) /\ Len(c \o b) = Len(h) + 2 + Len(b) /\ Len(b) \in Nat
        /\ (c \o b)[1] = "status"
        /\ \A j \in 2..(Len(h) + 1) : (c \o b)[j] = h[j - 1]
        /\ \A j \in 1..Len(b) : (c \o b)[Len(h) + 2 + j] = b[j]
    <2> DEFINE U == H \cup T
    <2>1. c \in Seq(U) /\ b \in Seq(U) BY <1>6, <1>7
    <2> HIDE DEF U
    <2>2. /\ c \o b \in Seq(U) /\ Len(c \o b) = Len(c) + Len(b)
          /\ Len(b) \in Nat /\ Len(c) \in Nat
          /\ \A j \in 1..Len(c) : (c \o b)[j] = c[j]
          /\ \A j \in 1..Len(b) : (c \o b)[Len(c) + j] = b[j]
      BY <2>1
    <2> QED BY <2>2, <1>4, <1>6 DEF U
  <1>9. ASSUME NEW U, NEW s \in Seq(U) PROVE s \in Seq(Elements(s))
    BY DEF Elements
  <1>10. HeadSize(r) = Len(h) + 2 BY DEF HeadSize, h
  <1>11. Wire(r) \in Seq(Elements(Wire(r))) BY <1>3, <1>8, <1>9
  <1>12. b \in Seq(Elements(b)) BY <1>7, <1>9
  <1>13. \A j \in 2..(HeadSize(r) - 1) : Wire(r)[j] \in {"h", "f"}
    <2> SUFFICES ASSUME NEW j \in 2..(HeadSize(r) - 1) PROVE Wire(r)[j] \in {"h", "f"}
      OBVIOUS
    <2>1. j \in 2..(Len(h) + 1) /\ j - 1 \in 1..Len(h) BY <1>10, <1>4
    <2>2. Wire(r)[j] = h[j - 1] BY <2>1, <1>3, <1>8
    <2> QED BY <2>1, <2>2, <1>4
  <1> QED BY <1>3, <1>4, <1>8, <1>10, <1>11, <1>12, <1>13 DEF b

\* Where chunk i begins in the response.
Start(r, i) == HeadSize(r) + ChunkStart(r, i)

\* Chunk i, of z bytes after the first e of the body, and what is where in it.
ChunkLaidOut(r, i, z, e) ==
    /\ Start(r, i) \in Nat /\ z \in 0..Len(Digits) /\ z \in Nat /\ e \in Nat
    /\ Start(r, i) + z + 5 <= Len(Wire(r))
    /\ Start(r, i + 1) = Start(r, i) + z + 5
    /\ Wire(r)[Start(r, i) + 1] = IF z = 0 THEN "0" ELSE Digits[z]
    /\ Wire(r)[Start(r, i) + 2] = "CR"
    /\ Wire(r)[Start(r, i) + 3] = "LF"
    /\ Wire(r)[Start(r, i) + z + 4] = "CR"
    /\ Wire(r)[Start(r, i) + z + 5] = "LF"
    /\ \A j \in 1..z : Wire(r)[Start(r, i) + 3 + j] = r.body[e + j]
    /\ z = 0 <=> i = N(r) + 1
    /\ ChunkEnd(r, i) = e + z /\ i \in Nat
    /\ N(r) \in Nat /\ Len(Wire(r)) \in Nat
    /\ e + z <= Len(r.body) /\ Len(r.body) \in Nat

\* The symbols of chunk i are in the response.
LEMMA ChunkLayout ==
    ASSUME NEW r \in Responses, r.form = "chunked", NEW i \in 1..(N(r) + 1),
           NEW z, z = ChunkSize(r, i), NEW e, e = ChunkEnd(r, i - 1)
    PROVE  ChunkLaidOut(r, i, z, e)
  <1> DEFINE c == ChunkStart(r, i)
             H == HeadSize(r)
             b == BodyPart(r)
             w == Wire(r)
  <1>1. /\ N(r) \in Nat /\ c \in Nat /\ ChunkStart(r, i + 1) = c + 5 + z
        /\ z \in 0..Len(Digits) /\ Len(Digits) \in Nat /\ e \in 0..Len(r.body)
        /\ ChunkEnd(r, i) = e + z /\ Len(r.body) \in Nat
        /\ ChunkEnd(r, i) <= Len(r.body)
        /\ i \in 1..N(r) => z \in 1..Len(Digits)
        /\ i = N(r) + 1 => z = 0
    <2>1. N(r) \in Nat BY ChunkFacts
    <2>2. i \in 1..(N(r) + 2) /\ i \in 0..(N(r) + 2) /\ i - 1 \in 0..(N(r) + 2) BY <2>1
    <2>3. ChunkEnd(r, i) \in 0..Len(r.body) BY <2>2, ChunkFacts
    <2>4. Len(r.body) \in Nat BY ChunkFacts
    <2>5. ChunkEnd(r, i) <= Len(r.body) BY <2>3, <2>4
    <2> QED BY <2>1, <2>2, <2>4, <2>5, ChunkFacts, DigitsAssumption
  <1>2. i \in Nat /\ i >= 1 /\ (i \in 1..N(r) \/ i = N(r) + 1) /\ z \in Nat /\ e \in Nat
    BY <1>1, SMTT(30)
  <1>3. /\ H \in Nat /\ Len(b) \in Nat /\ Len(w) = H + Len(b)
        /\ \A j \in 1..Len(b) : w[H + j] = b[j]
        /\ b = Chunked(r) /\ DOMAIN b = 1..Len(b)
    BY WireFacts DEF BodyPart
  <1>4. ASSUME NEW o \in 1..(5 + z)
        PROVE  /\ c + o \in 1..Len(b) /\ w[(H + c) + o] = ChunkSymbol(r, i, o)
    <2>1. c + o \in DOMAIN Chunked(r) /\ Chunked(r)[c + o] = ChunkSymbol(r, i, o)
      BY ChunkedAt
    <2>2. c + o \in 1..Len(b) /\ b[c + o] = ChunkSymbol(r, i, o)
      BY <2>1, <1>3
    <2>3. w[H + (c + o)] = ChunkSymbol(r, i, o) BY <2>2, <1>3
    <2>4. H + (c + o) = (H + c) + o BY <1>1, <1>2, <1>3, SMTT(30)
    <2> HIDE DEF w, b, H, c
    <2> QED BY <2>2, <2>3, <2>4
  <1>5. /\ ChunkSymbol(r, i, 1) = IF z = 0 THEN "0" ELSE Digits[z]
        /\ ChunkSymbol(r, i, 2) = "CR" /\ ChunkSymbol(r, i, 3) = "LF"
        /\ ChunkSymbol(r, i, z + 4) = "CR" /\ ChunkSymbol(r, i, z + 5) = "LF"
        /\ \A j \in 1..z : ChunkSymbol(r, i, 3 + j) = r.body[e + j]
    <2>1. /\ z + 4 # 1 /\ z + 5 # 1 /\ z + 5 # 2 /\ z + 5 # z + 4
          /\ 3 # z + 4 /\ 3 # 2 /\ 2 # 1 /\ 3 # 1
      BY <1>2
    <2>2. \A j \in 1..z : /\ 3 + j # 1 /\ 3 + j # 2 /\ 3 + j # z + 4 /\ 3 + j # 3
                          /\ 3 + j # z + 5 /\ e + (3 + j) - 3 = e + j
      BY <1>2
    <2> QED BY <2>1, <2>2, <1>2 DEF ChunkSymbol
  <1> HIDE DEF w, b, H, c
  <1>6. /\ 1 \in 1..(5 + z) /\ 2 \in 1..(5 + z) /\ 3 \in 1..(5 + z)
        /\ z + 4 \in 1..(5 + z) /\ z + 5 \in 1..(5 + z)
        /\ \A j \in 1..z : 3 + j \in 1..(5 + z)
    BY <1>2
  <1>7. Start(r, i) = H + c /\ Start(r, i + 1) = H + (c + 5 + z)
    BY <1>1 DEF Start, H, c
  <1>8. /\ w[(H + c) + 1] = IF z = 0 THEN "0" ELSE Digits[z]
        /\ w[(H + c) + 2] = "CR" /\ w[(H + c) + 3] = "LF"
        /\ w[(H + c) + (z + 4)] = "CR" /\ w[(H + c) + (z + 5)] = "LF"
        /\ \A j \in 1..z : w[(H + c) + (3 + j)] = r.body[e + j]
    BY <1>4, <1>5, <1>6
  <1>9. c + (z + 5) <= Len(b) BY <1>4, <1>6, <1>3
  <1> DEFINE s == H + c
  <1>10. /\ s \in Nat /\ s + z + 5 <= Len(w) /\ H + (c + 5 + z) = s + z + 5
         /\ s + (z + 4) = s + z + 4 /\ s + (z + 5) = s + z + 5
         /\ \A j \in 1..z : s + (3 + j) = s + 3 + j
         /\ Len(w) \in Nat
    <2>1. /\ H \in Nat /\ c \in Nat /\ z \in Nat /\ Len(b) \in Nat
          /\ Len(w) = H + Len(b) /\ c + (z + 5) <= Len(b)
      BY <1>1, <1>2, <1>3, <1>9
    <2>2. s \in Nat /\ s + z + 5 <= Len(w) /\ H + (c + 5 + z) = s + z + 5 /\ Len(w) \in Nat
      BY ONLY <2>1
    <2>3. s + (z + 4) = s + z + 4 /\ s + (z + 5) = s + z + 5 BY ONLY <2>1
    <2>4. \A j \in 1..z : s + (3 + j) = s + 3 + j BY ONLY <2>1
    <2> QED BY ONLY <2>2, <2>3, <2>4
  <1>11. z = 0 <=> i = N(r) + 1 BY <1>1, <1>2, SMTT(30)
  <1> HIDE DEF s
  <1>12. /\ w[s + 1] = (IF z = 0 THEN "0" ELSE Digits[z])
         /\ w[s + 2] = "CR" /\ w[s + 3] = "LF"
         /\ w[s + z + 4] = "CR" /\ w[s + z + 5] = "LF"
         /\ \A j \in 1..z : w[s + 3 + j] = r.body[e + j]
    <2>1. /\ w[s + 1] = (IF z = 0 THEN "0" ELSE Digits[z])
          /\ w[s + 2] = "CR" /\ w[s + 3] = "LF"
          /\ w[s + (z + 4)] = "CR" /\ w[s + (z + 5)] = "LF"
          /\ \A j \in 1..z : w[s + (3 + j)] = r.body[e + j]
      BY ONLY <1>8 DEF s
    <2>2. \A j \in 1..z : w[s + 3 + j] = r.body[e + j]
      <3> SUFFICES ASSUME NEW j \in 1..z PROVE w[s + 3 + j] = r.body[e + j] OBVIOUS
      <3>1. w[s + (3 + j)] = r.body[e + j] /\ s + (3 + j) = s + 3 + j BY <2>1, <1>10
      <3> QED BY ONLY <3>1, Zenon
    <2>3. s + (z + 4) = s + z + 4 /\ s + (z + 5) = s + z + 5 BY <1>10
    <2> QED BY ONLY <2>1, <2>2, <2>3, Zenon
  <1>13. Start(r, i) = s /\ Start(r, i + 1) = s + z + 5 BY <1>7, <1>10 DEF s
  <1>14. e + z <= Len(r.body) BY <1>1
  <1> QED BY <1>1, <1>2, <1>10, <1>11, <1>12, <1>13, <1>14 DEF w, ChunkLaidOut

\* The same of the size and the place a chunk has.
LEMMA ChunkOnWire ==
    ASSUME NEW r \in Responses, r.form = "chunked", NEW i \in 1..(N(r) + 1)
    PROVE  \E z \in 0..Len(Digits), e \in Nat :
               z = ChunkSize(r, i) /\ e = ChunkEnd(r, i - 1) /\ ChunkLaidOut(r, i, z, e)
  <1>1. PICK z, e : z = ChunkSize(r, i) /\ e = ChunkEnd(r, i - 1) OBVIOUS
  <1>2. ChunkLaidOut(r, i, z, e) BY <1>1, ChunkLayout
  <1> QED BY <1>1, <1>2 DEF ChunkLaidOut

-----------------------------------------------------------------------------
(* The buffer.                                                             *)

\* What the buffer holds, symbol by symbol, and what is still to come.
LEMMA HoldsFacts ==
    ASSUME NEW r \in Responses, NEW a \in Nat, Holds(r, a)
    PROVE  /\ Len(buffer) \in Nat /\ Len(rest) \in Nat
           /\ a + Len(buffer) + Len(rest) <= Len(Wire(r)) /\ Len(Wire(r)) \in Nat
           /\ DOMAIN buffer = 1..Len(buffer)
           /\ \A j \in 1..Len(buffer) : buffer[j] = Wire(r)[a + j]
           /\ buffer = SubSeq(Wire(r), a + 1, a + Len(buffer))
           /\ buffer = <<>> <=> Len(buffer) = 0
           /\ rest = <<>> <=> Len(rest) = 0
           /\ \E k \in 0..Len(Wire(r)) : rest = SubSeq(Wire(r), k + 1, Len(Wire(r)))
           /\ ~dropped => rest = SubSeq(Wire(r), a + Len(buffer) + 1, Len(Wire(r)))
           /\ rest = <<>> /\ ~dropped => a + Len(buffer) = Len(Wire(r))
  <1> DEFINE w == Wire(r)
             S == Elements(w)
  <1>1. w \in Seq(S) /\ Len(w) \in Nat BY WireFacts
  <1> HIDE DEF w, S
  <1>2. PICK b \in a..Len(w) :
            /\ buffer = SubSeq(w, a + 1, b)
            /\ rest = IF dropped THEN <<>> ELSE SubSeq(w, b + 1, Len(w))
    BY DEF Holds, w
  <1>3. b \in Nat /\ a <= b /\ b <= Len(w) BY <1>1
  <1>4. /\ buffer \in Seq(S) /\ Len(buffer) = b - a
        /\ \A j \in 1..(b - a) : buffer[j] = w[a + j]
        /\ buffer = <<>> <=> a = b
    BY <1>1, <1>2, <1>3, PartFacts
  <1>5. /\ SubSeq(w, b + 1, Len(w)) \in Seq(S)
        /\ Len(SubSeq(w, b + 1, Len(w))) = Len(w) - b
        /\ SubSeq(w, b + 1, Len(w)) = <<>> <=> b = Len(w)
    <2> DEFINE L == Len(w)
    <2>1. w \in Seq(S) /\ b \in Nat /\ L \in Nat /\ b <= L /\ L <= Len(w) BY <1>1, <1>3
    <2> HIDE DEF L
    <2>2. /\ SubSeq(w, b + 1, L) \in Seq(S)
          /\ Len(SubSeq(w, b + 1, L)) = L - b
          /\ SubSeq(w, b + 1, L) = <<>> <=> b = L
      BY ONLY <2>1, PartFacts
    <2> QED BY <2>2 DEF L
  <1>6. DOMAIN buffer = 1..Len(buffer) BY <1>4
  <1>7. Len(<<>>) = 0 OBVIOUS
  <1>8. SubSeq(w, Len(w) + 1, Len(w)) = <<>> BY <1>1, PartFacts
  <1>9. /\ Len(rest) \in Nat /\ Len(rest) <= Len(w) - b
        /\ rest = <<>> <=> Len(rest) = 0
        /\ ~dropped => Len(rest) = Len(w) - b /\ rest = SubSeq(w, b + 1, Len(w))
    <2>1. CASE dropped BY <2>1, <1>1, <1>2, <1>3, <1>7
    <2>2. CASE ~dropped
      <3> DEFINE s == SubSeq(w, b + 1, Len(w))
      <3>1. rest = s BY <2>2, <1>2
      <3>2. Len(s) = Len(w) - b /\ (s = <<>> <=> b = Len(w)) BY <1>5
      <3> HIDE DEF s
      <3>3. Len(rest) \in Nat /\ Len(rest) <= Len(w) - b /\ (rest = <<>> <=> Len(rest) = 0)
        BY <3>1, <3>2, <1>1, <1>3
      <3> QED BY <3>1, <3>2, <3>3 DEF s
    <2> QED BY <2>1, <2>2
  <1>10. \E k \in 0..Len(w) : rest = SubSeq(w, k + 1, Len(w))
    <2>1. CASE dropped BY <2>1, <1>1, <1>2, <1>8, SMTT(30)
    <2>2. CASE ~dropped BY <2>2, <1>2, <1>3, <1>1
    <2> QED BY <2>1, <2>2
  <1>11. a + Len(buffer) = b BY <1>3, <1>4
  <1>12. buffer = SubSeq(w, a + 1, a + Len(buffer)) BY <1>11, <1>2
  <1>13. ~dropped => rest = SubSeq(w, a + Len(buffer) + 1, Len(w)) BY <1>11, <1>9
  <1>14. /\ Len(buffer) \in Nat /\ a + Len(buffer) + Len(rest) <= Len(w)
         /\ buffer = <<>> <=> Len(buffer) = 0
         /\ \A j \in 1..Len(buffer) : buffer[j] = w[a + j]
         /\ rest = <<>> /\ ~dropped => a + Len(buffer) = Len(w)
    BY <1>1, <1>3, <1>4, <1>9
  <1> QED BY <1>1, <1>6, <1>9, <1>10, <1>12, <1>13, <1>14 DEF w

\* A piece that arrives goes behind what is in the buffer.
LEMMA HoldsReceived ==
    ASSUME NEW r \in Responses, NEW a \in Nat, Holds(r, a),
           NEW k \in 1..Len(rest), ReadSome(k)
    PROVE  /\ Holds(r, a)'
           /\ Len(buffer') = Len(buffer) + k
  <1> DEFINE w == Wire(r)
             S == Elements(w)
             L == Len(w)
  <1>1. w \in Seq(S) /\ L \in Nat BY WireFacts
  <1> HIDE DEF w, S, L
  <1>2. /\ Len(buffer) \in Nat /\ Len(rest) \in Nat
        /\ a + Len(buffer) + Len(rest) <= L
        /\ buffer = SubSeq(w, a + 1, a + Len(buffer))
        /\ rest = <<>> <=> Len(rest) = 0
        /\ ~dropped => rest = SubSeq(w, a + Len(buffer) + 1, L)
    BY HoldsFacts DEF w, L
  <1>3. dropped => rest = <<>> BY DEF Holds
  <1>4. ~dropped BY <1>2, <1>3
  <1> DEFINE b == a + Len(buffer)
  <1>5. b \in Nat /\ a <= b /\ b + k \in Nat /\ b + k <= L /\ k \in 0..(L - b) /\ b <= L
    BY <1>1, <1>2
  <1>6. Len(rest) = L - b BY <1>1, <1>2, <1>4, <1>5, PartFacts DEF L
  <1>7. buffer' = buffer \o SubSeq(rest, 1, k) /\ rest' = SubSeq(rest, k + 1, Len(rest))
        /\ dropped' = dropped
    BY DEF ReadSome
  <1>8. /\ SubSeq(rest, 1, k) = SubSeq(w, b + 1, b + k)
        /\ SubSeq(rest, k + 1, Len(rest)) = SubSeq(w, b + k + 1, L)
    <2>1. rest = SubSeq(w, b + 1, L) BY <1>2, <1>4
    <2>2. L <= Len(w) BY <1>1 DEF L
    <2>3. /\ SubSeq(SubSeq(w, b + 1, L), 1, k) = SubSeq(w, b + 1, b + k)
          /\ SubSeq(SubSeq(w, b + 1, L), k + 1, L - b) = SubSeq(w, b + k + 1, L)
      <3> HIDE DEF b
      <3> QED BY <1>1, <1>5, <2>2, PartOfPart
    <2> QED BY <2>1, <2>3, <1>6
  <1>9. buffer' = SubSeq(w, a + 1, b + k)
    <2>1. SubSeq(w, a + 1, b) \o SubSeq(w, b + 1, b + k) = SubSeq(w, a + 1, b + k)
      <3> HIDE DEF b
      <3>1. b + k <= Len(w) /\ b <= b + k BY <1>1, <1>5 DEF L
      <3> QED BY <1>1, <1>5, <3>1, PartsJoin
    <2> QED BY <2>1, <1>2, <1>7, <1>8
  <1>10. Len(buffer') = b + k - a
    <2>1. b + k <= Len(w) /\ a <= b + k BY <1>1, <1>5 DEF L
    <2> QED BY <2>1, <1>1, <1>5, <1>9, PartFacts
  <1>11. Holds(r, a)'
    <2>1. b + k \in a..Len(w) /\ rest' = SubSeq(w, b + k + 1, Len(w)) /\ ~dropped'
      BY <1>1, <1>4, <1>5, <1>7, <1>8 DEF L
    <2> HIDE DEF b
    <2> QED BY <2>1, <1>9 DEF Holds, w
  <1>12. Len(buffer') = Len(buffer) + k
    BY <1>10, <1>2, <1>5
  <1> QED BY <1>11, <1>12

\* When the connection goes, the buffer stays.
LEMMA HoldsLost ==
    ASSUME NEW r \in Responses, NEW a \in Nat, Holds(r, a),
           buffer' = buffer, rest' = <<>>, dropped' = TRUE
    PROVE  Holds(r, a)'
  BY DEF Holds

\* Steps that do not touch the buffer or the network.
LEMMA HoldsKept ==
    ASSUME NEW r \in Responses, NEW a \in Nat, Holds(r, a),
           buffer' = buffer, rest' = rest, dropped' = dropped
    PROVE  Holds(r, a)'
  BY DEF Holds

\* Symbols are taken off the front.
LEMMA HoldsConsumed ==
    ASSUME NEW r \in Responses, NEW a \in Nat, Holds(r, a),
           NEW k \in Nat, k <= Len(buffer),
           buffer' = SubSeq(buffer, k + 1, Len(buffer)),
           rest' = rest, dropped' = dropped
    PROVE  /\ Holds(r, a + k)'
           /\ Len(buffer') = Len(buffer) - k
           /\ a + k \in 0..Len(Wire(r))
  <1> DEFINE w == Wire(r)
             S == Elements(w)
  <1>1. w \in Seq(S) /\ Len(w) \in Nat BY WireFacts
  <1>2. /\ Len(buffer) \in Nat /\ Len(rest) \in Nat /\ a + Len(buffer) + Len(rest) <= Len(w)
        /\ buffer = SubSeq(w, a + 1, a + Len(buffer))
        /\ ~dropped => rest = SubSeq(w, a + Len(buffer) + 1, Len(w))
        /\ dropped => rest = <<>>
    BY HoldsFacts DEF Holds
  <1> HIDE DEF w, S
  <1> DEFINE b == a + Len(buffer)
  <1>3. b \in Nat /\ a <= b /\ b <= Len(w) /\ k \in 0..(b - a) /\ b - a = Len(buffer)
        /\ a + k \in Nat /\ a + k <= b /\ b \in (a + k)..Len(w)
    BY <1>1, <1>2
  <1> HIDE DEF b
  <1>4. SubSeq(SubSeq(w, a + 1, b), k + 1, b - a) = SubSeq(w, a + k + 1, b)
    BY <1>1, <1>3, PartOfPart
  <1>5. buffer' = SubSeq(w, a + k + 1, b) BY <1>2, <1>3, <1>4 DEF b
  <1>6. Holds(r, a + k)'
    <2>1. rest' = IF dropped' THEN <<>> ELSE SubSeq(w, b + 1, Len(w))
      BY <1>2 DEF b
    <2> QED BY <2>1, <1>3, <1>5 DEF Holds, w
  <1>7. Len(buffer') = b - (a + k) BY <1>1, <1>3, <1>5, PartFacts
  <1> QED BY <1>2, <1>3, <1>6, <1>7, <1>1 DEF b, w

\* All of the buffer is taken.
LEMMA HoldsEmptied ==
    ASSUME NEW r \in Responses, NEW a \in Nat, Holds(r, a),
           NEW b, b = a + Len(buffer),
           buffer' = <<>>, rest' = rest, dropped' = dropped
    PROVE  Holds(r, b)' /\ b \in 0..Len(Wire(r))
  <1> DEFINE w == Wire(r)
             S == Elements(w)
  <1>1. w \in Seq(S) /\ Len(w) \in Nat BY WireFacts
  <1>2. /\ Len(buffer) \in Nat /\ Len(rest) \in Nat /\ a + Len(buffer) + Len(rest) <= Len(w)
        /\ ~dropped => rest = SubSeq(w, b + 1, Len(w))
        /\ dropped => rest = <<>>
    BY HoldsFacts DEF Holds
  <1> HIDE DEF w, S
  <1>3. b \in Nat /\ b <= b /\ b <= Len(w) /\ b \in b..Len(w) BY <1>1, <1>2
  <1>4. SubSeq(w, b + 1, b) = <<>> BY <1>1, <1>3, PartFacts
  <1>5. rest' = IF dropped' THEN <<>> ELSE SubSeq(w, b + 1, Len(w)) BY <1>2
  <1>6. Holds(r, b)' BY <1>3, <1>4, <1>5 DEF Holds, w
  <1> QED BY <1>6, <1>3, <1>1 DEF w

\* What getline() finds.
LEMMA LineEndAt ==
    ASSUME NEW k \in 1..Len(buffer), Len(buffer) \in Nat, DOMAIN buffer = 1..Len(buffer),
           buffer[k] = "LF", \A j \in 1..(k - 1) : buffer[j] # "LF"
    PROVE  LineEnd = k
  <1> DEFINE P(i) == buffer[i] = "LF" /\ \A j \in 1..(i - 1) : buffer[j] # "LF"
  <1>1. k \in DOMAIN buffer /\ P(k) OBVIOUS
  <1>2. ASSUME NEW i \in DOMAIN buffer, P(i) PROVE i = k
    <2>1. ~(i < k)
      <3> SUFFICES ASSUME i < k PROVE FALSE OBVIOUS
      <3>1. i \in 1..(k - 1) OBVIOUS
      <3> QED BY <3>1, <1>2
    <2>2. ~(k < i)
      <3> SUFFICES ASSUME k < i PROVE FALSE OBVIOUS
      <3>1. k \in 1..(i - 1) OBVIOUS
      <3> QED BY <3>1, <1>2
    <2> QED BY <2>1, <2>2
  <1>3. k = CHOOSE i \in DOMAIN buffer : P(i) BY <1>1, <1>2
  <1>4. Has("LF") BY <1>1 DEF Has
  <1> QED BY <1>3, <1>4 DEF LineEnd

\* Without a line end getline() takes all there is.
LEMMA NoLineEnd ==
    ASSUME Len(buffer) \in Nat, DOMAIN buffer = 1..Len(buffer),
           \A j \in 1..Len(buffer) : buffer[j] # "LF"
    PROVE  LineEnd = Len(buffer)
  <1>1. ~Has("LF") BY DEF Has
  <1> QED BY <1>1 DEF LineEnd

\* What the stream makes of a line: the number it begins with, or 0.
LEMMA LineSizeFacts ==
    ASSUME Len(buffer) \in Nat, buffer = <<>> <=> Len(buffer) = 0
    PROVE  /\ buffer = <<>> => LineSize = 0
           /\ buffer[1] \in {"0", "CR", "LF"} => LineSize = 0
           /\ \A n \in 1..Len(Digits) :
                  Len(buffer) >= 1 /\ buffer[1] = Digits[n] => LineSize = n
  <1>1. buffer[1] \in {"0", "CR", "LF"} => LineSize = 0
    BY DigitsAssumption DEF LineSize
  <1>2. buffer = <<>> => LineSize = 0 BY DEF LineSize
  <1>3. ASSUME NEW n \in 1..Len(Digits), Len(buffer) >= 1, buffer[1] = Digits[n]
        PROVE LineSize = n
    <2>1. n \in DOMAIN Digits /\ buffer # <<>> BY <1>3, DigitsAssumption
    <2>2. n = CHOOSE m \in DOMAIN Digits : Digits[m] = buffer[1]
      BY <2>1, <1>3, DigitsAssumption
    <2> QED BY <2>1, <2>2, <1>3 DEF LineSize
  <1> QED BY <1>1, <1>2, <1>3

BufferIsPart ==
    \A r \in Responses : \A a \in Nat :
        Holds(r, a) => Len(buffer) \in Nat /\ (buffer = <<>> <=> Len(buffer) = 0)

\* The buffer is a sequence.
LEMMA BufferHasLength == BufferIsPart
  BY HoldsFacts DEF BufferIsPart

\* What the invariant says of the present buffer.
LEMMA NowHolds ==
    ASSUME IInv
    PROVE  /\ response \in Responses
           /\ Len(Wire(response)) \in Nat
           /\ \E a \in Nat : Holds(response, a)
           /\ Len(buffer) \in Nat /\ got \in Nat /\ got <= Len(buffer)
           /\ got <= Len(Wire(response))
           /\ Len(body) \in Nat /\ HeadSize(response) \in Nat
  <1>1. response \in Responses BY DEF IInv, TypeOK
  <1>2. Len(Wire(response)) \in Nat BY <1>1, WireFacts
  <1>3. PICK a \in 0..Len(Wire(response)) : Holds(response, a) BY DEF IInv, CallInv
  <1>4. a \in Nat /\ got \in Nat /\ got <= Len(buffer)
    BY <1>2, <1>3 DEF IInv, TypeOK, CallInv
  <1>5. Len(body) \in Nat /\ HeadSize(response) \in Nat
    BY <1>1, WireFacts DEF IInv, TypeOK
  <1>6. Len(buffer) \in Nat BY <1>1, <1>3, <1>4, HoldsFacts
  <1>7. got <= Len(Wire(response)) BY <1>2 DEF IInv, TypeOK
  <1> QED BY <1>1, <1>2, <1>3, <1>4, <1>5, <1>6, <1>7

-----------------------------------------------------------------------------
(* The network.                                                            *)

\* What the network may do to a call.
NetEffect ==
    /\ UNCHANGED <<response, pc, endpoint, bodyvars>>
    /\ \A r \in Responses : \A a \in Nat : Holds(r, a) => Holds(r, a)'
    /\ got' \in 0..Len(Wire(response)) /\ got' <= Len(buffer')
    /\ got = Len(buffer) => got' = Len(buffer')
    /\ error' \in {"none", "eof", "reset"} /\ (error' # "none" => rest' = <<>>)
    /\ dropped' \in BOOLEAN /\ (dropped => dropped')
    /\ rest = <<>> => rest' = <<>> /\ buffer' = buffer
    /\ \E k \in 0..Len(Wire(response)) :
           rest' = SubSeq(Wire(response), k + 1, Len(Wire(response)))

\* A piece that arrives, the end of the connection or its loss.
LEMMA NetworkSteps ==
    ASSUME IInv, Delivers \/ Drop \/ ReadFails
    PROVE  NetEffect
  <1>0. PICK r \in Responses : r = response BY NowHolds
  <1> DEFINE L == Len(Wire(r))
  <1>1. /\ L \in Nat
        /\ Len(buffer) \in Nat /\ got \in Nat /\ got <= Len(buffer) /\ got <= L
    BY <1>0, NowHolds
  <1>2. PICK a \in Nat : Holds(r, a) BY <1>0, NowHolds
  <1>3. /\ Len(rest) \in Nat /\ a + Len(buffer) + Len(rest) <= L
        /\ rest = <<>> <=> Len(rest) = 0
    BY <1>1, <1>2, HoldsFacts
  <1>4. a \in 0..L BY <1>1, <1>2, <1>3
  <1>5. /\ dropped \in BOOLEAN /\ error \in {"none", "eof", "reset"}
        /\ error # "none" => rest = <<>>
    BY DEF IInv, TypeOK, CallInv
  <1>6. \E k \in 0..L : <<>> = SubSeq(Wire(r), k + 1, L)
    <2> DEFINE w == Wire(r)
    <2>1. w \in Seq(Elements(w)) BY <1>1, WireFacts
    <2>2. L <= L /\ L \in 0..L /\ L <= Len(w) BY <1>1
    <2> HIDE DEF w, L
    <2>3. SubSeq(w, L + 1, L) = <<>> BY <2>1, <2>2, <1>1, PartFacts
    <2> QED BY <2>2, <2>3 DEF w
  <1>7. \E k \in 0..L : rest = SubSeq(Wire(r), k + 1, L)
    BY <1>0 DEF IInv, TypeOK
  <1>8. ASSUME NEW k \in 1..Len(rest), ReadSome(k) PROVE NetEffect
    <2>1. \A q \in Responses : \A c \in Nat :
              Holds(q, c) => Holds(q, c)' /\ Len(buffer') = Len(buffer) + k
      BY <1>8, HoldsReceived
    <2>2. /\ UNCHANGED <<response, pc, endpoint, bodyvars>>
          /\ got' = got + k /\ error' = error /\ dropped' = dropped /\ error = "none"
      BY <1>8 DEF ReadSome, Reading
    <2>3. Len(buffer') = Len(buffer) + k /\ Holds(r, a)' BY <2>1, <1>2
    <2>4. /\ got' \in 0..L /\ got' <= Len(buffer')
          /\ got = Len(buffer) => got' = Len(buffer')
      BY <2>2, <2>3, <1>1, <1>2, <1>3
    <2>5. rest # <<>> BY <1>3
    <2>6. \E j \in 0..L : rest' = SubSeq(Wire(r), j + 1, L)
      <3>1. PICK b \in a..L : rest' = IF dropped' THEN <<>> ELSE SubSeq(Wire(r), b + 1, L)
        BY <2>3, <2>2 DEF Holds
      <3>2. b \in 0..L BY <1>1, <1>2
      <3> HIDE DEF L
      <3> QED BY <3>1, <3>2, <1>6
    <2> QED BY <1>0, <2>1, <2>2, <2>3, <2>4, <2>5, <2>6, <1>4, <1>5 DEF NetEffect
  <1>9. CASE ReadEof
    <2>1. /\ UNCHANGED <<response, pc, endpoint, bodyvars>>
          /\ got' = got /\ error' = "eof" /\ dropped' = dropped /\ rest = <<>>
          /\ rest' = rest /\ buffer' = buffer
      BY <1>9 DEF ReadEof, netvars
    <2>2. \A q \in Responses : \A c \in Nat : Holds(q, c) => Holds(q, c)' BY <2>1, HoldsKept
    <2>3. got' \in 0..L BY <2>1, <1>1
    <2> QED BY <1>0, <2>1, <2>2, <2>3, <1>1, <1>2, <1>4, <1>5, <1>7 DEF NetEffect
  <1>10. CASE Drop \/ ReadFails
    <2>1. /\ UNCHANGED <<response, pc, endpoint, bodyvars>>
          /\ got' = got /\ error' \in {error, "reset"} /\ dropped' = TRUE
          /\ rest' = <<>> /\ buffer' = buffer
      BY <1>10 DEF Drop, ReadFails, callvars
    <2>2. \A q \in Responses : \A c \in Nat : Holds(q, c) => Holds(q, c)' BY <2>1, HoldsLost
    <2>3. got' \in 0..L BY <2>1, <1>1
    <2> QED BY <1>0, <2>1, <2>2, <2>3, <1>1, <1>2, <1>4, <1>5, <1>6 DEF NetEffect
  <1> QED BY <1>8, <1>9, <1>10 DEF Delivers

\* The phases do not depend on how much has arrived.
LEMMA NetworkInv ==
    ASSUME IInv, NetEffect
    PROVE  IInv'
  <1>0. PICK r \in Responses : r = response BY NowHolds
  <1>1. Len(Wire(r)) \in Nat /\ Len(body) \in Nat /\ HeadSize(r) \in Nat
    BY <1>0, NowHolds
  <1>2. /\ response' = r /\ pc' = pc /\ endpoint' = endpoint
        /\ length' = length /\ chunk_size' = chunk_size /\ body' = body /\ cut' = cut
    BY <1>0 DEF NetEffect, bodyvars
  <1>3. \A a \in Nat : Holds(r, a) => Holds(r, a)'
    BY DEF NetEffect
  <1>4. TypeOK' BY <1>0, <1>2 DEF IInv, TypeOK, NetEffect
  <1>5. BodyIsPrefix' BY <1>0, <1>2 DEF IInv, BodyIsPrefix
  <1>6. CallInv'
    <2>1. PICK a \in 0..Len(Wire(r)) : Holds(r, a) BY <1>0 DEF IInv, CallInv
    <2>2. Holds(r, a)' BY <2>1, <1>1, <1>3
    <2> QED BY <2>2, <1>0, <1>2 DEF NetEffect, CallInv
  <1>7. HeadInv' BY <1>0, <1>2, <1>3 DEF IInv, HeadInv
  <1>8. PlainInv'
    <2>1. pc \in {"normal", "length"} => Holds(r, HeadSize(r) + Len(body))
      BY <1>0 DEF IInv, PlainInv
    <2>2. PICK c \in Nat : c = HeadSize(r) + Len(body) BY <1>1
    <2>3. pc \in {"normal", "length"} => Holds(r, c)' BY <2>1, <2>2, <1>3
    <2>4. c = HeadSize(response') + Len(body') BY <2>2, <1>2
    <2> QED BY <2>3, <2>4, <1>0, <1>2 DEF IInv, PlainInv, NetEffect
  <1>9. SizeLineInv'
    <2> SUFFICES ASSUME pc = "size_line" PROVE SizeLineInv'
      BY <1>2 DEF SizeLineInv
    <2>1. r.form = "chunked" BY <1>0 DEF IInv, SizeLineInv
    <2>2. PICK i \in 1..(N(r) + 1) :
              LET start == HeadSize(r) + ChunkStart(r, i)
              IN  /\ Len(body) = ChunkEnd(r, i - 1)
                  /\ IF cut THEN i > 1 /\ (Holds(r, start - 1) \/ Holds(r, start - 2))
                     ELSE Holds(r, start)
      BY <1>0 DEF IInv, SizeLineInv
    <2> DEFINE start == HeadSize(r) + ChunkStart(r, i)
    <2>3. start \in Nat /\ start - 1 \in Nat /\ start - 2 \in Nat
      <3>1. N(r) \in Nat /\ ChunkStart(r, i) \in Nat BY <2>1, ChunkFacts
      <3> QED BY <3>1, WireFacts
    <2> HIDE DEF start
    <2>4. /\ Len(body) = ChunkEnd(r, i - 1)
          /\ IF cut THEN i > 1 /\ (Holds(r, start - 1)' \/ Holds(r, start - 2)')
             ELSE Holds(r, start)'
      BY <2>2, <2>3, <1>3 DEF start
    <2> QED BY <2>1, <2>4, <1>2 DEF SizeLineInv, start
  <1>10. ChunkInv'
    <2> SUFFICES ASSUME pc = "chunk" PROVE ChunkInv'
      BY <1>2 DEF ChunkInv
    <2>1. r.form = "chunked" BY <1>0 DEF IInv, ChunkInv
    <2>2. CASE dropped /\ rest = <<>> /\ buffer = <<>> /\ chunk_size > 0
      BY <2>1, <2>2, <1>2 DEF NetEffect, ChunkInv
    <2>3. CASE \E i \in 1..N(r) :
                 /\ ~cut /\ Len(body) = ChunkEnd(r, i - 1)
                 /\ chunk_size = ChunkSize(r, i)
                 /\ Holds(r, HeadSize(r) + ChunkStart(r, i) + 3)
      <3>1. PICK i \in 1..N(r) :
                 /\ ~cut /\ Len(body) = ChunkEnd(r, i - 1)
                 /\ chunk_size = ChunkSize(r, i)
                 /\ Holds(r, HeadSize(r) + ChunkStart(r, i) + 3)
        BY <2>3
      <3> DEFINE c == HeadSize(r) + ChunkStart(r, i) + 3
      <3>2. c \in Nat
        <4>1. N(r) \in Nat /\ ChunkStart(r, i) \in Nat BY <2>1, ChunkFacts
        <4> QED BY <4>1, WireFacts
      <3> HIDE DEF c
      <3>3. Holds(r, c)' BY <3>1, <3>2, <1>3 DEF c
      <3> QED BY <2>1, <3>1, <3>3, <1>2 DEF ChunkInv, c
    <2> QED BY <2>2, <2>3, <1>0 DEF IInv, ChunkInv
  <1>11. EndInv' BY <1>0, <1>2 DEF IInv, EndInv, NetEffect
  <1>12. WholeInv' BY <1>0, <1>2 DEF IInv, WholeInv, NetEffect
  <1> QED BY <1>4, <1>5, <1>6, <1>7, <1>8, <1>9, <1>10, <1>11, <1>12 DEF IInv

-----------------------------------------------------------------------------
(* The next call.                                                          *)

PCs == {"connect", "write", "status", "headers", "normal", "length",
        "size_line", "chunk", "last_line", "handle"} \cup Outcomes

\* The next call begins, with the body and the buffer as the code leaves them.
LEMMA Moves ==
    ASSUME IInv, NEW next \in PCs, Calls(next), UNCHANGED <<netvars, endpoint>>,
           NEW r \in Responses, r = response,
           NEW a \in 0..Len(Wire(r)), Holds(r, a)',
           NEW n \in 0..Len(r.body), body' = SubSeq(r.body, 1, n),
           length' \in 0..(SizeT - 1), chunk_size' \in 0..Len(Digits), cut' \in BOOLEAN
    PROVE  /\ TypeOK' /\ BodyIsPrefix' /\ CallInv'
           /\ Len(body') = n
  <1>1. Len(Wire(r)) \in Nat BY WireFacts
  <1>2. /\ pc' = next /\ got' = 0 /\ error' = "none" /\ response' = r
        /\ rest' = rest /\ dropped' = dropped /\ endpoint' = endpoint
    BY DEF Calls, netvars
  <1>3. r.body \in Seq(Octets) /\ Len(r.body) \in Nat BY ResponseFacts DEF ResponseOK
  <1>4. body' \in Seq(Octets) /\ Len(body') = n
    <2> DEFINE s == r.body
    <2>1. s \in Seq(Octets) /\ n \in Nat /\ 0 <= n /\ n <= Len(s) BY <1>3
    <2> HIDE DEF s
    <2>2. SubSeq(s, 0 + 1, n) \in Seq(Octets) /\ Len(SubSeq(s, 0 + 1, n)) = n - 0
      BY <2>1, PartFacts
    <2> QED BY <2>2, <2>1 DEF s
  <1>5. TypeOK'
    BY <1>1, <1>2, <1>4, SMTT(30) DEF IInv, TypeOK, PCs
  <1>6. BodyIsPrefix' BY <1>2, <1>3, <1>4 DEF BodyIsPrefix
  <1>7. CallInv'
    <2>1. BufferIsPart' BY BufferHasLength, PTL
    <2>2. Len(buffer') \in Nat BY <2>1, <1>1 DEF BufferIsPart
    <2> QED BY <2>2, <1>2 DEF CallInv
  <1> QED BY <1>4, <1>5, <1>6, <1>7

\* The body as it is.
LEMMA NowBody ==
    ASSUME IInv
    PROVE  /\ \E n \in 0..Len(response.body) :
                  body = SubSeq(response.body, 1, n) /\ n = Len(body)
           /\ length \in 0..(SizeT - 1) /\ chunk_size \in 0..Len(Digits) /\ cut \in BOOLEAN
           /\ response.body \in Seq(Octets) /\ Len(response.body) \in Nat
  <1>1. Len(body) \in Nat BY NowHolds
  <1>2. response.body \in Seq(Octets) /\ Len(response.body) \in Nat
    BY NowHolds, ResponseFacts DEF ResponseOK
  <1>3. Len(body) \in 0..Len(response.body) /\ body = SubSeq(response.body, 1, Len(body))
    BY <1>1, <1>2 DEF IInv, BodyIsPrefix
  <1>4. /\ length \in 0..(SizeT - 1) /\ chunk_size \in 0..Len(Digits) /\ cut \in BOOLEAN
    BY DEF IInv, TypeOK
  <1> QED BY <1>2, <1>3, <1>4

\* The steps that leave the buffer and the body alone.
LEMMA MovesOnly ==
    ASSUME IInv, NEW next \in PCs, Calls(next), UNCHANGED <<netvars, endpoint, buffer, bodyvars>>
    PROVE  /\ TypeOK' /\ BodyIsPrefix' /\ CallInv'
           /\ response' = response /\ dropped' = dropped /\ pc' = next
           /\ body' = body /\ cut' = cut /\ length' = length
           /\ \A r \in Responses : \A a \in Nat : Holds(r, a) => Holds(r, a)'
  <1>1. PICK r \in Responses : r = response BY NowHolds
  <1>2. /\ response' = r /\ rest' = rest /\ dropped' = dropped /\ pc' = next
        /\ buffer' = buffer
        /\ body' = body /\ cut' = cut /\ length' = length /\ chunk_size' = chunk_size
    BY <1>1 DEF netvars, bodyvars, Calls
  <1>3. PICK a \in 0..Len(Wire(r)) : Holds(r, a) BY <1>1 DEF IInv, CallInv
  <1>4. PICK n \in 0..Len(r.body) : body = SubSeq(r.body, 1, n) BY <1>1, NowBody
  <1>5. \A q \in Responses : \A b \in Nat : Holds(q, b) => Holds(q, b)'
    BY <1>2, HoldsKept
  <1>6. Holds(r, a)'
    <2>1. a \in Nat
      <3>1. Len(Wire(r)) \in Nat BY WireFacts
      <3> QED BY <3>1
    <2> QED BY <2>1, <1>3, <1>5
  <1>7. TypeOK' /\ BodyIsPrefix' /\ CallInv'
    BY <1>1, <1>2, <1>4, <1>6, Moves, NowBody
  <1> QED BY <1>1, <1>2, <1>5, <1>7

\* A call that throws, or aborts, ends the fetch without a token.
LEMMA StopsInv ==
    ASSUME IInv, NEW next \in {"thrown", "aborted"}, Calls(next),
           UNCHANGED <<netvars, endpoint, buffer, bodyvars>>
    PROVE  IInv'
  <1>1. TypeOK' /\ BodyIsPrefix' /\ CallInv' /\ pc' = next
    BY MovesOnly DEF PCs, Outcomes
  <1> QED BY <1>1 DEF IInv, HeadInv, PlainInv, SizeLineInv, ChunkInv, EndInv, WholeInv

-----------------------------------------------------------------------------
(* Connecting, the status line and the headers.                            *)

\* The next address, or the request.
LEMMA ConnectInv ==
    ASSUME IInv, Connect
    PROVE  IInv'
  <1>1. CASE Calls("write") /\ UNCHANGED endpoint
    <2>1. /\ TypeOK' /\ BodyIsPrefix' /\ CallInv'
          /\ response' = response /\ pc' = "write" /\ body' = body /\ cut' = cut
          /\ \A r \in Responses : \A a \in Nat : Holds(r, a) => Holds(r, a)'
      BY <1>1, MovesOnly DEF Connect, PCs
    <2>2. PICK r \in Responses : r = response BY NowHolds
    <2>3. Holds(r, 0)' BY <2>1, <2>2 DEF IInv, HeadInv, Connect
    <2>4. HeadInv' BY <2>1, <2>2, <2>3 DEF IInv, HeadInv, Connect
    <2> QED BY <2>1, <2>4 DEF IInv, PlainInv, SizeLineInv, ChunkInv, EndInv, WholeInv
  <1>2. CASE endpoint' = endpoint + 1 /\ UNCHANGED <<pc, callvars>>
    <2>1. /\ response' = response /\ rest' = rest /\ dropped' = dropped
          /\ buffer' = buffer /\ body' = body /\ cut' = cut /\ length' = length
          /\ chunk_size' = chunk_size /\ pc' = pc /\ got' = got /\ error' = error
          /\ endpoint' = endpoint + 1 /\ endpoint <= Endpoints /\ pc = "connect"
      BY <1>2 DEF Connect, netvars, bodyvars, callvars
    <2>2. PICK r \in Responses : r = response BY NowHolds
    <2>3. \A a \in Nat : Holds(r, a) => Holds(r, a)' BY <2>1, HoldsKept
    <2>4. TypeOK' BY <2>1, EndpointsAssumption DEF IInv, TypeOK
    <2>5. BodyIsPrefix' BY <2>1 DEF IInv, BodyIsPrefix
    <2>6. CallInv'
      <3>1. PICK a \in 0..Len(Wire(r)) : Holds(r, a) BY <2>2 DEF IInv, CallInv
      <3>2. a \in Nat
        <4>1. Len(Wire(r)) \in Nat BY WireFacts
        <4> QED BY <4>1
      <3>3. Holds(r, a)' BY <3>1, <3>2, <2>3
      <3> QED BY <3>3, <2>1, <2>2 DEF IInv, CallInv
    <2>7. HeadInv'
      <3>1. Holds(r, 0)' BY <2>1, <2>2, <2>3 DEF IInv, HeadInv
      <3> QED BY <3>1, <2>1, <2>2 DEF IInv, HeadInv
    <2> QED BY <2>1, <2>4, <2>5, <2>6, <2>7
         DEF IInv, PlainInv, SizeLineInv, ChunkInv, EndInv, WholeInv
  <1> QED BY <1>1, <1>2 DEF Connect

\* The request is sent, or the call throws.
LEMMA WriteInv ==
    ASSUME IInv, Write
    PROVE  IInv'
  <1>1. CASE Calls("status")
    <2>1. /\ TypeOK' /\ BodyIsPrefix' /\ CallInv'
          /\ response' = response /\ pc' = "status" /\ body' = body /\ cut' = cut
          /\ \A r \in Responses : \A a \in Nat : Holds(r, a) => Holds(r, a)'
      BY <1>1, MovesOnly DEF Write, PCs
    <2>2. PICK r \in Responses : r = response BY NowHolds
    <2>3. Holds(r, 0)' BY <2>1, <2>2 DEF IInv, HeadInv, Write
    <2>4. HeadInv' BY <2>1, <2>2, <2>3 DEF IInv, HeadInv, Write
    <2> QED BY <2>1, <2>4 DEF IInv, PlainInv, SizeLineInv, ChunkInv, EndInv, WholeInv
  <1>2. CASE Calls("thrown") BY <1>2, StopsInv DEF Write
  <1> QED BY <1>1, <1>2 DEF Write

\* The status line is taken off the buffer.
LEMMA ReadStatusInv ==
    ASSUME IInv, ReadStatus
    PROVE  IInv'
  <1>1. PICK r \in Responses : r = response BY NowHolds
  <1>2. /\ pc = "status" /\ Has("status") /\ Calls("headers") /\ buffer' = Tail(buffer)
        /\ response' = r /\ rest' = rest /\ dropped' = dropped /\ endpoint' = endpoint
        /\ body' = body /\ cut' = cut /\ length' = length /\ chunk_size' = chunk_size
        /\ UNCHANGED <<netvars, endpoint>>
    BY <1>1 DEF ReadStatus, Succeeds, Enough, netvars, bodyvars
  <1>3. Holds(r, 0) /\ body = <<>> /\ ~cut BY <1>1, <1>2 DEF IInv, HeadInv
  <1>4. Len(buffer) \in Nat /\ DOMAIN buffer = 1..Len(buffer)
        /\ buffer = SubSeq(Wire(r), 0 + 1, 0 + Len(buffer))
        /\ 0 + Len(buffer) + Len(rest) <= Len(Wire(r)) /\ Len(rest) \in Nat
        /\ Len(Wire(r)) \in Nat
    BY <1>3, HoldsFacts
  <1>5. 1 <= Len(buffer) BY <1>2, <1>4 DEF Has
  <1>6. buffer' = SubSeq(buffer, 1 + 1, Len(buffer))
    <2>1. Wire(r) \in Seq(Elements(Wire(r))) BY WireFacts
    <2>2. buffer \in Seq(Elements(Wire(r)))
      <3> DEFINE w == Wire(r)
                 b == Len(buffer)
      <3>1. b \in Nat /\ 0 <= b /\ b <= Len(w) /\ buffer = SubSeq(w, 0 + 1, b) BY <1>4
      <3> HIDE DEF w, b
      <3> QED BY <2>1, <3>1, PartFacts DEF w
    <2> DEFINE S == Elements(Wire(r))
    <2> HIDE DEF S
    <2>3. buffer \in Seq(S) BY <2>2 DEF S
    <2> QED BY <2>3, <1>2, <1>5
  <1>7. /\ Holds(r, 1)' /\ 1 \in 0..Len(Wire(r))
    <2>1. /\ Holds(r, 0 + 1)' /\ 0 + 1 \in 0..Len(Wire(r))
      BY <1>2, <1>3, <1>5, <1>6, HoldsConsumed
    <2> QED BY <2>1
  <1>8. PICK n \in 0..Len(r.body) : body = SubSeq(r.body, 1, n) BY <1>1, NowBody
  <1>9. TypeOK' /\ BodyIsPrefix' /\ CallInv'
    BY <1>1, <1>2, <1>7, <1>8, Moves, NowBody DEF PCs
  <1>10. HeadInv' BY <1>2, <1>3, <1>7 DEF HeadInv, Calls
  <1>11. pc' = "headers" BY <1>2 DEF Calls
  <1> QED BY <1>9, <1>10, <1>11 DEF IInv, PlainInv, SizeLineInv, ChunkInv, EndInv, WholeInv

\* The headers have arrived when the blank line has.
LEMMA HeadersFacts ==
    ASSUME NEW r \in Responses, r = response, Holds(r, 1), HasHeaders
    PROVE  /\ Len(r.head) + 1 \in Nat /\ Len(r.head) + 1 <= Len(buffer)
           /\ HeadSize(r) = 1 + (Len(r.head) + 1)
           /\ AfterHeaders = SubSeq(buffer, (Len(r.head) + 1) + 1, Len(buffer))
  <1>1. Len(r.head) \in Nat BY ResponseFacts DEF ResponseOK
  <1>2. /\ Len(buffer) \in Nat
        /\ \A j \in 1..Len(buffer) : buffer[j] = Wire(r)[1 + j]
    BY HoldsFacts
  <1>3. PICK i \in 1..(Len(buffer) - 1) : buffer[i + 1] = "blank"
    BY DEF HasHeaders
  <1>4. Wire(r)[i + 2] = "blank"
    <2>1. i + 1 \in 1..Len(buffer) /\ 1 + (i + 1) = i + 2 BY <1>2, <1>3
    <2> QED BY <2>1, <1>2, <1>3
  <1>5. ~(i + 2 \in 2..(HeadSize(r) - 1))
    BY <1>4, WireFacts
  <1>6. HeadSize(r) = Len(r.head) + 2 BY DEF HeadSize
  <1>7. Len(r.head) + 1 <= Len(buffer)
    BY <1>1, <1>2, <1>3, <1>5, <1>6
  <1>8. AfterHeaders = SubSeq(buffer, (Len(r.head) + 1) + 1, Len(buffer))
    <2>1. (Len(r.head) + 1) + 1 = Len(r.head) + 2 BY <1>1
    <2> QED BY <2>1 DEF AfterHeaders
  <1> QED BY <1>1, <1>6, <1>7, <1>8

\* Bytes at the front of the buffer that continue the body.
LEMMA BodyGrows ==
    ASSUME NEW r \in Responses, NEW a \in Nat, Holds(r, a),
           NEW n \in Nat, body = SubSeq(r.body, 1, n),
           NEW m \in Nat, m <= Len(buffer), n + m <= Len(r.body),
           \A j \in 1..m : Wire(r)[a + j] = r.body[n + j]
    PROVE  body \o SubSeq(buffer, 1, m) = SubSeq(r.body, 1, n + m)
  <1> DEFINE w == Wire(r)
             t == r.body
             S == Elements(w)
  <1>1. w \in Seq(S) /\ t \in Seq(Octets) /\ Len(w) \in Nat /\ Len(t) \in Nat
    BY WireFacts, ResponseFacts DEF ResponseOK
  <1>2. /\ Len(buffer) \in Nat /\ Len(rest) \in Nat /\ a + Len(buffer) + Len(rest) <= Len(w)
        /\ buffer = SubSeq(w, a + 1, a + Len(buffer))
    BY HoldsFacts
  <1>3. /\ n + m <= Len(t) /\ body = SubSeq(t, 1, n)
        /\ \A j \in 1..m : w[a + j] = t[n + j]
    OBVIOUS
  <1> HIDE DEF w, t, S
  <1> DEFINE b == a + Len(buffer)
  <1>4. b \in Nat /\ a <= b /\ b <= Len(w) /\ m \in 0..(b - a) /\ a + m <= Len(w)
        /\ n <= n + m /\ n + m \in Nat /\ 0 <= n
    BY <1>1, <1>2
  <1> HIDE DEF b
  <1>5. SubSeq(buffer, 1, m) = SubSeq(w, a + 1, a + m)
    <2>1. SubSeq(SubSeq(w, a + 1, b), 1, m) = SubSeq(w, a + 1, a + m)
      BY <1>1, <1>4, PartOfPart
    <2> QED BY <2>1, <1>2 DEF b
  <1>6. SubSeq(w, a + 1, a + m) = SubSeq(t, n + 1, n + m)
    <2>1. /\ w \in Seq(S) /\ t \in Seq(Octets) /\ a \in Nat /\ n \in Nat /\ m \in Nat
          /\ a + m <= Len(w) /\ n + m <= Len(t)
          /\ \A j \in 1..m : w[a + j] = t[n + j]
      BY <1>1, <1>3, <1>4
    <2> QED BY ONLY <2>1
  <1>7. SubSeq(t, 0 + 1, n) \o SubSeq(t, n + 1, n + m) = SubSeq(t, 0 + 1, n + m)
    <2>1. /\ t \in Seq(Octets) /\ 0 \in Nat /\ n \in Nat /\ n + m \in Nat
          /\ 0 <= n /\ n <= n + m /\ n + m <= Len(t)
      BY <1>1, <1>3, <1>4
    <2> QED BY ONLY <2>1, PartsJoin
  <1>8. 0 + 1 = 1 OBVIOUS
  <1>9. body \o SubSeq(buffer, 1, m) = SubSeq(t, 1, n + m)
    BY <1>3, <1>5, <1>6, <1>7, <1>8, Zenon
  <1> QED BY <1>9 DEF t

\* A body that is not chunked: all of the buffer continues it.
LEMMA PlainGrows ==
    ASSUME NEW r \in Responses, r.form # "chunked",
           NEW n \in Nat, body = SubSeq(r.body, 1, n), Holds(r, HeadSize(r) + n)
    PROVE  /\ body \o buffer = SubSeq(r.body, 1, n + Len(buffer))
           /\ n + Len(buffer) \in 0..Len(r.body)
           /\ rest = <<>> /\ ~dropped => n + Len(buffer) = Len(r.body)
  <1> DEFINE H == HeadSize(r)
             m == Len(buffer)
             w == Wire(r)
             t == r.body
  <1>1. /\ H \in Nat /\ Len(t) \in Nat /\ Len(w) = H + Len(t) /\ t \in Seq(Octets)
        /\ \A j \in 1..Len(t) : w[H + j] = t[j]
    BY WireFacts, ResponseFacts DEF BodyPart, ResponseOK
  <1>2. H + n \in Nat BY <1>1
  <1>3. /\ m \in Nat /\ Len(rest) \in Nat /\ (H + n) + m + Len(rest) <= Len(w)
        /\ rest = <<>> /\ ~dropped => (H + n) + m = Len(w)
        /\ buffer = SubSeq(w, (H + n) + 1, (H + n) + m)
    BY <1>2, HoldsFacts
  <1> HIDE DEF H, w, t, m
  <1>4. n + m <= Len(t) /\ n + m \in 0..Len(t)
        /\ (rest = <<>> /\ ~dropped => n + m = Len(t))
    BY <1>1, <1>3
  <1>5. \A j \in 1..m : w[(H + n) + j] = t[n + j]
    <2> SUFFICES ASSUME NEW j \in 1..m PROVE w[(H + n) + j] = t[n + j] OBVIOUS
    <2>1. n + j \in 1..Len(t) /\ (H + n) + j = H + (n + j)
      <3>1. j \in Nat /\ j >= 1 /\ j <= m BY <1>3
      <3>2. H \in Nat /\ Len(t) \in Nat /\ m \in Nat /\ n + m <= Len(t) BY <1>1, <1>3, <1>4
      <3> QED BY <3>1, <3>2
    <2> QED BY <2>1, <1>1
  <1>6. SubSeq(buffer, 1, m) = buffer
    <2> DEFINE S == Elements(w)
               a == H + n
    <2>1. w \in Seq(S) BY WireFacts DEF w
    <2>2. a \in Nat /\ a + m \in Nat /\ a <= a + m /\ a + m <= Len(w) /\ m \in 0..((a + m) - a)
      BY <1>1, <1>2, <1>3
    <2> HIDE DEF S, a
    <2>3. SubSeq(SubSeq(w, a + 1, a + m), 1, m) = SubSeq(w, a + 1, a + m)
      BY <2>1, <2>2, PartOfPart
    <2> QED BY <2>3, <1>3 DEF a
  <1>7. body \o SubSeq(buffer, 1, m) = SubSeq(t, 1, n + m)
    <2> DEFINE a == H + n
    <2>1. /\ a \in Nat /\ m \in Nat /\ m <= Len(buffer) /\ n + m <= Len(r.body)
          /\ \A j \in 1..m : Wire(r)[a + j] = r.body[n + j]
          /\ Holds(r, a)
      <3>1. m <= Len(buffer) BY <1>3 DEF m
      <3> QED BY <3>1, <1>2, <1>3, <1>4, <1>5 DEF H, w, t
    <2> HIDE DEF a
    <2>2. body \o SubSeq(buffer, 1, m) = SubSeq(r.body, 1, n + m)
      BY <2>1, BodyGrows, ZenonT(60)
    <2> QED BY <2>2 DEF t
  <1> QED BY <1>4, <1>6, <1>7 DEF t, m

\* What has come with the headers is the beginning of such a body.
LEMMA PlainBegins ==
    ASSUME NEW r \in Responses, r = response, r.form # "chunked",
           Holds(r, 1), HasHeaders
    PROVE  \E n \in 0..Len(r.body) :
               /\ AfterHeaders = SubSeq(r.body, 1, n)
               /\ n = Len(AfterHeaders)
               /\ 1 + Len(buffer) = HeadSize(r) + n
               /\ Len(r.body) \in Nat
  <1> DEFINE H == HeadSize(r)
             b == 1 + Len(buffer)
             w == Wire(r)
             t == r.body
             S == Elements(w)
  <1>1. /\ H \in Nat /\ Len(t) \in Nat /\ Len(w) = H + Len(t) /\ t \in Seq(Octets)
        /\ \A j \in 1..Len(t) : w[H + j] = t[j]
        /\ w \in Seq(S)
    BY WireFacts, ResponseFacts DEF BodyPart, ResponseOK
  <1>2. /\ Len(buffer) \in Nat /\ Len(rest) \in Nat /\ 1 + Len(buffer) + Len(rest) <= Len(w)
        /\ buffer = SubSeq(w, 1 + 1, 1 + Len(buffer))
    BY HoldsFacts
  <1>3. PICK k \in Nat : /\ k = Len(r.head) + 1 /\ k <= Len(buffer) /\ H = 1 + k
                         /\ AfterHeaders = SubSeq(buffer, k + 1, Len(buffer))
    BY HeadersFacts
  <1> HIDE DEF H, w, t, S
  <1>4. b \in Nat /\ 1 <= b /\ b <= Len(w) /\ k \in 0..(b - 1) /\ b - 1 = Len(buffer)
    BY <1>1, <1>2, <1>3
  <1>5. PICK n \in 0..Len(t) : b = H + n
    <2>1. /\ H \in Nat /\ Len(t) \in Nat /\ Len(w) = H + Len(t)
          /\ b \in Nat /\ b <= Len(w) /\ H <= b
      BY <1>1, <1>3, <1>4
    <2>2. b - H \in 0..Len(t) /\ b = H + (b - H) BY <2>1
    <2> QED BY <2>2
  <1>6. n \in Nat /\ H + n <= Len(w) /\ 0 + n <= Len(t) /\ H <= H + n /\ H + n \in Nat
        /\ \A j \in 1..n : w[H + j] = t[0 + j]
    BY <1>1, <1>5
  <1> HIDE DEF b
  <1>7. AfterHeaders = SubSeq(w, H + 1, H + n)
    <2>1. SubSeq(SubSeq(w, 1 + 1, b), k + 1, b - 1) = SubSeq(w, 1 + k + 1, b)
      BY <1>1, <1>4, PartOfPart
    <2> QED BY <2>1, <1>2, <1>3, <1>4, <1>5 DEF b
  <1>8. SubSeq(w, H + 1, H + n) = SubSeq(t, 0 + 1, 0 + n)
    <2>1. /\ w \in Seq(S) /\ t \in Seq(Octets) /\ H \in Nat /\ n \in Nat /\ 0 \in Nat
          /\ H + n <= Len(w) /\ 0 + n <= Len(t)
          /\ \A j \in 1..n : w[H + j] = t[0 + j]
      BY <1>1, <1>6
    <2> QED BY ONLY <2>1, PartsEqual
  <1>9. Len(SubSeq(w, H + 1, H + n)) = n
    <2>1. /\ w \in Seq(S) /\ H \in Nat /\ H + n \in Nat /\ H <= H + n /\ H + n <= Len(w)
      BY <1>1, <1>6
    <2>2. Len(SubSeq(w, H + 1, H + n)) = (H + n) - H BY ONLY <2>1, PartFacts
    <2>3. (H + n) - H = n BY <1>1, <1>6
    <2> QED BY <2>2, <2>3, Zenon
  <1>10. AfterHeaders = SubSeq(t, 1, n) /\ n = Len(AfterHeaders)
    <2>1. SubSeq(t, 0 + 1, 0 + n) = SubSeq(t, 1, n)
      <3>1. 0 + 1 = 1 /\ 0 + n = n BY <1>6
      <3> QED BY ONLY <3>1, Zenon
    <2> QED BY ONLY <2>1, <1>7, <1>8, <1>9, Zenon
  <1> QED BY <1>10, <1>5, <1>1 DEF t, H, b

\* read_body() takes what came with the headers for the beginning of the body.
LEMMA PlainBodyBegins ==
    ASSUME IInv, Succeeds("headers"), NEW r \in Responses, r = response,
           r.form # "chunked", body' = AfterHeaders, buffer' = <<>>,
           NEW next \in {"normal", "length", "handle"}, Calls(next),
           UNCHANGED <<netvars, endpoint, chunk_size, cut>>, length' \in 0..(SizeT - 1)
    PROVE  /\ TypeOK' /\ BodyIsPrefix' /\ CallInv'
           /\ Len(body') \in Nat /\ Len(body') = Len(AfterHeaders)
           /\ Len(body') <= Len(r.body) /\ Len(r.body) \in Nat
           /\ Holds(r, HeadSize(r) + Len(body))'
           /\ got' = Len(buffer') /\ pc' = next /\ response' = r
  <1>1. pc = "headers" /\ HasHeaders BY DEF Succeeds, Enough
  <1>2. Holds(r, 1) BY <1>1 DEF IInv, HeadInv
  <1>3. PICK n \in 0..Len(r.body) :
            /\ AfterHeaders = SubSeq(r.body, 1, n) /\ n = Len(AfterHeaders)
            /\ 1 + Len(buffer) = HeadSize(r) + n /\ Len(r.body) \in Nat
    BY <1>1, <1>2, PlainBegins
  <1>4. /\ response' = r /\ rest' = rest /\ dropped' = dropped /\ pc' = next /\ got' = 0
        /\ chunk_size' = chunk_size /\ cut' = cut
    BY DEF netvars, Calls
  <1>5. PICK b \in Nat : b = 1 + Len(buffer) BY <1>2, HoldsFacts
  <1>6. Holds(r, b)' /\ b \in 0..Len(Wire(r))
    BY <1>2, <1>4, <1>5, HoldsEmptied
  <1>7. /\ TypeOK' /\ BodyIsPrefix' /\ CallInv' /\ Len(body') = n
    BY <1>3, <1>4, <1>6, Moves, NowBody DEF PCs
  <1>8. Holds(r, HeadSize(r) + Len(body))'
    <2>1. b = HeadSize(r) + Len(body') BY <1>3, <1>5, <1>7
    <2> QED BY <2>1, <1>6 DEF Holds
  <1>9. Len(buffer') = 0 OBVIOUS
  <1> QED BY <1>3, <1>4, <1>7, <1>8, <1>9

\* A body that ends with the connection.
LEMMA ReadHeadersUntilCloseInv ==
    ASSUME IInv, ReadHeadersUntilClose
    PROVE  IInv'
  <1>1. PICK r \in Responses : r = response BY NowHolds
  <1>2. /\ Succeeds("headers") /\ r.form = "until_close" /\ pc = "headers"
        /\ body' = AfterHeaders /\ buffer' = <<>>
        /\ Calls("normal") /\ UNCHANGED <<netvars, endpoint, chunk_size, cut>>
        /\ length' = length
    BY <1>1 DEF ReadHeadersUntilClose, Succeeds
  <1>3. length' \in 0..(SizeT - 1) BY <1>2, NowBody
  <1>4. /\ TypeOK' /\ BodyIsPrefix' /\ CallInv' /\ pc' = "normal" /\ response' = r
        /\ Holds(r, HeadSize(r) + Len(body))' /\ got' = Len(buffer')
    BY <1>1, <1>2, <1>3, PlainBodyBegins
  <1>5. PlainInv' BY <1>2, <1>4 DEF PlainInv
  <1> QED BY <1>4, <1>5 DEF IInv, HeadInv, SizeLineInv, ChunkInv, EndInv, WholeInv

\* A body with a Content-Length, which may all have come with the headers.
LEMMA ReadHeadersLengthInv ==
    ASSUME IInv, ReadHeadersLength
    PROVE  IInv'
  <1>1. PICK r \in Responses : r = response BY NowHolds
  <1> DEFINE next == IF length' = 0 THEN "handle" ELSE "length"
             m == Len(AfterHeaders)
  <1>2. /\ Succeeds("headers") /\ r.form = "length" /\ pc = "headers"
        /\ body' = AfterHeaders /\ buffer' = <<>>
        /\ Calls(next) /\ UNCHANGED <<netvars, endpoint, chunk_size, cut>>
        /\ length' = (r.length - m) % SizeT
    BY <1>1 DEF ReadHeadersLength, Succeeds
  <1>3. m \in Nat
    <2>1. Holds(r, 1) /\ HasHeaders BY <1>1, <1>2 DEF Succeeds, Enough, IInv, HeadInv
    <2>2. PICK n \in 0..Len(r.body) : n = m /\ Len(r.body) \in Nat
      BY <2>1, <1>1, <1>2, PlainBegins
    <2> QED BY <2>2
  <1>4. r.length \in 0..(SizeT - 1) /\ r.length \in Nat /\ SizeT \in Nat \ {0}
    BY ResponseFacts, EndpointsAssumption DEF ResponseOK
  <1> HIDE DEF m
  <1>5. length' \in 0..(SizeT - 1) /\ (length' = 0 => r.length <= m)
    <2>1. r.length - m \in Int BY <1>3, <1>4
    <2> QED BY <2>1, <1>2, <1>3, <1>4, ModFacts, LengthUsedUp
  <1>6. next \in {"normal", "length", "handle"} OBVIOUS
  <1> HIDE DEF next
  <1>7. /\ TypeOK' /\ BodyIsPrefix' /\ CallInv' /\ pc' = next /\ response' = r
        /\ Holds(r, HeadSize(r) + Len(body))' /\ got' = Len(buffer')
        /\ Len(body') = m /\ m <= Len(r.body) /\ Len(r.body) \in Nat
    BY <1>1, <1>2, <1>5, <1>6, PlainBodyBegins DEF m
  <1>8. PlainInv'
    <2>1. pc' # "normal" BY <1>7 DEF next
    <2> QED BY <2>1, <1>2, <1>7 DEF PlainInv
  <1>9. WholeInv'
    <2> SUFFICES ASSUME pc' \in {"handle", "token"} PROVE WholeInv' BY DEF WholeInv
    <2>1. r.length <= m BY <1>5, <1>7 DEF next
    <2>2. Len(body') = Len(r.body) \/ r.length < Len(r.body) BY <2>1, <1>3, <1>4, <1>7
    <2> QED BY <2>2, <1>2, <1>7 DEF WholeInv
  <1>10. pc' \in {"handle", "length"} BY <1>7 DEF next
  <1>11. EndInv' BY <1>2, <1>7, <1>10 DEF EndInv
  <1> QED BY <1>7, <1>8, <1>9, <1>10, <1>11 DEF IInv, HeadInv, SizeLineInv, ChunkInv

\* With a chunked body the first size line comes next.
LEMMA ReadHeadersChunkedInv ==
    ASSUME IInv, ReadHeadersChunked
    PROVE  IInv'
  <1>1. PICK r \in Responses : r = response BY NowHolds
  <1>2. /\ pc = "headers" /\ HasHeaders /\ r.form = "chunked"
        /\ buffer' = AfterHeaders /\ Calls("size_line") /\ pc' = "size_line"
        /\ response' = r /\ rest' = rest /\ dropped' = dropped
        /\ body' = body /\ cut' = cut /\ length' = length /\ chunk_size' = chunk_size
        /\ UNCHANGED <<netvars, endpoint>>
    BY <1>1 DEF ReadHeadersChunked, Succeeds, Enough, netvars, bodyvars, Calls
  <1>3. Holds(r, 1) /\ body = <<>> /\ ~cut BY <1>1, <1>2 DEF IInv, HeadInv
  <1>4. PICK k \in Nat : /\ k <= Len(buffer) /\ HeadSize(r) = 1 + k
                         /\ AfterHeaders = SubSeq(buffer, k + 1, Len(buffer))
    BY <1>1, <1>2, <1>3, HeadersFacts
  <1>5. Holds(r, 1 + k)' /\ 1 + k \in 0..Len(Wire(r))
    BY <1>2, <1>3, <1>4, HoldsConsumed
  <1>6. PICK n \in 0..Len(r.body) : body = SubSeq(r.body, 1, n) BY <1>1, NowBody
  <1>7. TypeOK' /\ BodyIsPrefix' /\ CallInv'
    BY <1>1, <1>2, <1>5, <1>6, Moves, NowBody DEF PCs
  <1>8. SizeLineInv'
    <2>1. N(r) \in Nat /\ ChunkEnd(r, 0) = 0 BY <1>2, ChunkFacts
    <2>2. 1 \in 1..(N(r) + 1) /\ 1 - 1 = 0 /\ 5 * (1 - 1) = 0 BY <2>1
    <2>3. ChunkStart(r, 1) = 0 BY <2>1, <2>2 DEF ChunkStart
    <2>4. HeadSize(r) + ChunkStart(r, 1) = 1 + k BY <2>3, <1>4
    <2>5. Len(body') = ChunkEnd(r, 1 - 1) BY <2>1, <2>2, <1>2, <1>3
    <2>6. Holds(r, HeadSize(r) + ChunkStart(r, 1))' BY <2>4, <1>5 DEF Holds
    <2> QED BY <2>2, <2>5, <2>6, <1>2, <1>3 DEF SizeLineInv
  <1> QED BY <1>2, <1>7, <1>8 DEF IInv, HeadInv, PlainInv, ChunkInv, EndInv, WholeInv

\* Every way in which the fetch ends without a response.
LEMMA HeadStopsInv ==
    ASSUME IInv, ConnectFails \/ HeadFails \/ ReadHeadersAborts \/ ReadHeadersThrows
                 \/ ReadLineFails \/ ReadChunkFails
    PROVE  IInv'
  <1>1. /\ Calls("thrown") \/ Calls("aborted")
        /\ UNCHANGED <<netvars, endpoint, buffer, bodyvars>>
    BY DEF ConnectFails, HeadFails, ReadHeadersAborts, ReadHeadersThrows,
           ReadLineFails, ReadChunkFails
  <1> QED BY <1>1, StopsInv

-----------------------------------------------------------------------------
(* A body that is not chunked.                                             *)

\* read_body() takes all that has been read for the continuation of the body.
LEMMA PlainBodyGrows ==
    ASSUME IInv, pc \in {"normal", "length"}, NEW r \in Responses, r = response,
           body' = body \o buffer, buffer' = <<>>,
           NEW next \in {"normal", "length", "handle"}, Calls(next),
           UNCHANGED <<netvars, endpoint, chunk_size, cut>>, length' \in 0..(SizeT - 1)
    PROVE  /\ TypeOK' /\ BodyIsPrefix' /\ CallInv'
           /\ Len(body') \in Nat /\ Len(body') = Len(body) + got
           /\ Len(body') <= Len(r.body) /\ Len(r.body) \in Nat
           /\ Holds(r, HeadSize(r) + Len(body))'
           /\ got' = Len(buffer') /\ pc' = next /\ response' = r /\ dropped' = dropped
           /\ rest = <<>> /\ ~dropped => Len(body') = Len(r.body)
           /\ r.form # "chunked"
  <1>1. /\ r.form # "chunked" /\ got = Len(buffer) /\ Holds(r, HeadSize(r) + Len(body))
    BY DEF IInv, PlainInv
  <1>2. PICK n \in 0..Len(r.body) :
            body = SubSeq(r.body, 1, n) /\ n = Len(body) /\ Len(r.body) \in Nat
    BY NowBody
  <1>3. n \in Nat BY <1>2
  <1>4. Holds(r, HeadSize(r) + n) BY <1>1, <1>2
  <1>5. PICK m \in 0..Len(r.body) :
            /\ m = n + Len(buffer) /\ body \o buffer = SubSeq(r.body, 1, m)
            /\ rest = <<>> /\ ~dropped => m = Len(r.body)
    BY <1>1, <1>2, <1>3, <1>4, PlainGrows
  <1>6. /\ response' = r /\ rest' = rest /\ dropped' = dropped /\ pc' = next /\ got' = 0
        /\ chunk_size' = chunk_size /\ cut' = cut
    BY DEF netvars, Calls
  <1>7. HeadSize(r) \in Nat /\ Len(buffer) \in Nat BY NowHolds
  <1>8. PICK a \in Nat : a = HeadSize(r) + n BY <1>3, <1>7
  <1>9. PICK b \in Nat : b = a + Len(buffer) BY <1>7, <1>8
  <1>10. Holds(r, b)' /\ b \in 0..Len(Wire(r))
    BY <1>4, <1>6, <1>8, <1>9, HoldsEmptied
  <1>11. /\ TypeOK' /\ BodyIsPrefix' /\ CallInv' /\ Len(body') = m
    BY <1>5, <1>6, <1>10, Moves, NowBody DEF PCs
  <1>12. Holds(r, HeadSize(r) + Len(body))'
    <2>1. b = HeadSize(r) + Len(body') BY <1>5, <1>7, <1>8, <1>9, <1>11, <1>3
    <2> QED BY <2>1, <1>10 DEF Holds
  <1>13. Len(buffer') = 0 OBVIOUS
  <1>14. Len(body') \in Nat /\ Len(body') = Len(body) + got /\ Len(body') <= Len(r.body)
    BY <1>1, <1>2, <1>3, <1>5, <1>7, <1>11
  <1>15. rest = <<>> /\ ~dropped => Len(body') = Len(r.body) BY <1>5, <1>11
  <1> QED BY <1>1, <1>2, <1>6, <1>11, <1>12, <1>13, <1>14, <1>15

\* Up to the end of the connection.
LEMMA ReadNormalInv ==
    ASSUME IInv, ReadNormal
    PROVE  IInv'
  <1>1. PICK r \in Responses : r = response BY NowHolds
  <1> DEFINE next == IF got = 0 THEN "handle" ELSE "normal"
  <1>2. /\ pc = "normal" /\ (got >= 1 \/ error # "none")
        /\ body' = body \o buffer /\ buffer' = <<>> /\ Calls(next) /\ length' = length
        /\ UNCHANGED <<netvars, endpoint, chunk_size, cut>>
    BY DEF ReadNormal, Returns, Enough
  <1>3. r.form = "until_close" BY <1>1, <1>2 DEF IInv, PlainInv
  <1>4. next \in {"normal", "length", "handle"} OBVIOUS
  <1>5. length' \in 0..(SizeT - 1) BY <1>2, NowBody
  <1>6. got = 0 => rest = <<>>
    <2>1. got = 0 => ~(got >= 1) OBVIOUS
    <2> QED BY <2>1, <1>2 DEF IInv, CallInv
  <1> HIDE DEF next
  <1>7. /\ TypeOK' /\ BodyIsPrefix' /\ CallInv'
        /\ Holds(r, HeadSize(r) + Len(body))'
        /\ got' = Len(buffer') /\ pc' = next /\ response' = r /\ dropped' = dropped
        /\ rest = <<>> /\ ~dropped => Len(body') = Len(r.body)
    BY <1>1, <1>2, <1>4, <1>5, PlainBodyGrows
  <1>8. pc' = "normal" \/ (pc' = "handle" /\ got = 0) BY <1>7 DEF next
  <1>9. dropped \in BOOLEAN BY DEF IInv, TypeOK
  <1>10. PlainInv' BY <1>3, <1>7, <1>8 DEF PlainInv
  <1>11. EndInv' BY <1>3, <1>7, <1>8 DEF EndInv
  <1>12. WholeInv' BY <1>6, <1>7, <1>8, <1>9 DEF WholeInv
  <1> QED BY <1>7, <1>8, <1>10, <1>11, <1>12 DEF IInv, HeadInv, SizeLineInv, ChunkInv

\* Down to a length of 0, or to the end of the connection.
LEMMA ReadLengthInv ==
    ASSUME IInv, ReadLength
    PROVE  IInv'
  <1>1. PICK r \in Responses : r = response BY NowHolds
  <1> DEFINE next == IF got = 0 \/ error # "none" \/ length' = 0 THEN "handle" ELSE "length"
             n == Len(body)
             t == Len(r.body)
  <1>2. /\ pc = "length" /\ (got >= 1 \/ error # "none")
        /\ body' = body \o buffer /\ buffer' = <<>> /\ Calls(next)
        /\ length' = (length - got) % SizeT
        /\ UNCHANGED <<netvars, endpoint, chunk_size, cut>>
    BY DEF ReadLength, Returns, Enough
  <1>3. r.form = "length" /\ length = (r.length - n) % SizeT
    BY <1>1, <1>2 DEF IInv, PlainInv
  <1>4. /\ r.length \in 0..(SizeT - 1) /\ r.length \in Int /\ SizeT \in Nat \ {0}
        /\ n \in Nat /\ got \in Nat
    BY ResponseFacts, EndpointsAssumption, NowHolds DEF ResponseOK
  <1> HIDE DEF n
  <1>5. length' = (r.length - (n + got)) % SizeT
    <2> DEFINE l == r.length
               x == l - n
    <2>1. l \in Int /\ x \in Int /\ x - got = l - (n + got) BY <1>4
    <2> HIDE DEF x
    <2>2. ((x % SizeT) - got) % SizeT = (x - got) % SizeT BY <2>1, <1>4, ModMinus
    <2>3. length = x % SizeT BY <1>3 DEF x
    <2>4. length' = (x - got) % SizeT BY <2>2, <2>3, <1>2
    <2> QED BY <2>1, <2>4
  <1>6. length' \in 0..(SizeT - 1) /\ (length' = 0 => r.length <= n + got)
    <2>1. r.length - (n + got) \in Int /\ n + got \in Nat BY <1>4
    <2> QED BY <2>1, <1>4, <1>5, ModFacts, LengthUsedUp
  <1>7. got = 0 \/ error # "none" => rest = <<>>
    <2>1. got = 0 => ~(got >= 1) OBVIOUS
    <2> QED BY <2>1, <1>2 DEF IInv, CallInv
  <1>8. next \in {"normal", "length", "handle"} OBVIOUS
  <1> HIDE DEF next
  <1>9. /\ TypeOK' /\ BodyIsPrefix' /\ CallInv'
        /\ Holds(r, HeadSize(r) + Len(body))'
        /\ Len(body') = n + got /\ n + got <= t /\ t \in Nat
        /\ got' = Len(buffer') /\ pc' = next /\ response' = r /\ dropped' = dropped
        /\ rest = <<>> /\ ~dropped => Len(body') = t
    BY <1>1, <1>2, <1>6, <1>8, PlainBodyGrows DEF n
  <1>10. \/ pc' = "length"
         \/ pc' = "handle" /\ (rest = <<>> \/ length' = 0)
    BY <1>7, <1>9 DEF next
  <1>11. dropped \in BOOLEAN BY DEF IInv, TypeOK
  <1>12. PlainInv' BY <1>3, <1>5, <1>9, <1>10 DEF PlainInv
  <1>13. EndInv' BY <1>3, <1>9, <1>10 DEF EndInv
  <1>14. WholeInv'
    <2> SUFFICES ASSUME pc' = "handle", ~dropped, length' = 0 PROVE WholeInv'
      BY <1>9, <1>10, <1>11 DEF WholeInv
    <2>1. r.length <= n + got BY <1>6
    <2>2. Len(body') = t \/ r.length < t BY <2>1, <1>4, <1>9
    <2> QED BY <2>2, <1>3, <1>9 DEF WholeInv
  <1> QED BY <1>9, <1>10, <1>12, <1>13, <1>14 DEF IInv, HeadInv, SizeLineInv, ChunkInv

-----------------------------------------------------------------------------
(* A chunked body.                                                         *)

\* A size line is taken off the buffer, k symbols of it, and says z.
LEMMA LineTaken ==
    ASSUME IInv, ReadSizeLine, NEW r \in Responses, r = response,
           NEW a \in Nat, Holds(r, a),
           NEW k \in Nat, k = LineEnd, k <= Len(buffer),
           NEW z \in 0..Len(Digits), z = LineSize
    PROVE  /\ TypeOK' /\ BodyIsPrefix' /\ CallInv' /\ Holds(r, a + k)'
           /\ k = Len(buffer) => buffer' = <<>>
           /\ pc' = IF z = 0 THEN "last_line" ELSE "chunk"
           /\ chunk_size' = z /\ body' = body /\ cut' = cut
           /\ response' = r /\ dropped' = dropped /\ rest' = rest
  <1> DEFINE next == IF z = 0 THEN "last_line" ELSE "chunk"
  <1>1. /\ buffer' = SubSeq(buffer, k + 1, Len(buffer)) /\ chunk_size' = z
        /\ Calls(next) /\ UNCHANGED <<netvars, endpoint>>
        /\ length' = length /\ body' = body /\ cut' = cut
        /\ response' = r /\ rest' = rest /\ dropped' = dropped
    BY DEF ReadSizeLine, AfterLine, netvars
  <1>2. next \in PCs BY DEF PCs
  <1>3. pc' = next BY <1>1 DEF Calls
  <1> HIDE DEF next
  <1>4. Holds(r, a + k)' /\ Len(buffer') = Len(buffer) - k /\ a + k \in 0..Len(Wire(r))
    BY <1>1, HoldsConsumed
  <1>5. PICK n \in 0..Len(r.body) : body = SubSeq(r.body, 1, n) BY NowBody
  <1>6. TypeOK' /\ BodyIsPrefix' /\ CallInv'
    BY <1>1, <1>2, <1>4, <1>5, Moves, NowBody
  <1>7. k = Len(buffer) => buffer' = <<>>
    <2>1. BufferIsPart' BY BufferHasLength, PTL
    <2>2. a + k \in Nat OBVIOUS
    <2>3. buffer' = <<>> <=> Len(buffer') = 0 BY <2>1, <2>2, <1>4 DEF BufferIsPart
    <2>4. Len(buffer) \in Nat BY NowHolds
    <2> QED BY <2>3, <2>4, <1>4
  <1> QED BY <1>1, <1>3, <1>4, <1>6, <1>7 DEF next

\* Any size line but that of a chunk that follows ends the body.
LEMMA LineEndsBody ==
    ASSUME IInv, NEW r \in Responses, r = response, r.form = "chunked",
           NEW i \in 0..N(r), Len(body) = ChunkEnd(r, i),
           dropped \/ cut \/ Len(body) = Len(r.body),
           TypeOK', BodyIsPrefix', CallInv', pc' = "last_line",
           body' = body, cut' = cut, response' = r, dropped' = dropped
    PROVE  IInv'
  <1>1. EndInv' BY DEF EndInv
  <1> QED BY <1>1 DEF IInv, HeadInv, PlainInv, SizeLineInv, ChunkInv, WholeInv

\* The buffer begins with the line end of the chunk before.
LEMMA LineOfCut ==
    ASSUME IInv, ReadSizeLine, cut
    PROVE  IInv'
  <1>1. PICK r \in Responses : r = response BY NowHolds
  <1>2. pc = "size_line" /\ r.form = "chunked"
    BY <1>1 DEF ReadSizeLine, Returns, IInv, SizeLineInv
  <1>3. PICK i \in 1..(N(r) + 1) :
            /\ Len(body) = ChunkEnd(r, i - 1) /\ i > 1
            /\ Holds(r, Start(r, i) - 1) \/ Holds(r, Start(r, i) - 2)
    BY <1>1, <1>2 DEF IInv, SizeLineInv, Start
  <1>4. N(r) \in Nat BY <1>2, ChunkFacts
  <1>5. PICK j \in 1..N(r) : i = j + 1
    <2>1. i - 1 \in 1..N(r) /\ i = (i - 1) + 1 BY <1>3, <1>4
    <2> QED BY <2>1
  <1>6. j \in 1..(N(r) + 1) /\ i - 1 = j /\ j \in 0..N(r) BY <1>4, <1>5
  <1> DEFINE s == Start(r, j)
             z == ChunkSize(r, j)
             w == Wire(r)
  <1>7. /\ s \in Nat /\ z \in Nat /\ s + z + 5 <= Len(w) /\ Start(r, i) = s + z + 5
        /\ w[s + z + 4] = "CR" /\ w[s + z + 5] = "LF" /\ Len(w) \in Nat
    <2>1. PICK y \in 0..Len(Digits), e \in Nat : y = ChunkSize(r, j) /\ ChunkLaidOut(r, j, y, e)
      BY <1>2, <1>6, ChunkOnWire
    <2> QED BY <2>1, <1>5 DEF ChunkLaidOut
  <1> HIDE DEF s, z, w
  <1>8. PICK a \in Nat : /\ Holds(r, a)
                         /\ a = s + z + 4 \/ a = s + z + 3
    <2>1. /\ s + z + 5 - 1 = s + z + 4 /\ s + z + 5 - 2 = s + z + 3
          /\ s + z + 4 \in Nat /\ s + z + 3 \in Nat
      BY <1>7
    <2> QED BY <2>1, <1>3, <1>7
  <1>9. /\ Len(buffer) \in Nat /\ DOMAIN buffer = 1..Len(buffer)
        /\ buffer = <<>> <=> Len(buffer) = 0
        /\ \A p \in 1..Len(buffer) : buffer[p] = w[a + p]
    BY <1>8, HoldsFacts DEF w
  <1>10. \/ Len(buffer) = 0
         \/ Len(buffer) >= 1 /\ buffer[1] = "LF"
         \/ Len(buffer) >= 1 /\ buffer[1] = "CR"
            /\ (Len(buffer) >= 2 => buffer[2] = "LF")
    <2> SUFFICES ASSUME Len(buffer) >= 1
                 PROVE  \/ buffer[1] = "LF"
                        \/ buffer[1] = "CR" /\ (Len(buffer) >= 2 => buffer[2] = "LF")
      BY <1>9
    <2>1. buffer[1] = w[a + 1] /\ (Len(buffer) >= 2 => buffer[2] = w[a + 2])
      <3>1. 1 \in 1..Len(buffer) /\ (Len(buffer) >= 2 => 2 \in 1..Len(buffer)) BY <1>9
      <3> QED BY <3>1, <1>9
    <2>2. CASE a = s + z + 4
      <3>1. a + 1 = s + z + 5 BY <2>2, <1>7
      <3> QED BY <3>1, <2>1, <1>7
    <2>3. CASE a = s + z + 3
      <3>1. a + 1 = s + z + 4 /\ a + 2 = s + z + 5 BY <2>3, <1>7
      <3> QED BY <3>1, <2>1, <1>7
    <2> QED BY <2>2, <2>3, <1>8
  <1>11. LineSize = 0 BY <1>9, <1>10, LineSizeFacts
  <1>12. PICK k \in Nat : k = LineEnd /\ k <= Len(buffer)
    <2>1. CASE Len(buffer) = 0
      <3>1. \A p \in 1..Len(buffer) : buffer[p] # "LF" BY <2>1
      <3> QED BY <3>1, <1>9, NoLineEnd
    <2>2. CASE Len(buffer) >= 1 /\ buffer[1] = "LF"
      <3>1. 1 \in 1..Len(buffer) /\ \A p \in 1..(1 - 1) : buffer[p] # "LF" BY <2>2, <1>9
      <3>2. LineEnd = 1 BY <3>1, <2>2, <1>9, LineEndAt
      <3> QED BY <3>2, <2>2
    <2>3. CASE Len(buffer) = 1 /\ buffer[1] = "CR"
      <3>1. \A p \in 1..Len(buffer) : buffer[p] # "LF" BY <2>3
      <3> QED BY <3>1, <1>9, NoLineEnd
    <2>4. CASE Len(buffer) >= 2 /\ buffer[1] = "CR" /\ buffer[2] = "LF"
      <3>1. 2 \in 1..Len(buffer) /\ \A p \in 1..(2 - 1) : buffer[p] # "LF" BY <2>4, <1>9
      <3>2. LineEnd = 2 BY <3>1, <2>4, <1>9, LineEndAt
      <3> QED BY <3>2, <2>4
    <2>5. Len(buffer) = 1 \/ Len(buffer) >= 2 \/ Len(buffer) = 0 BY <1>9
    <2> QED BY <2>1, <2>2, <2>3, <2>4, <2>5, <1>10
  <1>13. 0 \in 0..Len(Digits) BY DigitsAssumption
  <1>14. /\ TypeOK' /\ BodyIsPrefix' /\ CallInv' /\ pc' = "last_line"
         /\ body' = body /\ cut' = cut /\ response' = r /\ dropped' = dropped
    <2>1. PICK q \in 0..Len(Digits) : q = 0 BY <1>13
    <2>2. q = LineSize BY <2>1, <1>11
    <2> QED BY <2>1, <2>2, <1>1, <1>8, <1>12, LineTaken
  <1> QED BY <1>1, <1>2, <1>3, <1>6, <1>14, LineEndsBody

\* The buffer begins with a size line.
LEMMA LineOfChunk ==
    ASSUME IInv, ReadSizeLine, ~cut
    PROVE  IInv'
  <1>1. PICK r \in Responses : r = response BY NowHolds
  <1>2. /\ pc = "size_line" /\ r.form = "chunked"
        /\ HasLineEnd \/ error = "eof"
    BY <1>1 DEF ReadSizeLine, Returns, Enough, IInv, SizeLineInv
  <1>3. PICK i \in 1..(N(r) + 1) : Len(body) = ChunkEnd(r, i - 1) /\ Holds(r, Start(r, i))
    BY <1>1, <1>2 DEF IInv, SizeLineInv, Start
  <1> DEFINE s == Start(r, i)
             w == Wire(r)
  <1>4. PICK z \in 0..Len(Digits), e \in Nat :
            z = ChunkSize(r, i) /\ ChunkLaidOut(r, i, z, e)
    BY <1>2, ChunkOnWire
  <1>5. /\ s \in Nat /\ z \in Nat /\ s + z + 5 <= Len(w) /\ Len(w) \in Nat
        /\ w[s + 1] = (IF z = 0 THEN "0" ELSE Digits[z])
        /\ w[s + 2] = "CR" /\ w[s + 3] = "LF"
        /\ z = 0 <=> i = N(r) + 1
        /\ N(r) \in Nat /\ i \in Nat
    BY <1>4 DEF ChunkLaidOut
  <1> HIDE DEF w, s
  <1>6. Holds(r, s) BY <1>3 DEF s
  <1>7. /\ Len(buffer) \in Nat /\ DOMAIN buffer = 1..Len(buffer)
        /\ buffer = <<>> <=> Len(buffer) = 0
        /\ \A p \in 1..Len(buffer) : buffer[p] = w[s + p]
        /\ rest = <<>> /\ ~dropped => s + Len(buffer) = Len(w)
    BY <1>5, <1>6, HoldsFacts DEF w
  <1>8. /\ Len(buffer) >= 1 => buffer[1] = w[s + 1]
        /\ Len(buffer) >= 2 => buffer[2] = "CR"
        /\ Len(buffer) >= 3 => buffer[3] = "LF"
    <2>1. /\ Len(buffer) >= 1 => 1 \in 1..Len(buffer)
          /\ Len(buffer) >= 2 => 2 \in 1..Len(buffer)
          /\ Len(buffer) >= 3 => 3 \in 1..Len(buffer)
      BY <1>7
    <2> QED BY <2>1, <1>5, <1>7
  <1>9. w[s + 1] # "CR" /\ w[s + 1] # "LF"
    <2>1. z # 0 => z \in DOMAIN Digits BY <1>5, DigitsAssumption
    <2> QED BY <2>1, <1>5, DigitsAssumption
  <1>10. Len(buffer) >= 1 => LineSize = z
    <2> SUFFICES ASSUME Len(buffer) >= 1 PROVE LineSize = z OBVIOUS
    <2>1. CASE z = 0
      <3>1. buffer[1] = "0" BY <2>1, <1>5, <1>8
      <3> QED BY <3>1, <2>1, <1>7, LineSizeFacts
    <2>2. CASE z # 0
      <3>1. z \in 1..Len(Digits) /\ buffer[1] = Digits[z] BY <2>2, <1>5, <1>8, DigitsAssumption
      <3> QED BY <3>1, <1>7, LineSizeFacts
    <2> QED BY <2>1, <2>2
  <1>11. i - 1 \in 0..N(r) /\ (z # 0 => i \in 1..N(r)) BY <1>5
  <1>12. CASE Len(buffer) >= 3
    <2>1. 3 \in 1..Len(buffer) /\ \A p \in 1..(3 - 1) : buffer[p] # "LF"
      <3>1. Len(buffer) >= 1 /\ Len(buffer) >= 2 BY <1>12, <1>7
      <3>2. buffer[1] # "LF" /\ buffer[2] # "LF" BY <3>1, <1>8, <1>9
      <3>3. \A p \in 1..(3 - 1) : p = 1 \/ p = 2 OBVIOUS
      <3> QED BY <3>2, <3>3, <1>12, <1>7
    <2>2. LineEnd = 3 BY <2>1, <1>7, <1>8, <1>12, LineEndAt
    <2>3. LineSize = z BY <1>7, <1>10, <1>12
    <2>4. /\ TypeOK' /\ BodyIsPrefix' /\ CallInv' /\ Holds(r, s + 3)'
          /\ pc' = IF z = 0 THEN "last_line" ELSE "chunk"
          /\ chunk_size' = z /\ body' = body /\ cut' = cut
          /\ response' = r /\ dropped' = dropped
      <3>1. PICK k \in Nat : k = 3 OBVIOUS
      <3>2. k = LineEnd /\ k <= Len(buffer) BY <3>1, <2>2, <1>12
      <3> QED BY <3>1, <3>2, <2>3, <1>1, <1>5, <1>6, LineTaken
    <2>5. CASE z = 0
      <3>1. ChunkEnd(r, i - 1) = Len(r.body)
        <4>1. i - 1 = N(r) BY <2>5, <1>5
        <4> QED BY <4>1, <1>2, ChunkFacts
      <3> QED BY <2>4, <2>5, <3>1, <1>1, <1>2, <1>3, <1>11, LineEndsBody
    <2>6. CASE z # 0
      <3>1. i \in 1..N(r) BY <2>6, <1>11
      <3>2. Holds(r, HeadSize(r) + ChunkStart(r, i) + 3)' BY <2>4 DEF s, Start
      <3>3. ChunkInv' BY <2>4, <3>1, <3>2, <1>2, <1>3, <1>4 DEF ChunkInv
      <3>4. pc' = "chunk" BY <2>4, <2>6
      <3> QED BY <2>4, <3>3, <3>4 DEF IInv, HeadInv, PlainInv, SizeLineInv, EndInv, WholeInv
    <2> QED BY <2>5, <2>6
  <1>13. CASE Len(buffer) < 3
    <2>1. ~HasLineEnd
      <3> SUFFICES ASSUME HasLineEnd PROVE FALSE OBVIOUS
      <3>1. PICK p \in 1..(Len(buffer) - 1) : buffer[p] = "CR" /\ buffer[p + 1] = "LF"
        BY DEF HasLineEnd
      <3>2. p = 1 /\ Len(buffer) >= 1 BY <1>7, <1>13
      <3> QED BY <3>1, <3>2, <1>8, <1>9
    <2>2. rest = <<>> BY <2>1, <1>2 DEF IInv, CallInv
    <2>3. dropped
      <3> SUFFICES ASSUME ~dropped PROVE FALSE OBVIOUS
      <3>1. s + Len(buffer) = Len(w) BY <2>2, <1>7
      <3> QED BY <3>1, <1>5, <1>7, <1>13
    <2>4. \A p \in 1..Len(buffer) : buffer[p] # "LF"
      <3> SUFFICES ASSUME NEW p \in 1..Len(buffer) PROVE buffer[p] # "LF" OBVIOUS
      <3>1. (p = 1 /\ Len(buffer) >= 1) \/ (p = 2 /\ Len(buffer) >= 2) BY <1>7, <1>13
      <3> QED BY <3>1, <1>8, <1>9
    <2>5. LineEnd = Len(buffer) BY <2>4, <1>7, NoLineEnd
    <2>6. PICK q \in 0..Len(Digits) : q = LineSize /\ (q # 0 => q = z)
      <3>1. Len(buffer) = 0 \/ Len(buffer) >= 1 BY <1>7
      <3>2. Len(buffer) = 0 => LineSize = 0 BY <1>7, LineSizeFacts
      <3>3. 0 \in 0..Len(Digits) BY DigitsAssumption
      <3> QED BY <3>1, <3>2, <3>3, <1>10
    <2>7. /\ TypeOK' /\ BodyIsPrefix' /\ CallInv' /\ buffer' = <<>>
          /\ pc' = IF q = 0 THEN "last_line" ELSE "chunk"
          /\ chunk_size' = q /\ body' = body /\ cut' = cut
          /\ response' = r /\ dropped' = dropped /\ rest' = rest
      <3>1. PICK k \in Nat : k = Len(buffer) BY <1>7
      <3>2. k = LineEnd /\ k <= Len(buffer) BY <3>1, <2>5
      <3> QED BY <3>1, <3>2, <2>6, <1>1, <1>5, <1>6, LineTaken
    <2>8. CASE q = 0
      BY <2>3, <2>7, <2>8, <1>1, <1>2, <1>3, <1>11, LineEndsBody
    <2>9. CASE q # 0
      <3>1. pc' = "chunk" BY <2>7, <2>9
      <3>2. chunk_size' > 0
        <4>1. q \in Nat BY DigitsAssumption
        <4> QED BY <4>1, <2>7, <2>9
      <3>3. ChunkInv' BY <2>2, <2>3, <2>7, <3>1, <3>2, <1>2 DEF ChunkInv
      <3> QED BY <2>7, <3>1, <3>3 DEF IInv, HeadInv, PlainInv, SizeLineInv, EndInv, WholeInv
    <2> QED BY <2>8, <2>9
  <1> QED BY <1>7, <1>12, <1>13

\* A size line, after a chunk or after part of one.
LEMMA ReadSizeLineInv ==
    ASSUME IInv, ReadSizeLine
    PROVE  IInv'
  <1>1. cut \in BOOLEAN BY DEF IInv, TypeOK
  <1> QED BY <1>1, LineOfCut, LineOfChunk

\* The last line adds nothing to the body.
LEMMA ReadLastLineInv ==
    ASSUME IInv, ReadLastLine
    PROVE  IInv'
  <1>1. pc = "last_line" /\ Calls("handle") /\ UNCHANGED <<netvars, endpoint, buffer, bodyvars>>
    BY DEF ReadLastLine, Returns
  <1>2. /\ TypeOK' /\ BodyIsPrefix' /\ CallInv'
        /\ response' = response /\ dropped' = dropped /\ pc' = "handle"
        /\ body' = body /\ cut' = cut
    BY <1>1, MovesOnly DEF PCs
  <1>3. EndInv' BY <1>1, <1>2 DEF IInv, EndInv
  <1>4. response.form = "chunked" BY <1>1 DEF IInv, EndInv
  <1> QED BY <1>2, <1>3, <1>4 DEF IInv, HeadInv, PlainInv, SizeLineInv, ChunkInv, WholeInv

\* _get_token() takes the body as it is.
LEMMA HandleResponseInv ==
    ASSUME IInv, HandleResponse
    PROVE  IInv'
  <1> DEFINE next == IF response.status = 200 THEN "token" ELSE "exit"
  <1>1. pc = "handle" /\ Calls(next) /\ UNCHANGED <<netvars, endpoint, buffer, bodyvars>>
    BY DEF HandleResponse
  <1>2. next \in {"token", "exit"} /\ next \in PCs BY DEF PCs, Outcomes
  <1> HIDE DEF next
  <1>3. /\ TypeOK' /\ BodyIsPrefix' /\ CallInv'
        /\ response' = response /\ dropped' = dropped /\ pc' = next
        /\ body' = body /\ cut' = cut
    BY <1>1, <1>2, MovesOnly
  <1>4. EndInv' BY <1>1, <1>2, <1>3 DEF IInv, EndInv
  <1>5. WholeInv' BY <1>1, <1>2, <1>3 DEF IInv, WholeInv
  <1> QED BY <1>2, <1>3, <1>4, <1>5 DEF IInv, HeadInv, PlainInv, SizeLineInv, ChunkInv

\* What consume(2) leaves of the buffer after m bytes of it have been taken.
LEMMA WithoutLineEnd ==
    ASSUME NEW S, NEW s \in Seq(S), NEW m \in Nat, m <= Len(s),
           NEW after, after = SubSeq(s, m + 1, Len(s))
    PROVE  /\ Len(after) = Len(s) - m
           /\ Len(s) - m >= 2 => SubSeq(after, 3, Len(after)) = SubSeq(s, (m + 2) + 1, Len(s))
           /\ Len(s) - m < 2 => SubSeq(after, 3, Len(after)) = <<>>
  <1> DEFINE L == Len(s)
  <1>1. L \in Nat /\ L <= Len(s) /\ m <= L OBVIOUS
  <1>2. after = SubSeq(s, m + 1, L) OBVIOUS
  <1> HIDE DEF L
  <1>3. after \in Seq(S) /\ Len(after) = L - m BY <1>1, <1>2, PartFacts
  <1>4. ASSUME L - m >= 2
        PROVE SubSeq(after, 3, Len(after)) = SubSeq(s, (m + 2) + 1, L)
    <2>1. 2 \in 0..(L - m) BY <1>1, <1>4
    <2>2. SubSeq(SubSeq(s, m + 1, L), 2 + 1, L - m) = SubSeq(s, m + 2 + 1, L)
      BY <2>1, <1>1, PartOfPart
    <2>3. 2 + 1 = 3 OBVIOUS
    <2> QED BY ONLY <2>2, <2>3, <1>2, <1>3, Zenon
  <1>5. ASSUME L - m < 2 PROVE SubSeq(after, 3, Len(after)) = <<>>
    <2>1. Len(after) < 3 BY <1>1, <1>3, <1>5
    <2>2. Len(after) \in Nat BY <1>3
    <2> QED BY <1>3, <2>1, <2>2
  <1> QED BY <1>3, <1>4, <1>5 DEF L

\* What a step takes of a chunk.
LEMMA ChunkTaken ==
    ASSUME IInv, ReadChunk, NEW r \in Responses, r = response,
           NEW a \in Nat, Holds(r, a)
    PROVE  \E m \in Nat :
               /\ m <= Len(buffer) /\ m <= chunk_size /\ chunk_size \in Nat
               /\ m = chunk_size \/ (m = Len(buffer) /\ m < chunk_size)
               /\ body' = body \o SubSeq(buffer, 1, m)
               /\ chunk_size' = chunk_size - m /\ chunk_size' \in 0..Len(Digits)
               /\ cut' = (cut \/ Len(buffer) - m < 2) /\ cut' \in BOOLEAN
               /\ Len(buffer) - m >= 2 => buffer' = SubSeq(buffer, (m + 2) + 1, Len(buffer))
               /\ Len(buffer) - m < 2 => buffer' = <<>>
  <1>1. chunk_size \in 0..Len(Digits) /\ Len(Digits) \in Nat /\ cut \in BOOLEAN
        /\ Len(buffer) \in Nat
    BY NowBody, NowHolds, DigitsAssumption
  <1>2. PICK m \in Nat : /\ m = Taken /\ m <= Len(buffer) /\ m <= chunk_size
                         /\ m = chunk_size \/ (m = Len(buffer) /\ m < chunk_size)
    <2>1. CASE chunk_size <= Len(buffer) BY <2>1, <1>1 DEF Taken
    <2>2. CASE ~(chunk_size <= Len(buffer)) BY <2>2, <1>1 DEF Taken
    <2> QED BY <2>1, <2>2
  <1>3. buffer \in Seq(Elements(Wire(r)))
    <2> DEFINE w == Wire(r)
               S == Elements(w)
               b == a + Len(buffer)
    <2>1. w \in Seq(S) BY WireFacts
    <2>2. b \in Nat /\ a <= b /\ b <= Len(w) /\ buffer = SubSeq(w, a + 1, b)
      <3>1. /\ a + Len(buffer) + Len(rest) <= Len(w) /\ Len(rest) \in Nat /\ Len(w) \in Nat
            /\ buffer = SubSeq(w, a + 1, b)
        BY HoldsFacts
      <3> QED BY <3>1, <1>1
    <2> HIDE DEF w, S, b
    <2>3. buffer \in Seq(S) BY <2>1, <2>2, PartFacts
    <2> QED BY <2>3 DEF S, w
  <1>4. PICK after : after = SubSeq(buffer, m + 1, Len(buffer)) OBVIOUS
  <1>5. /\ body' = body \o SubSeq(buffer, 1, m) /\ chunk_size' = chunk_size - m
        /\ buffer' = SubSeq(after, 3, Len(after))
        /\ cut' = (cut \/ Len(after) < 2)
    BY <1>2, <1>4 DEF ReadChunk
  <1>6. /\ Len(after) = Len(buffer) - m
        /\ Len(buffer) - m >= 2 =>
               SubSeq(after, 3, Len(after)) = SubSeq(buffer, (m + 2) + 1, Len(buffer))
        /\ Len(buffer) - m < 2 => SubSeq(after, 3, Len(after)) = <<>>
    BY <1>2, <1>3, <1>4, WithoutLineEnd
  <1>7. /\ Len(buffer) - m >= 2 => buffer' = SubSeq(buffer, (m + 2) + 1, Len(buffer))
        /\ Len(buffer) - m < 2 => buffer' = <<>>
        /\ cut' = (cut \/ Len(buffer) - m < 2)
    BY ONLY <1>5, <1>6, Zenon
  <1>8. chunk_size' \in 0..Len(Digits) /\ chunk_size \in Nat BY <1>1, <1>2, <1>5
  <1>9. cut' \in BOOLEAN BY <1>1, <1>7
  <1> QED BY <1>2, <1>5, <1>7, <1>8, <1>9

\* The bytes of a chunk: all of them, and then the next size line follows, with
\* or without the line end of this one; or all that came before the
\* connection was lost, and then there is nothing more to read.
LEMMA ReadChunkInv ==
    ASSUME IInv, ReadChunk
    PROVE  IInv'
  <1>1. PICK r \in Responses : r = response BY NowHolds
  <1>2. /\ pc = "chunk" /\ (got >= chunk_size \/ error # "none")
        /\ UNCHANGED <<netvars, endpoint, length>>
        /\ response' = r /\ rest' = rest /\ dropped' = dropped /\ length' = length
        /\ r.form = "chunked"
    BY <1>1 DEF ReadChunk, Returns, Enough, netvars, IInv, ChunkInv
  <1>3. PICK next \in PCs :
            /\ next = IF chunk_size' = 0 THEN "size_line"
                      ELSE IF got = 0 THEN "thrown" ELSE "chunk"
            /\ Calls(next)
    BY DEF ReadChunk, PCs, Outcomes
  <1>4. pc' = next BY <1>3 DEF Calls
  <1>5. length' \in 0..(SizeT - 1) BY <1>2, NowBody
  <1>6. PICK n \in 0..Len(r.body) : /\ body = SubSeq(r.body, 1, n) /\ n = Len(body)
                                    /\ Len(r.body) \in Nat
    BY <1>1, NowBody
  <1>7. got \in Nat /\ got <= Len(buffer) /\ Len(buffer) \in Nat BY NowHolds
  <1>8. CASE dropped /\ rest = <<>> /\ buffer = <<>> /\ chunk_size > 0
    <2>1. PICK a \in Nat : Holds(r, a) BY <1>1, NowHolds
    <2>2. PICK m \in Nat :
               /\ m <= Len(buffer) /\ m <= chunk_size /\ chunk_size \in Nat
               /\ body' = body \o SubSeq(buffer, 1, m)
               /\ chunk_size' = chunk_size - m /\ chunk_size' \in 0..Len(Digits)
               /\ cut' \in BOOLEAN
               /\ Len(buffer) - m < 2 => buffer' = <<>>
      BY <2>1, <1>1, ChunkTaken
    <2>3. Len(buffer) = 0 /\ m = 0 /\ got = 0
      <3>1. Len(buffer) = 0 BY <1>8
      <3> QED BY <3>1, <2>2, <1>7
    <2>4. buffer' = <<>> /\ chunk_size' # 0 BY <2>2, <2>3, <1>8
    <2>5. body' = body
      <3>1. body \in Seq(Octets) BY DEF IInv, TypeOK
      <3>2. SubSeq(buffer, 1, 0) = <<>> BY <1>8
      <3>3. body' = body \o <<>> BY <3>2, <2>2, <2>3
      <3> QED BY <3>1, <3>3
    <2>6. PICK b \in Nat : b = a + Len(buffer) BY <1>7
    <2>7. Holds(r, b)' /\ b \in 0..Len(Wire(r)) BY <2>1, <2>4, <2>6, <1>2, HoldsEmptied
    <2>8. next = "thrown" BY <2>3, <2>4, <1>3
    <2>9. TypeOK' /\ BodyIsPrefix' /\ CallInv'
      BY <2>2, <2>5, <2>7, <1>1, <1>2, <1>3, <1>5, <1>6, Moves
    <2> QED BY <2>8, <2>9, <1>4
         DEF IInv, HeadInv, PlainInv, SizeLineInv, ChunkInv, EndInv, WholeInv
  <1>9. CASE \E i \in 1..N(r) :
                 /\ ~cut /\ Len(body) = ChunkEnd(r, i - 1)
                 /\ chunk_size = ChunkSize(r, i)
                 /\ Holds(r, Start(r, i) + 3)
    <2>1. PICK i \in 1..N(r) :
                 /\ ~cut /\ Len(body) = ChunkEnd(r, i - 1)
                 /\ chunk_size = ChunkSize(r, i)
                 /\ Holds(r, Start(r, i) + 3)
      BY <1>9
    <2>2. N(r) \in Nat /\ i \in 1..(N(r) + 1) /\ i + 1 \in 1..(N(r) + 1) /\ i + 1 > 1
          /\ (i + 1) - 1 = i
      <3>1. N(r) \in Nat BY <1>2, ChunkFacts
      <3> QED BY <3>1
    <2>3. PICK z \in 0..Len(Digits), e \in Nat :
              z = ChunkSize(r, i) /\ e = ChunkEnd(r, i - 1) /\ ChunkLaidOut(r, i, z, e)
      BY <1>2, <2>2, ChunkOnWire
    <2>4. PICK a \in Nat : a = Start(r, i) + 3 BY <2>3 DEF ChunkLaidOut
    <2> DEFINE w == Wire(r)
               s == Start(r, i)
    <2>5. /\ s \in Nat /\ z \in Nat /\ s + z + 5 <= Len(w) /\ Start(r, i + 1) = s + z + 5
          /\ ChunkEnd(r, i) = e + z /\ e + z <= Len(r.body) /\ Len(w) \in Nat
          /\ \A j \in 1..z : w[s + 3 + j] = r.body[e + j]
          /\ e = n /\ chunk_size = z /\ a = s + 3 /\ ~cut
      BY <2>1, <2>3, <2>4, <1>6 DEF ChunkLaidOut
    <2>6. Holds(r, a) BY <2>1, <2>4
    <2> HIDE DEF w, s
    <2>7. PICK m \in Nat :
               /\ m <= Len(buffer) /\ m <= z
               /\ m = z \/ (m = Len(buffer) /\ m < z)
               /\ body' = body \o SubSeq(buffer, 1, m)
               /\ chunk_size' = z - m /\ chunk_size' \in 0..Len(Digits)
               /\ cut' = (cut \/ Len(buffer) - m < 2) /\ cut' \in BOOLEAN
               /\ Len(buffer) - m >= 2 => buffer' = SubSeq(buffer, (m + 2) + 1, Len(buffer))
               /\ Len(buffer) - m < 2 => buffer' = <<>>
      BY <2>5, <2>6, <1>1, ChunkTaken
    <2>8. PICK p \in 0..Len(r.body) : p = n + m /\ body' = SubSeq(r.body, 1, p)
      <3>1. n \in Nat /\ n + m <= Len(r.body) /\ n + m \in 0..Len(r.body) BY <2>5, <2>7, <1>6, SMTT(30)
      <3>2. \A j \in 1..m : w[a + j] = r.body[n + j]
        <4> SUFFICES ASSUME NEW j \in 1..m PROVE w[a + j] = r.body[n + j] OBVIOUS
        <4>1. j \in 1..z BY <2>5, <2>7
        <4>2. a + j = s + 3 + j /\ n + j = e + j BY <2>5
        <4>3. w[s + 3 + j] = r.body[e + j] BY <4>1, <2>5
        <4> QED BY ONLY <4>2, <4>3, Zenon
      <3>3. body \o SubSeq(buffer, 1, m) = SubSeq(r.body, 1, n + m)
        BY <3>1, <3>2, <2>6, <2>7, <1>6, BodyGrows, ZenonT(60) DEF w
      <3> QED BY <3>1, <3>3, <2>7
    <2>9. ASSUME NEW c \in 0..Len(w), Holds(r, c)'
          PROVE  TypeOK' /\ BodyIsPrefix' /\ CallInv' /\ Len(body') = p
      BY <2>7, <2>8, <2>9, <1>1, <1>2, <1>3, <1>5, Moves DEF w
    <2>10. PICK b \in Nat : b = a + Len(buffer) BY <1>7
    <2>11. ASSUME buffer' = <<>> PROVE Holds(r, b)' /\ b \in 0..Len(w)
      BY <2>6, <2>10, <2>11, <1>2, HoldsEmptied DEF w
    <2>12. CASE m = z
      <3>0. /\ m \in Nat /\ s \in Nat /\ a = s + 3 /\ Start(r, i + 1) = s + m + 5
            /\ Len(buffer) \in Nat
        BY <2>5, <2>12, <1>7
      <3>1. chunk_size' = 0 /\ next = "size_line" /\ p = ChunkEnd(r, i)
        <4>1. chunk_size' = 0 BY <2>5, <2>7, <2>12
        <4> QED BY <4>1, <2>5, <2>8, <2>12, <1>3
      <3>2. SUFFICES ASSUME NEW c \in 0..Len(w), Holds(r, c)',
                            IF cut' THEN c = Start(r, i + 1) - 1 \/ c = Start(r, i + 1) - 2
                            ELSE c = Start(r, i + 1)
                     PROVE  IInv'
        <4>1. CASE Len(buffer) - m >= 2
          <5>1. PICK k \in Nat : k = m + 2 OBVIOUS
          <5>2. k <= Len(buffer) /\ buffer' = SubSeq(buffer, k + 1, Len(buffer))
            BY <5>1, <4>1, <2>7, <1>7
          <5>3. Holds(r, a + k)' /\ a + k \in 0..Len(w)
            BY <5>2, <2>6, <1>2, HoldsConsumed DEF w
          <5>4. a + k = Start(r, i + 1) BY ONLY <5>1, <3>0
          <5>5. ~cut'
            <6>1. ~(Len(buffer) - m < 2) BY ONLY <4>1, <3>0
            <6>2. ~cut BY <2>5
            <6>3. cut' = (cut \/ Len(buffer) - m < 2) BY <2>7
            <6> QED BY ONLY <6>1, <6>2, <6>3, Zenon
          <5> QED BY <5>3, <5>4, <5>5, <3>2
        <4>2. CASE Len(buffer) - m < 2
          <5>1. Holds(r, b)' /\ b \in 0..Len(w) BY <4>2, <2>7, <2>11
          <5>2. cut' BY <4>2, <2>7
          <5>3. b = Start(r, i + 1) - 1 \/ b = Start(r, i + 1) - 2
            <6>1. Len(buffer) = m \/ Len(buffer) = m + 1 BY <4>2, <2>7, <1>7
            <6> QED BY ONLY <6>1, <2>10, <3>0, SMTT(30)
          <5> QED BY <5>1, <5>2, <5>3, <3>2
        <4> QED BY <4>1, <4>2, <2>7, <1>7
      <3>3. TypeOK' /\ BodyIsPrefix' /\ CallInv' /\ Len(body') = p BY <3>2, <2>9
      <3>4. SizeLineInv'
        <4>1. Len(body') = ChunkEnd(r, (i + 1) - 1) BY <3>1, <3>3, <2>2
        <4>2. IF cut' THEN \/ Holds(r, Start(r, i + 1) - 1)'
                           \/ Holds(r, Start(r, i + 1) - 2)'
              ELSE Holds(r, Start(r, i + 1))'
          BY <3>2
        <4> QED BY <4>1, <4>2, <2>2, <1>2 DEF SizeLineInv, Start
      <3> QED BY <3>1, <3>3, <3>4, <1>4 DEF IInv, HeadInv, PlainInv, ChunkInv, EndInv, WholeInv
    <2>13. CASE m = Len(buffer) /\ m < z
      <3>1. Len(buffer) - m < 2 BY <2>13, <1>7
      <3>2. buffer' = <<>> BY <3>1, <2>7
      <3>3. TypeOK' /\ BodyIsPrefix' /\ CallInv' BY <3>2, <2>9, <2>11
      <3>4. rest = <<>>
        <4>1. ~(got >= chunk_size) BY <2>5, <2>13, <1>7
        <4> QED BY <4>1, <1>2 DEF IInv, CallInv
      <3>5. dropped
        <4> SUFFICES ASSUME ~dropped PROVE FALSE OBVIOUS
        <4>1. a + Len(buffer) = Len(w) BY <3>4, <2>6, HoldsFacts DEF w
        <4> QED BY <4>1, <2>5, <2>13, <1>7
      <3>6. chunk_size' > 0 BY <2>5, <2>7, <2>13
      <3>7. next # "size_line" /\ next \in {"thrown", "chunk"}
        <4>1. chunk_size' # 0 BY <3>6
        <4> QED BY <4>1, <1>3
      <3>8. ChunkInv' BY <3>2, <3>4, <3>5, <3>6, <1>2 DEF ChunkInv
      <3> QED BY <3>3, <3>7, <3>8, <1>4
           DEF IInv, HeadInv, PlainInv, SizeLineInv, EndInv, WholeInv
    <2> QED BY <2>7, <2>12, <2>13
  <1> QED BY <1>1, <1>2, <1>8, <1>9 DEF IInv, ChunkInv, Start

-----------------------------------------------------------------------------
(* The theorems.                                                           *)

\* At the beginning the whole response is still to come.
LEMMA InitInv == Init => IInv
  <1> SUFFICES ASSUME Init PROVE IInv OBVIOUS
  <1>1. PICK r \in Responses : r = response BY DEF Init
  <1>2. /\ pc = "connect" /\ endpoint = 1 /\ rest = Wire(r) /\ dropped = FALSE
        /\ buffer = <<>> /\ got = 0 /\ error = "none"
        /\ length = 0 /\ chunk_size = 0 /\ body = <<>> /\ cut = FALSE
    BY <1>1 DEF Init
  <1> DEFINE w == Wire(r)
             S == Elements(w)
  <1>3. w \in Seq(S) /\ Len(w) \in Nat BY WireFacts
  <1>4. r.body \in Seq(Octets) /\ Len(r.body) \in Nat BY ResponseFacts DEF ResponseOK
  <1>5. Len(Digits) \in Nat BY DigitsAssumption
  <1>6. 0 \in 0..Len(w) /\ rest = SubSeq(w, 0 + 1, Len(w)) /\ buffer = SubSeq(w, 0 + 1, 0)
    <2> HIDE DEF S
    <2>1. 0 \in 0..Len(w) BY <1>3
    <2>2. SubSeq(w, 1, Len(w)) = w BY <1>3
    <2>3. SubSeq(w, 1, 0) = <<>> BY <1>3
    <2>4. 0 + 1 = 1 OBVIOUS
    <2> QED BY ONLY <2>1, <2>2, <2>3, <2>4, <1>2, Zenon
  <1>7. Holds(r, 0) BY <1>2, <1>6 DEF Holds
  <1>8. TypeOK
    <2>1. \E k \in 0..Len(w) : rest = SubSeq(w, k + 1, Len(w)) BY <1>6
    <2>2. body \in Seq(Octets) BY <1>2
    <2>3. endpoint \in 1..(Endpoints + 1) /\ 0 \in 0..(SizeT - 1) /\ 0 \in 0..Len(Digits)
          /\ 0 \in 0..Len(w)
      BY <1>2, <1>3, <1>5, EndpointsAssumption
    <2> HIDE DEF S
    <2> QED BY <2>1, <2>2, <2>3, <1>1, <1>2 DEF TypeOK
  <1>9. BodyIsPrefix
    <2>1. SubSeq(r.body, 1, 0) = <<>> /\ Len(<<>>) = 0 BY <1>4
    <2> QED BY <2>1, <1>1, <1>2, <1>4 DEF BodyIsPrefix
  <1>10. CallInv
    <2>1. 0 <= Len(buffer) BY <1>2
    <2> QED BY <2>1, <1>1, <1>2, <1>6, <1>7 DEF CallInv
  <1>11. HeadInv BY <1>1, <1>2, <1>7 DEF HeadInv
  <1> QED BY <1>2, <1>8, <1>9, <1>10, <1>11
       DEF IInv, PlainInv, SizeLineInv, ChunkInv, EndInv, WholeInv

\* Nothing changes.
LEMMA StutterInv == IInv /\ UNCHANGED vars => IInv'
  <1> SUFFICES ASSUME IInv, UNCHANGED vars PROVE IInv' OBVIOUS
  <1>1. /\ response' = response /\ rest' = rest /\ dropped' = dropped /\ pc' = pc
        /\ endpoint' = endpoint /\ buffer' = buffer /\ got' = got /\ error' = error
        /\ length' = length /\ chunk_size' = chunk_size /\ body' = body /\ cut' = cut
    BY DEF vars, netvars, callvars, bodyvars
  <1>2. \A r \in Responses : \A a \in Nat : Holds(r, a) => Holds(r, a)' BY <1>1, HoldsKept
  <1>3. /\ got \in 0..Len(Wire(response)) /\ got <= Len(buffer)
        /\ error \in {"none", "eof", "reset"} /\ (error # "none" => rest = <<>>)
        /\ dropped \in BOOLEAN
        /\ \E k \in 0..Len(Wire(response)) :
               rest = SubSeq(Wire(response), k + 1, Len(Wire(response)))
    BY DEF IInv, TypeOK, CallInv
  <1>4. NetEffect BY <1>1, <1>2, <1>3 DEF NetEffect, bodyvars
  <1> QED BY <1>4, NetworkInv

\* Every step keeps the invariant.
LEMMA StepInv == IInv /\ [Next]_vars => IInv'
  <1> SUFFICES ASSUME IInv, [Next]_vars PROVE IInv' OBVIOUS
  <1>1. CASE Connect BY <1>1, ConnectInv
  <1>2. CASE Write BY <1>2, WriteInv
  <1>3. CASE ReadStatus BY <1>3, ReadStatusInv
  <1>4. CASE ConnectFails \/ HeadFails \/ ReadHeadersAborts \/ ReadHeadersThrows
             \/ ReadLineFails \/ ReadChunkFails
    BY <1>4, HeadStopsInv
  <1>5. CASE ReadHeadersUntilClose BY <1>5, ReadHeadersUntilCloseInv
  <1>6. CASE ReadHeadersLength BY <1>6, ReadHeadersLengthInv
  <1>7. CASE ReadHeadersChunked BY <1>7, ReadHeadersChunkedInv
  <1>8. CASE ReadNormal BY <1>8, ReadNormalInv
  <1>9. CASE ReadLength BY <1>9, ReadLengthInv
  <1>10. CASE ReadSizeLine BY <1>10, ReadSizeLineInv
  <1>11. CASE ReadLastLine BY <1>11, ReadLastLineInv
  <1>12. CASE ReadChunk BY <1>12, ReadChunkInv
  <1>13. CASE HandleResponse BY <1>13, HandleResponseInv
  <1>14. CASE Delivers \/ Drop \/ ReadFails BY <1>14, NetworkSteps, NetworkInv
  <1>15. CASE Ended \/ UNCHANGED vars BY <1>15, StutterInv DEF Ended
  <1> QED BY <1>1, <1>2, <1>3, <1>4, <1>5, <1>6, <1>7, <1>8, <1>9, <1>10, <1>11, <1>12,
             <1>13, <1>14, <1>15 DEF Next, Thread

\* TokenFetch's inductive invariant: each call of the thread finds the buffer
\* at its place in the response, whatever the pieces it came in.
THEOREM InductiveInvariant == FairSpec => []IInv
  BY InitInv, StepInv, PTL DEF FairSpec

\* The variables have their types, and of the response nothing but bytes of the
\* body gets into the body, in their order, however it is cut into pieces and
\* wherever the connection breaks.
THEOREM BodyIsTheServers == FairSpec => []FetchInv
  <1>1. IInv => FetchInv BY DEF IInv, FetchInv
  <1> QED BY <1>1, InductiveInvariant, PTL

\* A token that is accepted comes from the whole body, unless the connection
\* broke, a chunk was read without the line end after it, or the server gave
\* a length that is too small.
THEOREM TokenIsWhole == FairSpec => []TokenFromWholeBody
  <1>1. ASSUME IInv PROVE TokenFromWholeBody
    <2> SUFFICES ASSUME pc = "token", ~dropped, ~cut,
                        response.form = "length" => response.length >= Len(response.body)
                 PROVE  body = response.body
      BY DEF TokenFromWholeBody
    <2>1. PICK r \in Responses : r = response BY <1>1, NowHolds
    <2>2. r.body \in Seq(Octets) /\ Len(r.body) \in Nat /\ body = SubSeq(r.body, 1, Len(body))
      BY <1>1, <2>1, NowBody
    <2>3. r.length \in Nat
      BY ResponseFacts, EndpointsAssumption DEF ResponseOK
    <2>4. Len(body) = Len(r.body)
      <3>1. CASE r.form = "chunked" BY <3>1, <1>1, <2>1 DEF IInv, EndInv
      <3>2. CASE r.form # "chunked"
        <4>1. \/ Len(body) = Len(r.body)
              \/ r.form = "length" /\ r.length < Len(r.body)
          BY <3>2, <1>1, <2>1 DEF IInv, WholeInv
        <4>2. r.form = "length" => ~(r.length < Len(r.body)) BY <2>1, <2>2, <2>3
        <4> QED BY <4>1, <4>2
      <3> QED BY <3>1, <3>2
    <2>5. SubSeq(r.body, 1, Len(r.body)) = r.body
      <3> DEFINE t == r.body
      <3>1. t \in Seq(Octets) BY <2>2
      <3> HIDE DEF t
      <3>2. SubSeq(t, 1, Len(t)) = t BY <3>1
      <3> QED BY <3>2 DEF t
    <2> QED BY ONLY <2>1, <2>2, <2>4, <2>5, Zenon
  <1> QED BY <1>1, InductiveInvariant, PTL

\* What is accepted of a chunked body is made of whole chunks.
THEOREM ChunksAreWhole == FairSpec => []WholeChunks
  <1>1. ASSUME IInv PROVE WholeChunks
    BY <1>1 DEF IInv, EndInv, WholeChunks, N
  <1> QED BY <1>1, InductiveInvariant, PTL

=============================================================================
