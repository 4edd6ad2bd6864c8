-------------------------- MODULE JsonReader_proofs ---------------------------
(***************************************************************************)
(* Proofs about JsonReader: for every document, of any length and depth,   *)
(* what Reader::parse() accepts is JSON up to its liberties, all JSON is   *)
(* accepted, and ActionSequence gets the items of the file.  The last part *)
(* is about JsonText: all numbers and all escapes are converted right.     *)
(*                                                                         *)
(* The reader has seen only the beginning of its document, so the          *)
(* invariant speaks of all the documents that the tokens read so far can   *)
(* become: in each of them, the value that a call on the stack reads ends  *)
(* where the grammar finds the end of what the call still expects.  A call *)
(* that returns, with or without success, hands that over to its caller.   *)
(***************************************************************************)
EXTENDS MCJsonReader, Utf8Validator_proofs, WellFoundedInduction, TLAPS

-----------------------------------------------------------------------------
(* The documents that the tokens read so far can become.                   *)

Documents == Seq(Tokens)

\* Where the next token stands, comments apart.
Place == Len(Stripped) + 1

\* They go on from there as they like, unless the end has been read.
Futures ==
    {d \in Documents :
        /\ Len(Stripped) <= Len(d) /\ (atEnd => Len(d) = Len(Stripped))
        /\ \A i \in 1..Len(Stripped) : d[i] = Stripped[i]}

\* A value ends where the reader has it end, 0 if it is none: it reads a value
\* that the grammar does not have only where it can take a liberty, and refuses
\* one that the grammar has only where a comment is misplaced.
Agrees(end, place) ==
    /\ place # 0 => end = place \/ Liberal
    /\ end # 0 => end = place \/ CommentMisplaced

-----------------------------------------------------------------------------
(* Where the value of a call ends, by what the call expects next.          *)

ItemsEnd(d, i)   == Grammar(d)[i].items
MembersEnd(d, i) == Grammar(d)[i].members

\* Behind an item or a member that ends at e.
Behind(d, kind, e) ==
    IF kind = "array" THEN Closed(d, e, "]", ItemsEnd(d, e + 1))
                      ELSE Closed(d, e, "}", MembersEnd(d, e + 1))

\* Where an item is looked for: an array may be closed behind its bracket.
FirstItem(d, p) ==
    IF At(d, p) = "]" /\ At(d, p - 1) = "[" THEN p + 1
    ELSE Behind(d, "array", ValueEnd(d, p))

\* Where a name is looked for: an object may be closed behind its bracket.
NextName(d, p, unnamed) ==
    IF At(d, p) = "}" /\ At(d, p - 1) = "{" /\ unnamed THEN p + 1 ELSE MembersEnd(d, p)

\* Behind a name.
Colon(d, p) ==
    IF At(d, p) = ":" THEN Behind(d, "object", ValueEnd(d, p + 1)) ELSE 0

\* The value of call f, which goes on at p in document d, ends at `end'; that
\* of a call that recovers from an error is none.
Continues(d, p, f, end) ==
    /\ f.kind = "array" /\ f.expects \in {"first", "value"} => Agrees(end, FirstItem(d, p))
    /\ f.kind = "object" /\ f.expects = "value" =>
           Agrees(end, Behind(d, "object", ValueEnd(d, p)))
    /\ f.expects \in {"separator", "any_separator"} => Agrees(end, Behind(d, f.kind, p))
    /\ f.expects = "name" => Agrees(end, NextName(d, p, f.unnamed))
    /\ f.expects = "colon" => Agrees(end, Colon(d, p))
    /\ f.expects = "recovery" /\ At(d, p) # ":" => Agrees(end, 0)

\* The root value has been read; parse() may have read one more token.
RootPlaces == IF result = "none" THEN {Place} ELSE {Place, Place - 1} \ {0}

\* Once it has, it ends here, or is none.
RootEnds ==
    Len(stack) = 1 /\ Top.expects = "trailer" =>
        \A d \in Futures : \E p \in RootPlaces :
            Agrees(ValueEnd(d, 1), IF root.ok THEN p ELSE 0)

\* Where the value begins that each call reads: the second call's is the root.
Beginnings(at) == at \in [Nat -> Nat] /\ at[2] = 1

\* The value of a call that waits ends behind that of the call it waits for,
CallersEnd(at) ==
    \A k \in 2..(Len(stack) - 1), d \in Futures :
        Agrees(ValueEnd(d, at[k]), Behind(d, stack[k].kind, ValueEnd(d, at[k + 1])))

\* and that of the innermost call where the call will find it.
TopEnds(at) ==
    Len(stack) > 1 =>
        \A d \in Futures : Continues(d, Place, Top, ValueEnd(d, at[Len(stack)]))

-----------------------------------------------------------------------------
(* The calls under way.                                                    *)

ArrayExpects == {"first", "value", "separator", "recovery"}
ObjectExpects == {"name", "colon", "value", "separator", "any_separator", "recovery"}
Frames == [kind : {"root"}, expects : {"value", "trailer"}, unnamed : BOOLEAN]
     \cup [kind : {"array"}, expects : ArrayExpects, unnamed : BOOLEAN]
     \cup [kind : {"object"}, expects : ObjectExpects, unnamed : BOOLEAN]

Kinds == {"text", "number", "literal", "object", "array", "null"}

\* The types, and what the stack looks like: the root first, every caller
\* waiting for a value, and nothing under way when parse() has returned.
Shape ==
    /\ doc \in Seq(Tokens) /\ atEnd \in BOOLEAN
    /\ result \in {"none", "success", "failure"}
    /\ root \in [kind : Kinds, items : Seq(Kinds), ok : BOOLEAN]
    /\ stack \in Seq(Frames) /\ Len(stack) >= 1
    /\ \A i \in 1..Len(stack) : stack[i].kind = "root" <=> i = 1
    /\ \A i \in 1..(Len(stack) - 1) : stack[i].expects \in {"value", "first"}
    /\ result # "none" => /\ Len(stack) = 1 /\ Top.expects = "trailer"
                          /\ result = IF root.ok THEN "success" ELSE "failure"
    /\ Len(stack) = 1 /\ Top.expects = "value" => Stripped = <<>> /\ root.items = <<>>
    /\ Stripped = <<>> => Len(stack) = 1 /\ (Top.expects = "trailer" => atEnd)

-----------------------------------------------------------------------------
(* What the reader remembers of the liberties it takes.                    *)

LastRead == IF doc = <<>> THEN "nothing" ELSE doc[Len(doc)]

\* The document ends with comments behind one of these tokens.
CommentsBehind(tokens) ==
    \E i \in 1..(Len(doc) - 1) :
        doc[i] \in tokens /\ \A k \in (i + 1)..Len(doc) : doc[k] = "//"

\* A value ends with one of these.
ValueEnds == Scalars \cup {"]", "}"}

TokenBefore == At(Stripped, Len(Stripped))

\* An object whose name is empty has had a member without one,
CallersNamed ==
    \A k \in 1..(Len(stack) - 1) :
        stack[k].kind = "object" /\ stack[k].unnamed => EmptyNamed

\* or none at all, or an error.  It looks for a name behind its bracket, behind a
\* comma, or where it has taken a comment for one or met the end of the document.
TopNamed ==
    Top.kind = "object" /\ Top.unnamed =>
        \/ Top.expects = "recovery"
        \/ Top.expects = "name" /\ TokenBefore = "{"
        \/ Top.expects = "colon" /\ TokenBefore = "empty"
        \/ EmptyNamed /\ (Top.expects = "name" => TokenBefore = "," \/ Liberal \/ atEnd)

\* A comment makes the call forget that the array has just begun, and that it
\* needs a comma behind a member.
CommentsSeen ==
    /\ Top.expects = "any_separator" => CommentsBehind(ValueEnds)
    /\ Top.kind = "object" /\ Top.expects = "separator" => LastRead \in ValueEnds
    /\ Top.expects = "first" => LastRead = "[" /\ TokenBefore = "["
    /\ Top.kind = "array" /\ Top.expects = "value" /\ TokenBefore = "[" =>
           CommentsBehind({"["})

Liberties == CallersNamed /\ TopNamed /\ CommentsSeen

-----------------------------------------------------------------------------
(* The items: `done' is where those begin that have been read.             *)

\* Where the items begin that come after one that ends at p,
AfterItem(d, p) == IF At(d, p) = "," THEN ItemsFrom(d, p + 1) ELSE <<>>

\* and those that an array still has which expects w at p.
Rest(w, d, p) ==
    IF w = "recovery" THEN <<>>
    ELSE IF w = "separator" THEN AfterItem(d, p) ELSE ItemsFrom(d, p)

\* The items of the root array from the one on that is being read.
ToCome(d, at) ==
    IF Len(stack) > 2 THEN ItemsFrom(d, at[3])
    ELSE IF Len(stack) = 1 THEN <<>> ELSE Rest(Top.expects, d, Place)

\* An item that is refused has been begun.
Unfinished(failed) == IF failed THEN {0, 1} ELSE {0}

\* How many items there are that have been begun and not read.
Begun ==
    IF Len(stack) > 2 THEN {1}
    ELSE Unfinished(IF Len(stack) = 1 THEN ~root.ok ELSE Top.expects = "recovery")

\* The items that have been read are those of the file.
Recorded(done) ==
    \A k \in 1..Len(done) : /\ done[k] \in 1..Len(Stripped)
                            /\ root.items[k] = ValueOf(Stripped[done[k]])

\* Whatever the document becomes, its items are those and the ones to come.
ItemsSoFar(at, done) ==
    /\ Len(root.items) - Len(done) \in Begun
    /\ Recorded(done)
    /\ Len(stack) > 2 => /\ at[3] \in 1..Len(Stripped)
                         /\ root.items[Len(done) + 1] = ValueOf(Stripped[at[3]])
    /\ \A d \in Futures : ItemsFrom(d, 2) = done \o ToCome(d, at)

\* Where the reader can take no liberty and no comment is misplaced.
Plain == ~Liberal /\ ~CommentMisplaced

ItemsRead(at) ==
    Plain /\ At(Stripped, 1) = "[" =>
        /\ root.kind = "array"
        /\ Len(stack) > 1 => stack[2].kind = "array"
        /\ \E done \in Seq(Nat) : ItemsSoFar(at, done)

-----------------------------------------------------------------------------
(* The invariant.                                                          *)

\* Each call's value ends where the call will find it.
Follows(at) == Beginnings(at) /\ RootEnds /\ CallersEnd(at) /\ TopEnds(at)

\* All of it, for the places where the calls' values begin.
Kept(at) == Shape /\ Liberties /\ Follows(at) /\ ItemsRead(at)

IInv == \E at : Kept(at)

-----------------------------------------------------------------------------
(* Induction on numbers.  The library's induction theorems cannot be used  *)
(* here; what they are made of can: a set of naturals has a minimum.       *)

\* A set of numbers that is not empty has a least one,
LEMMA LeastNumber ==
    ASSUME NEW T \in SUBSET Nat, T # {}
    PROVE  \E x \in T : \A y \in T : x <= y
  <1> DEFINE R == {ss \in Nat \X Nat : ss[1] < ss[2]}
  <1>1. IsWellFoundedOn(OpToRel(<,Nat), Nat) BY NatLessThanWellFounded
  <1>2. OpToRel(<,Nat) = R BY DEF OpToRel
  <1>3. PICK x \in T : \A y \in T : <<y, x>> \notin R
    <2> HIDE DEF R
    <2>1. IsWellFoundedOn(R, Nat) BY <1>1, <1>2
    <2> QED BY <2>1, WFMin
  <1>4. ASSUME NEW y \in T PROVE x <= y
    <2>1. x \in Nat /\ y \in Nat OBVIOUS
    <2>2. ~(y < x) BY <1>3, <2>1
    <2> QED BY <2>1, <2>2
  <1> QED BY <1>4

\* and so a set with 0 and every successor has them all.
LEMMA Induction ==
    ASSUME NEW S, 0 \in S, \A n \in Nat : n \in S => n + 1 \in S
    PROVE  Nat \subseteq S
  <1> SUFFICES ASSUME Nat \ S # {} PROVE FALSE OBVIOUS
  <1>1. PICK x \in Nat \ S : \A y \in Nat \ S : x <= y
    BY LeastNumber
  <1>2. x # 0 /\ x - 1 \in Nat /\ x - 1 \in S BY <1>1
  <1>3. (x - 1) + 1 \in S BY <1>2
  <1> QED BY <1>3, <1>1

-----------------------------------------------------------------------------
(* The grammar.                                                            *)

\* What is found at place i ends behind it, in a document of n - 1 tokens.
Ending(r, i, n) ==
    /\ r.value   \in {0} \cup (i + 1)..n
    /\ r.items   \in {0} \cup (i + 1)..n
    /\ r.members \in {0} \cup (i + 1)..n

\* Where there is a token is a place of the document, which has n - 1 of them.
Spans(d, n) == n \in Nat \ {0} /\ \A i : At(d, i) # "end" => i \in 1..(n - 1)

\* A document of n tokens has its places, and one behind them.
LEMMA DocumentSpans ==
    ASSUME NEW d \in Seq(Tokens)
    PROVE  Spans(d, Len(d) + 1)
  BY DEF At, Spans

\* What is behind the value of a container is behind the place it follows,
\* and the same whatever `more' is where there is no more.
SameClosed(d, n, i, e, bracket, more, more2) ==
    /\ Closed(d, e, bracket, more) = Closed(d, e, bracket, more2)
    /\ Closed(d, e, bracket, more) \in {0} \cup (i + 1)..n

\* So what is found there depends only on what is found farther on.
LEMMA ClosedLocal ==
    ASSUME NEW d, NEW n, Spans(d, n), NEW i \in Nat, NEW e, e \in {0} \cup (i + 1)..n,
           NEW bracket, bracket \in {"]", "}"}, NEW more, NEW more2,
           e + 1 \in (i + 1)..n => more = more2 /\ more \in {0} \cup (e + 2)..n
    PROVE  SameClosed(d, n, i, e, bracket, more, more2)
  <1>0. n \in Nat /\ (At(d, e) # "end" => e \in 1..(n - 1)) BY DEF Spans
  <1>1. CASE At(d, e) = bracket
    <2>1. e \in 1..(n - 1) BY <1>0, <1>1, Zenon
    <2>2. Closed(d, e, bracket, more) = e + 1 /\ Closed(d, e, bracket, more2) = e + 1
      BY <1>1 DEF Closed
    <2>3. e + 1 \in {0} \cup (i + 1)..n
      <3>1. n \in Nat /\ e \in {0} \cup (i + 1)..n BY <1>0
      <3> QED BY ONLY <2>1, <3>1
    <2> QED BY ONLY <2>2, <2>3 DEF SameClosed
  <1>2. CASE At(d, e) = ","
    <2>1. e \in 1..(n - 1) BY <1>0, <1>2, Zenon
    <2>2. Closed(d, e, bracket, more) = more /\ Closed(d, e, bracket, more2) = more2
      BY <1>2 DEF Closed
    <2>3. /\ e + 1 \in (i + 1)..n
          /\ more \in {0} \cup (e + 2)..n => more \in {0} \cup (i + 1)..n
      <3>1. n \in Nat /\ e \in {0} \cup (i + 1)..n BY <1>0
      <3> QED BY ONLY <2>1, <3>1
    <2> QED BY <2>2, <2>3, Zenon DEF SameClosed
  <1>3. CASE At(d, e) # bracket /\ At(d, e) # ","
    <2>1. Closed(d, e, bracket, more) = 0 /\ Closed(d, e, bracket, more2) = 0
      BY <1>3 DEF Closed
    <2> QED BY ONLY <2>1 DEF SameClosed
  <1> QED BY <1>1, <1>2, <1>3

\* The parts of GrammarAt.
ValueAt(d, ends, i) ==
    CASE At(d, i) \in Scalars -> i + 1
      [] At(d, i) = "[" -> IF At(d, i + 1) = "]" THEN i + 2 ELSE ends[i + 1].items
      [] At(d, i) = "{" -> IF At(d, i + 1) = "}" THEN i + 2 ELSE ends[i + 1].members
      [] OTHER -> 0

\* Behind the member that begins here.
MemberAt(d, ends, i) ==
    IF At(d, i) \in Strings /\ At(d, i + 1) = ":" THEN ends[i + 2].value ELSE 0

\* The record r is made of the value that ends at v and the member that ends
\* at m.
PartsOf(d, ends, i, v, m, r) ==
    /\ r.value = v
    /\ r.items = Closed(d, v, "]", ends[v + 1].items)
    /\ r.members = Closed(d, m, "}", ends[m + 1].members)
    /\ r.starts = IF v = 0 THEN <<>>
                  ELSE <<i>> \o (IF At(d, v) = "," THEN ends[v + 1].starts ELSE <<>>)
    /\ r = [value |-> r.value, items |-> r.items, members |-> r.members,
            starts |-> r.starts]

\* They are its parts.
LEMMA GrammarParts ==
    ASSUME NEW d, NEW ends, NEW i
    PROVE  PartsOf(d, ends, i, ValueAt(d, ends, i), MemberAt(d, ends, i),
                   GrammarAt(d, ends, i))
  BY DEF GrammarAt, ValueAt, MemberAt, PartsOf

\* The cases of ValueAt exclude each other.
ValueIf(d, ends, i) ==
    IF At(d, i) = "[" THEN IF At(d, i + 1) = "]" THEN i + 2 ELSE ends[i + 1].items
    ELSE IF At(d, i) = "{" THEN IF At(d, i + 1) = "}" THEN i + 2 ELSE ends[i + 1].members
    ELSE IF At(d, i) \in Scalars THEN i + 1 ELSE 0

\* and can be tried in any order.
LEMMA ValueCases ==
    ASSUME NEW d, NEW ends, NEW i
    PROVE  ValueAt(d, ends, i) = ValueIf(d, ends, i)
  <1>1. "[" \notin Scalars /\ "{" \notin Scalars BY DEF Scalars, Strings
  <1>2. CASE At(d, i) \in Scalars BY <1>1, <1>2 DEF ValueAt, ValueIf
  <1>3. CASE At(d, i) = "[" BY <1>1, <1>3 DEF ValueAt, ValueIf
  <1>4. CASE At(d, i) = "{" BY <1>1, <1>4 DEF ValueAt, ValueIf
  <1>5. CASE At(d, i) \notin Scalars /\ At(d, i) # "[" /\ At(d, i) # "{"
    BY <1>5 DEF ValueAt, ValueIf
  <1> QED BY <1>1, <1>2, <1>3, <1>4, <1>5

\* What is found at a place depends on what is found behind it.
LEMMA GrammarLocal ==
    ASSUME NEW d, NEW n, Spans(d, n), NEW g, NEW h, NEW i \in 1..n,
           \A j \in (i + 1)..n : g[j] = h[j] /\ Ending(g[j], j, n)
    PROVE  GrammarAt(d, g, i) = GrammarAt(d, h, i) /\ Ending(GrammarAt(d, g, i), i, n)
  <1> DEFINE v == ValueAt(d, g, i)
             m == MemberAt(d, g, i)
  <1>0. n \in Nat /\ i \in Nat BY DEF Spans
  <1>b. \A j : At(d, j) # "end" => j \in 1..(n - 1) BY DEF Spans
  <1>a. ASSUME NEW j \in (i + 1)..n
        PROVE  g[j] = h[j] /\ Ending(g[j], j, n)
    OBVIOUS
  <1>1. v = ValueAt(d, h, i) /\ v \in {0} \cup (i + 1)..n
    <2>1. v = ValueIf(d, g, i) /\ ValueAt(d, h, i) = ValueIf(d, h, i)
      BY ValueCases
    <2>2. At(d, i) # "end" => i + 1 \in (i + 1)..n
      <3>1. At(d, i) # "end" => i \in 1..(n - 1) BY <1>b
      <3>2. i \in 1..(n - 1) => i + 1 \in (i + 1)..n BY ONLY <1>0
      <3> QED BY <3>1, <3>2, Zenon
    <2>3. At(d, i + 1) # "end" => i + 2 \in (i + 1)..n
      <3>1. At(d, i + 1) # "end" => i + 1 \in 1..(n - 1) BY <1>b, Zenon
      <3>2. i + 1 \in 1..(n - 1) => i + 2 \in (i + 1)..n BY ONLY <1>0
      <3> QED BY <3>1, <3>2, Zenon
    <2>4. At(d, i) # "end" => g[i + 1] = h[i + 1] /\ Ending(g[i + 1], i + 1, n)
      BY <1>a, <2>2, Zenon
    <2>5. ASSUME At(d, i) # "end"
          PROVE  /\ g[i + 1].items \in {0} \cup (i + 1)..n
                 /\ g[i + 1].members \in {0} \cup (i + 1)..n
      <3>1. Ending(g[i + 1], i + 1, n) BY <2>4, <2>5
      <3> QED BY ONLY <1>0, <3>1 DEF Ending
    <2>6. "end" \notin Scalars BY DEF Scalars, Strings
    <2> HIDE DEF v
    <2>7. v = ValueAt(d, h, i)
      BY <2>1, <2>4, Zenon DEF ValueIf
    <2>8. v \in {0} \cup (i + 1)..n
      BY <2>1, <2>2, <2>3, <2>5, <2>6, Zenon DEF ValueIf
    <2> QED BY <2>7, <2>8
  <1>2. m = MemberAt(d, h, i) /\ m \in {0} \cup (i + 1)..n
    <2>1. CASE At(d, i) \in Strings /\ At(d, i + 1) = ":"
      <3>1. i + 1 \in 1..(n - 1) BY <2>1, <1>b, Zenon
      <3>2. i + 2 \in (i + 1)..n BY ONLY <1>0, <3>1
      <3>3. g[i + 2] = h[i + 2] /\ Ending(g[i + 2], i + 2, n) BY <1>a, <3>2, Zenon
      <3>4. g[i + 2].value \in {0} \cup (i + 1)..n BY ONLY <1>0, <3>3 DEF Ending
      <3> QED BY <2>1, <3>3, <3>4, Zenon DEF MemberAt
    <2>2. CASE ~(At(d, i) \in Strings /\ At(d, i + 1) = ":")
      BY <2>2, Zenon DEF MemberAt
    <2> QED BY <2>1, <2>2
  <1> HIDE DEF v, m
  <1>3. ASSUME NEW e \in {0} \cup (i + 1)..n, e + 1 \in (i + 1)..n
        PROVE  g[e + 1] = h[e + 1] /\ Ending(g[e + 1], e + 1, n)
    BY <1>a, <1>3, Zenon
  <1>4. SameClosed(d, n, i, v, "]", g[v + 1].items, h[v + 1].items)
    <2>1. v + 1 \in (i + 1)..n =>
              g[v + 1].items = h[v + 1].items /\ g[v + 1].items \in {0} \cup (v + 2)..n
      BY <1>0, <1>1, <1>3 DEF Ending
    <2>2. "]" \in {"]", "}"} /\ i \in Nat BY <1>0
    <2> QED BY ClosedLocal, <1>1, <2>1, <2>2
  <1>5. SameClosed(d, n, i, m, "}", g[m + 1].members, h[m + 1].members)
    <2>1. m + 1 \in (i + 1)..n =>
              g[m + 1].members = h[m + 1].members /\ g[m + 1].members \in {0} \cup (m + 2)..n
      BY <1>0, <1>2, <1>3 DEF Ending
    <2>2. "}" \in {"]", "}"} /\ i \in Nat BY <1>0
    <2> QED BY ClosedLocal, <1>2, <2>1, <2>2
  <1>6. v # 0 /\ At(d, v) = "," => g[v + 1] = h[v + 1]
    <2>1. SUFFICES ASSUME v # 0, At(d, v) = "," PROVE g[v + 1] = h[v + 1] OBVIOUS
    <2>2. v \in 1..(n - 1) BY <1>b, <2>1, Zenon
    <2>3. v + 1 \in (i + 1)..n BY ONLY <1>0, <1>1, <2>2
    <2> QED BY <1>1, <2>3, <1>3, Zenon
  <1> DEFINE rg == GrammarAt(d, g, i)
             rh == GrammarAt(d, h, i)
  <1>7. PartsOf(d, g, i, v, m, rg) BY GrammarParts DEF v, m
  <1>8. PartsOf(d, h, i, v, m, rh) BY <1>1, <1>2, GrammarParts
  <1> HIDE DEF rg, rh
  <1>9. rg = rh
    BY ONLY <1>4, <1>5, <1>6, <1>7, <1>8 DEF PartsOf, SameClosed
  <1>10. Ending(rg, i, n)
    BY ONLY <1>1, <1>4, <1>5, <1>7 DEF Ending, PartsOf, SameClosed
  <1> QED BY <1>9, <1>10 DEF rg, rh

\* There is a grammar of every document:
LEMMA GrammarExists ==
    ASSUME NEW d \in Seq(Tokens)
    PROVE  \E g : g = [i \in 1..(Len(d) + 1) |-> GrammarAt(d, g, i)]
  <1> DEFINE n == Len(d) + 1
             Solves(g, k) == \A i \in 1..n : i + k > n =>
                                 g[i] = GrammarAt(d, g, i) /\ Ending(g[i], i, n)
             S == {k \in Nat : \E g : g = [i \in 1..n |-> g[i]] /\ Solves(g, k)}
  <1>0. n \in Nat /\ n >= 1 OBVIOUS
  <1>1. 0 \in S
    <2> DEFINE g == [i \in 1..n |-> 0]
    <2>1. g = [i \in 1..n |-> g[i]] /\ Solves(g, 0) BY <1>0
    <2> QED BY <2>1
  <1>2. ASSUME NEW k \in Nat, k \in S PROVE k + 1 \in S
    <2>1. PICK g : g = [i \in 1..n |-> g[i]] /\ Solves(g, k) BY <1>2
    <2> DEFINE h == [i \in 1..n |-> IF i + k = n THEN GrammarAt(d, g, i) ELSE g[i]]
    <2>2. ASSUME NEW i \in 1..n, i + (k + 1) > n
          PROVE  h[i] = GrammarAt(d, h, i) /\ Ending(h[i], i, n)
      <3>1. \A j \in (i + 1)..n : g[j] = h[j] /\ Ending(g[j], j, n)
        <4> SUFFICES ASSUME NEW j \in (i + 1)..n PROVE g[j] = h[j] /\ Ending(g[j], j, n)
          OBVIOUS
        <4>1. j \in 1..n /\ j + k > n /\ j + k # n BY <1>0, <2>2
        <4> QED BY <4>1, <2>1
      <3>2. /\ GrammarAt(d, g, i) = GrammarAt(d, h, i)
            /\ Ending(GrammarAt(d, g, i), i, n)
        <4> HIDE DEF h
        <4> QED BY <3>1, DocumentSpans, GrammarLocal
      <3>3. h[i] = GrammarAt(d, g, i)
        <4>1. CASE i + k = n BY <4>1
        <4>2. CASE i + k > n BY <4>2, <2>1
        <4> QED BY <4>1, <4>2, <2>2, <1>0
      <3> QED BY <3>2, <3>3
    <2>3. h = [i \in 1..n |-> h[i]] OBVIOUS
    <2>4. Solves(h, k + 1) BY <2>2
    <2> HIDE DEF h, Solves
    <2> QED BY <2>3, <2>4
  <1>3. n \in S
    <2> HIDE DEF S
    <2> QED BY <1>0, <1>1, <1>2, Induction
  <1>4. PICK g : g = [i \in 1..n |-> g[i]] /\ Solves(g, n) BY <1>3
  <1>5. \A i \in 1..n : g[i] = GrammarAt(d, g, i) BY <1>0, <1>4
  <1>6. g = [i \in 1..n |-> GrammarAt(d, g, i)]
    <2> HIDE DEF Solves
    <2> QED BY <1>4, <1>5
  <1> QED BY <1>6

\* at each place it is what GrammarAt says.
LEMMA GrammarIs ==
    ASSUME NEW d \in Seq(Tokens), NEW i \in 1..(Len(d) + 1)
    PROVE  Grammar(d)[i] = GrammarAt(d, Grammar(d), i)
  <1> DEFINE n == Len(d) + 1
             G == CHOOSE g : g = [j \in 1..n |-> GrammarAt(d, g, j)]
  <1>1. Grammar(d) = G BY DEF Grammar
  <1>2. G = [j \in 1..n |-> GrammarAt(d, G, j)]
    BY GrammarExists
  <1> HIDE DEF G
  <1> QED BY <1>1, <1>2

-----------------------------------------------------------------------------
(* The document without its comments.                                      *)

\* The defining equation of the recursive function in Uncommented.
Upto(d, g, i) ==
    IF i = 0 THEN <<>>
    ELSE IF d[i] = "//" THEN g[i - 1]
    ELSE Append(g[i - 1], d[i])
Strips(g, d, n) == g = [i \in 0..n |-> Upto(d, g, i)]
SameStart(d, e, n) == \A i \in 1..n : d[i] = e[i]

\* It has a solution,
LEMMA StripsExists ==
    ASSUME NEW d
    PROVE  \A n \in Nat : \E g : Strips(g, d, n)
  <1> DEFINE S == {n \in Nat : \E g : Strips(g, d, n)}
  <1>1. 0 \in S
    <2> DEFINE g == [i \in 0..0 |-> <<>>]
    <2>1. Strips(g, d, 0) BY DEF Strips, Upto
    <2> QED BY <2>1
  <1>2. ASSUME NEW n \in Nat, n \in S PROVE n + 1 \in S
    <2>1. PICK g : Strips(g, d, n) BY <1>2
    <2> DEFINE h == [i \in 0..(n + 1) |-> IF i = n + 1 THEN Upto(d, g, n + 1) ELSE g[i]]
    <2>2. \A i \in 0..(n + 1) : h[i] = Upto(d, h, i)
      <3> SUFFICES ASSUME NEW i \in 0..(n + 1) PROVE h[i] = Upto(d, h, i) OBVIOUS
      <3>1. i # 0 => h[i - 1] = g[i - 1] OBVIOUS
      <3>2. CASE i = n + 1 BY <3>1, <3>2 DEF Upto
      <3>3. CASE i # n + 1
        <4>1. h[i] = g[i] /\ i \in 0..n BY <3>3
        <4>2. g[i] = Upto(d, g, i) BY <2>1, <4>1 DEF Strips
        <4> QED BY <3>1, <4>1, <4>2 DEF Upto
      <3> QED BY <3>2, <3>3
    <2>3. Strips(h, d, n + 1) BY <2>2 DEF Strips
    <2> QED BY <2>3
  <1> QED BY <1>1, <1>2, Induction

\* which satisfies the equation at each prefix,
LEMMA StripsAt ==
    ASSUME NEW d, NEW g, NEW n, Strips(g, d, n), NEW i \in 0..n
    PROVE  g[i] = Upto(d, g, i)
  <1>1. [j \in 0..n |-> Upto(d, g, j)][i] = Upto(d, g, i) OBVIOUS
  <1> QED BY <1>1 DEF Strips

\* and agrees with that of a document with the same beginning.
LEMMA StripsUnique ==
    ASSUME NEW d, NEW g, NEW e, NEW h, NEW n \in Nat, NEW m \in Nat, n <= m,
           SameStart(d, e, n),
           Strips(g, d, n), Strips(h, e, m)
    PROVE  g[n] = h[n]
  <1> DEFINE S == {i \in Nat : i <= n => g[i] = h[i]}
  <1>1. ASSUME NEW i \in 0..n
        PROVE  g[i] = Upto(d, g, i) /\ h[i] = Upto(e, h, i)
    <2>1. i \in 0..m OBVIOUS
    <2> QED BY <2>1, StripsAt
  <1>2. 0 \in S BY <1>1 DEF Upto
  <1>3. ASSUME NEW i \in Nat, i \in S PROVE i + 1 \in S
    <2> SUFFICES ASSUME i + 1 <= n PROVE g[i + 1] = h[i + 1] OBVIOUS
    <2>1. g[i] = h[i] /\ d[i + 1] = e[i + 1] /\ i + 1 \in 0..n /\ i + 1 # 0 /\ (i + 1) - 1 = i
      BY <1>3 DEF SameStart
    <2>2. g[i + 1] = Upto(d, g, i + 1) /\ h[i + 1] = Upto(e, h, i + 1)
      BY <1>1, <2>1
    <2>3. Upto(d, g, i + 1) = Upto(e, h, i + 1) BY <2>1 DEF Upto
    <2> QED BY <2>2, <2>3
  <1>4. Nat \subseteq S BY <1>2, <1>3, Induction
  <1> QED BY <1>4

\* It is what Uncommented stands for.
LEMMA UncommentedIs ==
    ASSUME NEW d, Len(d) \in Nat
    PROVE  \E g : Strips(g, d, Len(d)) /\ Uncommented(d) = g[Len(d)]
  <1> DEFINE g == CHOOSE h : Strips(h, d, Len(d))
  <1>1. Strips(g, d, Len(d))
    <2>1. \E h : Strips(h, d, Len(d)) BY StripsExists
    <2> QED BY <2>1
  <1>2. Uncommented(d) = g[Len(d)] BY DEF Uncommented, Strips, Upto
  <1> QED BY <1>1, <1>2

\* Nothing is left of nothing,
LEMMA UncommentedEmpty == Uncommented(<<>>) = <<>>
  <1>1. Len(<<>>) = 0 OBVIOUS
  <1>2. PICK g : Strips(g, <<>>, 0) /\ Uncommented(<<>>) = g[0]
    <2>1. \E g : Strips(g, <<>>, Len(<<>>)) /\ Uncommented(<<>>) = g[Len(<<>>)]
      BY <1>1, UncommentedIs
    <2> QED BY <1>1, <2>1
  <1>3. g[0] = Upto(<<>>, g, 0) BY <1>2, StripsAt
  <1> QED BY <1>2, <1>3 DEF Upto

\* and of one token more that token, unless it is a comment.
LEMMA StripsAppend ==
    ASSUME NEW d, NEW g, NEW e, NEW h, NEW n \in Nat, NEW m \in Nat, m = n + 1,
           SameStart(d, e, n), Strips(g, d, n), Strips(h, e, m)
    PROVE  h[m] = IF e[m] = "//" THEN g[n] ELSE Append(g[n], e[m])
  <1>0. n <= m OBVIOUS
  <1>1. m - 1 = n /\ m # 0 /\ m \in 0..m OBVIOUS
  <1>2. g[n] = h[n]
    BY ONLY <1>0, m \in Nat, SameStart(d, e, n), Strips(g, d, n), Strips(h, e, m),
            StripsUnique
  <1>3. h[m] = Upto(e, h, m)
    BY ONLY <1>1, Strips(h, e, m), StripsAt
  <1> QED BY <1>1, <1>2, <1>3 DEF Upto

\* So a token more in the document is a token more in what is left of it,
\* except for a comment.
LEMMA UncommentedAppend ==
    ASSUME NEW d \in Seq(Tokens), NEW t \in Tokens
    PROVE  Uncommented(Append(d, t)) =
               IF t = "//" THEN Uncommented(d) ELSE Append(Uncommented(d), t)
  <1> DEFINE e == Append(d, t)
             n == Len(d)
  <1>1. /\ n \in Nat /\ Len(e) = n + 1 /\ e[n + 1] = t
        /\ \A i \in 1..n : d[i] = e[i]
    OBVIOUS
  <1>2. PICK g : Strips(g, d, n) /\ Uncommented(d) = g[n] BY <1>1, UncommentedIs
  <1>3. PICK m \in Nat : m = n + 1 BY <1>1
  <1>4. PICK h : Strips(h, e, m) /\ Uncommented(e) = h[m]
    BY <1>1, <1>3, UncommentedIs
  <1>5. SameStart(d, e, n) BY <1>1 DEF SameStart
  <1> HIDE DEF e, n
  <1>6. h[m] = IF e[m] = "//" THEN g[n] ELSE Append(g[n], e[m])
    BY <1>1, <1>2, <1>3, <1>4, <1>5, StripsAppend
  <1> QED BY <1>1, <1>2, <1>3, <1>4, <1>6 DEF e

\* What is left are tokens.
LEMMA UncommentedType ==
    ASSUME NEW d \in Seq(Tokens)
    PROVE  Uncommented(d) \in Seq(Tokens)
  <1> DEFINE n == Len(d)
  <1>1. n \in Nat /\ \A i \in 1..n : d[i] \in Tokens OBVIOUS
  <1>2. PICK g : Strips(g, d, n) /\ Uncommented(d) = g[n] BY <1>1, UncommentedIs
  <1> HIDE DEF n
  <1> DEFINE S == {i \in Nat : i <= n => g[i] \in Seq(Tokens)}
  <1>3. 0 \in S
    <2>1. g[0] = Upto(d, g, 0) BY <1>1, <1>2, StripsAt
    <2>2. g[0] = <<>> BY <2>1 DEF Upto
    <2>3. <<>> \in Seq(Tokens) OBVIOUS
    <2> QED BY <2>2, <2>3
  <1>4. ASSUME NEW i \in Nat, i \in S PROVE i + 1 \in S
    <2> SUFFICES ASSUME i + 1 <= n PROVE g[i + 1] \in Seq(Tokens) OBVIOUS
    <2>1. /\ g[i] \in Seq(Tokens) /\ i + 1 # 0 /\ (i + 1) - 1 = i
          /\ i + 1 \in 0..n /\ i + 1 \in 1..n
      BY <1>1, <1>4
    <2>2. g[i + 1] = Upto(d, g, i + 1) BY <1>2, <2>1, StripsAt
    <2>3. d[i + 1] \in Tokens BY <1>1, <2>1
    <2>4. g[i + 1] = IF d[i + 1] = "//" THEN g[i] ELSE Append(g[i], d[i + 1])
      BY <2>1, <2>2 DEF Upto
    <2> HIDE DEF S
    <2> QED BY <2>1, <2>3, <2>4
  <1>5. Nat \subseteq S
    <2> HIDE DEF S
    <2> QED BY <1>3, <1>4, Induction
  <1> QED BY <1>1, <1>2, <1>5

-----------------------------------------------------------------------------
(* Reading a token.                                                        *)

\* What has been read is a document, and so is what is left of it.
LEMMA StrippedType ==
    ASSUME doc \in Seq(Tokens)
    PROVE  Stripped \in Seq(Tokens) /\ Len(Stripped) \in Nat
  <1>1. Stripped \in Seq(Tokens) BY UncommentedType DEF Stripped
  <1> QED BY <1>1

\* The next place is one of every document that it can become.
LEMMA FutureType ==
    ASSUME doc \in Seq(Tokens), NEW d \in Futures
    PROVE  d \in Seq(Tokens) /\ Place \in 1..(Len(d) + 1)
  <1>1. d \in Seq(Tokens) /\ Len(Stripped) <= Len(d) BY DEF Futures, Documents
  <1>2. Len(Stripped) \in Nat BY StrippedType
  <1>3. Len(d) \in Nat BY <1>1
  <1> QED BY <1>1, <1>2, <1>3 DEF Place

\* A comment leaves the place, and what is to come, as it was.
LEMMA ReadsAComment ==
    ASSUME doc \in Seq(Tokens), Reads("//")
    PROVE  /\ Stripped' = Stripped /\ Place' = Place
           /\ \A d : d \in Futures' => d \in Futures
           /\ doc' = Append(doc, "//") /\ atEnd' = FALSE
  <1>2. doc' = Append(doc, "//") /\ atEnd' = FALSE /\ ~atEnd BY DEF Reads
  <1>3. "//" \in Tokens BY DEF Tokens
  <1>4. Stripped' = Stripped
    <2>1. Uncommented(Append(doc, "//")) = Uncommented(doc) BY <1>3, UncommentedAppend
    <2> QED BY <1>2, <2>1 DEF Stripped
  <1> QED BY <1>2, <1>4 DEF Place, Futures

\* Any other token is at the place in what is to come, and the end is where
\* no token is.
LEMMA ReadsAToken ==
    ASSUME doc \in Seq(Tokens), NEW t \in Tokens \ {"//"}, Reads(t)
    PROVE  /\ Stripped' = Append(Stripped, t) /\ Place' = Place + 1
           /\ \A d : d \in Futures' => d \in Futures /\ At(d, Place) = t
           /\ doc' = Append(doc, t)
  <1>1. t # "end" BY DEF Tokens, Scalars, Strings
  <1>2. doc' = Append(doc, t) /\ atEnd' = FALSE /\ ~atEnd BY <1>1 DEF Reads
  <1>3. Stripped' = Append(Stripped, t)
    <2>1. Uncommented(Append(doc, t)) = Append(Uncommented(doc), t) BY UncommentedAppend
    <2> QED BY <1>2, <2>1 DEF Stripped
  <1> DEFINE S == Stripped
  <1>4. S \in Seq(Tokens) /\ Len(S) \in Nat BY StrippedType
  <1>5. /\ Len(Append(S, t)) = Len(S) + 1 /\ Append(S, t)[Len(S) + 1] = t
        /\ \A i \in 1..Len(S) : Append(S, t)[i] = S[i]
    BY <1>4
  <1>6. Place' = Place + 1 BY <1>3, <1>5 DEF Place
  <1>7. ASSUME NEW d, d \in Futures'
        PROVE  d \in Futures /\ At(d, Place) = t
    <2>1. /\ d \in Seq(Tokens) /\ Len(S) + 1 <= Len(d)
          /\ \A i \in 1..(Len(S) + 1) : d[i] = Append(S, t)[i]
      BY <1>7, <1>3, <1>5 DEF Futures, Documents
    <2>2. Len(d) \in Nat /\ DOMAIN d = 1..Len(d) BY <2>1
    <2>3. Len(S) <= Len(d) /\ Len(S) + 1 \in 1..Len(d) BY <1>4, <2>1, <2>2
    <2>4. \A i \in 1..Len(S) : d[i] = S[i]
      <3> HIDE DEF S
      <3> SUFFICES ASSUME NEW i \in 1..Len(S) PROVE d[i] = S[i] OBVIOUS
      <3>1. i \in 1..(Len(S) + 1) BY <1>4
      <3> QED BY <2>1, <1>5, <3>1
    <2>5. d[Len(S) + 1] = t
      <3> HIDE DEF S
      <3>1. Len(S) + 1 \in 1..(Len(S) + 1) BY <1>4
      <3> QED BY <2>1, <1>5, <3>1
    <2>6. d \in Futures BY <1>2, <2>1, <2>3, <2>4 DEF Futures, Documents
    <2>7. At(d, Place) = t BY <2>2, <2>3, <2>5 DEF At, Place
    <2> QED BY <2>6, <2>7
  <1> QED BY <1>2, <1>3, <1>6, <1>7

\* At the end of the document, it becomes none that is longer.
LEMMA ReadsTheEnd ==
    ASSUME doc \in Seq(Tokens), Reads("end")
    PROVE  /\ Stripped' = Stripped /\ Place' = Place
           /\ \A d : d \in Futures' => d \in Futures /\ At(d, Place) = "end"
           /\ doc' = doc
  <1>1. doc' = doc /\ atEnd' = TRUE BY DEF Reads
  <1>2. Stripped' = Stripped BY <1>1 DEF Stripped
  <1>3. Len(Stripped) \in Nat BY StrippedType
  <1>4. ASSUME NEW d, d \in Futures'
        PROVE  d \in Futures /\ At(d, Place) = "end"
    <2>1. /\ d \in Seq(Tokens) /\ Len(Stripped) = Len(d)
          /\ \A i \in 1..Len(Stripped) : d[i] = Stripped[i]
      BY <1>1, <1>2, <1>4 DEF Futures, Documents
    <2>2. Len(Stripped) <= Len(d) BY <2>1, <1>3
    <2>3. d \in Futures BY <2>1, <2>2 DEF Futures, Documents
    <2>4. DOMAIN d = 1..Len(Stripped) BY <2>1
    <2>5. Len(Stripped) + 1 \notin 1..Len(Stripped) BY <1>3
    <2> QED BY <2>3, <2>4, <2>5 DEF At, Place
  <1> QED BY <1>1, <1>2, <1>4 DEF Place

-----------------------------------------------------------------------------
(* What the reader may do otherwise than the grammar, it may still.        *)

\* The tokens that have been read stay,
LEMMA ReadsMore ==
    ASSUME doc \in Seq(Tokens), NEW t \in Tokens \cup {"end"}, Reads(t)
    PROVE  /\ doc' \in Seq(Tokens)
           /\ Len(doc') \in Nat /\ Len(doc) \in Nat /\ Len(doc) <= Len(doc')
           /\ \A i \in 1..Len(doc) : i \in 1..Len(doc') /\ doc'[i] = doc[i]
  <1>1. CASE t = "end" BY <1>1 DEF Reads
  <1>2. CASE t # "end"
    <2>1. doc' = Append(doc, t) /\ t \in Tokens BY <1>2 DEF Reads
    <2> QED BY <2>1
  <1> QED BY <1>1, <1>2

\* and so do those that are left without the comments.
LEMMA StrippedMore ==
    ASSUME doc \in Seq(Tokens), NEW t \in Tokens \cup {"end"}, Reads(t)
    PROVE  /\ Stripped \in Seq(Tokens) /\ Stripped' \in Seq(Tokens)
           /\ Len(Stripped) \in Nat /\ Len(Stripped') \in Nat
           /\ \A i \in 1..Len(Stripped) : i \in 1..Len(Stripped') /\ Stripped'[i] = Stripped[i]
           /\ Stripped' = <<>> => Stripped = <<>> /\ t \in {"end", "//"}
  <1>1. Stripped \in Seq(Tokens) /\ Len(Stripped) \in Nat BY StrippedType
  <1>2. CASE t \in {"end", "//"}
    <2>1. Stripped' = Stripped BY <1>2, ReadsAComment, ReadsTheEnd
    <2> QED BY <1>1, <1>2, <2>1
  <1>3. CASE t \notin {"end", "//"}
    <2>1. t \in Tokens /\ Stripped' = Append(Stripped, t) BY <1>3, ReadsAToken
    <2>2. PICK s : s = Stripped OBVIOUS
    <2>3. /\ Append(s, t) \in Seq(Tokens) /\ Len(Append(s, t)) = Len(s) + 1
          /\ \A i \in 1..Len(s) : i \in 1..(Len(s) + 1) /\ Append(s, t)[i] = s[i]
          /\ Append(s, t) # <<>>
      BY <1>1, <2>1, <2>2
    <2> QED BY <1>1, <2>1, <2>2, <2>3
  <1> QED BY <1>2, <1>3

\* Two tokens next to each other stay so,
LEMMA NeighboursStay ==
    ASSUME doc \in Seq(Tokens), NEW t \in Tokens \cup {"end"}, Reads(t), NEW x, NEW y,
           y # "end", \E i \in DOMAIN Stripped : Stripped[i] = x /\ At(Stripped, i + 1) = y
    PROVE  \E i \in DOMAIN Stripped' : Stripped'[i] = x /\ At(Stripped', i + 1) = y
  <1>1. /\ Stripped \in Seq(Tokens) /\ Stripped' \in Seq(Tokens)
        /\ \A i \in 1..Len(Stripped) : i \in 1..Len(Stripped') /\ Stripped'[i] = Stripped[i]
    BY StrippedMore
  <1>2. DOMAIN Stripped = 1..Len(Stripped) /\ DOMAIN Stripped' = 1..Len(Stripped') BY <1>1
  <1>3. PICK i \in DOMAIN Stripped : Stripped[i] = x /\ At(Stripped, i + 1) = y OBVIOUS
  <1>4. i + 1 \in DOMAIN Stripped /\ Stripped[i + 1] = y BY <1>3, Zenon DEF At
  <1>5. i + 1 \in DOMAIN Stripped' /\ Stripped'[i + 1] = y BY <1>1, <1>2, <1>4, Zenon
  <1>6. i \in DOMAIN Stripped' /\ Stripped'[i] = x BY <1>1, <1>2, <1>3, Zenon
  <1> QED BY <1>5, <1>6, Zenon DEF At

\* and the comments and empty names that the reader took liberties with.
LEMMA LibertiesStay ==
    ASSUME doc \in Seq(Tokens), NEW t \in Tokens \cup {"end"}, Reads(t)
    PROVE  /\ Liberal => Liberal'
           /\ CommentMisplaced => CommentMisplaced'
           /\ EmptyNamed => EmptyNamed'
  <1>1. /\ doc' \in Seq(Tokens) /\ Len(doc) \in Nat /\ Len(doc') \in Nat
        /\ \A i \in 1..Len(doc) : i \in 1..Len(doc') /\ doc'[i] = doc[i]
    BY ReadsMore
  <1>2. DOMAIN doc = 1..Len(doc) /\ DOMAIN doc' = 1..Len(doc') BY <1>1
  <1>3. ASSUME EmptyNamed PROVE EmptyNamed'
    <2>1. PICK x : x = "empty" OBVIOUS
    <2>2. PICK y : y = ":" OBVIOUS
    <2>3. \E i \in DOMAIN Stripped : Stripped[i] = x /\ At(Stripped, i + 1) = y
      BY <1>3, <2>1, <2>2, Zenon DEF EmptyNamed
    <2>4. y # "end" BY <2>2
    <2>5. \E i \in DOMAIN Stripped' : Stripped'[i] = x /\ At(Stripped', i + 1) = y
      BY <2>3, <2>4, NeighboursStay
    <2> QED BY <2>1, <2>2, <2>5, Zenon DEF EmptyNamed
  <1>4. ASSUME CommentMisplaced PROVE CommentMisplaced'
    <2>1. PICK i \in DOMAIN doc, j \in DOMAIN doc :
              /\ i < j /\ \A k \in (i + 1)..(j - 1) : doc[k] = "//"
              /\ j > i + 1
              /\ doc[j] = ":" \/ (doc[i] = "[" /\ doc[j] = "]")
      BY <1>4 DEF CommentMisplaced
    <2>2. i \in DOMAIN doc' /\ j \in DOMAIN doc' /\ doc'[i] = doc[i] /\ doc'[j] = doc[j]
      BY <1>1, <1>2
    <2>3. \A k \in (i + 1)..(j - 1) : k \in 1..Len(doc)
      BY <1>1, <1>2
    <2>4. \A k \in (i + 1)..(j - 1) : doc'[k] = "//"
      BY <1>1, <2>1, <2>3
    <2> QED BY <2>1, <2>2, <2>4 DEF CommentMisplaced
  <1>5. ASSUME LastComma PROVE LastComma'
    <2>1. PICK x : x = "," OBVIOUS
    <2>2. PICK y : y = "}" OBVIOUS
    <2>3. \E i \in DOMAIN Stripped : Stripped[i] = x /\ At(Stripped, i + 1) = y
      BY <1>5, <2>1, <2>2, Zenon DEF LastComma
    <2>4. y # "end" BY <2>2
    <2>5. \E i \in DOMAIN Stripped' : Stripped'[i] = x /\ At(Stripped', i + 1) = y
      BY <2>3, <2>4, NeighboursStay
    <2>6. EmptyNamed' BY <1>3, <1>5, Zenon DEF LastComma
    <2> QED BY <2>1, <2>2, <2>5, <2>6, Zenon DEF LastComma
  <1>6. ASSUME CommentForComma PROVE CommentForComma'
    <2>1. PICK i \in DOMAIN doc, j \in DOMAIN doc :
              /\ i + 1 < j /\ \A k \in (i + 1)..(j - 1) : doc[k] = "//"
              /\ doc[i] \in Scalars \cup {"]", "}"} /\ doc[j] \notin {",", "}", "//"}
      BY <1>6, Zenon DEF CommentForComma
    <2>2. i \in DOMAIN doc' /\ j \in DOMAIN doc' /\ doc'[i] = doc[i] /\ doc'[j] = doc[j]
      BY <1>1, <1>2
    <2>3. \A k \in (i + 1)..(j - 1) : k \in 1..Len(doc)
      BY <1>1, <1>2
    <2>4. \A k \in (i + 1)..(j - 1) : doc'[k] = "//"
      BY <1>1, <2>1, <2>3
    <2> QED BY <2>1, <2>2, <2>4, Zenon DEF CommentForComma
  <1> QED BY <1>3, <1>4, <1>5, <1>6, Zenon DEF Liberal

-----------------------------------------------------------------------------
(* The liberties themselves.                                               *)

\* The last token is before the place.
LEMMA LastOfAppend ==
    ASSUME NEW S, NEW s \in Seq(S), NEW t
    PROVE  At(Append(s, t), Len(Append(s, t))) = t
  <1> DEFINE a == Append(s, t)
  <1>1. a \in Seq(S \cup {t}) /\ Len(a) = Len(s) + 1 /\ a[Len(s) + 1] = t OBVIOUS
  <1>2. Len(s) \in Nat OBVIOUS
  <1> HIDE DEF a
  <1>3. Len(a) \in DOMAIN a BY ONLY <1>1, <1>2
  <1> QED BY <1>1, <1>3, Zenon DEF At, a

\* The token that was read is the one before the place.
LEMMA ReadsBefore ==
    ASSUME doc \in Seq(Tokens), NEW t \in Tokens \ {"//"}, Reads(t)
    PROVE  TokenBefore' = t
  <1>1. Stripped' = Append(Stripped, t) BY ReadsAToken
  <1>2. Stripped \in Seq(Tokens) BY StrippedType
  <1>3. At(Append(Stripped, t), Len(Append(Stripped, t))) = t BY ONLY <1>2, LastOfAppend
  <1> QED BY <1>1, <1>3 DEF TokenBefore

\* It stands behind the one before it.
LEMMA ReadsBehind ==
    ASSUME doc \in Seq(Tokens), NEW t \in Tokens \ {"//"}, Reads(t),
           NEW x, TokenBefore = x, x # "end"
    PROVE  \E i \in DOMAIN Stripped' : Stripped'[i] = x /\ At(Stripped', i + 1) = t
  <1>1. Stripped' = Append(Stripped, t) BY ReadsAToken
  <1>2. Stripped \in Seq(Tokens) BY StrippedType
  <1>3. PICK s \in Seq(Tokens) : s = Stripped BY <1>2
  <1>4. PICK n \in Nat : n = Len(s) OBVIOUS
  <1>5. n \in DOMAIN s /\ s[n] = x BY <1>3, <1>4, Zenon DEF TokenBefore, At
  <1>6. n \in 1..n BY <1>4, <1>5
  <1>7. /\ DOMAIN Append(s, t) = 1..(n + 1) /\ n \in 1..(n + 1) /\ n + 1 \in 1..(n + 1)
        /\ Append(s, t)[n] = s[n] /\ Append(s, t)[n + 1] = t
    BY <1>4, <1>6
  <1>8. At(Append(s, t), n + 1) = t BY <1>7, Zenon DEF At
  <1>9. Stripped' = Append(s, t) BY <1>1, <1>3
  <1> QED BY <1>5, <1>7, <1>8, <1>9, Zenon

\* Comments behind a member stand for a comma.
LEMMA CommentIsLiberal ==
    ASSUME doc \in Seq(Tokens), CommentsBehind(ValueEnds),
           NEW t \in Tokens, t \notin {",", "}", "//"}, Reads(t)
    PROVE  Liberal'
  <1>1. doc' = Append(doc, t)
    <2>1. t # "end" BY DEF Tokens, Scalars, Strings
    <2> QED BY <2>1 DEF Reads
  <1>2. PICK n \in Nat : n = Len(doc)
    <2>1. Len(doc) \in Nat BY ONLY doc \in Seq(Tokens)
    <2> QED BY <2>1, Zenon
  <1>3. PICK i \in 1..(n - 1) : doc[i] \in ValueEnds /\ \A k \in (i + 1)..n : doc[k] = "//"
    BY <1>2 DEF CommentsBehind
  <1>4. DOMAIN doc' = 1..(n + 1) /\ doc'[n + 1] = t /\ \A k \in 1..n : doc'[k] = doc[k]
    BY ONLY <1>1, <1>2, doc \in Seq(Tokens)
  <1>5. i \in 1..n /\ n + 1 \in 1..(n + 1) /\ i \in 1..(n + 1) /\ i + 1 < n + 1
        /\ (n + 1) - 1 = n /\ \A k \in (i + 1)..n : k \in 1..n
    <2>1. n \in Nat /\ i \in 1..(n - 1) BY <1>3
    <2> QED BY ONLY <2>1
  <1>6. \A k \in (i + 1)..((n + 1) - 1) : doc'[k] = "//" BY <1>3, <1>4, <1>5, Zenon
  <1>7. doc'[i] \in Scalars \cup {"]", "}"} BY <1>3, <1>4, <1>5, Zenon DEF ValueEnds
  <1>8. PICK j : j = n + 1 OBVIOUS
  <1>9. /\ i \in DOMAIN doc' /\ j \in DOMAIN doc' /\ i + 1 < j
        /\ doc'[j] \notin {",", "}", "//"} /\ \A k \in (i + 1)..(j - 1) : doc'[k] = "//"
    BY <1>4, <1>5, <1>6, <1>8
  <1> QED BY <1>7, <1>9, Zenon DEF Liberal, CommentForComma

\* A member without a name has been read,
LEMMA EmptyNameRead ==
    ASSUME doc \in Seq(Tokens), Reads(":"), TokenBefore = "empty"
    PROVE  EmptyNamed'
  <1>1. ":" \in Tokens \ {"//"} BY DEF Tokens
  <1>2. \E i \in DOMAIN Stripped' : Stripped'[i] = "empty" /\ At(Stripped', i + 1) = ":"
    <2>1. "empty" # "end" OBVIOUS
    <2> QED BY <1>1, <2>1, ReadsBehind
  <1> QED BY <1>2, Zenon DEF EmptyNamed

\* and a comma stands before "}".
LEMMA LastCommaIsLiberal ==
    ASSUME doc \in Seq(Tokens), Reads("}"), TokenBefore = ",", EmptyNamed
    PROVE  Liberal'
  <1>1. "}" \in Tokens \ {"//"} BY DEF Tokens
  <1>2. \E i \in DOMAIN Stripped' : Stripped'[i] = "," /\ At(Stripped', i + 1) = "}"
    <2>1. "," # "end" OBVIOUS
    <2> QED BY <1>1, <2>1, ReadsBehind
  <1>3. EmptyNamed'
    <2>1. "}" \in Tokens \cup {"end"} BY <1>1
    <2> QED BY <2>1, LibertiesStay
  <1> QED BY <1>2, <1>3, Zenon DEF Liberal, LastComma

-----------------------------------------------------------------------------
(* The grammar, token by token.                                            *)

\* A token is at a place of the document.
LEMMA TokenAt ==
    ASSUME NEW d \in Seq(Tokens), NEW p \in 1..(Len(d) + 1)
    PROVE  /\ At(d, p) \in Tokens \cup {"end"} /\ At(d, 0) = "end"
           /\ At(d, p) # "end" => /\ p \in 1..Len(d) /\ d[p] = At(d, p)
                                  /\ p + 1 \in 1..(Len(d) + 1)
           /\ p \notin 1..Len(d) => At(d, p) = "end"
  <1>1. DOMAIN d = 1..Len(d) /\ Len(d) \in Nat OBVIOUS
  <1>2. CASE p \in 1..Len(d)
    <2>1. d[p] \in Tokens BY <1>2
    <2>2. p + 1 \in 1..(Len(d) + 1) BY <1>1, <1>2
    <2>3. 0 \notin 1..Len(d) OBVIOUS
    <2> QED BY <1>1, <1>2, <2>1, <2>2, <2>3, Zenon DEF At
  <1>3. CASE p \notin 1..Len(d)
    <2>3. 0 \notin 1..Len(d) OBVIOUS
    <2> QED BY <1>1, <1>3, <2>3, Zenon DEF At
  <1> QED BY <1>2, <1>3

\* Nothing is behind no place.
LEMMA BehindNothing ==
    ASSUME NEW d \in Seq(Tokens), NEW kind
    PROVE  Behind(d, kind, 0) = 0
  <1>1. At(d, 0) = "end"
    <2>1. 1 \in 1..(Len(d) + 1) OBVIOUS
    <2> QED BY <2>1, TokenAt
  <1> QED BY <1>1 DEF Behind, Closed

\* The fields of the grammar.
LEMMA GrammarFields ==
    ASSUME NEW d \in Seq(Tokens), NEW p \in 1..(Len(d) + 1)
    PROVE  /\ ValueEnd(d, p) =
                 IF At(d, p) = "[" THEN IF At(d, p + 1) = "]" THEN p + 2
                                        ELSE ItemsEnd(d, p + 1)
                 ELSE IF At(d, p) = "{" THEN IF At(d, p + 1) = "}" THEN p + 2
                                             ELSE MembersEnd(d, p + 1)
                 ELSE IF At(d, p) \in Scalars THEN p + 1 ELSE 0
           /\ ItemsEnd(d, p) = Behind(d, "array", ValueEnd(d, p))
           /\ MembersEnd(d, p) =
                 Behind(d, "object", IF At(d, p) \in Strings /\ At(d, p + 1) = ":"
                                     THEN ValueEnd(d, p + 2) ELSE 0)
           /\ ItemsFrom(d, p) =
                 IF ValueEnd(d, p) = 0 THEN <<>>
                 ELSE <<p>> \o (IF At(d, ValueEnd(d, p)) = ","
                                THEN ItemsFrom(d, ValueEnd(d, p) + 1) ELSE <<>>)
  <1> DEFINE G == Grammar(d)
             v == ValueAt(d, G, p)
             m == MemberAt(d, G, p)
  <1>1. G[p] = GrammarAt(d, G, p) BY GrammarIs
  <1>2. PartsOf(d, G, p, v, m, G[p])
    <2>1. PartsOf(d, G, p, v, m, GrammarAt(d, G, p)) BY ONLY GrammarParts
    <2> QED BY ONLY <1>1, <2>1
  <1>3. v = ValueIf(d, G, p) BY ONLY ValueCases
  <1>4. m = IF At(d, p) \in Strings /\ At(d, p + 1) = ":" THEN ValueEnd(d, p + 2) ELSE 0
    BY ONLY Zenon DEF MemberAt, ValueEnd
  <1>5. v = ValueEnd(d, p) BY ONLY <1>2 DEF PartsOf, ValueEnd
  <1>6. ValueIf(d, G, p) =
                 IF At(d, p) = "[" THEN IF At(d, p + 1) = "]" THEN p + 2
                                        ELSE ItemsEnd(d, p + 1)
                 ELSE IF At(d, p) = "{" THEN IF At(d, p + 1) = "}" THEN p + 2
                                             ELSE MembersEnd(d, p + 1)
                 ELSE IF At(d, p) \in Scalars THEN p + 1 ELSE 0
    BY ONLY Zenon DEF ValueIf, ItemsEnd, MembersEnd
  <1> HIDE DEF v, m
  <1>7. ItemsEnd(d, p) = Closed(d, v, "]", ItemsEnd(d, v + 1))
    BY ONLY <1>2, Zenon DEF PartsOf, ItemsEnd
  <1>8. MembersEnd(d, p) = Closed(d, m, "}", MembersEnd(d, m + 1))
    BY ONLY <1>2, Zenon DEF PartsOf, MembersEnd
  <1>9. ItemsFrom(d, p) = IF v = 0 THEN <<>>
                  ELSE <<p>> \o (IF At(d, v) = "," THEN ItemsFrom(d, v + 1) ELSE <<>>)
    BY ONLY <1>2, Zenon DEF PartsOf, ItemsFrom
  <1>10. ItemsEnd(d, p) = Behind(d, "array", v) BY ONLY <1>7, Zenon DEF Behind
  <1>11. MembersEnd(d, p) = Behind(d, "object", m)
    <2>1. "object" # "array" OBVIOUS
    <2> QED BY ONLY <1>8, <2>1, Zenon DEF Behind
  <1> QED BY ONLY <1>3, <1>4, <1>5, <1>6, <1>9, <1>10, <1>11, Zenon

\* What a value is, by the token it begins with.
LEMMA ValueBegins ==
    ASSUME NEW d \in Seq(Tokens), NEW p \in 1..(Len(d) + 1)
    PROVE  /\ At(d, p) \in Scalars => ValueEnd(d, p) = p + 1
           /\ At(d, p) = "[" => ValueEnd(d, p) = FirstItem(d, p + 1)
           /\ At(d, p) = "{" => ValueEnd(d, p) = NextName(d, p + 1, TRUE)
           /\ At(d, p) \notin Scalars \cup {"[", "{"} => ValueEnd(d, p) = 0
  <1>0. (p + 1) - 1 = p /\ (p + 1) + 1 = p + 2 OBVIOUS
  <1>1. "[" \notin Scalars /\ "{" \notin Scalars /\ "[" # "{" BY DEF Scalars, Strings
  <1>2. At(d, p) # "end" => p + 1 \in 1..(Len(d) + 1) BY TokenAt, Zenon
  <1>3. At(d, p) \in Scalars => ValueEnd(d, p) = p + 1
    BY <1>1, GrammarFields, Zenon
  <1>4. At(d, p) \notin Scalars \cup {"[", "{"} => ValueEnd(d, p) = 0
    BY <1>1, GrammarFields, Zenon
  <1>5. ASSUME At(d, p) = "[" PROVE ValueEnd(d, p) = FirstItem(d, p + 1)
    <2>1. ItemsEnd(d, p + 1) = Behind(d, "array", ValueEnd(d, p + 1))
      <3>1. "[" # "end" OBVIOUS
      <3> QED BY <1>2, <1>5, <3>1, GrammarFields, Zenon
    <2>2. ValueEnd(d, p) = IF At(d, p + 1) = "]" THEN p + 2 ELSE ItemsEnd(d, p + 1)
      BY <1>5, GrammarFields, Zenon
    <2> QED BY <1>0, <1>5, <2>1, <2>2, Zenon DEF FirstItem
  <1>6. ASSUME At(d, p) = "{" PROVE ValueEnd(d, p) = NextName(d, p + 1, TRUE)
    <2>2. ValueEnd(d, p) = IF At(d, p + 1) = "}" THEN p + 2 ELSE MembersEnd(d, p + 1)
      BY <1>1, <1>6, GrammarFields, Zenon
    <2> QED BY <1>0, <1>6, <2>2, Zenon DEF NextName
  <1> QED BY <1>3, <1>4, <1>5, <1>6

\* What comes behind a value of an array, or of an object, by the token there.
LEMMA BehindArray ==
    ASSUME NEW d \in Seq(Tokens), NEW p \in 1..(Len(d) + 1)
    PROVE  Behind(d, "array", p) = IF At(d, p) = "]" THEN p + 1
                                   ELSE IF At(d, p) = "," THEN FirstItem(d, p + 1) ELSE 0
  <1>0. (p + 1) - 1 = p OBVIOUS
  <1>1. "]" # "," /\ "," # "end" /\ "," # "[" OBVIOUS
  <1>2. At(d, p) = "," => p + 1 \in 1..(Len(d) + 1) BY <1>1, TokenAt, Zenon
  <1>3. At(d, p) = "," => FirstItem(d, p + 1) = ItemsEnd(d, p + 1)
    BY <1>0, <1>1, <1>2, GrammarFields, Zenon DEF FirstItem
  <1>4. Behind(d, "array", p) = IF At(d, p) = "]" THEN p + 1
                                ELSE IF At(d, p) = "," THEN ItemsEnd(d, p + 1) ELSE 0
    BY ONLY <1>1 DEF Behind, Closed
  <1> QED BY <1>3, <1>4, Zenon

\* What is behind a member.
LEMMA BehindObject ==
    ASSUME NEW d \in Seq(Tokens), NEW p \in 1..(Len(d) + 1)
    PROVE  Behind(d, "object", p) = IF At(d, p) = "}" THEN p + 1
                                    ELSE IF At(d, p) = "," THEN NextName(d, p + 1, FALSE)
                                    ELSE 0
  <1>1. "}" # "," /\ "object" # "array" OBVIOUS
  <1> QED BY ONLY <1>1 DEF Behind, Closed, NextName

\* A member: its name, its colon, its value.
LEMMA MemberBegins ==
    ASSUME NEW d \in Seq(Tokens), NEW p \in 1..(Len(d) + 1)
    PROVE  MembersEnd(d, p) = IF At(d, p) \in Strings THEN Colon(d, p + 1) ELSE 0
  <1>0. (p + 1) + 1 = p + 2 OBVIOUS
  <1>1. Behind(d, "object", 0) = 0 BY BehindNothing
  <1>2. MembersEnd(d, p) =
            Behind(d, "object", IF At(d, p) \in Strings /\ At(d, p + 1) = ":"
                                THEN ValueEnd(d, p + 2) ELSE 0)
    BY GrammarFields, Zenon
  <1> QED BY <1>0, <1>1, <1>2, Zenon DEF Colon

\* The items of an array, from a place where a value may begin.
LEMMA ItemsBegin ==
    ASSUME NEW d \in Seq(Tokens), NEW p \in 1..(Len(d) + 1)
    PROVE  ItemsFrom(d, p) =
               IF ValueEnd(d, p) = 0 THEN <<>>
               ELSE <<p>> \o (IF At(d, ValueEnd(d, p)) = ","
                              THEN ItemsFrom(d, ValueEnd(d, p) + 1) ELSE <<>>)
  BY GrammarFields, Zenon

-----------------------------------------------------------------------------
(* What a step does with the calls.                                        *)

\* A sequence is given by its elements.
IsStack(s) == s = [k \in 1..Len(s) |-> s[k]]

\* The innermost call expects something else.
Stays(w, u) ==
    /\ IsStack(stack') /\ Len(stack') = Len(stack)
    /\ \A k \in 1..(Len(stack) - 1) : stack'[k] = stack[k]
    /\ Top' = [kind |-> Top.kind, expects |-> w, unnamed |-> u]

\* It calls another.
Calls(f) ==
    /\ IsStack(stack') /\ Len(stack') = Len(stack) + 1
    /\ \A k \in 1..Len(stack) : stack'[k] = stack[k]
    /\ Top' = f

\* It returns.
Caller == stack[Len(stack) - 1]
\* What a caller expects then.
AfterIt(f, ok) ==
    IF f.kind = "root" THEN "trailer" ELSE IF ok THEN "separator" ELSE "recovery"

Returns(ok) ==
    /\ IsStack(stack') /\ Len(stack') = Len(stack) - 1
    /\ \A k \in 1..(Len(stack) - 2) : stack'[k] = stack[k]
    /\ Top' = [kind |-> Caller.kind, expects |-> AfterIt(Caller, ok),
               unnamed |-> Caller.unnamed]
    /\ root' = IF Len(stack) = 2 THEN [root EXCEPT !.ok = ok] ELSE root

\* The frames.
LEMMA FrameFields ==
    ASSUME NEW f \in Frames
    PROVE  /\ f = [kind |-> f.kind, expects |-> f.expects, unnamed |-> f.unnamed]
           /\ f.unnamed \in BOOLEAN
           /\ \/ f.kind = "root" /\ f.expects \in {"value", "trailer"}
              \/ f.kind = "array" /\ f.expects \in ArrayExpects
              \/ f.kind = "object" /\ f.expects \in ObjectExpects
  BY DEF Frames

\* A stack whose innermost call expects something else.
LEMMA ExpectFacts ==
    ASSUME NEW s \in Seq(Frames), NEW m \in Nat, m = Len(s), m >= 1, NEW w
    PROVE  /\ Len(Expect(s, w)) = m
           /\ \A k \in 1..(m - 1) : Expect(s, w)[k] = s[k]
           /\ Expect(s, w)[m] = [kind |-> s[m].kind, expects |-> w, unnamed |-> s[m].unnamed]
           /\ DOMAIN Expect(s, w) = 1..m /\ IsStack(Expect(s, w))
  <1>1. s[m] = [kind |-> s[m].kind, expects |-> s[m].expects, unnamed |-> s[m].unnamed]
    BY FrameFields
  <1> DEFINE f == [s[m] EXCEPT !.expects = w]
             e == [s EXCEPT ![m] = f]
  <1>2. Expect(s, w) = e BY DEF Expect
  <1>3. f = [kind |-> s[m].kind, expects |-> w, unnamed |-> s[m].unnamed]
    BY ONLY <1>1
  <1> HIDE DEF f
  <1>4. DOMAIN s = 1..m /\ s = [k \in 1..m |-> s[k]] OBVIOUS
  <1>5. e = [k \in 1..m |-> IF k = m THEN f ELSE s[k]] BY ONLY <1>4
  <1>6. Len(e) = m /\ DOMAIN e = 1..m BY <1>5
  <1>9. IsStack(e)
    <2>1. e = [k \in 1..m |-> e[k]] BY ONLY <1>5, <1>6
    <2> QED BY <1>6, <2>1 DEF IsStack
  <1>7. \A k \in 1..(m - 1) : e[k] = s[k] BY ONLY <1>5, m \in Nat
  <1>8. e[m] = f BY ONLY <1>5, m \in Nat, m >= 1
  <1> QED BY <1>2, <1>3, <1>6, <1>7, <1>8, <1>9

\* The shape of the stack, as the lemmas below need it.
LEMMA StackFacts ==
    ASSUME Shape
    PROVE  /\ stack \in Seq(Frames) /\ Len(stack) \in Nat /\ Len(stack) >= 1
           /\ Top \in Frames /\ doc \in Seq(Tokens)
           /\ Top.kind = "root" <=> Len(stack) = 1
           /\ \A k \in 1..Len(stack) : stack[k] \in Frames
           /\ \A k \in 1..Len(stack) : stack[k].kind = "root" <=> k = 1
  <1>1. stack \in Seq(Frames) /\ Len(stack) >= 1 /\ doc \in Seq(Tokens)
        /\ \A k \in 1..Len(stack) : stack[k].kind = "root" <=> k = 1
    BY DEF Shape
  <1>2. Len(stack) \in Nat /\ \A k \in 1..Len(stack) : stack[k] \in Frames BY <1>1
  <1>3. Len(stack) \in 1..Len(stack) BY <1>1, <1>2
  <1> QED BY <1>1, <1>2, <1>3 DEF Top

\* There is an innermost call.
LEMMA TopIsThere ==
    ASSUME Shape
    PROVE  Len(stack) \in 1..Len(stack) /\ IsStack(stack)
  <1>1. Len(stack) \in Nat /\ Len(stack) >= 1 /\ stack \in Seq(Frames) BY StackFacts
  <1> QED BY ONLY <1>1 DEF IsStack

\* Expect() changes the innermost call only,
LEMMA ExpectStays ==
    ASSUME Shape, NEW w, stack' = Expect(stack, w)
    PROVE  Stays(w, Top.unnamed) /\ (stack \in Seq(Frames))
  <1>1. stack \in Seq(Frames) /\ Len(stack) \in Nat /\ Len(stack) >= 1 BY StackFacts
  <1>2. PICK m \in Nat : m = Len(stack) BY <1>1
  <1>3. /\ Len(Expect(stack, w)) = m
        /\ \A k \in 1..(m - 1) : Expect(stack, w)[k] = stack[k]
        /\ Expect(stack, w)[m] = [kind |-> stack[m].kind, expects |-> w,
                                  unnamed |-> stack[m].unnamed]
        /\ IsStack(Expect(stack, w))
    BY <1>1, <1>2, ExpectFacts
  <1> QED BY <1>1, <1>2, <1>3 DEF Stays, Top

\* also where readObject() keeps the name.
LEMMA NamedStays ==
    ASSUME Shape, NEW w, NEW u,
           stack' = [Expect(stack, w) EXCEPT ![Len(stack)].unnamed = u]
    PROVE  Stays(w, u)
  <1>1. stack \in Seq(Frames) /\ Len(stack) \in Nat /\ Len(stack) >= 1 BY StackFacts
  <1>2. PICK m \in Nat : m = Len(stack) BY <1>1
  <1> DEFINE e == Expect(stack, w)
             f == [kind |-> stack[m].kind, expects |-> w, unnamed |-> stack[m].unnamed]
             g == [kind |-> stack[m].kind, expects |-> w, unnamed |-> u]
             h == [e EXCEPT ![m].unnamed = u]
  <1>3. Len(e) = m /\ DOMAIN e = 1..m
        /\ (\A k \in 1..(m - 1) : e[k] = stack[k]) /\ e[m] = f
    <2>1. m >= 1 BY <1>1, <1>2
    <2> QED BY ONLY <1>1, <1>2, <2>1, m \in Nat, ExpectFacts
  <1>a. stack' = h BY <1>2
  <1>b. [f EXCEPT !.unnamed = u] = g OBVIOUS
  <1> HIDE DEF e
  <1>4. m \in 1..m BY <1>1, <1>2
  <1>5. DOMAIN h = 1..m /\ h[m] = [f EXCEPT !.unnamed = u]
        /\ \A k \in 1..(m - 1) : h[k] = stack[k]
    BY ONLY <1>3, <1>4, m \in Nat
  <1>6. Len(h) = m BY ONLY <1>5, m \in Nat
  <1>7. IsStack(h)
    <2>1. h = [k \in 1..m |-> h[k]] BY ONLY <1>5, <1>3
    <2> QED BY <1>6, <2>1 DEF IsStack
  <1> HIDE DEF h
  <1> QED BY <1>a, <1>b, <1>2, <1>5, <1>6, <1>7 DEF Stays, Top

\* A call more on the stack.
LEMMA AppendCalls ==
    ASSUME Shape, NEW f, stack' = Append(stack, f)
    PROVE  Calls(f)
  <1>1. stack \in Seq(Frames) /\ Len(stack) \in Nat BY StackFacts
  <1>2. /\ Len(Append(stack, f)) = Len(stack) + 1 /\ Append(stack, f)[Len(stack) + 1] = f
        /\ \A i \in 1..Len(stack) : Append(stack, f)[i] = stack[i]
    BY <1>1
  <1>3. IsStack(Append(stack, f))
    <2> DEFINE a == Append(stack, f)
    <2>1. a \in Seq(Frames \cup {f}) BY <1>1
    <2> HIDE DEF a
    <2>2. a = [k \in 1..Len(a) |-> a[k]] BY ONLY <2>1
    <2> QED BY ONLY <2>2 DEF IsStack, a
  <1> QED BY <1>2, <1>3 DEF Calls, Top

\* A call less: Leaves() hands the result to the caller.
LEMMA LeavesReturns ==
    ASSUME Shape, Len(stack) > 1, NEW ok, Leaves(ok)
    PROVE  Returns(ok)
  <1>1. stack \in Seq(Frames) /\ Len(stack) \in Nat
        /\ (\A k \in 1..Len(stack) : stack[k] \in Frames)
        /\ \A k \in 1..Len(stack) : stack[k].kind = "root" <=> k = 1
    BY StackFacts
  <1>2. PICK m \in Nat : m = Len(stack) - 1 BY <1>1
  <1> DEFINE c == SubSeq(stack, 1, m)
  <1>3. c \in Seq(Frames) /\ Len(c) = m /\ \A k \in 1..m : c[k] = stack[k]
    BY <1>1, <1>2
  <1>4. stack' = AfterValue(c, ok) /\ Keeps(c, ok) BY <1>2 DEF Leaves
  <1> HIDE DEF c
  <1>5. c[m] = Caller /\ m \in 1..m BY <1>1, <1>2, <1>3 DEF Caller
  <1>6. Caller.kind = "root" <=> Len(stack) = 2
    BY <1>1, <1>2 DEF Caller
  <1>7. root' = IF Len(stack) = 2 THEN [root EXCEPT !.ok = ok] ELSE root
    BY <1>3, <1>4, <1>5, <1>6 DEF Keeps
  <1>8. stack' = Expect(c, AfterIt(Caller, ok))
    BY <1>3, <1>4, <1>5, Zenon DEF AfterValue, AfterIt
  <1>9. PICK w : w = AfterIt(Caller, ok) OBVIOUS
  <1>10. /\ Len(Expect(c, w)) = m
         /\ \A k \in 1..(m - 1) : Expect(c, w)[k] = c[k]
         /\ Expect(c, w)[m] = [kind |-> c[m].kind, expects |-> w, unnamed |-> c[m].unnamed]
         /\ IsStack(Expect(c, w))
    BY <1>1, <1>2, <1>3, ExpectFacts
  <1>11. Len(stack') = m /\ Top' = [kind |-> Caller.kind, expects |-> w,
                                    unnamed |-> Caller.unnamed]
    BY <1>8, <1>9, <1>10, <1>5 DEF Top
  <1>12. \A k \in 1..(Len(stack) - 2) : stack'[k] = stack[k]
    BY <1>1, <1>2, <1>3, <1>8, <1>9, <1>10
  <1>13. IsStack(stack') BY <1>8, <1>9, <1>10
  <1> QED BY <1>2, <1>7, <1>9, <1>11, <1>12, <1>13 DEF Returns

\* What each step inside a container makes it expect.
LEMMA ScalarStays ==
    ASSUME Shape, Len(stack) > 1, NEW t, ReadScalar(t)
    PROVE  Stays(IF t \in Scalars THEN "separator" ELSE "recovery", Top.unnamed)
  <1>1. Top.kind # "root" BY StackFacts
  <1>2. PICK w : w = IF t \in Scalars THEN "separator" ELSE "recovery" OBVIOUS
  <1>3. stack' = Expect(stack, w) BY <1>1, <1>2 DEF ReadScalar, AfterValue, Top
  <1> QED BY <1>2, <1>3, ExpectStays

\* readArray() goes on behind an item.
LEMMA ArraySeparatorStays ==
    ASSUME Shape, NEW t, ReadArraySeparator(t), t # "]"
    PROVE  Stays(IF t = "," THEN "value" ELSE "recovery", Top.unnamed)
  <1>1. PICK w : w = IF t = "," THEN "value" ELSE "recovery" OBVIOUS
  <1>2. stack' = Expect(stack, w) BY <1>1 DEF ReadArraySeparator
  <1> QED BY <1>1, <1>2, ExpectStays

\* readObject() goes on behind a name,
LEMMA NameStays ==
    ASSUME Shape, NEW t, ReadName(t), ~(t = "}" /\ Top.unnamed)
    PROVE  Stays(IF t \in Strings THEN "colon" ELSE "recovery", t # "name")
  BY NamedStays DEF ReadName

\* behind a colon,
LEMMA ColonStays ==
    ASSUME Shape, NEW t, ReadColon(t)
    PROVE  Stays(IF t = ":" THEN "value" ELSE "recovery", Top.unnamed)
  BY ExpectStays DEF ReadColon

\* What readObject() expects after a token that does not close it,
AfterMember(t) ==
    IF t = "," \/ Top.expects = "any_separator" THEN "name" ELSE "recovery"

\* and behind a member.
LEMMA ObjectSeparatorStays ==
    ASSUME Shape, NEW t, ReadObjectSeparator(t), t # "}"
    PROVE  Stays(AfterMember(t), Top.unnamed)
  <1>1. stack' = Expect(stack, AfterMember(t)) BY DEF ReadObjectSeparator, AfterMember
  <1> QED BY <1>1, ExpectStays

\* Nothing is done with the stack,
LEMMA NothingStays ==
    ASSUME Shape, stack' = stack
    PROVE  Stays(Top.expects, Top.unnamed)
  <1>1. Top \in Frames BY StackFacts
  <1>2. Top = [kind |-> Top.kind, expects |-> Top.expects, unnamed |-> Top.unnamed]
    BY <1>1, FrameFields, Zenon
  <1>3. Top' = Top BY DEF Top
  <1>4. IsStack(stack) BY TopIsThere
  <1> QED BY <1>2, <1>3, <1>4, Zenon DEF Stays

\* and what any call expects after a comment.
AfterComment ==
    IF Top.expects = "first" THEN "value"
    ELSE IF Top.kind = "object" /\ Top.expects = "separator" THEN "any_separator"
    ELSE Top.expects

\* or a comment is skipped,
LEMMA CommentStays ==
    ASSUME Shape, ReadComment
    PROVE  Stays(AfterComment, Top.unnamed)
  <1>1. result = "none" BY DEF ReadComment
  <1>2. stack' = CASE Top.expects = "first" -> Expect(stack, "value")
                   [] Top.kind = "object" /\ Top.expects = "separator" ->
                          Expect(stack, "any_separator")
                   [] OTHER -> stack
    BY <1>1 DEF ReadComment, Expecting
  <1>3. CASE Top.expects = "first" \/ (Top.kind = "object" /\ Top.expects = "separator")
    <2>1. stack' = Expect(stack, AfterComment) BY <1>2, <1>3 DEF AfterComment
    <2> QED BY <2>1, ExpectStays
  <1>4. CASE ~(Top.expects = "first" \/ (Top.kind = "object" /\ Top.expects = "separator"))
    <2>1. stack' = stack BY <1>2, <1>4
    <2>2. AfterComment = Top.expects BY <1>4 DEF AfterComment
    <2> QED BY <2>1, <2>2, NothingStays
  <1> QED BY <1>3, <1>4

\* or a token, after an error.
LEMMA RecoverStays ==
    ASSUME Shape, NEW t, Recover(t), t \notin {"end", IF Top.kind = "array" THEN "]" ELSE "}"}
    PROVE  Stays("recovery", Top.unnamed)
  <1>1. stack' = stack /\ Top.expects = "recovery" BY DEF Recover, Expecting
  <1>2. Stays(Top.expects, Top.unnamed) BY <1>1, NothingStays
  <1> QED BY <1>1, <1>2

\* The root.
LEMMA RootScalarStays ==
    ASSUME Shape, Len(stack) = 1, NEW t, ReadScalar(t)
    PROVE  Stays("trailer", Top.unnamed)
  <1>1. Top.kind = "root" BY StackFacts
  <1>2. stack' = Expect(stack, "trailer") BY <1>1 DEF ReadScalar, AfterValue, Top
  <1> QED BY <1>2, ExpectStays

-----------------------------------------------------------------------------
(* Where the calls will end.                                               *)

\* The documents to come have their type.
FuturesAreDocuments ==
    doc \in Seq(Tokens) =>
        \A d : d \in Futures => d \in Seq(Tokens) /\ Place \in 1..(Len(d) + 1)

\* The place is one of each of them.
LEMMA FuturesHaveType == FuturesAreDocuments
  BY FutureType DEF FuturesAreDocuments

\* The place after token t.
LEMMA ReadsOn ==
    ASSUME doc \in Seq(Tokens), NEW t \in Tokens \cup {"end"}, Reads(t)
    PROVE  /\ t \in {"//", "end"} => Place' = Place
           /\ t \notin {"//", "end"} => Place' = Place + 1
           /\ \A d : d \in Futures' =>
                  /\ d \in Futures /\ d \in Seq(Tokens)
                  /\ Place \in 1..(Len(d) + 1) /\ Place' \in 1..(Len(d) + 1)
                  /\ t # "//" => At(d, Place) = t
  <1>0. doc' \in Seq(Tokens) BY ReadsMore
  <1>1. FuturesAreDocuments' BY FuturesHaveType, PTL
  <1>2. \A d : d \in Futures => d \in Seq(Tokens) /\ Place \in 1..(Len(d) + 1)
    BY FuturesHaveType DEF FuturesAreDocuments
  <1>3. \A d : d \in Futures' => d \in Seq(Tokens) /\ Place' \in 1..(Len(d) + 1)
    BY <1>0, <1>1 DEF FuturesAreDocuments
  <1>4. CASE t = "//" BY <1>2, <1>3, <1>4, ReadsAComment
  <1>5. CASE t = "end" BY <1>2, <1>3, <1>5, ReadsTheEnd
  <1>6. CASE t \notin {"//", "end"}
    <2>1. t \in Tokens \ {"//"} BY <1>6
    <2> QED BY <1>2, <1>3, <1>6, <2>1, ReadsAToken
  <1> QED BY <1>4, <1>5, <1>6

\* A place that a call agrees with, it agrees with after more tokens.
LEMMA AgreesOn ==
    ASSUME doc \in Seq(Tokens), NEW t \in Tokens \cup {"end"}, Reads(t)
    PROVE  \A end, place : Agrees(end, place) => Agrees(end, place)'
  BY LibertiesStay DEF Agrees

\* The innermost call goes on.
LEMMA FollowsStays ==
    ASSUME Shape, NEW t \in Tokens \cup {"end"}, Reads(t), Len(stack) > 1,
           NEW at, Follows(at), NEW w, NEW u, Stays(w, u),
           \A d, e : d \in Futures' /\ Continues(d, Place, Top, e) =>
                         Continues(d, Place, Top, e)'
    PROVE  Follows(at)'
  <1>1. /\ Len(stack) \in Nat /\ doc \in Seq(Tokens) BY StackFacts
  <1>2. Beginnings(at)' BY DEF Follows, Beginnings
  <1>3. RootEnds' BY <1>1 DEF RootEnds, Stays
  <1>4. CallersEnd(at)'
    <2> SUFFICES ASSUME NEW k \in 2..(Len(stack') - 1), NEW d, d \in Futures'
                 PROVE  Agrees(ValueEnd(d, at[k]),
                               Behind(d, stack[k].kind, ValueEnd(d, at[k + 1])))'
      BY DEF CallersEnd
    <2>1. Len(stack') = Len(stack) /\ stack'[k] = stack[k] BY <1>1 DEF Stays
    <2>2. d \in Futures BY <1>1, ReadsOn
    <2>3. Agrees(ValueEnd(d, at[k]), Behind(d, stack[k].kind, ValueEnd(d, at[k + 1])))
      BY <2>1, <2>2 DEF Follows, CallersEnd
    <2> QED BY <2>1, <2>3, <1>1, LibertiesStay DEF Agrees
  <1>5. TopEnds(at)'
    <2> SUFFICES ASSUME NEW d, d \in Futures'
                 PROVE  Continues(d, Place, Top, ValueEnd(d, at[Len(stack)]))'
      BY DEF TopEnds
    <2>1. d \in Futures BY <1>1, ReadsOn
    <2>2. Continues(d, Place, Top, ValueEnd(d, at[Len(stack)]))
      BY <2>1 DEF Follows, TopEnds
    <2>3. PICK m \in Nat : m = Len(stack) BY <1>1
    <2>4. Continues(d, Place, Top, ValueEnd(d, at[m]))' BY <2>2, <2>3
    <2>5. Len(stack') = m BY <2>3 DEF Stays
    <2> QED BY <2>4, <2>5
  <1> QED BY <1>2, <1>3, <1>4, <1>5 DEF Follows

\* Behind a value that ends at a place, and behind one that is refused.
LEMMA BehindAgrees ==
    ASSUME NEW d \in Seq(Tokens), NEW kind, NEW v, NEW p, NEW e,
           Agrees(v, p), Agrees(e, Behind(d, kind, v))
    PROVE  Agrees(e, Behind(d, kind, p))
  <1>1. Behind(d, kind, 0) = 0 BY BehindNothing
  <1>2. CASE v = p BY <1>2
  <1>3. CASE v # p
    <2>1. Behind(d, kind, p) # 0 => Liberal BY <1>1, <1>3, Zenon DEF Agrees
    <2>2. e # 0 => CommentMisplaced BY <1>1, <1>3, Zenon DEF Agrees
    <2> QED BY <2>1, <2>2, Zenon DEF Agrees
  <1> QED BY <1>2, <1>3

\* The same, for the next state.
BehindsAgree ==
    \A d \in Seq(Tokens) : \A kind, v, p, e :
        Agrees(v, p) /\ Agrees(e, Behind(d, kind, v)) => Agrees(e, Behind(d, kind, p))

\* BehindAgrees, once for each state.
LEMMA BehindsAgreeStill == BehindsAgree /\ BehindsAgree'
  <1>1. BehindsAgree BY BehindAgrees DEF BehindsAgree
  <1>2. BehindsAgree' BY <1>1, PTL
  <1> QED BY <1>1, <1>2

\* The innermost call returns, and the value that it has read ends here, or
\* is refused.
LEMMA FollowsReturns ==
    ASSUME Shape, NEW t \in Tokens \cup {"end"}, Reads(t),
           NEW m \in Nat, Len(stack) = m + 1, m >= 1,
           NEW at, Follows(at), NEW ok \in BOOLEAN, Returns(ok), result' = "none",
           \A d : d \in Futures' => Agrees(ValueEnd(d, at[m + 1]), IF ok THEN Place ELSE 0)'
    PROVE  Follows(at)'
  <1>1. /\ Len(stack) \in Nat /\ doc \in Seq(Tokens)
        /\ root \in [kind : Kinds, items : Seq(Kinds), ok : BOOLEAN]
    BY StackFacts DEF Shape
  <1>3. Beginnings(at)' /\ at[2] = 1 BY DEF Follows, Beginnings
  <1>4. Len(stack') = m /\ Top' = stack'[m] BY <1>1 DEF Returns, Top
  <1>a. (m + 1) - 1 = m /\ (m + 1) - 2 = m - 1 OBVIOUS
  <1>5. RootEnds'
    <2> SUFFICES ASSUME m = 1, NEW d, d \in Futures'
                 PROVE  Agrees(ValueEnd(d, 1), IF root.ok THEN Place ELSE 0)'
      BY <1>4 DEF RootEnds, RootPlaces
    <2>1. root'.ok = ok
      <3>1. root' = [root EXCEPT !.ok = ok] BY DEF Returns
      <3> QED BY <1>1, <3>1
    <2>2. Agrees(ValueEnd(d, at[m + 1]), IF ok THEN Place ELSE 0)' OBVIOUS
    <2>3. at[m + 1] = 1 BY <1>3
    <2> QED BY <2>1, <2>2, <2>3 DEF Agrees
  <1>6. CallersEnd(at)'
    <2> SUFFICES ASSUME NEW k \in 2..(m - 1), NEW d, d \in Futures'
                 PROVE  Agrees(ValueEnd(d, at[k]),
                               Behind(d, stack[k].kind, ValueEnd(d, at[k + 1])))'
      BY <1>4 DEF CallersEnd
    <2>1. stack'[k] = stack[k] /\ k \in 2..(Len(stack) - 1) BY <1>1, <1>a DEF Returns
    <2>2. d \in Futures BY <1>1, ReadsOn
    <2>3. Agrees(ValueEnd(d, at[k]), Behind(d, stack[k].kind, ValueEnd(d, at[k + 1])))
      BY <2>1, <2>2 DEF Follows, CallersEnd
    <2> QED BY <2>1, <2>3, <1>1, LibertiesStay DEF Agrees
  <1>7. TopEnds(at)'
    <2> SUFFICES ASSUME m > 1, NEW d, d \in Futures'
                 PROVE  Continues(d, Place, Top, ValueEnd(d, at[m]))'
      BY <1>4 DEF TopEnds
    <2>1. m \in 2..(Len(stack) - 1) BY <1>1
    <2>2. d \in Futures /\ d \in Seq(Tokens) BY <1>1, ReadsOn
    <2> DEFINE kind == stack[m].kind
    <2>3. Agrees(ValueEnd(d, at[m]), Behind(d, kind, ValueEnd(d, at[m + 1])))
      BY <2>1, <2>2 DEF Follows, CallersEnd
    <2>4. PICK e : e = ValueEnd(d, at[m]) OBVIOUS
    <2>5. PICK v : v = ValueEnd(d, at[m + 1]) OBVIOUS
    <2>6. PICK c : c = kind OBVIOUS
    <2>7. Agrees(e, Behind(d, c, v))'
      BY <2>3, <2>4, <2>5, <2>6, <1>1, LibertiesStay DEF Agrees
    <2>8. Agrees(v, IF ok THEN Place ELSE 0)' BY <2>5
    <2>9. Caller = stack[m] BY <1>1 DEF Caller
    <2>10. c # "root"
      <3>1. m \in 1..Len(stack) /\ m # 1 BY ONLY <1>1, <2>1
      <3>2. stack[m].kind # "root" BY <3>1, Zenon DEF Shape
      <3> QED BY <2>6, <3>2, Zenon
    <2>11. Top' = [kind |-> c, expects |-> IF ok THEN "separator" ELSE "recovery",
                   unnamed |-> Caller.unnamed]
      <3>1. Caller.kind = c /\ Caller.kind # "root" BY <2>6, <2>9, <2>10
      <3>2. AfterIt(Caller, ok) = IF ok THEN "separator" ELSE "recovery"
        BY <3>1, Zenon DEF AfterIt
      <3>3. Top' = [kind |-> Caller.kind, expects |-> AfterIt(Caller, ok),
                    unnamed |-> Caller.unnamed]
        BY Zenon DEF Returns
      <3> QED BY <3>1, <3>2, <3>3, Zenon
    <2>12. CASE ok
      <3>1. Agrees(v, Place)' BY <2>8, <2>12
      <3>2. PICK p : p = Place' OBVIOUS
      <3>3. Agrees(v, p)' BY <3>1, <3>2 DEF Agrees
      <3>4. Agrees(e, Behind(d, c, p))'
        <4>1. BehindsAgree' BY BehindsAgreeStill
        <4> QED BY <4>1, <2>2, <2>7, <3>3 DEF BehindsAgree
      <3>5. Top'.expects = "separator" /\ Top'.kind = c BY <2>11, <2>12
      <3> QED BY <2>4, <3>2, <3>4, <3>5 DEF Continues, Agrees
    <2>13. CASE ~ok
      <3>1. Agrees(v, 0)' BY <2>8, <2>13
      <3>4. Agrees(e, Behind(d, c, 0))'
        <4>1. BehindsAgree' BY BehindsAgreeStill
        <4> QED BY <4>1, <2>2, <2>7, <3>1 DEF BehindsAgree
      <3>5. Behind(d, c, 0) = 0 BY <2>2, BehindNothing
      <3>6. Top'.expects = "recovery" BY <2>11, <2>13
      <3> QED BY <2>4, <3>4, <3>5, <3>6 DEF Continues, Agrees
    <2> QED BY <2>12, <2>13
  <1> QED BY <1>3, <1>5, <1>6, <1>7 DEF Follows

\* Where a value is looked for, the innermost call ends behind it.
LEMMA ValueIsLookedFor ==
    ASSUME Shape, NEW d \in Seq(Tokens), NEW p \in 1..(Len(d) + 1), NEW e,
           Top.expects \in {"value", "first"}, Len(stack) > 1,
           Continues(d, p, Top, e), At(d, p) # "]"
    PROVE  Agrees(e, Behind(d, Top.kind, ValueEnd(d, p)))
  <1>1. Top \in Frames /\ Top.kind # "root" BY StackFacts
  <1>2. CASE Top.kind = "array"
    <2>1. Agrees(e, FirstItem(d, p)) BY <1>2 DEF Continues
    <2>2. FirstItem(d, p) = Behind(d, "array", ValueEnd(d, p)) BY DEF FirstItem
    <2> QED BY <1>2, <2>1, <2>2
  <1>3. CASE Top.kind = "object"
    <2>1. Top.expects = "value"
      <3>1. "first" \notin ObjectExpects BY DEF ObjectExpects
      <3>2. "object" # "array" /\ "object" # "root" OBVIOUS
      <3> QED BY <1>1, <1>3, <3>1, <3>2, FrameFields
    <2> QED BY <1>3, <2>1 DEF Continues
  <1> QED BY <1>1, <1>2, <1>3, FrameFields

\* The innermost call looks for a value and finds a container.
LooksForValue == Top.expects \in {"value", "first"}
\* The bracket that begins a container, and the call that reads it.
Opens(t) == t \in {"[", "{"}
NewFrame(t) == IF t = "[" THEN Frame("array", "first") ELSE Frame("object", "name")

\* The value of the new call ends where that of the old one went on.
LEMMA FollowsCalls ==
    ASSUME Shape, NEW t, Opens(t), Reads(t),
           NEW m \in Nat, m = Len(stack), NEW p, p = Place,
           NEW at, Follows(at), LooksForValue, Calls(NewFrame(t))
    PROVE  Follows([at EXCEPT ![m + 1] = p])'
  <1> DEFINE b == [at EXCEPT ![m + 1] = p]
  <1>m. m >= 1 /\ m + 1 > 1 BY StackFacts
  <1>1. doc \in Seq(Tokens) /\ t \in Tokens \cup {"end"} /\ t \notin {"//", "end"}
    BY StackFacts DEF Tokens, Opens
  <1>2. Len(stack') = m + 1 /\ Top' = stack'[m + 1] /\ \A k \in 1..m : stack'[k] = stack[k]
    BY DEF Calls, Top
  <1>3. Place' = p + 1 BY <1>1, ReadsOn
  <1>a. p \in Nat
    <2>1. Len(Stripped) \in Nat BY <1>1, StrippedType
    <2> QED BY <2>1 DEF Place
  <1>b. at \in [Nat -> Nat] /\ at[2] = 1 BY DEF Follows, Beginnings
  <1>4. b \in [Nat -> Nat] /\ b[m + 1] = p /\ \A k \in 1..m : b[k] = at[k]
    <2>1. m + 1 \in Nat /\ at \in [Nat -> Nat] /\ p \in Nat BY <1>a, <1>b
    <2>2. \A k \in 1..m : k # m + 1 /\ k \in Nat BY ONLY m \in Nat
    <2>3. b \in [Nat -> Nat] /\ b[m + 1] = p BY ONLY <2>1 DEF b
    <2>4. \A k \in Nat : k # m + 1 => b[k] = at[k] BY ONLY <2>1 DEF b
    <2> HIDE DEF b
    <2> QED BY <2>2, <2>3, <2>4
  <1>5. b[2] = 1
    <2>1. CASE m = 1
      <3>1. Top.kind = "root" BY <2>1, StackFacts
      <3>2. Top.expects = "value"
        <4>1. Top \in Frames BY StackFacts
        <4>2. "root" # "array" /\ "root" # "object" /\ "first" # "trailer" /\ "first" # "value" OBVIOUS
        <4> QED BY <3>1, <4>1, <4>2, FrameFields, Zenon DEF LooksForValue
      <3>3. Stripped = <<>> BY <2>1, <3>2 DEF Shape
      <3>4. p = 1 BY <3>3 DEF Place
      <3> QED BY <2>1, <3>4, <1>4
    <2>2. CASE m > 1
      <3>1. 2 \in 1..m BY <2>2
      <3> QED BY <3>1, <1>4, <1>b
    <2> QED BY <2>1, <2>2, <1>m
  <1> HIDE DEF b
  <1>6. Beginnings(b)' BY <1>4, <1>5 DEF Beginnings
  <1>7. RootEnds'
    <2>1. Len(stack') # 1 BY <1>m, <1>2
    <2> QED BY ONLY <2>1, Zenon DEF RootEnds
  <1>8. CallersEnd(b)'
    <2> SUFFICES ASSUME NEW k \in 2..m, NEW d, d \in Futures'
                 PROVE  Agrees(ValueEnd(d, b[k]),
                               Behind(d, stack[k].kind, ValueEnd(d, b[k + 1])))'
      <3>1. Len(stack') - 1 = m BY <1>2
      <3> QED BY <3>1, Zenon DEF CallersEnd
    <2>1. stack'[k] = stack[k] /\ b[k] = at[k]
      <3>1. k \in 1..m BY ONLY k \in 2..m, m \in Nat
      <3> QED BY <3>1, <1>2, <1>4, Zenon
    <2>2. /\ d \in Futures /\ d \in Seq(Tokens) /\ p \in 1..(Len(d) + 1)
          /\ At(d, p) = t
      BY <1>1, ReadsOn
    <2>3. CASE k < m
      <3>1. k \in 2..(Len(stack) - 1) /\ k + 1 \in 1..m BY <2>3
      <3>2. Agrees(ValueEnd(d, at[k]), Behind(d, stack[k].kind, ValueEnd(d, at[k + 1])))
        BY <3>1, <2>2 DEF Follows, CallersEnd
      <3>3. b[k + 1] = at[k + 1] BY <3>1, <1>4
      <3> QED BY <3>2, <3>3, <2>1, <1>1, LibertiesStay DEF Agrees
    <2>4. CASE k = m
      <3>1. Continues(d, p, Top, ValueEnd(d, at[m]))
        BY <2>2, <2>4 DEF Follows, TopEnds
      <3>2. Len(stack) > 1 BY <2>4
      <3>5. t # "]" BY DEF Opens
      <3>3. Agrees(ValueEnd(d, at[m]), Behind(d, Top.kind, ValueEnd(d, p)))
        BY <3>1, <3>2, <3>5, <2>2, ValueIsLookedFor DEF LooksForValue
      <3>4. Top = stack[m] BY DEF Top
      <3> QED BY <3>3, <3>4, <2>1, <2>4, <1>4, <1>1, LibertiesStay DEF Agrees
    <2> QED BY <2>3, <2>4
  <1>9. TopEnds(b)'
    <2> SUFFICES ASSUME NEW d, d \in Futures'
                 PROVE  Continues(d, Place, Top, ValueEnd(d, b[m + 1]))'
      BY <1>2 DEF TopEnds
    <2>1. /\ d \in Seq(Tokens) /\ p \in 1..(Len(d) + 1) /\ At(d, p) = t
      BY <1>1, ReadsOn
    <2>2. CASE t = "["
      <3>1. ValueEnd(d, p) = FirstItem(d, p + 1) BY <2>1, <2>2, ValueBegins
      <3>2. Top' = [kind |-> "array", expects |-> "first", unnamed |-> TRUE]
        BY <2>2 DEF Calls, NewFrame, Frame
      <3> QED BY <3>1, <3>2, <1>3, <1>4 DEF Continues, Agrees
    <2>3. CASE t = "{"
      <3>1. ValueEnd(d, p) = NextName(d, p + 1, TRUE) BY <2>1, <2>3, ValueBegins
      <3>2. Top' = [kind |-> "object", expects |-> "name", unnamed |-> TRUE]
        BY <2>3 DEF Calls, NewFrame, Frame
      <3> QED BY <3>1, <3>2, <1>3, <1>4 DEF Continues, Agrees
    <2> QED BY <2>2, <2>3 DEF Opens
  <1> QED BY <1>6, <1>7, <1>8, <1>9 DEF Follows, b

-----------------------------------------------------------------------------
(* What the innermost call expects next.                                   *)

\* What is known of a document that goes on, at the place.
OnItsWay(d, p, q, t) ==
    /\ d \in Seq(Tokens) /\ p \in 1..(Len(d) + 1) /\ q \in 1..(Len(d) + 1)
    /\ t # "//" => At(d, p) = t
    /\ At(d, p - 1) = TokenBefore

\* What stands before the place is known.
LEMMA PlaceBefore ==
    ASSUME doc \in Seq(Tokens), NEW d, d \in Futures
    PROVE  At(d, Place - 1) = TokenBefore
  <1>1. /\ d \in Seq(Tokens) /\ Len(Stripped) <= Len(d)
        /\ \A i \in 1..Len(Stripped) : d[i] = Stripped[i]
    BY DEF Futures, Documents
  <1>2. Stripped \in Seq(Tokens) /\ Len(Stripped) \in Nat BY StrippedType
  <1>3. PICK n \in Nat : n = Len(Stripped) BY <1>2
  <1>4. DOMAIN d = 1..Len(d) /\ DOMAIN Stripped = 1..n /\ Len(d) \in Nat BY <1>1, <1>2, <1>3
  <1>5. Place - 1 = n BY <1>3 DEF Place
  <1>6. CASE n = 0
    <2>1. n \notin DOMAIN d /\ n \notin DOMAIN Stripped BY <1>4, <1>6
    <2> QED BY <2>1, <1>3, <1>5 DEF At, TokenBefore
  <1>7. CASE n # 0
    <2>1. n \in DOMAIN d /\ n \in DOMAIN Stripped /\ d[n] = Stripped[n]
      BY <1>1, <1>3, <1>4, <1>7
    <2> QED BY <2>1, <1>3, <1>5 DEF At, TokenBefore
  <1> QED BY <1>6, <1>7

\* The innermost call expects w next: where it will end has to be shown for
\* the documents that go on with t only.
LEMMA FollowsNext ==
    ASSUME Shape, NEW t \in Tokens \cup {"end"}, Reads(t), Len(stack) > 1,
           NEW at, Follows(at), NEW c, c = Top.kind, NEW w, NEW u, Stays(w, u),
           NEW p, p = Place, NEW q, q = Place',
           \A d, e : OnItsWay(d, p, q, t) /\ Continues(d, p, Top, e) =>
                         Continues(d, q, [kind |-> c, expects |-> w, unnamed |-> u], e)'
    PROVE  Follows(at)'
  <1>1. doc \in Seq(Tokens) BY StackFacts
  <1>2. ASSUME NEW d, NEW e, d \in Futures', Continues(d, Place, Top, e)
        PROVE  Continues(d, Place, Top, e)'
    <2>1. d \in Futures BY <1>1, <1>2, ReadsOn
    <2>2. At(d, p - 1) = TokenBefore BY <1>1, <2>1, PlaceBefore
    <2>3. OnItsWay(d, p, q, t) BY <1>1, <1>2, <2>2, ReadsOn DEF OnItsWay
    <2>4. Continues(d, p, Top, e) BY <1>2
    <2>5. Continues(d, q, [kind |-> c, expects |-> w, unnamed |-> u], e)' BY <2>3, <2>4
    <2>6. Top' = [kind |-> c, expects |-> w, unnamed |-> u] BY DEF Stays
    <2> QED BY <2>5, <2>6 DEF Continues, Agrees
  <1> QED BY <1>2, FollowsStays

\* What a call that expects something has to show.
Expecteds ==
    \A d, p, e, u :
        /\ \A c \in {"array", "object"}, w \in {"separator", "any_separator"} :
              Agrees(e, Behind(d, c, p)) =>
                  Continues(d, p, [kind |-> c, expects |-> w, unnamed |-> u], e)
        /\ \A w \in {"first", "value"} : Agrees(e, FirstItem(d, p)) =>
              Continues(d, p, [kind |-> "array", expects |-> w, unnamed |-> u], e)
        /\ Agrees(e, Behind(d, "object", ValueEnd(d, p))) =>
              Continues(d, p, [kind |-> "object", expects |-> "value", unnamed |-> u], e)
        /\ Agrees(e, NextName(d, p, u)) =>
              Continues(d, p, [kind |-> "object", expects |-> "name", unnamed |-> u], e)
        /\ Agrees(e, Colon(d, p)) =>
              Continues(d, p, [kind |-> "object", expects |-> "colon", unnamed |-> u], e)
        /\ \A c \in {"array", "object"} : (At(d, p) # ":" => Agrees(e, 0)) =>
              Continues(d, p, [kind |-> c, expects |-> "recovery", unnamed |-> u], e)

\* The same for the next state.
LEMMA ExpectedsNext == Expecteds'
  <1>1. Expecteds BY DEF Expecteds, Continues
  <1> QED BY <1>1, PTL

\* A container expects nothing of the root.
LEMMA ContainerFacts ==
    ASSUME Shape, Len(stack) > 1
    PROVE  \/ Top.kind = "array" /\ Top.expects \in ArrayExpects
           \/ Top.kind = "object" /\ Top.expects \in ObjectExpects
  <1>1. Top \in Frames /\ Top.kind # "root" BY StackFacts
  <1> QED BY <1>1, FrameFields, Zenon

\* A comment behind "[" stands where "]" is not looked for.
LEMMA HiddenBracket ==
    ASSUME doc \in Seq(Tokens), CommentsBehind({"["}), Reads("]")
    PROVE  CommentMisplaced'
  <1>1. doc' = Append(doc, "]")
    <2>1. "]" # "end" OBVIOUS
    <2> QED BY <2>1 DEF Reads
  <1>2. PICK n \in Nat : n = Len(doc) OBVIOUS
  <1>3. PICK i \in 1..(n - 1) : doc[i] = "[" /\ \A k \in (i + 1)..n : doc[k] = "//"
    BY <1>2 DEF CommentsBehind
  <1>4. DOMAIN doc' = 1..(n + 1) /\ doc'[n + 1] = "]" /\ \A k \in 1..n : doc'[k] = doc[k]
    BY <1>1, <1>2
  <1>5. i \in 1..n /\ n + 1 \in 1..(n + 1) /\ i \in 1..(n + 1) /\ i < n + 1 /\ n + 1 > i + 1
        /\ (n + 1) - 1 = n /\ \A k \in (i + 1)..n : k \in 1..n
    BY ONLY n \in Nat, i \in 1..(n - 1)
  <1>6. \A k \in (i + 1)..((n + 1) - 1) : doc'[k] = "//" BY <1>3, <1>4, <1>5, Zenon
  <1>7. doc'[i] = "[" BY <1>3, <1>4, <1>5, Zenon
  <1>8. PICK j : j = n + 1 OBVIOUS
  <1>9. i \in DOMAIN doc' /\ j \in DOMAIN doc' /\ i < j /\ j > i + 1
        /\ doc'[j] = "]" /\ \A k \in (i + 1)..(j - 1) : doc'[k] = "//"
    BY <1>4, <1>5, <1>6, <1>8, Zenon
  <1> QED BY <1>7, <1>9, Zenon DEF CommentMisplaced

\* readValue() in a container.
LEMMA ReadScalarFollows ==
    ASSUME Shape, Liberties, NEW t \in Tokens \cup {"end"}, ReadScalar(t), Len(stack) > 1,
           NEW at, Follows(at)
    PROVE  Follows(at)'
  <1>1. /\ Reads(t) /\ LooksForValue /\ t \notin {"{", "[", "//"}
        /\ t = "]" => Top.expects = "value"
    BY DEF ReadScalar, LooksForValue
  <1>2. PICK c : c = Top.kind OBVIOUS
  <1>3. PICK w : w = IF t \in Scalars THEN "separator" ELSE "recovery" OBVIOUS
  <1>4. PICK u : u = Top.unnamed OBVIOUS
  <1>6. Stays(w, u) BY <1>3, <1>4, ScalarStays
  <1>7. PICK p : p = Place OBVIOUS
  <1>8. PICK q : q = Place' OBVIOUS
  <1>9. c \in {"array", "object"} /\ doc \in Seq(Tokens)
    BY <1>2, ContainerFacts, StackFacts
  <1>10. ASSUME NEW d, NEW e, OnItsWay(d, p, q, t), Continues(d, p, Top, e)
         PROVE  Continues(d, q, [kind |-> c, expects |-> w, unnamed |-> u], e)'
    <2>1. /\ d \in Seq(Tokens) /\ p \in 1..(Len(d) + 1) /\ At(d, p) = t
          /\ At(d, p - 1) = TokenBefore
      BY <1>1, <1>10 DEF OnItsWay
    <2>2. CASE t \in Scalars
      <3>1. q = p + 1
        <4>1. t \notin {"//", "end"} BY <2>2 DEF Scalars, Strings
        <4> QED BY <4>1, <1>1, <1>7, <1>8, <1>9, ReadsOn, Zenon
      <3>2. ValueEnd(d, p) = q BY <2>1, <2>2, <3>1, ValueBegins, Zenon
      <3>3. t # "]" BY <2>2 DEF Scalars, Strings
      <3>4. Agrees(e, Behind(d, c, q))
        <4>1. At(d, p) # "]" BY <3>3, <2>1
        <4>2. Top.expects \in {"value", "first"} BY <1>1 DEF LooksForValue
        <4>3. Agrees(e, Behind(d, Top.kind, ValueEnd(d, p)))
          BY ONLY <4>1, <4>2, <2>1, <1>10, ValueIsLookedFor, Shape, Len(stack) > 1
        <4> QED BY <4>3, <3>2, <1>2
      <3>5. Agrees(e, Behind(d, c, q))' BY <3>4, <1>1, <1>9, AgreesOn
      <3> QED BY <3>5, <2>2, <1>3, <1>9, ExpectedsNext DEF Expecteds
    <2>3. CASE t \notin Scalars
      <3>1. ValueEnd(d, p) = 0
        <4>1. At(d, p) \notin Scalars \cup {"[", "{"} BY <2>1, <2>3, <1>1
        <4> QED BY <4>1, <2>1, ValueBegins
      <3>2. Behind(d, c, 0) = 0 BY <2>1, BehindNothing
      <3>3. Agrees(e, 0)'
        <4>1. CASE c = "object"
          <5>1. Top.expects = "value"
            <6>1. "first" \notin ObjectExpects /\ "object" # "array" BY DEF ObjectExpects
            <6> QED BY <6>1, <4>1, <1>1, <1>2, ContainerFacts, Zenon DEF LooksForValue
          <5>2. Agrees(e, Behind(d, "object", ValueEnd(d, p)))
            BY <5>1, <4>1, <1>2, <1>10, Zenon DEF Continues
          <5> QED BY <5>2, <4>1, <3>1, <3>2, <1>1, <1>9, AgreesOn
        <4>2. CASE c = "array" /\ t = "]" /\ At(d, p - 1) = "["
          <5>1. CommentsBehind({"["}) BY <4>2, <2>1, <1>1, <1>2 DEF Liberties, CommentsSeen
          <5>2. CommentMisplaced' BY <5>1, <4>2, <1>1, <1>9, HiddenBracket
          <5> QED BY <5>2 DEF Agrees
        <4>3. CASE c = "array" /\ ~(t = "]" /\ At(d, p - 1) = "[")
          <5>1. Agrees(e, FirstItem(d, p))
            BY <4>3, <1>1, <1>2, <1>10, Zenon DEF Continues, LooksForValue
          <5>2. FirstItem(d, p) = 0
            BY <4>3, <3>1, <3>2, <2>1, Zenon DEF FirstItem
          <5> QED BY <5>1, <5>2, <1>1, <1>9, AgreesOn
        <4> QED BY <4>1, <4>2, <4>3, <1>9
      <3> QED BY <3>3, <2>3, <1>3, <1>9, ExpectedsNext DEF Expecteds
    <2> QED BY <2>2, <2>3
  <1> QED BY <1>1, <1>2, <1>6, <1>7, <1>8, <1>10, FollowsNext

\* After an item that is not the last.
LEMMA ReadArraySeparatorFollows ==
    ASSUME Shape, Liberties, NEW t \in Tokens \cup {"end"}, ReadArraySeparator(t),
           t # "]", Len(stack) > 1, NEW at, Follows(at)
    PROVE  Follows(at)'
  <1>1. /\ Reads(t) /\ Top.kind = "array" /\ Top.expects = "separator" /\ t # "//"
    BY DEF ReadArraySeparator, Expecting
  <1>2. PICK c : c = Top.kind OBVIOUS
  <1>3. PICK w : w = IF t = "," THEN "value" ELSE "recovery" OBVIOUS
  <1>4. PICK u : u = Top.unnamed OBVIOUS
  <1>6. Stays(w, u) BY <1>3, <1>4, ArraySeparatorStays
  <1>7. PICK p : p = Place OBVIOUS
  <1>8. PICK q : q = Place' OBVIOUS
  <1>9. doc \in Seq(Tokens) BY StackFacts
  <1>10. ASSUME NEW d, NEW e, OnItsWay(d, p, q, t), Continues(d, p, Top, e)
         PROVE  Continues(d, q, [kind |-> c, expects |-> w, unnamed |-> u], e)'
    <2>1. /\ d \in Seq(Tokens) /\ p \in 1..(Len(d) + 1) /\ At(d, p) = t
      BY <1>1, <1>10 DEF OnItsWay
    <2>2. Agrees(e, Behind(d, "array", p)) BY <1>1, <1>10, Zenon DEF Continues
    <2>3. CASE t = ","
      <3>1. q = p + 1
        <4>1. t \notin {"//", "end"} BY <2>3
        <4> QED BY <4>1, <1>1, <1>7, <1>8, <1>9, ReadsOn, Zenon
      <3>2. Behind(d, "array", p) = FirstItem(d, q)
        <4>1. "," # "]" OBVIOUS
        <4> QED BY <3>1, <4>1, <2>1, <2>3, BehindArray, Zenon
      <3>3. Agrees(e, FirstItem(d, q))' BY <2>2, <3>2, <1>1, <1>9, AgreesOn
      <3>4. w = "value" /\ c = "array" BY <2>3, <1>1, <1>2, <1>3
      <3> QED BY <3>3, <3>4, ExpectedsNext, Zenon DEF Expecteds
    <2>4. CASE t # ","
      <3>1. Behind(d, "array", p) = 0 BY <2>1, <2>4, BehindArray, Zenon
      <3>2. Agrees(e, 0)' BY <2>2, <3>1, <1>1, <1>9, AgreesOn
      <3>3. w = "recovery" /\ c = "array" BY <2>4, <1>1, <1>2, <1>3
      <3> QED BY <3>2, <3>3, ExpectedsNext, Zenon DEF Expecteds
    <2> QED BY <2>3, <2>4
  <1> QED BY <1>1, <1>2, <1>6, <1>7, <1>8, <1>10, FollowsNext

\* A name, or none.
LEMMA ReadNameFollows ==
    ASSUME Shape, Liberties, NEW t \in Tokens \cup {"end"}, ReadName(t),
           ~(t = "}" /\ Top.unnamed), Len(stack) > 1, NEW at, Follows(at)
    PROVE  Follows(at)'
  <1>1. /\ Reads(t) /\ Top.kind = "object" /\ Top.expects = "name" /\ t # "//"
    BY DEF ReadName, Expecting
  <1>2. PICK c : c = Top.kind OBVIOUS
  <1>3. PICK w : w = IF t \in Strings THEN "colon" ELSE "recovery" OBVIOUS
  <1>4. PICK u : u = (t # "name") OBVIOUS
  <1>6. Stays(w, u) BY <1>3, <1>4, NameStays
  <1>7. PICK p : p = Place OBVIOUS
  <1>8. PICK q : q = Place' OBVIOUS
  <1>9. doc \in Seq(Tokens) BY StackFacts
  <1>10. ASSUME NEW d, NEW e, OnItsWay(d, p, q, t), Continues(d, p, Top, e)
         PROVE  Continues(d, q, [kind |-> c, expects |-> w, unnamed |-> u], e)'
    <2>1. /\ d \in Seq(Tokens) /\ p \in 1..(Len(d) + 1) /\ At(d, p) = t
      BY <1>1, <1>10 DEF OnItsWay
    <2>2. Agrees(e, NextName(d, p, Top.unnamed)) BY <1>1, <1>10, Zenon DEF Continues
    <2>a. NextName(d, p, Top.unnamed) = MembersEnd(d, p) BY <2>1, Zenon DEF NextName
    <2>3. CASE t \in Strings
      <3>1. q = p + 1
        <4>1. t \notin {"//", "end"} BY <2>3 DEF Strings
        <4> QED BY <4>1, <1>1, <1>7, <1>8, <1>9, ReadsOn, Zenon
      <3>2. MembersEnd(d, p) = Colon(d, q) BY <3>1, <2>1, <2>3, MemberBegins, Zenon
      <3>3. Agrees(e, Colon(d, q))' BY <2>2, <2>a, <3>2, <1>1, <1>9, AgreesOn
      <3>4. w = "colon" /\ c = "object" BY <2>3, <1>1, <1>2, <1>3
      <3> QED BY <3>3, <3>4, ExpectedsNext, Zenon DEF Expecteds
    <2>4. CASE t \notin Strings
      <3>1. MembersEnd(d, p) = 0 BY <2>1, <2>4, MemberBegins, Zenon
      <3>2. Agrees(e, 0)' BY <2>2, <2>a, <3>1, <1>1, <1>9, AgreesOn
      <3>3. w = "recovery" /\ c = "object" BY <2>4, <1>1, <1>2, <1>3
      <3> QED BY <3>2, <3>3, ExpectedsNext, Zenon DEF Expecteds
    <2> QED BY <2>3, <2>4
  <1> QED BY <1>1, <1>2, <1>6, <1>7, <1>8, <1>10, FollowsNext

\* The colon.  Where a comment is read instead, there may be a colon yet: but
\* then the comment was misplaced.
LEMMA ReadColonFollows ==
    ASSUME Shape, Liberties, NEW t \in Tokens \cup {"end"}, ReadColon(t),
           Len(stack) > 1, NEW at, Follows(at)
    PROVE  Follows(at)'
  <1>1. /\ Reads(t) /\ Top.kind = "object" /\ Top.expects = "colon"
    BY DEF ReadColon, Expecting
  <1>2. PICK c : c = Top.kind OBVIOUS
  <1>3. PICK w : w = IF t = ":" THEN "value" ELSE "recovery" OBVIOUS
  <1>4. PICK u : u = Top.unnamed OBVIOUS
  <1>6. Stays(w, u) BY <1>3, <1>4, ColonStays
  <1>7. PICK p : p = Place OBVIOUS
  <1>8. PICK q : q = Place' OBVIOUS
  <1>9. doc \in Seq(Tokens) BY StackFacts
  <1>10. ASSUME NEW d, NEW e, OnItsWay(d, p, q, t), Continues(d, p, Top, e)
         PROVE  Continues(d, q, [kind |-> c, expects |-> w, unnamed |-> u], e)'
    <2>1. /\ d \in Seq(Tokens) /\ p \in 1..(Len(d) + 1)
          /\ t # "//" => At(d, p) = t
      BY <1>10 DEF OnItsWay
    <2>2. Agrees(e, Colon(d, p)) BY <1>1, <1>10, Zenon DEF Continues
    <2>3. CASE t = ":"
      <3>1. q = p + 1
        <4>1. t \notin {"//", "end"} BY <2>3
        <4> QED BY <4>1, <1>1, <1>7, <1>8, <1>9, ReadsOn, Zenon
      <3>2. Colon(d, p) = Behind(d, "object", ValueEnd(d, q))
        <4>1. ":" # "//" OBVIOUS
        <4> QED BY <3>1, <4>1, <2>1, <2>3, Zenon DEF Colon
      <3>3. Agrees(e, Behind(d, "object", ValueEnd(d, q)))'
        BY <2>2, <3>2, <1>1, <1>9, AgreesOn
      <3>4. w = "value" /\ c = "object" BY <2>3, <1>1, <1>2, <1>3
      <3> QED BY <3>3, <3>4, ExpectedsNext, Zenon DEF Expecteds
    <2>4. CASE t # ":"
      <3>1. ASSUME At(d, q) # ":" PROVE Colon(d, p) = 0
        <4>1. CASE t = "//"
          <5>1. q = p BY <4>1, <1>1, <1>7, <1>8, <1>9, ReadsOn, Zenon
          <5> QED BY <5>1, <3>1, Zenon DEF Colon
        <4>2. CASE t # "//" BY <4>2, <2>1, <2>4, Zenon DEF Colon
        <4> QED BY <4>1, <4>2
      <3>2. At(d, q) # ":" => Agrees(e, 0)' BY <2>2, <3>1, <1>1, <1>9, AgreesOn
      <3>3. w = "recovery" /\ c = "object" BY <2>4, <1>1, <1>2, <1>3
      <3> QED BY <3>2, <3>3, ExpectedsNext, Zenon DEF Expecteds
    <2> QED BY <2>3, <2>4
  <1> QED BY <1>1, <1>2, <1>6, <1>7, <1>8, <1>10, FollowsNext

\* After a member that is not the last, or is taken not to be.
LEMMA ReadObjectSeparatorFollows ==
    ASSUME Shape, Liberties, NEW t \in Tokens \cup {"end"}, ReadObjectSeparator(t),
           t # "}", Len(stack) > 1, NEW at, Follows(at)
    PROVE  Follows(at)'
  <1>1. /\ Reads(t) /\ Top.kind = "object" /\ Top.expects \in {"separator", "any_separator"}
        /\ t # "//"
    BY DEF ReadObjectSeparator, Expecting
  <1>2. PICK c : c = Top.kind OBVIOUS
  <1>3. PICK w : w = AfterMember(t) OBVIOUS
  <1>4. PICK u : u = Top.unnamed OBVIOUS
  <1>6. Stays(w, u) BY <1>3, <1>4, ObjectSeparatorStays
  <1>7. PICK p : p = Place OBVIOUS
  <1>8. PICK q : q = Place' OBVIOUS
  <1>9. doc \in Seq(Tokens) BY StackFacts
  <1>10. ASSUME NEW d, NEW e, OnItsWay(d, p, q, t), Continues(d, p, Top, e)
         PROVE  Continues(d, q, [kind |-> c, expects |-> w, unnamed |-> u], e)'
    <2>1. /\ d \in Seq(Tokens) /\ p \in 1..(Len(d) + 1) /\ At(d, p) = t
          /\ q \in 1..(Len(d) + 1)
      BY <1>1, <1>10 DEF OnItsWay
    <2>2. Agrees(e, Behind(d, "object", p))
      BY <1>1, <1>10, Zenon DEF Continues
    <2>3. CASE t = ","
      <3>1. q = p + 1
        <4>1. t \notin {"//", "end"} BY <2>3
        <4> QED BY <4>1, <1>1, <1>7, <1>8, <1>9, ReadsOn, Zenon
      <3>2. Behind(d, "object", p) = NextName(d, q, FALSE)
        <4>1. "," # "}" OBVIOUS
        <4> QED BY <3>1, <4>1, <2>1, <2>3, BehindObject, Zenon
      <3>3. Agrees(e, NextName(d, q, FALSE))' BY <2>2, <3>2, <1>1, <1>9, AgreesOn
      <3>4. w = "name" /\ c = "object" BY <2>3, <1>1, <1>2, <1>3 DEF AfterMember
      <3>5. Agrees(e, NextName(d, q, u))'
        <4>1. q - 1 = p BY ONLY <3>1, <2>1
        <4>2. "," # "{" OBVIOUS
        <4>3. NextName(d, q, u) = NextName(d, q, FALSE)
          BY <4>1, <4>2, <2>1, <2>3, Zenon DEF NextName
        <4> QED BY <3>3, <4>3
      <3> QED BY <3>4, <3>5, ExpectedsNext, Zenon DEF Expecteds
    <2>4. CASE t # ","
      <3>1. Behind(d, "object", p) = 0 BY <2>1, <2>4, BehindObject, Zenon
      <3>2. Agrees(e, 0)' BY <2>2, <3>1, <1>1, <1>9, AgreesOn
      <3>3. CASE Top.expects = "any_separator"
        <4>3. w = "name" /\ c = "object" BY <3>3, <1>1, <1>2, <1>3 DEF AfterMember
        <4>4. Agrees(e, NextName(d, q, u))'
          <5>1. CASE t = "end"
            <6>1. q = p BY <5>1, <1>1, <1>7, <1>8, <1>9, ReadsOn, Zenon
            <6>2. "end" \notin Strings /\ "end" # "}" BY DEF Strings
            <6>3. MembersEnd(d, q) = 0 BY <6>1, <6>2, <5>1, <2>1, MemberBegins, Zenon
            <6>4. NextName(d, q, u) = 0 BY <6>1, <6>2, <6>3, <5>1, <2>1, Zenon DEF NextName
            <6> QED BY <3>2, <6>4
          <5>2. CASE t # "end"
            <6>1. CommentsBehind(ValueEnds) BY <3>3 DEF Liberties, CommentsSeen
            <6>2. Liberal'
              <7>1. t \in Tokens \ {",", "}", "//"} BY <1>1, <2>4, <5>2
              <7> QED BY <6>1, <7>1, <1>1, <1>9, CommentIsLiberal
            <6> QED BY <3>2, <6>2 DEF Agrees
          <5> QED BY <5>1, <5>2
        <4> QED BY <4>3, <4>4, ExpectedsNext, Zenon DEF Expecteds
      <3>4. CASE Top.expects # "any_separator"
        <4>1. w = "recovery" /\ c = "object" BY <2>4, <3>4, <1>1, <1>2, <1>3 DEF AfterMember
        <4> QED BY <3>2, <4>1, ExpectedsNext, Zenon DEF Expecteds
      <3> QED BY <3>3, <3>4
    <2> QED BY <2>3, <2>4
  <1> QED BY <1>1, <1>2, <1>6, <1>7, <1>8, <1>10, FollowsNext

\* A comment.
LEMMA ReadCommentFollows ==
    ASSUME Shape, Liberties, ReadComment, Len(stack) > 1, NEW at, Follows(at)
    PROVE  Follows(at)'
  <1>1. /\ Reads("//") /\ "//" \in Tokens \cup {"end"}
        /\ Top.expects \in {"value", "first", "name", "separator", "any_separator", "trailer"}
    BY DEF ReadComment, Tokens
  <1>2. PICK c : c = Top.kind OBVIOUS
  <1>3. PICK w : w = AfterComment OBVIOUS
  <1>4. PICK u : u = Top.unnamed OBVIOUS
  <1>6. Stays(w, u) BY <1>3, <1>4, CommentStays
  <1>7. PICK p : p = Place OBVIOUS
  <1>8. PICK q : q = Place' OBVIOUS
  <1>9. doc \in Seq(Tokens) BY StackFacts
  <1>11. p = q BY <1>1, <1>7, <1>8, <1>9, ReadsOn, Zenon
  <1>10. ASSUME NEW d, NEW e, OnItsWay(d, p, q, "//"), Continues(d, p, Top, e)
         PROVE  Continues(d, q, [kind |-> c, expects |-> w, unnamed |-> u], e)'
    <2>0. c \in {"array", "object"} BY <1>2, ContainerFacts
    <2>1. CASE c = "array" /\ Top.expects \in {"value", "first"}
      <3>1. Agrees(e, FirstItem(d, p)) BY <2>1, <1>2, <1>10, Zenon DEF Continues
      <3>2. Agrees(e, FirstItem(d, q))' BY <3>1, <1>1, <1>9, <1>11, AgreesOn
      <3>3. w = "value" BY <2>1, <1>2, <1>3 DEF AfterComment
      <3> QED BY <2>1, <3>2, <3>3, ExpectedsNext, Zenon DEF Expecteds
    <2>2. CASE c = "object" /\ Top.expects \in {"value", "first"}
      <3>1. Top.expects = "value"
        <4>1. "first" \notin ObjectExpects /\ "object" # "array" BY DEF ObjectExpects
        <4> QED BY <4>1, <2>2, <1>2, ContainerFacts, Zenon
      <3>2. Agrees(e, Behind(d, "object", ValueEnd(d, p)))
        BY <2>2, <3>1, <1>2, <1>10, Zenon DEF Continues
      <3>3. Agrees(e, Behind(d, "object", ValueEnd(d, q)))'
        BY <3>2, <1>1, <1>9, <1>11, AgreesOn
      <3>4. w = "value" BY <3>1, <1>2, <1>3 DEF AfterComment
      <3> QED BY <2>2, <3>3, <3>4, ExpectedsNext, Zenon DEF Expecteds
    <2>3. CASE Top.expects \in {"separator", "any_separator"}
      <3>1. Agrees(e, Behind(d, c, p)) BY <2>3, <1>2, <1>10, Zenon DEF Continues
      <3>2. Agrees(e, Behind(d, c, q))' BY <3>1, <1>1, <1>9, <1>11, AgreesOn
      <3>3. w \in {"separator", "any_separator"} BY <2>3, <1>2, <1>3 DEF AfterComment
      <3> QED BY <2>0, <3>2, <3>3, ExpectedsNext, Zenon DEF Expecteds
    <2>4. CASE Top.expects = "name"
      <3>1. Agrees(e, NextName(d, p, u)) BY <2>4, <1>4, <1>10, Zenon DEF Continues
      <3>2. Agrees(e, NextName(d, q, u))' BY <3>1, <1>1, <1>9, <1>11, AgreesOn
      <3>3. w = "name" BY <2>4, <1>2, <1>3 DEF AfterComment
      <3>4. c = "object"
        <4>1. "name" \notin ArrayExpects BY DEF ArrayExpects
        <4> QED BY <4>1, <2>4, <1>2, ContainerFacts, Zenon
      <3> QED BY <3>2, <3>3, <3>4, ExpectedsNext, Zenon DEF Expecteds
    <2>5. Top.expects # "trailer"
      <3>1. "trailer" \notin ArrayExpects /\ "trailer" \notin ObjectExpects
        BY DEF ArrayExpects, ObjectExpects
      <3> QED BY <3>1, ContainerFacts, Zenon
    <2> QED BY <1>1, <2>0, <2>1, <2>2, <2>3, <2>4, <2>5
  <1> QED BY <1>1, <1>2, <1>6, <1>7, <1>8, <1>10, FollowsNext

\* recoverFromError() skips what is not the end of its container.
LEMMA RecoverFollows ==
    ASSUME Shape, Liberties, NEW t \in Tokens \cup {"end"}, Recover(t),
           t \notin {"end", IF Top.kind = "array" THEN "]" ELSE "}"},
           Len(stack) > 1, NEW at, Follows(at)
    PROVE  Follows(at)'
  <1>1. /\ Reads(t) /\ Top.expects = "recovery" /\ t \notin {"//", ":"}
    BY DEF Recover, Expecting
  <1>2. PICK c : c = Top.kind OBVIOUS
  <1>4. PICK u : u = Top.unnamed OBVIOUS
  <1>6. Stays("recovery", u) BY <1>4, RecoverStays
  <1>7. PICK p : p = Place OBVIOUS
  <1>8. PICK q : q = Place' OBVIOUS
  <1>9. doc \in Seq(Tokens) BY StackFacts
  <1>10. ASSUME NEW d, NEW e, OnItsWay(d, p, q, t), Continues(d, p, Top, e)
         PROVE  Continues(d, q, [kind |-> c, expects |-> "recovery", unnamed |-> u], e)'
    <2>1. At(d, p) = t BY <1>1, <1>10 DEF OnItsWay
    <2>2. Agrees(e, 0) BY <2>1, <1>1, <1>10, Zenon DEF Continues
    <2>3. Agrees(e, 0)' BY <2>2, <1>1, <1>9, AgreesOn
    <2>4. c \in {"array", "object"} BY <1>2, ContainerFacts
    <2> QED BY <2>3, <2>4, ExpectedsNext, Zenon DEF Expecteds
  <1> QED BY <1>1, <1>2, <1>6, <1>7, <1>8, <1>10, FollowsNext

-----------------------------------------------------------------------------
(* The innermost call returns.                                             *)

\* The value that begins at at[k] has been read, or is refused.
IsOver(at, k, ok) ==
    \A d : d \in Futures => Agrees(ValueEnd(d, at[k]), IF ok THEN Place ELSE 0)

\* Where it ends has to be shown for the documents that go on with t only.
LEMMA EndedBy ==
    ASSUME Shape, NEW t \in Tokens \cup {"end"}, Reads(t),
           NEW k, k = Len(stack), Len(stack) > 1, NEW at, Follows(at),
           NEW ok \in BOOLEAN, NEW p, p = Place, NEW q, q = Place',
           \A d, e : OnItsWay(d, p, q, t) /\ Continues(d, p, Top, e) =>
                         Agrees(e, IF ok THEN q ELSE 0)'
    PROVE  IsOver(at, k, ok)'
  <1>1. doc \in Seq(Tokens) BY StackFacts
  <1>2. ASSUME NEW d, d \in Futures'
        PROVE  Agrees(ValueEnd(d, at[k]), IF ok THEN Place ELSE 0)'
    <2>1. d \in Futures BY <1>1, <1>2, ReadsOn
    <2>2. At(d, p - 1) = TokenBefore BY <1>1, <2>1, PlaceBefore
    <2>3. OnItsWay(d, p, q, t) BY <1>1, <1>2, <2>2, ReadsOn DEF OnItsWay
    <2>4. PICK e : e = ValueEnd(d, at[k]) OBVIOUS
    <2>5. Continues(d, p, Top, e) BY <2>1, <2>4 DEF Follows, TopEnds
    <2>7. Agrees(e, IF ok THEN q ELSE 0)' BY <2>3, <2>5
    <2> QED BY <2>4, <2>7 DEF Agrees
  <1> QED BY <1>2 DEF IsOver

\* "]" at once, or after an item.
LEMMA ArrayEnds ==
    ASSUME Shape, Liberties, Reads("]"), Top.kind = "array", Top.expects \in {"first", "separator"},
           NEW k, k = Len(stack), Len(stack) > 1, NEW at, Follows(at)
    PROVE  IsOver(at, k, TRUE)'
  <1>1. "]" \in Tokens \cup {"end"} /\ "]" \notin {"//", "end"} BY DEF Tokens
  <1>2. doc \in Seq(Tokens) BY StackFacts
  <1>7. PICK p : p = Place OBVIOUS
  <1>8. PICK q : q = Place' OBVIOUS
  <1>9. q = p + 1 BY <1>1, <1>2, <1>7, <1>8, ReadsOn, Zenon
  <1>10. ASSUME NEW d, NEW e, OnItsWay(d, p, q, "]"), Continues(d, p, Top, e)
         PROVE  Agrees(e, q)'
    <2> SUFFICES Agrees(e, q) BY <1>1, <1>2, AgreesOn
    <2>1. /\ d \in Seq(Tokens) /\ p \in 1..(Len(d) + 1) /\ At(d, p) = "]"
          /\ At(d, p - 1) = TokenBefore
      BY <1>1, <1>10 DEF OnItsWay
    <2>2. CASE Top.expects = "first"
      <3>1. At(d, p - 1) = "[" BY <2>1, <2>2 DEF Liberties, CommentsSeen
      <3>2. FirstItem(d, p) = q BY <3>1, <2>1, <1>9, Zenon DEF FirstItem
      <3>3. Agrees(e, FirstItem(d, p)) BY <2>2, <1>10, Zenon DEF Continues
      <3> QED BY <3>2, <3>3
    <2>3. CASE Top.expects = "separator"
      <3>1. Behind(d, "array", p) = q BY <2>1, <1>9, BehindArray, Zenon
      <3>2. Agrees(e, Behind(d, "array", p)) BY <2>3, <1>10, Zenon DEF Continues
      <3> QED BY <3>1, <3>2
    <2> QED BY <2>2, <2>3
  <1> QED BY <1>1, <1>7, <1>8, <1>10, EndedBy

\* "}" where no name has been read, or after a member.
LEMMA ObjectEnds ==
    ASSUME Shape, Liberties, Reads("}"), Top.kind = "object",
           \/ Top.expects = "name" /\ Top.unnamed
           \/ Top.expects \in {"separator", "any_separator"},
           NEW k, k = Len(stack), Len(stack) > 1, NEW at, Follows(at)
    PROVE  IsOver(at, k, TRUE)'
  <1>1. "}" \in Tokens \cup {"end"} /\ "}" \notin {"//", "end"} BY DEF Tokens
  <1>2. doc \in Seq(Tokens) BY StackFacts
  <1>7. PICK p : p = Place OBVIOUS
  <1>8. PICK q : q = Place' OBVIOUS
  <1>9. q = p + 1 BY <1>1, <1>2, <1>7, <1>8, ReadsOn, Zenon
  <1>10. ASSUME NEW d, NEW e, OnItsWay(d, p, q, "}"), Continues(d, p, Top, e)
         PROVE  Agrees(e, q)'
    <2>1. /\ d \in Seq(Tokens) /\ p \in 1..(Len(d) + 1) /\ At(d, p) = "}"
          /\ At(d, p - 1) = TokenBefore
      BY <1>1, <1>10 DEF OnItsWay
    <2>2. CASE Top.expects = "name" /\ Top.unnamed
      <3>1. Agrees(e, NextName(d, p, Top.unnamed)) BY <2>2, <1>10, Zenon DEF Continues
      <3>2. CASE TokenBefore = "{"
        <4>1. NextName(d, p, Top.unnamed) = q BY <2>1, <2>2, <3>2, <1>9, Zenon DEF NextName
        <4> QED BY <3>1, <4>1, <1>1, <1>2, AgreesOn
      <3>3. CASE TokenBefore # "{"
        <4>1. EmptyNamed /\ (TokenBefore = "," \/ Liberal \/ atEnd)
          <5>1. "name" # "recovery" /\ "name" # "colon" OBVIOUS
          <5> QED BY <5>1, <2>2, <3>3, Zenon DEF Liberties, TopNamed
        <4>2. ~atEnd
          <5>1. "}" # "end" OBVIOUS
          <5> QED BY <5>1, Zenon DEF Reads
        <4>3. Liberal' BY <4>1, <4>2, <1>1, <1>2, LastCommaIsLiberal, LibertiesStay
        <4>4. NextName(d, p, Top.unnamed) = 0
          <5>1. "}" \notin Strings BY DEF Strings
          <5>2. MembersEnd(d, p) = 0 BY <5>1, <2>1, MemberBegins, Zenon
          <5> QED BY <5>2, <2>1, <3>3, Zenon DEF NextName
        <4>5. Agrees(e, 0)' BY <3>1, <4>4, <1>1, <1>2, AgreesOn
        <4> QED BY <4>3, <4>5 DEF Agrees
      <3> QED BY <3>2, <3>3
    <2>3. CASE Top.expects \in {"separator", "any_separator"}
      <3>1. Behind(d, "object", p) = q BY <2>1, <1>9, BehindObject, Zenon
      <3>2. Agrees(e, Behind(d, "object", p)) BY <2>3, <1>10, Zenon DEF Continues
      <3> QED BY <3>1, <3>2, <1>1, <1>2, AgreesOn
    <2> QED BY <2>2, <2>3
  <1> QED BY <1>1, <1>7, <1>8, <1>10, EndedBy

\* The end of the container that has failed, or of the document.
LEMMA RecoveryEnds ==
    ASSUME Shape, Liberties, NEW t \in {"]", "}", "end"}, Reads(t),
           Top.expects = "recovery",
           NEW k, k = Len(stack), Len(stack) > 1, NEW at, Follows(at)
    PROVE  IsOver(at, k, FALSE)'
  <1>1. t \in Tokens \cup {"end"} /\ t \notin {"//", ":"} BY DEF Tokens
  <1>7. PICK p : p = Place OBVIOUS
  <1>8. PICK q : q = Place' OBVIOUS
  <1>10. ASSUME NEW d, NEW e, OnItsWay(d, p, q, t), Continues(d, p, Top, e)
         PROVE  Agrees(e, 0)'
    <2>1. At(d, p) = t BY <1>1, <1>10 DEF OnItsWay
    <2>2. Agrees(e, 0) BY <2>1, <1>1, <1>10, Zenon DEF Continues
    <2>3. doc \in Seq(Tokens) BY StackFacts
    <2> QED BY <2>2, <2>3, <1>1, AgreesOn
  <1> QED BY <1>1, <1>7, <1>8, <1>10, EndedBy

\* The caller of what has ended goes on behind it.
LEMMA FollowsEnded ==
    ASSUME Shape, NEW t \in Tokens \cup {"end"}, Reads(t), Len(stack) > 1,
           NEW at, Follows(at), NEW ok \in BOOLEAN, Leaves(ok),
           NEW k, k = Len(stack), IsOver(at, k, ok)', result' = "none"
    PROVE  Follows(at)'
  <1>1. Len(stack) \in Nat BY StackFacts
  <1>2. PICK m \in Nat : Len(stack) = m + 1 /\ m >= 1
    <2>1. Len(stack) - 1 \in Nat /\ Len(stack) = (Len(stack) - 1) + 1 /\ Len(stack) - 1 >= 1
      BY ONLY <1>1, Len(stack) > 1
    <2> QED BY <2>1
  <1>3. Returns(ok) BY LeavesReturns
  <1>4. k = m + 1 BY <1>2
  <1>5. \A d : d \in Futures' => Agrees(ValueEnd(d, at[m + 1]), IF ok THEN Place ELSE 0)'
    BY <1>4 DEF IsOver
  <1> QED BY <1>2, <1>3, <1>5, FollowsReturns

-----------------------------------------------------------------------------
(* The root.                                                               *)

\* When only the root is left, there is no call to follow.
LEMMA FollowsRoot ==
    ASSUME NEW at, Follows(at), Len(stack') = 1, RootEnds'
    PROVE  Follows(at)'
  <1>1. Beginnings(at)' BY DEF Follows, Beginnings
  <1>2. CallersEnd(at)' BY DEF CallersEnd
  <1>3. TopEnds(at)' BY DEF TopEnds
  <1> QED BY <1>1, <1>2, <1>3 DEF Follows

\* A value that is no array or object,
LEMMA RootScalarFollows ==
    ASSUME Shape, NEW t \in Tokens \cup {"end"}, ReadScalar(t), Len(stack) = 1,
           NEW at, Follows(at)
    PROVE  Follows(at)'
  <1>1. /\ Reads(t) /\ t \notin {"{", "[", "//"} /\ Top.expects \in {"value", "first"}
        /\ result' = result /\ result = "none"
    BY DEF ReadScalar
  <1>2. doc \in Seq(Tokens) /\ root \in [kind : Kinds, items : Seq(Kinds), ok : BOOLEAN]
    BY StackFacts DEF Shape
  <1>3. Top.kind = "root" BY StackFacts
  <1>4. Place = 1
    <2>1. Top.expects = "value"
      <3>1. Top \in Frames BY StackFacts
      <3>2. "root" # "array" /\ "root" # "object" /\ "first" # "trailer" /\ "first" # "value" OBVIOUS
      <3> QED BY <1>1, <1>3, <3>1, <3>2, FrameFields, Zenon
    <2>2. Stripped = <<>> BY <2>1 DEF Shape
    <2> QED BY <2>2 DEF Place
  <1>5. root'.ok = (t \in Scalars)
    <2>1. root' = [Puts(t) EXCEPT !.ok = t \in Scalars] BY <1>3 DEF ReadScalar
    <2>2. Puts(t) = [root EXCEPT !.kind = ValueOf(t)] BY <1>3, Zenon DEF Puts
    <2> QED BY <2>1, <2>2, <1>2
  <1>6. RootEnds'
    <2> SUFFICES ASSUME NEW d, d \in Futures'
                 PROVE  Agrees(ValueEnd(d, 1), IF root.ok THEN Place ELSE 0)'
      BY <1>1 DEF RootEnds, RootPlaces
    <2>1. d \in Seq(Tokens) /\ 1 \in 1..(Len(d) + 1) /\ At(d, 1) = t
      BY <1>1, <1>2, <1>4, ReadsOn, Zenon
    <2>2. CASE t \in Scalars
      <3>1. t \notin {"//", "end"} BY <2>2 DEF Scalars, Strings
      <3>2. Place' = 1 + 1 BY <3>1, <1>1, <1>2, <1>4, ReadsOn, Zenon
      <3>3. ValueEnd(d, 1) = 1 + 1 BY <2>1, <2>2, ValueBegins, Zenon
      <3> QED BY <2>2, <3>2, <3>3, <1>5 DEF Agrees
    <2>3. CASE t \notin Scalars
      <3>1. ValueEnd(d, 1) = 0
        <4>1. At(d, 1) \notin Scalars \cup {"[", "{"} BY <2>1, <2>3, <1>1
        <4> QED BY <4>1, <2>1, ValueBegins, Zenon
      <3> QED BY <2>3, <3>1, <1>5 DEF Agrees
    <2> QED BY <2>2, <2>3
  <1>7. Len(stack') = 1
    <2>1. Stays("trailer", Top.unnamed) BY RootScalarStays
    <2> QED BY <2>1, Zenon DEF Stays
  <1> QED BY <1>6, <1>7, FollowsRoot

\* comments around the value,
LEMMA RootCommentFollows ==
    ASSUME Shape, ReadComment, Len(stack) = 1, NEW at, Follows(at)
    PROVE  Follows(at)'
  <1>1. /\ Reads("//") /\ "//" \in Tokens \cup {"end"} /\ result' = result /\ result = "none"
        /\ root' = root
    BY DEF ReadComment, Tokens
  <1>2. doc \in Seq(Tokens) BY StackFacts
  <1>3. Stays(AfterComment, Top.unnamed) BY CommentStays
  <1>4. Len(stack') = 1 BY <1>3, Zenon DEF Stays
  <1>5. AfterComment = "trailer" => Top.expects = "trailer" BY DEF AfterComment
  <1>6. Place' = Place BY <1>1, <1>2, ReadsOn, Zenon
  <1>7. RootEnds'
    <2> SUFFICES ASSUME Top'.expects = "trailer", NEW d, d \in Futures'
                 PROVE  Agrees(ValueEnd(d, 1), IF root.ok THEN Place ELSE 0)'
      BY <1>1 DEF RootEnds, RootPlaces
    <2>1. Top.expects = "trailer" BY <1>3, <1>5 DEF Stays
    <2>2. d \in Futures BY <1>1, <1>2, ReadsOn
    <2>3. Agrees(ValueEnd(d, 1), IF root.ok THEN Place ELSE 0)
      BY <2>1, <2>2, <1>1 DEF Follows, RootEnds, RootPlaces
    <2> QED BY <2>3, <1>1, <1>2, <1>6, LibertiesStay DEF Agrees
  <1> QED BY <1>4, <1>7, FollowsRoot

\* and the token after it.
LEMMA ReturnFollows ==
    ASSUME Shape, NEW t \in Tokens \cup {"end"}, Return(t), NEW at, Follows(at)
    PROVE  Follows(at)'
  <1>1. /\ Reads(t) /\ t # "//" /\ root' = root /\ stack' = stack /\ result = "none"
        /\ result' # "none" /\ Top.kind = "root" /\ Top.expects = "trailer"
    BY DEF Return, Expecting
  <1>2. doc \in Seq(Tokens) /\ Len(stack) = 1 BY <1>1, StackFacts
  <1>3. Place \in {Place', Place' - 1} \ {0}
    <2>1. Place' = Place \/ Place' = Place + 1 BY <1>1, <1>2, ReadsOn, Zenon
    <2>2. Len(Stripped) \in Nat BY <1>2, StrippedType
    <2>3. Place \in Nat /\ Place # 0 BY ONLY <2>2 DEF Place
    <2> QED BY ONLY <2>1, <2>3
  <1>4. RootEnds'
    <2> SUFFICES ASSUME NEW d, d \in Futures'
                 PROVE  \E p \in {Place', Place' - 1} \ {0} :
                            Agrees(ValueEnd(d, 1), IF root.ok THEN p ELSE 0)'
      BY <1>1 DEF RootEnds, RootPlaces
    <2>2. d \in Futures BY <1>1, <1>2, ReadsOn
    <2>3. Agrees(ValueEnd(d, 1), IF root.ok THEN Place ELSE 0)
      BY <2>2, <1>1, <1>2 DEF Follows, RootEnds, RootPlaces
    <2>4. PICK p : p = Place OBVIOUS
    <2>5. Agrees(ValueEnd(d, 1), IF root.ok THEN p ELSE 0)'
      BY <2>3, <2>4, <1>1, <1>2, LibertiesStay DEF Agrees
    <2> QED BY <2>4, <2>5, <1>3
  <1> QED BY <1>1, <1>2, <1>4, FollowsRoot

-----------------------------------------------------------------------------
(* The variables and their types.                                          *)

\* The values of the root.
RootTypes == [kind : Kinds, items : Seq(Kinds), ok : BOOLEAN]

\* A frame that may be on the stack below another.
WaitsForValue(f) == f.expects \in {"value", "first"}

\* What a document and its end are after a token.
LEMMA DocumentTypes ==
    ASSUME doc \in Seq(Tokens), NEW t \in Tokens \cup {"end"}, Reads(t)
    PROVE  /\ doc' \in Seq(Tokens) /\ atEnd' \in BOOLEAN
           /\ doc' = <<>> => doc = <<>> /\ t = "end" /\ atEnd'
           /\ t # "end" => doc' = Append(doc, t) /\ LastRead' = t
  <1>1. CASE t = "end" BY <1>1 DEF Reads
  <1>2. CASE t # "end"
    <2>1. doc' = Append(doc, t) /\ t \in Tokens /\ atEnd' = FALSE BY <1>2 DEF Reads
    <2>2. /\ doc' \in Seq(Tokens) /\ Len(doc') \in Nat /\ Len(doc') = Len(doc) + 1
          /\ doc'[Len(doc')] = t
      BY <2>1
    <2>3. doc' # <<>>
      <3>1. Len(doc) \in Nat OBVIOUS
      <3>2. Len(doc') # 0 BY ONLY <2>2, <3>1
      <3>3. Len(<<>>) = 0 OBVIOUS
      <3> QED BY <3>2, <3>3
    <2> QED BY <1>2, <2>1, <2>2, <2>3 DEF LastRead
  <1> QED BY <1>1, <1>2

\* What the token leaves in the root.
LEMMA PutsType ==
    ASSUME root \in RootTypes, NEW t
    PROVE  Puts(t) \in RootTypes
  <1>1. ValueOf(t) \in Kinds BY DEF ValueOf, Kinds
  <1>2. PICK v \in Kinds : v = ValueOf(t) BY <1>1
  <1>3. [root EXCEPT !.kind = v] \in RootTypes BY DEF RootTypes
  <1>4. [root EXCEPT !.items = Append(@, v)] \in RootTypes
    <2>1. root.items \in Seq(Kinds) BY DEF RootTypes
    <2>2. Append(root.items, v) \in Seq(Kinds) BY <2>1
    <2> QED BY <2>2 DEF RootTypes
  <1> QED BY <1>2, <1>3, <1>4, Zenon DEF Puts

\* The shape after each of the three things a step may do with the stack.
NextShape ==
    /\ stack' \in Seq(Frames) /\ Len(stack') >= 1
    /\ \A k \in 1..Len(stack') : stack'[k].kind = "root" <=> k = 1
    /\ \A k \in 1..(Len(stack') - 1) : WaitsForValue(stack'[k])

\* A stack of frames.
LEMMA StackType ==
    ASSUME NEW s, IsStack(s), NEW n \in Nat, Len(s) = n, \A k \in 1..n : s[k] \in Frames
    PROVE  s \in Seq(Frames)
  <1>1. s = [k \in 1..n |-> s[k]] BY DEF IsStack
  <1> QED BY <1>1

\* The stack keeps its shape when the innermost call goes on,
LEMMA StaysShape ==
    ASSUME Shape, NEW w, NEW u, Stays(w, u),
           [kind |-> Top.kind, expects |-> w, unnamed |-> u] \in Frames
    PROVE  NextShape
  <1>1. PICK n \in Nat : n = Len(stack) /\ n >= 1 BY StackFacts
  <1>2. /\ IsStack(stack') /\ Len(stack') = n
        /\ \A k \in 1..(n - 1) : stack'[k] = stack[k]
        /\ stack'[n] = [kind |-> stack[n].kind, expects |-> w, unnamed |-> u]
        /\ stack'[n] \in Frames
    BY <1>1, Zenon DEF Stays, Top
  <1>3. /\ \A k \in 1..n : stack[k] \in Frames /\ (stack[k].kind = "root" <=> k = 1)
        /\ \A k \in 1..(n - 1) : WaitsForValue(stack[k])
    BY <1>1, StackFacts, Zenon DEF Shape, WaitsForValue
  <1>4. \A k \in 1..n : k \in 1..(n - 1) \/ k = n BY ONLY n \in Nat
  <1>5. \A k \in 1..n : stack'[k] \in Frames /\ stack'[k].kind = stack[k].kind
    <2>1. stack'[n].kind = stack[n].kind BY ONLY <1>2
    <2> QED BY <1>2, <1>3, <1>4, <2>1, Zenon
  <1>6. stack' \in Seq(Frames) BY <1>2, <1>5, StackType, Zenon
  <1>7. \A k \in 1..n : stack'[k].kind = "root" <=> k = 1 BY <1>3, <1>5, Zenon
  <1>8. \A k \in 1..(n - 1) : WaitsForValue(stack'[k]) BY <1>2, <1>3, Zenon
  <1> QED BY <1>1, <1>2, <1>6, <1>7, <1>8, Zenon DEF NextShape

\* when it calls,
LEMMA CallsShape ==
    ASSUME Shape, LooksForValue, NEW f \in Frames, f.kind # "root", Calls(f)
    PROVE  NextShape
  <1>1. PICK n \in Nat : n = Len(stack) /\ n >= 1 BY StackFacts
  <1>a. (n + 1) - 1 = n /\ n + 1 >= 1 /\ n + 1 # 1 /\ n + 1 \in Nat BY <1>1
  <1>2. /\ IsStack(stack') /\ Len(stack') = n + 1
        /\ \A k \in 1..n : stack'[k] = stack[k]
        /\ stack'[n + 1] = f
    BY <1>1, Zenon DEF Calls, Top
  <1>3. /\ \A k \in 1..n : stack[k] \in Frames /\ (stack[k].kind = "root" <=> k = 1)
        /\ \A k \in 1..(n - 1) : WaitsForValue(stack[k])
        /\ WaitsForValue(stack[n])
    BY <1>1, StackFacts, Zenon DEF Shape, WaitsForValue, LooksForValue, Top
  <1>4. /\ \A k \in 1..n : k \in 1..(n - 1) \/ k = n
        /\ \A k \in 1..(n + 1) : k \in 1..n \/ k = n + 1
    BY ONLY n \in Nat
  <1>5. \A k \in 1..(n + 1) : stack'[k] \in Frames /\ (stack'[k].kind = "root" <=> k = 1)
    BY <1>2, <1>3, <1>4, <1>a, Zenon
  <1>6. stack' \in Seq(Frames) BY <1>2, <1>5, <1>a, StackType, Zenon
  <1>7. \A k \in 1..n : WaitsForValue(stack'[k]) BY <1>2, <1>3, <1>4, Zenon
  <1> QED BY <1>a, <1>2, <1>5, <1>6, <1>7, Zenon DEF NextShape

\* and when it returns.
LEMMA ReturnsShape ==
    ASSUME Shape, Len(stack) > 1, NEW ok \in BOOLEAN, Returns(ok)
    PROVE  NextShape
  <1>1. PICK n \in Nat : n = Len(stack) - 1 /\ n >= 1 /\ Len(stack) = n + 1
    <2>1. Len(stack) \in Nat BY StackFacts
    <2> QED BY ONLY <2>1, Len(stack) > 1
  <1>a. (n + 1) - 1 = n /\ (n + 1) - 2 = n - 1 /\ n \in 1..(n + 1) /\ n \in 1..n BY <1>1
  <1>2. /\ IsStack(stack') /\ Len(stack') = n
        /\ \A k \in 1..(n - 1) : stack'[k] = stack[k]
        /\ stack'[n] = [kind |-> stack[n].kind, expects |-> AfterIt(stack[n], ok),
                        unnamed |-> stack[n].unnamed]
    BY <1>1, <1>a, Zenon DEF Returns, Caller, Top
  <1>3. /\ \A k \in 1..(n + 1) : stack[k] \in Frames /\ (stack[k].kind = "root" <=> k = 1)
        /\ \A k \in 1..n : WaitsForValue(stack[k])
    BY <1>1, <1>a, StackFacts, Zenon DEF Shape, WaitsForValue
  <1>4. /\ \A k \in 1..n : k \in 1..(n - 1) \/ k = n
        /\ \A k \in 1..n : k \in 1..(n + 1)
        /\ \A k \in 1..(n - 1) : k \in 1..n
    BY ONLY n \in Nat
  <1>b. stack'[n] \in Frames
    <2>1. stack[n] \in Frames BY <1>a, <1>3
    <2>2. PICK f \in Frames : f = stack[n] BY <2>1
    <2>3. [kind |-> f.kind, expects |-> AfterIt(f, ok), unnamed |-> f.unnamed] \in Frames
      BY DEF Frames, AfterIt, ArrayExpects, ObjectExpects
    <2> QED BY <1>2, <2>2, <2>3
  <1>5. \A k \in 1..n : stack'[k] \in Frames /\ stack'[k].kind = stack[k].kind
    <2>1. stack'[n].kind = stack[n].kind BY ONLY <1>2
    <2> QED BY <1>2, <1>3, <1>4, <1>b, <2>1, Zenon
  <1>6. stack' \in Seq(Frames) BY <1>2, <1>5, StackType, Zenon
  <1>7. \A k \in 1..n : stack'[k].kind = "root" <=> k = 1 BY <1>3, <1>4, <1>5, Zenon
  <1>8. \A k \in 1..(n - 1) : WaitsForValue(stack'[k]) BY <1>2, <1>3, <1>4, Zenon
  <1> QED BY <1>1, <1>2, <1>6, <1>7, <1>8, Zenon DEF NextShape

\* With the stack, the other variables keep their types.
LEMMA ShapeNext ==
    ASSUME Shape, NEW t \in Tokens \cup {"end"}, Reads(t), NextShape,
           root' \in RootTypes, result' = "none",
           Len(stack) = 1 => Len(stack') = 1 \/ t \notin {"end", "//"},
           Len(stack) = 1 /\ t = "//" => Top'.expects = Top.expects,
           Len(stack') = 1 => \/ Top'.expects # "value"
                              \/ Len(stack) = 1 /\ Top.expects = "value" /\ t = "//" /\ root' = root
    PROVE  Shape'
  <1>1. doc \in Seq(Tokens) BY StackFacts
  <1>2. doc' \in Seq(Tokens) /\ atEnd' \in BOOLEAN BY <1>1, DocumentTypes
  <1>3. Stripped' = <<>> => Len(stack') = 1 /\ (Top'.expects = "trailer" => atEnd')
    <2> SUFFICES ASSUME Stripped' = <<>>
                 PROVE  Len(stack') = 1 /\ (Top'.expects = "trailer" => atEnd')
      OBVIOUS
    <2>1. Stripped = <<>> /\ t \in {"end", "//"} BY <1>1, StrippedMore
    <2>2. Len(stack) = 1 /\ (Top.expects = "trailer" => atEnd) BY <2>1 DEF Shape
    <2>3. CASE t = "end" BY <2>2, <2>3 DEF Reads
    <2>4. CASE t = "//"
      <3>1. ~atEnd
        <4>1. "//" # "end" OBVIOUS
        <4> QED BY <4>1, <2>4 DEF Reads
      <3> QED BY <2>2, <2>4, <3>1
    <2> QED BY <2>1, <2>3, <2>4
  <1>4. Len(stack') = 1 /\ Top'.expects = "value" => Stripped' = <<>> /\ root'.items = <<>>
    <2> SUFFICES ASSUME Len(stack') = 1, Top'.expects = "value"
                 PROVE  Stripped' = <<>> /\ root'.items = <<>>
      OBVIOUS
    <2>1. Len(stack) = 1 /\ Top.expects = "value" /\ t = "//" /\ root' = root OBVIOUS
    <2>2. Stripped' = Stripped BY <2>1, <1>1, ReadsAComment
    <2> QED BY <2>1, <2>2 DEF Shape
  <1>5. result' \in {"none", "success", "failure"} OBVIOUS
  <1>6. /\ stack' \in Seq(Frames) /\ Len(stack') >= 1
        /\ \A k \in 1..Len(stack') : stack'[k].kind = "root" <=> k = 1
        /\ \A k \in 1..(Len(stack') - 1) : stack'[k].expects \in {"value", "first"}
    BY Zenon DEF NextShape, WaitsForValue
  <1> QED BY <1>2, <1>3, <1>4, <1>5, <1>6, Zenon DEF Shape, RootTypes

-----------------------------------------------------------------------------
(* The liberties.                                                          *)

\* The callers keep their names when the innermost call goes on,
LEMMA StaysNamed ==
    ASSUME Shape, NEW t \in Tokens \cup {"end"}, Reads(t), CallersNamed,
           NEW w, NEW u, Stays(w, u)
    PROVE  CallersNamed'
  <1>1. doc \in Seq(Tokens) BY StackFacts
  <1>2. EmptyNamed => EmptyNamed' BY <1>1, LibertiesStay
  <1>3. Len(stack') = Len(stack) /\ \A k \in 1..(Len(stack) - 1) : stack'[k] = stack[k]
    BY Zenon DEF Stays
  <1> QED BY <1>2, <1>3, Zenon DEF CallersNamed

\* when it calls, since a name has been read before a value is,
LEMMA CallsNamed ==
    ASSUME Shape, NEW t \in Tokens \cup {"end"}, Reads(t), Liberties, LooksForValue,
           NEW f, Calls(f)
    PROVE  CallersNamed'
  <1>1. doc \in Seq(Tokens) BY StackFacts
  <1>2. EmptyNamed => EmptyNamed' BY <1>1, LibertiesStay
  <1>3. PICK n \in Nat : n = Len(stack) BY StackFacts
  <1>4. Len(stack') = n + 1 /\ \A k \in 1..n : stack'[k] = stack[k]
    BY <1>3, Zenon DEF Calls
  <1>5. (n + 1) - 1 = n /\ \A k \in 1..n : k \in 1..(n - 1) \/ k = n BY ONLY n \in Nat
  <1>6. \A k \in 1..n : stack[k].kind = "object" /\ stack[k].unnamed => EmptyNamed
    <2>1. \A k \in 1..(n - 1) : stack[k].kind = "object" /\ stack[k].unnamed => EmptyNamed
      BY <1>3, Zenon DEF Liberties, CallersNamed
    <2>2. Top.kind = "object" /\ Top.unnamed => EmptyNamed
      <3>1. Top.expects \notin {"name", "recovery"} /\ Top.expects # "colon"
        BY DEF LooksForValue
      <3> QED BY <3>1, Zenon DEF Liberties, TopNamed
    <2> QED BY <2>1, <2>2, <1>3, <1>5, Zenon DEF Top
  <1> QED BY <1>2, <1>4, <1>5, <1>6, Zenon DEF CallersNamed

\* and when it returns, and then the caller is the innermost one.
LEMMA ReturnsNamed ==
    ASSUME Shape, NEW t \in Tokens \cup {"end"}, Reads(t), Liberties, Len(stack) > 1,
           NEW ok, Returns(ok)
    PROVE  CallersNamed' /\ TopNamed'
  <1>1. doc \in Seq(Tokens) BY StackFacts
  <1>2. EmptyNamed => EmptyNamed' BY <1>1, LibertiesStay
  <1>3. PICK n \in Nat : n = Len(stack) - 1 /\ n >= 1 /\ Len(stack) = n + 1
    <2>1. Len(stack) \in Nat BY StackFacts
    <2> QED BY ONLY <2>1, Len(stack) > 1
  <1>a. /\ (n + 1) - 1 = n /\ (n + 1) - 2 = n - 1 /\ n \in 1..n
        /\ \A k \in 1..(n - 1) : k \in 1..n
    BY ONLY <1>3
  <1>4. /\ Len(stack') = n /\ \A k \in 1..(n - 1) : stack'[k] = stack[k]
        /\ Top' = [kind |-> stack[n].kind, expects |-> AfterIt(stack[n], ok),
                   unnamed |-> stack[n].unnamed]
    BY <1>3, <1>a, Zenon DEF Returns, Caller
  <1>5. \A k \in 1..n : stack[k].kind = "object" /\ stack[k].unnamed => EmptyNamed
    BY <1>3, <1>a, Zenon DEF Liberties, CallersNamed
  <1>6. CallersNamed' BY <1>2, <1>4, <1>5, <1>a, Zenon DEF CallersNamed
  <1>7. Top'.kind = stack[n].kind /\ Top'.unnamed = stack[n].unnamed BY ONLY <1>4
  <1>b. Top'.expects # "name"
    <2>1. AfterIt(stack[n], ok) # "name" BY DEF AfterIt
    <2> QED BY <1>4, <2>1
  <1>8. TopNamed' BY <1>2, <1>5, <1>7, <1>a, <1>b, Zenon DEF TopNamed
  <1> QED BY <1>6, <1>8

\* What an object without a name has to show when it expects w,
StillNamed(w) ==
    \/ w = "recovery"
    \/ w = "name" /\ TokenBefore = "{"
    \/ w = "colon" /\ TokenBefore = "empty"
    \/ EmptyNamed /\ (w = "name" => TokenBefore = "," \/ Liberal \/ atEnd)

\* and what a container that goes on has to show.
LEMMA LibertiesGoOn ==
    ASSUME Shape, NEW t \in Tokens \cup {"end"}, Reads(t), Liberties,
           NEW w, NEW u, Stays(w, u), w # "first",
           w = "any_separator" => CommentsBehind(ValueEnds)',
           Top.kind = "object" /\ w = "separator" => LastRead' \in ValueEnds,
           Top.kind = "object" /\ u => StillNamed(w)',
           Top.kind = "array" /\ w = "value" =>
               t = "," \/ CommentsBehind({"["})' \/ TokenBefore' # "["
    PROVE  Liberties'
  <1>1. doc \in Seq(Tokens) BY StackFacts
  <1>2. CallersNamed'
    <2>1. CallersNamed BY Zenon DEF Liberties
    <2> QED BY <2>1, StaysNamed
  <1>3. Top'.kind = Top.kind /\ Top'.expects = w /\ Top'.unnamed = u BY DEF Stays
  <1>5. TopNamed' BY <1>3, Zenon DEF TopNamed, StillNamed
  <1>6. t = "," => TokenBefore' # "["
    <2>1. t = "," => t \in Tokens \ {"//"} BY DEF Tokens
    <2>2. t = "," => TokenBefore' = t BY <1>1, <2>1, ReadsBefore, Zenon
    <2>3. "," # "[" OBVIOUS
    <2> QED BY <2>2, <2>3, Zenon
  <1>7. CommentsSeen' BY <1>3, <1>6, Zenon DEF CommentsSeen
  <1> QED BY <1>2, <1>5, <1>7, Zenon DEF Liberties

\* A call begins.
LEMMA LibertiesOfCall ==
    ASSUME Shape, NEW t, Opens(t), Reads(t), Liberties, LooksForValue, Calls(NewFrame(t))
    PROVE  Liberties'
  <1>1. doc \in Seq(Tokens) /\ t \in Tokens \cup {"end"} /\ t \in Tokens \ {"//"} /\ t # "end"
    BY StackFacts DEF Opens, Tokens
  <1>2. CallersNamed' BY <1>1, CallsNamed
  <1>3. Top' = NewFrame(t) BY DEF Calls
  <1>4. /\ t = "[" => Top'.kind = "array" /\ Top'.expects = "first"
        /\ t # "[" => Top'.kind = "object" /\ Top'.expects = "name"
    BY <1>3 DEF NewFrame, Frame
  <1>6. LastRead' = t BY <1>1, DocumentTypes
  <1>7. TokenBefore' = t BY <1>1, ReadsBefore
  <1>5. TopNamed' BY <1>4, <1>7 DEF TopNamed, Opens
  <1>8. CommentsSeen' BY <1>4, <1>6, <1>7 DEF CommentsSeen
  <1> QED BY <1>2, <1>5, <1>8 DEF Liberties

\* A call is over.
LEMMA LibertiesOfReturn ==
    ASSUME Shape, NEW t \in Tokens \cup {"end"}, Reads(t), Liberties, Len(stack) > 1,
           NEW ok, Returns(ok), ok => t \in {"]", "}"}
    PROVE  Liberties'
  <1>1. CallersNamed' /\ TopNamed' BY ReturnsNamed
  <1>2. Top'.expects = AfterIt(Caller, ok) BY DEF Returns
  <1>3. /\ Top'.expects \notin {"any_separator", "first", "value"}
        /\ Top'.expects = "separator" => ok
    BY <1>2 DEF AfterIt
  <1>4. ok => LastRead' \in ValueEnds
    <2>1. doc \in Seq(Tokens) BY StackFacts
    <2>2. t # "end" => LastRead' = t BY <2>1, DocumentTypes
    <2> QED BY <2>2 DEF ValueEnds
  <1>5. CommentsSeen' BY <1>3, <1>4 DEF CommentsSeen
  <1> QED BY <1>1, <1>5 DEF Liberties

\* Comments are behind a token, or behind more comments.
LEMMA CommentHides ==
    ASSUME doc \in Seq(Tokens), Reads("//"), NEW S, "nothing" \notin S,
           CommentsBehind(S) \/ LastRead \in S
    PROVE  CommentsBehind(S)'
  <1>1. doc' = Append(doc, "//")
    <2>1. "//" # "end" OBVIOUS
    <2> QED BY <2>1 DEF Reads
  <1>2. PICK n \in Nat : n = Len(doc) OBVIOUS
  <1>3. Len(doc') = n + 1 /\ doc'[n + 1] = "//" /\ \A k \in 1..n : doc'[k] = doc[k]
    BY <1>1, <1>2
  <1>4. PICK i \in 1..n : doc[i] \in S /\ \A k \in (i + 1)..n : doc[k] = "//"
    <2>1. CASE CommentsBehind(S)
      <3>1. PICK i \in 1..(n - 1) : doc[i] \in S /\ \A k \in (i + 1)..n : doc[k] = "//"
        BY <2>1, <1>2 DEF CommentsBehind
      <3>2. i \in 1..n BY ONLY n \in Nat, i \in 1..(n - 1)
      <3> QED BY <3>1, <3>2, Zenon
    <2>2. CASE LastRead \in S
      <3>1. doc # <<>> /\ doc[n] \in S BY <2>2, <1>2 DEF LastRead
      <3>2. n # 0
        <4>1. doc # <<>> BY <3>1
        <4> QED BY ONLY <4>1, <1>2, doc \in Seq(Tokens)
      <3>3. n \in 1..n /\ \A k \in (n + 1)..n : FALSE BY ONLY <3>2, n \in Nat
      <3> QED BY <3>1, <3>3, Zenon
    <2> QED BY <2>1, <2>2
  <1>5. i \in 1..((n + 1) - 1) /\ \A k \in (i + 1)..(n + 1) : k \in (i + 1)..n \/ k = n + 1
    BY ONLY n \in Nat, i \in 1..n
  <1>6. \A k \in (i + 1)..n : k \in 1..n BY ONLY n \in Nat, i \in 1..n
  <1>7. doc'[i] \in S BY <1>3, <1>4, Zenon
  <1>8. \A k \in (i + 1)..(n + 1) : doc'[k] = "//" BY <1>3, <1>4, <1>5, <1>6, Zenon
  <1> QED BY <1>3, <1>5, <1>7, <1>8, Zenon DEF CommentsBehind

-----------------------------------------------------------------------------
(* The items.                                                              *)

\* A value ends behind where it begins, or nowhere.
LEMMA GrammarEnds ==
    ASSUME NEW d \in Seq(Tokens)
    PROVE  \A i \in 1..(Len(d) + 1) : Ending(Grammar(d)[i], i, Len(d) + 1)
  <1> DEFINE n == Len(d) + 1
             G == Grammar(d)
             S == {k \in Nat : \A i \in 1..n : i + k > n => Ending(G[i], i, n)}
  <1>0. n \in Nat /\ n >= 1 OBVIOUS
  <1>1. 0 \in S BY <1>0
  <1>2. ASSUME NEW k \in Nat, k \in S PROVE k + 1 \in S
    <2> SUFFICES ASSUME NEW i \in 1..n, i + (k + 1) > n PROVE Ending(G[i], i, n)
      OBVIOUS
    <2>1. \A j \in (i + 1)..n : Ending(G[j], j, n)
      <3> SUFFICES ASSUME NEW j \in (i + 1)..n PROVE Ending(G[j], j, n) OBVIOUS
      <3>1. j \in 1..n /\ j + k > n BY <1>0
      <3> HIDE DEF G, n
      <3> QED BY <1>2, <3>1
    <2>2. Ending(GrammarAt(d, G, i), i, n)
      <3> HIDE DEF G
      <3> QED BY <2>1, DocumentSpans, GrammarLocal
    <2>3. G[i] = GrammarAt(d, G, i) BY GrammarIs
    <2> HIDE DEF G, n
    <2> QED BY <2>2, <2>3
  <1>3. n \in S
    <2> HIDE DEF S
    <2> QED BY <1>0, <1>1, <1>2, Induction
  <1> HIDE DEF G
  <1> QED BY <1>0, <1>3 DEF G

\* The items of an array begin at places.
LEMMA ItemsFromType ==
    ASSUME NEW d \in Seq(Tokens)
    PROVE  \A i \in 1..(Len(d) + 1) : ItemsFrom(d, i) \in Seq(Nat)
  <1> DEFINE n == Len(d) + 1
             S == {k \in Nat : \A i \in 1..n : i + k > n => ItemsFrom(d, i) \in Seq(Nat)}
  <1>0. n \in Nat /\ n >= 1 OBVIOUS
  <1>a. \A j : At(d, j) # "end" => j \in 1..(n - 1)
    <2>1. Spans(d, n) BY DocumentSpans
    <2> QED BY <2>1 DEF Spans
  <1>b. \A i \in 1..n : Ending(Grammar(d)[i], i, n) BY GrammarEnds
  <1>c. \A i \in 1..n : ItemsFrom(d, i) =
               IF ValueEnd(d, i) = 0 THEN <<>>
               ELSE <<i>> \o (IF At(d, ValueEnd(d, i)) = ","
                              THEN ItemsFrom(d, ValueEnd(d, i) + 1) ELSE <<>>)
    BY ItemsBegin, Zenon
  <1> HIDE DEF n
  <1>1. 0 \in S BY <1>0
  <1>2. ASSUME NEW k \in Nat, k \in S PROVE k + 1 \in S
    <2> SUFFICES ASSUME NEW i \in 1..n, i + (k + 1) > n PROVE ItemsFrom(d, i) \in Seq(Nat)
      OBVIOUS
    <2>1. PICK v : v = ValueEnd(d, i) OBVIOUS
    <2>2. v \in {0} \cup (i + 1)..n
      <3>1. Ending(Grammar(d)[i], i, n) BY <1>b
      <3> QED BY ONLY <2>1, <3>1 DEF Ending, ValueEnd
    <2>3. At(d, v) = "," => ItemsFrom(d, v + 1) \in Seq(Nat)
      <3>1. At(d, v) = "," => v \in 1..(n - 1)
        <4>1. "," # "end" OBVIOUS
        <4> QED BY <4>1, <1>a, Zenon
      <3>2. v \in 1..(n - 1) => v + 1 \in 1..n /\ (v + 1) + k > n
        BY ONLY <1>0, <2>2, i \in 1..n, k \in Nat, i + (k + 1) > n
      <3>3. \A j \in 1..n : j + k > n => ItemsFrom(d, j) \in Seq(Nat) BY <1>2
      <3> QED BY <3>1, <3>2, <3>3, Zenon
    <2>4. <<i>> \in Seq(Nat) /\ <<>> \in Seq(Nat) BY <1>0
    <2>5. \A x \in Seq(Nat) : <<i>> \o x \in Seq(Nat) BY <2>4
    <2> QED BY <1>c, <2>1, <2>3, <2>4, <2>5, Zenon
  <1>3. n \in S
    <2> HIDE DEF S
    <2> QED BY <1>0, <1>1, <1>2, Induction
  <1>4. \A i \in 1..n : i + n > n /\ i \in 1..n BY <1>0
  <1>5. \A i \in 1..n : ItemsFrom(d, i) \in Seq(Nat) BY <1>3, <1>4
  <1> QED BY <1>5 DEF n

\* What comes after an item.
LEMMA AfterItemType ==
    ASSUME NEW d \in Seq(Tokens), NEW p \in 1..(Len(d) + 1)
    PROVE  AfterItem(d, p) \in Seq(Nat)
  <1>1. <<>> \in Seq(Nat) OBVIOUS
  <1>2. At(d, p) = "," => p + 1 \in 1..(Len(d) + 1)
    <2>1. "," # "end" OBVIOUS
    <2> QED BY <2>1, TokenAt, Zenon
  <1> QED BY <1>1, <1>2, ItemsFromType, Zenon DEF AfterItem

\* A sequence of items, and one more.
LEMMA OneMore ==
    ASSUME NEW done \in Seq(Nat), NEW p \in Nat, NEW x \in Seq(Nat)
    PROVE  done \o (<<p>> \o x) = Append(done, p) \o x
  BY SMTT(60)

\* No items to come.
LEMMA NoMore ==
    ASSUME NEW done \in Seq(Nat)
    PROVE  done \o <<>> = done
  OBVIOUS

\* The items from a value on,
LEMMA ItemsOn ==
    ASSUME NEW d \in Seq(Tokens), NEW p \in 1..(Len(d) + 1), NEW done \in Seq(Nat),
           NEW v, v = ValueEnd(d, p), v \in 1..(Len(d) + 1)
    PROVE  done \o ItemsFrom(d, p) = Append(done, p) \o AfterItem(d, v)
  <1>1. v # 0 /\ p \in Nat OBVIOUS
  <1>2. ItemsFrom(d, p) = IF v = 0 THEN <<>> ELSE <<p>> \o AfterItem(d, v)
    BY ItemsBegin, Zenon DEF AfterItem
  <1>3. ItemsFrom(d, p) = <<p>> \o AfterItem(d, v) BY <1>1, <1>2, Zenon
  <1>4. AfterItem(d, v) \in Seq(Nat) BY AfterItemType
  <1>5. done \o (<<p>> \o AfterItem(d, v)) = Append(done, p) \o AfterItem(d, v)
    BY ONLY <1>1, <1>4, done \in Seq(Nat), OneMore
  <1> QED BY <1>3, <1>5, Zenon

\* and none from where no value is.
LEMMA NoItems ==
    ASSUME NEW d \in Seq(Tokens), NEW p \in 1..(Len(d) + 1), ValueEnd(d, p) = 0
    PROVE  ItemsFrom(d, p) = <<>>
  BY ItemsBegin, Zenon

\* What a token adds where the reader can take no liberty.
LEMMA ReadsPlainly ==
    ASSUME doc \in Seq(Tokens), NEW t \in Tokens \cup {"end"}, Reads(t), Plain'
    PROVE  /\ Plain /\ \A e, p : Agrees(e, p)' => e = p
           /\ t \notin {"//", "end"} => Place \in 1..Len(Stripped') /\ Stripped'[Place] = t
  <1>1. Plain BY LibertiesStay DEF Plain
  <1>2. \A e, p : Agrees(e, p)' => e = p BY DEF Agrees, Plain
  <1>3. ASSUME t \notin {"//", "end"}
        PROVE  Place \in 1..Len(Stripped') /\ Stripped'[Place] = t
    <2>1. Stripped' = Append(Stripped, t) /\ t \in Tokens BY <1>3, ReadsAToken
    <2>2. Stripped \in Seq(Tokens) BY StrippedType
    <2>3. PICK s \in Seq(Tokens) : s = Stripped BY <2>2
    <2>4. Len(s) + 1 \in 1..Len(Append(s, t)) /\ Append(s, t)[Len(s) + 1] = t BY <2>1
    <2> QED BY <2>1, <2>3, <2>4 DEF Place
  <1> QED BY <1>1, <1>2, <1>3

\* The items that are recorded stay so.
LEMMA RecordedStill ==
    ASSUME doc \in Seq(Tokens), NEW t \in Tokens \cup {"end"}, Reads(t),
           NEW done \in Seq(Nat), Recorded(done),
           \A k \in 1..Len(done) : root'.items[k] = root.items[k]
    PROVE  Recorded(done)'
  <1>1. \A i \in 1..Len(Stripped) : i \in 1..Len(Stripped') /\ Stripped'[i] = Stripped[i] BY StrippedMore
  <1> QED BY <1>1, Zenon DEF Recorded

\* One more item is recorded.
LEMMA RecordedMore ==
    ASSUME doc \in Seq(Tokens), NEW t \in Tokens \cup {"end"}, Reads(t),
           NEW done \in Seq(Nat), Recorded(done),
           \A k \in 1..Len(done) : root'.items[k] = root.items[k],
           NEW p \in Nat, p \in 1..Len(Stripped'), NEW n, n = Len(done) + 1,
           root'.items[n] = ValueOf(Stripped'[p])
    PROVE  Recorded(Append(done, p))' /\ Append(done, p) \in Seq(Nat)
           /\ Len(Append(done, p)) = Len(done) + 1
  <1>1. Recorded(done)' BY RecordedStill
  <1>2. PICK m \in Nat : m = Len(done) OBVIOUS
  <1>3. PICK e : e = Append(done, p) OBVIOUS
  <1>4. e \in Seq(Nat) /\ Len(e) = n /\ e[n] = p /\ \A k \in 1..m : e[k] = done[k]
    BY <1>2, <1>3
  <1>5. \A k \in 1..n : k \in 1..m \/ k = n BY ONLY <1>2, n = Len(done) + 1
  <1>6. Recorded(e)' BY <1>1, <1>2, <1>4, <1>5, Zenon DEF Recorded
  <1> QED BY <1>3, <1>4, <1>6

\* What a token does to the items that are to come.
LEMMA ItemIsRead ==
    ASSUME NEW d \in Seq(Tokens), NEW p \in 1..(Len(d) + 1), NEW q, q = p + 1,
           At(d, p) \in Scalars, NEW done \in Seq(Nat), q \in 1..(Len(d) + 1)
    PROVE  done \o ItemsFrom(d, p) = Append(done, p) \o AfterItem(d, q)
  <1>1. q = ValueEnd(d, p)
    <2>1. ValueEnd(d, p) = p + 1 BY ValueBegins, Zenon
    <2> QED BY <2>1, Zenon
  <1> QED BY ONLY <1>1, d \in Seq(Tokens), p \in 1..(Len(d) + 1), done \in Seq(Nat),
             q \in 1..(Len(d) + 1), ItemsOn

\* Where no value begins, no items are to come.
LEMMA ItemIsRefused ==
    ASSUME NEW d \in Seq(Tokens), NEW p \in 1..(Len(d) + 1),
           At(d, p) \notin Scalars \cup {"[", "{"}, NEW done \in Seq(Nat)
    PROVE  done \o ItemsFrom(d, p) = done
  <1>1. ValueEnd(d, p) = 0 BY ValueBegins
  <1>2. ItemsFrom(d, p) = <<>> BY <1>1, NoItems, Zenon
  <1> QED BY <1>2, NoMore, Zenon

\* The file begins with "[", and did before.
LEMMA FirstStays ==
    ASSUME Shape, NEW t \in Tokens \cup {"end"}, Reads(t), Plain',
           At(Stripped', 1) = "[", Stripped # <<>>
    PROVE  Plain /\ At(Stripped, 1) = "["
  <1>1. doc \in Seq(Tokens) BY StackFacts
  <1>2. Plain BY <1>1, ReadsPlainly
  <1>3. /\ Stripped \in Seq(Tokens) /\ Stripped' \in Seq(Tokens)
        /\ \A i \in 1..Len(Stripped) : i \in 1..Len(Stripped') /\ Stripped'[i] = Stripped[i]
    BY <1>1, StrippedMore
  <1>4. Len(Stripped) \in Nat /\ Len(Stripped) # 0 BY ONLY <1>3, Stripped # <<>>
  <1>5. 1 \in 1..Len(Stripped) BY ONLY <1>4
  <1>6. DOMAIN Stripped = 1..Len(Stripped) /\ DOMAIN Stripped' = 1..Len(Stripped') BY <1>3
  <1> QED BY <1>2, <1>3, <1>5, <1>6, Zenon DEF At

\* What is known of a document that goes on, at the place.
ReadsAt(d, p, q, t) ==
    /\ d \in Seq(Tokens) /\ p \in 1..(Len(d) + 1) /\ q \in 1..(Len(d) + 1)
    /\ At(d, p) = t

\* The items known so far, the documents that go on, and where the root array
\* and the next one stand.
InRootArray == Len(stack) = 2 /\ Top.kind = "array" /\ root.kind = "array"

\* The items are those in `more' and those begun by an array that expects w.
Counted(more, w) == Len(root.items) - Len(more) \in Unfinished(w = "recovery")

\* What is done and to come stays the same.
Carries(done, v, p, more, w, q, t) ==
    \A d : ReadsAt(d, p, q, t) => done \o Rest(v, d, p) = more \o Rest(w, d, q)

\* The documents that go on have read the token at the place,
LEMMA ReadsAtPlace ==
    ASSUME doc \in Seq(Tokens), NEW t \in Tokens \cup {"end"}, Reads(t), t # "//",
           NEW p, p = Place, NEW q, q = Place'
    PROVE  \A d : d \in Futures' => d \in Futures /\ ReadsAt(d, p, q, t)
  BY ReadsOn DEF ReadsAt

\* and the place is the next one.
LEMMA PlaceAfter ==
    ASSUME doc \in Seq(Tokens), NEW t \in Tokens \ {"//"}, Reads(t), Plain',
           NEW p, p = Place, NEW q, q = Place'
    PROVE  /\ p \in Nat /\ p >= 1 /\ q = p + 1
           /\ p \in 1..Len(Stripped') /\ Stripped'[p] = t
  <1>0. t # "end" BY DEF Tokens, Scalars, Strings
  <1>1. p \in 1..Len(Stripped') /\ Stripped'[p] = t BY <1>0, ReadsPlainly
  <1>2. Len(Stripped) \in Nat BY StrippedType
  <1>3. Place \in Nat /\ Place >= 1 BY ONLY <1>2 DEF Place
  <1>4. q = p + 1
    <2>1. t \notin {"//", "end"} BY <1>0
    <2>2. Place' = Place + 1 BY <2>1, ReadsOn, Zenon
    <2> QED BY <2>2
  <1> QED BY <1>1, <1>3, <1>4, Zenon

\* The root array goes on.
LEMMA ArrayGoesOn ==
    ASSUME Shape, NEW t \in Tokens \cup {"end"}, Reads(t), t # "//", InRootArray,
           root'.kind = root.kind,
           NEW at, NEW done, ItemsSoFar(at, done),
           NEW v, v = Top.expects, NEW w, Stays(w, Top.unnamed),
           NEW p, p = Place, NEW q, q = Place',
           NEW more, more \in Seq(Nat), Recorded(more)', Counted(more, w)',
           Carries(done, v, p, more, w, q, t)
    PROVE  ItemsRead(at)'
  <1>1. doc \in Seq(Tokens) /\ Len(stack) = 2 /\ Top.kind = "array" /\ root.kind = "array"
    BY StackFacts DEF InRootArray
  <1>2. Len(stack') = 2 /\ Top'.kind = "array" /\ Top'.expects = w
    BY <1>1, Zenon DEF Stays
  <1>3. stack'[2].kind = "array" BY <1>2 DEF Top
  <1>4. ~(2 > 2) /\ 2 # 1 OBVIOUS
  <1>5. Begun' = Unfinished(w = "recovery") BY <1>2, <1>4, Zenon DEF Begun
  <1>6. \A d : ToCome(d, at) = Rest(v, d, p) BY <1>1, <1>4, Zenon DEF ToCome
  <1>7. \A d : ToCome(d, at)' = Rest(w, d, q) BY <1>2, <1>4, Zenon DEF ToCome
  <1>8. \A d : d \in Futures' => ItemsFrom(d, 2) = more \o ToCome(d, at)'
    <2> SUFFICES ASSUME NEW d, d \in Futures'
                 PROVE  ItemsFrom(d, 2) = more \o ToCome(d, at)'
      OBVIOUS
    <2>1. d \in Futures /\ ReadsAt(d, p, q, t) BY <1>1, ReadsAtPlace
    <2>2. ItemsFrom(d, 2) = done \o ToCome(d, at) BY <2>1, Zenon DEF ItemsSoFar
    <2> QED BY <2>1, <2>2, <1>6, <1>7, Zenon DEF Carries
  <1>9. ItemsSoFar(at, more)' BY <1>2, <1>4, <1>5, <1>8, Zenon DEF ItemsSoFar, Counted
  <1> QED BY <1>1, <1>3, <1>9, Zenon DEF ItemsRead

\* An item without a call of its own.
LEMMA ItemsOfScalar ==
    ASSUME Shape, NEW t \in Tokens \cup {"end"}, ReadScalar(t), Plain', InRootArray,
           NEW at, NEW done \in Seq(Nat), ItemsSoFar(at, done)
    PROVE  ItemsRead(at)'
  <1>1. doc \in Seq(Tokens) /\ root \in RootTypes BY StackFacts DEF Shape, RootTypes
  <1>2. Reads(t) /\ t \notin {"[", "{", "//"} /\ Top.expects \in {"value", "first"}
    BY DEF ReadScalar
  <1>a. Len(stack) = 2 /\ Top.kind = "array" /\ root.kind = "array" BY DEF InRootArray
  <1>3. PICK w : w = IF t \in Scalars THEN "separator" ELSE "recovery" OBVIOUS
  <1>4. Stays(w, Top.unnamed)
    <2>1. Len(stack) > 1 BY <1>a
    <2> QED BY <1>3, <2>1, ScalarStays, Zenon
  <1>5. root' = [root EXCEPT !.items = Append(@, ValueOf(t))]
    <2>1. Top.kind # "root" BY <1>a
    <2> QED BY <2>1, <1>a, Zenon DEF ReadScalar, Puts
  <1>6. root'.kind = root.kind /\ root'.items = Append(root.items, ValueOf(t))
    BY <1>1, <1>5 DEF RootTypes
  <1>7. PICK v : v = Top.expects OBVIOUS
  <1>8. PICK p : p = Place OBVIOUS
  <1>9. PICK q : q = Place' OBVIOUS
  <1>11. Len(root.items) - Len(done) = 0 /\ Recorded(done)
    <2>1. Begun = {0}
      <3>1. ~(2 > 2) /\ 2 # 1 OBVIOUS
      <3>2. Top.expects # "recovery" BY <1>2
      <3> QED BY <3>1, <3>2, <1>a, Zenon DEF Begun, Unfinished
    <2>2. Len(root.items) - Len(done) \in Begun /\ Recorded(done) BY Zenon DEF ItemsSoFar
    <2> QED BY ONLY <2>1, <2>2
  <1>12. PICK n \in Nat : n = Len(done) /\ n = Len(root.items)
    <2>1. Len(done) \in Nat /\ Len(root.items) \in Nat BY <1>1 DEF RootTypes
    <2> QED BY ONLY <2>1, <1>11
  <1>13. /\ Len(root'.items) = n + 1 /\ root'.items[n + 1] = ValueOf(t)
         /\ \A k \in 1..n : root'.items[k] = root.items[k]
    BY <1>1, <1>6, <1>12 DEF RootTypes
  <1>14. \A d : Rest(v, d, p) = ItemsFrom(d, p)
    <2>1. v # "recovery" /\ v # "separator" BY <1>2, <1>7
    <2> QED BY <2>1, Zenon DEF Rest
  <1>15. CASE t \in Scalars
    <2>1. w = "separator" /\ t \in Tokens /\ w # "recovery" BY <1>3, <1>15 DEF Tokens
    <2>2. p \in Nat /\ p \in 1..Len(Stripped') /\ Stripped'[p] = t /\ q = p + 1
      BY <1>1, <1>2, <1>8, <1>9, <2>1, PlaceAfter
    <2>3. PICK more : more = Append(done, p) OBVIOUS
    <2>4. more \in Seq(Nat) /\ Recorded(more)' /\ Len(more) = n + 1
      <3>1. root'.items[n + 1] = ValueOf(Stripped'[p]) BY <2>2, <1>13
      <3> QED BY <1>1, <1>2, <1>11, <1>12, <1>13, <2>2, <2>3, <3>1, RecordedMore
    <2>5. Counted(more, w)'
      <3>1. Len(root'.items) - Len(more) = 0 BY ONLY <1>13, <2>4, n \in Nat
      <3> QED BY <2>1, <3>1 DEF Unfinished, Counted
    <2>6. Carries(done, v, p, more, w, q, t)
      <3>1. \A d : Rest(w, d, q) = AfterItem(d, q) BY <2>1, Zenon DEF Rest
      <3> SUFFICES ASSUME NEW d, ReadsAt(d, p, q, t)
                   PROVE  done \o Rest(v, d, p) = more \o Rest(w, d, q)
        BY DEF Carries
      <3>3. done \o ItemsFrom(d, p) = Append(done, p) \o AfterItem(d, q)
        <4>1. /\ d \in Seq(Tokens) /\ p \in 1..(Len(d) + 1) /\ q \in 1..(Len(d) + 1)
              /\ At(d, p) \in Scalars
          BY <1>15 DEF ReadsAt
        <4>2. q = p + 1 BY <2>2
        <4> QED BY <4>1, <4>2, ItemIsRead, Zenon
      <3> QED BY <3>1, <3>3, <1>14, <2>3, Zenon
    <2> QED BY <1>2, <1>4, <1>6, <1>7, <1>8, <1>9, <2>4, <2>5, <2>6, ArrayGoesOn
  <1>16. CASE t \notin Scalars
    <2>1. w = "recovery" BY <1>3, <1>16
    <2>2. Recorded(done)' BY <1>1, <1>2, <1>11, <1>12, <1>13, RecordedStill
    <2>3. Counted(done, w)'
      <3>1. Len(root'.items) - Len(done) = 1 BY ONLY <1>12, <1>13
      <3> QED BY <2>1, <3>1 DEF Unfinished, Counted
    <2>4. Carries(done, v, p, done, w, q, t)
      <3>1. \A d : done \o Rest(w, d, q) = done BY <2>1, NoMore, Zenon DEF Rest
      <3>2. t \notin Scalars \cup {"[", "{"} BY <1>2, <1>16
      <3> SUFFICES ASSUME NEW d, ReadsAt(d, p, q, t)
                   PROVE  done \o Rest(v, d, p) = done \o Rest(w, d, q)
        BY DEF Carries
      <3>3. /\ d \in Seq(Tokens) /\ p \in 1..(Len(d) + 1)
            /\ At(d, p) \notin Scalars \cup {"[", "{"}
        BY <3>2 DEF ReadsAt
      <3>4. done \o ItemsFrom(d, p) = done BY <3>3, ItemIsRefused, Zenon
      <3> QED BY <3>1, <3>4, <1>14, Zenon
    <2> QED BY <1>2, <1>4, <1>6, <1>7, <1>8, <1>9, <2>2, <2>3, <2>4, ArrayGoesOn
  <1> QED BY <1>15, <1>16

\* What is recorded where the root array reads.
LEMMA ArrayFacts ==
    ASSUME InRootArray, NEW at, NEW done, ItemsSoFar(at, done), NEW v, v = Top.expects
    PROVE  /\ Len(stack) = 2 /\ Top.kind = "array" /\ root.kind = "array"
           /\ Counted(done, v) /\ Recorded(done)
           /\ \A d : d \in Futures => ItemsFrom(d, 2) = done \o Rest(v, d, Place)
  <1>1. Len(stack) = 2 /\ Top.kind = "array" /\ root.kind = "array" BY DEF InRootArray
  <1>2. ~(2 > 2) /\ 2 # 1 OBVIOUS
  <1>3. Begun = Unfinished(v = "recovery") BY <1>1, <1>2, Zenon DEF Begun
  <1>4. \A d : ToCome(d, at) = Rest(v, d, Place) BY <1>1, <1>2, Zenon DEF ToCome
  <1> QED BY <1>1, <1>3, <1>4, Zenon DEF ItemsSoFar, Counted

\* The root stays as it is.
LEMMA SameRoot ==
    ASSUME Shape, NEW t \in Tokens \cup {"end"}, Reads(t), root' = root,
           NEW done \in Seq(Nat), Recorded(done)
    PROVE  Recorded(done)'
  <1>1. doc \in Seq(Tokens) BY StackFacts
  <1>2. \A k \in 1..Len(done) : root'.items[k] = root.items[k] OBVIOUS
  <1> QED BY <1>1, <1>2, RecordedStill

\* Between two items.
LEMMA ItemsOfSeparator ==
    ASSUME Shape, NEW t \in Tokens \cup {"end"}, ReadArraySeparator(t), t # "]", Plain',
           InRootArray, NEW at, NEW done \in Seq(Nat), ItemsSoFar(at, done)
    PROVE  ItemsRead(at)'
  <1>1. doc \in Seq(Tokens) BY StackFacts
  <1>2. Reads(t) /\ t # "//" /\ Top.expects = "separator" /\ root' = root
    BY DEF ReadArraySeparator, Expecting
  <1>3. PICK w : w = IF t = "," THEN "value" ELSE "recovery" OBVIOUS
  <1>4. Stays(w, Top.unnamed) BY <1>3, ArraySeparatorStays, Zenon
  <1>5. PICK v : v = Top.expects OBVIOUS
  <1>6. PICK p : p = Place OBVIOUS
  <1>7. PICK q : q = Place' OBVIOUS
  <1>8. Counted(done, v) /\ Recorded(done) /\ v = "separator" BY <1>2, <1>5, ArrayFacts
  <1>9. Recorded(done)' BY <1>2, <1>8, SameRoot
  <1>10. Counted(done, w)'
    <2>1. Len(root.items) - Len(done) = 0
      <3>1. v # "recovery" BY <1>8
      <3> QED BY <1>8, <3>1, Zenon DEF Counted, Unfinished
    <2>2. Len(root'.items) - Len(done) = 0 BY <1>2, <2>1, Zenon
    <2> QED BY <2>2, Zenon DEF Counted, Unfinished
  <1>11. \A d : Rest(v, d, p) = AfterItem(d, p)
    <2>1. v # "recovery" BY <1>8
    <2> QED BY <2>1, <1>8, Zenon DEF Rest
  <1>12. Carries(done, v, p, done, w, q, t)
    <2> SUFFICES ASSUME NEW d, ReadsAt(d, p, q, t)
                 PROVE  done \o Rest(v, d, p) = done \o Rest(w, d, q)
      BY DEF Carries
    <2>1. At(d, p) = t BY DEF ReadsAt
    <2>2. CASE t = ","
      <3>1. w = "value" /\ w # "recovery" /\ w # "separator" BY <1>3, <2>2
      <3>2. Rest(w, d, q) = ItemsFrom(d, q) BY <3>1, Zenon DEF Rest
      <3>3. t \in Tokens \ {"//"} BY <2>2 DEF Tokens
      <3>4. q = p + 1 BY <1>1, <1>2, <1>6, <1>7, <3>3, PlaceAfter
      <3>5. AfterItem(d, p) = ItemsFrom(d, q) BY <2>1, <2>2, <3>4, Zenon DEF AfterItem
      <3> QED BY <1>11, <3>2, <3>5, Zenon
    <2>3. CASE t # ","
      <3>1. w = "recovery" BY <1>3, <2>3
      <3>2. Rest(w, d, q) = <<>> BY <3>1, Zenon DEF Rest
      <3>3. AfterItem(d, p) = <<>> BY <2>1, <2>3, Zenon DEF AfterItem
      <3> QED BY <1>11, <3>2, <3>3, Zenon
    <2> QED BY <2>2, <2>3
  <1>13. root'.kind = root.kind BY <1>2
  <1> QED BY <1>2, <1>4, <1>5, <1>6, <1>7, <1>9, <1>10, <1>12, <1>13, ArrayGoesOn

\* After the error nothing is an item.
LEMMA ItemsOfRecovery ==
    ASSUME Shape, NEW t \in Tokens \cup {"end"}, Recover(t), t \notin {"end", "]"}, Plain',
           InRootArray, NEW at, NEW done \in Seq(Nat), ItemsSoFar(at, done)
    PROVE  ItemsRead(at)'
  <1>a. Top.kind = "array" BY DEF InRootArray
  <1>2. Reads(t) /\ t # "//" /\ Top.expects = "recovery" /\ root' = root
    BY <1>a DEF Recover, Expecting
  <1>3. PICK w : w = "recovery" OBVIOUS
  <1>4. Stays(w, Top.unnamed)
    <2>1. t \notin {"end", IF Top.kind = "array" THEN "]" ELSE "}"} BY <1>a
    <2> QED BY <1>3, <2>1, RecoverStays, Zenon
  <1>5. PICK v : v = Top.expects OBVIOUS
  <1>6. PICK p : p = Place OBVIOUS
  <1>7. PICK q : q = Place' OBVIOUS
  <1>8. Counted(done, v) /\ Recorded(done) /\ v = w BY <1>2, <1>3, <1>5, ArrayFacts
  <1>9. Recorded(done)' BY <1>2, <1>8, SameRoot
  <1>10. Counted(done, w)' BY <1>2, <1>8, Zenon DEF Counted
  <1>12. Carries(done, v, p, done, w, q, t)
    <2>1. \A d, e : Rest(w, d, e) = <<>> BY <1>3, Zenon DEF Rest
    <2> QED BY <1>8, <2>1, Zenon DEF Carries
  <1>13. root'.kind = root.kind BY <1>2
  <1> QED BY <1>2, <1>4, <1>5, <1>6, <1>7, <1>9, <1>10, <1>12, <1>13, ArrayGoesOn

\* The root array ends.
LEMMA ItemsAtEnd ==
    ASSUME Shape, NEW t \in Tokens \cup {"end"}, Reads(t), t # "//", InRootArray,
           NEW at, NEW done \in Seq(Nat), ItemsSoFar(at, done),
           NEW ok \in BOOLEAN, Returns(ok),
           \/ Top.expects = "recovery" /\ ~ok
           \/ Top.expects \in {"first", "separator"} /\ t = "]"
    PROVE  ItemsRead(at)'
  <1>1. doc \in Seq(Tokens) /\ root \in RootTypes BY StackFacts DEF Shape, RootTypes
  <1>2. Len(stack) = 2 /\ Top.kind = "array" /\ root.kind = "array" BY DEF InRootArray
  <1>3. PICK v : v = Top.expects OBVIOUS
  <1>4. PICK p : p = Place OBVIOUS
  <1>5. PICK q : q = Place' OBVIOUS
  <1>6. /\ Counted(done, v) /\ Recorded(done)
        /\ \A d : d \in Futures => ItemsFrom(d, 2) = done \o Rest(v, d, p)
    BY <1>3, <1>4, ArrayFacts
  <1>7. Len(stack') = 1 /\ root' = [root EXCEPT !.ok = ok]
    <2>1. 2 - 1 = 1 OBVIOUS
    <2> QED BY <1>2, <2>1, Zenon DEF Returns
  <1>8. root'.kind = root.kind /\ root'.items = root.items /\ root'.ok = ok
    BY <1>1, <1>7 DEF RootTypes
  <1>9. Recorded(done)'
    <2>1. \A k \in 1..Len(done) : root'.items[k] = root.items[k] BY <1>8
    <2> QED BY <1>1, <1>6, <2>1, RecordedStill
  <1>10. ~(1 > 2) /\ ~(1 > 1) OBVIOUS
  <1>11. Len(root'.items) - Len(done) \in Begun'
    <2>1. Begun' = Unfinished(~ok) BY <1>7, <1>8, <1>10, Zenon DEF Begun
    <2>2. Len(root'.items) - Len(done) \in Unfinished(v = "recovery")
      BY <1>6, <1>8, Zenon DEF Counted
    <2>3. v = "recovery" => ~ok
      <3>1. "recovery" \notin {"first", "separator"} OBVIOUS
      <3> QED BY <1>3, <3>1, Zenon
    <2>4. Unfinished(v = "recovery") \subseteq Unfinished(~ok) BY <2>3 DEF Unfinished
    <2> QED BY <2>1, <2>2, <2>4, Zenon
  <1>12. \A d : d \in Futures' => ItemsFrom(d, 2) = done \o ToCome(d, at)'
    <2> SUFFICES ASSUME NEW d, d \in Futures'
                 PROVE  ItemsFrom(d, 2) = done \o ToCome(d, at)'
      OBVIOUS
    <2>1. d \in Futures /\ ReadsAt(d, p, q, t) BY <1>1, <1>4, <1>5, ReadsAtPlace
    <2>2. ToCome(d, at)' = <<>> BY <1>7, <1>10, Zenon DEF ToCome
    <2>3. ItemsFrom(d, 2) = done \o Rest(v, d, p) BY <1>6, <2>1, Zenon
    <2>4. done \o Rest(v, d, p) = done
      <3>1. CASE Top.expects = "recovery"
        <4>1. Rest(v, d, p) = <<>> BY <3>1, <1>3, Zenon DEF Rest
        <4> QED BY <4>1, NoMore, Zenon
      <3>2. CASE Top.expects = "separator" /\ t = "]"
        <4>1. v = "separator" /\ v # "recovery" BY <3>2, <1>3
        <4>2. Rest(v, d, p) = AfterItem(d, p) BY <4>1, Zenon DEF Rest
        <4>3. At(d, p) # "," BY <2>1, <3>2 DEF ReadsAt
        <4>4. Rest(v, d, p) = <<>> BY <4>2, <4>3, Zenon DEF AfterItem
        <4> QED BY <4>4, NoMore, Zenon
      <3>3. CASE Top.expects = "first" /\ t = "]"
        <4>1. v # "separator" /\ v # "recovery" BY <3>3, <1>3
        <4>2. Rest(v, d, p) = ItemsFrom(d, p) BY <4>1, Zenon DEF Rest
        <4>3. d \in Seq(Tokens) /\ p \in 1..(Len(d) + 1) /\ At(d, p) = "]"
          BY <2>1, <3>3 DEF ReadsAt
        <4>4. At(d, p) \notin Scalars \cup {"[", "{"} BY <4>3 DEF Scalars, Strings
        <4> QED BY <4>2, <4>3, <4>4, ItemIsRefused, ZenonT(60)
      <3> QED BY <3>1, <3>2, <3>3
    <2> QED BY <2>2, <2>3, <2>4, NoMore, Zenon
  <1>13. ItemsSoFar(at, done)' BY <1>7, <1>9, <1>10, <1>11, <1>12, Zenon DEF ItemsSoFar
  <1> QED BY <1>2, <1>7, <1>8, <1>10, <1>13, Zenon DEF ItemsRead

\* readValue() finds a container: the item is begun.
LEMMA ItemIsBegun ==
    ASSUME Shape, NEW t, ReadContainer(t), Plain', InRootArray,
           NEW at, NEW done \in Seq(Nat), ItemsSoFar(at, done),
           NEW b, b[3] = Place
    PROVE  ItemsRead(b)'
  <1>1. doc \in Seq(Tokens) /\ root \in RootTypes BY StackFacts DEF Shape, RootTypes
  <1>2. Reads(t) /\ t \in Tokens \ {"//"} /\ t \in Tokens \cup {"end"} /\ LooksForValue
    BY DEF ReadContainer, Tokens, LooksForValue
  <1>a. Len(stack) = 2 /\ Top.kind = "array" /\ root.kind = "array" BY DEF InRootArray
  <1>3. /\ Len(stack') = 3 /\ stack'[2] = stack[2]
    <2>1. stack' = Append(stack, NewFrame(t)) BY Zenon DEF ReadContainer, NewFrame
    <2>2. Calls(NewFrame(t)) BY <2>1, AppendCalls
    <2>3. 2 + 1 = 3 /\ 2 \in 1..2 OBVIOUS
    <2> QED BY <1>a, <2>2, <2>3, Zenon DEF Calls
  <1>5. root' = [root EXCEPT !.items = Append(@, ValueOf(t))]
    <2>1. Top.kind # "root" BY <1>a
    <2> QED BY <2>1, <1>a, Zenon DEF ReadContainer, Puts
  <1>6. root'.kind = root.kind /\ root'.items = Append(root.items, ValueOf(t))
    BY <1>1, <1>5 DEF RootTypes
  <1>7. PICK v : v = Top.expects OBVIOUS
  <1>8. PICK p : p = Place OBVIOUS
  <1>9. PICK q : q = Place' OBVIOUS
  <1>10. p \in 1..Len(Stripped') /\ Stripped'[p] = t BY <1>1, <1>2, <1>8, <1>9, PlaceAfter
  <1>11. /\ Counted(done, v) /\ Recorded(done)
         /\ \A d : d \in Futures => ItemsFrom(d, 2) = done \o Rest(v, d, p)
    BY <1>7, <1>8, ArrayFacts
  <1>12. v # "recovery" /\ v # "separator" BY <1>2, <1>7 DEF LooksForValue
  <1>13. PICK n \in Nat : n = Len(done) /\ n = Len(root.items)
    <2>1. Len(done) \in Nat /\ Len(root.items) \in Nat BY <1>1 DEF RootTypes
    <2>2. Len(root.items) - Len(done) \in {0} BY <1>11, <1>12, Zenon DEF Counted, Unfinished
    <2> QED BY ONLY <2>1, <2>2
  <1>14. /\ Len(root'.items) = n + 1 /\ root'.items[n + 1] = ValueOf(t)
         /\ \A k \in 1..n : root'.items[k] = root.items[k]
    BY <1>1, <1>6, <1>13 DEF RootTypes
  <1>15. Recorded(done)' BY <1>1, <1>2, <1>11, <1>13, <1>14, RecordedStill
  <1>16. 3 > 2 /\ 3 > 1 OBVIOUS
  <1>17. Len(root'.items) - Len(done) \in Begun'
    <2>1. Begun' = {1} BY <1>3, <1>16, Zenon DEF Begun
    <2>2. Len(root'.items) - Len(done) = 1 BY ONLY <1>13, <1>14
    <2> QED BY <2>1, <2>2
  <1>18. \A d : d \in Futures' => ItemsFrom(d, 2) = done \o ToCome(d, b)'
    <2> SUFFICES ASSUME NEW d, d \in Futures'
                 PROVE  ItemsFrom(d, 2) = done \o ToCome(d, b)'
      OBVIOUS
    <2>1. d \in Futures BY <1>1, <1>2, <1>8, <1>9, ReadsAtPlace
    <2>2. ToCome(d, b)' = ItemsFrom(d, p) BY <1>3, <1>8, <1>16, Zenon DEF ToCome
    <2>3. Rest(v, d, p) = ItemsFrom(d, p) BY <1>12, Zenon DEF Rest
    <2> QED BY <1>11, <2>1, <2>2, <2>3, Zenon
  <1>19. b[3] \in 1..Len(Stripped') /\ root'.items[Len(done) + 1] = ValueOf(Stripped'[b[3]])
    BY <1>8, <1>10, <1>13, <1>14, Zenon
  <1>20. ItemsSoFar(b, done)' BY <1>15, <1>17, <1>18, <1>19, Zenon DEF ItemsSoFar
  <1>21. stack'[2].kind = "array"
    <2>1. stack[2].kind = "array" BY <1>a, Zenon DEF Top
    <2> QED BY <2>1, <1>3, Zenon
  <1> QED BY <1>a, <1>6, <1>20, <1>21, Zenon DEF ItemsRead

\* An item that is a container has been read, or refused.
LEMMA ItemIsOver ==
    ASSUME Shape, NEW t \in Tokens \cup {"end"}, Reads(t), Plain',
           Len(stack) = 3, stack[2].kind = "array", root.kind = "array",
           NEW at, at \in [Nat -> Nat], NEW done \in Seq(Nat), ItemsSoFar(at, done),
           NEW ok \in BOOLEAN, Returns(ok), IsOver(at, 3, ok)'
    PROVE  ItemsRead(at)'
  <1>1. doc \in Seq(Tokens) /\ root \in RootTypes BY StackFacts DEF Shape, RootTypes
  <1>a. 3 > 2 /\ 3 # 2 /\ 3 - 1 = 2 /\ ~(2 > 2) /\ 2 > 1 /\ 2 # 1 OBVIOUS
  <1>2. PICK w : w = IF ok THEN "separator" ELSE "recovery" OBVIOUS
  <1>3. Len(stack') = 2 /\ root' = root /\ Top'.kind = "array" /\ Top'.expects = w
    <2>1. Len(stack') = 2 /\ root' = root BY <1>a, Zenon DEF Returns
    <2>2. Caller.kind = "array" BY <1>a, Zenon DEF Caller
    <2>3. AfterIt(Caller, ok) = w BY <2>2, <1>2 DEF AfterIt
    <2>4. Top' = [kind |-> Caller.kind, expects |-> AfterIt(Caller, ok),
                  unnamed |-> Caller.unnamed]
      BY Zenon DEF Returns
    <2>5. Top'.kind = Caller.kind /\ Top'.expects = AfterIt(Caller, ok) BY ONLY <2>4
    <2> QED BY <2>1, <2>2, <2>3, <2>5, Zenon
  <1>4. /\ Len(root.items) - Len(done) \in {1} /\ Recorded(done)
        /\ at[3] \in 1..Len(Stripped) /\ root.items[Len(done) + 1] = ValueOf(Stripped[at[3]])
        /\ \A d : d \in Futures => ItemsFrom(d, 2) = done \o ItemsFrom(d, at[3])
    BY <1>a, Zenon DEF ItemsSoFar, Begun, ToCome
  <1>5. PICK p : p = at[3] OBVIOUS
  <1>6. PICK q : q = Place' OBVIOUS
  <1>7. p \in Nat /\ p \in 1..Len(Stripped') /\ Stripped'[p] = Stripped[p]
    <2>1. 3 \in Nat OBVIOUS
    <2>2. at[3] \in Nat BY <2>1
    <2>3. \A i \in 1..Len(Stripped) : i \in 1..Len(Stripped') /\ Stripped'[i] = Stripped[i] BY <1>1, StrippedMore
    <2> QED BY <2>2, <2>3, <1>4, <1>5, Zenon
  <1>8. \A d : d \in Futures' =>
            /\ d \in Futures /\ d \in Seq(Tokens) /\ q \in 1..(Len(d) + 1)
            /\ p \in 1..(Len(d) + 1) /\ ValueEnd(d, p) = IF ok THEN q ELSE 0
    <2> SUFFICES ASSUME NEW d, d \in Futures'
                 PROVE  /\ d \in Futures /\ d \in Seq(Tokens) /\ q \in 1..(Len(d) + 1)
                        /\ p \in 1..(Len(d) + 1) /\ ValueEnd(d, p) = IF ok THEN q ELSE 0
      OBVIOUS
    <2>1. /\ d \in Futures /\ d \in Seq(Tokens)
          /\ Place \in 1..(Len(d) + 1) /\ q \in 1..(Len(d) + 1)
      BY <1>1, <1>6, ReadsOn
    <2>2. Place = Len(Stripped) + 1 BY DEF Place
    <2>3. Len(Stripped) \in Nat /\ Len(d) \in Nat
      <3>1. d \in Seq(Tokens) BY <2>1
      <3>2. Len(d) \in Nat BY ONLY <3>1
      <3> QED BY <3>2, <1>1, StrippedType
    <2>4. p \in 1..(Len(d) + 1) BY ONLY <2>1, <2>2, <2>3, <1>4, <1>5
    <2>5. Agrees(ValueEnd(d, at[3]), IF ok THEN Place ELSE 0)' BY Zenon DEF IsOver
    <2>6. \A e, x : Agrees(e, x)' => e = x BY <1>1, ReadsPlainly
    <2>7. Agrees(ValueEnd(d, p), IF ok THEN q ELSE 0)' BY <2>5, <1>5, <1>6 DEF Agrees
    <2>8. ValueEnd(d, p) = IF ok THEN q ELSE 0 BY <2>6, <2>7
    <2> QED BY <2>1, <2>4, <2>8
  <1>9. PICK n \in Nat : n = Len(done) /\ n + 1 = Len(root.items)
    <2>1. Len(done) \in Nat /\ Len(root.items) \in Nat
      BY ONLY <1>1, done \in Seq(Nat) DEF RootTypes
    <2> QED BY ONLY <2>1, <1>4
  <1>10. \A d : ToCome(d, at)' = Rest(w, d, q) BY <1>3, <1>6, <1>a, Zenon DEF ToCome
  <1>11. Begun' = Unfinished(w = "recovery") BY <1>3, <1>a, Zenon DEF Begun
  <1>12. stack'[2].kind = "array" BY <1>3, Zenon DEF Top
  <1>13. CASE ok
    <2>1. w = "separator" /\ w # "recovery" BY <1>2, <1>13
    <2>2. PICK more : more = Append(done, p) OBVIOUS
    <2>3. more \in Seq(Nat) /\ Recorded(more)' /\ Len(more) = n + 1
      <3>1. root'.items[n + 1] = ValueOf(Stripped'[p]) BY <1>3, <1>4, <1>5, <1>7, <1>9, Zenon
      <3>2. \A k \in 1..Len(done) : root'.items[k] = root.items[k] BY <1>3
      <3> QED BY <1>1, <1>4, <1>7, <1>9, <2>2, <3>1, <3>2, RecordedMore
    <2>4. Len(root'.items) - Len(more) \in Begun'
      <3>1. Len(root'.items) - Len(more) = 0 BY ONLY <1>3, <1>9, <2>3
      <3>2. Begun' = {0} BY <1>11, <2>1, Zenon DEF Unfinished
      <3> QED BY <3>1, <3>2
    <2>5. \A d : d \in Futures' => ItemsFrom(d, 2) = more \o ToCome(d, at)'
      <3> SUFFICES ASSUME NEW d, d \in Futures'
                   PROVE  ItemsFrom(d, 2) = more \o ToCome(d, at)'
        OBVIOUS
      <3>1. /\ d \in Futures /\ d \in Seq(Tokens) /\ q \in 1..(Len(d) + 1)
            /\ p \in 1..(Len(d) + 1) /\ q = ValueEnd(d, p)
        BY <1>8, <1>13
      <3>2. Rest(w, d, q) = AfterItem(d, q) BY <2>1, Zenon DEF Rest
      <3>3. done \o ItemsFrom(d, p) = Append(done, p) \o AfterItem(d, q)
        BY ONLY <3>1, done \in Seq(Nat), ItemsOn
      <3> QED BY <3>1, <3>2, <3>3, <1>4, <1>5, <1>10, <2>2, Zenon
    <2>6. ItemsSoFar(at, more)' BY <1>3, <1>a, <2>3, <2>4, <2>5, Zenon DEF ItemsSoFar
    <2> QED BY <1>3, <1>12, <2>3, <2>6, Zenon DEF ItemsRead
  <1>14. CASE ~ok
    <2>1. w = "recovery" BY <1>2, <1>14
    <2>2. Recorded(done)' BY <1>3, <1>4, SameRoot
    <2>3. Len(root'.items) - Len(done) \in Begun'
      <3>1. Len(root'.items) - Len(done) = 1 BY ONLY <1>3, <1>9
      <3>2. Begun' = {0, 1} BY <1>11, <2>1, Zenon DEF Unfinished
      <3> QED BY <3>1, <3>2
    <2>4. \A d : d \in Futures' => ItemsFrom(d, 2) = done \o ToCome(d, at)'
      <3> SUFFICES ASSUME NEW d, d \in Futures'
                   PROVE  ItemsFrom(d, 2) = done \o ToCome(d, at)'
        OBVIOUS
      <3>1. /\ d \in Futures /\ d \in Seq(Tokens) /\ p \in 1..(Len(d) + 1)
            /\ ValueEnd(d, p) = 0
        BY <1>8, <1>14
      <3>2. Rest(w, d, q) = <<>> BY <2>1, Zenon DEF Rest
      <3>3. done \o ItemsFrom(d, p) = done
        <4>1. ItemsFrom(d, p) = <<>> BY <3>1, NoItems, Zenon
        <4> QED BY <4>1, NoMore, Zenon
      <3> QED BY <3>1, <3>2, <3>3, <1>4, <1>5, <1>10, NoMore, Zenon
    <2>5. ItemsSoFar(at, done)' BY <1>3, <1>a, <2>2, <2>3, <2>4, Zenon DEF ItemsSoFar
    <2> QED BY <1>3, <1>12, <2>5, Zenon DEF ItemsRead
  <1> QED BY <1>13, <1>14

\* Inside an item nothing is recorded.
LEMMA ItemGoesOn ==
    ASSUME Shape, NEW t \in Tokens \cup {"end"}, Reads(t), Plain',
           Len(stack) > 2, Len(stack') > 2, stack'[2] = stack[2], root' = root,
           stack[2].kind = "array", root.kind = "array",
           NEW at, NEW done \in Seq(Nat), ItemsSoFar(at, done), NEW b, b[3] = at[3]
    PROVE  ItemsRead(b)'
  <1>1. doc \in Seq(Tokens) BY StackFacts
  <1>4. /\ Len(root.items) - Len(done) \in {1} /\ Recorded(done)
        /\ at[3] \in 1..Len(Stripped) /\ root.items[Len(done) + 1] = ValueOf(Stripped[at[3]])
        /\ \A d : d \in Futures => ItemsFrom(d, 2) = done \o ItemsFrom(d, at[3])
    BY Zenon DEF ItemsSoFar, Begun, ToCome
  <1>5. Recorded(done)' BY <1>4, SameRoot
  <1>6. b[3] \in 1..Len(Stripped') /\ root'.items[Len(done) + 1] = ValueOf(Stripped'[b[3]])
    <2>1. \A i \in 1..Len(Stripped) : i \in 1..Len(Stripped') /\ Stripped'[i] = Stripped[i] BY <1>1, StrippedMore
    <2> QED BY <2>1, <1>4, Zenon
  <1>7. Len(root'.items) - Len(done) \in Begun' BY <1>4, Zenon DEF Begun
  <1>8. \A d : d \in Futures' => ItemsFrom(d, 2) = done \o ToCome(d, b)'
    <2>1. \A d : d \in Futures' => d \in Futures BY <1>1, ReadsOn
    <2>2. \A d : ToCome(d, b)' = ItemsFrom(d, at[3]) BY Zenon DEF ToCome
    <2> QED BY <1>4, <2>1, <2>2, Zenon
  <1>9. ItemsSoFar(b, done)' BY <1>5, <1>6, <1>7, <1>8, Zenon DEF ItemsSoFar
  <1> QED BY <1>9, Zenon DEF ItemsRead

\* Inside a container there is something read of the file.
LEMMA ItemsKnown ==
    ASSUME Shape, NEW t \in Tokens \cup {"end"}, Reads(t), Len(stack) > 1, Plain',
           At(Stripped', 1) = "[", NEW at, ItemsRead(at)
    PROVE  /\ root.kind = "array" /\ stack[2].kind = "array"
           /\ Len(stack) = 2 => InRootArray
           /\ \E done \in Seq(Nat) : ItemsSoFar(at, done)
  <1>1. Stripped # <<>>
    <2>1. Len(stack) # 1 BY ONLY Len(stack) > 1
    <2> QED BY <2>1, Zenon DEF Shape
  <1>2. Plain /\ At(Stripped, 1) = "[" BY <1>1, FirstStays
  <1>3. /\ root.kind = "array" /\ stack[2].kind = "array"
        /\ \E done \in Seq(Nat) : ItemsSoFar(at, done)
    BY <1>2, Zenon DEF ItemsRead
  <1>4. Len(stack) = 2 => InRootArray BY <1>3, Zenon DEF InRootArray, Top
  <1> QED BY <1>3, <1>4, Zenon

\* The first token of the file, or the second.
LEMMA StacksAre ==
    ASSUME Shape, Len(stack) > 1, Len(stack) # 2
    PROVE  Len(stack) > 2 /\ 2 \in 1..(Len(stack) - 1)
  <1>1. PICK n \in Nat : n = Len(stack) BY StackFacts
  <1>2. n > 2 /\ 2 \in 1..(n - 1) BY ONLY <1>1, Len(stack) > 1, Len(stack) # 2
  <1> QED BY <1>1, <1>2, Zenon

\* In an object nothing is an item.
LEMMA ObjectItems ==
    ASSUME Shape, NEW t \in Tokens \cup {"end"}, Reads(t), Len(stack) > 1,
           Top.kind = "object", NEW w, NEW u, Stays(w, u), root' = root,
           NEW at, ItemsRead(at)
    PROVE  ItemsRead(at)'
  <1> SUFFICES ASSUME Plain', At(Stripped', 1) = "[" PROVE ItemsRead(at)'
    BY Zenon DEF ItemsRead
  <1>1. /\ root.kind = "array" /\ stack[2].kind = "array"
        /\ Len(stack) = 2 => InRootArray
    BY ItemsKnown
  <1>2. PICK done \in Seq(Nat) : ItemsSoFar(at, done) BY ItemsKnown
  <1>3. Len(stack) # 2
    <2>1. "object" # "array" OBVIOUS
    <2> QED BY <1>1, <2>1, Zenon DEF InRootArray
  <1>4. Len(stack) > 2 /\ 2 \in 1..(Len(stack) - 1) BY <1>3, StacksAre
  <1>5. Len(stack') > 2 /\ stack'[2] = stack[2] BY <1>4, Zenon DEF Stays
  <1> QED BY <1>1, <1>2, <1>4, <1>5, ItemGoesOn

\* A value without a call of its own.
LEMMA ScalarItems ==
    ASSUME Shape, NEW t \in Tokens \cup {"end"}, ReadScalar(t), Len(stack) > 1,
           NEW at, ItemsRead(at)
    PROVE  ItemsRead(at)'
  <1> SUFFICES ASSUME Plain', At(Stripped', 1) = "[" PROVE ItemsRead(at)'
    BY Zenon DEF ItemsRead
  <1>0. Reads(t) BY DEF ReadScalar
  <1>1. /\ root.kind = "array" /\ stack[2].kind = "array"
        /\ Len(stack) = 2 => InRootArray
    BY <1>0, ItemsKnown
  <1>2. PICK done \in Seq(Nat) : ItemsSoFar(at, done) BY <1>0, ItemsKnown
  <1>3. CASE Len(stack) = 2 BY <1>1, <1>2, <1>3, ItemsOfScalar
  <1>4. CASE Len(stack) # 2
    <2>1. Len(stack) > 2 /\ 2 \in 1..(Len(stack) - 1) BY <1>4, StacksAre
    <2>2. PICK w : Stays(w, Top.unnamed) BY ScalarStays
    <2>3. Len(stack') > 2 /\ stack'[2] = stack[2] BY <2>1, <2>2, Zenon DEF Stays
    <2>4. root' = root
      <3>1. Top.kind # "root"
        <4>1. Len(stack) # 1
          <5>1. \A n : n > 1 => n # 1 OBVIOUS
          <5> QED BY <5>1, Zenon
        <4> QED BY <4>1, StackFacts, Zenon
      <3> QED BY <1>4, <3>1, Zenon DEF ReadScalar, Puts
    <2> QED BY <1>0, <1>1, <1>2, <2>1, <2>3, <2>4, ItemGoesOn
  <1> QED BY <1>3, <1>4

\* The items stay, and some are to come if a comma comes.
LEMMA ArraySeparatorItems ==
    ASSUME Shape, NEW t \in Tokens \cup {"end"}, ReadArraySeparator(t), t # "]",
           Len(stack) > 1, NEW at, ItemsRead(at)
    PROVE  ItemsRead(at)'
  <1> SUFFICES ASSUME Plain', At(Stripped', 1) = "[" PROVE ItemsRead(at)'
    BY Zenon DEF ItemsRead
  <1>0. Reads(t) /\ root' = root BY DEF ReadArraySeparator
  <1>1. /\ root.kind = "array" /\ stack[2].kind = "array"
        /\ Len(stack) = 2 => InRootArray
    BY <1>0, ItemsKnown
  <1>2. PICK done \in Seq(Nat) : ItemsSoFar(at, done) BY <1>0, ItemsKnown
  <1>3. CASE Len(stack) = 2 BY <1>1, <1>2, <1>3, ItemsOfSeparator
  <1>4. CASE Len(stack) # 2
    <2>1. Len(stack) > 2 /\ 2 \in 1..(Len(stack) - 1) BY <1>4, StacksAre
    <2>2. PICK w : Stays(w, Top.unnamed) BY ArraySeparatorStays
    <2>3. Len(stack') > 2 /\ stack'[2] = stack[2] BY <2>1, <2>2, Zenon DEF Stays
    <2> QED BY <1>0, <1>1, <1>2, <2>1, <2>3, ItemGoesOn
  <1> QED BY <1>3, <1>4

\* The items stay while the array recovers.
LEMMA RecoveryItems ==
    ASSUME Shape, NEW t \in Tokens \cup {"end"}, Recover(t),
           t \notin {"end", IF Top.kind = "array" THEN "]" ELSE "}"},
           Len(stack) > 1, NEW at, ItemsRead(at)
    PROVE  ItemsRead(at)'
  <1> SUFFICES ASSUME Plain', At(Stripped', 1) = "[" PROVE ItemsRead(at)'
    BY Zenon DEF ItemsRead
  <1>0. Reads(t) /\ root' = root BY DEF Recover
  <1>1. /\ root.kind = "array" /\ stack[2].kind = "array"
        /\ Len(stack) = 2 => InRootArray
    BY <1>0, ItemsKnown
  <1>2. PICK done \in Seq(Nat) : ItemsSoFar(at, done) BY <1>0, ItemsKnown
  <1>3. CASE Len(stack) = 2
    <2>1. InRootArray BY <1>1, <1>3
    <2>2. t \notin {"end", "]"}
      <3>1. Top.kind = "array" BY <2>1, Zenon DEF InRootArray
      <3> QED BY <3>1
    <2> QED BY <1>2, <2>1, <2>2, ItemsOfRecovery
  <1>4. CASE Len(stack) # 2
    <2>1. Len(stack) > 2 /\ 2 \in 1..(Len(stack) - 1) BY <1>4, StacksAre
    <2>2. PICK w : Stays(w, Top.unnamed) BY RecoverStays
    <2>3. Len(stack') > 2 /\ stack'[2] = stack[2] BY <2>1, <2>2, Zenon DEF Stays
    <2> QED BY <1>0, <1>1, <1>2, <2>1, <2>3, ItemGoesOn
  <1> QED BY <1>3, <1>4

\* A call is over.
LEMMA ReturnItems ==
    ASSUME Shape, NEW t \in Tokens \cup {"end"}, Reads(t), t # "//", Len(stack) > 1,
           NEW at, at \in [Nat -> Nat], ItemsRead(at),
           NEW ok \in BOOLEAN, Returns(ok), NEW k, k = Len(stack), IsOver(at, k, ok)',
           Top.kind = "array" =>
               \/ Top.expects = "recovery" /\ ~ok
               \/ Top.expects \in {"first", "separator"} /\ t = "]"
    PROVE  ItemsRead(at)'
  <1> SUFFICES ASSUME Plain', At(Stripped', 1) = "[" PROVE ItemsRead(at)'
    BY Zenon DEF ItemsRead
  <1>1. /\ root.kind = "array" /\ stack[2].kind = "array"
        /\ Len(stack) = 2 => InRootArray
    BY ItemsKnown
  <1>2. PICK done \in Seq(Nat) : ItemsSoFar(at, done) BY ItemsKnown
  <1>3. CASE Len(stack) = 2
    <2>1. InRootArray BY <1>1, <1>3
    <2>2. Top.kind = "array" BY <2>1, Zenon DEF InRootArray
    <2> QED BY <1>2, <2>1, <2>2, ItemsAtEnd
  <1>4. CASE Len(stack) = 3
    <2>1. IsOver(at, 3, ok)' BY <1>4, Zenon
    <2> QED BY <1>1, <1>2, <1>4, <2>1, ItemIsOver
  <1>5. CASE Len(stack) # 2 /\ Len(stack) # 3
    <2>1. PICK n \in Nat : n = Len(stack) BY StackFacts
    <2>2. n > 2 /\ n - 1 > 2 /\ 2 \in 1..(n - 2) BY ONLY <1>5, <2>1, Len(stack) > 1
    <2>3. Len(stack') > 2 /\ stack'[2] = stack[2] /\ root' = root
      BY <1>5, <2>1, <2>2, Zenon DEF Returns
    <2>4. Len(stack) > 2 BY <2>1, <2>2, Zenon
    <2> QED BY <1>1, <1>2, <2>3, <2>4, ItemGoesOn
  <1> QED BY <1>3, <1>4, <1>5

\* Nothing has been read of a file that the root reads.
LEMMA NothingRead ==
    ASSUME Shape, NEW t \in Tokens \cup {"end"}, Reads(t), t # "//",
           Len(stack) = 1, Top.expects = "value"
    PROVE  /\ Stripped = <<>> /\ root.items = <<>> /\ Place = 1
           /\ At(Stripped', 1) = t
  <1>1. doc \in Seq(Tokens) BY StackFacts
  <1>2. Stripped = <<>> /\ root.items = <<>> BY Zenon DEF Shape
  <1>4. Place = 1
    <2>1. Len(<<>>) + 1 = 1 OBVIOUS
    <2> QED BY <1>2, <2>1, Zenon DEF Place
  <1>5. At(Stripped', 1) = t
    <2>1. CASE t = "end"
      <3>1. Stripped' = <<>> BY <2>1, <1>1, <1>2, ReadsTheEnd
      <3>2. 1 \notin DOMAIN <<>> OBVIOUS
      <3> QED BY <2>1, <3>1, <3>2, Zenon DEF At
    <2>2. CASE t # "end"
      <3>1. Stripped' = Append(<<>>, t)
        <4>1. t \in Tokens \ {"//"} BY <2>2
        <4> QED BY <4>1, <1>1, <1>2, ReadsAToken
      <3>2. Stripped'[1] = t /\ DOMAIN Stripped' = 1..1 BY ONLY <3>1
      <3>3. 1 \in 1..1 OBVIOUS
      <3> QED BY <3>2, <3>3, Zenon DEF At
    <2> QED BY <2>1, <2>2
  <1> QED BY <1>2, <1>4, <1>5

\* A root that is a scalar has no items.
LEMMA RootScalarItems ==
    ASSUME Shape, NEW t \in Tokens \cup {"end"}, ReadScalar(t), Len(stack) = 1,
           NEW at
    PROVE  ItemsRead(at)'
  <1> SUFFICES ASSUME Plain', At(Stripped', 1) = "[" PROVE FALSE
    BY Zenon DEF ItemsRead
  <1>1. Reads(t) /\ t \notin {"[", "//"} /\ Top.expects \in {"value", "first"}
    BY DEF ReadScalar
  <1>2. Top.expects = "value"
    <2>1. Top.kind = "root" /\ Top \in Frames BY StackFacts, Zenon
    <2> QED BY <1>1, <2>1, FrameFields DEF ArrayExpects, ObjectExpects
  <1>3. At(Stripped', 1) = t BY <1>1, <1>2, NothingRead
  <1> QED BY <1>1, <1>3

\* A comment adds nothing to the file.
LEMMA CommentItems ==
    ASSUME Shape, ReadComment, NEW at, ItemsRead(at)
    PROVE  ItemsRead(at)'
  <1> SUFFICES ASSUME Plain', At(Stripped', 1) = "[" PROVE ItemsRead(at)'
    BY Zenon DEF ItemsRead
  <1>1. /\ Reads("//") /\ "//" \in Tokens \cup {"end"} /\ root' = root
        /\ Top.expects # "recovery"
    BY DEF ReadComment, Tokens
  <1>2. doc \in Seq(Tokens) BY StackFacts
  <1>3. Stripped' = Stripped /\ Place' = Place /\ \A d : d \in Futures' => d \in Futures
    BY <1>1, <1>2, ReadsAComment
  <1>4. Plain BY <1>1, <1>2, ReadsPlainly
  <1>5. Stays(AfterComment, Top.unnamed) BY CommentStays
  <1>6. /\ Len(stack') = Len(stack) /\ \A k \in 1..(Len(stack) - 1) : stack'[k] = stack[k]
        /\ Top'.kind = Top.kind /\ Top'.expects = AfterComment
    BY <1>5 DEF Stays
  <1>7. root.kind = "array" /\ (Len(stack) > 1 => stack[2].kind = "array")
    BY <1>3, <1>4, Zenon DEF ItemsRead
  <1>8. PICK done \in Seq(Nat) : ItemsSoFar(at, done) BY <1>3, <1>4, Zenon DEF ItemsRead
  <1>9. PICK n \in Nat : n = Len(stack) BY StackFacts
  <1>10. Len(stack') > 1 => stack'[2].kind = "array"
    <2>1. CASE n = 2 BY <2>1, <1>6, <1>7, <1>9, Zenon DEF Top
    <2>2. CASE n > 2
      <3>1. 2 \in 1..(n - 1) /\ n > 1 BY ONLY <2>2, n \in Nat
      <3> QED BY <3>1, <1>6, <1>7, <1>9, Zenon
    <2>3. n > 1 => n = 2 \/ n > 2 BY ONLY n \in Nat
    <2> QED BY <1>6, <1>9, <2>1, <2>2, <2>3, Zenon
  <1>11. Begun' = Begun
    <2>1. AfterComment # "recovery" BY <1>1 DEF AfterComment
    <2> QED BY <1>1, <1>6, <2>1 DEF Begun
  <1>12. \A d : ToCome(d, at)' = ToCome(d, at)
    <2>1. CASE n = 2
      <3>1. Top.kind = "array"
        <4>1. 2 > 1 OBVIOUS
        <4> QED BY <2>1, <4>1, <1>7, <1>9, Zenon DEF Top
      <3>2. AfterComment = IF Top.expects = "first" THEN "value" ELSE Top.expects
        BY <3>1 DEF AfterComment
      <3>3. \A d, p : Rest(AfterComment, d, p) = Rest(Top.expects, d, p)
        BY <3>2 DEF Rest
      <3> QED BY <2>1, <3>3, <1>3, <1>6, <1>9 DEF ToCome
    <2>2. CASE n # 2
      <3>1. n > 2 \/ n = 1 \/ n = 0 BY ONLY <2>2, n \in Nat
      <3>2. n # 0 BY <1>9, StackFacts
      <3> QED BY <3>1, <3>2, <1>6, <1>9 DEF ToCome
    <2> QED BY <2>1, <2>2
  <1>13. Recorded(done)'
    <2>1. Recorded(done) BY <1>8, Zenon DEF ItemsSoFar
    <2> QED BY <1>1, <2>1, SameRoot
  <1>14. ItemsSoFar(at, done)'
    BY <1>1, <1>3, <1>6, <1>8, <1>11, <1>12, <1>13, Zenon DEF ItemsSoFar
  <1> QED BY <1>1, <1>7, <1>10, <1>14, Zenon DEF ItemsRead

\* The token after the value.
LEMMA TrailerItems ==
    ASSUME Shape, NEW t \in Tokens \cup {"end"}, Return(t), NEW at, ItemsRead(at)
    PROVE  ItemsRead(at)'
  <1> SUFFICES ASSUME Plain', At(Stripped', 1) = "[" PROVE ItemsRead(at)'
    BY Zenon DEF ItemsRead
  <1>1. /\ Reads(t) /\ Top.kind = "root" /\ Top.expects = "trailer"
        /\ stack' = stack /\ root' = root
    BY DEF Return, Expecting
  <1>2. Len(stack) = 1 BY <1>1, StackFacts, Zenon
  <1>3. doc \in Seq(Tokens) BY StackFacts
  <1>4. Stripped # <<>>
    <2> SUFFICES ASSUME Stripped = <<>> PROVE FALSE OBVIOUS
    <2>1. atEnd BY <1>1, Zenon DEF Shape
    <2>2. Stripped' = <<>>
      <3>1. t = "end" BY <1>1, <2>1 DEF Reads
      <3> QED BY <3>1, <1>1, <1>3, ReadsTheEnd
    <2>3. 1 \notin DOMAIN <<>> OBVIOUS
    <2>4. At(Stripped', 1) = "end" BY <2>2, <2>3, Zenon DEF At
    <2> QED BY <2>4
  <1>5. Plain /\ At(Stripped, 1) = "[" BY <1>1, <1>4, FirstStays
  <1>6. root.kind = "array" BY <1>5, Zenon DEF ItemsRead
  <1>7. PICK done \in Seq(Nat) : ItemsSoFar(at, done) BY <1>5, Zenon DEF ItemsRead
  <1>8. ~(1 > 2) /\ ~(1 > 1) OBVIOUS
  <1>9. Recorded(done)'
    <2>1. Recorded(done) BY <1>7, Zenon DEF ItemsSoFar
    <2> QED BY <1>1, <2>1, SameRoot
  <1>10. Len(root'.items) - Len(done) \in Begun'
    <2>1. Len(root.items) - Len(done) \in Begun BY <1>7, Zenon DEF ItemsSoFar
    <2>2. Begun' = Begun BY <1>1, Zenon DEF Begun, Top
    <2> QED BY <1>1, <2>1, <2>2, Zenon
  <1>11. \A d : d \in Futures' => ItemsFrom(d, 2) = done \o ToCome(d, at)'
    <2>1. \A d : d \in Futures' => d \in Futures BY <1>1, <1>3, ReadsOn
    <2>2. \A d : ToCome(d, at) = <<>> BY <1>2, <1>8, Zenon DEF ToCome
    <2>3. \A d : ToCome(d, at)' = <<>> BY <1>1, <1>2, <1>8, Zenon DEF ToCome
    <2>4. \A d : d \in Futures => ItemsFrom(d, 2) = done \o ToCome(d, at)
      BY <1>7, Zenon DEF ItemsSoFar
    <2> SUFFICES ASSUME NEW d, d \in Futures'
                 PROVE  ItemsFrom(d, 2) = done \o ToCome(d, at)'
      OBVIOUS
    <2>5. ToCome(d, at)' = ToCome(d, at) BY <2>2, <2>3, Zenon
    <2> QED BY <2>1, <2>4, <2>5, Zenon
  <1>12. ItemsSoFar(at, done)'
    BY <1>1, <1>2, <1>8, <1>9, <1>10, <1>11, Zenon DEF ItemsSoFar
  <1> QED BY <1>1, <1>2, <1>6, <1>8, <1>12, Zenon DEF ItemsRead

\* A container begins: the file itself, an item, or a value in an item.
LEMMA ContainerItems ==
    ASSUME Shape, NEW t, ReadContainer(t), NEW m \in Nat, m = Len(stack), NEW p, p = Place,
           NEW at, at \in [Nat -> Nat], ItemsRead(at),
           NEW b, b = [at EXCEPT ![m + 1] = p]
    PROVE  ItemsRead(b)'
  <1> SUFFICES ASSUME Plain', At(Stripped', 1) = "[" PROVE ItemsRead(b)'
    BY Zenon DEF ItemsRead
  <1>0. /\ Reads(t) /\ t \in Tokens \ {"//"} /\ t \in Tokens \cup {"end"} /\ LooksForValue
        /\ Top.expects \in {"value", "first"}
    BY DEF ReadContainer, Tokens, LooksForValue
  <1>1. doc \in Seq(Tokens) /\ root \in RootTypes BY StackFacts DEF Shape, RootTypes
  <1>2. Calls(NewFrame(t))
    <2>1. stack' = Append(stack, NewFrame(t)) BY Zenon DEF ReadContainer, NewFrame
    <2> QED BY <2>1, AppendCalls
  <1>3. Len(stack') = m + 1 /\ \A k \in 1..m : stack'[k] = stack[k] BY <1>2, Zenon DEF Calls
  <1>4. CASE m = 1
    <2>1. Top.expects = "value"
      <3>1. Top.kind = "root" /\ Top \in Frames BY <1>4, StackFacts, Zenon
      <3> QED BY <1>0, <3>1, FrameFields DEF ArrayExpects, ObjectExpects
    <2>2. Len(stack) = 1 BY <1>4
    <2>3. Stripped = <<>> /\ root.items = <<>> /\ p = 1 /\ At(Stripped', 1) = t
      BY <1>0, <2>1, <2>2, NothingRead
    <2>4. t = "[" BY <2>3
    <2>5. Len(stack') = 2 /\ Top'.kind = "array" /\ Top'.expects = "first"
      <3>1. Len(stack') = 2 BY <1>3, <1>4
      <3>2. Top' = Frame("array", "first") BY <2>4, <1>2, Zenon DEF Calls, NewFrame
      <3>3. Top'.kind = "array" /\ Top'.expects = "first" BY <3>2 DEF Frame
      <3> QED BY <3>1, <3>3
    <2>6. root'.kind = "array" /\ root'.items = <<>>
      <3>1. Top.kind = "root" BY <2>2, StackFacts, Zenon
      <3>2. root' = [root EXCEPT !.kind = ValueOf(t)]
        <4>1. Top.kind # "array" BY <3>1
        <4> QED BY <3>1, <4>1, Zenon DEF ReadContainer, Puts
      <3>3. ValueOf(t) = "array" BY <2>4 DEF ValueOf, Strings
      <3> QED BY <1>1, <2>3, <3>2, <3>3 DEF RootTypes
    <2>7. PICK q : q = Place' OBVIOUS
    <2>8. q = 2
      <3>1. q = p + 1 BY <1>0, <1>1, <2>7, PlaceAfter
      <3> QED BY ONLY <3>1, <2>3
    <2>9. ~(2 > 2) /\ 2 # 1 OBVIOUS
    <2>10. \A d : d \in Futures' => ItemsFrom(d, 2) = <<>> \o ToCome(d, b)'
      <3> SUFFICES ASSUME NEW d, d \in Futures'
                   PROVE  ItemsFrom(d, 2) = <<>> \o ToCome(d, b)'
        OBVIOUS
      <3>1. ToCome(d, b)' = Rest("first", d, q) BY <2>5, <2>7, <2>9, Zenon DEF ToCome
      <3>2. Rest("first", d, q) = ItemsFrom(d, 2)
        <4>1. "first" # "recovery" /\ "first" # "separator" OBVIOUS
        <4> QED BY <4>1, <2>8, Zenon DEF Rest
      <3>3. ItemsFrom(d, 2) \in Seq(Nat)
        <4>1. d \in Seq(Tokens) /\ q \in 1..(Len(d) + 1) BY <1>0, <1>1, <2>7, ReadsOn
        <4> QED BY <4>1, <2>8, ItemsFromType, Zenon
      <3>4. \A x \in Seq(Nat) : <<>> \o x = x OBVIOUS
      <3> QED BY <3>1, <3>2, <3>3, <3>4, Zenon
    <2>11. <<>> \in Seq(Nat) /\ Len(<<>>) = 0 /\ \A k \in 1..0 : FALSE OBVIOUS
    <2>12. Recorded(<<>>)' BY <2>11, Zenon DEF Recorded
    <2>13. Len(root'.items) - Len(<<>>) \in Begun'
      <3>1. Begun' = {0}
        <4>1. "first" # "recovery" OBVIOUS
        <4> QED BY <4>1, <2>5, <2>9, Zenon DEF Begun, Unfinished
      <3>2. 0 - 0 \in {0} OBVIOUS
      <3> QED BY <2>6, <2>11, <3>1, <3>2, Zenon
    <2>14. ItemsSoFar(b, <<>>)' BY <2>5, <2>9, <2>10, <2>12, <2>13, Zenon DEF ItemsSoFar
    <2>15. stack'[2].kind = "array" BY <2>5, Zenon DEF Top
    <2> QED BY <2>6, <2>11, <2>14, <2>15, Zenon DEF ItemsRead
  <1>5. CASE m # 1
    <2>0. m > 1
      <3>1. Len(stack) >= 1 BY StackFacts
      <3> QED BY ONLY <3>1, <1>5, m = Len(stack), m \in Nat
    <2>1. Len(stack) > 1 BY <2>0
    <2>2. /\ root.kind = "array" /\ stack[2].kind = "array"
          /\ Len(stack) = 2 => InRootArray
      BY <1>0, <2>1, ItemsKnown
    <2>3. PICK done \in Seq(Nat) : ItemsSoFar(at, done) BY <1>0, <2>1, ItemsKnown
    <2>4. CASE m = 2
      <3>1. b[3] = Place
        <4>1. 3 \in Nat /\ 2 + 1 = 3 OBVIOUS
        <4>2. b = [at EXCEPT ![3] = p] BY <2>4, <4>1, Zenon
        <4> QED BY ONLY <4>1, <4>2, at \in [Nat -> Nat], p = Place
      <3> QED BY <2>2, <2>3, <2>4, <3>1, ItemIsBegun
    <2>5. CASE m # 2
      <3>1. m > 2 /\ m + 1 > 2 /\ 2 \in 1..m /\ m + 1 # 3 /\ 3 \in Nat
        BY ONLY <2>0, <2>5, m \in Nat
      <3>2. b[3] = at[3] BY ONLY <3>1, at \in [Nat -> Nat], b = [at EXCEPT ![m + 1] = p]
      <3>3. Len(stack) > 2 /\ Len(stack') > 2 /\ stack'[2] = stack[2] BY <1>3, <3>1, Zenon
      <3>4. root' = root
        <4>1. Top.kind # "root" BY <1>5, StackFacts, Zenon
        <4> QED BY <2>5, <4>1, Zenon DEF ReadContainer, Puts
      <3> QED BY <1>0, <2>2, <2>3, <3>2, <3>3, <3>4, ItemGoesOn
    <2> QED BY <2>4, <2>5
  <1> QED BY <1>4, <1>5

-----------------------------------------------------------------------------
(* Every step.                                                             *)

\* The shape, where the innermost call goes on,
LEMMA ShapeStays ==
    ASSUME Shape, NEW t \in Tokens \cup {"end"}, Reads(t), Len(stack) > 1,
           NEW w, NEW u, Stays(w, u),
           [kind |-> Top.kind, expects |-> w, unnamed |-> u] \in Frames,
           root' \in RootTypes, result' = "none"
    PROVE  Shape'
  <1>1. NextShape BY StaysShape
  <1>2. Len(stack) # 1 /\ Len(stack') # 1
    <2>1. \A n : n > 1 => n # 1 OBVIOUS
    <2>2. Len(stack') = Len(stack) BY Zenon DEF Stays
    <2> QED BY <2>1, <2>2, Zenon
  <1> QED BY <1>1, <1>2, ShapeNext

\* where it calls another,
LEMMA ShapeCalls ==
    ASSUME Shape, NEW t, Opens(t), Reads(t), LooksForValue, Calls(NewFrame(t)),
           root' \in RootTypes, result' = "none"
    PROVE  Shape'
  <1>1. t \in Tokens \cup {"end"} /\ t \notin {"end", "//"} BY DEF Opens, Tokens
  <1>2. NewFrame(t) \in Frames /\ NewFrame(t).kind # "root"
    BY DEF NewFrame, Frame, Frames, ArrayExpects, ObjectExpects
  <1>3. NextShape BY <1>2, CallsShape
  <1>4. Len(stack') # 1
    <2>1. PICK n \in Nat : n = Len(stack) /\ n >= 1 BY StackFacts
    <2>2. Len(stack') = n + 1 BY <2>1, Zenon DEF Calls
    <2>3. n + 1 # 1 BY ONLY <2>1
    <2> QED BY <2>2, <2>3, Zenon
  <1> QED BY <1>1, <1>3, <1>4, ShapeNext

\* and where it returns.
LEMMA ShapeReturns ==
    ASSUME Shape, NEW t \in Tokens \cup {"end"}, Reads(t), Len(stack) > 1,
           NEW ok \in BOOLEAN, Returns(ok), result' = "none"
    PROVE  Shape'
  <1>1. NextShape BY ReturnsShape
  <1>2. Len(stack) # 1
    <2>1. \A n : n > 1 => n # 1 OBVIOUS
    <2> QED BY <2>1, Zenon
  <1>3. Top'.expects # "value"
    <2>1. Top' = [kind |-> Caller.kind, expects |-> AfterIt(Caller, ok),
                  unnamed |-> Caller.unnamed]
      BY Zenon DEF Returns
    <2>2. Top'.expects = AfterIt(Caller, ok) BY ONLY <2>1
    <2> QED BY <2>2 DEF AfterIt
  <1>4. root' \in RootTypes
    <2>1. root \in RootTypes BY DEF Shape, RootTypes
    <2>2. [root EXCEPT !.ok = ok] \in RootTypes BY <2>1 DEF RootTypes
    <2> QED BY <2>1, <2>2, Zenon DEF Returns
  <1> QED BY <1>1, <1>2, <1>3, <1>4, ShapeNext

\* A container reads a value that needs no call of its own.
LEMMA ScalarStep ==
    ASSUME NEW at, Kept(at), NEW t \in Tokens \cup {"end"}, ReadScalar(t), Len(stack) > 1
    PROVE  Kept(at)'
  <1>1. Shape /\ Liberties /\ Follows(at) /\ ItemsRead(at) BY DEF Kept
  <1>2. Reads(t) /\ Top.expects \in {"value", "first"} /\ result' = "none"
    BY DEF ReadScalar
  <1>3. PICK w : w = IF t \in Scalars THEN "separator" ELSE "recovery" OBVIOUS
  <1>4. w \in {"separator", "recovery"} BY <1>3
  <1>5. Stays(w, Top.unnamed) BY <1>1, <1>3, ScalarStays, Zenon
  <1>6. Top.kind \in {"array", "object"} BY <1>1, ContainerFacts
  <1>7. Shape'
    <2>1. [kind |-> Top.kind, expects |-> w, unnamed |-> Top.unnamed] \in Frames
      <3>1. Top.unnamed \in BOOLEAN BY <1>1, StackFacts, FrameFields
      <3> QED BY <1>4, <1>6, <3>1 DEF Frames, ArrayExpects, ObjectExpects
    <2>2. root' \in RootTypes
      <3>1. Top.kind # "root" BY <1>6
      <3>2. root \in RootTypes BY <1>1 DEF Shape, RootTypes
      <3>3. Puts(t) \in RootTypes BY <3>2, PutsType
      <3> QED BY <3>1, <3>3, Zenon DEF ReadScalar
    <2> QED BY <1>1, <1>2, <1>5, <2>1, <2>2, ShapeStays
  <1>8. Liberties'
    <2>1. Top.kind = "object" /\ Top.unnamed => StillNamed(w)'
      <3>1. Top.expects \notin {"name", "recovery"} /\ Top.expects # "colon" BY <1>2
      <3>2. EmptyNamed => EmptyNamed' BY <1>1, <1>2, StackFacts, LibertiesStay
      <3>3. w # "name" BY <1>4
      <3> QED BY <1>1, <3>1, <3>2, <3>3, Zenon DEF Liberties, TopNamed, StillNamed
    <2>2. w # "first" /\ w # "any_separator" /\ w # "value" BY <1>4
    <2>3. w = "separator" => LastRead' \in ValueEnds
      <3>1. doc \in Seq(Tokens) BY <1>1, StackFacts
      <3>2. t # "end" => LastRead' = t BY <1>2, <3>1, DocumentTypes
      <3>3. w = "separator" => t \in Scalars BY <1>3
      <3> QED BY <3>2, <3>3 DEF ValueEnds, Scalars, Strings
    <2> QED BY <1>1, <1>2, <1>5, <2>1, <2>2, <2>3, LibertiesGoOn
  <1>9. Follows(at)' BY <1>1, ReadScalarFollows
  <1>10. ItemsRead(at)' BY <1>1, ScalarItems
  <1> QED BY <1>7, <1>8, <1>9, <1>10 DEF Kept

\* It reads the beginning of an array or object.
LEMMA ContainerStep ==
    ASSUME NEW at, Kept(at), NEW t, ReadContainer(t)
    PROVE  \E b : Kept(b)'
  <1>1. Shape /\ Liberties /\ Follows(at) /\ ItemsRead(at) BY DEF Kept
  <1>2. Opens(t) /\ Reads(t) /\ LooksForValue /\ result' = "none"
    BY DEF ReadContainer, Opens, LooksForValue
  <1>3. Calls(NewFrame(t))
    <2>1. stack' = Append(stack, NewFrame(t)) BY Zenon DEF ReadContainer, NewFrame
    <2> QED BY <1>1, <2>1, AppendCalls
  <1>4. PICK m \in Nat : m = Len(stack) BY <1>1, StackFacts
  <1>5. PICK p : p = Place OBVIOUS
  <1>6. PICK b : b = [at EXCEPT ![m + 1] = p] OBVIOUS
  <1>7. Shape'
    <2>1. root' \in RootTypes
      <3>1. root \in RootTypes BY <1>1 DEF Shape, RootTypes
      <3>2. Puts(t) \in RootTypes BY <3>1, PutsType
      <3> QED BY <3>2, Zenon DEF ReadContainer
    <2> QED BY <1>1, <1>2, <1>3, <2>1, ShapeCalls
  <1>8. Liberties' BY <1>1, <1>2, <1>3, LibertiesOfCall
  <1>9. Follows(b)' BY <1>1, <1>2, <1>3, <1>4, <1>5, <1>6, FollowsCalls, Zenon
  <1>10. ItemsRead(b)'
    <2>1. at \in [Nat -> Nat] BY <1>1 DEF Follows, Beginnings
    <2> QED BY <1>1, <1>4, <1>5, <1>6, <2>1, ContainerItems
  <1>11. Kept(b)' BY <1>7, <1>8, <1>9, <1>10 DEF Kept
  <1> QED BY <1>11, Zenon

\* A call returns.
LEMMA ReturnStep ==
    ASSUME NEW at, Kept(at), NEW t \in Tokens \cup {"end"}, Reads(t), Len(stack) > 1,
           NEW ok \in BOOLEAN, Leaves(ok), result' = "none",
           NEW k, k = Len(stack), IsOver(at, k, ok)', t # "//", ok => t \in {"]", "}"},
           Top.kind = "array" =>
               \/ Top.expects = "recovery" /\ ~ok
               \/ Top.expects \in {"first", "separator"} /\ t = "]"
    PROVE  Kept(at)'
  <1>1. Shape /\ Liberties /\ Follows(at) /\ ItemsRead(at) BY DEF Kept
  <1>2. Returns(ok) BY <1>1, LeavesReturns
  <1>3. Shape' BY <1>1, <1>2, ShapeReturns
  <1>4. Liberties' BY <1>1, <1>2, LibertiesOfReturn
  <1>5. Follows(at)' BY <1>1, FollowsEnded
  <1>6. ItemsRead(at)'
    <2>1. at \in [Nat -> Nat] BY <1>1 DEF Follows, Beginnings
    <2> QED BY <1>1, <1>2, <2>1, ReturnItems
  <1> QED BY <1>3, <1>4, <1>5, <1>6 DEF Kept

\* Only the root is alone.
LEMMA InContainer ==
    ASSUME Shape, Top.kind # "root"
    PROVE  Len(stack) > 1
  <1>1. PICK n \in Nat : n = Len(stack) /\ n >= 1 BY StackFacts
  <1>2. n # 1
    <2>1. Top.kind = "root" <=> Len(stack) = 1 BY StackFacts, Zenon
    <2> QED BY <1>1, <2>1, Zenon
  <1>3. n > 1 BY ONLY <1>1, <1>2
  <1> QED BY <1>1, <1>3, Zenon

\* "]" where an array is empty,
LEMMA EmptyArrayStep ==
    ASSUME NEW at, Kept(at), ReadEmptyArray
    PROVE  Kept(at)'
  <1>1. Shape /\ Liberties /\ Follows(at) /\ ItemsRead(at) BY DEF Kept
  <1>2. /\ Reads("]") /\ Top.kind = "array" /\ Top.expects = "first" /\ Leaves(TRUE)
        /\ result' = "none"
    BY DEF ReadEmptyArray, Expecting
  <1>3. "]" \in Tokens \cup {"end"} BY DEF Tokens
  <1>4. Len(stack) > 1
    <2>1. Top.kind # "root" BY <1>2
    <2> QED BY <1>1, <2>1, InContainer
  <1>5. PICK k : k = Len(stack) OBVIOUS
  <1>6. IsOver(at, k, TRUE)' BY <1>1, <1>2, <1>4, <1>5, ArrayEnds
  <1>7. PICK t : t = "]" OBVIOUS
  <1>8. t \in Tokens \cup {"end"} /\ Reads(t) /\ t # "//" /\ t \in {"]", "}"}
    BY <1>2, <1>3, <1>7
  <1> QED BY <1>2, <1>4, <1>5, <1>6, <1>7, <1>8, ReturnStep

\* after an item,
LEMMA ArraySeparatorStep ==
    ASSUME NEW at, Kept(at), NEW t \in Tokens \cup {"end"}, ReadArraySeparator(t)
    PROVE  Kept(at)'
  <1>1. Shape /\ Liberties /\ Follows(at) /\ ItemsRead(at) BY DEF Kept
  <1>2. Reads(t) /\ Top.kind = "array" /\ Top.expects = "separator" /\ result' = "none"
    BY DEF ReadArraySeparator, Expecting
  <1>4. Len(stack) > 1
    <2>1. Top.kind # "root" BY <1>2
    <2> QED BY <1>1, <2>1, InContainer
  <1>5. CASE t = "]"
    <2>1. PICK k : k = Len(stack) OBVIOUS
    <2>2. Leaves(TRUE) BY <1>5 DEF ReadArraySeparator
    <2>3. Reads("]") BY <1>2, <1>5
    <2>4. IsOver(at, k, TRUE)' BY <1>1, <1>2, <1>4, <2>1, <2>3, ArrayEnds
    <2>5. t # "//" /\ t \in {"]", "}"} BY <1>5
    <2> QED BY <1>2, <1>4, <1>5, <2>1, <2>2, <2>4, <2>5, ReturnStep
  <1>6. CASE t # "]"
    <2>1. PICK w : w = IF t = "," THEN "value" ELSE "recovery" OBVIOUS
    <2>2. w \in {"value", "recovery"} /\ (w = "value" => t = ",") BY <2>1
    <2>3. Stays(w, Top.unnamed) BY <1>1, <1>6, <2>1, ArraySeparatorStays, Zenon
    <2>4. Shape'
      <3>1. [kind |-> Top.kind, expects |-> w, unnamed |-> Top.unnamed] \in Frames
        <4>1. Top.unnamed \in BOOLEAN BY <1>1, StackFacts, FrameFields
        <4> QED BY <1>2, <2>2, <4>1 DEF Frames, ArrayExpects, ObjectExpects
      <3>2. root' \in RootTypes
        <4>1. root' = root BY <1>6, Zenon DEF ReadArraySeparator
        <4> QED BY <1>1, <4>1 DEF Shape, RootTypes
      <3> QED BY <1>1, <1>2, <1>4, <2>3, <3>1, <3>2, ShapeStays
    <2>5. Liberties'
      <3>1. w # "first" /\ w # "any_separator" BY <2>2
      <3>2. Top.kind # "object" BY <1>2
      <3> QED BY <1>1, <1>2, <2>2, <2>3, <3>1, <3>2, LibertiesGoOn
    <2>6. Follows(at)' BY <1>1, <1>4, <1>6, ReadArraySeparatorFollows
    <2>7. ItemsRead(at)' BY <1>1, <1>4, <1>6, ArraySeparatorItems
    <2> QED BY <2>4, <2>5, <2>6, <2>7 DEF Kept
  <1> QED BY <1>5, <1>6

\* Inside an object.
LEMMA ObjectGoesOn ==
    ASSUME NEW at, Kept(at), NEW t \in Tokens \cup {"end"}, Reads(t), Len(stack) > 1,
           Top.kind = "object", NEW w, NEW u, Stays(w, u), root' = root, result' = "none",
           w \in {"name", "colon", "value", "recovery"}, u \in BOOLEAN,
           u => StillNamed(w)',
           Follows(at)'
    PROVE  Kept(at)'
  <1>1. Shape /\ Liberties /\ Follows(at) /\ ItemsRead(at) BY DEF Kept
  <1>2. Shape'
    <2>1. [kind |-> Top.kind, expects |-> w, unnamed |-> u] \in Frames
      BY DEF Frames, ArrayExpects, ObjectExpects
    <2>2. root' \in RootTypes BY <1>1 DEF Shape, RootTypes
    <2> QED BY <1>1, <2>1, <2>2, ShapeStays
  <1>3. Liberties'
    <2>1. w # "first" /\ w # "any_separator" /\ w # "separator" OBVIOUS
    <2>2. Top.kind # "array" OBVIOUS
    <2> QED BY <1>1, <2>1, <2>2, LibertiesGoOn
  <1>4. ItemsRead(at)' BY <1>1, ObjectItems
  <1> QED BY <1>2, <1>3, <1>4 DEF Kept

\* The name of a member,
LEMMA NameStep ==
    ASSUME NEW at, Kept(at), NEW t \in Tokens \cup {"end"}, ReadName(t)
    PROVE  Kept(at)'
  <1>1. Shape /\ Liberties /\ Follows(at) /\ ItemsRead(at) BY DEF Kept
  <1>2. Reads(t) /\ Top.kind = "object" /\ Top.expects = "name" /\ result' = "none"
    BY DEF ReadName, Expecting
  <1>4. Len(stack) > 1
    <2>1. Top.kind # "root" BY <1>2
    <2> QED BY <1>1, <2>1, InContainer
  <1>5. CASE t = "}" /\ Top.unnamed
    <2>1. PICK k : k = Len(stack) OBVIOUS
    <2>2. Leaves(TRUE) BY <1>5, Zenon DEF ReadName
    <2>3. Reads("}") BY <1>2, <1>5
    <2>4. IsOver(at, k, TRUE)' BY <1>1, <1>2, <1>4, <1>5, <2>1, <2>3, ObjectEnds
    <2>5. t # "//" /\ t \in {"]", "}"} /\ Top.kind # "array" BY <1>2, <1>5
    <2> QED BY <1>2, <1>4, <2>1, <2>2, <2>4, <2>5, ReturnStep
  <1>6. CASE ~(t = "}" /\ Top.unnamed)
    <2>1. PICK w : w = IF t \in Strings THEN "colon" ELSE "recovery" OBVIOUS
    <2>2. PICK u \in BOOLEAN : u = (t # "name") OBVIOUS
    <2>3. /\ w \in {"name", "colon", "value", "recovery"}
          /\ u => w = "recovery" \/ (w = "colon" /\ t = "empty")
      BY <2>1, <2>2 DEF Strings
    <2>7. u => StillNamed(w)'
      <3>1. doc \in Seq(Tokens) BY <1>1, StackFacts
      <3>2. t = "empty" => t \in Tokens \ {"//"} BY DEF Tokens, Scalars, Strings
      <3>3. t = "empty" => TokenBefore' = t BY <1>2, <3>1, <3>2, ReadsBefore
      <3> QED BY <2>3, <3>3, Zenon DEF StillNamed
    <2>4. Stays(w, u) BY <1>1, <1>6, <2>1, <2>2, NameStays, Zenon
    <2>5. root' = root BY <1>6, Zenon DEF ReadName
    <2>6. Follows(at)' BY <1>1, <1>4, <1>6, ReadNameFollows
    <2> QED BY <1>2, <1>4, <2>3, <2>4, <2>5, <2>6, <2>7, ObjectGoesOn
  <1> QED BY <1>5, <1>6

\* its colon,
LEMMA ColonStep ==
    ASSUME NEW at, Kept(at), NEW t \in Tokens \cup {"end"}, ReadColon(t)
    PROVE  Kept(at)'
  <1>1. Shape /\ Liberties /\ Follows(at) /\ ItemsRead(at) BY DEF Kept
  <1>2. /\ Reads(t) /\ Top.kind = "object" /\ Top.expects = "colon" /\ result' = "none"
        /\ root' = root
    BY DEF ReadColon, Expecting
  <1>4. Len(stack) > 1
    <2>1. Top.kind # "root" BY <1>2
    <2> QED BY <1>1, <2>1, InContainer
  <1>5. PICK w : w = IF t = ":" THEN "value" ELSE "recovery" OBVIOUS
  <1>6. Stays(w, Top.unnamed) BY <1>1, <1>5, ColonStays, Zenon
  <1>7. w \in {"name", "colon", "value", "recovery"} BY <1>5
  <1>8. Top.unnamed \in BOOLEAN BY <1>1, StackFacts, FrameFields
  <1>9. Top.unnamed => StillNamed(w)'
    <2>1. Top.unnamed => TokenBefore = "empty" \/ EmptyNamed
      <3>1. "colon" # "recovery" /\ "colon" # "name" OBVIOUS
      <3> QED BY <1>1, <1>2, <3>1, Zenon DEF Liberties, TopNamed
    <2>2. doc \in Seq(Tokens) BY <1>1, StackFacts
    <2>3. EmptyNamed => EmptyNamed' BY <1>2, <2>2, LibertiesStay
    <2>4. t = ":" /\ TokenBefore = "empty" => EmptyNamed' BY <1>2, <2>2, EmptyNameRead
    <2>5. t # ":" => w = "recovery" BY <1>5
    <2>6. t = ":" => w # "name" BY <1>5
    <2> QED BY <2>1, <2>3, <2>4, <2>5, <2>6, Zenon DEF StillNamed
  <1>10. Follows(at)' BY <1>1, <1>4, ReadColonFollows
  <1> QED BY <1>2, <1>4, <1>6, <1>7, <1>8, <1>9, <1>10, ObjectGoesOn

\* and what comes after it.
LEMMA ObjectSeparatorStep ==
    ASSUME NEW at, Kept(at), NEW t \in Tokens \cup {"end"}, ReadObjectSeparator(t)
    PROVE  Kept(at)'
  <1>1. Shape /\ Liberties /\ Follows(at) /\ ItemsRead(at) BY DEF Kept
  <1>2. /\ Reads(t) /\ Top.kind = "object" /\ Top.expects \in {"separator", "any_separator"}
        /\ result' = "none"
    BY DEF ReadObjectSeparator, Expecting
  <1>4. Len(stack) > 1
    <2>1. Top.kind # "root" BY <1>2
    <2> QED BY <1>1, <2>1, InContainer
  <1>5. CASE t = "}"
    <2>1. PICK k : k = Len(stack) OBVIOUS
    <2>2. Leaves(TRUE) BY <1>5 DEF ReadObjectSeparator
    <2>3. Reads("}") BY <1>2, <1>5
    <2>4. IsOver(at, k, TRUE)' BY <1>1, <1>2, <1>4, <2>1, <2>3, ObjectEnds
    <2>5. Top.kind # "array" /\ t # "//" /\ t \in {"]", "}"} BY <1>2, <1>5
    <2> QED BY <1>2, <1>4, <2>1, <2>2, <2>4, <2>5, ReturnStep
  <1>6. CASE t # "}"
    <2>1. PICK w : w = AfterMember(t) OBVIOUS
    <2>2. w \in {"name", "recovery"} /\ w \in {"name", "colon", "value", "recovery"}
      BY <2>1 DEF AfterMember
    <2>3. Stays(w, Top.unnamed) BY <1>1, <1>6, <2>1, ObjectSeparatorStays, Zenon
    <2>4. Top.unnamed \in BOOLEAN BY <1>1, StackFacts, FrameFields
    <2>5. root' = root BY <1>6, Zenon DEF ReadObjectSeparator
    <2>6. Follows(at)' BY <1>1, <1>4, <1>6, ReadObjectSeparatorFollows
    <2>7. Top.unnamed => StillNamed(w)'
      <3> SUFFICES ASSUME Top.unnamed PROVE StillNamed(w)' OBVIOUS
      <3>1. doc \in Seq(Tokens) /\ t # "//" BY <1>1, StackFacts DEF ReadObjectSeparator
      <3>2. EmptyNamed'
        <4>1. Top.expects # "recovery" /\ Top.expects # "name" /\ Top.expects # "colon"
          BY <1>2
        <4>2. EmptyNamed BY <1>1, <1>2, <4>1, Zenon DEF Liberties, TopNamed
        <4> QED BY <1>2, <3>1, <4>2, LibertiesStay
      <3>3. w = "name" => TokenBefore' = "," \/ Liberal' \/ atEnd'
        <4>1. CASE t = ","
          <5>1. t \in Tokens \ {"//"} BY <4>1 DEF Tokens
          <5> QED BY <1>2, <3>1, <4>1, <5>1, ReadsBefore
        <4>2. CASE t = "end" BY <1>2, <4>2 DEF Reads
        <4>3. CASE t \notin {",", "end"}
          <5>1. w = "name" => Top.expects = "any_separator"
            BY <2>1, <4>3 DEF AfterMember
          <5>2. Top.expects = "any_separator" => CommentsBehind(ValueEnds)
            BY <1>1, Zenon DEF Liberties, CommentsSeen
          <5>3. t \in Tokens /\ t \notin {",", "}", "//"} BY <1>6, <3>1, <4>3
          <5>4. CommentsBehind(ValueEnds) => Liberal' BY <1>2, <3>1, <5>3, CommentIsLiberal
          <5> QED BY <5>1, <5>2, <5>4
        <4> QED BY <4>1, <4>2, <4>3
      <3> QED BY <3>2, <3>3, Zenon DEF StillNamed
    <2> QED BY <1>2, <1>4, <2>2, <2>3, <2>4, <2>5, <2>6, <2>7, ObjectGoesOn
  <1> QED BY <1>5, <1>6

\* recoverFromError().
LEMMA RecoverStep ==
    ASSUME NEW at, Kept(at), NEW t \in Tokens \cup {"end"}, Recover(t)
    PROVE  Kept(at)'
  <1>1. Shape /\ Liberties /\ Follows(at) /\ ItemsRead(at) BY DEF Kept
  <1>2. /\ Reads(t) /\ Top.kind \in {"array", "object"} /\ Top.expects = "recovery"
        /\ result' = "none" /\ t \in {"]", "}", "error", "end"}
    BY DEF Recover, Expecting
  <1>4. Len(stack) > 1
    <2>1. Top.kind # "root" BY <1>2
    <2> QED BY <1>1, <2>1, InContainer
  <1>5. CASE t \in {"end", IF Top.kind = "array" THEN "]" ELSE "}"}
    <2>1. PICK k : k = Len(stack) OBVIOUS
    <2>2. Leaves(FALSE) BY <1>5, Zenon DEF Recover
    <2>3. t \in {"]", "}", "end"} BY <1>5
    <2>4. IsOver(at, k, FALSE)' BY <1>1, <1>2, <1>4, <2>1, <2>3, RecoveryEnds
    <2>5. t # "//" BY <2>3
    <2> QED BY <1>2, <1>4, <2>1, <2>2, <2>4, <2>5, ReturnStep
  <1>6. CASE t \notin {"end", IF Top.kind = "array" THEN "]" ELSE "}"}
    <2>1. PICK w : w = "recovery" OBVIOUS
    <2>2. Stays(w, Top.unnamed) BY <1>1, <1>6, <2>1, RecoverStays, Zenon
    <2>3. root' = root BY <1>6, Zenon DEF Recover
    <2>4. Shape'
      <3>1. [kind |-> Top.kind, expects |-> w, unnamed |-> Top.unnamed] \in Frames
        <4>1. Top.unnamed \in BOOLEAN BY <1>1, StackFacts, FrameFields
        <4> QED BY <1>2, <2>1, <4>1 DEF Frames, ArrayExpects, ObjectExpects
      <3>2. root' \in RootTypes BY <1>1, <2>3 DEF Shape, RootTypes
      <3> QED BY <1>1, <1>2, <1>4, <2>2, <3>1, <3>2, ShapeStays
    <2>5. Liberties'
      <3>1. w # "first" /\ w # "any_separator" /\ w # "value" /\ w # "separator" BY <2>1
      <3>2. StillNamed(w)' BY <2>1, Zenon DEF StillNamed
      <3> QED BY <1>1, <1>2, <2>1, <2>2, <3>1, <3>2, LibertiesGoOn
    <2>6. Follows(at)' BY <1>1, <1>4, <1>6, RecoverFollows
    <2>7. ItemsRead(at)' BY <1>1, <1>4, <1>6, RecoveryItems
    <2> QED BY <2>4, <2>5, <2>6, <2>7 DEF Kept
  <1> QED BY <1>5, <1>6

\* A comment.
LEMMA CommentStep ==
    ASSUME NEW at, Kept(at), ReadComment
    PROVE  Kept(at)'
  <1>1. Shape /\ Liberties /\ Follows(at) /\ ItemsRead(at) BY DEF Kept
  <1>2. /\ Reads("//") /\ result' = "none" /\ root' = root
        /\ Top.expects \in {"value", "first", "name", "separator", "any_separator",
                            "trailer"}
    BY DEF ReadComment
  <1>3. doc \in Seq(Tokens) /\ Top \in Frames BY <1>1, StackFacts
  <1>4. PICK w : w = AfterComment OBVIOUS
  <1>5. Stays(w, Top.unnamed) BY <1>1, <1>4, CommentStays, Zenon
  <1>6. Stripped' = Stripped /\ ~atEnd
    <2>1. "//" # "end" OBVIOUS
    <2>2. ~atEnd BY <1>2, <2>1, Zenon DEF Reads
    <2> QED BY <1>2, <1>3, <2>2, ReadsAComment
  <1>7. root' \in RootTypes BY <1>1, <1>2 DEF Shape, RootTypes
  <1>8. PICK t \in Tokens \cup {"end"} : t = "//" BY DEF Tokens
  <1>9. Reads(t) BY <1>2, <1>8
  <1>10. [kind |-> Top.kind, expects |-> w, unnamed |-> Top.unnamed] \in Frames
    <2>1. /\ Top.unnamed \in BOOLEAN
          /\ \/ Top.kind = "root" /\ Top.expects \in {"value", "trailer"}
             \/ Top.kind = "array" /\ Top.expects \in ArrayExpects
             \/ Top.kind = "object" /\ Top.expects \in ObjectExpects
      BY <1>3, FrameFields
    <2>2. \/ Top.kind = "root" /\ w \in {"value", "trailer"}
          \/ Top.kind = "array" /\ w \in ArrayExpects
          \/ Top.kind = "object" /\ w \in ObjectExpects
      BY <2>1, <1>4 DEF AfterComment, ArrayExpects, ObjectExpects
    <2> QED BY <2>1, <2>2 DEF Frames
  <1>11. w # "first" /\ (w = "value" => Top.expects \in {"value", "first"})
    BY <1>4 DEF AfterComment
  <1>12. Liberties'
    <2>1. Top.kind = "array" /\ w = "value" => CommentsBehind({"["})' \/ TokenBefore' # "["
      <3> SUFFICES ASSUME Top.kind = "array", w = "value", TokenBefore' = "["
                   PROVE  CommentsBehind({"["})'
        OBVIOUS
      <3>1. TokenBefore = "[" BY <1>6 DEF TokenBefore
      <3>2. CommentsBehind({"["}) \/ LastRead = "["
        <4>1. CASE Top.expects = "first"
          BY <1>1, <4>1, Zenon DEF Liberties, CommentsSeen
        <4>2. CASE Top.expects = "value"
          BY <1>1, <4>2, <3>1, Zenon DEF Liberties, CommentsSeen
        <4> QED BY <1>11, <4>1, <4>2
      <3>3. PICK S : S = {"["} OBVIOUS
      <3>4. "nothing" \notin S /\ (CommentsBehind(S) \/ LastRead \in S) BY <3>2, <3>3
      <3>5. CommentsBehind(S)' BY <1>2, <1>3, <3>4, CommentHides
      <3> QED BY <3>3, <3>5 DEF CommentsBehind
    <2>2. w = "any_separator" => CommentsBehind(ValueEnds)'
      <3> SUFFICES ASSUME w = "any_separator" PROVE CommentsBehind(ValueEnds)' OBVIOUS
      <3>1. \/ Top.expects = "any_separator"
            \/ Top.kind = "object" /\ Top.expects = "separator"
        BY <1>4 DEF AfterComment
      <3>2. PICK S : S = ValueEnds OBVIOUS
      <3>3. "nothing" \notin S BY <3>2 DEF ValueEnds, Scalars, Strings
      <3>4. CommentsBehind(S) \/ LastRead \in S
        BY <1>1, <3>1, <3>2, Zenon DEF Liberties, CommentsSeen
      <3>5. CommentsBehind(S)' BY <1>2, <1>3, <3>3, <3>4, CommentHides
      <3> QED BY <3>2, <3>5 DEF CommentsBehind
    <2>3. Top.kind = "object" => w # "separator" BY <1>4 DEF AfterComment
    <2>4. Top.kind = "object" /\ Top.unnamed => StillNamed(w)'
      <3> SUFFICES ASSUME Top.kind = "object", Top.unnamed PROVE StillNamed(w)' OBVIOUS
      <3>1. /\ Liberal => Liberal'
            /\ EmptyNamed => EmptyNamed'
        BY <1>3, <1>8, <1>9, LibertiesStay
      <3>2. TokenBefore' = TokenBefore BY <1>6 DEF TokenBefore
      <3>3. Top.expects # "recovery" /\ Top.expects # "colon" BY <1>2
      <3>4. w = "name" <=> Top.expects = "name" BY <1>4 DEF AfterComment
      <3> QED BY <1>1, <1>6, <3>1, <3>2, <3>3, <3>4, Zenon
              DEF Liberties, TopNamed, StillNamed
    <2> QED BY <1>1, <1>5, <1>9, <1>11, <2>1, <2>2, <2>3, <2>4, LibertiesGoOn
  <1>13. ItemsRead(at)' BY <1>1, CommentItems
  <1>14. CASE Len(stack) = 1
    <2>1. Shape'
      <3>1. NextShape BY <1>1, <1>5, <1>10, StaysShape
      <3>2. Top.kind = "root" BY <1>1, <1>14, StackFacts, Zenon
      <3>3. Top.expects \in {"value", "trailer"} BY <1>3, <3>2, FrameFields
      <3>4. w = Top.expects BY <1>4, <3>2, <3>3 DEF AfterComment
      <3>5. Top'.expects = w BY <1>5 DEF Stays
      <3>6. Len(stack') = 1 BY <1>5, <1>14, Zenon DEF Stays
      <3>7. Top'.expects # "value" \/ (Top.expects = "value" /\ t = "//" /\ root' = root)
        BY <1>2, <1>8, <3>4, <3>5, Zenon
      <3>8. Len(stack') = 1 => \/ Top'.expects # "value"
                               \/ Len(stack) = 1 /\ Top.expects = "value" /\ t = "//" /\ root' = root
        BY <1>14, <3>7, Zenon
      <3>9. Len(stack) = 1 => Len(stack') = 1 \/ t \notin {"end", "//"} BY <3>6, Zenon
      <3>10. Top'.expects = Top.expects BY <3>4, <3>5
      <3> QED BY <1>1, <1>2, <1>7, <1>9, <3>1, <3>8, <3>9, <3>10, ShapeNext, Zenon
    <2>2. Follows(at)' BY <1>1, <1>14, RootCommentFollows
    <2> QED BY <1>12, <1>13, <2>1, <2>2 DEF Kept
  <1>15. CASE Len(stack) # 1
    <2>0. Len(stack) > 1
      <3>1. PICK n \in Nat : n = Len(stack) /\ n >= 1 BY <1>1, StackFacts
      <3>2. n > 1 BY ONLY <3>1, <1>15
      <3> QED BY <3>1, <3>2, Zenon
    <2>1. Shape' BY <1>1, <1>2, <1>5, <1>7, <1>9, <1>10, <2>0, ShapeStays
    <2>2. Follows(at)' BY <1>1, <2>0, ReadCommentFollows
    <2> QED BY <1>12, <1>13, <2>1, <2>2 DEF Kept
  <1> QED BY <1>14, <1>15

\* The root is a scalar, or no value.
LEMMA RootScalarStep ==
    ASSUME NEW at, Kept(at), NEW t \in Tokens \cup {"end"}, ReadScalar(t), Len(stack) = 1
    PROVE  Kept(at)'
  <1>1. Shape /\ Liberties /\ Follows(at) /\ ItemsRead(at) BY DEF Kept
  <1>2. Reads(t) /\ t # "//" /\ result' = "none" BY DEF ReadScalar
  <1>3. Top.kind = "root" /\ Top \in Frames BY <1>1, StackFacts, Zenon
  <1>4. PICK w : w = "trailer" OBVIOUS
  <1>5. Stays(w, Top.unnamed) BY <1>1, <1>4, RootScalarStays, Zenon
  <1>6. Shape'
    <2>1. [kind |-> Top.kind, expects |-> w, unnamed |-> Top.unnamed] \in Frames
      <3>1. Top.unnamed \in BOOLEAN BY <1>3, FrameFields
      <3> QED BY <1>3, <1>4, <3>1 DEF Frames
    <2>2. NextShape BY <1>1, <1>5, <2>1, StaysShape
    <2>3. Top'.expects = w BY <1>5 DEF Stays
    <2>4. Top'.expects # "value" BY <1>4, <2>3
    <2>5. Len(stack') = 1 BY <1>5, Zenon DEF Stays
    <2>6. root' \in RootTypes
      <3>1. PICK r \in RootTypes : r = Puts(t)
        <4>1. root \in RootTypes BY <1>1 DEF Shape, RootTypes
        <4> QED BY <4>1, PutsType
      <3>2. \A x \in BOOLEAN : [r EXCEPT !.ok = x] \in RootTypes BY <3>1 DEF RootTypes
      <3>3. root' = [r EXCEPT !.ok = t \in Scalars] BY <1>3, <3>1, Zenon DEF ReadScalar
      <3>4. PICK x \in BOOLEAN : x = (t \in Scalars)
        <4>1. (t \in Scalars) \in BOOLEAN OBVIOUS
        <4> QED BY <4>1, Zenon
      <3>5. root' = [r EXCEPT !.ok = x] BY <3>3, <3>4, Zenon
      <3> QED BY <3>2, <3>5, Zenon
    <2> QED BY <1>1, <1>2, <2>2, <2>4, <2>5, <2>6, ShapeNext
  <1>7. Liberties'
    <2>1. w # "first" /\ w # "any_separator" /\ w # "value" BY <1>4
    <2>2. Top.kind # "object" BY <1>3
    <2> QED BY <1>1, <1>2, <1>5, <2>1, <2>2, LibertiesGoOn
  <1>8. Follows(at)' BY <1>1, RootScalarFollows
  <1>9. ItemsRead(at)' BY <1>1, RootScalarItems
  <1> QED BY <1>6, <1>7, <1>8, <1>9 DEF Kept

\* parse() returns.
LEMMA TrailerStep ==
    ASSUME NEW at, Kept(at), NEW t \in Tokens \cup {"end"}, Return(t)
    PROVE  Kept(at)'
  <1>1. Shape /\ Liberties /\ Follows(at) /\ ItemsRead(at) BY DEF Kept
  <1>2. /\ Reads(t) /\ t # "//" /\ Top.kind = "root" /\ Top.expects = "trailer"
        /\ stack' = stack /\ root' = root
        /\ result' = IF root.ok THEN "success" ELSE "failure"
    BY DEF Return, Expecting
  <1>3. doc \in Seq(Tokens) /\ Len(stack) = 1 BY <1>1, <1>2, StackFacts, Zenon
  <1>4. Top' = Top BY <1>2 DEF Top
  <1>5. Shape'
    <2>1. doc' \in Seq(Tokens) /\ atEnd' \in BOOLEAN BY <1>2, <1>3, DocumentTypes
    <2>4. Stripped' = <<>> => atEnd'
      <3>1. Stripped' = <<>> => t = "end" BY <1>2, <1>3, StrippedMore
      <3> QED BY <1>2, <3>1 DEF Reads
    <2>2. result' \in {"none", "success", "failure"} BY <1>2
    <2>3. Top'.expects = "trailer" /\ "trailer" # "value" BY <1>2, <1>4
    <2> QED BY <1>1, <1>2, <1>3, <2>1, <2>2, <2>3, <2>4, Zenon DEF Shape
  <1>6. Liberties'
    <2>1. Top.kind # "object" BY <1>2
    <2>2. Top.expects \notin {"any_separator", "first", "value"} BY <1>2
    <2>3. CallersNamed'
      <3>1. EmptyNamed => EmptyNamed' BY <1>2, <1>3, LibertiesStay
      <3> QED BY <1>1, <1>2, <3>1, Zenon DEF Liberties, CallersNamed
    <2>4. TopNamed' BY <1>4, <2>1, Zenon DEF TopNamed
    <2>5. CommentsSeen' BY <1>4, <2>1, <2>2, Zenon DEF CommentsSeen
    <2> QED BY <2>3, <2>4, <2>5 DEF Liberties
  <1>7. Follows(at)' BY <1>1, ReturnFollows
  <1>8. ItemsRead(at)' BY <1>1, TrailerItems
  <1> QED BY <1>5, <1>6, <1>7, <1>8 DEF Kept

\* Nothing has been read.
LEMMA InitKept ==
    ASSUME Init
    PROVE  \E at : Kept(at)
  <1> DEFINE at == [k \in Nat |-> 1]
  <1>1. /\ doc = <<>> /\ atEnd = FALSE /\ stack = <<Frame("root", "value")>>
        /\ root = [kind |-> "null", items |-> <<>>, ok |-> FALSE] /\ result = "none"
    BY DEF Init
  <1>2. /\ Len(stack) = 1 /\ stack[1] = Frame("root", "value")
        /\ Top = Frame("root", "value")
    BY <1>1 DEF Top
  <1>3. /\ Top.kind = "root" /\ Top.expects = "value" /\ stack[1].kind = "root"
        /\ Frame("root", "value") \in Frames
    BY <1>2 DEF Frame, Frames
  <1>4. Stripped = <<>> BY <1>1, UncommentedEmpty DEF Stripped
  <1>5. Shape
    <2>1. /\ doc \in Seq(Tokens) /\ atEnd \in BOOLEAN
          /\ result \in {"none", "success", "failure"}
      <3>1. <<>> \in Seq(Tokens) OBVIOUS
      <3> QED BY <1>1, <3>1
    <2>2. root \in [kind : Kinds, items : Seq(Kinds), ok : BOOLEAN] BY <1>1 DEF Kinds
    <2>3. stack \in Seq(Frames) BY <1>1, <1>3
    <2>4. /\ Len(stack) >= 1 /\ \A i \in 1..Len(stack) : i = 1
          /\ \A i \in 1..(Len(stack) - 1) : FALSE
      BY ONLY <1>2
    <2>5. Top.expects # "trailer" BY <1>3
    <2>6. root.items = <<>> BY <1>1
    <2>7. \A i \in 1..Len(stack) : stack[i].kind = "root" <=> i = 1
      BY <1>3, <2>4, Zenon
    <2>8. \A i \in 1..(Len(stack) - 1) : stack[i].expects \in {"value", "first"}
      BY <2>4, Zenon
    <2>9. result = "none" BY <1>1
    <2> QED BY <1>2, <1>4, <2>1, <2>2, <2>3, <2>4, <2>5, <2>6, <2>7, <2>8, <2>9, Zenon DEF Shape
  <1>6. Liberties
    <2>1. \A i \in 1..(Len(stack) - 1) : FALSE BY ONLY <1>2
    <2>2. Top.kind # "object" /\ Top.kind # "array" /\ Top.expects # "any_separator"
          /\ Top.expects # "first"
      BY <1>3
    <2> QED BY <2>1, <2>2, Zenon DEF Liberties, CallersNamed, TopNamed, CommentsSeen
  <1>7. Follows(at)
    <2>1. Beginnings(at) BY DEF Beginnings
    <2>2. RootEnds
      <3>1. Top.expects # "trailer" BY <1>3
      <3> QED BY <3>1, Zenon DEF RootEnds
    <2>3. \A k \in 2..(Len(stack) - 1) : FALSE BY ONLY <1>2
    <2>4. ~(Len(stack) > 1) BY ONLY <1>2
    <2> HIDE DEF at
    <2> QED BY <2>1, <2>2, <2>3, <2>4, Zenon DEF Follows, CallersEnd, TopEnds
  <1>8. ItemsRead(at)
    <2>1. 1 \notin DOMAIN Stripped BY <1>4
    <2>2. At(Stripped, 1) # "[" BY <2>1 DEF At
    <2> QED BY <2>2, Zenon DEF ItemsRead
  <1> HIDE DEF at
  <1>9. Kept(at) BY <1>5, <1>6, <1>7, <1>8 DEF Kept
  <1> QED BY <1>9, Zenon

\* Nothing happens.
LEMMA NothingHappens ==
    ASSUME NEW at, Kept(at), UNCHANGED vars
    PROVE  Kept(at)'
  <1>1. doc' = doc /\ atEnd' = atEnd /\ stack' = stack /\ root' = root /\ result' = result
    BY DEF vars
  <1>2. Top' = Top /\ Stripped' = Stripped /\ LastRead' = LastRead
    BY <1>1 DEF Top, Stripped, LastRead
  <1>3. Place' = Place /\ TokenBefore' = TokenBefore /\ Futures' = Futures
    BY <1>1, <1>2 DEF Place, TokenBefore, Futures
  <1>4. /\ Liberal' <=> Liberal
        /\ EmptyNamed' <=> EmptyNamed
        /\ CommentMisplaced' <=> CommentMisplaced
        /\ CommentsBehind({"["})' <=> CommentsBehind({"["})
        /\ CommentsBehind(ValueEnds)' <=> CommentsBehind(ValueEnds)
    BY <1>1, <1>2 DEF Liberal, CommentForComma, LastComma, EmptyNamed, CommentMisplaced,
                      CommentsBehind
  <1>5. \A e, p : Agrees(e, p)' <=> Agrees(e, p) BY <1>4, Zenon DEF Agrees
  <1>6. Shape /\ Liberties /\ Follows(at) /\ ItemsRead(at) BY DEF Kept
  <1>7. Shape' BY <1>1, <1>2, <1>6 DEF Shape
  <1>8. Liberties'
    BY <1>1, <1>2, <1>3, <1>4, <1>6, Zenon
       DEF Liberties, CallersNamed, TopNamed, CommentsSeen
  <1>9. Follows(at)'
    <2>1. RootPlaces' = RootPlaces BY <1>1, <1>3 DEF RootPlaces
    <2>2. RootEnds' BY <1>1, <1>2, <1>3, <1>5, <1>6, <2>1 DEF RootEnds, Follows
    <2>3. CallersEnd(at)' BY <1>1, <1>3, <1>5, <1>6 DEF CallersEnd, Follows
    <2>4. \A d, p, f, e : Continues(d, p, f, e)' <=> Continues(d, p, f, e)
      BY <1>5 DEF Continues
    <2>5. TopEnds(at)'
      <3>1. TopEnds(at) BY <1>6 DEF Follows
      <3>2. PICK p : p = Place OBVIOUS
      <3>3. PICK f : f = Top OBVIOUS
      <3>4. PICK k : k = Len(stack) OBVIOUS
      <3>5. k > 1 => \A d \in Futures : Continues(d, p, f, ValueEnd(d, at[k]))
        BY <3>1, <3>2, <3>3, <3>4, Zenon DEF TopEnds
      <3>6. k > 1 => \A d \in Futures' : Continues(d, p, f, ValueEnd(d, at[k]))'
        BY <3>5, <1>3, <2>4, Zenon
      <3>7. p = Place' /\ f = Top' /\ k = Len(stack') BY <1>1, <1>2, <1>3, <3>2, <3>3, <3>4, Zenon
      <3> QED BY <3>6, <3>7 DEF TopEnds, Continues, Agrees
    <2> QED BY <1>6, <2>2, <2>3, <2>5 DEF Follows, Beginnings
  <1>10. ItemsRead(at)'
    <2>1. Begun' = Begun BY <1>1, <1>2 DEF Begun
    <2>2. \A d : ToCome(d, at)' = ToCome(d, at) BY <1>1, <1>2, <1>3, Zenon DEF ToCome
    <2>3. \A done : Recorded(done)' <=> Recorded(done) BY <1>1, <1>2, Zenon DEF Recorded
    <2>4. \A done : ItemsSoFar(at, done) => ItemsSoFar(at, done)'
      BY <1>1, <1>2, <1>3, <2>1, <2>2, <2>3, Zenon DEF ItemsSoFar
    <2>5. Plain' <=> Plain BY <1>4, Zenon DEF Plain
    <2> QED BY <1>1, <1>2, <1>6, <2>4, <2>5, Zenon DEF ItemsRead
  <1> QED BY <1>7, <1>8, <1>9, <1>10 DEF Kept

\* Every step keeps it.
LEMMA StepKept ==
    ASSUME NEW at, Kept(at), [Next]_vars
    PROVE  \E b : Kept(b)'
  <1>1. Shape BY DEF Kept
  <1>2. CASE UNCHANGED vars BY <1>2, NothingHappens, Zenon
  <1>3. ASSUME NEW t \in Tokens \cup {"end"}, ReadScalar(t) PROVE \E b : Kept(b)'
    <2>1. CASE Len(stack) = 1 BY <1>3, <2>1, RootScalarStep, Zenon
    <2>2. CASE Len(stack) # 1
      <3>1. Top.kind # "root" BY <1>1, <2>2, StackFacts, Zenon
      <3>2. Len(stack) > 1 BY <1>1, <3>1, InContainer
      <3> QED BY <1>3, <3>2, ScalarStep, Zenon
    <2> QED BY <2>1, <2>2
  <1>4. ASSUME NEW t \in Tokens \cup {"end"}, ReadContainer(t) PROVE \E b : Kept(b)'
    BY <1>4, ContainerStep
  <1>5. ASSUME NEW t \in Tokens \cup {"end"}, ReadArraySeparator(t) PROVE \E b : Kept(b)'
    BY <1>5, ArraySeparatorStep, Zenon
  <1>6. ASSUME NEW t \in Tokens \cup {"end"}, ReadName(t) PROVE \E b : Kept(b)'
    BY <1>6, NameStep, Zenon
  <1>7. ASSUME NEW t \in Tokens \cup {"end"}, ReadColon(t) PROVE \E b : Kept(b)'
    BY <1>7, ColonStep, Zenon
  <1>8. ASSUME NEW t \in Tokens \cup {"end"}, ReadObjectSeparator(t) PROVE \E b : Kept(b)'
    BY <1>8, ObjectSeparatorStep, Zenon
  <1>9. ASSUME NEW t \in Tokens \cup {"end"}, Recover(t) PROVE \E b : Kept(b)'
    BY <1>9, RecoverStep, Zenon
  <1>10. ASSUME NEW t \in Tokens \cup {"end"}, Return(t) PROVE \E b : Kept(b)'
    BY <1>10, TrailerStep, Zenon
  <1>11. CASE ReadEmptyArray BY <1>11, EmptyArrayStep, Zenon
  <1>12. CASE ReadComment BY <1>12, CommentStep, Zenon
  <1>13. CASE Step
    <2>1. CASE ReadEmptyArray \/ ReadComment BY <2>1, <1>11, <1>12
    <2>2. ASSUME NEW t \in Tokens \cup {"end"},
                 \/ ReadScalar(t) \/ ReadContainer(t)
                 \/ ReadArraySeparator(t) \/ ReadName(t) \/ ReadColon(t)
                 \/ ReadObjectSeparator(t) \/ Recover(t) \/ Return(t)
          PROVE  \E b : Kept(b)'
      <3>1. CASE ReadScalar(t) BY <3>1, <1>3
      <3>2. CASE ReadContainer(t) BY <3>2, <1>4
      <3>3. CASE ReadArraySeparator(t) BY <3>3, <1>5
      <3>4. CASE ReadName(t) BY <3>4, <1>6
      <3>5. CASE ReadColon(t) BY <3>5, <1>7
      <3>6. CASE ReadObjectSeparator(t) BY <3>6, <1>8
      <3>7. CASE Recover(t) BY <3>7, <1>9
      <3>8. CASE Return(t) BY <3>8, <1>10
      <3> QED BY <2>2, <3>1, <3>2, <3>3, <3>4, <3>5, <3>6, <3>7, <3>8
    <2> QED BY <1>13, <2>1, <2>2 DEF Step
  <1>14. CASE Ended
    <2>1. UNCHANGED vars BY <1>14 DEF Ended
    <2> QED BY <1>2, <2>1, Zenon
  <1> QED BY <1>2, <1>13, <1>14, Zenon DEF Next

\* In every state of parse() there are places where the values of the calls
\* under way begin, such that each value ends where its call will find it, the
\* liberties taken are remembered, and the items are those of the file so far.
THEOREM InductiveInvariant == Spec => []IInv
  <1>1. Init => IInv BY InitKept DEF IInv
  <1>2. IInv /\ [Next]_vars => IInv' BY StepKept DEF IInv
  <1> QED BY <1>1, <1>2, PTL DEF Spec

\* The document that has been read is one that it can become.
LEMMA StrippedGoesOn ==
    ASSUME doc \in Seq(Tokens)
    PROVE  Stripped \in Futures
  <1>1. Stripped \in Seq(Tokens) /\ Len(Stripped) \in Nat BY StrippedType
  <1>2. Len(Stripped) <= Len(Stripped) BY ONLY <1>1
  <1> QED BY <1>1, <1>2, Zenon DEF Futures, Documents

\* What parse() returns is about the value.
LEMMA ResultTells ==
    ASSUME NEW at, Kept(at), result # "none"
    PROVE  /\ Len(stack) = 1 /\ result = IF root.ok THEN "success" ELSE "failure"
           /\ \E p \in {Place, Place - 1} \ {0} :
                  Agrees(ValueEnd(Stripped, 1), IF root.ok THEN p ELSE 0)
  <1>1. Shape /\ RootEnds BY DEF Kept, Follows
  <1>2. /\ Len(stack) = 1 /\ Top.expects = "trailer"
        /\ result = IF root.ok THEN "success" ELSE "failure"
    BY <1>1, Zenon DEF Shape
  <1>3. Stripped \in Futures BY <1>1, StackFacts, StrippedGoesOn
  <1>4. \E p \in RootPlaces : Agrees(ValueEnd(Stripped, 1), IF root.ok THEN p ELSE 0)
    BY <1>1, <1>2, <1>3, Zenon DEF RootEnds
  <1>5. RootPlaces = {Place, Place - 1} \ {0} BY Zenon DEF RootPlaces
  <1> QED BY <1>2, <1>4, <1>5

\* The types follow,
LEMMA KeptTypes ==
    ASSUME NEW at, Kept(at)
    PROVE  TypeOK
  <1>1. Shape BY DEF Kept
  <1>2. PICK n \in Nat : n = Len(stack) /\ n >= 1 BY <1>1, StackFacts
  <1>3. 1 \in 1..n /\ DOMAIN stack = 1..n /\ \A i \in (1..n) \ {n} : i \in 1..(n - 1)
    <2>1. stack \in Seq(Frames) BY <1>1, StackFacts
    <2>2. DOMAIN stack = 1..n BY ONLY <2>1, <1>2
    <2>3. 1 \in 1..n /\ \A i \in (1..n) \ {n} : i \in 1..(n - 1) BY ONLY <1>2
    <2> QED BY <2>2, <2>3
  <1>4. /\ \A k \in 1..n : stack[k] \in Frames
        /\ \A k \in 1..n : stack[k].kind = "root" <=> k = 1
        /\ \A k \in 1..(n - 1) : stack[k].expects \in {"value", "first"}
    BY <1>1, <1>2, StackFacts, Zenon DEF Shape
  <1>5. stack[1].kind = "root" /\ stack[1].expects \in {"value", "trailer"}
    <2>1. stack[1].kind = "root" /\ stack[1] \in Frames BY <1>3, <1>4, Zenon
    <2> QED BY <2>1, FrameFields
  <1>6. \A i \in (1..n) \ {1} : stack[i].kind \in {"array", "object"}
    <2> SUFFICES ASSUME NEW i \in 1..n, i # 1 PROVE stack[i].kind \in {"array", "object"}
      OBVIOUS
    <2>1. stack[i] \in Frames /\ stack[i].kind # "root" BY <1>4, Zenon
    <2> QED BY <2>1, FrameFields
  <1>7. \A i \in (1..n) \ {n} : stack[i].expects \in {"value", "first"}
    BY <1>3, <1>4, Zenon
  <1>8. /\ doc \in Seq(Tokens) /\ atEnd \in BOOLEAN /\ root.ok \in BOOLEAN
        /\ result \in {"none", "success", "failure"} /\ (result # "none" => Len(stack) = 1)
    BY <1>1 DEF Shape
  <1> QED BY <1>2, <1>3, <1>5, <1>6, <1>7, <1>8, Zenon DEF TypeOK

\* parse() returns true for every JSON document, of any length and depth,
\* with comments wherever readArray() and readObject() look for them.
THEOREM AllJsonIsAccepted == Spec => []JsonIsAccepted
  <1>1. IInv => JsonIsAccepted
    <2> SUFFICES ASSUME NEW at, Kept(at), result # "none", ValueEnd(Stripped, 1) # 0,
                        ~CommentMisplaced
                 PROVE  result = "success"
      BY DEF IInv, JsonIsAccepted
    <2>1. /\ result = IF root.ok THEN "success" ELSE "failure"
          /\ \E p : Agrees(ValueEnd(Stripped, 1), IF root.ok THEN p ELSE 0)
      BY ResultTells
    <2>2. ~Agrees(ValueEnd(Stripped, 1), 0) BY Zenon DEF Agrees
    <2> QED BY <2>1, <2>2, Zenon
  <1> QED BY <1>1, InductiveInvariant, PTL

\* When parse() returns true, the document is a JSON value and at most one
\* more token, unless it is one in which readObject() may take a liberty: no
\* recoverFromError(), at any depth, loses the error.
THEOREM OnlyJsonIsAccepted == Spec => []AcceptedIsJson
  <1>1. IInv => AcceptedIsJson
    <2> SUFFICES ASSUME NEW at, Kept(at), result = "success", ~Liberal
                 PROVE  ValueEnd(Stripped, 1) \in {Len(Stripped), Len(Stripped) + 1}
      BY DEF IInv, AcceptedIsJson
    <2>1. result # "none" /\ "failure" # "success" OBVIOUS
    <2>2. root.ok BY <2>1, ResultTells
    <2>3. PICK p \in {Place, Place - 1} \ {0} : Agrees(ValueEnd(Stripped, 1), p)
      BY <2>1, <2>2, ResultTells, Zenon
    <2>4. ValueEnd(Stripped, 1) = p BY <2>3 DEF Agrees
    <2>5. doc \in Seq(Tokens) BY StackFacts DEF Kept
    <2>6. Len(Stripped) \in Nat BY <2>5, StrippedType
    <2>7. p \in {Len(Stripped), Len(Stripped) + 1} BY ONLY <2>3, <2>6 DEF Place
    <2> QED BY <2>4, <2>7
  <1> QED BY <1>1, InductiveInvariant, PTL

\* and so do the items, once parse() has returned.
LEMMA KeptItems ==
    ASSUME NEW at, Kept(at)
    PROVE  ItemsOfFile
  <1> DEFINE s == Stripped
             starts == ItemsFrom(s, 2)
  <1> SUFFICES ASSUME result # "none", At(s, 1) = "[", ~Liberal, ~CommentMisplaced
               PROVE  /\ Len(Items) \in {Len(starts), Len(starts) + 1}
                      /\ result = "success" => Len(Items) = Len(starts)
                      /\ \A k \in DOMAIN starts : Items[k] = ValueOf(s[starts[k]])
    BY Zenon DEF ItemsOfFile
  <1>1. Len(stack) = 1 /\ result = IF root.ok THEN "success" ELSE "failure" BY ResultTells
  <1>2. doc \in Seq(Tokens) /\ root \in RootTypes BY StackFacts DEF Kept, Shape, RootTypes
  <1>3. ItemsRead(at) /\ Plain BY DEF Kept, Plain
  <1>4. Items = root.items
    <2>1. root.kind = "array" BY <1>3, Zenon DEF ItemsRead
    <2> QED BY <2>1 DEF Items
  <1>5. PICK done \in Seq(Nat) : ItemsSoFar(at, done) BY <1>3, Zenon DEF ItemsRead
  <1>6. starts = done
    <2>1. s \in Futures BY <1>2, StrippedGoesOn
    <2>2. ~(1 > 2) OBVIOUS
    <2>3. ToCome(s, at) = <<>> BY <1>1, <2>2, Zenon DEF ToCome
    <2> QED BY <1>5, <2>1, <2>3, NoMore, Zenon DEF ItemsSoFar
  <1>7. Len(root.items) - Len(done) \in Unfinished(~root.ok) /\ Recorded(done)
    <2>1. ~(1 > 2) OBVIOUS
    <2> QED BY <1>1, <1>5, <2>1, Zenon DEF ItemsSoFar, Begun
  <1>8. Len(root.items) \in Nat /\ Len(done) \in Nat /\ DOMAIN done = 1..Len(done)
    BY ONLY <1>2, done \in Seq(Nat) DEF RootTypes
  <1>9. Len(root.items) \in {Len(done), Len(done) + 1}
    BY ONLY <1>7, <1>8 DEF Unfinished
  <1>10. result = "success" => Len(root.items) = Len(done)
    <2> SUFFICES ASSUME result = "success" PROVE Len(root.items) = Len(done) OBVIOUS
    <2>1. root.ok
      <3>1. "failure" # "success" OBVIOUS
      <3> QED BY <1>1, <3>1, Zenon
    <2> QED BY ONLY <1>7, <1>8, <2>1 DEF Unfinished
  <1>11. \A k \in DOMAIN done : root.items[k] = ValueOf(s[done[k]])
    BY <1>7, <1>8, Zenon DEF Recorded
  <1> HIDE DEF s, starts
  <1> QED BY <1>4, <1>6, <1>9, <1>10, <1>11, Zenon

\* The variables of parse() have their types, and what ActionSequence plays is
\* the file up to the first error, whatever recoverFromError() skips: the
\* items in their order, with their values, and at most one that was begun; in
\* every array without a misplaced comment where no liberty may be taken.
THEOREM ItemsAreOfTheFile == Spec => []ParserInv
  <1>1. IInv => ParserInv BY KeptTypes, KeptItems DEF IInv, ParserInv
  <1> QED BY <1>1, InductiveInvariant, PTL

-----------------------------------------------------------------------------
(* Numbers.  A recursive function is a solution of its equations, and the  *)
(* equations have one because each number follows from the one before.     *)

\* The equations of the reader for the first n digits,
NumberSolves(g, digits, max, n) == g = [i \in 0..n |-> Round(g, digits, max, i)]

\* so that the numbers of the reader exist for every prefix.
LEMMA NumberExists ==
    ASSUME NEW digits, NEW max
    PROVE  \A n \in Nat : \E g : NumberSolves(g, digits, max, n)
  <1> DEFINE S == {n \in Nat : \E g : NumberSolves(g, digits, max, n)}
  <1>1. 0 \in S
    <2> DEFINE g == [i \in 0..0 |-> [double |-> FALSE, value |-> 0]]
    <2>1. NumberSolves(g, digits, max, 0) BY DEF NumberSolves, Round
    <2> QED BY <2>1
  <1>2. ASSUME NEW n \in Nat, n \in S PROVE n + 1 \in S
    <2>1. PICK g : NumberSolves(g, digits, max, n) BY <1>2
    <2> DEFINE h == [i \in 0..(n + 1) |->
                        IF i = n + 1 THEN Round(g, digits, max, n + 1) ELSE g[i]]
    <2>2. \A i \in 0..(n + 1) : h[i] = Round(h, digits, max, i)
      <3> SUFFICES ASSUME NEW i \in 0..(n + 1) PROVE h[i] = Round(h, digits, max, i)
        OBVIOUS
      <3>1. i # 0 => h[i - 1] = g[i - 1] OBVIOUS
      <3>2. CASE i = n + 1 BY <3>1, <3>2 DEF Round
      <3>3. CASE i # n + 1
        <4>1. h[i] = g[i] /\ i \in 0..n BY <3>3
        <4>2. g[i] = Round(g, digits, max, i) BY <2>1, <4>1 DEF NumberSolves
        <4> QED BY <3>1, <4>1, <4>2 DEF Round
      <3> QED BY <3>2, <3>3
    <2>3. NumberSolves(h, digits, max, n + 1) BY <2>2 DEF NumberSolves
    <2> QED BY <2>3
  <1> QED BY <1>1, <1>2, Induction

\* The equations of what the digits stand for.
WorthSolves(g, digits, n) == g = [i \in 0..n |-> Worth(g, digits, i)]

\* They exist for every prefix as well.
LEMMA WorthExists ==
    ASSUME NEW digits
    PROVE  \A n \in Nat : \E g : WorthSolves(g, digits, n)
  <1> DEFINE S == {n \in Nat : \E g : WorthSolves(g, digits, n)}
  <1>1. 0 \in S
    <2> DEFINE g == [i \in 0..0 |-> 0]
    <2>1. WorthSolves(g, digits, 0) BY DEF WorthSolves, Worth
    <2> QED BY <2>1
  <1>2. ASSUME NEW n \in Nat, n \in S PROVE n + 1 \in S
    <2>1. PICK g : WorthSolves(g, digits, n) BY <1>2
    <2> DEFINE h == [i \in 0..(n + 1) |->
                        IF i = n + 1 THEN Worth(g, digits, n + 1) ELSE g[i]]
    <2>2. \A i \in 0..(n + 1) : h[i] = Worth(h, digits, i)
      <3> SUFFICES ASSUME NEW i \in 0..(n + 1) PROVE h[i] = Worth(h, digits, i)
        OBVIOUS
      <3>1. i # 0 => h[i - 1] = g[i - 1] OBVIOUS
      <3>2. CASE i = n + 1 BY <3>1, <3>2 DEF Worth
      <3>3. CASE i # n + 1
        <4>1. h[i] = g[i] /\ i \in 0..n BY <3>3
        <4>2. g[i] = Worth(g, digits, i) BY <2>1, <4>1 DEF WorthSolves
        <4> QED BY <3>1, <4>1, <4>2 DEF Worth
      <3> QED BY <3>2, <3>3
    <2>3. WorthSolves(h, digits, n + 1) BY <2>2 DEF WorthSolves
    <2> QED BY <2>3
  <1> QED BY <1>1, <1>2, Induction

\* A limit that the type justifies: more than one digit long, and no wrap.
LEMMA LimitIs ==
    ASSUME NEW negative \in BOOLEAN
    PROVE  /\ MaxInteger(negative) \in Nat
           /\ MaxInteger(negative) >= 10 /\ MaxInteger(negative) <= maxLargestUInt
  BY WidthAssumption DEF MaxInteger, minLargestInt, maxLargestInt

\* After i of n digits that stand for v, the number g is exact, or the rest
\* cannot bring it back below the limit.
Exact(g, v, max, more) ==
    /\ v \in Nat
    /\ \/ g = IsDouble /\ v > max
       \/ g = IsDouble /\ more /\ v >= 10 * (max \div 10)
       \/ g = [double |-> FALSE, value |-> v] /\ v <= max

\* One digit keeps that.
LEMMA ExactStep ==
    ASSUME NEW max \in Nat, max >= 10, max <= maxLargestUInt,
           NEW g, NEW v, Exact(g, v, max, TRUE), NEW d \in 0..9,
           NEW last \in BOOLEAN
    PROVE  Exact(NextDigit(g, d, last, max), 10 * v + d, max, ~last)
  <1>1. v \in Nat /\ 10 * v + d \in Nat BY DEF Exact
  <1>2. PICK t \in Nat : t = max \div 10 /\ max <= 10 * t + 9 /\ t >= 1 OBVIOUS
  <1>3. CASE g = IsDouble
    <2>1. NextDigit(g, d, last, max) = IsDouble
      BY <1>3 DEF NextDigit, IsDouble
    <2>2. v > max \/ v >= 10 * t
      BY <1>2, <1>3 DEF Exact, IsDouble
    <2>3. 10 * v + d > max BY <1>1, <1>2, <2>2
    <2> QED BY <1>1, <2>1, <2>3 DEF Exact
  <1>4. CASE g = [double |-> FALSE, value |-> v] /\ v <= max
    <2>1. /\ max = 10 * t + (max % 10) /\ max % 10 \in 0..9
          /\ maxLargestUInt \in Nat
      BY <1>2, WidthAssumption
    <2>2. g.double = FALSE /\ g.value = v BY <1>4
    <2>3. NextDigit(g, d, last, max) =
              IF v > t \/ (v = t /\ (~last \/ d > max % 10)) THEN IsDouble
              ELSE [double |-> FALSE, value |-> (10 * v + d) % (maxLargestUInt + 1)]
      BY <1>2, <2>2 DEF NextDigit
    <2>4. CASE v > t
      <3>1. 10 * v + d > max BY <1>1, <1>2, <2>4
      <3> QED BY <1>1, <2>3, <2>4, <3>1 DEF Exact
    <2>5. CASE v = t /\ ~last
      <3>1. 10 * v + d >= 10 * t BY <1>1, <1>2, <2>5
      <3> QED BY <1>1, <1>2, <2>3, <2>5, <3>1 DEF Exact
    <2>6. CASE v = t /\ d > max % 10
      <3>1. 10 * v + d > max BY <1>1, <2>1, <2>6
      <3> QED BY <1>1, <2>3, <2>6, <3>1 DEF Exact
    <2>7. CASE v < t \/ (v = t /\ last /\ ~(d > max % 10))
      <3>1. 10 * v + d <= max BY <1>1, <1>2, <2>1, <2>7
      <3>2. \A y \in Nat, m \in Nat : y <= m => y % (m + 1) = y OBVIOUS
      <3>3. (10 * v + d) % (maxLargestUInt + 1) = 10 * v + d
        BY <1>1, <2>1, <3>1, <3>2
      <3>4. ~(v > t) /\ ~(v = t /\ (~last \/ d > max % 10)) BY <1>1, <1>2, <2>1, <2>7
      <3> QED BY <1>1, <2>3, <3>1, <3>3, <3>4 DEF Exact
    <2> QED BY <1>1, <1>2, <2>1, <2>4, <2>5, <2>6, <2>7
  <1> QED BY <1>3, <1>4 DEF Exact

\* The last number of all the rounds.
LEMMA LastExact ==
    ASSUME NEW max \in Nat, max >= 10, max <= maxLargestUInt,
           NEW n \in Nat, NEW digits \in [1..n -> 0..9], Len(digits) = n,
           NEW g, NumberSolves(g, digits, max, n),
           NEW h, WorthSolves(h, digits, n)
    PROVE  Exact(g[n], h[n], max, FALSE)
  <1> DEFINE S == {i \in Nat : i <= n => Exact(g[i], h[i], max, i < n)}
  <1>1. \A i \in 0..n : g[i] = Round(g, digits, max, i) /\ h[i] = Worth(h, digits, i)
    BY DEF NumberSolves, WorthSolves
  <1>2. 0 \in S
    <2>1. g[0] = [double |-> FALSE, value |-> 0] /\ h[0] = 0
      BY <1>1 DEF Round, Worth
    <2>2. Exact(g[0], h[0], max, 0 < n) BY <2>1 DEF Exact
    <2> QED BY <2>2
  <1>3. ASSUME NEW i \in Nat, i \in S PROVE i + 1 \in S
    <2> SUFFICES ASSUME i + 1 <= n
                 PROVE  Exact(g[i + 1], h[i + 1], max, i + 1 < n)
      OBVIOUS
    <2>1. /\ i + 1 \in 0..n /\ i + 1 # 0 /\ (i + 1) - 1 = i /\ digits[i + 1] \in 0..9
          /\ (i + 1 = n) \in BOOLEAN /\ (i + 1 < n <=> ~(i + 1 = n))
      OBVIOUS
    <2>2. Exact(g[i], h[i], max, TRUE)
      <3>1. i < n OBVIOUS
      <3> QED BY <1>3, <3>1 DEF Exact
    <2>3. /\ g[i + 1] = NextDigit(g[i], digits[i + 1], i + 1 = n, max)
          /\ h[i + 1] = 10 * h[i] + digits[i + 1]
      BY <1>1, <2>1 DEF Round, Worth
    <2>4. Exact(NextDigit(g[i], digits[i + 1], i + 1 = n, max),
                10 * h[i] + digits[i + 1], max, ~(i + 1 = n))
      BY <2>1, <2>2, ExactStep
    <2> QED BY <2>1, <2>3, <2>4 DEF Exact
  <1>4. n \in S BY <1>2, <1>3, Induction
  <1> QED BY <1>4 DEF Exact

\* decodeNumber() is right for all digits, whatever the width of the type.
LEMMA NumbersExactAlways == NumbersExact
  <1> SUFFICES ASSUME NEW negative \in BOOLEAN, NEW n \in 0..MaxDigits,
                      NEW digits \in [1..n -> 0..9]
               PROVE  DecodeNumber(negative, digits) =
                          IF NumberOf(digits) > MaxInteger(negative) THEN IsDouble
                          ELSE [double |-> FALSE,
                                value |-> IF negative THEN -NumberOf(digits)
                                          ELSE NumberOf(digits)]
    BY DEF NumbersExact
  <1>1. n \in Nat /\ Len(digits) = n BY TextsAssumption
  <1> DEFINE max == MaxInteger(negative)
             g == CHOOSE f : NumberSolves(f, digits, max, n)
             h == CHOOSE f : WorthSolves(f, digits, n)
  <1>2. NumberSolves(g, digits, max, n)
    <2>1. \E f : NumberSolves(f, digits, max, n) BY <1>1, NumberExists
    <2> QED BY <2>1
  <1>3. WorthSolves(h, digits, n)
    <2>1. \E f : WorthSolves(f, digits, n) BY <1>1, WorthExists
    <2> QED BY <2>1
  <1>4. DecodeNumber(negative, digits) =
            IF negative /\ ~g[n].double THEN [double |-> FALSE, value |-> -g[n].value]
            ELSE g[n]
    BY <1>1 DEF DecodeNumber, NumberSolves
  <1>5. NumberOf(digits) = h[n] BY <1>1 DEF NumberOf, WorthSolves
  <1> HIDE DEF g, h
  <1>6. max \in Nat /\ max >= 10 /\ max <= maxLargestUInt BY LimitIs
  <1> HIDE DEF max
  <1>7. Exact(g[n], h[n], max, FALSE) BY <1>1, <1>2, <1>3, <1>6, LastExact
  <1>8. /\ h[n] \in Nat
        /\ \/ g[n] = IsDouble /\ h[n] > max
           \/ g[n] = [double |-> FALSE, value |-> h[n]] /\ h[n] <= max
    BY <1>7 DEF Exact
  <1>9. CASE g[n] = IsDouble /\ h[n] > max
    BY <1>4, <1>5, <1>9 DEF IsDouble, max
  <1>10. CASE g[n] = [double |-> FALSE, value |-> h[n]] /\ h[n] <= max
    <2>1. ~(h[n] > max) BY <1>6, <1>8, <1>10
    <2>2. g[n].double = FALSE /\ g[n].value = h[n] BY <1>10
    <2>3. DecodeNumber(negative, digits) =
              [double |-> FALSE, value |-> IF negative THEN -h[n] ELSE h[n]]
      BY <1>4, <1>10, <2>2
    <2> QED BY <1>5, <2>1, <2>3 DEF max
  <1> QED BY <1>8, <1>9, <1>10

-----------------------------------------------------------------------------
(* Escapes: the bytes of a code point, and what the validator makes of     *)
(* them one by one.                                                        *)

\* The equations of the states of the validator.
StateSolves(g, bytes, n) == g = [i \in 0..n |-> AfterByte(g, bytes, i)]

\* They exist for every prefix, as the numbers did.
LEMMA StateExists ==
    ASSUME NEW bytes
    PROVE  \A n \in Nat : \E g : StateSolves(g, bytes, n)
  <1> DEFINE S == {n \in Nat : \E g : StateSolves(g, bytes, n)}
  <1>1. 0 \in S
    <2> DEFINE g == [i \in 0..0 |-> UTF8_ACCEPT]
    <2>1. StateSolves(g, bytes, 0) BY DEF StateSolves, AfterByte
    <2> QED BY <2>1
  <1>2. ASSUME NEW n \in Nat, n \in S PROVE n + 1 \in S
    <2>1. PICK g : StateSolves(g, bytes, n) BY <1>2
    <2> DEFINE h == [i \in 0..(n + 1) |->
                        IF i = n + 1 THEN AfterByte(g, bytes, n + 1) ELSE g[i]]
    <2>2. \A i \in 0..(n + 1) : h[i] = AfterByte(h, bytes, i)
      <3> SUFFICES ASSUME NEW i \in 0..(n + 1) PROVE h[i] = AfterByte(h, bytes, i)
        OBVIOUS
      <3>1. i # 0 => h[i - 1] = g[i - 1] OBVIOUS
      <3>2. CASE i = n + 1 BY <3>1, <3>2 DEF AfterByte
      <3>3. CASE i # n + 1
        <4>1. h[i] = g[i] /\ i \in 0..n BY <3>3
        <4>2. g[i] = AfterByte(g, bytes, i) BY <2>1, <4>1 DEF StateSolves
        <4> QED BY <3>1, <4>1, <4>2 DEF AfterByte
      <3> QED BY <3>2, <3>3
    <2>3. StateSolves(h, bytes, n + 1) BY <2>2 DEF StateSolves
    <2> QED BY <2>3
  <1> QED BY <1>1, <1>2, Induction

\* The validator's state after some bytes is the last of the states.
LEMMA StateIs ==
    ASSUME NEW bytes, NEW n \in Nat, Len(bytes) = n
    PROVE  \E g : /\ StateAfter(bytes) = g[n] /\ g[0] = 0
                  /\ \A i \in 1..n : g[i] = decode(g[i - 1], bytes[i])
  <1> DEFINE g == CHOOSE f : StateSolves(f, bytes, n)
  <1>1. StateSolves(g, bytes, n)
    <2>1. \E f : StateSolves(f, bytes, n) BY StateExists
    <2> QED BY <2>1
  <1>2. StateAfter(bytes) = g[n] BY DEF StateAfter, StateSolves
  <1> HIDE DEF g
  <1>3. \A i \in 0..n : g[i] = AfterByte(g, bytes, i) BY <1>1 DEF StateSolves
  <1>4. g[0] = 0 BY <1>3 DEF AfterByte, UTF8_ACCEPT
  <1>5. ASSUME NEW i \in 1..n PROVE g[i] = decode(g[i - 1], bytes[i])
    <2>1. i \in 0..n /\ i # 0 OBVIOUS
    <2> QED BY <1>3, <2>1 DEF AfterByte
  <1> QED BY <1>2, <1>4, <1>5

\* The state after one byte,
LEMMA StateOne ==
    ASSUME NEW a \in Byte
    PROVE  StateAfter(<<a>>) = decode(0, a)
  <1>1. PICK g : /\ StateAfter(<<a>>) = g[1] /\ g[0] = 0
                 /\ \A i \in 1..1 : g[i] = decode(g[i - 1], <<a>>[i])
    <2>1. Len(<<a>>) = 1 /\ 1 \in Nat OBVIOUS
    <2> QED BY <2>1, StateIs
  <1> QED BY <1>1

\* two,
LEMMA StateTwo ==
    ASSUME NEW a \in Byte, NEW b \in Byte
    PROVE  StateAfter(<<a, b>>) = decode(decode(0, a), b)
  <1> DEFINE s == <<a, b>>
  <1>1. PICK g : /\ StateAfter(s) = g[2] /\ g[0] = 0
                 /\ \A i \in 1..2 : g[i] = decode(g[i - 1], s[i])
    <2>1. Len(s) = 2 /\ 2 \in Nat OBVIOUS
    <2> QED BY <2>1, StateIs
  <1>2. g[1] = decode(g[0], a) /\ g[2] = decode(g[1], b) BY <1>1
  <1> QED BY <1>1, <1>2

\* three
LEMMA StateThree ==
    ASSUME NEW a \in Byte, NEW b \in Byte, NEW c \in Byte
    PROVE  StateAfter(<<a, b, c>>) = decode(decode(decode(0, a), b), c)
  <1> DEFINE s == <<a, b, c>>
  <1>1. PICK g : /\ StateAfter(s) = g[3] /\ g[0] = 0
                 /\ \A i \in 1..3 : g[i] = decode(g[i - 1], s[i])
    <2>1. Len(s) = 3 /\ 3 \in Nat OBVIOUS
    <2> QED BY <2>1, StateIs
  <1>2. g[1] = decode(g[0], a) /\ g[2] = decode(g[1], b) /\ g[3] = decode(g[2], c)
    BY <1>1
  <1> QED BY <1>1, <1>2

\* and four.
LEMMA StateFour ==
    ASSUME NEW a \in Byte, NEW b \in Byte, NEW c \in Byte, NEW e \in Byte
    PROVE  StateAfter(<<a, b, c, e>>) = decode(decode(decode(decode(0, a), b), c), e)
  <1> DEFINE s == <<a, b, c, e>>
  <1>1. PICK g : /\ StateAfter(s) = g[4] /\ g[0] = 0
                 /\ \A i \in 1..4 : g[i] = decode(g[i - 1], s[i])
    <2>1. Len(s) = 4 /\ 4 \in Nat OBVIOUS
    <2> QED BY <2>1, StateIs
  <1>2. /\ g[1] = decode(g[0], a) /\ g[2] = decode(g[1], b)
        /\ g[3] = decode(g[2], c) /\ g[4] = decode(g[3], e)
    BY <1>1
  <1> QED BY <1>1, <1>2

\* The state in which a byte has been refused is never left.
LEMMA Rejected == ASSUME NEW b \in Byte PROVE decode(1, b) = 1
  <1>1. utf8d[2] = <<1, 1, 1, 1, 1, 1, 1, 1, 1, 1, 1, 1>> BY DEF utf8d
  <1>2. ByteClass(b) + 1 \in 1..12 BY ClassOf DEF Byte
  <1>3. decode(1, b) = utf8d[2][ByteClass(b) + 1] BY DEF decode
  <1> QED BY <1>1, <1>2, <1>3

\* A code point below 128 is one byte, and valid.
LEMMA EncodesOne ==
    ASSUME NEW cp \in Nat, cp <= 127, NEW s, s = codePointToUTF8(cp)
    PROVE  StateAfter(s) = 0 /\ First(s) = cp
  <1>1. s = <<cp>> /\ cp \in Byte
    <2>1. cp <= 127 /\ ~(127 < cp) /\ ~(2047 < cp) /\ ~(65535 < cp)
      OBVIOUS
    <2>2. s = OneByte(cp) BY <2>1, SMT DEF codePointToUTF8
    <2>3. cp \in Byte BY DEF Byte
    <2> QED BY <2>2, <2>3 DEF OneByte
  <1>2. StateAfter(s) = 0 BY <1>1, StateOne, DecodeStart
  <1>3. First(s) = CodePoint(cp, 0, 0, 0) BY <1>1 DEF First
  <1>4. Lead(cp) # 0 /\ 0 \in Int BY DEF Lead
  <1>5. CodePoint(cp, 0, 0, 0) = Low(cp, 0, 0, 0) BY <1>1, <1>4, CodePointIs
  <1> QED BY <1>2, <1>3, <1>5 DEF Low

\* The next ones are two bytes,
LEMMA EncodesTwo ==
    ASSUME NEW cp \in Nat, 127 < cp, cp <= 2047, NEW s, s = codePointToUTF8(cp)
    PROVE  StateAfter(s) = 0 /\ First(s) = cp
  <1> DEFINE y == (cp \div 64) % 32
             z == cp % 64
  <1>1. y \in 2..31 /\ z \in 0..63 /\ cp = 64 * y + z OBVIOUS
  <1>2. s = <<192 + y, 128 + z>>
    <2>1. ~(cp <= 127) /\ ~(2047 < cp) /\ ~(65535 < cp) OBVIOUS
    <2>2. s = TwoBytes(cp) BY <2>1, SMT DEF codePointToUTF8
    <2> QED BY <2>2 DEF TwoBytes, Low6
  <1> HIDE DEF y, z
  <1> DEFINE a == 192 + y
             b == 128 + z
  <1>3. /\ a \in 194..223 /\ b \in 128..191 /\ a = 192 + y /\ b = 128 + z
    BY <1>1
  <1>4. s = <<a, b>> BY <1>2
  <1> HIDE DEF a, b
  <1>5. a \in Byte /\ b \in Byte BY <1>3 DEF Byte
  <1>6. decode(0, a) = 2 /\ decode(2, b) = 0 BY <1>3, <1>5, DecodeStart, Later
  <1>7. StateAfter(s) = 0 BY <1>4, <1>5, <1>6, StateTwo
  <1>8. First(s) = CodePoint(a, z, 0, 0)
    <2>1. First(s) = CodePoint(a, b - 128, 0, 0) BY <1>4 DEF First
    <2>2. b - 128 = z BY <1>1, <1>3
    <2> QED BY <2>1, <2>2
  <1>9. First(s) = Low(a, z, 0, 0)
    <2>1. Lead(a) # 0 BY <1>3 DEF Lead
    <2>2. z \in Int /\ 0 \in Int BY <1>1
    <2>3. CodePoint(a, z, 0, 0) = Low(a, z, 0, 0)
      BY <1>5, <2>1, <2>2, CodePointIs
    <2> QED BY <1>8, <2>3
  <1>10. Low(a, z, 0, 0) = cp BY <1>1, <1>3 DEF Low
  <1> QED BY <1>7, <1>9, <1>10

\* then three, of which the validator takes all but the surrogates,
LEMMA EncodesThree ==
    ASSUME NEW cp \in Nat, 2047 < cp, cp <= 65535, NEW s, s = codePointToUTF8(cp)
    PROVE  /\ StateAfter(s) = 0 <=> ~(cp >= 55296 /\ cp <= 57343)
           /\ First(s) = cp
  <1> DEFINE x == (cp \div 4096) % 16
             y == (cp \div 64) % 64
             z == cp % 64
  <1>1. x \in 0..15 /\ y \in 0..63 /\ z \in 0..63 OBVIOUS
  <1>2. cp = 4096 * x + 64 * y + z OBVIOUS
  <1>3. s = <<224 + x, 128 + y, 128 + z>>
    <2>1. ~(cp <= 127) /\ ~(cp <= 2047) /\ ~(65535 < cp) OBVIOUS
    <2>2. s = ThreeBytes(cp) BY <2>1, SMT DEF codePointToUTF8
    <2> QED BY <2>2 DEF ThreeBytes, Low6
  <1> HIDE DEF x, y, z
  <1> DEFINE a == 224 + x
             b == 128 + y
             c == 128 + z
  <1>4. /\ a \in 224..239 /\ b \in 128..191 /\ c \in 128..191
        /\ a = 224 + x /\ b = 128 + y /\ c = 128 + z
    BY <1>1
  <1>5. s = <<a, b, c>> BY <1>3
  <1> HIDE DEF a, b, c
  <1>6. a \in Byte /\ b \in Byte /\ c \in Byte BY <1>4 DEF Byte
  <1>7. StateAfter(s) = decode(decode(decode(0, a), b), c) BY <1>5, <1>6, StateThree
  <1>8. decode(2, c) = 0 /\ decode(1, c) = 1 BY <1>4, <1>6, Later, Rejected
  <1>9. StateAfter(s) = 0 <=> ~(cp >= 55296 /\ cp <= 57343)
    <2>1. CASE a = 224
      <3>1. decode(0, a) = 4 BY <1>6, <2>1, DecodeStart
      <3>2. b \in 160..191 BY <1>1, <1>2, <1>4, <2>1
      <3>3. decode(4, b) = 2 BY <1>6, <3>2, Later
      <3>4. ~(cp >= 55296 /\ cp <= 57343) BY <1>1, <1>2, <1>4, <2>1
      <3> QED BY <1>7, <1>8, <3>1, <3>3, <3>4
    <2>2. CASE a = 237
      <3>1. decode(0, a) = 5 BY <1>6, <2>2, DecodeStart
      <3>2. decode(5, b) = IF b \in 128..159 THEN 2 ELSE 1 BY <1>6, Later
      <3>3. (~(cp >= 55296 /\ cp <= 57343)) <=> b \in 128..159
        BY <1>1, <1>2, <1>4, <2>2
      <3> QED BY <1>7, <1>8, <3>1, <3>2, <3>3
    <2>3. CASE a \in 225..239 /\ a # 237
      <3>1. decode(0, a) = 3 BY <1>6, <2>3, DecodeStart
      <3>2. decode(3, b) = 2 BY <1>4, <1>6, Later
      <3>3. ~(cp >= 55296 /\ cp <= 57343) BY <1>1, <1>2, <1>4, <2>3
      <3> QED BY <1>7, <1>8, <3>1, <3>2, <3>3
    <2> QED BY <1>4, <2>1, <2>2, <2>3
  <1>10. First(s) = CodePoint(a, y, z, 0)
    <2>1. First(s) = CodePoint(a, b - 128, c - 128, 0) BY <1>5 DEF First
    <2>2. b - 128 = y /\ c - 128 = z BY <1>1, <1>4
    <2> QED BY <2>1, <2>2
  <1>11. First(s) = Low(a, y, z, 0)
    <2>1. Lead(a) = 3 BY <1>4 DEF Lead
    <2> QED BY <1>1, <1>6, <1>10, <2>1, CodePointIs
  <1>12. Low(a, y, z, 0) = cp BY <1>1, <1>2, <1>4 DEF Low
  <1> QED BY <1>9, <1>11, <1>12

\* and the greatest are four.
LEMMA EncodesFour ==
    ASSUME NEW cp \in Nat, 65535 < cp, cp <= 1114111, NEW s, s = codePointToUTF8(cp)
    PROVE  StateAfter(s) = 0 /\ First(s) = cp
  <1> DEFINE w == (cp \div 262144) % 8
             x == (cp \div 4096) % 64
             y == (cp \div 64) % 64
             z == cp % 64
  <1>1. w \in 0..4 /\ x \in 0..63 /\ y \in 0..63 /\ z \in 0..63 OBVIOUS
  <1>2. cp = 262144 * w + 4096 * x + 64 * y + z OBVIOUS
  <1>3. s = <<240 + w, 128 + x, 128 + y, 128 + z>>
    <2>1. ~(cp <= 127) /\ ~(cp <= 2047) /\ ~(cp <= 65535) OBVIOUS
    <2>2. s = FourBytes(cp) BY <2>1, SMT DEF codePointToUTF8
    <2> QED BY <2>2 DEF FourBytes, Low6
  <1> HIDE DEF w, x, y, z
  <1> DEFINE a == 240 + w
             b == 128 + x
             c == 128 + y
             e == 128 + z
  <1>4. /\ a \in 240..244 /\ b \in 128..191 /\ c \in 128..191 /\ e \in 128..191
        /\ a = 240 + w /\ b = 128 + x /\ c = 128 + y /\ e = 128 + z
    BY <1>1
  <1>5. s = <<a, b, c, e>> BY <1>3
  <1> HIDE DEF a, b, c, e
  <1>6. a \in Byte /\ b \in Byte /\ c \in Byte /\ e \in Byte BY <1>4 DEF Byte
  <1>7. StateAfter(s) = decode(decode(decode(decode(0, a), b), c), e)
    BY <1>5, <1>6, StateFour
  <1>8. decode(3, c) = 2 /\ decode(2, e) = 0 BY <1>4, <1>6, Later
  <1>9. decode(decode(0, a), b) = 3
    <2>1. CASE a = 240
      <3>1. b \in 144..191 BY <1>1, <1>2, <1>4, <2>1
      <3>2. decode(0, a) = 6 BY <1>6, <2>1, DecodeStart
      <3> QED BY <1>6, <3>1, <3>2, Later
    <2>2. CASE a \in 241..243
      <3>1. decode(0, a) = 7 BY <1>6, <2>2, DecodeStart
      <3> QED BY <1>4, <1>6, <3>1, Later
    <2>3. CASE a = 244
      <3>1. b \in 128..143 BY <1>1, <1>2, <1>4, <2>3
      <3>2. decode(0, a) = 8 BY <1>6, <2>3, DecodeStart
      <3> QED BY <1>6, <3>1, <3>2, Later
    <2> QED BY <1>4, <2>1, <2>2, <2>3
  <1>10. StateAfter(s) = 0 BY <1>7, <1>8, <1>9
  <1>11. First(s) = CodePoint(a, x, y, z)
    <2>1. First(s) = CodePoint(a, b - 128, c - 128, e - 128) BY <1>5 DEF First
    <2>2. b - 128 = x /\ c - 128 = y /\ e - 128 = z BY <1>1, <1>4
    <2> QED BY <2>1, <2>2
  <1>12. First(s) = Low(a, x, y, z)
    <2>1. Lead(a) # 0 BY <1>4 DEF Lead
    <2>2. x \in Int /\ y \in Int /\ z \in Int BY <1>1
    <2>3. CodePoint(a, x, y, z) = Low(a, x, y, z)
      BY <1>6, <2>1, <2>2, CodePointIs
    <2> QED BY <1>11, <2>3
  <1>13. Low(a, x, y, z) = cp BY <1>1, <1>2, <1>4 DEF Low
  <1> QED BY <1>10, <1>12, <1>13

\* Both halves of a pair are in the character they are put together to.
LEMMA PairIsUtf16 ==
    ASSUME NEW unit \in Nat, NEW next \in Nat, FirstHalf(unit), SecondHalf(next),
           NEW cp, cp = 65536 + 1024 * (unit % 1024) + (next % 1024)
    PROVE  Utf16(cp) = <<unit, next>>
  <1> DEFINE h == unit % 1024
             l == next % 1024
  <1>1. h \in Nat /\ h <= 1023 /\ l \in Nat /\ l <= 1023 OBVIOUS
  <1>2. unit = 1024 * 54 + h /\ next = 1024 * 55 + l BY DEF FirstHalf, SecondHalf
  <1>3. cp = 65536 + 1024 * h + l OBVIOUS
  <1> HIDE DEF h, l
  <1>4. ~(cp < 65536) /\ cp - 65536 = 1024 * h + l BY <1>1, <1>3
  <1>5. (1024 * h + l) \div 1024 = h /\ (1024 * h + l) % 1024 = l
    <2> DEFINE x == 1024 * h + l
               q == x \div 1024
               r == x % 1024
    <2>1. x \in Nat BY <1>1
    <2> HIDE DEF x
    <2>2. q \in Nat /\ r \in Nat /\ r <= 1023 /\ x = 1024 * q + r BY <2>1
    <2> HIDE DEF q, r
    <2>3. 1024 * h + l = 1024 * q + r BY <2>2 DEF x
    <2>4. q = h /\ r = l BY <1>1, <2>2, <2>3
    <2> QED BY <2>4 DEF q, r, x
  <1> QED BY <1>2, <1>4, <1>5 DEF Utf16

\* The range that the decoder looks for is that of the first halves.
LEMMA HalvesAre ==
    ASSUME NEW unit \in Nat
    PROVE  /\ (unit >= 55296 /\ unit <= 56319) <=> FirstHalf(unit)
           /\ (unit >= 56320 /\ unit <= 57343) <=> SecondHalf(unit)
  BY DEF FirstHalf, SecondHalf

\* The escapes become what they are the UTF-16 of, whichever they are.
LEMMA EscapesValidAlways == EscapesValid
  <1> SUFFICES ASSUME NEW unit \in Units, NEW next \in Units,
                      NEW cp, cp = decodeUnicodeCodePoint(unit, next),
                      NEW s, s = codePointToUTF8(cp)
               PROVE  /\ StateAfter(s) = 0 <=> ~SecondHalf(unit)
                      /\ ~SecondHalf(unit) /\ (FirstHalf(unit) => SecondHalf(next)) =>
                             Utf16(First(s)) =
                                 IF FirstHalf(unit) THEN <<unit, next>> ELSE <<unit>>
    BY DEF EscapesValid, UTF8_ACCEPT
  <1>1. unit \in Nat /\ unit <= 65535 /\ next \in Nat BY TextsAssumption
  <1>2. CASE FirstHalf(unit)
    <2>1. cp = 65536 + 1024 * (unit % 1024) + (next % 1024)
      BY <1>1, <1>2, HalvesAre DEF decodeUnicodeCodePoint
    <2>2. /\ unit % 1024 \in Nat /\ unit % 1024 <= 1023
          /\ next % 1024 \in Nat /\ next % 1024 <= 1023
      BY <1>1
    <2>3. cp \in Nat /\ 65535 < cp /\ cp <= 1114111 BY <2>1, <2>2
    <2>4. ~SecondHalf(unit) BY <1>2 DEF FirstHalf, SecondHalf
    <2>5. StateAfter(s) = 0 /\ First(s) = cp BY <2>3, EncodesFour
    <2>6. SecondHalf(next) => Utf16(cp) = <<unit, next>>
      BY <1>1, <1>2, <2>1, PairIsUtf16
    <2> QED BY <1>2, <2>4, <2>5, <2>6
  <1>3. CASE ~FirstHalf(unit)
    <2>1. cp = unit BY <1>1, <1>3, HalvesAre DEF decodeUnicodeCodePoint
    <2>2. (cp >= 55296 /\ cp <= 57343) <=> SecondHalf(unit)
      BY <1>1, <1>3, <2>1, HalvesAre
    <2>3. Utf16(cp) = <<unit>> BY <1>1, <2>1 DEF Utf16
    <2>4. (StateAfter(s) = 0 <=> ~SecondHalf(unit)) /\ First(s) = cp
      <3>1. CASE cp <= 127
        BY <1>1, <2>1, <2>2, <3>1, EncodesOne
      <3>2. CASE 127 < cp /\ cp <= 2047
        BY <1>1, <2>1, <2>2, <3>2, EncodesTwo
      <3>3. CASE 2047 < cp /\ cp <= 65535
        BY <1>1, <2>1, <2>2, <3>3, EncodesThree
      <3> QED BY <1>1, <2>1, <3>1, <3>2, <3>3
    <2> QED BY <1>3, <2>3, <2>4
  <1> QED BY <1>2, <1>3

\* decodeNumber() keeps every whole number that fits and hands every other to
\* decodeDouble(): for any number of digits and any width of the type.
THEOREM NumbersAreKept == Spec => []NumbersKept
  <1>1. NumbersKept BY NumbersExactAlways DEF NumbersKept
  <1> QED BY <1>1, PTL

\* Every escape, and every pair of halves, becomes the UTF-8 that the validator
\* of a peer takes for the character it is the UTF-16 of; only halves that stand
\* alone do not, the second of which is not valid.
THEOREM EscapesAreValid == Spec => []EscapesAreUtf8
  <1>1. EscapesAreUtf8 BY EscapesValidAlways DEF EscapesAreUtf8
  <1> QED BY <1>1, PTL

=============================================================================
