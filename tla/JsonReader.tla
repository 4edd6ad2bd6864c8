------------------------------ MODULE JsonReader ------------------------------
(***************************************************************************)
(* How a script file becomes the items of an ActionSequence: Reader::parse *)
(* of src/parts/jsoncpp/src/lib_json/json_reader.cpp, and what             *)
(* ActionSequence.cpp keeps of its result.                                 *)
(*                                                                         *)
(* The document is a sequence of tokens that TLC chooses as they are read: *)
(* the punctuation by itself, "//" for a comment, "name" for a string,     *)
(* "empty" for the empty string, "badtext" for a string or number that its *)
(* decoder refuses, "number", "literal", and "error" for anything that is  *)
(* no token.  Every step reads one token and does what the code does up to *)
(* the next one.  `stack' holds the calls of readValue(), readArray() and  *)
(* readObject() that are under way.                                        *)
(***************************************************************************)
EXTENDS Integers, Sequences

CONSTANT MaxTokens   \* bound: tokens of a document

ASSUME MaxTokensAssumption == MaxTokens \in Nat

Strings  == {"name", "empty"}
Scalars  == Strings \cup {"number", "literal"}
Tokens   == Scalars \cup {"{", "}", "[", "]", ",", ":", "//", "badtext", "error"}

VARIABLES
    doc,     \* the tokens read so far
    atEnd,   \* the end of the document has been read
    stack,   \* the calls under way, the innermost last
    root,    \* the value being read: its kind and, of an array, its items
    result   \* "none", then what parse() returns

vars == <<doc, atEnd, stack, root, result>>

\* A call: what it reads, what it expects next, and name.empty() of
\* readObject().
Frame(kind, expects) == [kind |-> kind, expects |-> expects, unnamed |-> TRUE]

Top == stack[Len(stack)]
Expecting(kind, what) == result = "none" /\ Top.kind = kind /\ Top.expects = what
Expect(s, what) == [s EXCEPT ![Len(s)].expects = what]

\* getNextChar() goes on giving 0 at the end of the document.
Reads(t) ==
    IF t = "end"
    THEN doc' = doc /\ atEnd' = TRUE
    ELSE /\ ~atEnd /\ Len(doc) < MaxTokens
         /\ doc' = Append(doc, t) /\ atEnd' = FALSE

-----------------------------------------------------------------------------
(* Values.                                                                 *)

\* Wrong variant: a value that is refused does not make its container fail.
AfterValueAnyway(s, ok) ==
    Expect(s, IF s[Len(s)].kind = "root" THEN "trailer" ELSE "separator")

\* The value that the innermost call of s waits for has been read, or refused.
AfterValue(s, ok) ==
    Expect(s, IF s[Len(s)].kind = "root" THEN "trailer"
              ELSE IF ok THEN "separator" ELSE "recovery")

\* parse() returns what readValue() returns for the root.
Keeps(s, ok) ==
    root' = IF s[Len(s)].kind = "root" THEN [root EXCEPT !.ok = ok] ELSE root

\* The innermost call returns to the one that waits for its value.
Leaves(ok) ==
    LET callers == SubSeq(stack, 1, Len(stack) - 1)
    IN stack' = AfterValue(callers, ok) /\ Keeps(callers, ok)

\* What the token leaves in the value that is read, null if it is refused.
ValueOf(t) ==
    CASE t \in Strings -> "text"
      [] t = "number"  -> "number"
      [] t = "literal" -> "literal"
      [] t = "{"       -> "object"
      [] t = "["       -> "array"
      [] OTHER         -> "null"

\* The value goes into the root, or into a new item of the root array, which
\* is there as soon as its value is looked for.
Puts(t) ==
    CASE Top.kind = "root"  -> [root EXCEPT !.kind = ValueOf(t)]
      [] Top.kind = "array" /\ Len(stack) = 2 ->
             [root EXCEPT !.items = Append(@, ValueOf(t))]
      [] OTHER -> root

\* readValue() with a token that needs no call of its own.
ReadScalar(t) ==
    /\ result = "none" /\ Top.expects \in {"value", "first"}
    /\ t \notin {"{", "[", "//"} /\ (t = "]" => Top.expects = "value")
    /\ Reads(t)
    /\ stack' = AfterValue(stack, t \in Scalars)
    /\ root' = IF Top.kind = "root" THEN [Puts(t) EXCEPT !.ok = t \in Scalars]
               ELSE Puts(t)
    /\ UNCHANGED result

\* readValue() with the beginning of an array or object.
ReadContainer(t) ==
    /\ result = "none" /\ Top.expects \in {"value", "first"}
    /\ t \in {"{", "["}
    /\ Reads(t)
    /\ stack' = Append(stack, IF t = "[" THEN Frame("array", "first")
                              ELSE Frame("object", "name"))
    /\ root' = Puts(t)
    /\ UNCHANGED result

\* readArray() looks for "]" at once; a comment before it hides it.
ReadEmptyArray ==
    /\ Expecting("array", "first")
    /\ Reads("]")
    /\ Leaves(TRUE)
    /\ UNCHANGED result

-----------------------------------------------------------------------------
(* Between the values.                                                     *)

ReadArraySeparator(t) ==
    /\ Expecting("array", "separator") /\ t # "//"
    /\ Reads(t)
    /\ IF t = "]" THEN Leaves(TRUE)
       ELSE /\ stack' = Expect(stack, IF t = "," THEN "value" ELSE "recovery")
            /\ UNCHANGED root
    /\ UNCHANGED result

\* Wrong variant: "}" is taken after a comma as well.
ReadNameOrEnd(t) ==
    /\ Expecting("object", "name") /\ t # "//"
    /\ Reads(t)
    /\ IF t = "}" THEN Leaves(TRUE)
       ELSE /\ stack' = [Expect(stack, IF t \in Strings THEN "colon" ELSE "recovery")
                            EXCEPT ![Len(stack)].unnamed = (t # "name")]
            /\ UNCHANGED root
    /\ UNCHANGED result

\* Wrong variant: no comment is skipped before a name.
ReadNameAtOnce(t) ==
    /\ Expecting("object", "name")
    /\ Reads(t)
    /\ IF t = "}" /\ Top.unnamed THEN Leaves(TRUE)
       ELSE /\ stack' = [Expect(stack, IF t \in Strings THEN "colon" ELSE "recovery")
                            EXCEPT ![Len(stack)].unnamed = (t # "name")]
            /\ UNCHANGED root
    /\ UNCHANGED result

\* The name of the next member; "}" is taken while `name' is empty.
ReadName(t) ==
    /\ Expecting("object", "name") /\ t # "//"
    /\ Reads(t)
    /\ IF t = "}" /\ Top.unnamed THEN Leaves(TRUE)
       ELSE /\ stack' = [Expect(stack, IF t \in Strings THEN "colon" ELSE "recovery")
                            EXCEPT ![Len(stack)].unnamed = (t # "name")]
            /\ UNCHANGED root
    /\ UNCHANGED result

\* The colon, before which no comment may stand.
ReadColon(t) ==
    /\ Expecting("object", "colon")
    /\ Reads(t)
    /\ stack' = Expect(stack, IF t = ":" THEN "value" ELSE "recovery")
    /\ UNCHANGED <<root, result>>

\* After a member; behind a comment any token but "}" is taken for a comma.
ReadObjectSeparator(t) ==
    /\ Expecting("object", "separator") \/ Expecting("object", "any_separator")
    /\ t # "//"
    /\ Reads(t)
    /\ IF t = "}" THEN Leaves(TRUE)
       ELSE /\ stack' = Expect(stack, IF t = "," \/ Top.expects = "any_separator"
                                      THEN "name" ELSE "recovery")
            /\ UNCHANGED root
    /\ UNCHANGED result

\* Comments are skipped where the code looks for them.
ReadComment ==
    /\ result = "none"
    /\ Top.expects \in {"value", "first", "name", "separator", "any_separator",
                        "trailer"}
    /\ Reads("//")
    /\ stack' = CASE Top.expects = "first" -> Expect(stack, "value")
                  [] Expecting("object", "separator") -> Expect(stack, "any_separator")
                  [] OTHER -> stack
    /\ UNCHANGED <<root, result>>

\* recoverFromError(): tokens are skipped up to the end of the container,
\* whatever is opened in between; then the container has failed as well.
\* "error" stands for all the tokens that are skipped.
Recover(t) ==
    /\ Expecting("array", "recovery") \/ Expecting("object", "recovery")
    /\ t \in {"]", "}", "error", "end"}
    /\ Reads(t)
    /\ IF t \in {"end", IF Top.kind = "array" THEN "]" ELSE "}"}
       THEN Leaves(FALSE) ELSE UNCHANGED <<stack, root>>
    /\ UNCHANGED result

\* parse() reads one more token, and ignores it.
Return(t) ==
    /\ Expecting("root", "trailer") /\ t # "//"
    /\ Reads(t)
    /\ result' = IF root.ok THEN "success" ELSE "failure"
    /\ UNCHANGED <<stack, root>>

Ended == result # "none" /\ UNCHANGED vars

-----------------------------------------------------------------------------

Init ==
    /\ doc = <<>> /\ atEnd = FALSE
    /\ stack = <<Frame("root", "value")>>
    /\ root = [kind |-> "null", items |-> <<>>, ok |-> FALSE]
    /\ result = "none"

Step ==
    \/ \E t \in Tokens \cup {"end"} :
           \/ ReadScalar(t) \/ ReadContainer(t)
           \/ ReadArraySeparator(t) \/ ReadName(t) \/ ReadColon(t)
           \/ ReadObjectSeparator(t) \/ Recover(t) \/ Return(t)
    \/ ReadEmptyArray \/ ReadComment

Next == Step \/ Ended

Spec == Init /\ [][Next]_vars

\* ActionSequence keeps the root whether or not parse() has succeeded: the
\* items of an array; none for null or a scalar, whose size() is 0.  There is no
\* script of an object either: without members it has size() 0, and with one the
\* first nextAction() fails the assertion of Value::operator[].
Items == IF root.kind = "array" THEN root.items ELSE <<>>

\* What nextAction() makes of an item: a text, or no text at all.
IsText(item) == item \notin {"array", "object"}

-----------------------------------------------------------------------------
(* Reference: the grammar of JSON, over the same tokens without comments.  *)

At(d, i) == IF i \in DOMAIN d THEN d[i] ELSE "end"

\* Behind a value of a container that ends at e: the bracket, or a comma and
\* more.  There is nothing at 0, which stands for no place.
Closed(d, e, bracket, more) ==
    CASE At(d, e) = bracket -> e + 1
      [] At(d, e) = ","     -> more
      [] OTHER              -> 0

\* The places behind a value that begins at i, and behind the container whose
\* next item or member begins there, by `ends', which has them for the places
\* behind i; and where the items begin, as far as each of them is a value and
\* a comma comes after it.
GrammarAt(d, ends, i) ==
    LET value == CASE At(d, i) \in Scalars -> i + 1
                   [] At(d, i) = "[" -> IF At(d, i + 1) = "]" THEN i + 2
                                        ELSE ends[i + 1].items
                   [] At(d, i) = "{" -> IF At(d, i + 1) = "}" THEN i + 2
                                        ELSE ends[i + 1].members
                   [] OTHER -> 0
        member == IF At(d, i) \in Strings /\ At(d, i + 1) = ":"
                  THEN ends[i + 2].value ELSE 0
    IN [value   |-> value,
        items   |-> Closed(d, value, "]", ends[value + 1].items),
        members |-> Closed(d, member, "}", ends[member + 1].members),
        starts  |-> IF value = 0 THEN <<>>
                    ELSE <<i>> \o (IF At(d, value) = "," THEN ends[value + 1].starts
                                   ELSE <<>>)]

\* All places of document d.
Grammar(d) ==
    LET ends[i \in 1..(Len(d) + 1)] == GrammarAt(d, ends, i) IN ends

ValueEnd(d, i)  == Grammar(d)[i].value
ItemsFrom(d, i) == Grammar(d)[i].starts

\* A document without its comments.
Uncommented(d) ==
    LET upTo[i \in 0..Len(d)] ==
            IF i = 0 THEN <<>>
            ELSE IF d[i] = "//" THEN upTo[i - 1]
            ELSE Append(upTo[i - 1], d[i])
    IN upTo[Len(d)]

Stripped == Uncommented(doc)

\* The two places where the reader does not look for a comment: before a
\* colon, and in an array with nothing else.
CommentMisplaced ==
    \E i, j \in DOMAIN doc :
        /\ i < j /\ \A k \in (i + 1)..(j - 1) : doc[k] = "//"
        /\ j > i + 1
        /\ doc[j] = ":" \/ (doc[i] = "[" /\ doc[j] = "]")

\* The two liberties of readObject(): the token behind comments after a member
\* is swallowed as if it were the comma, and an object may end with a comma
\* after a member whose name is empty.  These are the documents in which it may
\* come to one of them: a token other than "," and "}" behind comments after a
\* value, be it in an object or not; a member with an empty name and, anywhere,
\* a comma before "}".
CommentForComma ==
    \E i, j \in DOMAIN doc :
        /\ i + 1 < j /\ \A k \in (i + 1)..(j - 1) : doc[k] = "//"
        /\ doc[i] \in Scalars \cup {"]", "}"} /\ doc[j] \notin {",", "}", "//"}

EmptyNamed ==
    \E i \in DOMAIN Stripped : Stripped[i] = "empty" /\ At(Stripped, i + 1) = ":"

LastComma ==
    EmptyNamed /\ \E i \in DOMAIN Stripped : Stripped[i] = "," /\ At(Stripped, i + 1) = "}"

Liberal == CommentForComma \/ LastComma

-----------------------------------------------------------------------------
(* Properties.                                                             *)

TypeOK ==
    /\ doc \in Seq(Tokens) /\ atEnd \in BOOLEAN
    /\ stack[1].kind = "root" /\ stack[1].expects \in {"value", "trailer"}
    /\ root.ok \in BOOLEAN
    /\ \A i \in DOMAIN stack \ {1} : stack[i].kind \in {"array", "object"}
    /\ \A i \in DOMAIN stack \ {Len(stack)} : stack[i].expects \in {"value", "first"}
    /\ result \in {"none", "success", "failure"}
    /\ result # "none" => Len(stack) = 1

\* Every JSON document is accepted, comments included, except before a colon
\* and in an array with nothing else.
JsonIsAccepted ==
    result # "none" /\ ValueEnd(Stripped, 1) # 0 /\ ~CommentMisplaced =>
        result = "success"

\* What is accepted is a JSON value and at most one more token, which nobody
\* looks at, comments left out, unless the document is one in which the reader
\* can take a liberty: no error in a container, however deep, is forgotten on
\* the way out.
AcceptedIsJson ==
    result = "success" /\ ~Liberal =>
        ValueEnd(Stripped, 1) \in {Len(Stripped), Len(Stripped) + 1}

\* A script that is refused is played all the same, as far as it went: the
\* items are those of the file, in order and with their values, and then at
\* most one that was begun.  What comes after the error is never an item,
\* however the recovery goes.  A misplaced comment is an error of the reader's
\* own, which the grammar does not tell.
ItemsOfFile ==
    result # "none" /\ At(Stripped, 1) = "[" /\ ~Liberal /\ ~CommentMisplaced =>
        LET starts == ItemsFrom(Stripped, 2)
        IN /\ Len(Items) \in {Len(starts), Len(starts) + 1}
           /\ result = "success" => Len(Items) = Len(starts)
           /\ \A k \in DOMAIN starts : Items[k] = ValueOf(Stripped[starts[k]])

\* The variables have their types, every caller waits for a value, and the
\* items are those of the file.
ParserInv == TypeOK /\ ItemsOfFile

=============================================================================
