---------------------------- MODULE Utf8Validator ---------------------------
(***************************************************************************)
(* utf8_validator.hpp: the table-driven decoder that a text message feeds  *)
(* with one byte at a time, and what it ought to decide, computed from the *)
(* code points that a beginning of a character can still become.           *)
(***************************************************************************)
EXTENDS Integers, Sequences

UTF8_ACCEPT == 0
UTF8_REJECT == 1

\* The first 256 entries of utf8d: bytes that continue characters alike.
ByteClass(byte) ==
    CASE byte \in 0..127             -> 0
      [] byte \in 128..143           -> 1
      [] byte \in 144..159           -> 9
      [] byte \in 160..191           -> 7
      [] byte \in {192, 193}         -> 8
      [] byte \in 194..223           -> 2
      [] byte = 224                  -> 10
      [] byte \in 225..239 \ {237}   -> 3
      [] byte = 237                  -> 4
      [] byte = 240                  -> 11
      [] byte \in 241..243           -> 6
      [] byte = 244                  -> 5
      [] byte \in 245..255           -> 8

\* The rest of utf8d: the next state, by state and class of the byte.
utf8d ==
    <<<<0, 1, 2, 3, 5, 8, 7, 1, 1, 1, 4, 6>>,
      <<1, 1, 1, 1, 1, 1, 1, 1, 1, 1, 1, 1>>,
      <<1, 0, 1, 1, 1, 1, 1, 0, 1, 0, 1, 1>>,
      <<1, 2, 1, 1, 1, 1, 1, 2, 1, 2, 1, 1>>,
      <<1, 1, 1, 1, 1, 1, 1, 2, 1, 1, 1, 1>>,
      <<1, 2, 1, 1, 1, 1, 1, 1, 1, 2, 1, 1>>,
      <<1, 1, 1, 1, 1, 1, 1, 3, 1, 3, 1, 1>>,
      <<1, 3, 1, 1, 1, 1, 1, 3, 1, 3, 1, 1>>,
      <<1, 3, 1, 1, 1, 1, 1, 1, 1, 1, 1, 1>>>>

decode(state, byte) == utf8d[state + 1][ByteClass(byte) + 1]

-----------------------------------------------------------------------------
(* Reference: the bytes of a character, by the value they stand for.       *)

\* How many bytes a character has that begins with lead; 0 for none.
CharacterLength(lead) ==
    CASE lead < 128       -> 1
      [] lead \in 192..223 -> 2
      [] lead \in 224..239 -> 3
      [] lead \in 240..247 -> 4
      [] OTHER            -> 0

\* The code points that need this many bytes.
Smallest == <<0, 128, 2048, 65536>>
Greatest == <<127, 2047, 65535, 1114111>>

\* How many code points this many bytes more can tell apart.
Choices == <<64, 4096, 262144>>

\* The code point of a character, of the bits in each of its bytes.
CodePoint(lead, bits2, bits3, bits4) ==
    CASE CharacterLength(lead) = 1 -> lead
      [] CharacterLength(lead) = 2 -> 64 * (lead - 192) + bits2
      [] CharacterLength(lead) = 3 -> 4096 * (lead - 224) + 64 * bits2 + bits3
      [] CharacterLength(lead) = 4 ->
             262144 * (lead - 240) + 4096 * bits2 + 64 * bits3 + bits4

\* The first code point whose character begins with these bytes.
First(bytes) ==
    LET Bits(i) == IF i <= Len(bytes) THEN bytes[i] - 128 ELSE 0
    IN CodePoint(Head(bytes), Bits(2), Bits(3), Bits(4))

\* Some character other than a surrogate begins with these bytes, encoded in
\* as few bytes as it takes.
Begins(bytes) ==
    LET n == CharacterLength(Head(bytes))
        rest == n - Len(bytes)
        low == First(bytes)
        high == IF rest = 0 THEN low ELSE low + Choices[rest] - 1
    IN /\ rest >= 0
       /\ \A i \in 2..Len(bytes) : bytes[i] \in 128..191
       /\ low <= Greatest[n] /\ high >= Smallest[n]
       /\ ~(low >= 55296 /\ high <= 57343)

IsCharacter(bytes) == Begins(bytes) /\ Len(bytes) = CharacterLength(Head(bytes))
=============================================================================
