------------------------- MODULE Utf8Validator_proofs -------------------------
(***************************************************************************)
(* Proofs about the decoder of UTF-8, for every byte: it accepts where a   *)
(* character ends, and refuses the first byte after which there is none.   *)
(***************************************************************************)
EXTENDS Utf8Validator, TLAPS

\* Every value of a byte, whatever the bytes of the texts are.
Byte == 0..255

\* The rows of the table that the decoder uses: the states before a byte.
LEMMA Rows ==
    /\ utf8d[1] = <<0, 1, 2, 3, 5, 8, 7, 1, 1, 1, 4, 6>>
    /\ utf8d[3] = <<1, 0, 1, 1, 1, 1, 1, 0, 1, 0, 1, 1>>
    /\ utf8d[4] = <<1, 2, 1, 1, 1, 1, 1, 2, 1, 2, 1, 1>>
    /\ utf8d[5] = <<1, 1, 1, 1, 1, 1, 1, 2, 1, 1, 1, 1>>
    /\ utf8d[6] = <<1, 2, 1, 1, 1, 1, 1, 1, 1, 2, 1, 1>>
    /\ utf8d[7] = <<1, 1, 1, 1, 1, 1, 1, 3, 1, 3, 1, 1>>
    /\ utf8d[8] = <<1, 3, 1, 1, 1, 1, 1, 3, 1, 3, 1, 1>>
    /\ utf8d[9] = <<1, 3, 1, 1, 1, 1, 1, 1, 1, 1, 1, 1>>
BY DEF utf8d

\* The class of a byte, by ranges.
LEMMA ClassOf ==
  ASSUME NEW b \in Byte
  PROVE  ByteClass(b) =
             IF b < 128 THEN 0 ELSE IF b < 144 THEN 1 ELSE IF b < 160 THEN 9
             ELSE IF b < 192 THEN 7 ELSE IF b < 194 THEN 8 ELSE IF b < 224 THEN 2
             ELSE IF b = 224 THEN 10 ELSE IF b = 237 THEN 4 ELSE IF b < 240 THEN 3
             ELSE IF b = 240 THEN 11 ELSE IF b < 244 THEN 6 ELSE IF b = 244 THEN 5
             ELSE 8
<1>1. CASE b \in 0..127
  BY <1>1 DEF ByteClass, Byte
<1>2. CASE b \in 128..143
  BY <1>2 DEF ByteClass, Byte
<1>3. CASE b \in 144..193
  BY <1>3 DEF ByteClass, Byte
<1>4. CASE b \in 194..239
  BY <1>4 DEF ByteClass, Byte
<1>5. CASE b \in 240..255
  BY <1>5 DEF ByteClass, Byte
<1> QED BY <1>1, <1>2, <1>3, <1>4, <1>5 DEF Byte

\* The first byte of a character leads the decoder to a state of its own.
LEMMA DecodeStart ==
  ASSUME NEW b \in Byte
  PROVE decode(0, b) = IF b < 128 THEN 0
                       ELSE IF b \in 194..223 THEN 2
                       ELSE IF b = 224 THEN 4
                       ELSE IF b = 237 THEN 5
                       ELSE IF b \in 225..239 THEN 3
                       ELSE IF b = 240 THEN 6
                       ELSE IF b \in 241..243 THEN 7
                       ELSE IF b = 244 THEN 8
                       ELSE 1
<1>1. decode(0, b) = utf8d[1][ByteClass(b) + 1]
  BY DEF decode
<1> QED BY <1>1, Rows, ClassOf DEF Byte

\* What each state makes of the bytes behind the first.
LEMMA Later ==
  ASSUME NEW b \in Byte
  PROVE /\ decode(2, b) = IF b \in 128..191 THEN 0 ELSE 1
        /\ decode(3, b) = IF b \in 128..191 THEN 2 ELSE 1
        /\ decode(4, b) = IF b \in 160..191 THEN 2 ELSE 1
        /\ decode(5, b) = IF b \in 128..159 THEN 2 ELSE 1
        /\ decode(6, b) = IF b \in 144..191 THEN 3 ELSE 1
        /\ decode(7, b) = IF b \in 128..191 THEN 3 ELSE 1
        /\ decode(8, b) = IF b \in 128..143 THEN 3 ELSE 1
<1>1. /\ decode(2, b) = utf8d[3][ByteClass(b) + 1]
      /\ decode(3, b) = utf8d[4][ByteClass(b) + 1]
      /\ decode(4, b) = utf8d[5][ByteClass(b) + 1]
      /\ decode(5, b) = utf8d[6][ByteClass(b) + 1]
      /\ decode(6, b) = utf8d[7][ByteClass(b) + 1]
      /\ decode(7, b) = utf8d[8][ByteClass(b) + 1]
      /\ decode(8, b) = utf8d[9][ByteClass(b) + 1]
  BY DEF decode
<1>2. decode(2, b) = IF b \in 128..191 THEN 0 ELSE 1
  BY <1>1, Rows, ClassOf DEF Byte
<1>3. decode(3, b) = IF b \in 128..191 THEN 2 ELSE 1
  BY <1>1, Rows, ClassOf DEF Byte
<1>4. decode(4, b) = IF b \in 160..191 THEN 2 ELSE 1
  BY <1>1, Rows, ClassOf DEF Byte
<1>5. decode(5, b) = IF b \in 128..159 THEN 2 ELSE 1
  BY <1>1, Rows, ClassOf DEF Byte
<1>6. decode(6, b) = IF b \in 144..191 THEN 3 ELSE 1
  BY <1>1, Rows, ClassOf DEF Byte
<1>7. decode(7, b) = IF b \in 128..191 THEN 3 ELSE 1
  BY <1>1, Rows, ClassOf DEF Byte
<1>8. decode(8, b) = IF b \in 128..143 THEN 3 ELSE 1
  BY <1>1, Rows, ClassOf DEF Byte
<1> QED BY <1>2, <1>3, <1>4, <1>5, <1>6, <1>7, <1>8

\* How long a character is that begins with l; 0: none does.
Lead(l) == IF l < 128 THEN 1 ELSE IF l < 192 THEN 0
                              ELSE IF l < 224 THEN 2 ELSE IF l < 240 THEN 3
                              ELSE IF l < 248 THEN 4 ELSE 0

\* The code point of the bits of a beginning, the missing ones being 0.
Low(l, b2, b3, b4) ==
  IF l < 128 THEN l ELSE IF l < 224 THEN 64 * (l - 192) + b2
  ELSE IF l < 240 THEN 4096 * (l - 224) + 64 * b2 + b3
  ELSE 262144 * (l - 240) + 4096 * b2 + 64 * b3 + b4

\* CharacterLength, without its CASE.
LEMMA LengthOf ==
  ASSUME NEW l \in Byte PROVE CharacterLength(l) = Lead(l)
BY SMT DEF CharacterLength, Byte, Lead

\* CodePoint, without its CASE.
LEMMA CodePointIs ==
  ASSUME NEW l \in Byte, NEW a \in Int, NEW b \in Int, NEW c \in Int, Lead(l) # 0
  PROVE  CodePoint(l, a, b, c) = Low(l, a, b, c)
<1>2. CharacterLength(l) = Lead(l)
  BY LengthOf
<1>3. CASE l < 128
  BY <1>2, <1>3 DEF CodePoint, Low, Lead
<1>4. CASE l \in 192..223
  BY <1>2, <1>4 DEF CodePoint, Low, Lead
<1>5. CASE l \in 224..239
  BY <1>2, <1>5 DEF CodePoint, Low, Lead
<1>6. CASE l \in 240..247
  BY <1>2, <1>6 DEF CodePoint, Low, Lead
<1> QED BY <1>3, <1>4, <1>5, <1>6 DEF Lead, Byte

\* Begins, with the length n of the character and the first code point low.
Possible(n, len, low) ==
    /\ len <= n
    /\ low <= Greatest[n]
    /\ (IF len = n THEN low ELSE low + Choices[n - len] - 1) >= Smallest[n]
    /\ ~(low >= 55296 /\ (IF len = n THEN low ELSE low + Choices[n - len] - 1) <= 57343)

\* A beginning: bytes that go on, and code points that are left to reach.
LEMMA BeginsIs ==
  ASSUME NEW s \in Seq(Byte), s # <<>>
  PROVE  Begins(s) <=> /\ \A i \in 2..Len(s) : s[i] \in 128..191
                       /\ Possible(Lead(s[1]), Len(s), First(s))
<1>1. Head(s) = s[1] /\ Len(s) \in Nat /\ s[1] \in Byte
  OBVIOUS
<1>2. CharacterLength(Head(s)) = Lead(s[1]) /\ Lead(s[1]) \in 0..4
  BY <1>1, LengthOf DEF Lead
<1>3. CASE Lead(s[1]) = Len(s)
  BY <1>1, <1>2, <1>3, SMT DEF Begins, Possible
<1>4. CASE Lead(s[1]) # Len(s)
  BY <1>1, <1>2, <1>4, SMT DEF Begins, Possible
<1> QED BY <1>3, <1>4

\* The code points of each length, and how many a missing byte leaves open.
LEMMA Tables ==
  /\ Smallest[1] = 0 /\ Smallest[2] = 128 /\ Smallest[3] = 2048 /\ Smallest[4] = 65536
  /\ Greatest[1] = 127 /\ Greatest[2] = 2047 /\ Greatest[3] = 65535
  /\ Greatest[4] = 1114111
  /\ Choices[1] = 64 /\ Choices[2] = 4096 /\ Choices[3] = 262144
BY DEF Smallest, Greatest, Choices

\* The second bytes that a first byte can have.
SecondOf(lead) ==
    IF lead = 224 THEN 160..191 ELSE IF lead = 237 THEN 128..159
    ELSE IF lead = 240 THEN 144..191 ELSE IF lead = 244 THEN 128..143
    ELSE 128..191

\* Which first bytes begin a character.
LEMMA PossibleOne ==
  ASSUME NEW l \in Byte
  PROVE  Possible(Lead(l), 1, Low(l, 0, 0, 0)) <=> l < 128 \/ l \in 194..244
<1>1. CASE Lead(l) = 0
  BY <1>1, Tables DEF Lead, Low, Possible, SecondOf, Byte
<1>2. CASE Lead(l) = 1
  BY <1>2, Tables DEF Lead, Low, Possible, SecondOf, Byte
<1>3. CASE Lead(l) = 2
  BY <1>3, Tables DEF Lead, Low, Possible, SecondOf, Byte
<1>4. CASE Lead(l) = 3
  BY <1>4, Tables DEF Lead, Low, Possible, SecondOf, Byte
<1>5. CASE Lead(l) = 4
  BY <1>5, Tables DEF Lead, Low, Possible, SecondOf, Byte
<1> QED BY <1>1, <1>2, <1>3, <1>4, <1>5 DEF Lead, Byte

\* Overlong forms, surrogates and what lies behind U+10FFFF show in two bytes.
LEMMA PossibleTwo ==
  ASSUME NEW l \in Byte, NEW a \in 128..191
  PROVE  Possible(Lead(l), 2, Low(l, a - 128, 0, 0)) <=> l \in 194..244 /\ a \in SecondOf(l)
<1>1. CASE Lead(l) = 0
  BY <1>1, Tables DEF Lead, Low, Possible, SecondOf, Byte
<1>2. CASE Lead(l) = 1
  BY <1>2, Tables DEF Lead, Low, Possible, SecondOf, Byte
<1>3. CASE Lead(l) = 2
  BY <1>3, Tables DEF Lead, Low, Possible, SecondOf, Byte
<1>4. CASE Lead(l) = 3
  BY <1>4, Tables DEF Lead, Low, Possible, SecondOf, Byte
<1>5. CASE Lead(l) = 4
  BY <1>5, Tables DEF Lead, Low, Possible, SecondOf, Byte
<1> QED BY <1>1, <1>2, <1>3, <1>4, <1>5 DEF Lead, Byte

\* The third byte of a beginning is free.
LEMMA PossibleThree ==
  ASSUME NEW l \in Byte, NEW a \in 128..191, NEW b \in 128..191
  PROVE  Possible(Lead(l), 3, Low(l, a - 128, b - 128, 0)) <=> l \in 224..244 /\ a \in SecondOf(l)
<1>1. CASE Lead(l) = 0
  BY <1>1, Tables DEF Lead, Low, Possible, SecondOf, Byte
<1>2. CASE Lead(l) = 1
  BY <1>2, Tables DEF Lead, Low, Possible, SecondOf, Byte
<1>3. CASE Lead(l) = 2
  BY <1>3, Tables DEF Lead, Low, Possible, SecondOf, Byte
<1>4. CASE Lead(l) = 3
  BY <1>4, Tables DEF Lead, Low, Possible, SecondOf, Byte
<1>5. CASE Lead(l) = 4
  BY <1>5, Tables DEF Lead, Low, Possible, SecondOf, Byte
<1> QED BY <1>1, <1>2, <1>3, <1>4, <1>5 DEF Lead, Byte

\* The fourth byte of a beginning is free.
LEMMA PossibleFour ==
  ASSUME NEW l \in Byte, NEW a \in 128..191, NEW b \in 128..191, NEW c \in 128..191
  PROVE  Possible(Lead(l), 4, Low(l, a - 128, b - 128, c - 128)) <=> l \in 240..244 /\ a \in SecondOf(l)
<1>1. CASE Lead(l) = 0
  BY <1>1, Tables DEF Lead, Low, Possible, SecondOf, Byte
<1>2. CASE Lead(l) = 1
  BY <1>2, Tables DEF Lead, Low, Possible, SecondOf, Byte
<1>3. CASE Lead(l) = 2
  BY <1>3, Tables DEF Lead, Low, Possible, SecondOf, Byte
<1>4. CASE Lead(l) = 3
  BY <1>4, Tables DEF Lead, Low, Possible, SecondOf, Byte
<1>5. CASE Lead(l) = 4
  BY <1>5, Tables DEF Lead, Low, Possible, SecondOf, Byte
<1> QED BY <1>1, <1>2, <1>3, <1>4, <1>5 DEF Lead, Byte

\* A byte that goes on with a character.
Continuation(b) == b \in 128..191

\* First bytes by the length of their character.
LEMMA LeadIs ==
  ASSUME NEW l \in Byte
  PROVE  /\ Lead(l) \in 0..4 /\ Lead(l) \in Nat /\ l \in Int /\ l - 128 \in Int
         /\ Lead(l) = 0 => l \notin 194..244 /\ ~(l < 128)
         /\ Lead(l) = 1 <=> l < 128
         /\ Lead(l) = 2 <=> l \in 192..223
         /\ Lead(l) = 3 <=> l \in 224..239
         /\ Lead(l) = 4 <=> l \in 240..247
BY DEF Lead, Byte

\* The length of a character of several bytes and the range of its first.
LongLead(l) ==
    /\ Lead(l) \in 2..4
    /\ Lead(l) # 2 => l \in 224..244 /\ Lead(l) \in 3..4
    /\ l \in 224..244 /\ Lead(l) # 3 => l \in 240..244 /\ Lead(l) = 4

\* Every first byte of a character of several bytes says how many.
LEMMA LeadRange ==
  ASSUME NEW l \in 194..244 PROVE LongLead(l)
BY DEF Lead, LongLead

\* The beginnings of one byte,
LEMMA BeginsOne ==
  ASSUME NEW s \in Seq(Byte), Len(s) = 1
  PROVE  Begins(s) <=> s[1] < 128 \/ s[1] \in 194..244
<1>1. s[1] \in Byte /\ s # <<>> /\ 2..Len(s) = {} /\ Head(s) = s[1]
  OBVIOUS
<1>2. First(s) = CodePoint(s[1], 0, 0, 0)
  BY <1>1 DEF First
<1>3. Lead(s[1]) = 0 => ~Possible(Lead(s[1]), 1, First(s))
  BY DEF Possible
<1>4. Lead(s[1]) = 0 => ~(s[1] < 128 \/ s[1] \in 194..244)
  BY <1>1, LeadIs
<1>5. Lead(s[1]) # 0 => First(s) = Low(s[1], 0, 0, 0)
  BY <1>1, <1>2, CodePointIs
<1>6. Begins(s) <=> Possible(Lead(s[1]), 1, First(s))
  BY <1>1, BeginsIs
<1> QED BY <1>1, <1>3, <1>4, <1>5, <1>6, PossibleOne, LeadIs

\* of two bytes,
LEMMA BeginsTwo ==
  ASSUME NEW s \in Seq(Byte), Len(s) = 2
  PROVE  Begins(s) <=> s[1] \in 194..244 /\ s[2] \in SecondOf(s[1])
<1>1. s[1] \in Byte /\ s[2] \in Byte /\ s # <<>> /\ 2..Len(s) = {2} /\ Head(s) = s[1]
  BY SMTT(30)
<1>2. First(s) = CodePoint(s[1], s[2] - 128, 0, 0)
  BY <1>1 DEF First
<1>3. Lead(s[1]) = 0 => ~Possible(Lead(s[1]), 2, First(s))
  BY DEF Possible
<1>4. Lead(s[1]) = 0 => s[1] \notin 194..244
  BY <1>1, LeadIs
<1>5. Lead(s[1]) # 0 => First(s) = Low(s[1], s[2] - 128, 0, 0)
  BY <1>1, <1>2, CodePointIs, LeadIs
<1>6. Begins(s) <=> s[2] \in 128..191 /\ Possible(Lead(s[1]), 2, First(s))
  BY <1>1, BeginsIs
<1>7. s[2] \in SecondOf(s[1]) => s[2] \in 128..191
  BY DEF SecondOf
<1>8. ASSUME s[2] \in 128..191
      PROVE  Possible(Lead(s[1]), 2, Low(s[1], s[2] - 128, 0, 0))
               <=> s[1] \in 194..244 /\ s[2] \in SecondOf(s[1])
  <2>1. s[1] \in Byte
    BY <1>1
  <2> QED BY <2>1, <1>8, PossibleTwo, ZenonT(30)
<1> QED BY <1>3, <1>4, <1>5, <1>6, <1>7, <1>8

\* of three bytes,
LEMMA BeginsThree ==
  ASSUME NEW s \in Seq(Byte), Len(s) = 3
  PROVE  Begins(s) <=> /\ s[1] \in 224..244 /\ s[2] \in SecondOf(s[1])
                       /\ Continuation(s[3])
<1>1. /\ s[1] \in Byte /\ s[2] \in Byte /\ s[3] \in Byte
      /\ s # <<>> /\ 2..Len(s) = {2, 3} /\ Head(s) = s[1]
  OBVIOUS
<1>2. First(s) = CodePoint(s[1], s[2] - 128, s[3] - 128, 0)
  BY <1>1 DEF First
<1>3. Lead(s[1]) = 0 => ~Possible(Lead(s[1]), 3, First(s))
  BY DEF Possible
<1>4. Lead(s[1]) = 0 => s[1] \notin 224..244
  BY <1>1, LeadIs
<1>5. Lead(s[1]) # 0 => First(s) = Low(s[1], s[2] - 128, s[3] - 128, 0)
  BY <1>1, <1>2, CodePointIs, LeadIs
<1>6. Begins(s) <=> /\ s[2] \in 128..191 /\ s[3] \in 128..191
                    /\ Possible(Lead(s[1]), 3, First(s))
  BY <1>1, BeginsIs
<1>7. s[2] \in SecondOf(s[1]) => s[2] \in 128..191
  BY DEF SecondOf
<1>8. ASSUME s[2] \in 128..191 /\ s[3] \in 128..191
      PROVE  Possible(Lead(s[1]), 3, Low(s[1], s[2] - 128, s[3] - 128, 0))
               <=> s[1] \in 224..244 /\ s[2] \in SecondOf(s[1])
  <2>1. s[1] \in Byte
    BY <1>1
  <2> QED BY <2>1, <1>8, PossibleThree, ZenonT(30)
<1> QED BY <1>3, <1>4, <1>5, <1>6, <1>7, <1>8 DEF Continuation

\* and of four bytes.
LEMMA BeginsFour ==
  ASSUME NEW s \in Seq(Byte), Len(s) = 4
  PROVE  Begins(s) <=> /\ s[1] \in 240..244 /\ s[2] \in SecondOf(s[1])
                       /\ Continuation(s[3]) /\ Continuation(s[4])
<1>1. /\ s[1] \in Byte /\ s[2] \in Byte /\ s[3] \in Byte /\ s[4] \in Byte
      /\ s # <<>> /\ 2..Len(s) = {2, 3, 4} /\ Head(s) = s[1]
  OBVIOUS
<1>2. First(s) = CodePoint(s[1], s[2] - 128, s[3] - 128, s[4] - 128)
  BY <1>1 DEF First
<1>3. Lead(s[1]) = 0 => ~Possible(Lead(s[1]), 4, First(s))
  BY DEF Possible
<1>4. Lead(s[1]) = 0 => s[1] \notin 240..244
  BY <1>1, LeadIs
<1>5. Lead(s[1]) # 0 => First(s) = Low(s[1], s[2] - 128, s[3] - 128, s[4] - 128)
  BY <1>1, <1>2, CodePointIs, LeadIs
<1>6. Begins(s) <=> /\ s[2] \in 128..191 /\ s[3] \in 128..191 /\ s[4] \in 128..191
                    /\ Possible(Lead(s[1]), 4, First(s))
  BY <1>1, BeginsIs, ZenonT(60)
<1>7. s[2] \in SecondOf(s[1]) => s[2] \in 128..191
  BY DEF SecondOf
<1>8. ASSUME s[2] \in 128..191 /\ s[3] \in 128..191 /\ s[4] \in 128..191
      PROVE  Possible(Lead(s[1]), 4, Low(s[1], s[2] - 128, s[3] - 128, s[4] - 128))
               <=> s[1] \in 240..244 /\ s[2] \in SecondOf(s[1])
  <2>1. s[1] \in Byte
    BY <1>1
  <2> DEFINE P(a, b, c) ==
                 Possible(Lead(s[1]), 4, Low(s[1], a - 128, b - 128, c - 128))
                   <=> s[1] \in 240..244 /\ a \in SecondOf(s[1])
  <2>2. \A a, b, c \in 128..191 : P(a, b, c)
    BY <2>1, PossibleFour, ZenonT(30)
  <2> HIDE DEF P
  <2>3. P(s[2], s[3], s[4])
    BY <2>2, <1>8
  <2> QED BY <2>3 DEF P
<1> QED BY <1>3, <1>4, <1>5, <1>6, <1>7, <1>8 DEF Continuation

\* The beginning of a character that some byte more completes or goes on.
Open(c) == c = <<>> \/ (Begins(c) /\ ~IsCharacter(c))

\* The state of the decoder behind a first byte.
FirstState(lead) ==
    IF lead < 224 THEN 2 ELSE IF lead = 224 THEN 4 ELSE IF lead = 237 THEN 5
    ELSE IF lead < 240 THEN 3 ELSE IF lead = 240 THEN 6
    ELSE IF lead < 244 THEN 7 ELSE 8

\* The decoder accepts, refuses or goes on with a first byte as it should,
LEMMA DecodeFirst ==
  ASSUME NEW b \in Byte
  PROVE  /\ decode(0, b) = 0 <=> b < 128
         /\ decode(0, b) = 1 <=> ~(b < 128 \/ b \in 194..244)
         /\ b \in 194..244 => decode(0, b) = FirstState(b)
BY DecodeStart DEF Byte, FirstState

\* and with a second one.
LEMMA DecodeSecond ==
  ASSUME NEW l \in 194..244, NEW b \in Byte
  PROVE  /\ decode(FirstState(l), b) = 0 <=> b \in SecondOf(l) /\ Lead(l) = 2
         /\ decode(FirstState(l), b) = 1 <=> b \notin SecondOf(l)
         /\ b \in SecondOf(l) /\ Lead(l) # 2
               => decode(FirstState(l), b) = Lead(l) - 1
<1>1. CASE l \in 194..223
  BY <1>1, Later DEF FirstState, SecondOf, Lead
<1>2. CASE l = 224
  BY <1>2, Later DEF FirstState, SecondOf, Lead
<1>3. CASE l = 237
  BY <1>3, Later DEF FirstState, SecondOf, Lead
<1>4. CASE l \in 225..239 /\ l # 237
  BY <1>4, Later DEF FirstState, SecondOf, Lead
<1>5. CASE l = 240
  BY <1>5, Later DEF FirstState, SecondOf, Lead
<1>6. CASE l \in 241..243
  BY <1>6, Later DEF FirstState, SecondOf, Lead
<1>7. CASE l = 244
  BY <1>7, Later DEF FirstState, SecondOf, Lead
<1> QED BY <1>1, <1>2, <1>3, <1>4, <1>5, <1>6, <1>7

\* The state of the decoder behind such a beginning.
StateOf(c) ==
    IF c = <<>> THEN UTF8_ACCEPT
    ELSE IF Len(c) = 1 THEN FirstState(c[1])
    ELSE Lead(c[1]) - Len(c) + 1

\* One byte more: the decoder accepts with a whole character, rejects what no
\* character begins with, and is otherwise in the state of a beginning.
Decoded(c, b) ==
    LET d == Append(c, b) IN
    /\ (decode(StateOf(c), b) = UTF8_ACCEPT) <=> IsCharacter(d)
    /\ (decode(StateOf(c), b) = UTF8_REJECT) <=> ~Begins(d)
    /\ decode(StateOf(c), b) = IF IsCharacter(d) THEN UTF8_ACCEPT
                               ELSE IF Begins(d) THEN StateOf(d) ELSE UTF8_REJECT

\* The decoder is right about every byte: Hoehrmann's table is UTF-8.
LEMMA DecodeStep ==
  ASSUME NEW c \in Seq(Byte), Open(c), NEW b \in Byte
  PROVE  Decoded(c, b)
<1> DEFINE d == Append(c, b)
<1>1. /\ d \in Seq(Byte) /\ Len(d) = Len(c) + 1 /\ d # <<>>
      /\ d[Len(c) + 1] = b /\ \A i \in 1..Len(c) : d[i] = c[i]
      /\ Head(d) = d[1] /\ d[1] \in Byte
  OBVIOUS
<1>2. IsCharacter(d) <=> Begins(d) /\ Len(d) = Lead(d[1])
  BY <1>1, LengthOf DEF IsCharacter
<1>3. CASE c = <<>>
  <2>1. Len(d) = 1 /\ d[1] = b
    BY <1>1, <1>3
  <2>2. Begins(d) <=> b < 128 \/ b \in 194..244
    BY <2>1, <1>1, BeginsOne, ZenonT(60)
  <2>3. IsCharacter(d) <=> b < 128
    BY <2>1, <2>2, <1>2, LeadIs
  <2>4. StateOf(c) = 0
    BY <1>3 DEF StateOf, UTF8_ACCEPT
  <2>5. StateOf(d) = FirstState(b)
    BY <2>1, <1>1 DEF StateOf
  <2> HIDE DEF d
  <2>6. /\ (decode(0, b) = 0) <=> IsCharacter(d)
        /\ (decode(0, b) = 1) <=> ~Begins(d)
        /\ decode(0, b) = IF IsCharacter(d) THEN 0
                          ELSE IF Begins(d) THEN StateOf(d) ELSE 1
    BY <2>2, <2>3, <2>5, DecodeFirst
  <2> QED BY <2>4, <2>6 DEF d, Decoded, UTF8_ACCEPT, UTF8_REJECT
<1>4. CASE Len(c) = 1
  <2>1. Len(d) = 2 /\ d[1] = c[1] /\ d[2] = b /\ c[1] \in Byte
    BY <1>1, <1>4
  <2>9. c # <<>> /\ Head(c) = c[1]
    BY <1>4
  <2>8. Begins(c) /\ Lead(c[1]) # 1
    BY <1>4, <2>1, <2>9, LengthOf DEF Open, IsCharacter
  <2>2. c[1] \in 194..244 /\ Lead(c[1]) \in 2..4
    BY <1>4, <2>1, <2>8, BeginsOne, LeadIs
  <2>3. Begins(d) <=> b \in SecondOf(c[1])
    BY <2>1, <2>2, <1>1, BeginsTwo
  <2>4. StateOf(c) = FirstState(c[1])
    BY <1>4, <2>9 DEF StateOf
  <2>5. StateOf(d) = Lead(c[1]) - 1
    BY <2>1, <2>2, <1>1 DEF StateOf
  <2> HIDE DEF d
  <2>6. IsCharacter(d) <=> b \in SecondOf(c[1]) /\ Lead(c[1]) = 2
    BY <2>1, <2>3, <1>2
  <2>7. /\ (decode(FirstState(c[1]), b) = 0) <=> IsCharacter(d)
        /\ (decode(FirstState(c[1]), b) = 1) <=> ~Begins(d)
        /\ decode(FirstState(c[1]), b) = IF IsCharacter(d) THEN 0
                          ELSE IF Begins(d) THEN StateOf(d) ELSE 1
    BY <2>1, <2>2, <2>3, <2>5, <2>6, DecodeSecond
  <2> QED BY <2>4, <2>7 DEF d, Decoded, UTF8_ACCEPT, UTF8_REJECT
<1>5. CASE Len(c) = 2
  <2>1. Len(d) = 3 /\ d[1] = c[1] /\ d[2] = c[2] /\ d[3] = b /\ c[1] \in Byte
    BY <1>1, <1>5
  <2>9. c # <<>> /\ Head(c) = c[1]
    BY <1>5
  <2>8. Begins(c) /\ Lead(c[1]) # 2
    BY <1>5, <2>1, <2>9, LengthOf DEF Open, IsCharacter
  <2>2. c[1] \in 224..244 /\ c[2] \in SecondOf(c[1]) /\ Lead(c[1]) \in 3..4
    <3>1. c[1] \in 194..244 /\ c[2] \in SecondOf(c[1])
      BY <1>5, <2>8, BeginsTwo
    <3>2. LongLead(c[1])
      BY <3>1, LeadRange
    <3> QED BY <3>1, <3>2, <2>8 DEF LongLead
  <2>3. Begins(d) <=> Continuation(b)
    BY <2>1, <2>2, <1>1, BeginsThree
  <2>4. StateOf(c) = Lead(c[1]) - 1
    BY <1>5, <2>2, <2>9 DEF StateOf
  <2>5. StateOf(d) = Lead(c[1]) - 2
    BY <2>1, <2>2, <1>1 DEF StateOf
  <2> HIDE DEF d
  <2>6. IsCharacter(d) <=> Continuation(b) /\ Lead(c[1]) = 3
    BY <2>1, <2>3, <1>2
  <2>7. /\ (decode(Lead(c[1]) - 1, b) = 0) <=> IsCharacter(d)
        /\ (decode(Lead(c[1]) - 1, b) = 1) <=> ~Begins(d)
        /\ decode(Lead(c[1]) - 1, b) = IF IsCharacter(d) THEN 0
                          ELSE IF Begins(d) THEN StateOf(d) ELSE 1
    <3>1. CASE Lead(c[1]) = 3
      BY <3>1, <2>3, <2>5, <2>6, Later DEF Continuation
    <3>2. CASE Lead(c[1]) = 4
      BY <3>2, <2>3, <2>5, <2>6, Later DEF Continuation
    <3> QED BY <3>1, <3>2, <2>2
  <2> QED BY <2>4, <2>7 DEF d, Decoded, UTF8_ACCEPT, UTF8_REJECT
<1>6. CASE Len(c) = 3
  <2>1. /\ Len(d) = 4 /\ d[1] = c[1] /\ d[2] = c[2] /\ d[3] = c[3] /\ d[4] = b
        /\ c[1] \in Byte
    BY <1>1, <1>6
  <2>9. c # <<>> /\ Head(c) = c[1]
    BY <1>6
  <2>8. Begins(c) /\ Lead(c[1]) # 3
    BY <1>6, <2>1, <2>9, LengthOf DEF Open, IsCharacter
  <2>2. /\ c[1] \in 240..244 /\ c[2] \in SecondOf(c[1]) /\ Continuation(c[3])
        /\ Lead(c[1]) = 4
    <3>1. c[1] \in 224..244 /\ c[2] \in SecondOf(c[1]) /\ Continuation(c[3])
      BY <1>6, <2>8, BeginsThree
    <3>2. c[1] \in 194..244
      BY <3>1
    <3>3. LongLead(c[1])
      BY <3>2, LeadRange
    <3> QED BY <3>1, <3>3, <2>8 DEF LongLead
  <2>3. Begins(d) <=> Continuation(b)
    BY <2>1, <2>2, <1>1, BeginsFour
  <2>4. StateOf(c) = 2
    BY <1>6, <2>2, <2>9 DEF StateOf
  <2> HIDE DEF d
  <2>6. IsCharacter(d) <=> Continuation(b)
    BY <2>1, <2>2, <2>3, <1>2
  <2>7. /\ (decode(2, b) = 0) <=> IsCharacter(d)
        /\ (decode(2, b) = 1) <=> ~Begins(d)
        /\ decode(2, b) = IF IsCharacter(d) THEN 0
                          ELSE IF Begins(d) THEN StateOf(d) ELSE 1
    BY <2>3, <2>6, Later DEF Continuation
  <2> QED BY <2>4, <2>7 DEF d, Decoded, UTF8_ACCEPT, UTF8_REJECT
<1>7. c = <<>> \/ Len(c) \in 1..3
  <2>1. SUFFICES ASSUME c # <<>> PROVE Len(c) \in 1..3
    OBVIOUS
  <2>2. c[1] \in Byte /\ Head(c) = c[1] /\ Len(c) \in Nat /\ Len(c) # 0
    BY <2>1
  <2>3. Possible(Lead(c[1]), Len(c), First(c)) /\ Len(c) # Lead(c[1])
    BY <2>1, <2>2, BeginsIs, LengthOf DEF Open, IsCharacter
  <2>4. Len(c) <= Lead(c[1])
    BY <2>3 DEF Possible
  <2>5. Lead(c[1]) \in 0..4 /\ Lead(c[1]) \in Nat
    BY <2>2, LeadIs, SMTT(30)
  <2>6. \A m, n \in Nat : m # 0 /\ m <= n /\ n \in 0..4 /\ m # n => m \in 1..3
    OBVIOUS
  <2> QED BY <2>2, <2>3, <2>4, <2>5, <2>6
<1> QED BY <1>3, <1>4, <1>5, <1>6, <1>7
=============================================================================
