------------------------------- MODULE JsonText -------------------------------
(***************************************************************************)
(* Two conversions of jsoncpp's reader and what they ought to yield: whole *)
(* numbers, whose type has a limited width, and \u escapes of strings,     *)
(* which become the UTF-8 of the texts that the client sends.              *)
(* src/parts/jsoncpp/src/lib_json/json_reader.cpp and json_tool.h.         *)
(***************************************************************************)
EXTENDS Integers, Sequences, Utf8Validator

CONSTANTS
    maxLargestUInt,   \* the greatest whole number of the type
    MaxDigits,        \* bound: digits of a number
    Units             \* the \u escapes, by their 16 bits

\* LargestUInt is all ones in binary, 64 of them in the code, so its greatest
\* number is odd; and the limit of a negative number has two digits.
ASSUME WidthAssumption ==
    maxLargestUInt \in Nat /\ maxLargestUInt % 2 = 1 /\ maxLargestUInt >= 19

ASSUME TextsAssumption ==
    MaxDigits \in Nat /\ \A unit \in Units : unit \in Nat /\ unit <= 65535

-----------------------------------------------------------------------------
(* decodeNumber().                                                         *)

\* The limits of LargestInt, as json_value.cpp computes them.
maxLargestInt == maxLargestUInt \div 2
minLargestInt == -maxLargestInt - 1

IsDouble == [double |-> TRUE, value |-> 0]

\* Wrong variant: the last digit is not compared.
NextDigitUnchecked(number, digit, last, maxInteger) ==
    LET threshold == maxInteger \div 10 IN
    IF number.double \/ number.value > threshold
       \/ (number.value = threshold /\ ~last)
    THEN IsDouble
    ELSE [double |-> FALSE,
          value |-> (10 * number.value + digit) % (maxLargestUInt + 1)]

\* One round of the loop, unless the number has been given up before.
NextDigit(number, digit, last, maxInteger) ==
    LET threshold == maxInteger \div 10 IN
    IF number.double \/ number.value > threshold
       \/ (number.value = threshold /\ (~last \/ digit > maxInteger % 10))
    THEN IsDouble
    ELSE [double |-> FALSE,
          value |-> (10 * number.value + digit) % (maxLargestUInt + 1)]

\* The number after i digits, by the numbers before.
Round(number, digits, maxInteger, i) ==
    IF i = 0 THEN [double |-> FALSE, value |-> 0]
    ELSE NextDigit(number[i - 1], digits[i], i = Len(digits), maxInteger)

\* The negation does not fit its signed type; it wraps around in the build, and
\* the cast to LargestUInt gives the number itself.
MaxInteger(negative) == IF negative THEN -minLargestInt ELSE maxLargestUInt

\* The number with these digits, or IsDouble if decodeDouble() is to read it.
DecodeNumber(negative, digits) ==
    LET number[i \in 0..Len(digits)] == Round(number, digits, MaxInteger(negative), i)
        last == number[Len(digits)]
    IN IF negative /\ ~last.double
       THEN [double |-> FALSE, value |-> -last.value] ELSE last

\* Reference: the number that digits stand for, without any limit.
Worth(number, digits, i) == IF i = 0 THEN 0 ELSE 10 * number[i - 1] + digits[i]
NumberOf(digits) ==
    LET number[i \in 0..Len(digits)] == Worth(number, digits, i)
    IN number[Len(digits)]

\* Every whole number that fits is read exactly, the greatest and the smallest
\* included, and no other is read as a whole number: nothing wraps around.
\* Leading zeros are not refused, but cost a number at the limit nothing.
NumbersExact ==
    \A negative \in BOOLEAN, n \in 0..MaxDigits : \A digits \in [1..n -> 0..9] :
        DecodeNumber(negative, digits) =
            IF NumberOf(digits) > MaxInteger(negative) THEN IsDouble
            ELSE [double |-> FALSE,
                  value |-> IF negative THEN -NumberOf(digits) ELSE NumberOf(digits)]

-----------------------------------------------------------------------------
(* decodeUnicodeCodePoint() and codePointToUTF8().                         *)

\* Wrong variant: the pair is put together without its 0x10000.
decodeUnicodeCodePoint_low(unit, next) ==
    IF unit >= 55296 /\ unit <= 56319
    THEN 1024 * (unit % 1024) + (next % 1024)
    ELSE unit

\* The code point of \u escape `unit', followed by the escape `next' if unit
\* is the first half of a pair.  That next is a second half is not checked.
decodeUnicodeCodePoint(unit, next) ==
    IF unit >= 55296 /\ unit <= 56319
    THEN 65536 + 1024 * (unit % 1024) + (next % 1024)
    ELSE unit

Low6(bits) == 128 + (bits % 64)

\* A code point in so many bytes.
OneByte(cp)    == <<cp>>
TwoBytes(cp)   == <<192 + ((cp \div 64) % 32), Low6(cp)>>
ThreeBytes(cp) == <<224 + ((cp \div 4096) % 16), Low6(cp \div 64), Low6(cp)>>
FourBytes(cp)  ==
    <<240 + ((cp \div 262144) % 8), Low6(cp \div 4096), Low6(cp \div 64), Low6(cp)>>

codePointToUTF8(cp) ==
    CASE cp <= 127                    -> OneByte(cp)
      [] 127 < cp /\ cp <= 2047      -> TwoBytes(cp)
      [] 2047 < cp /\ cp <= 65535    -> ThreeBytes(cp)
      [] 65535 < cp /\ cp <= 1114111 -> FourBytes(cp)

\* The validator's state after i bytes, by the states before.
AfterByte(state, bytes, i) ==
    IF i = 0 THEN UTF8_ACCEPT ELSE decode(state[i - 1], bytes[i])
StateAfter(bytes) ==
    LET state[i \in 0..Len(bytes)] == AfterByte(state, bytes, i)
    IN state[Len(bytes)]

\* Reference: the escapes that stand for a character are its UTF-16, one unit
\* or the first and the second half of a pair, which share their six upper bits
\* with no other unit.
FirstHalf(unit)  == unit \div 1024 = 54
SecondHalf(unit) == unit \div 1024 = 55
Utf16(character) ==
    IF character < 65536 THEN <<character>>
    ELSE <<1024 * 54 + (character - 65536) \div 1024,
           1024 * 55 + ((character - 65536) % 1024)>>

\* Whatever begins with an escape other than a second half becomes UTF-8 that
\* the validator of WebSocket++, and so a peer, takes for valid; and it is the
\* character whose UTF-16 the escapes are.  There are two exceptions: a second
\* half that stands alone is encoded and not valid, and a first half without a
\* second takes the escape after it with it and becomes some valid character.
EscapesValid ==
    \A unit, next \in Units :
        LET bytes == codePointToUTF8(decodeUnicodeCodePoint(unit, next))
        IN /\ StateAfter(bytes) = UTF8_ACCEPT <=> ~SecondHalf(unit)
           /\ ~SecondHalf(unit) /\ (FirstHalf(unit) => SecondHalf(next)) =>
                  Utf16(First(bytes)) =
                      IF FirstHalf(unit) THEN <<unit, next>> ELSE <<unit>>

=============================================================================
