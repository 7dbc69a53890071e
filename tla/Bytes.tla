-------------------------------- MODULE Bytes ---------------------------------
(***************************************************************************)
(* Bytes by their number, searching in a sequence of them, and the         *)
(* hexadecimal escapes of internal/unicodeesc.                             *)
(***************************************************************************)
EXTENDS Integers, Sequences, SequencesExt

Tab == 9
LF == 10
CR == 13
Space == 32
Quote == 34
Hash == 35
Plus == 43
Comma == 44
Minus == 45
Dot == 46
Slash == 47
Zero == 48
Backslash == 92
Bar == 124
OpenBrace == 123
CloseBrace == 125
BOM == 65279

Digits == 48..57

-----------------------------------------------------------------------------
At(s, i, set) == i <= Len(s) /\ s[i] \in set

hasPrefixAt(s, i, p) == i + Len(p) - 1 <= Len(s) /\ SubSeq(s, i, i + Len(p) - 1) = p

\* The first byte from i on that is in set, or the end.
UpTo(s, i, set) ==
  CHOOSE j \in i..Len(s) + 1 :
    (j > Len(s) \/ s[j] \in set) /\ \A k \in i..j - 1 : s[k] \notin set

\* The first byte from i on that is not in set, or the end.
Past(s, i, set) ==
  CHOOSE j \in i..Len(s) + 1 :
    (j > Len(s) \/ s[j] \notin set) /\ \A k \in i..j - 1 : s[k] \in set

-----------------------------------------------------------------------------
(* unicodeesc.                                                             *)

IsHexDigit(b) == b \in Digits \cup (65..70) \cup (97..102)

DigitValue(b) ==
  IF b \in Digits THEN b - 48 ELSE IF b \in 97..102 THEN b - 97 + 10 ELSE b - 65 + 10

\* The value of hexadecimal digits, which is not taken beyond range.
HexOf(digits) ==
  FoldLeft(LAMBDA v, b : IF v > 1114111 THEN v ELSE 16 * v + DigitValue(b), 0, digits)

\* Of those from i up to j.
HexValue(s, i, j) == HexOf(SubSeq(s, i, j - 1))

Hex4(s, i) == i + 3 <= Len(s) /\ \A k \in i..i + 3 : IsHexDigit(s[k])
Value(s, i) == HexValue(s, i, i + 4)

IsLeadingSurrogate(v) == v \in 55296..56319
IsTrailingSurrogate(v) == v \in 56320..57343
\* Mutant: half a pair is a character.
IsInRange(v) == v <= 1114111
IsScalarValue(v) == v <= 1114111 /\ v \notin 55296..57343
SurrogatePair(leading, trailing) == 65536 + (leading - 55296) * 1024 + (trailing - 56320)
==============================================================================
