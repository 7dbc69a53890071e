------------------------------- MODULE Scanner --------------------------------
(***************************************************************************)
(* parser/scan.go and the string values of parser/write.go, with           *)
(* internal/unicodeesc: what Parser takes for one token is read byte by    *)
(* byte, and what a string stands for is written with the bytes of the     *)
(* hash prefixes escaped.                                                  *)
(*                                                                         *)
(* A byte is its number.  A SourceCharacter of several bytes is its code   *)
(* point, a byte that breaks UTF-8 is Malformed.  The sources are spelled  *)
(* out spelling by spelling, for as long as the scanner asks for more; a   *)
(* spelling of a single-line string says what it stands for.               *)
(***************************************************************************)
EXTENDS Bytes, FiniteSetsExt

CONSTANT Sources  \* records: the kind of a token, what it may be spelled with, how often

\* A spelling has its bytes, and what it stands for in a string of one line: a code
\* point, half a pair, or NoCharacter.  Bound: max spellings.
ASSUME SourcesAssumption ==
  \A s \in Sources :
    /\ s.kind \in {"line", "block", "number", "ignored"}
    /\ s.max \in Nat
    /\ \A p \in s.spellings : p.bytes \in Seq(Int) /\ p.value \in Seq(Int)

VARIABLES
  source,  \* the source being read, or NoSource
  spelt    \* what it was spelled with so far

NoSource == [kind |-> "none", spellings |-> {}, max |-> 0]
kind == source.kind

\* No source character, and no character of a string.
Malformed == -2
NoCharacter == -1

NameStart == (65..90) \cup (97..122) \cup {95}
LineTerminators == {LF, CR}
WhiteSpace == {Tab, Space}

-----------------------------------------------------------------------------
lineTerminatorLen(s, i) ==
  IF hasPrefixAt(s, i, <<CR, LF>>) THEN 2 ELSE IF At(s, i, LineTerminators) THEN 1 ELSE 0

-----------------------------------------------------------------------------
(* Ignored tokens.                                                         *)

\* Mutant: a comment ends at a line feed only.
CommentStopsLess == {LF, Malformed}

CommentStops == LineTerminators \cup {Malformed}

RECURSIVE skipIgnorablesSlow(_, _)
skipIgnorablesSlow(s, i) ==
  IF At(s, i, WhiteSpace \cup LineTerminators \cup {Comma, BOM})
  THEN skipIgnorablesSlow(s, i + 1)
  ELSE IF At(s, i, {Hash}) THEN skipIgnorablesSlow(s, UpTo(s, i, CommentStops)) ELSE i

-----------------------------------------------------------------------------
(* Numbers.                                                                *)

\* Mutant: a number may be followed by a name.
NumberEndsLess(s, i) == ~At(s, i, Digits \cup {Dot})

NumberEnds(s, i) == ~At(s, i, Digits \cup {Dot} \cup NameStart)

scanNumber(s) ==
  LET first == IF At(s, 1, {Minus}) THEN 2 ELSE 1
      dot == IF At(s, first, {Zero}) THEN first + 1 ELSE Past(s, first, Digits)
      isDot == At(s, dot, {Dot})
      exp == IF isDot THEN Past(s, dot + 1, Digits) ELSE dot
      isExp == At(s, exp, {69, 101})
      power == IF At(s, exp + 1, {Minus, Plus}) THEN exp + 2 ELSE exp + 1
      end == IF isExp THEN Past(s, power, Digits) ELSE exp
      good == /\ At(s, first, Digits)
              /\ isDot => exp > dot + 1
              /\ isExp => end > power
              /\ NumberEnds(s, end)
  IN [err |-> IF good THEN "nil" ELSE "ErrMalformedNumber", end |-> end,
      isFloat |-> isDot \/ isExp]

-----------------------------------------------------------------------------
(* Strings of one line.                                                    *)

SimpleEscapes == {Quote, Backslash, Slash, 98, 102, 110, 114, 116}

HexEnd(s, i) == CHOOSE j \in i..Len(s) + 1 :
  (j > Len(s) \/ ~IsHexDigit(s[j])) /\ \A k \in i..j - 1 : IsHexDigit(s[k])

\* The length of the escape at s[i], EOF where the source ends in it, or 0.
EOF == -1

\* From the fixed-width escape at i: its length, or that of a pair.
FixedLen(s, i) ==
  LET v == Value(s, i + 2)
  IN IF i + 5 > Len(s) THEN EOF
     ELSE IF ~Hex4(s, i + 2) THEN 0
     ELSE IF ~IsLeadingSurrogate(v) THEN (IF IsScalarValue(v) THEN 6 ELSE 0)
     ELSE IF i + 6 > Len(s) THEN EOF
     ELSE IF s[i + 6] # Backslash THEN 0
     ELSE IF i + 7 > Len(s) THEN EOF
     ELSE IF s[i + 7] # 117 THEN 0
     ELSE IF i + 11 > Len(s) THEN EOF
     ELSE IF Hex4(s, i + 8) /\ IsTrailingSurrogate(Value(s, i + 8)) THEN 12 ELSE 0

BracedLen(s, i) ==
  LET j == HexEnd(s, i + 3)
  IN IF j > Len(s) THEN EOF
     ELSE IF j > i + 3 /\ s[j] = CloseBrace /\ IsScalarValue(HexValue(s, i + 3, j))
     THEN j + 1 - i
     ELSE 0

EscapeLen(s, i) ==
  IF i + 1 > Len(s) THEN EOF
  ELSE IF s[i + 1] \in SimpleEscapes THEN 2
  ELSE IF s[i + 1] # 117 THEN 0
  ELSE IF i + 2 > Len(s) THEN EOF
  ELSE IF s[i + 2] = OpenBrace THEN BracedLen(s, i) ELSE FixedLen(s, i)

\* From s[i] on; s begins after the opening quote, end is after the closing one.
RECURSIVE scanStringLine(_, _, _)
scanStringLine(s, i, esc) ==
  LET stop == UpTo(s, i, {Quote, Backslash, Malformed} \cup (0..31))
      len == EscapeLen(s, stop)
      Result(err, end) == [err |-> err, end |-> end, esc |-> esc]
  IN IF stop > Len(s) THEN Result("ErrUnexpectedEOF", stop)
     ELSE IF s[stop] = Quote THEN Result("nil", stop + 1)
     ELSE IF s[stop] = Malformed THEN Result("ErrMalformedUTF8", stop)
     ELSE IF s[stop] # Backslash THEN Result("ErrUnescapedControlChar", stop)
     ELSE IF len = EOF THEN Result("ErrUnexpectedEOF", stop)
     ELSE IF len = 0 THEN Result("ErrInvalidEscape", stop)
     ELSE scanStringLine(s, stop + len, TRUE)

-----------------------------------------------------------------------------
(* Block strings.                                                          *)

TripleQuote == <<Quote, Quote, Quote>>
EscapedTripleQuote == <<Backslash>> \o TripleQuote

\* Mutant: the line of the closing quotes counts.
IndentsAll(s, i) == i <= Len(s) /\ lineTerminatorLen(s, i) = 0

\* Whether the line whose indentation ends at i sets the common one.
Indents(s, i) ==
  i <= Len(s) /\ lineTerminatorLen(s, i) = 0 /\ ~hasPrefixAt(s, i, TripleQuote)

\* From s[i] on, with the common indentation of the lines so far, or none, and where
\* the content begins, or 0.
None == -1
RECURSIVE scanStringBlock(_, _, _, _)
scanStringBlock(s, i, prefixLen, content) ==
  LET seen == IF content = 0 THEN i ELSE content
      start == i + lineTerminatorLen(s, i)
      next == Past(s, start, WhiteSpace)
      Result(err, end) ==
        [err |-> err, end |-> end, prefixLen |-> IF prefixLen = None THEN 0 ELSE prefixLen,
         hasContent |-> content # 0 /\ content # i]
  IN IF i > Len(s) THEN Result("ErrUnexpectedEOF", i)
     ELSE IF hasPrefixAt(s, i, TripleQuote) THEN Result("nil", i + 3)
     ELSE IF hasPrefixAt(s, i, EscapedTripleQuote)
     THEN scanStringBlock(s, i + 4, prefixLen, seen)
     ELSE IF lineTerminatorLen(s, i) > 0
     THEN scanStringBlock(s, next,
            IF ~Indents(s, next) THEN prefixLen
            ELSE IF prefixLen = None THEN next - start ELSE Min({prefixLen, next - start}),
            IF content = 0 /\ next <= Len(s) /\ lineTerminatorLen(s, next) = 0
            THEN next ELSE content)
     ELSE IF s[i] \in WhiteSpace THEN scanStringBlock(s, i + 1, prefixLen, content)
     ELSE IF s[i] = Malformed THEN Result("ErrMalformedUTF8", i)
     ELSE scanStringBlock(s, i + 1, prefixLen, seen)

-----------------------------------------------------------------------------
(* What is written.                                                        *)

\* Tab, line feed and carriage return are no prefixes.
PrefixBytes == (0..31) \ {Tab, LF, CR}

\* Mutant: the last prefixes are forgotten.
StringEscapeLess == ((0..27) \ {Tab, LF, CR}) \cup {Backslash}

StringEscape == PrefixBytes \cup {Backslash}

\* Mutant: a backslash is named by itself, as U+001C is.
escSame(b) == IF b = Backslash THEN <<Backslash, Backslash>> ELSE <<Backslash, b + 64>>

esc(b) == IF b = Backslash THEN <<Backslash, Bar>> ELSE <<Backslash, b + 64>>

strByte(b) == IF b \in StringEscape THEN esc(b) ELSE <<b>>

SimpleValue(b) ==
  CASE b = 98 -> 8 [] b = 102 -> 12 [] b = 110 -> LF [] b = 114 -> CR [] b = 116 -> Tab
    [] OTHER -> b

\* The code point of the escape at s[i], which was validated.
EscapeValue(s, i) ==
  IF s[i + 1] # 117 THEN SimpleValue(s[i + 1])
  ELSE IF s[i + 2] = OpenBrace THEN HexValue(s, i + 3, HexEnd(s, i + 3))
  ELSE IF IsLeadingSurrogate(Value(s, i + 2))
  THEN SurrogatePair(Value(s, i + 2), Value(s, i + 8))
  ELSE Value(s, i + 2)

RECURSIVE Evaluated(_)
Evaluated(s) ==
  LET i == UpTo(s, 1, {Backslash})
  IN SubSeq(s, 1, i - 1) \o
       IF i > Len(s) THEN <<>>
       ELSE strByte(EscapeValue(s, i)) \o
              Evaluated(SubSeq(s, i + EscapeLen(s, i), Len(s)))

stringValue(s, escaped) == IF escaped THEN Evaluated(s) ELSE s

RECURSIVE blockStringLine(_)
blockStringLine(s) ==
  IF s = <<>> THEN <<>>
  ELSE IF hasPrefixAt(s, 1, EscapedTripleQuote)
  THEN TripleQuote \o blockStringLine(SubSeq(s, 5, Len(s)))
  ELSE strByte(s[1]) \o blockStringLine(Tail(s))

RECURSIVE trimEmptyLinesSuffix(_)
trimEmptyLinesSuffix(s) ==
  LET terminators == {k \in 1..Len(s) : s[k] \in LineTerminators}
      last == Max(terminators)
  IN IF terminators = {} \/ Past(s, last + 1, WhiteSpace) <= Len(s) THEN s
     ELSE trimEmptyLinesSuffix(
            SubSeq(s, 1, IF last > 1 /\ hasPrefixAt(s, last - 1, <<CR, LF>>)
                         THEN last - 2 ELSE last - 1))

\* The lines after the first, from the terminator at s[i] on.
RECURSIVE OtherLines(_, _, _, _, _)
OtherLines(s, i, prefixLen, contentSeen, firstLine) ==
  LET begin == i + lineTerminatorLen(s, i)
      start == Min({Past(s, begin, WhiteSpace), begin + prefixLen})
      end == UpTo(s, start, LineTerminators)
      blank == Past(s, start, WhiteSpace) >= end
  IN IF i > Len(s) THEN <<>>
     ELSE IF blank /\ ~contentSeen THEN OtherLines(s, end, prefixLen, FALSE, firstLine)
     ELSE (IF firstLine THEN <<>> ELSE <<LF>>) \o blockStringLine(SubSeq(s, start, end - 1))
            \o OtherLines(s, end, prefixLen, TRUE, FALSE)

blockStringValue(content, prefixLen) ==
  LET s == trimEmptyLinesSuffix(content)
      end == UpTo(s, 1, LineTerminators)
      blank == Past(s, 1, WhiteSpace) >= end
  IN (IF blank THEN <<>> ELSE blockStringLine(SubSeq(s, 1, end - 1)))
       \o OtherLines(s, end, prefixLen, ~blank, blank)

-----------------------------------------------------------------------------
text == FlattenSeq([n \in DOMAIN spelt |-> spelt[n].bytes])

scannedLine == scanStringLine(text, 1, FALSE)
scannedBlock == scanStringBlock(text, 1, None, 0)

\* The case of a string in the labels VALUE: what follows the prefix of a string value.
Written ==
  IF kind = "line" THEN stringValue(SubSeq(text, 1, scannedLine.end - 2), scannedLine.esc)
  ELSE IF scannedBlock.hasContent
  THEN blockStringValue(SubSeq(text, 1, scannedBlock.end - 4), scannedBlock.prefixLen)
  ELSE <<>>

\* Whether the scanner came to the end of the source and would read on.
Unfinished ==
  \/ kind = "line" /\ scannedLine.err = "ErrUnexpectedEOF"
  \/ kind = "block" /\ scannedBlock.err = "ErrUnexpectedEOF"
  \/ kind = "number" /\ scanNumber(text).end > Len(text)
  \/ kind = "ignored" /\ skipIgnorablesSlow(text, 1) > Len(text)

ScanInit == source \in Sources /\ spelt = <<>>

Spell ==
  /\ Unfinished
  /\ Len(spelt) < source.max
  /\ \E p \in source.spellings : spelt' = Append(spelt, p)
  /\ UNCHANGED source

-----------------------------------------------------------------------------
(* What the specification of GraphQL says of the same bytes.               *)

\* A single-line string stands for what its spellings stand for, where two surrogates
\* in a row are one character.
Units == FlattenSeq([n \in DOMAIN spelt |-> spelt[n].value])

Closed == kind = "line" /\ spelt # <<>> /\ Last(spelt).bytes = <<Quote>>

Body == IF Closed THEN Front(Units) ELSE Units

\* It may become a string, if it ends in half a pair by the other half.
Sound ==
  \A n \in DOMAIN Body :
    /\ Body[n] # NoCharacter
    /\ IsLeadingSurrogate(Body[n]) /\ n < Len(Body) => IsTrailingSurrogate(Body[n + 1])
    /\ IsTrailingSurrogate(Body[n]) => n > 1 /\ IsLeadingSurrogate(Body[n - 1])

LineIsString ==
  Closed /\ Sound /\ (Body # <<>> => ~IsLeadingSurrogate(Last(Body)))

LineValue ==
  LET Character(n) ==
        IF IsTrailingSurrogate(Body[n]) THEN <<>>
        ELSE IF IsLeadingSurrogate(Body[n]) THEN <<SurrogatePair(Body[n], Body[n + 1])>>
        ELSE <<Body[n]>>
  IN FlattenSeq([n \in DOMAIN Body |-> Character(n)])

\* A block string ends at the first three quotes that are not escaped.
Escapes == {k \in DOMAIN text : hasPrefixAt(text, k, EscapedTripleQuote)}
Closings ==
  {k \in DOMAIN text : hasPrefixAt(text, k, TripleQuote)
                         /\ ~\E m \in Escapes : k \in m..m + 3}

WellFormed == \A k \in 1..Min(Closings \cup {Len(text) + 1}) - 1 : text[k] # Malformed

BlockIsString == Closings # {} /\ WellFormed

\* The characters before the end, without the backslashes of its escapes.
RawValue ==
  FlattenSeq([k \in 1..Min(Closings) - 1 |-> IF k \in Escapes THEN <<>> ELSE <<text[k]>>])

InOrder(set) ==
  [n \in 1..Cardinality(set) |-> CHOOSE k \in set : Cardinality({m \in set : m <= k}) = n]

\* The lines of a raw value.
LinesOf(s) ==
  LET ends == {k \in DOMAIN s : s[k] = LF \/ (s[k] = CR /\ ~At(s, k + 1, {LF}))}
      starts == InOrder({1} \cup {k + 1 : k \in ends})
  IN [n \in DOMAIN starts |->
        SubSeq(s, starts[n], UpTo(s, starts[n], LineTerminators) - 1)]

Indent(l) == Past(l, 1, WhiteSpace) - 1
Blank(l) == Indent(l) = Len(l)

\* BlockStringValue(rawValue)
BlockValue ==
  LET lines == LinesOf(RawValue)
      indents == {Indent(lines[n]) : n \in {m \in 2..Len(lines) : ~Blank(lines[m])}}
      common == IF indents = {} THEN 0 ELSE Min(indents)
      formatted == [n \in DOMAIN lines |->
                      IF n = 1 THEN lines[n]
                      ELSE SubSeq(lines[n], common + 1, Len(lines[n]))]
      full == {n \in DOMAIN lines : ~Blank(lines[n])}
      kept == SubSeq(formatted, Min(full), Max(full))
  IN IF full = {} THEN <<>>
     ELSE FlattenSeq([n \in DOMAIN kept |-> IF n = 1 THEN kept[n] ELSE <<LF>> \o kept[n]])

\* What the canonical form says: an escape names the byte it stands for.
RECURSIVE ReadBack(_)
ReadBack(w) ==
  IF w = <<>> THEN <<>>
  ELSE IF w[1] # Backslash THEN <<w[1]>> \o ReadBack(Tail(w))
  ELSE <<IF w[2] = Bar THEN Backslash ELSE w[2] - 64>> \o ReadBack(SubSeq(w, 3, Len(w)))

IsInt(s) ==
  LET digits == IF At(s, 1, {Minus}) THEN Tail(s) ELSE s
  IN /\ digits # <<>> /\ \A n \in DOMAIN digits : digits[n] \in Digits
     /\ digits[1] = Zero => Len(digits) = 1

IsFraction(s) == Len(s) > 1 /\ s[1] = Dot /\ \A n \in 2..Len(s) : s[n] \in Digits

IsExponent(s) ==
  LET digits == SubSeq(s, IF At(s, 2, {Minus, Plus}) THEN 3 ELSE 2, Len(s))
  IN /\ At(s, 1, {69, 101})
     /\ digits # <<>> /\ \A n \in DOMAIN digits : digits[n] \in Digits

IsFloat(s) ==
  \E m, n \in 0..Len(s) :
    LET fraction == SubSeq(s, m + 1, n)
        exponent == SubSeq(s, n + 1, Len(s))
    IN /\ m <= n /\ m < Len(s)
       /\ IsInt(SubSeq(s, 1, m))
       /\ fraction = <<>> \/ IsFraction(fraction)
       /\ exponent = <<>> \/ IsExponent(exponent)

\* The numbers a source begins with: the bytes of each, and what follows is no part
\* of a number or a name.
NumbersAtStart ==
  {n \in 1..Len(text) :
     /\ IsInt(SubSeq(text, 1, n)) \/ IsFloat(SubSeq(text, 1, n))
     /\ ~At(text, n + 1, Digits \cup NameStart \cup {Dot})}

\* The bytes that are ignored if all before them are.
Skipped(k) ==
  \/ text[k] \in WhiteSpace \cup LineTerminators \cup {Comma, BOM}
  \/ \E m \in 1..k :
       text[m] = Hash /\ \A n \in m..k : text[n] \notin LineTerminators \cup {Malformed}

-----------------------------------------------------------------------------
\* A string is accepted where the grammar has one, and nothing that may still become one
\* fails but for its end (scan.go:317-322, 477-483).
StringsOfTheGrammar ==
  /\ kind = "line" =>
       /\ scannedLine.err = "nil" <=> LineIsString
       /\ ~Closed /\ Sound => scannedLine.err = "ErrUnexpectedEOF"
  /\ kind = "block" =>
       /\ scannedBlock.err = "nil" <=> BlockIsString
       /\ Closings = {} /\ WellFormed => scannedBlock.err = "ErrUnexpectedEOF"

\* A string that was read.
IsRead ==
  (kind = "line" /\ scannedLine.err = "nil") \/ (kind = "block" /\ scannedBlock.err = "nil")

\* The bytes of a string value say which value it was, however it was spelled: escaped or
\* not, of one line or as a block, indented and broken into lines in whichever way
\* (write.go:150-160, 215-223).
ValueReadsBack ==
  IsRead => ReadBack(Written) = IF kind = "line" THEN LineValue ELSE BlockValue

\* No byte of a string value looks like a hash prefix (write.go:124-126, scan.go:685-687).
NoPrefixInside ==
  IsRead => \A n \in DOMAIN Written : Written[n] \notin PrefixBytes

\* A string value is kept apart from any other and from what follows it
\* (write.go:124-126, 150-160).
ValuesKeptApart == ValueReadsBack /\ NoPrefixInside

\* A number is read to its end, is an IntValue or a FloatValue as the grammar says, and
\* runs into nothing that would continue it (scan.go:255-263).
NumbersOfTheGrammar ==
  kind = "number" /\ At(text, 1, Digits \cup {Minus}) =>
    LET n == scanNumber(text)
    IN /\ n.err = "nil" <=> NumbersAtStart # {}
       /\ n.err = "nil" => /\ NumbersAtStart = {n.end - 1}
                           /\ n.isFloat <=> IsFloat(SubSeq(text, 1, n.end - 1))

\* What is skipped is ignored, and all that is (scan.go:112-126).
SkipsTheIgnored ==
  kind = "ignored" =>
    LET end == skipIgnorablesSlow(text, 1)
    IN (\A k \in 1..end - 1 : Skipped(k)) /\ (end > Len(text) \/ ~Skipped(end))

\* Byte by byte a token is read as the grammar has it, and so is what stands between two
\* (scan.go:112-126, 255-263, 317-322, 477-483).
ScansTheGrammar == StringsOfTheGrammar /\ NumbersOfTheGrammar /\ SkipsTheIgnored
==============================================================================
