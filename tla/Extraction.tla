------------------------------ MODULE Extraction ------------------------------
(***************************************************************************)
(* internal/app/proxy/extract.go on bytes: what Decision takes for the     *)
(* documents of a query string, for a member named query and for a         *)
(* document is read here out of text.                                      *)
(*                                                                         *)
(* The text grows piece by piece.  A piece has its bytes and says what     *)
(* they mean to who decodes them: a byte, half a surrogate pair, or a mark *)
(* for what separates.                                                     *)
(***************************************************************************)
EXTENDS Bytes

CONSTANTS
  Texts,      \* records: the kind of a text, its pieces, how many it has
  Upstreams   \* query strings an -upstream.url may carry

ASSUME UpstreamsAssumption == Upstreams \subseteq Seq(Nat)

VARIABLES
  text,    \* the kind of text being read, or NoText
  length,  \* how many pieces it has so far
  bytes,   \* theirs
  meant    \* and what they mean, one after the other

NoText == [kind |-> "none", pieces |-> {}, max |-> 0]

And == 38
Semicolon == 59
Equals == 61
Percent == 37

\* The five letters of query.
Name == <<113, 117, 101, 114, 121>>

\* From the first of n on, what each step says, and then what the one it goes on at does.
Gathered(n, step) ==
  LET From[i \in Nat] == IF i \in 1..n THEN step[i][1] \o From[step[i][2]] ELSE <<>>
  IN From[1]

-----------------------------------------------------------------------------
(* Query strings.                                                          *)

BadEscape == -1  \* an escape that is none

Bad(s) == Contains(s, BadEscape)

\* What s says at i, and where it goes on.
DecodedAt(s, i) ==
  IF s[i] = Plus THEN <<<<Space>>, i + 1>>
  ELSE IF s[i] # Percent THEN <<<<s[i]>>, i + 1>>
  ELSE IF i + 2 > Len(s) \/ ~IsHexDigit(s[i + 1]) \/ ~IsHexDigit(s[i + 2])
  THEN <<<<BadEscape>>, Len(s) + 1>>
  ELSE <<<<16 * DigitValue(s[i + 1]) + DigitValue(s[i + 2])>>, i + 3>>

urlDecoded(s) == Gathered(Len(s), [i \in DOMAIN s |-> DecodedAt(s, i)])

\* Mutant: a name is compared as it is spelled.
isRawParam(key) == key = Name

isQueryParam(key) == urlDecoded(key) = Name

\* Mutant: Go's separators.
AndOnly == {And}

Separators == {And, Semicolon}

\* A pair begins with the query and after each separator.
Begins(rawQuery) == {b \in DOMAIN rawQuery : b = 1 \/ rawQuery[b - 1] \in Separators}
Pair(rawQuery, b) == SubSeq(rawQuery, b, UpTo(rawQuery, b, Separators) - 1)

KeyOf(pair) == SubSeq(pair, 1, UpTo(pair, 1, {Equals}) - 1)
ValueOf(pair) == SubSeq(pair, UpTo(pair, 1, {Equals}) + 1, Len(pair))

\* Where the pairs named query begin.
QueryBegins(rawQuery) == {b \in Begins(rawQuery) : isQueryParam(KeyOf(Pair(rawQuery, b)))}

extractQueryParam(rawQuery) ==
  LET named == QueryBegins(rawQuery)
      value == urlDecoded(ValueOf(Pair(rawQuery, CHOOSE b \in named : TRUE)))
  IN CASE named = {} -> [err |-> "errNoQuery", value |-> <<>>]
       [] \E b, c \in named : b # c -> [err |-> "errDuplicateQuery", value |-> <<>>]
       [] OTHER -> IF Bad(value) THEN [err |-> "errInvalidEscape", value |-> <<>>]
                   ELSE [err |-> "nil", value |-> value]

\* Mutant: a parameter without a value is none.
hasValuedParam(rawQuery) ==
  \E b \in QueryBegins(rawQuery) : Contains(Pair(rawQuery, b), Equals)

hasQueryParam(rawQuery) == QueryBegins(rawQuery) # {}

\* Mutant: the two are written one after the other.
mergeUnseparated(upstream, client) == upstream \o client

mergeQuery(upstream, client) ==
  IF upstream = <<>> THEN client
  ELSE IF client = <<>> THEN upstream
  ELSE upstream \o <<And>> \o client

-----------------------------------------------------------------------------
(* JSON strings.                                                           *)

\* The bytes of a character: one leads, and one follows it for each six bits more.
LeadByte(mark, v, n) == mark + (v \div n)
NextByte(v, n) == 128 + ((v \div n) % 64)

\* utf8.AppendRune: what is no character becomes the replacement character.
utf8(v) ==
  IF v < 128 THEN <<v>>
  ELSE IF v < 2048 THEN <<LeadByte(192, v, 64), NextByte(v, 1)>>
  ELSE IF ~IsScalarValue(v) THEN <<239, 191, 189>>
  ELSE IF v < 65536 THEN <<LeadByte(224, v, 4096), NextByte(v, 64), NextByte(v, 1)>>
  ELSE <<LeadByte(240, v, 262144), NextByte(v, 4096), NextByte(v, 64), NextByte(v, 1)>>

SingleEscape(b) ==
  CASE b = 98 -> 8 [] b = 102 -> 12 [] b = 110 -> LF [] b = 114 -> CR [] b = 116 -> Tab
    [] OTHER -> b

\* Mutant: any escape is taken for the other half.
TrailAtAny(s, i) == hasPrefixAt(s, i, <<Backslash, 117>>) /\ Hex4(s, i + 2)

TrailAt(s, i) ==
  /\ hasPrefixAt(s, i, <<Backslash, 117>>)
  /\ Hex4(s, i + 2)
  /\ IsTrailingSurrogate(Value(s, i + 2))

UnescapedAt(s, i) ==
  LET v == Value(s, i + 2)
  IN IF s[i] # Backslash THEN <<<<s[i]>>, i + 1>>
     ELSE IF s[i + 1] # 117 THEN <<<<SingleEscape(s[i + 1])>>, i + 2>>
     ELSE IF ~IsLeadingSurrogate(v) THEN <<utf8(v), i + 6>>
     ELSE IF TrailAt(s, i + 6) THEN <<utf8(SurrogatePair(v, Value(s, i + 8))), i + 12>>
     ELSE <<<<BadEscape>>, Len(s) + 1>>

Unescaped(s) == Gathered(Len(s), [i \in DOMAIN s |-> UnescapedAt(s, i)])

\* Of the contents of a JSON string, whose escapes jscan validated.
unescapeJSON(s) ==
  LET value == Unescaped(s)
  IN IF Bad(value) THEN [err |-> "errInvalidEscape", value |-> <<>>]
     ELSE [err |-> "nil", value |-> value]

\* b|0x20
Lowered(b) == IF (b \div 32) % 2 = 0 THEN b + 32 ELSE b

Spells(name) == Len(name) = 5 /\ \A n \in 1..5 : Lowered(name[n]) = Name[n]

\* Mutant: a name is read as it is spelled.
isPlainKey(name) == Spells(name)

isQueryKey(name) ==
  \/ Spells(name)
  \/ /\ Len(name) \in 6..30 /\ (Len(name) - 5) % 5 = 0
     /\ Contains(name, Backslash)
     /\ Spells(unescapeJSON(name).value)

-----------------------------------------------------------------------------
(* How a value is spelled in s from i up to j, that of a mark as its       *)
(* negative.                                                               *)

Marks == {And, Semicolon, Equals}

InQuery(s, i, j, v) ==
  \/ j = i + 1 /\ s[i] = v /\ v \notin Marks \cup {Percent, Plus}
  \/ j = i + 1 /\ s[i] \in Marks /\ v = -s[i]
  \/ j = i + 1 /\ s[i] = Plus /\ v = Space
  \/ /\ j = i + 3 /\ s[i] = Percent /\ IsHexDigit(s[i + 1]) /\ IsHexDigit(s[i + 2])
     /\ v = 16 * DigitValue(s[i + 1]) + DigitValue(s[i + 2])
  \/ /\ j \in i + 1..i + 2 /\ s[i] = Percent /\ v = BadEscape
     /\ j = i + 2 => IsHexDigit(s[i + 1])
     /\ j <= Len(s) => ~IsHexDigit(s[j])

InMember(s, i, j, v) ==
  /\ v \in Nat
  /\ \/ IsScalarValue(v) /\ v \notin {Quote, Backslash} /\ SubSeq(s, i, j - 1) = utf8(v)
     \/ /\ j = i + 2 /\ s[i] = Backslash
        /\ <<s[i + 1], v>> \in {<<Quote, Quote>>, <<Backslash, Backslash>>, <<Slash, Slash>>,
                               <<98, 8>>, <<102, 12>>, <<110, LF>>, <<114, CR>>, <<116, Tab>>}
     \/ /\ j = i + 6 /\ s[i] = Backslash /\ s[i + 1] = 117
        /\ Hex4(s, i + 2) /\ v = Value(s, i + 2)

\* s spells what is said, the n-th from pos[n] up to the next.
Spelled(kind, s, said, pos) ==
  /\ pos \in [1..Len(said) + 1 -> 1..Len(s) + 1]
  /\ pos[1] = 1 /\ pos[Len(said) + 1] = Len(s) + 1
  /\ \A n \in 1..Len(said) : \A k \in n + 1..Len(said) + 1 : pos[n] < pos[k]
  /\ \A n \in 1..Len(said) :
       \/ kind = "query" /\ InQuery(s, pos[n], pos[n + 1], said[n])
       \/ kind = "member" /\ InMember(s, pos[n], pos[n + 1], said[n])

\* Bound: max pieces.
ASSUME TextsAssumption ==
  \A t \in Texts :
    /\ t.kind \in {"query", "member"} /\ t.max \in Nat
    /\ \A p \in t.pieces :
         /\ p.bytes \in Seq(Nat) /\ p.value \in Seq(Int)
         /\ \E pos \in [1..Len(p.value) + 1 -> 1..Len(p.bytes) + 1] :
              Spelled(t.kind, p.bytes, p.value, pos)

-----------------------------------------------------------------------------
NothingRead == length = 0 /\ bytes = <<>> /\ meant = <<>>

TextInit == text \in Texts /\ NothingRead

\* What comes next may have an escape that is none turn into one.
Completes(next) ==
  /\ text.kind = "query" /\ Len(meant) > 0 /\ meant[Len(meant)] = BadEscape
  /\ Len(next) > 0 /\ IsHexDigit(next[1])

Continue ==
  /\ length < text.max
  /\ length' = length + 1
  /\ \E p \in text.pieces :
       /\ ~Completes(p.bytes)
       /\ bytes' = bytes \o p.bytes /\ meant' = meant \o p.value
  /\ UNCHANGED text

-----------------------------------------------------------------------------
(* What an API reads.                                                      *)

\* In what a query string means, the negative of a separator is where it separates.  A
\* parameter begins at the begin and after each, and has a name and a document.
Params(seps) ==
  LET marks == {-b : b \in seps}
      Param(b) ==
        LET part == SubSeq(meant, b, UpTo(meant, b, marks) - 1)
            eq == UpTo(part, 1, {-Equals})
        IN [begins |-> b, name |-> SubSeq(part, 1, eq - 1),
            document |-> [n \in 1..Len(part) - eq |->
                            IF part[eq + n] = -Equals THEN Equals ELSE part[eq + n]]]
  IN {Param(b) : b \in {1} \cup {n + 1 : n \in {m \in DOMAIN meant : meant[m] \in marks}}}

\* To an API that splits on both, to one that splits on & and takes a ; for a byte as any,
\* and to one as Go is, which splits on & and drops a part with a ;.
ReadByBoth == {p \in Params(Separators) : p.name = Name}
ReadByAmp == {p \in Params({And}) : p.name = Name}
ReadByGo ==
  {p \in ReadByAmp : ~Contains(p.document, -Semicolon) /\ ~Bad(p.document)}

UpToSemicolon(document) == SubSeq(document, 1, UpTo(document, 1, {-Semicolon}) - 1)

\* What encoding/json makes of a string: a half without its other is no character.
Paired(n) ==
  n < Len(meant) /\ IsLeadingSurrogate(meant[n]) /\ IsTrailingSurrogate(meant[n + 1])

DecodedByGo ==
  Gathered(Len(meant), [n \in DOMAIN meant |->
    IF Paired(n) THEN <<utf8(SurrogatePair(meant[n], meant[n + 1])), n + 2>>
    ELSE <<utf8(meant[n]), n + 1>>])

HalfAlone == \E n \in DOMAIN meant : IsLeadingSurrogate(meant[n]) /\ ~Paired(n)

-----------------------------------------------------------------------------
\* The document of a GET is the one that is read by an API that splits on ; as well, and by
\* one that drops a part with a ;.  Of two that APIs may choose between the request is
\* refused, and one that is missing is missing for those that split (extract.go:288-300,
\* 418-422).  To an API that splits on & and keeps the ; it is no more than the begin of
\* the document, up to the first ; that is not escaped.
ReadsWhatApisRead ==
  text.kind = "query" =>
    LET read == extractQueryParam(bytes)
        both == ReadByBoth
    IN /\ read.err = "errNoQuery" <=> both = {}
       /\ read.err = "errDuplicateQuery" <=> \E p, q \in both : p # q
       /\ read.err = "nil" =>
            /\ \A p \in both \cup ReadByGo : p.document = read.value
            /\ \A p \in ReadByAmp : UpToSemicolon(p.document) = read.value

\* An upstream query that the proxy starts with adds no document to a client's and
\* takes none away (extract.go:369-371).
MergeKeepsTheDocument ==
  text.kind = "query" =>
    LET client == bytes
        read == extractQueryParam(client)
    IN \A upstream \in Upstreams :
         ~hasQueryParam(upstream) => extractQueryParam(mergeQuery(upstream, client)) = read

\* A member is the query in every spelling that a decoder takes for it, and in no other
\* (extract.go:235-249).
MemberAsDecoded ==
  text.kind = "member" =>
    (isQueryKey(bytes) <=> [n \in DOMAIN DecodedByGo |-> Lowered(DecodedByGo[n])] = Name)

\* The document that is looked up is the one encoding/json would decode, but one with
\* half a pair, which is refused (extract.go:168-170, 212-224).
DocumentAsDecoded ==
  text.kind = "member" =>
    LET read == unescapeJSON(bytes) IN
      /\ read.err = "errInvalidEscape" <=> HalfAlone
      /\ read.err = "nil" => read.value = DecodedByGo

\* What is looked up is what the API behind the proxy reads, from a query string, of an API
\* that does not keep a ; in a parameter, as from a body (extract.go:168-170, 235-249,
\* 288-312, 369-371).
ReadAsApisRead ==
  ReadsWhatApisRead /\ MergeKeepsTheDocument /\ MemberAsDecoded /\ DocumentAsDecoded
==============================================================================
