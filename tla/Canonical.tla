------------------------------ MODULE Canonical -------------------------------
(***************************************************************************)
(* What Parse promises of the canonical form (parser.go:252-270).  A       *)
(* parser, which is reused after documents it read and documents it        *)
(* refused, reads one document and then another that may be the same: the  *)
(* second goes on as long as it writes what the first wrote or says what   *)
(* the first said.                                                         *)
(***************************************************************************)
EXTENDS Parser, FiniteSetsExt

VARIABLE first  \* the source, the canonical form and the meaning of the first

G == INSTANCE Grammar

allVars == <<vars, first>>

Second == first # <<>>

\* Bound: the documents a parser reads, one or two.
ASSUME DocumentsAssumption == \A c \in Calls : c.documents \in 1..2

Begins(s, t) == Len(s) <= Len(t) /\ SubSeq(t, 1, Len(s)) = s

\* The second document can be neither the first nor written like it.
Strays ==
  /\ ~Begins(buf, first[1].dst)
  /\ \A said \in G!Meaning(src, Ignore).beginnings, whole \in first[1].says :
       ~Begins(said, whole)

CanonicalInit == Init /\ first = <<>>

ReadOne == ~Second /\ Next /\ UNCHANGED first

\* Mutant: what a document that failed left in the buffer stays there.
NextKeepsBuffer ==
  /\ pc' = "DEFINITION" /\ src' = call.begins /\ eof' = FALSE /\ i' = 1
  /\ mute' = 0 /\ buf' = (IF e = "nil" THEN <<>> ELSE buf) /\ e' = "nil" /\ dst' = <<>>
  /\ stack' = <<>> /\ selDepth' = 0 /\ typeDepth' = 0
  /\ dirRet' = "selectionSet" /\ argRet' = "field" /\ valRet' = "argument"
  /\ constant' = FALSE
  /\ UNCHANGED call

\* Mutant: what a document that failed left on the stack stays there.
NextKeepsStack ==
  /\ pc' = "DEFINITION" /\ src' = call.begins /\ eof' = FALSE /\ i' = 1
  /\ mute' = 0 /\ buf' = <<>> /\ e' = "nil" /\ dst' = <<>>
  /\ UNCHANGED stack /\ selDepth' = 0 /\ typeDepth' = 0
  /\ dirRet' = "selectionSet" /\ argRet' = "field" /\ valRet' = "argument"
  /\ constant' = FALSE
  /\ UNCHANGED call

\* p.buf[:0] and p.stack[:0], whatever they hold; everything else is a variable of parse.
NextDocument ==
  /\ pc' = "DEFINITION" /\ src' = call.begins /\ eof' = FALSE /\ i' = 1
  /\ mute' = 0 /\ buf' = <<>> /\ e' = "nil" /\ dst' = <<>>
  /\ stack' = <<>> /\ selDepth' = 0 /\ typeDepth' = 0
  /\ dirRet' = "selectionSet" /\ argRet' = "field" /\ valRet' = "argument"
  /\ constant' = FALSE
  /\ UNCHANGED call

Reuse ==
  /\ ~Second /\ pc = "DONE" /\ e = "nil" /\ call.documents = 2
  /\ first' = <<[src |-> src, dst |-> dst, says |-> G!Document(src, Ignore)]>>
  /\ NextDocument

\* Documents that fail, to be read or to be written, may come before either of two.
ReuseAfterError ==
  /\ pc \in Stopped /\ e # "nil" /\ call.documents = 2
  /\ NextDocument
  /\ UNCHANGED first

ReadAnother ==
  /\ Second
  /\ \/ Step
     \/ ~Strays /\ Feed
  /\ UNCHANGED first

CanonicalNext == ReadOne \/ Reuse \/ ReuseAfterError \/ ReadAnother

CanonicalSpec == CanonicalInit /\ [][CanonicalNext]_allVars

-----------------------------------------------------------------------------
read == SubSeq(src, 1, i - 1)

IsDocument == G!Document(src, Ignore) # {}

\* Where a document would go on, or at the first token none goes on with.
FailsInTime ==
  LET before == G!Meaning(read, Ignore)
  IN /\ before.beginnings # {}
     /\ IF e = "ErrUnexpectedEOF"
        THEN before.document = {}
        ELSE src[i] \notin before.next

\* Parse reads the documents of the grammar and no others (parser.go:252), and its error
\* is at the first token that makes the source none, unless it nests too deep
\* (DepthHeld).
AcceptsGrammar ==
  /\ pc = "DONE" => IsDocument
  /\ pc = "ERROR" /\ e # "ErrTooDeep" /\ ~Second => FailsInTime

Count(s, tokens) == Len(SelectSeq(s, LAMBDA t : t \in tokens))

Pair == Second /\ pc = "DONE" /\ e = "nil"

\* Two spellings of one document have one canonical form: Ignored tokens,
\* descriptions, the query shorthand and what Ignore leaves out make no
\* difference (parser.go:169-206).
SameDocumentSameBytes ==
  Pair /\ G!Document(src, Ignore) = first[1].says => dst = first[1].dst

Adjacent(s, one, other) == \E k \in 1..Len(s) - 1 : s[k] = one /\ s[k + 1] = other

Defines(s, k) == k + 2 <= Len(s) /\ s[k] = "$" /\ s[k + 2] = ":"

\* Whether the variable definitions that one at k is among are over at n.
Over(s, k, n) == Count(SubSeq(s, k, n), {")"}) > Count(SubSeq(s, k, n), {"("})

\* The last of an operation's variable definitions has a directive.
LastDirected(s) ==
  \E k, n \in 1..Len(s) :
    /\ Defines(s, k) /\ k < n /\ Over(s, k, n) /\ ~Over(s, k, n - 1)
    /\ \E at \in k..n : s[at] = "@"
    /\ ~\E later \in k + 1..n : Defines(s, later)

\* No empty list, no empty input object, and no directive of a last variable.
Plain(tokens) ==
  LET s == G!Stripped(tokens)
  IN ~Adjacent(s, "[", "]") /\ ~Adjacent(s, "{", "}") /\ ~LastDirected(s)

\* Two documents with one canonical form are the same document, so allowing
\* one allows no other (parser.go:132-137).
SameBytesSameDocument ==
  Pair /\ dst = first[1].dst /\ Plain(src) /\ Plain(first[1].src) =>
    G!Document(src, Ignore) = first[1].says

\* Two sources have one canonical form just when they are one document
\* (parser.go:132-137, 169-206).
SameBytesJustForSame == SameDocumentSameBytes /\ SameBytesSameDocument

\* The same of every document, as parser.go:173-174 has it: "IgnoreNothing
\* keeps every input value and every variable.  Only formatting, comments and
\* descriptions are left out."
NothingElseLeftOut ==
  Pair /\ dst = first[1].dst => G!Document(src, Ignore) = first[1].says
==============================================================================
