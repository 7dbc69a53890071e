----------------------------- MODULE MCDecision -----------------------------
(* Requests of every shape, and parts of them piece by piece. *)
EXTENDS Wire, TLC

CONSTANTS g, h, bad, deep, esc, r1

MCDocuments == {g, h, bad, deep, esc}
MCClass == g :> "ok" @@ h :> "ok" @@ bad :> "syntax" @@ deep :> "deep" @@ esc :> "escape"

SeqsUpTo(S, n) == UNION {[1..k -> S] : k \in 0..n}

Shape(method, query, size, arrives, raw, batch, elems, cut) ==
  [method |-> method, query |-> query, size |-> size, arrives |-> arrives, raw |-> raw,
   batch |-> batch, elems |-> elems, cut |-> cut]

\* A body of one byte stands for every body that fits.
Gets == {Shape("GET", q, n, TRUE, FALSE, FALSE, <<>>, TRUE) :
           q \in SeqsUpTo(MCDocuments, 2), n \in 0..3}

Others == {Shape("other", <<>>, n, a, TRUE, FALSE, << <<g>> >>, FALSE) :
             n \in 0..3, a \in BOOLEAN}

Raws == {Shape("POST", q, n, a, TRUE, FALSE, << <<d>> >>, FALSE) :
           q \in SeqsUpTo({g}, 1), n \in 1..3, a \in BOOLEAN, d \in MCDocuments}

Lone == {Shape("POST", q, n, TRUE, FALSE, FALSE, <<m>>, c) :
           q \in SeqsUpTo({h}, 1), n \in 1..3, m \in SeqsUpTo(MCDocuments \cup {NotString}, 2),
           c \in BOOLEAN}

Batches == {Shape("POST", <<>>, 1, TRUE, FALSE, TRUE, e, c) :
              e \in SeqsUpTo({<<>>, <<g>>, <<h>>, <<bad>>, <<esc>>, <<NotString>>, <<g, h>>,
                          <<NotString, g>>}, 3),
              c \in BOOLEAN}

AllShapes == Gets \cup Others \cup Raws \cup Lone \cup Batches

OneRequest == {r1}

-----------------------------------------------------------------------------
Piece(b, v) == [bytes |-> b, value |-> v]
Same(b) == Piece(b, b)
Escaped(a, b, v) == Piece(<<Percent, a, b>>, <<v>>)

QueryPieces ==
  {Same(Name), Same(SubSeq(Name, 1, 4)), Escaped(55, 57, 121), Piece(<<Equals>>, <<-Equals>>),
   Piece(<<And>>, <<-And>>), Piece(<<Semicolon>>, <<-Semicolon>>),
   Piece(<<Plus>>, <<Space>>), Escaped(51, 66, Semicolon), Piece(<<Percent, 55>>, <<-1>>)}

\* key, a;query=a, quer%79
MCUpstreams ==
  {<<107>>, <<97, Semicolon>> \o Name \o <<Equals, 97>>, Name,
   SubSeq(Name, 1, 4) \o <<Percent, 55, 57>>, SubSeq(Name, 1, 4)}

Hex(a, b, c, d) == <<Backslash, 117, a, b, c, d>>

MemberPieces ==
  {Same(SubSeq(Name, 1, 3)), Same(<<114>>), Same(<<82>>), Same(<<121>>),
   Piece(Hex(48, 48, 55, 49) \o Hex(48, 48, 53, 53) \o Hex(48, 48, 54, 53), <<113, 85, 101>>),
   Piece(Hex(48, 48, 55, 50), <<114>>), Piece(Hex(48, 48, 53, 57), <<89>>),
   Piece(<<Backslash, 110>>, <<LF>>), Piece(<<Backslash, Slash>>, <<Slash>>),
   Piece(Hex(68, 56, 51, 68), <<55357>>), Piece(Hex(100, 101, 48, 48), <<56832>>),
   Piece(Hex(48, 48, 101, 57), <<233>>), Piece(<<195, 169>>, <<233>>)}

MCTexts ==
  {[kind |-> "query", pieces |-> QueryPieces, max |-> 5],
   [kind |-> "member", pieces |-> MemberPieces, max |-> 4]}

Plain == {"Upgrade", "Keep-Alive", "Expect", "X-Api-Key", "Forwarded", "X-Forwarded-Proto"}

MCLines ==
  [n \in Plain |-> {"client"}]
    @@ "Connection" :> SUBSET {"Upgrade", "X-Api-Key", "X-Forwarded-For", "Te"}
    @@ "Te" :> {"trailers", "gzip"}
    @@ "X-Forwarded-For" :> {<<"client">>, <<"client", "balancer">>}
    @@ "X-Forwarded-Host" :> {"client", "other"}
==============================================================================
