--------------------------------- MODULE Wire ---------------------------------
(***************************************************************************)
(* A request as the proxy reads and writes it: its shape, decided and      *)
(* looked up, or one part of its bytes, read by Extraction, or its headers *)
(* on their way upstream.                                                  *)
(***************************************************************************)
EXTENDS Decision, Extraction, Headers

CONSTANT Lines  \* by name, what a line of a header may say

\* An address is a string.
ASSUME AddressesAssumption ==
  /\ Peer \in STRING
  /\ "X-Forwarded-For" \in DOMAIN Lines => Lines["X-Forwarded-For"] \subseteq Seq(STRING)

\* Bound: lines of a request, of one name or of several.
MaxLines == 4

VARIABLES
  header,  \* the headers of the request that came, by name, line by line
  trust    \* -trust-forwarded

partVars == <<text, length, bytes, meant, header, trust>>

NoHeaders == [n \in {} |-> "none"]

\* One part grows while no request is decided, and no request looks like anything then.
AShape == CHOOSE s \in Shapes : TRUE
AnImpl == CHOOSE i \in Impls : TRUE
NoRequest == \A r \in Requests : shape[r] = AShape /\ impl[r] = AnImpl

WireInit ==
  /\ Init
  /\ header = NoHeaders
  /\ \/ text = NoText /\ NothingRead /\ trust = FALSE
     \/ NoRequest /\ TextInit /\ trust = FALSE
     \/ /\ NoRequest /\ text = [NoText EXCEPT !.kind = "header"] /\ NothingRead
        /\ trust \in BOOLEAN

AddHeader ==
  /\ text.kind = "header"
  /\ Cardinality(UNION {{n} \X DOMAIN header[n] : n \in DOMAIN header}) < MaxLines
  /\ \E n \in DOMAIN Lines : \E v \in Lines[n] : header' = Add(header, n, v)
  /\ UNCHANGED <<text, length, bytes, meant, trust>>

WireNext ==
  \/ text = NoText /\ Next /\ UNCHANGED partVars
  \/ Continue /\ UNCHANGED <<vars, header, trust>>
  \/ AddHeader /\ UNCHANGED vars

WireSpec == WireInit /\ [][WireNext]_<<vars, partVars>>

-----------------------------------------------------------------------------
\* What a Connection line after the first names, and the first does not.
NamedLater == NamedByConnection(header) \ NamedByFirst(header)

\* Both implementations forward the same headers (proxyfast.go:684-686, 741-746) but for
\* two things, and for no other.  Only net/http offers trailers again; only fasthttp sends
\* on what a Connection line after the first names, which it does not read
\* (proxyfast.go:712).
SameHeadersUpstream ==
  LET fast == Fast(header, trust)
      net == Rewrite(header, trust)
  IN /\ Del(net, {"Te"}) = Del(fast, NamedLater \ Forwarding)
     /\ "Te" \in DOMAIN net => net["Te"] = <<"trailers">>

\* What belongs to the client's connection ends at it: neither a header of that kind nor
\* one that Connection names is forwarded, unless it is the proxy's own word, and no
\* upgrade and no expectation is (proxy.go:255-266, proxyfast.go:700-710).  With fasthttp
\* that is what the first Connection line names.
ConnectionStaysHere ==
  /\ DOMAIN Rewrite(header, trust) \cap
       (NamedByConnection(header) \cup hopByHopHeaders \cup {"Expect"})
         \subseteq Forwarding \cup {"Te"}
  /\ DOMAIN Fast(header, trust) \cap
       (NamedByFirst(header) \cup hopByHopHeaders \cup {"Expect"}) \subseteq Forwarding

\* The last address is the one the request came from, and without -trust-forwarded no
\* forwarding header says anything that the client chose (proxy.go:778-785).
PeerSpeaksLast ==
  \A out \in {Fast(header, trust), Rewrite(header, trust)} :
    LET addresses == First(out, "X-Forwarded-For", <<>>) IN
      /\ "Forwarded" \notin DOMAIN out
      /\ \A n \in Forwarding \ {"Forwarded"} : Len(LinesOf(out, n)) = 1
      /\ addresses[Len(addresses)] = Peer
      /\ ~trust => /\ Len(addresses) = 1
                   /\ out["X-Forwarded-Host"] = <<Host>>
                   /\ out["X-Forwarded-Proto"] = <<Scheme>>

\* The headers of an allowed request are those the upstream is to have, whichever
\* implementation sends them, but for what the two do not share (proxy.go:255-266,
\* proxyfast.go:459-464).
HeadersSentOn == SameHeadersUpstream /\ ConnectionStaysHere /\ PeerSpeaksLast
==============================================================================
