------------------------------ MODULE WireProofs ------------------------------
(***************************************************************************)
(* What Wire promises, for any requests, any parts of them and any lines   *)
(* of their headers: what is proved of Decision holds of a request that is *)
(* decided here, and the headers and the query string sent upstream are    *)
(* those of the request.                                                   *)
(***************************************************************************)
EXTENDS Wire, DecisionProofs, SequenceTheorems

wireVars == <<vars, partVars>>

LEMMA WireStepKept == [WireNext]_wireVars => [Next]_vars
BY DEF WireNext, wireVars, AddHeader

\* Requests that are decided beside parts that are read are decided as Decision has it
\* (proxy.go:332-397, 563-622).
THEOREM KeepsDecision == WireSpec => Spec
BY WireStepKept, PTL DEF WireSpec, Spec, WireInit, wireVars

\* So what holds of a decision holds of it here (proxy.go:332-397, 563-622, core.go:10-12,
\* extract.go:118-126).
THEOREM DecidesAsProved ==
  WireSpec => /\ [](TypeOK /\ DecidedByTheList /\ CapHolds /\ RefusedAlike /\ TotalsAgree)
              /\ LookupsAreAtomic
BY KeepsDecision, TypeCorrect, DecidedByLists, CapKept, ImplsAlike, TotalsKept, LookupsKept,
   PTL

-----------------------------------------------------------------------------
(* The headers sent upstream.                                              *)

\* The headers of a request are lines it may have, one or more of a name.
HeadersTyped ==
  /\ DOMAIN header \subseteq DOMAIN Lines
  /\ \A n \in DOMAIN header : header[n] \in Seq(Lines[n]) /\ Len(header[n]) >= 1
  /\ trust \in BOOLEAN

\* What takes no request upstream as it came, where names are those Connection gives.
Stripped(names) == names \cup hopByHopHeaders \cup {"Expect"} \cup Forwarding

Told == Forwarding \ {"Forwarded"}

\* What a header that goes upstream says there.
Claimed(h, trusted, n, default) == IF trusted THEN First(h, n, default) ELSE default
Says(h, trusted, n) ==
  CASE n = "X-Forwarded-For" -> <<Append(Claimed(h, trusted, n, <<>>), Peer)>>
    [] n = "X-Forwarded-Host" -> <<Claimed(h, trusted, n, Host)>>
    [] n = "X-Forwarded-Proto" -> <<Claimed(h, trusted, n, Scheme)>>
    [] OTHER -> h[n]

LEMMA DelFields ==
  ASSUME NEW h, NEW names
  PROVE  /\ DOMAIN Del(h, names) = DOMAIN h \ names
         /\ \A n \in DOMAIN h \ names : Del(h, names)[n] = h[n]
BY DEF Del, Restrict

LEMMA SetFields ==
  ASSUME NEW h, NEW name, NEW v
  PROVE  /\ DOMAIN Set(h, name, v) = DOMAIN h \cup {name}
         /\ Set(h, name, v)[name] = <<v>>
         /\ \A n \in DOMAIN h \ {name} : Set(h, name, v)[n] = h[n]
BY DEF Set

\* server.forward (proxyfast.go:684-710, 742-746).
LEMMA FastSays ==
  ASSUME NEW h, NEW trusted \in BOOLEAN
  PROVE  Fast(h, trusted) =
           [n \in (DOMAIN h \ Stripped(NamedByFirst(h))) \cup Told |-> Says(h, trusted, n)]
<1> DEFINE kept == Del(Del(removeHopByHop(h), requestOnlyHeaders), Dropped)
           claimed == IF trusted THEN h ELSE Restrict(h, {})
           one == Set(kept, "X-Forwarded-For",
                      Append(First(claimed, "X-Forwarded-For", <<>>), Peer))
           two == Set(one, "X-Forwarded-Host", First(claimed, "X-Forwarded-Host", Host))
           three == Set(two, "X-Forwarded-Proto",
                        First(claimed, "X-Forwarded-Proto", Scheme))
<1>1. Fast(h, trusted) = three
  BY DEF Fast, setForwarded
<1>2. /\ DOMAIN kept = DOMAIN h \ Stripped(NamedByFirst(h))
      /\ \A n \in DOMAIN h \ Stripped(NamedByFirst(h)) : kept[n] = h[n]
  BY DEF Del, Restrict, removeHopByHop, requestOnlyHeaders, Dropped, Stripped
<1>3. \A n, default : First(claimed, n, default) = Claimed(h, trusted, n, default)
  BY DEF First, Claimed, Restrict
<1> HIDE DEF kept, claimed
<1>4. DOMAIN three = (DOMAIN h \ Stripped(NamedByFirst(h))) \cup Told
  BY <1>2 DEF Set, Told, Forwarding
<1>5. Told \cap (DOMAIN h \ Stripped(NamedByFirst(h))) = {}
  BY DEF Told, Stripped
<1>6. ASSUME NEW n \in (DOMAIN h \ Stripped(NamedByFirst(h))) \cup Told
      PROVE  three[n] = Says(h, trusted, n)
  BY <1>2, <1>3, <1>5, <1>6 DEF Set, Told, Forwarding, Says
<1>7. three = [n \in DOMAIN three |-> three[n]]
  BY DEF Set
<1> HIDE DEF three
<1> QED BY <1>1, <1>4, <1>6, <1>7

\* net/http offers trailers again, where the client did.
Offered(h) ==
  IF \E i \in DOMAIN LinesOf(h, "Te") : h["Te"][i] = "trailers" THEN {"Te"} ELSE {}

\* The addresses a request has passed are a sequence.
Addressed(h) == First(h, "X-Forwarded-For", <<>>) \in Seq(STRING)

\* ReverseProxy and the Rewrite given to it (proxy.go:255-266, 762-785).
LEMMA RewriteSays ==
  ASSUME NEW h, Addressed(h), NEW trusted \in BOOLEAN
  PROVE  Rewrite(h, trusted) =
           [n \in (DOMAIN h \ Stripped(NamedByConnection(h))) \cup Told \cup Offered(h) |->
              IF n = "Te" THEN <<"trailers">> ELSE Says(h, trusted, n)]
<1> DEFINE S == DOMAIN h \ Stripped(NamedByConnection(h))
           stripped == Del(h, NamedByConnection(h) \cup hopByHopHeaders)
           offered == IF \E i \in DOMAIN LinesOf(h, "Te") : h["Te"][i] = "trailers"
                      THEN Set(stripped, "Te", "trailers") ELSE stripped
           upgraded == IF "Upgrade" \in NamedByConnection(h) /\ "Upgrade" \in DOMAIN h
                       THEN Set(Set(offered, "Connection", {"Upgrade"}),
                                "Upgrade", First(h, "Upgrade", ""))
                       ELSE offered
           kept == Del(Del(upgraded, Forwarding), {"Upgrade", "Connection", "Expect"})
<1>1. Rewrite(h, trusted) = netSetForwarded(h, kept, trusted)
  BY DEF Rewrite, BeforeRewrite
<1>2. /\ DOMAIN offered = (DOMAIN h \ (NamedByConnection(h) \cup hopByHopHeaders))
                            \cup Offered(h)
      /\ \A n \in DOMAIN offered :
           offered[n] = IF n = "Te" THEN <<"trailers">> ELSE h[n]
  BY DEF Set, Del, Restrict, Offered, hopByHopHeaders
<1>3. /\ DOMAIN upgraded \ {"Upgrade", "Connection"}
           = DOMAIN offered \ {"Upgrade", "Connection"}
      /\ \A n \in DOMAIN offered \ {"Upgrade", "Connection"} : upgraded[n] = offered[n]
  <2> HIDE DEF offered
  <2> QED BY DEF Set
<1>4. /\ DOMAIN kept = S \cup Offered(h)
      /\ \A n \in S \cup Offered(h) : kept[n] = IF n = "Te" THEN <<"trailers">> ELSE h[n]
  <2> HIDE DEF offered, upgraded
  <2>1. /\ DOMAIN kept = DOMAIN upgraded \ (Forwarding \cup {"Upgrade", "Connection", "Expect"})
        /\ \A n \in DOMAIN kept : kept[n] = upgraded[n]
    BY DEF Del, Restrict
  <2> HIDE DEF kept
  <2> QED BY <1>2, <1>3, <2>1 DEF Stripped, Offered, hopByHopHeaders, Forwarding
<1> HIDE DEF kept
<1>5. Claimed(h, TRUE, "X-Forwarded-For", <<>>) \in Seq(STRING)
  <2>1. <<>> \in Seq(STRING)
    BY EmptySeq
  <2> QED BY <2>1, ZenonT(30) DEF Addressed, Claimed, First
<1>6. /\ <<Peer>> = Append(<<>>, Peer)
      /\ First(h, "X-Forwarded-For", <<>>) \o <<Peer>>
           = Append(Claimed(h, TRUE, "X-Forwarded-For", <<>>), Peer)
  BY <1>5, AddressesAssumption DEF Claimed
<1> DEFINE net == netSetForwarded(h, kept, trusted)
<1>b. First(SetXForwarded(kept), "X-Forwarded-For", <<>>) = <<Peer>>
  BY DEF First, SetXForwarded, Set
<1>7. DOMAIN net = S \cup Told \cup Offered(h)
  BY <1>4 DEF netSetForwarded, SetXForwarded, Set, Del, Restrict, Told, Forwarding, Stripped,
              Offered
<1>8. ASSUME NEW n \in S \cup Told \cup Offered(h)
      PROVE  net[n] = IF n = "Te" THEN <<"trailers">> ELSE Says(h, trusted, n)
  <2>1. CASE trusted
    BY <1>4, <1>6, <1>8, <1>b, <2>1
    DEF netSetForwarded, SetXForwarded, Set, Told, Forwarding, Stripped, Offered, Says,
        Claimed, hopByHopHeaders
  <2>2. CASE ~trusted
    BY <1>4, <1>6, <1>8, <2>2
    DEF netSetForwarded, SetXForwarded, Set, Del, Restrict, Told, Forwarding, Stripped,
        Offered, Says, Claimed, hopByHopHeaders
  <2> QED BY SMTT(40), <2>1, <2>2
<1>9. net = [n \in DOMAIN net |-> net[n]]
  BY DEF netSetForwarded, Set, Del, Restrict
<1>a. Rewrite(h, trusted) = net
  BY <1>1
<1> HIDE DEF net
<1> QED BY <1>7, <1>8, <1>9, <1>a

LEMMA AddressesOfHeader == HeadersTyped => Addressed(header)
<1> SUFFICES ASSUME HeadersTyped PROVE Addressed(header)
  OBVIOUS
<1>1. CASE "X-Forwarded-For" \notin DOMAIN header
  BY <1>1, EmptySeq DEF Addressed, First
<1>2. CASE "X-Forwarded-For" \in DOMAIN header
  <2>1. /\ header["X-Forwarded-For"] \in Seq(Lines["X-Forwarded-For"])
        /\ Len(header["X-Forwarded-For"]) >= 1
    BY <1>2 DEF HeadersTyped
  <2>2. header["X-Forwarded-For"][1] \in Lines["X-Forwarded-For"]
    BY <2>1, ElementOfSeq
  <2> QED
    BY <1>2, <2>2, AddressesAssumption DEF HeadersTyped, Addressed, First
<1> QED
  BY <1>1, <1>2

\* What the first line of Connection names, Connection names.
LEMMA FirstNamed == HeadersTyped => NamedByFirst(header) \subseteq NamedByConnection(header)
<1> SUFFICES ASSUME HeadersTyped, "Connection" \in DOMAIN header
             PROVE  header["Connection"][1] \subseteq NamedByConnection(header)
  BY DEF NamedByFirst, First
<1>1. 1 \in DOMAIN header["Connection"]
  BY LenProperties DEF HeadersTyped
<1> QED
  BY <1>1 DEF NamedByConnection, LinesOf

LEMMA SameSent == HeadersTyped => SameHeadersUpstream
<1> SUFFICES ASSUME HeadersTyped PROVE SameHeadersUpstream
  OBVIOUS
<1> DEFINE F == (DOMAIN header \ Stripped(NamedByFirst(header))) \cup Told
           S == (DOMAIN header \ Stripped(NamedByConnection(header))) \cup Told
           fast == Fast(header, trust)
           net == Rewrite(header, trust)
<1>1. fast = [n \in F |-> Says(header, trust, n)]
  BY FastSays DEF HeadersTyped
<1>2. net = [n \in S \cup Offered(header) |->
               IF n = "Te" THEN <<"trailers">> ELSE Says(header, trust, n)]
  BY AddressesOfHeader, RewriteSays DEF HeadersTyped
<1>3. "Te" \notin S /\ Offered(header) \subseteq {"Te"}
  BY DEF Stripped, Told, Offered, hopByHopHeaders, Forwarding
<1>4. S = F \ (NamedLater \ Forwarding)
  BY FirstNamed DEF NamedLater, Stripped, Told
<1> HIDE DEF fast, net, S, F
<1>5. Del(net, {"Te"}) = [n \in S |-> Says(header, trust, n)]
  BY <1>2, <1>3 DEF Del, Restrict
<1>6. Del(fast, NamedLater \ Forwarding) = [n \in S |-> Says(header, trust, n)]
  BY <1>1, <1>4 DEF Del, Restrict
<1>7. "Te" \in DOMAIN net => net["Te"] = <<"trailers">>
  BY <1>2
<1> QED BY <1>5, <1>6, <1>7 DEF SameHeadersUpstream, fast, net

\* What goes upstream, whoever sends it.
Sent == {Fast(header, trust), Rewrite(header, trust)}

LEMMA ForwardingSent ==
  ASSUME HeadersTyped, NEW out \in Sent
  PROVE  /\ "Forwarded" \notin DOMAIN out
         /\ \A n \in Told : n \in DOMAIN out /\ out[n] = Says(header, trust, n)
<1>1. Fast(header, trust) =
        [n \in (DOMAIN header \ Stripped(NamedByFirst(header))) \cup Told |->
           Says(header, trust, n)]
  BY FastSays DEF HeadersTyped
<1>2. Rewrite(header, trust) =
        [n \in (DOMAIN header \ Stripped(NamedByConnection(header))) \cup Told
                 \cup Offered(header) |->
           IF n = "Te" THEN <<"trailers">> ELSE Says(header, trust, n)]
  BY AddressesOfHeader, RewriteSays DEF HeadersTyped
<1>3. "Te" \notin Told /\ Offered(header) \subseteq {"Te"}
  BY DEF Told, Offered, Forwarding
<1> QED BY <1>1, <1>2, <1>3 DEF Sent, Stripped, Told, Forwarding

LEMMA StaysHere == HeadersTyped => ConnectionStaysHere
<1> SUFFICES ASSUME HeadersTyped PROVE ConnectionStaysHere
  OBVIOUS
<1>1. DOMAIN Fast(header, trust)
        = (DOMAIN header \ Stripped(NamedByFirst(header))) \cup Told
  BY FastSays DEF HeadersTyped
<1>2. DOMAIN Rewrite(header, trust)
        \subseteq (DOMAIN header \ Stripped(NamedByConnection(header))) \cup Told \cup {"Te"}
  <2>1. Offered(header) \subseteq {"Te"}
    BY DEF Offered
  <2>2. DOMAIN Rewrite(header, trust)
          = (DOMAIN header \ Stripped(NamedByConnection(header))) \cup Told \cup Offered(header)
    BY AddressesOfHeader, RewriteSays DEF HeadersTyped
  <2> QED BY <2>1, <2>2
<1> QED BY <1>1, <1>2 DEF ConnectionStaysHere, Stripped, Told

LEMMA PeerLast == HeadersTyped => PeerSpeaksLast
<1> DEFINE Addresses(out) == First(out, "X-Forwarded-For", <<>>)
<1> SUFFICES ASSUME HeadersTyped, NEW out \in Sent
             PROVE  /\ "Forwarded" \notin DOMAIN out
                    /\ \A n \in Told : Len(LinesOf(out, n)) = 1
                    /\ Addresses(out)[Len(Addresses(out))] = Peer
                    /\ ~trust => /\ Len(Addresses(out)) = 1
                                 /\ out["X-Forwarded-Host"] = <<Host>>
                                 /\ out["X-Forwarded-Proto"] = <<Scheme>>
  BY DEF PeerSpeaksLast, Sent, Told
<1>1. Told = {"X-Forwarded-For", "X-Forwarded-Host", "X-Forwarded-Proto"}
  BY DEF Told, Forwarding
<1> DEFINE claimed == Claimed(header, trust, "X-Forwarded-For", <<>>)
<1>2. claimed \in Seq(STRING) /\ (~trust => Len(claimed) = 0)
  <2>1. <<>> \in Seq(STRING) /\ Len(<<>>) = 0
    BY EmptySeq
  <2>2. Addressed(header) /\ trust \in BOOLEAN
    BY AddressesOfHeader DEF HeadersTyped
  <2> QED BY <2>1, <2>2 DEF Addressed, Claimed
<1>3. /\ out["X-Forwarded-For"] = <<Append(claimed, Peer)>>
      /\ out["X-Forwarded-Host"] = <<Claimed(header, trust, "X-Forwarded-Host", Host)>>
      /\ out["X-Forwarded-Proto"] = <<Claimed(header, trust, "X-Forwarded-Proto", Scheme)>>
  BY <1>1, ForwardingSent DEF Says
<1> HIDE DEF claimed
<1>4. \A n \in Told : Len(LinesOf(out, n)) = 1
  <2>1. \A v : Len(<<v>>) = 1
    OBVIOUS
  <2>2. \A n \in Told : LinesOf(out, n) = out[n]
    BY ForwardingSent DEF LinesOf
  <2> QED BY <1>1, <1>3, <2>1, <2>2
<1>5. Addresses(out) = Append(claimed, Peer)
  BY <1>1, <1>3, ForwardingSent DEF First
<1>6. ~trust => /\ out["X-Forwarded-Host"] = <<Host>>
                /\ out["X-Forwarded-Proto"] = <<Scheme>>
  BY <1>3 DEF Claimed
<1> HIDE DEF Addresses
<1>7. /\ Len(Append(claimed, Peer)) = Len(claimed) + 1
      /\ Append(claimed, Peer)[Len(claimed) + 1] = Peer
  BY <1>2, AddressesAssumption, AppendProperties
<1> QED BY <1>2, <1>4, <1>5, <1>6, <1>7, ForwardingSent

LEMMA InitHeaders == WireInit => HeadersTyped
BY DEF WireInit, HeadersTyped, NoHeaders

LEMMA NextHeaders == HeadersTyped /\ [WireNext]_wireVars => HeadersTyped'
<1> SUFFICES ASSUME HeadersTyped, [WireNext]_wireVars PROVE HeadersTyped'
  OBVIOUS
<1>1. CASE AddHeader
  <2>0. PICK n \in DOMAIN Lines : \E v \in Lines[n] : header' = Add(header, n, v)
    BY <1>1 DEF AddHeader
  <2>1. PICK v \in Lines[n] : header' = Add(header, n, v)
    BY <2>0
  <2>2. LinesOf(header, n) \in Seq(Lines[n])
    BY EmptySeq DEF HeadersTyped, LinesOf
  <2>3. /\ Append(LinesOf(header, n), v) \in Seq(Lines[n])
        /\ Len(Append(LinesOf(header, n), v)) >= 1
    BY <2>2, AppendProperties, LenProperties
  <2> DEFINE longer == Append(LinesOf(header, n), v)
  <2>4. header' = [m \in DOMAIN header \cup {n} |-> IF m = n THEN longer ELSE header[m]]
    BY <2>1 DEF Add
  <2> HIDE DEF longer
  <2>5. ASSUME NEW m \in DOMAIN header'
        PROVE  header'[m] \in Seq(Lines[m]) /\ Len(header'[m]) >= 1
    <3>1. CASE m = n
      BY <2>3, <2>4, <3>1 DEF longer
    <3>2. CASE m # n
      BY <2>4, <2>5, <3>2 DEF HeadersTyped
    <3> QED BY <3>1, <3>2
  <2>6. DOMAIN header' \subseteq DOMAIN Lines
    BY <2>4 DEF HeadersTyped
  <2> QED BY <1>1, <2>5, <2>6 DEF AddHeader, HeadersTyped
<1>2. CASE UNCHANGED <<header, trust>>
  BY <1>2 DEF HeadersTyped
<1> QED BY <1>1, <1>2 DEF WireNext, wireVars, partVars

\* The headers of an allowed request are those the upstream is to have, whatever lines the
\* request has: the same from both implementations, but for the offer of trailers and for
\* what a Connection line after the first names, nothing of the connection as each reads
\* it, and the peer last (proxy.go:255-266, proxyfast.go:459-464, 712).
THEOREM HeadersSent == WireSpec => []HeadersSentOn
<1>1. HeadersTyped => HeadersSentOn
  BY SameSent, StaysHere, PeerLast DEF HeadersSentOn
<1> QED BY <1>1, InitHeaders, NextHeaders, PTL DEF WireSpec, wireVars

-----------------------------------------------------------------------------
(* Searching in a sequence of bytes.                                       *)

\* j is where set is first met from i on, or the end.
IsFirst(s, i, set, j) ==
  /\ j \in i..Len(s) + 1
  /\ j > Len(s) \/ s[j] \in set
  /\ \A k \in i..j - 1 : s[k] \notin set

LEMMA FirstExists ==
  ASSUME NEW S, NEW s \in Seq(S), NEW i \in 1..Len(s) + 1, NEW set
  PROVE  \E j : IsFirst(s, i, set, j)
<1> DEFINE T == {j \in i..Len(s) + 1 : j > Len(s) \/ s[j] \in set}
<1>1. Len(s) + 1 \in T /\ T \subseteq Nat
  OBVIOUS
<1>2. PICK j \in T : \A k \in T : ~(<<k, j>> \in OpToRel(<, Nat))
  BY <1>1, WFMin, NatLessThanWellFounded
<1>3. \A k \in T : ~(k < j)
  BY <1>1, <1>2 DEF OpToRel
<1>4. \A k \in i..j - 1 : s[k] \notin set
  BY <1>1, <1>3
<1> QED BY <1>4 DEF IsFirst

LEMMA UpToFirst ==
  ASSUME NEW S, NEW s \in Seq(S), NEW i \in 1..Len(s) + 1, NEW set
  PROVE  IsFirst(s, i, set, UpTo(s, i, set))
BY FirstExists DEF UpTo, IsFirst

LEMMA UpToIs ==
  ASSUME NEW S, NEW s \in Seq(S), NEW i \in 1..Len(s) + 1, NEW set, NEW j,
         IsFirst(s, i, set, j)
  PROVE  UpTo(s, i, set) = j
<1> DEFINE u == UpTo(s, i, set)
<1>1. IsFirst(s, i, set, u)
  BY UpToFirst
<1> HIDE DEF u
<1>2. ~(u < j) /\ ~(j < u) /\ u \in Int /\ j \in Int
  BY <1>1 DEF IsFirst
<1> QED BY <1>2 DEF u

-----------------------------------------------------------------------------
(* Readings from the left to the right.                                    *)

\* What every one has that all those behind it have is had by all of them.
LEMMA Descends ==
  ASSUME NEW N \in Nat, NEW S, N + 1 \in S,
         \A n \in 1..N : (\A k \in n + 1..N + 1 : k \in S) => n \in S
  PROVE  \A n \in 1..N + 1 : n \in S
<1> DEFINE T == {k \in 0..N : N + 1 - k \notin S}
<1>1. CASE T = {}
  <2> SUFFICES ASSUME NEW n \in 1..N + 1 PROVE n \in S
    OBVIOUS
  <2>1. N + 1 - n \in 0..N /\ N + 1 - (N + 1 - n) = n
    OBVIOUS
  <2> QED BY <1>1, <2>1
<1>2. CASE T # {}
  <2>1. T \subseteq Nat
    OBVIOUS
  <2>2. PICK j \in T : \A k \in T : ~(<<k, j>> \in OpToRel(<, Nat))
    BY <1>2, <2>1, WFMin, NatLessThanWellFounded
  <2>3. \A k \in T : ~(k < j)
    BY <2>1, <2>2 DEF OpToRel
  <2>4. j \in 1..N /\ N + 1 - j \notin S
    <3>1. j \in 0..N /\ N + 1 - j \notin S
      OBVIOUS
    <3>2. j # 0
      BY <3>1
    <3> QED BY <3>1, <3>2
  <2> DEFINE n == N + 1 - j
  <2>5. n \in 1..N
    BY <2>4
  <2>6. ASSUME NEW k \in n + 1..N + 1 PROVE k \in S
    <3>1. N + 1 - k \in 0..N /\ N + 1 - k < j /\ N + 1 - (N + 1 - k) = k
      BY <2>4
    <3>2. N + 1 - k \notin T
      BY <2>3, <3>1
    <3> QED BY <3>1, <3>2
  <2> QED BY <2>4, <2>5, <2>6
<1> QED BY <1>1, <1>2

\* A reading is what its first step says, and so on.
Reads(From, n, step) ==
  /\ \A i \in 1..n : From[i] = step[i][1] \o From[step[i][2]]
  /\ \A i \in Nat : i > n => From[i] = <<>>

LEMMA GatheredReads ==
  ASSUME NEW n \in Nat, NEW step,
         \A i \in 1..n : step[i][2] \in Nat /\ step[i][2] > i
  PROVE  \E From : Reads(From, n, step) /\ Gathered(n, step) = From[1]
<1> DEFINE Then(F) ==
             [i \in Nat |-> IF i \in 1..n THEN step[i][1] \o F[step[i][2]] ELSE <<>>]
           Upward(F, k) == \A i \in Nat : i \notin 1..k - 1 => F[i] = Then(F)[i]
           S == {k \in 1..n + 1 : \E F : Upward(F, k)}
<1>1. n + 1 \in S
  <2>0. (n + 1) - 1 = n /\ n + 1 \in 1..n + 1
    OBVIOUS
  <2>1. Upward([i \in Nat |-> <<>>], n + 1)
    BY <2>0
  <2> HIDE DEF Upward
  <2> QED BY <2>0, <2>1
<1>2. ASSUME NEW k \in 1..n, \A j \in k + 1..n + 1 : j \in S PROVE k \in S
  <2>1. k + 1 \in S
    <3> HIDE DEF S
    <3>1. k + 1 \in k + 1..n + 1
      OBVIOUS
    <3> QED BY <1>2, <3>1
  <2>2. PICK F : Upward(F, k + 1)
    BY <2>1
  <2> DEFINE G == [i \in Nat |-> IF i = k THEN step[k][1] \o F[step[k][2]] ELSE F[i]]
  <2>3. \A i \in Nat : i # k => G[i] = F[i]
    OBVIOUS
  <2>4. G[k] = step[k][1] \o F[step[k][2]]
    <3>1. k \in Nat
      OBVIOUS
    <3> QED BY <3>1, Zenon
  <2> HIDE DEF G
  <2>5. ASSUME NEW i \in Nat, i \notin 1..k - 1 PROVE G[i] = Then(G)[i]
    <3>1. CASE i \notin 1..n
      <4>1. i \notin 1..k /\ i # k
        BY <3>1
      <4> QED BY <2>2, <2>3, <3>1, <4>1
    <3>2. CASE i \in 1..n
      <4>1. step[i][2] \in Nat /\ step[i][2] # k
        BY <2>5, <3>2
      <4>2. G[step[i][2]] = F[step[i][2]]
        BY <2>3, <4>1
      <4>3. CASE i = k
        BY <2>4, <3>2, <4>2, <4>3
      <4>4. CASE i # k
        <5>1. i \notin 1..(k + 1) - 1
          BY <2>5, <4>4
        <5>2. F[i] = step[i][1] \o F[step[i][2]]
          BY <2>2, <3>2, <5>1
        <5> QED BY <2>3, <3>2, <4>2, <4>4, <5>2
      <4> QED BY <4>3, <4>4
    <3> QED BY <3>1, <3>2
  <2>6. Upward(G, k)
    BY <2>5
  <2> HIDE DEF Upward
  <2> QED BY <2>6
<1>3. 1 \in S
  <2> HIDE DEF S
  <2>1. \A k \in 1..n + 1 : k \in S
    BY <1>1, <1>2, Descends
  <2> QED BY <2>1
<1>4. PICK F : Upward(F, 1)
  BY <1>3
<1>5. Then(F) = Then(Then(F))
  <2>1. \A i \in Nat : F[i] = Then(F)[i]
    BY <1>4
  <2>2. \A i \in 1..n : F[step[i][2]] = Then(F)[step[i][2]]
    BY <2>1
  <2> DEFINE G == Then(F)
  <2> HIDE DEF G
  <2>3. Then(F) = Then(G)
    BY <2>2 DEF G
  <2> QED BY <2>3 DEF G
<1> DEFINE From == CHOOSE G : G = Then(G)
<1>6. From = Then(From)
  <2> HIDE DEF Then
  <2> QED BY <1>5
<1>7. Gathered(n, step) = From[1]
  BY DEF Gathered
<1> HIDE DEF From
<1>8. \A i \in Nat : From[i] = Then(From)[i]
  <2> HIDE DEF Then
  <2> QED BY <1>6
<1>9. Reads(From, n, step)
  <2>1. ASSUME NEW i \in 1..n PROVE From[i] = step[i][1] \o From[step[i][2]]
    <3>1. i \in Nat
      OBVIOUS
    <3> QED BY <1>8, <3>1, Zenon
  <2>2. ASSUME NEW i \in Nat, i > n PROVE From[i] = <<>>
    <3>1. i \notin 1..n
      BY <2>2
    <3> QED BY <1>8, <3>1
  <2> QED BY <2>1, <2>2 DEF Reads
<1> QED BY <1>7, <1>9

LEMMA EmptyDecoded ==
  ASSUME NEW s, Len(s) = 0
  PROVE  urlDecoded(s) = <<>>
<1> DEFINE step == [i \in DOMAIN s |-> DecodedAt(s, i)]
<1>0. urlDecoded(s) = Gathered(Len(s), step)
  BY Zenon DEF urlDecoded
<1> HIDE DEF step
<1>1. urlDecoded(s) = Gathered(0, step)
  BY <1>0
<1>2. PICK From : Reads(From, 0, step) /\ Gathered(0, step) = From[1]
  BY GatheredReads
<1>3. From[1] = <<>>
  BY <1>2 DEF Reads
<1> QED BY <1>1, <1>2, <1>3

-----------------------------------------------------------------------------
(* The query string sent upstream: the pairs of the upstream's own, and    *)
(* those of the client's, as far behind as its first begins.               *)

LEMMA PairIs ==
  ASSUME NEW s \in Seq(Nat), NEW b \in DOMAIN s, NEW j, IsFirst(s, b, Separators, j)
  PROVE  /\ Pair(s, b) \in Seq(Nat) /\ Len(Pair(s, b)) = j - b
         /\ \A k \in 1..j - b : Pair(s, b)[k] = s[b + k - 1]
<1>1. b \in 1..Len(s) + 1 /\ j \in b..Len(s) + 1
  BY DEF IsFirst
<1>2. Pair(s, b) = SubSeq(s, b, j - 1)
  BY <1>1, UpToIs DEF Pair
<1>3. \A k \in b..j - 1 : s[k] \in Nat
  BY <1>1
<1> QED BY <1>1, <1>2, <1>3, SubSeqProperties

\* Neither of the two is empty.
BothSaid(u, c) == u \in Seq(Nat) \ {<<>>} /\ c \in Seq(Nat) \ {<<>>}

\* m is the one, the separator and the other.
Joins(m, u, c) ==
  /\ u \in Seq(Nat) /\ c \in Seq(Nat) /\ m \in Seq(Nat)
  /\ Len(u) \in Nat \ {0} /\ Len(c) \in Nat \ {0} /\ Len(m) = Len(u) + 1 + Len(c)
  /\ m[Len(u) + 1] = And
  /\ \A k \in 1..Len(u) : m[k] = u[k]
  /\ \A k \in 1..Len(c) : m[Len(u) + 1 + k] = c[k]

LEMMA Merged ==
  ASSUME NEW u, NEW c, BothSaid(u, c)
  PROVE  Joins(mergeQuery(u, c), u, c)
<1> DEFINE mid == <<And>>
           head == u \o mid
           m == mergeQuery(u, c)
<1>1. mid \in Seq(Nat) /\ Len(mid) = 1 /\ mid[1] = And
  BY DEF And
<1>2. m = head \o c
  BY DEF mergeQuery, BothSaid
<1> HIDE DEF m
<1>3. /\ u \in Seq(Nat) /\ Len(u) \in Nat \ {0}
      /\ c \in Seq(Nat) /\ Len(c) \in Nat \ {0}
  BY EmptySeq DEF BothSaid
<1> HIDE DEF mid
<1>4. /\ head \in Seq(Nat) /\ Len(head) = Len(u) + Len(mid)
      /\ \A k \in 1..Len(u) + Len(mid) :
           head[k] = IF k <= Len(u) THEN u[k] ELSE mid[k - Len(u)]
  BY <1>1, <1>3, ConcatProperties
<1> HIDE DEF head
<1>5. Len(head) = Len(u) + 1
  BY <1>1, <1>4
<1>6. head[Len(u) + 1] = And
  <2>1. Len(u) + 1 \in 1..Len(u) + Len(mid) /\ ~(Len(u) + 1 <= Len(u))
        /\ (Len(u) + 1) - Len(u) = 1
    BY <1>1, <1>3
  <2> QED BY <1>1, <1>4, <2>1
<1>7. ASSUME NEW k \in 1..Len(u) PROVE head[k] = u[k]
  <2>1. k \in 1..Len(u) + Len(mid) /\ k <= Len(u)
    BY <1>1, <1>3
  <2> QED BY <1>4, <2>1
<1>8. head \in Seq(Nat)
  BY <1>4
<1>9. /\ m \in Seq(Nat) /\ Len(m) = Len(head) + Len(c)
      /\ \A k \in 1..Len(head) + Len(c) :
           m[k] = IF k <= Len(head) THEN head[k] ELSE c[k - Len(head)]
  BY <1>2, <1>3, <1>8, ConcatProperties
<1>a. ASSUME NEW k \in 1..Len(u) + 1 PROVE m[k] = head[k]
  <2>1. k \in 1..Len(head) + Len(c) /\ k <= Len(head)
    BY <1>3, <1>5
  <2> QED BY <1>9, <2>1
<1>b. ASSUME NEW k \in 1..Len(c) PROVE m[Len(u) + 1 + k] = c[k]
  <2>1. Len(u) + 1 + k \in 1..Len(head) + Len(c) /\ ~(Len(u) + 1 + k <= Len(head))
        /\ (Len(u) + 1 + k) - Len(head) = k
    BY <1>3, <1>5
  <2> QED BY <1>9, <2>1
<1>c. m[Len(u) + 1] = And /\ \A k \in 1..Len(u) : m[k] = u[k]
  <2>1. 1..Len(u) \subseteq 1..Len(u) + 1 /\ Len(u) + 1 \in 1..Len(u) + 1
    BY <1>3
  <2> QED BY <1>6, <1>7, <1>a, <2>1
<1>d. Len(m) = Len(u) + 1 + Len(c)
  BY <1>5, <1>9
<1> QED BY <1>3, <1>9, <1>b, <1>c, <1>d DEF m, Joins

\* A pair of the upstream's is there as it was.
LEMMA PairOfUpstream ==
  ASSUME NEW u, NEW c, NEW m, Joins(m, u, c), NEW b \in 1..Len(u)
  PROVE  Pair(m, b) = Pair(u, b)
<1>0. Len(m) = Len(u) + 1 + Len(c) /\ Len(u) \in Nat /\ Len(c) \in Nat
  BY DEF Joins
<1>1. m[Len(u) + 1] = And /\ \A k \in 1..Len(u) : m[k] = u[k]
  BY DEF Joins
<1>s. u \in Seq(Nat) /\ m \in Seq(Nat)
  BY DEF Joins
<1>2. b \in DOMAIN u /\ b \in 1..Len(u) + 1 /\ b \in DOMAIN m
  BY <1>0, <1>s
<1>3. PICK j : IsFirst(u, b, Separators, j)
  BY <1>s, <1>2, FirstExists
<1>4. /\ j > Len(u) \/ u[j] \in Separators
      /\ \A k \in b..j - 1 : u[k] \notin Separators
  BY <1>3 DEF IsFirst
<1>9. j \in b..Len(u) + 1 /\ j \in Int /\ b \in Int /\ b >= 1
  BY <1>0, <1>3 DEF IsFirst
<1>5. IsFirst(m, b, Separators, j)
  <2>1. j \in b..Len(m) + 1
    BY <1>0, <1>9
  <2>2. m[j] \in Separators
    <3>1. CASE j = Len(u) + 1
      BY <1>1, <3>1 DEF Separators
    <3>2. CASE j # Len(u) + 1
      <4>1. j \in 1..Len(u) /\ ~(j > Len(u))
        BY <1>0, <1>9, <3>2
      <4> QED BY <1>1, <1>4, <4>1
    <3> QED BY <3>1, <3>2
  <2>3. ASSUME NEW k \in b..j - 1 PROVE m[k] \notin Separators
    <3>1. k \in 1..Len(u)
      BY <1>0, <1>9
    <3> QED BY <1>1, <1>4, <3>1
  <2> QED BY <2>1, <2>2, <2>3 DEF IsFirst
<1>6. /\ Pair(m, b) \in Seq(Nat) /\ Len(Pair(m, b)) = j - b
      /\ \A k \in 1..j - b : Pair(m, b)[k] = m[b + k - 1]
  BY <1>s, <1>2, <1>5, PairIs
<1>7. /\ Pair(u, b) \in Seq(Nat) /\ Len(Pair(u, b)) = j - b
      /\ \A k \in 1..j - b : Pair(u, b)[k] = u[b + k - 1]
  BY <1>s, <1>2, <1>3, PairIs
<1>8. ASSUME NEW k \in 1..j - b PROVE Pair(m, b)[k] = Pair(u, b)[k]
  <2>1. b + k - 1 \in 1..Len(u)
    BY <1>0, <1>9
  <2> QED BY <1>1, <1>6, <1>7, <2>1
<1> QED BY <1>6, <1>7, <1>8, SeqEqual

\* And so is one of the client's, further back.
LEMMA PairOfClient ==
  ASSUME NEW u, NEW c, NEW m, Joins(m, u, c), NEW b \in 1..Len(c),
         NEW by, by = Len(u) + 1
  PROVE  Pair(m, by + b) = Pair(c, b)
<1>s. c \in Seq(Nat) /\ m \in Seq(Nat)
  BY DEF Joins
<1>0. Len(m) = by + Len(c) /\ by \in Nat \ {0} /\ Len(c) \in Nat
  BY SMTT(30) DEF Joins
<1>1. \A k \in 1..Len(c) : m[by + k] = c[k]
  BY DEF Joins
<1>2. b \in DOMAIN c /\ b \in 1..Len(c) + 1 /\ by + b \in DOMAIN m
  BY <1>0, <1>s
<1>3. PICK j : IsFirst(c, b, Separators, j)
  BY <1>s, <1>2, FirstExists
<1>4. /\ j > Len(c) \/ c[j] \in Separators
      /\ \A k \in b..j - 1 : c[k] \notin Separators
  BY <1>3 DEF IsFirst
<1>9. j \in b..Len(c) + 1 /\ j \in Int /\ b \in Int /\ b >= 1
  BY <1>0, <1>3 DEF IsFirst
<1> DEFINE from == by + b
           end == by + j
<1>5. IsFirst(m, from, Separators, end)
  <2>1. end \in from..Len(m) + 1
    BY <1>0, <1>9
  <2>2. end > Len(m) \/ m[end] \in Separators
    <3>1. CASE j > Len(c)
      BY <1>0, <1>9, <3>1
    <3>2. CASE ~(j > Len(c))
      <4>1. j \in 1..Len(c)
        BY <1>0, <1>9, <3>2
      <4> QED BY <1>1, <1>4, <3>2, <4>1
    <3> QED BY <3>1, <3>2
  <2>3. ASSUME NEW k \in from..end - 1 PROVE m[k] \notin Separators
    <3> DEFINE n == k - by
    <3>1. n \in b..j - 1 /\ n \in 1..Len(c) /\ k = by + n
      BY <1>0, <1>9
    <3> HIDE DEF n
    <3> QED BY <1>1, <1>4, <3>1
  <2> HIDE DEF from, end
  <2> QED BY <2>1, <2>2, <2>3 DEF IsFirst
<1>6. /\ Pair(m, by + b) \in Seq(Nat) /\ Len(Pair(m, by + b)) = j - b
      /\ \A k \in 1..j - b : Pair(m, by + b)[k] = m[by + b + k - 1]
  <2>1. /\ Pair(m, from) \in Seq(Nat) /\ Len(Pair(m, from)) = end - from
        /\ \A k \in 1..end - from : Pair(m, from)[k] = m[from + k - 1]
    BY <1>s, <1>2, <1>5, PairIs
  <2>2. end - from = j - b
    BY <1>0, <1>9
  <2> QED BY <2>1, <2>2
<1>7. /\ Pair(c, b) \in Seq(Nat) /\ Len(Pair(c, b)) = j - b
      /\ \A k \in 1..j - b : Pair(c, b)[k] = c[b + k - 1]
  BY <1>s, <1>2, <1>3, PairIs
<1>8. ASSUME NEW k \in 1..j - b PROVE Pair(m, by + b)[k] = Pair(c, b)[k]
  <2>1. b + k - 1 \in 1..Len(c) /\ by + b + k - 1 = by + (b + k - 1)
    BY <1>0, <1>9
  <2> QED BY <1>1, <1>6, <1>7, <2>1
<1> QED BY <1>6, <1>7, <1>8, SeqEqual

\* A pair that is empty is named nothing.
LEMMA EmptyPair ==
  ASSUME NEW s \in Seq(Nat), Len(s) = 0
  PROVE  ~isQueryParam(KeyOf(s))
<1>1. UpTo(s, 1, {Equals}) = 1
  <2>1. 1 \in 1..Len(s) + 1 /\ IsFirst(s, 1, {Equals}, 1)
    BY DEF IsFirst
  <2> QED BY <2>1, UpToIs
<1>2. KeyOf(s) = <<>>
  BY <1>1, SubSeqEmpty DEF KeyOf
<1>3. urlDecoded(<<>>) = <<>>
  BY EmptySeq, EmptyDecoded
<1>4. Name # <<>>
  BY DEF Name
<1> QED BY <1>2, <1>3, <1>4 DEF isQueryParam

\* Where pairs begin.
LEMMA BeginsMerged ==
  ASSUME NEW u, NEW c, NEW m, Joins(m, u, c), NEW by, by = Len(u) + 1
  PROVE  /\ \A b \in 1..Len(u) : b \in Begins(m) <=> b \in Begins(u)
         /\ by \in Begins(m) => Pair(m, by) = <<>>
         /\ \A b \in 1..Len(c) : by + b \in Begins(m) <=> b \in Begins(c)
         /\ \A n \in Begins(m) :
              n \in 1..Len(u) \/ n = by \/ \E b \in 1..Len(c) : n = by + b
<1>0. /\ Len(m) = by + Len(c) /\ by \in Nat \ {0} /\ Len(u) \in Nat /\ Len(c) \in Nat
      /\ m \in Seq(Nat) /\ u \in Seq(Nat) /\ c \in Seq(Nat)
  BY DEF Joins
<1>1. /\ m[by] \in Separators
      /\ \A k \in 1..Len(u) : m[k] = u[k]
      /\ \A k \in 1..Len(c) : m[by + k] = c[k]
  BY DEF Joins, Separators
<1>2. ASSUME NEW b \in 1..Len(u) PROVE b \in Begins(m) <=> b \in Begins(u)
  <2>1. b \in DOMAIN m /\ b \in DOMAIN u
    BY <1>0
  <2>2. CASE b = 1
    BY <2>1, <2>2 DEF Begins
  <2>3. CASE b # 1
    <3>1. b - 1 \in 1..Len(u)
      BY <1>0, <2>3
    <3>2. m[b - 1] = u[b - 1]
      BY <1>1, <3>1
    <3> QED BY <2>1, <2>3, <3>2 DEF Begins
  <2> QED BY <2>2, <2>3
<1>3. Pair(m, by) = <<>>
  <2>1. by \in DOMAIN m /\ by \in 1..Len(m) + 1 /\ by \in by..Len(m) + 1 /\ by - 1 < by
    BY <1>0
  <2>2. IsFirst(m, by, Separators, by)
    BY <1>0, <1>1, <2>1 DEF IsFirst
  <2>3. UpTo(m, by, Separators) = by
    BY <1>0, <2>1, <2>2, UpToIs
  <2> QED BY <1>0, <2>1, <2>3, SubSeqEmpty DEF Pair
<1>4. ASSUME NEW b \in 1..Len(c) PROVE by + b \in Begins(m) <=> b \in Begins(c)
  <2>1. by + b \in DOMAIN m /\ b \in DOMAIN c /\ by + b # 1
    BY <1>0
  <2>2. CASE b = 1
    <3>1. (by + b) - 1 = by
      BY <1>0, <2>2
    <3> QED BY <1>1, <2>1, <2>2, <3>1 DEF Begins
  <2>3. CASE b # 1
    <3>1. b - 1 \in 1..Len(c) /\ (by + b) - 1 = by + (b - 1)
      BY <1>0, <2>3
    <3>2. m[(by + b) - 1] = c[b - 1]
      BY <1>1, <3>1
    <3> QED BY <2>1, <2>3, <3>2 DEF Begins
  <2> QED BY <2>2, <2>3
<1>5. ASSUME NEW n \in Begins(m)
      PROVE  n \in 1..Len(u) \/ n = by \/ \E b \in 1..Len(c) : n = by + b
  <2>1. n \in 1..by + Len(c)
    BY <1>0 DEF Begins
  <2>2. CASE n > by
    <3>1. n - by \in 1..Len(c) /\ n = by + (n - by)
      BY <1>0, <2>1, <2>2
    <3> QED BY <3>1
  <2>3. CASE ~(n > by)
    BY <1>0, <2>1, <2>3
  <2> QED BY <2>2, <2>3
<1> QED BY <1>2, <1>3, <1>4, <1>5

\* The pairs named query are the client's, where the upstream has none.
LEMMA QueryMerged ==
  ASSUME NEW u, NEW c, NEW m, Joins(m, u, c), QueryBegins(u) = {},
         NEW by, by = Len(u) + 1
  PROVE  QueryBegins(m) = {by + b : b \in QueryBegins(c)}
<1> DEFINE IsQuery(s, b) == isQueryParam(KeyOf(Pair(s, b)))
<1>0. /\ by \in Nat \ {0} /\ Len(u) \in Nat /\ Len(c) \in Nat
      /\ u \in Seq(Nat) /\ c \in Seq(Nat)
  BY DEF Joins
<1>1. \A s, b : b \in QueryBegins(s) <=> b \in Begins(s) /\ IsQuery(s, b)
  BY DEF QueryBegins
<1>2. \A b \in 1..Len(u) : IsQuery(m, b) <=> IsQuery(u, b)
  BY PairOfUpstream
<1>3. \A b \in 1..Len(c) : IsQuery(m, by + b) <=> IsQuery(c, b)
  BY PairOfClient
<1>4. by \in Begins(m) => ~IsQuery(m, by)
  <2>1. <<>> \in Seq(Nat) /\ Len(<<>>) = 0
    BY EmptySeq
  <2>2. ~isQueryParam(KeyOf(<<>>))
    BY <2>1, EmptyPair
  <2> QED BY <2>2, BeginsMerged
<1>5. Begins(c) \subseteq 1..Len(c)
  BY <1>0 DEF Begins
<1>6. /\ \A b \in 1..Len(u) : b \in Begins(m) <=> b \in Begins(u)
      /\ \A b \in 1..Len(c) : by + b \in Begins(m) <=> b \in Begins(c)
      /\ \A n \in Begins(m) : n \in 1..Len(u) \/ n = by \/ \E b \in 1..Len(c) : n = by + b
  BY BeginsMerged
<1> HIDE DEF IsQuery
<1>7. ASSUME NEW n \in QueryBegins(m) PROVE \E b \in QueryBegins(c) : n = by + b
  <2>1. n \in Begins(m) /\ IsQuery(m, n)
    BY <1>1
  <2>2. n \notin 1..Len(u)
    BY <1>1, <1>2, <1>6, <2>1
  <2>3. n # by
    BY <1>4, <2>1
  <2>4. PICK b \in 1..Len(c) : n = by + b
    BY <1>6, <2>1, <2>2, <2>3
  <2> QED BY <1>1, <1>3, <1>6, <2>1, <2>4
<1>8. ASSUME NEW b \in QueryBegins(c) PROVE by + b \in QueryBegins(m)
  <2>1. b \in Begins(c) /\ IsQuery(c, b) /\ b \in 1..Len(c)
    BY <1>1, <1>5
  <2> QED BY <1>1, <1>3, <1>6, <2>1
<1> QED BY <1>7, <1>8

\* What is read of a query string is what the pair named query has, where there is one.
LEMMA ReadsPairs ==
  ASSUME NEW s, NEW t, QueryBegins(s) = {} <=> QueryBegins(t) = {},
         (\E b, d \in QueryBegins(s) : b # d) <=> (\E b, d \in QueryBegins(t) : b # d),
         \A b \in QueryBegins(s), d \in QueryBegins(t) :
           QueryBegins(s) = {b} /\ QueryBegins(t) = {d} => Pair(s, b) = Pair(t, d)
  PROVE  extractQueryParam(s) = extractQueryParam(t)
<1> DEFINE b0 == CHOOSE b \in QueryBegins(s) : TRUE
           d0 == CHOOSE d \in QueryBegins(t) : TRUE
<1>1. CASE QueryBegins(s) = {}
  BY <1>1 DEF extractQueryParam
<1>2. CASE \E b, d \in QueryBegins(s) : b # d
  BY <1>2 DEF extractQueryParam
<1>3. CASE QueryBegins(s) # {} /\ ~\E b, d \in QueryBegins(s) : b # d
  <2>1. b0 \in QueryBegins(s) /\ d0 \in QueryBegins(t)
    BY <1>3
  <2>2. QueryBegins(s) = {b0} /\ QueryBegins(t) = {d0}
    BY <1>3, <2>1
  <2>3. Pair(s, b0) = Pair(t, d0)
    BY <2>1, <2>2
  <2>4. urlDecoded(ValueOf(Pair(s, b0))) = urlDecoded(ValueOf(Pair(t, d0)))
    BY <2>3
  <2> QED BY <1>3, <2>4 DEF extractQueryParam
<1> QED BY <1>1, <1>2, <1>3

\* A query string the upstream has of its own, which names no query, changes nothing of
\* what is read of the client's, whatever either says (extract.go:360-383).
LEMMA MergeReads ==
  ASSUME NEW u \in Seq(Nat), NEW c \in Seq(Nat), ~hasQueryParam(u)
  PROVE  extractQueryParam(mergeQuery(u, c)) = extractQueryParam(c)
<1> DEFINE m == mergeQuery(u, c)
<1>0. QueryBegins(u) = {}
  BY DEF hasQueryParam
<1>1. CASE u = <<>>
  BY <1>1 DEF mergeQuery
<1>2. CASE u # <<>> /\ c = <<>>
  <2>1. m = u
    BY <1>2 DEF mergeQuery
  <2>2. QueryBegins(c) = {}
    BY <1>2 DEF QueryBegins, Begins
  <2> HIDE DEF m
  <2>3. extractQueryParam(m) = extractQueryParam(c)
    BY <1>0, <2>1, <2>2, ReadsPairs
  <2> QED BY <2>3 DEF m
<1>3. CASE u # <<>> /\ c # <<>>
  <2> DEFINE by == Len(u) + 1
  <2>1. Joins(m, u, c)
    BY <1>3, Merged DEF BothSaid
  <2> HIDE DEF m, by
  <2>2. QueryBegins(m) = {by + b : b \in QueryBegins(c)}
    BY <1>0, <2>1, QueryMerged DEF by
  <2>3. by \in Nat /\ QueryBegins(c) \subseteq 1..Len(c) /\ Len(c) \in Nat
    BY DEF by, QueryBegins, Begins
  <2>4. \A b \in QueryBegins(c) : Pair(m, by + b) = Pair(c, b)
    BY <2>1, <2>3, PairOfClient DEF by
  <2>5. QueryBegins(m) = {} <=> QueryBegins(c) = {}
    BY <2>2
  <2>6. \A b, d \in QueryBegins(c) : by + b = by + d <=> b = d
    BY <2>3
  <2>7. (\E b, d \in QueryBegins(m) : b # d) <=> (\E b, d \in QueryBegins(c) : b # d)
    <3>1. ASSUME NEW b \in QueryBegins(m), NEW d \in QueryBegins(m), b # d
          PROVE  \E x, y \in QueryBegins(c) : x # y
      <4>1. PICK x \in QueryBegins(c), y \in QueryBegins(c) : b = by + x /\ d = by + y
        BY <2>2
      <4> QED BY <3>1, <4>1
    <3>2. ASSUME NEW b \in QueryBegins(c), NEW d \in QueryBegins(c), b # d
          PROVE  \E x, y \in QueryBegins(m) : x # y
      <4>1. by + b \in QueryBegins(m) /\ by + d \in QueryBegins(m) /\ by + b # by + d
        BY <2>2, <2>6, <3>2
      <4> QED BY <4>1
    <3> QED BY <3>1, <3>2
  <2>8. ASSUME NEW b \in QueryBegins(m), NEW d \in QueryBegins(c), QueryBegins(c) = {d}
        PROVE  Pair(m, b) = Pair(c, d)
    BY <2>2, <2>4, <2>8
  <2>9. extractQueryParam(m) = extractQueryParam(c)
    BY <2>5, <2>7, <2>8, ReadsPairs
  <2> QED BY <2>9 DEF m
<1> QED BY <1>1, <1>2, <1>3

\* From i up to j, s is t that much further on.
Moved(s, t, i, j, by) ==
  /\ s \in Seq(Nat) /\ t \in Seq(Nat) /\ by \in Int
  /\ i \in 1..Len(s) /\ j \in i + 1..Len(s) + 1
  /\ i + by \in 1..Len(t) /\ j + by \in 1..Len(t) + 1
  /\ \A k \in i..j - 1 : t[k + by] = s[k]

\* What Moved says of the positions.
LEMMA MovedBounds ==
  ASSUME NEW s, NEW t, NEW i, NEW j, NEW by, Moved(s, t, i, j, by)
  PROVE  /\ by \in Int /\ Len(s) \in Nat /\ Len(t) \in Nat /\ i \in Int /\ j \in Int
         /\ 1 <= i /\ i + 1 <= j /\ j <= Len(s) + 1
         /\ 1 <= i + by /\ j + by <= Len(t) + 1
<1>1. s \in Seq(Nat) /\ t \in Seq(Nat) /\ by \in Int
  BY Zenon DEF Moved
<1>2. Len(s) \in Nat /\ Len(t) \in Nat
  BY <1>1, LenProperties
<1>3. i \in 1..Len(s) /\ j \in i + 1..Len(s) + 1
  BY Zenon DEF Moved
<1>4. i + by \in 1..Len(t) /\ j + by \in 1..Len(t) + 1
  BY Zenon DEF Moved
<1> DEFINE m == Len(s)
           n == Len(t)
<1>5. i \in 1..m /\ j \in i + 1..m + 1 /\ m \in Nat /\ n \in Nat
  BY <1>2, <1>3
<1>6. i + by \in 1..n /\ j + by \in 1..n + 1
  BY <1>4
<1> HIDE DEF m, n
<1>7. /\ i \in Int /\ j \in Int /\ 1 <= i /\ i + 1 <= j /\ j <= m + 1
      /\ 1 <= i + by /\ j + by <= n + 1
  BY <1>1, <1>5, <1>6
<1> QED BY <1>1, <1>2, <1>7 DEF m, n

\* p is cut from t where q is cut from s, that much further on.
CutAlike(s, t, i, j, by, a, b, x, y, p, q) ==
  /\ Moved(s, t, i, j, by)
  /\ a \in i..j - 1 /\ b \in a..j - 1 /\ x = a + by /\ y = b + by
  /\ q = SubSeq(s, a, b) /\ p = SubSeq(t, x, y)

LEMMA SubSeqMoved ==
  ASSUME NEW s, NEW t, NEW i, NEW j, NEW by, NEW a, NEW b, NEW x, NEW y, NEW p, NEW q,
         CutAlike(s, t, i, j, by, a, b, x, y, p, q)
  PROVE  p = q
<1> DEFINE n == b - a + 1
<1>m. Moved(s, t, i, j, by)
  BY DEF CutAlike
<1>q. q = SubSeq(s, a, b) /\ p = SubSeq(t, x, y)
  BY DEF CutAlike
<1>0. a \in i..j - 1 /\ b \in a..j - 1 /\ x = a + by /\ y = b + by
  BY DEF CutAlike
<1>1. /\ s \in Seq(Nat) /\ t \in Seq(Nat) /\ by \in Int /\ Len(s) \in Nat /\ Len(t) \in Nat
      /\ i \in Int /\ j \in Int /\ a \in Int /\ b \in Int
      /\ i >= 1 /\ j <= Len(s) + 1 /\ i + by >= 1 /\ j + by <= Len(t) + 1
      /\ \A k \in i..j - 1 : t[k + by] = s[k]
  BY <1>0, <1>m DEF Moved
<1>2. \A k \in a..b : s[k] \in Nat
  BY <1>0, <1>1, SMTT(30)
<1>3. \A k \in x..y : t[k] \in Nat
  BY <1>0, <1>1, SMTT(30)
<1>a. a \in Int /\ b \in Int /\ by \in Int /\ a <= b
  BY <1>0, <1>1
<1>4. /\ x \in Int /\ y \in Int /\ x <= y /\ a <= b /\ y - x + 1 = n /\ b - a + 1 = n
      /\ n \in Nat
  BY <1>0, <1>a
<1> HIDE DEF n
<1>5. /\ SubSeq(s, a, b) \in Seq(Nat) /\ Len(SubSeq(s, a, b)) = n
      /\ \A k \in 1..n : SubSeq(s, a, b)[k] = s[a + k - 1]
  BY <1>2, <1>4, <1>a, SubSeqProperties
<1>6. /\ SubSeq(t, x, y) \in Seq(Nat) /\ Len(SubSeq(t, x, y)) = n
      /\ \A k \in 1..n : SubSeq(t, x, y)[k] = t[x + k - 1]
  BY <1>3, <1>4, SubSeqProperties
<1>7. ASSUME NEW k \in 1..n PROVE t[x + k - 1] = s[a + k - 1]
  <2>1. a + k - 1 \in i..j - 1 /\ x + k - 1 = (a + k - 1) + by
    BY <1>0, <1>1, <1>4
  <2> QED BY <1>1, <2>1
<1>8. q \in Seq(Nat) /\ Len(q) = n /\ \A k \in 1..n : q[k] = s[a + k - 1]
  BY <1>q, <1>5
<1>9. p \in Seq(Nat) /\ Len(p) = n /\ \A k \in 1..n : p[k] = t[x + k - 1]
  BY <1>q, <1>6
<1>b. \A k \in 1..n : p[k] = q[k]
  BY <1>7, <1>8, <1>9
<1> QED BY <1>8, <1>9, <1>b, SeqEqual

\* Four digits that are moved have the value they had.
LEMMA DigitsMoved ==
  ASSUME NEW s, NEW t, NEW i, NEW j, NEW by, Moved(s, t, i, j, by), j = i + 6
  PROVE  Value(t, (i + by) + 2) = Value(s, i + 2)
<1> DEFINE a == i + 2
           b == ((i + 2) + 4) - 1
           x == (i + by) + 2
           y == (((i + by) + 2) + 4) - 1
<1>1. /\ s \in Seq(Nat) /\ t \in Seq(Nat) /\ by \in Int /\ i \in Int /\ j \in Int
      /\ Len(s) \in Nat /\ Len(t) \in Nat
  BY DEF Moved
<1>2. a \in i..j - 1
  BY <1>1
<1>3. b \in a..j - 1
  BY <1>1
<1>4. x = a + by
  BY <1>1
<1>5. y = b + by
  BY <1>1
<1> DEFINE p == SubSeq(t, x, y)
           q == SubSeq(s, a, b)
<1>p. p = SubSeq(t, x, y) /\ q = SubSeq(s, a, b)
  OBVIOUS
<1> HIDE DEF a, b, x, y, p, q
<1>6. CutAlike(s, t, i, j, by, a, b, x, y, p, q)
  BY <1>2, <1>3, <1>4, <1>5, <1>p, Zenon DEF CutAlike
<1>7. p = q
  BY <1>6, SubSeqMoved
<1> QED BY <1>7, Zenon DEF a, b, x, y, p, q, Value, HexValue

\* What is spelled is spelled alike further on, where an escape that is none stays none.
LEMMA InQueryMoved ==
  ASSUME NEW s, NEW t, NEW i, NEW j, NEW by, Moved(s, t, i, j, by), NEW v,
         InQuery(s, i, j, v),
         v = BadEscape /\ j + by <= Len(t) /\ IsHexDigit(t[j + by]) =>
           j <= Len(s) /\ IsHexDigit(s[j])
  PROVE  InQuery(t, i + by, j + by, v)
<1>0. /\ by \in Int /\ Len(s) \in Nat /\ Len(t) \in Nat /\ i \in Int /\ j \in Int
      /\ j >= i + 1
  BY MovedBounds
<1>1. /\ by \in Int /\ Len(s) \in Nat /\ Len(t) \in Nat /\ i \in Int /\ j \in Int
      /\ \A k \in i..j - 1 : t[k + by] = s[k]
      /\ i \in i..j - 1
  <2>1. \A k \in i..j - 1 : t[k + by] = s[k]
    BY Zenon DEF Moved
  <2>2. i \in i..j - 1
    BY <1>0
  <2> QED BY <1>0, <2>1, <2>2
<1>2. t[i + by] = s[i]
  BY <1>1
<1>3. CASE j = i + 1 /\ s[i] = v /\ v \notin Marks \cup {Percent, Plus}
  BY <1>1, <1>2, <1>3 DEF InQuery
<1>4. CASE j = i + 1 /\ s[i] \in Marks /\ v = -s[i]
  BY <1>1, <1>2, <1>4 DEF InQuery
<1>5. CASE j = i + 1 /\ s[i] = Plus /\ v = Space
  BY <1>1, <1>2, <1>5 DEF InQuery
<1>6. CASE /\ j = i + 3 /\ s[i] = Percent /\ IsHexDigit(s[i + 1]) /\ IsHexDigit(s[i + 2])
           /\ v = 16 * DigitValue(s[i + 1]) + DigitValue(s[i + 2])
  <2>1. /\ i + 1 \in i..j - 1 /\ i + 2 \in i..j - 1
        /\ (i + 1) + by = (i + by) + 1 /\ (i + 2) + by = (i + by) + 2
        /\ j + by = (i + by) + 3
    <3>1. j = i + 3
      BY <1>6
    <3> QED BY SMTT(40), <1>1, <3>1
  <2>2. t[(i + by) + 1] = s[i + 1] /\ t[(i + by) + 2] = s[i + 2]
    BY <1>1, <2>1
  <2> QED BY <1>2, <1>6, <2>1, <2>2 DEF InQuery
<1>7. CASE /\ j \in i + 1..i + 2 /\ s[i] = Percent /\ v = BadEscape
           /\ j = i + 2 => IsHexDigit(s[i + 1])
           /\ j <= Len(s) => ~IsHexDigit(s[j])
  <2>1. j + by \in (i + by) + 1..(i + by) + 2
    BY <1>1, <1>7
  <2>2. ASSUME j + by = (i + by) + 2 PROVE IsHexDigit(t[(i + by) + 1])
    <3>1. j = i + 2 /\ i + 1 \in i..j - 1 /\ (i + 1) + by = (i + by) + 1
      BY <1>1, <2>2
    <3> QED BY <1>1, <1>7, <3>1
  <2>3. j + by <= Len(t) => ~IsHexDigit(t[j + by])
    BY <1>7
  <2> QED BY <1>2, <1>7, <2>1, <2>2, <2>3 DEF InQuery
<1> QED BY <1>3, <1>4, <1>5, <1>6, <1>7 DEF InQuery

LEMMA InMemberMoved ==
  ASSUME NEW s, NEW t, NEW i, NEW j, NEW by, Moved(s, t, i, j, by), NEW v,
         InMember(s, i, j, v)
  PROVE  InMember(t, i + by, j + by, v)
<1>1. /\ by \in Int /\ Len(s) \in Nat /\ Len(t) \in Nat /\ i \in Int /\ j \in Int
      /\ j + by <= Len(t) + 1
      /\ \A k \in i..j - 1 : t[k + by] = s[k]
      /\ i \in i..j - 1 /\ j - 1 \in i..j - 1
      /\ (j - 1) + by = (j + by) - 1
  <2>1. \A k \in i..j - 1 : t[k + by] = s[k]
    BY Zenon DEF Moved
  <2>2. /\ by \in Int /\ Len(s) \in Nat /\ Len(t) \in Nat /\ i \in Int /\ j \in Int
        /\ j + by <= Len(t) + 1 /\ i + 1 <= j
    BY MovedBounds
  <2>3. i \in i..j - 1 /\ j - 1 \in i..j - 1 /\ (j - 1) + by = (j + by) - 1
    BY <2>2
  <2> QED BY <2>1, <2>2, <2>3
<1>2. t[i + by] = s[i]
  BY <1>1
<1>3. CASE IsScalarValue(v) /\ v \notin {Quote, Backslash} /\ SubSeq(s, i, j - 1) = utf8(v)
  <2> DEFINE p == SubSeq(t, i + by, (j + by) - 1)
             q == SubSeq(s, i, j - 1)
  <2>0. CutAlike(s, t, i, j, by, i, j - 1, i + by, (j + by) - 1, p, q)
    BY <1>1 DEF CutAlike
  <2>1. SubSeq(t, i + by, (j + by) - 1) = SubSeq(s, i, j - 1)
    BY <2>0, SubSeqMoved
  <2> QED BY <1>1, <1>3, <2>1 DEF InMember
<1>4. CASE /\ j = i + 2 /\ s[i] = Backslash
           /\ <<s[i + 1], v>> \in {<<Quote, Quote>>, <<Backslash, Backslash>>,
                <<Slash, Slash>>, <<98, 8>>, <<102, 12>>, <<110, LF>>, <<114, CR>>, <<116, Tab>>}
  <2>1. i + 1 \in i..j - 1 /\ (i + 1) + by = (i + by) + 1 /\ j + by = (i + by) + 2
    BY <1>1, <1>4
  <2>2. t[(i + by) + 1] = s[i + 1]
    BY SMTT(40), <1>1, <2>1
  <2> QED BY <1>2, <1>4, <2>1, <2>2 DEF InMember
<1>5. CASE /\ j = i + 6 /\ s[i] = Backslash /\ s[i + 1] = 117
           /\ Hex4(s, i + 2) /\ v = Value(s, i + 2)
  <2>1. /\ i + 1 \in i..j - 1 /\ (i + 1) + by = (i + by) + 1
        /\ j + by = (i + by) + 6
    BY <1>1, <1>5
  <2>2. t[(i + by) + 1] = s[i + 1]
    BY SMTT(40), <1>1, <2>1
  <2>5. Value(t, (i + by) + 2) = Value(s, i + 2)
    BY <1>5, DigitsMoved
  <2>6. ASSUME NEW k \in (i + by) + 2..((i + by) + 2) + 3 PROVE IsHexDigit(t[k])
    <3>1. k - by \in i + 2..(i + 2) + 3 /\ k - by \in i..j - 1 /\ (k - by) + by = k
      BY <1>1, <1>5
    <3>2. t[k] = s[k - by]
      BY <1>1, <3>1
    <3> QED BY <1>5, <3>1, <3>2 DEF Hex4
  <2>7. ((i + by) + 2) + 3 <= Len(t)
    BY <1>1, <2>1
  <2>8. Hex4(t, (i + by) + 2)
    BY <2>6, <2>7 DEF Hex4
  <2> QED BY <1>2, <1>5, <2>1, <2>2, <2>5, <2>8 DEF InMember
<1> QED BY <1>3, <1>4, <1>5 DEF InMember

LEMMA Joined ==
  ASSUME NEW S, NEW s \in Seq(S), NEW t \in Seq(S)
  PROVE  /\ s \o t \in Seq(S) /\ Len(s \o t) = Len(s) + Len(t)
         /\ Len(s) \in Nat /\ Len(t) \in Nat
         /\ \A k \in 1..Len(s) : (s \o t)[k] = s[k]
         /\ \A k \in 1..Len(t) : (s \o t)[Len(s) + k] = t[k]
<1>1. Len(s) \in Nat /\ Len(t) \in Nat
  BY LenProperties
<1>2. /\ s \o t \in Seq(S) /\ Len(s \o t) = Len(s) + Len(t)
      /\ \A i \in 1..Len(s) + Len(t) :
           (s \o t)[i] = IF i <= Len(s) THEN s[i] ELSE t[i - Len(s)]
  BY ConcatProperties
<1>3. ASSUME NEW k \in 1..Len(s) PROVE (s \o t)[k] = s[k]
  <2>1. k \in 1..Len(s) + Len(t) /\ k <= Len(s)
    BY <1>1
  <2> QED BY <1>2, <2>1
<1>4. ASSUME NEW k \in 1..Len(t) PROVE (s \o t)[Len(s) + k] = t[k]
  <2>1. Len(s) + k \in 1..Len(s) + Len(t) /\ ~(Len(s) + k <= Len(s))
        /\ (Len(s) + k) - Len(s) = k
    BY <1>1
  <2> QED BY <1>2, <2>1
<1> QED BY <1>1, <1>2, <1>3, <1>4

LEMMA SpelledTwice ==
  ASSUME NEW kind, NEW s \in Seq(Nat), NEW said \in Seq(Int),
         NEW t \in Seq(Nat), NEW more \in Seq(Int),
         NEW pos, Spelled(kind, s, said, pos), NEW bt, Spelled(kind, t, more, bt),
         ~(/\ kind = "query" /\ Len(said) > 0 /\ said[Len(said)] = BadEscape
           /\ Len(t) > 0 /\ IsHexDigit(t[1]))
  PROVE  \E ct : Spelled(kind, s \o t, said \o more, ct)
<1> DEFINE st == s \o t
           both == said \o more
           N == Len(said)
           M == Len(more)
           L == Len(s)
           ct == [n \in 1..N + M + 1 |-> IF n <= N THEN pos[n] ELSE L + bt[n - N]]
<1>1. /\ st \in Seq(Nat) /\ Len(st) = L + Len(t) /\ L \in Nat /\ Len(t) \in Nat
      /\ \A k \in 1..L : st[k] = s[k]
      /\ \A k \in 1..Len(t) : st[L + k] = t[k]
  BY Joined
<1>2. /\ both \in Seq(Int) /\ Len(both) = N + M /\ N \in Nat /\ M \in Nat
      /\ \A k \in 1..N : both[k] = said[k]
      /\ \A k \in 1..M : both[N + k] = more[k]
  BY Joined
<1>3. /\ \A n \in 1..N + 1 : pos[n] \in 1..L + 1
      /\ pos[1] = 1 /\ pos[N + 1] = L + 1
      /\ \A n \in 1..N : \A k \in n + 1..N + 1 : pos[n] < pos[k]
  BY DEF Spelled
<1>4. /\ \A n \in 1..M + 1 : bt[n] \in 1..Len(t) + 1
      /\ bt[1] = 1 /\ bt[M + 1] = Len(t) + 1
      /\ \A n \in 1..M : \A k \in n + 1..M + 1 : bt[n] < bt[k]
  BY DEF Spelled
<1>5. \A n \in 1..N : \/ kind = "query" /\ InQuery(s, pos[n], pos[n + 1], said[n])
                      \/ kind = "member" /\ InMember(s, pos[n], pos[n + 1], said[n])
  BY DEF Spelled
<1>6. \A n \in 1..M : \/ kind = "query" /\ InQuery(t, bt[n], bt[n + 1], more[n])
                      \/ kind = "member" /\ InMember(t, bt[n], bt[n + 1], more[n])
  BY DEF Spelled
<1> HIDE DEF st, both, N, M, L
<1>n. /\ N \in Nat /\ M \in Nat /\ Len(both) = N + M
      /\ L \in Nat /\ Len(t) \in Nat /\ Len(st) = L + Len(t)
  BY <1>1, <1>2
<1>7. ASSUME NEW n \in 1..N + 1 PROVE ct[n] = pos[n]
  <2>1. CASE n <= N
    BY <1>2, <2>1
  <2>2. CASE n = N + 1
    <3>1. n - N = 1 /\ ~(n <= N) /\ n \in 1..N + M + 1
      BY <1>2, <2>2
    <3> QED BY <1>1, <1>3, <1>4, <2>2, <3>1
  <2> QED BY <1>2, <2>1, <2>2
<1>8. ASSUME NEW n \in 1..M + 1 PROVE ct[N + n] = L + bt[n]
  <2>1. N + n \in 1..N + M + 1 /\ ~(N + n <= N) /\ (N + n) - N = n
    BY <1>2
  <2> QED BY <2>1
<1>9. ASSUME NEW n \in 1..N + M + 1
      PROVE  \/ n \in 1..N
             \/ \E k \in 1..M + 1 : n = N + k
  <2>1. CASE n > N
    <3>1. n - N \in 1..M + 1 /\ n = N + (n - N)
      BY <1>2, <2>1
    <3> QED BY <3>1
  <2> QED BY <1>2, <2>1
<1>a. ct \in [1..Len(both) + 1 -> 1..Len(st) + 1]
  <2>1. ASSUME NEW n \in 1..N + M + 1 PROVE ct[n] \in 1..L + Len(t) + 1
    <3>1. CASE n \in 1..N
      <4>1. n \in 1..N + 1
        BY <1>n, <3>1
      <4>2. ct[n] \in 1..L + 1
        BY <1>3, <1>7, <4>1
      <4> HIDE DEF ct
      <4> QED BY <1>n, <4>2
    <3>2. ASSUME NEW k \in 1..M + 1, n = N + k PROVE ct[n] \in 1..L + Len(t) + 1
      <4>1. ct[n] = L + bt[k] /\ bt[k] \in 1..Len(t) + 1
        BY <1>4, <1>8, <3>2
      <4> QED BY SMTT(40), <1>n, <4>1
    <3> QED BY <1>9, <3>1, <3>2
  <2> QED BY <1>1, <1>2, <2>1
<1> HIDE DEF ct
<1>b. ct[1] = 1 /\ ct[Len(both) + 1] = Len(st) + 1
  <2>1. 1 \in 1..N + 1 /\ M + 1 \in 1..M + 1 /\ N + (M + 1) = Len(both) + 1
    BY <1>2
  <2>2. ct[1] = 1
    BY <1>3, <1>7, <2>1
  <2>3. ct[N + (M + 1)] = L + (Len(t) + 1)
    BY <1>4, <1>8, <2>1
  <2> QED BY <1>1, <2>1, <2>2, <2>3
<1>c. ASSUME NEW n \in 1..Len(both), NEW k \in n + 1..Len(both) + 1 PROVE ct[n] < ct[k]
  <2>1. n \in 1..N + M + 1 /\ k \in 1..N + M + 1 /\ n < k /\ n \in Int /\ k \in Int
    BY <1>n
  <2>2. CASE n \in 1..N /\ k \in 1..N
    BY <1>2, <1>3, <1>7, <2>1, <2>2
  <2>3. ASSUME n \in 1..N, NEW b \in 1..M + 1, k = N + b PROVE ct[n] < ct[k]
    <3>0. n \in 1..N + 1
      BY <1>n, <2>3
    <3>a. ct[n] = pos[n]
      BY <1>7, <3>0
    <3>1. ct[n] = pos[n] /\ pos[n] < L + 1 /\ pos[n] \in Int
      BY <1>1, <1>2, <1>3, <2>3, <3>0, <3>a
    <3>2. ct[k] = L + bt[b] /\ bt[b] \in 1..Len(t) + 1
      BY <1>4, <1>8, <2>3
    <3> QED BY SMTT(40), <1>n, <3>1, <3>2
  <2>4. ASSUME NEW a \in 1..M + 1, n = N + a, NEW b \in 1..M + 1, k = N + b
        PROVE  ct[n] < ct[k]
    <3>1. a \in 1..M /\ b \in a + 1..M + 1
      BY <1>2, <2>1, <2>4
    <3>2. ct[n] = L + bt[a] /\ ct[k] = L + bt[b]
      BY <1>8, <2>4
    <3>3. bt[a] < bt[b] /\ bt[a] \in 1..Len(t) + 1 /\ bt[b] \in 1..Len(t) + 1
      BY <1>4, <2>4, <3>1
    <3> QED BY SMTT(40), <1>1, <3>2, <3>3
  <2>5. ASSUME NEW a \in 1..M + 1, n = N + a, k \in 1..N PROVE FALSE
    BY SMTT(40), <1>2, <2>1, <2>5
  <2> QED BY <1>9, <2>1, <2>2, <2>3, <2>4, <2>5
<1>d. ASSUME NEW n \in 1..Len(both)
      PROVE  \/ kind = "query" /\ InQuery(st, ct[n], ct[n + 1], both[n])
             \/ kind = "member" /\ InMember(st, ct[n], ct[n + 1], both[n])
  <2>0. n \in 1..N + M /\ n \in 1..N + M + 1
    BY <1>2
  <2>1. CASE n \in 1..N
    <3> DEFINE i == pos[n]
               j == pos[n + 1]
    <3>1. n \in 1..N + 1 /\ n + 1 \in n + 1..N + 1 /\ n + 1 \in 1..N + 1
      BY SMTT(40), <1>2, <2>1
    <3>2. ct[n] = i /\ ct[n + 1] = j /\ both[n] = said[n]
      BY <1>2, <1>7, <2>1, <3>1
    <3>3. i \in 1..L + 1 /\ j \in 1..L + 1 /\ i < j
      BY <1>3, <2>1, <3>1
    <3> HIDE DEF i, j
    <3>a. i + 0 = i /\ j + 0 = j /\ \A k \in 1..L : k + 0 = k
      BY <1>n, <3>3
    <3>4. Moved(s, st, i, j, 0)
      <4>1. ASSUME NEW k \in i..j - 1 PROVE st[k + 0] = s[k]
        <5>1. k \in 1..L
          BY <1>1, <3>3
        <5> QED BY <1>1, <3>a, <5>1
      <4>2. /\ i \in 1..L /\ j \in i + 1..L + 1
            /\ i + 0 \in 1..Len(st) /\ j + 0 \in 1..Len(st) + 1
        BY <1>1, <3>3
      <4> QED BY <1>1, <4>1, <4>2 DEF Moved, L
    <3>5. CASE kind = "member" /\ InMember(s, i, j, said[n])
      BY <3>2, <3>4, <3>5, <3>a, InMemberMoved
    <3>6. CASE kind = "query" /\ InQuery(s, i, j, said[n])
      <4>1. ASSUME said[n] = BadEscape, j <= Len(st), IsHexDigit(st[j])
            PROVE  j <= L /\ IsHexDigit(s[j])
        <5>1. CASE j <= L
          <6>1. j \in 1..L
            BY <1>n, <3>3, <5>1
          <6> QED BY <1>1, <4>1, <5>1, <6>1
        <5>2. CASE j = L + 1
          <6>1. n = N
            <7>1. CASE n < N
              <8>1. n + 1 \in 1..N /\ N + 1 \in (n + 1) + 1..N + 1
                BY <1>2, <2>1, <7>1
              <8>2. j < L + 1
                BY <1>3, <8>1 DEF j
              <8> QED BY <1>1, <5>2, <8>2
            <7> QED BY <1>2, <2>1, <7>1
          <6>2. N > 0 /\ Len(t) > 0 /\ 1 \in 1..Len(t)
            BY <1>1, <1>2, <2>1, <4>1, <5>2
          <6>3. st[j] = t[1]
            BY <1>1, <5>2, <6>2
          <6> QED BY <3>6, <4>1, <6>1, <6>2, <6>3 DEF N
        <5> QED BY <1>1, <3>3, <5>1, <5>2
      <4>2. InQuery(st, i + 0, j + 0, said[n])
        <5>1. said[n] = BadEscape /\ j + 0 <= Len(st) /\ IsHexDigit(st[j + 0]) =>
                j <= Len(s) /\ IsHexDigit(s[j])
          BY <3>a, <4>1 DEF L
        <5> QED BY <3>4, <3>6, <5>1, InQueryMoved
      <4> QED BY <3>2, <3>6, <3>a, <4>2
    <3> QED BY <1>5, <2>1, <3>5, <3>6 DEF i, j
  <2>2. ASSUME NEW m \in 1..M + 1, n = N + m
        PROVE  \/ kind = "query" /\ InQuery(st, ct[n], ct[n + 1], both[n])
               \/ kind = "member" /\ InMember(st, ct[n], ct[n + 1], both[n])
    <3> DEFINE i == bt[m]
               j == bt[m + 1]
    <3>1. m \in 1..M /\ m + 1 \in m + 1..M + 1 /\ m + 1 \in 1..M + 1 /\ n + 1 = N + (m + 1)
      BY <1>n, <2>0, <2>2
    <3>2. ct[n] = L + i /\ ct[n + 1] = L + j /\ both[n] = more[m]
      BY <1>2, <1>8, <2>2, <3>1
    <3>3. i \in 1..Len(t) + 1 /\ j \in 1..Len(t) + 1 /\ i < j
      BY <1>4, <3>1
    <3> HIDE DEF i, j
    <3>a. i + L = L + i /\ j + L = L + j
      BY <1>1, <3>3
    <3>4. Moved(t, st, i, j, L)
      <4>1. ASSUME NEW k \in i..j - 1 PROVE st[k + L] = t[k]
        <5>1. k \in 1..Len(t) /\ k + L = L + k
          BY <1>1, <3>3
        <5> QED BY <1>1, <5>1
      <4>2. /\ i \in 1..Len(t) /\ j \in i + 1..Len(t) + 1
            /\ i + L \in 1..Len(st) /\ j + L \in 1..Len(st) + 1
        <5>1. L \in Nat /\ Len(t) \in Nat /\ Len(st) = L + Len(t)
          BY <1>1
        <5> DEFINE x == Len(t)
                   y == Len(st)
        <5>2. x \in Nat /\ y = L + x /\ i \in 1..x + 1 /\ j \in 1..x + 1 /\ i < j
          BY <3>3, <5>1
        <5> HIDE DEF x, y
        <5>3. /\ i \in 1..x /\ j \in i + 1..x + 1
              /\ i + L \in 1..y /\ j + L \in 1..y + 1
          BY <5>1, <5>2
        <5> QED BY <5>3 DEF x, y
      <4> QED BY <1>1, <4>1, <4>2 DEF Moved
    <3>5. CASE kind = "member" /\ InMember(t, i, j, more[m])
      <4>1. InMember(st, i + L, j + L, more[m])
        BY <3>4, <3>5, InMemberMoved
      <4> QED BY <3>2, <3>5, <3>a, <4>1
    <3>6. CASE kind = "query" /\ InQuery(t, i, j, more[m])
      <4>1. ASSUME j + L <= Len(st), IsHexDigit(st[j + L])
            PROVE  j <= Len(t) /\ IsHexDigit(t[j])
        <5>1. j \in 1..Len(t) /\ j + L = L + j
          BY <1>1, <3>3, <4>1
        <5> QED BY <1>1, <3>3, <4>1, <5>1
      <4>2. InQuery(st, i + L, j + L, more[m])
        BY <3>4, <3>6, <4>1, InQueryMoved
      <4> QED BY <3>2, <3>6, <3>a, <4>2
    <3> QED BY <1>6, <3>1, <3>5, <3>6 DEF i, j
  <2> QED BY <1>9, <2>0, <2>1, <2>2
<1>e. Spelled(kind, st, both, ct)
  BY <1>a, <1>b, <1>c, <1>d DEF Spelled
<1> QED BY <1>e DEF st, both

\* The text read so far is spelled as it is meant, and so is each piece of it.
TextSpelled ==
  /\ bytes \in Seq(Nat) /\ meant \in Seq(Int)
  /\ \E pos : Spelled(text.kind, bytes, meant, pos)
  /\ \A p \in text.pieces :
       /\ p.bytes \in Seq(Nat) /\ p.value \in Seq(Int)
       /\ \E pos : Spelled(text.kind, p.bytes, p.value, pos)

LEMMA NothingSpelled == ASSUME NEW kind PROVE Spelled(kind, <<>>, <<>>, [n \in 1..1 |-> 1])
<1>1. Len(<<>>) = 0
  BY EmptySeq
<1> QED BY <1>1 DEF Spelled

LEMMA InitText == WireInit => TextSpelled
<1> SUFFICES ASSUME WireInit PROVE TextSpelled
  OBVIOUS
<1>1. bytes = <<>> /\ meant = <<>>
  BY DEF WireInit, NothingRead, TextInit
<1>2. bytes \in Seq(Nat) /\ meant \in Seq(Int)
  BY <1>1, EmptySeq
<1>3. \E pos : Spelled(text.kind, bytes, meant, pos)
  BY <1>1, NothingSpelled
<1>4. CASE text \in Texts
  <2>1. ASSUME NEW p \in text.pieces
        PROVE  /\ p.bytes \in Seq(Nat) /\ p.value \in Seq(Int)
               /\ \E pos : Spelled(text.kind, p.bytes, p.value, pos)
    BY <1>4, TextsAssumption
  <2> QED BY <1>2, <1>3, <2>1 DEF TextSpelled
<1>5. CASE text = NoText \/ text = [NoText EXCEPT !.kind = "header"]
  <2>1. text.pieces = {}
    BY <1>5 DEF NoText
  <2> QED BY <1>2, <1>3, <2>1 DEF TextSpelled
<1> QED BY <1>4, <1>5 DEF WireInit, TextInit

LEMMA NextText == TextSpelled /\ [WireNext]_wireVars => TextSpelled'
<1> SUFFICES ASSUME TextSpelled, [WireNext]_wireVars PROVE TextSpelled'
  OBVIOUS
<1>1. CASE Continue
  <2>1. PICK p \in text.pieces : /\ ~Completes(p.bytes)
                                 /\ bytes' = bytes \o p.bytes /\ meant' = meant \o p.value
    BY <1>1 DEF Continue
  <2>2. text' = text
    BY <1>1 DEF Continue
  <2>3. /\ bytes \in Seq(Nat) /\ meant \in Seq(Int)
        /\ p.bytes \in Seq(Nat) /\ p.value \in Seq(Int)
    BY DEF TextSpelled
  <2>4. bytes' \in Seq(Nat) /\ meant' \in Seq(Int)
    BY <2>1, <2>3, ConcatProperties
  <2>5. PICK pos : Spelled(text.kind, bytes, meant, pos)
    BY DEF TextSpelled
  <2>6. PICK bt : Spelled(text.kind, p.bytes, p.value, bt)
    BY DEF TextSpelled
  <2>7. \E ct : Spelled(text.kind, bytes \o p.bytes, meant \o p.value, ct)
    BY <2>1, <2>3, <2>5, <2>6, SpelledTwice DEF Completes
  <2>8. \E ct : Spelled(text'.kind, bytes', meant', ct)
    BY <2>1, <2>2, <2>7
  <2> QED BY <2>2, <2>4, <2>8 DEF TextSpelled
<1>2. CASE UNCHANGED <<text, bytes, meant>>
  BY <1>2 DEF TextSpelled
<1> QED BY <1>1, <1>2 DEF WireNext, wireVars, partVars, AddHeader

-----------------------------------------------------------------------------
(* A query string and what it means, unit by unit.                         *)

Negatives(X) == {-b : b \in X}

\* How a text spells what is said.
Query(s, said, pos) ==
  s \in Seq(Nat) /\ said \in Seq(Int) /\ Spelled("query", s, said, pos)

LEMMA Units ==
  ASSUME NEW kind, NEW s \in Seq(Nat), NEW said \in Seq(Int), NEW pos,
         Spelled(kind, s, said, pos)
  PROVE  /\ Len(s) \in Nat /\ Len(said) \in Nat
         /\ pos[1] = 1 /\ pos[Len(said) + 1] = Len(s) + 1
         /\ \A n \in 1..Len(said) + 1 : pos[n] \in 1..Len(s) + 1
         /\ \A n, k \in 1..Len(said) + 1 : n < k => pos[n] < pos[k]
         /\ \A n, k \in 1..Len(said) + 1 : n <= k => pos[n] <= pos[k]
         /\ \A n \in 1..Len(said) :
              /\ n \in 1..Len(said) + 1 /\ n + 1 \in 1..Len(said) + 1
              /\ pos[n] \in 1..Len(s) /\ pos[n + 1] \in pos[n] + 1..Len(s) + 1
<1>1. Len(s) \in Nat /\ Len(said) \in Nat
  OBVIOUS
<1>2. /\ pos[1] = 1 /\ pos[Len(said) + 1] = Len(s) + 1
      /\ \A n \in 1..Len(said) + 1 : pos[n] \in 1..Len(s) + 1
      /\ \A n \in 1..Len(said) : \A k \in n + 1..Len(said) + 1 : pos[n] < pos[k]
  BY DEF Spelled
<1>3. ASSUME NEW n \in 1..Len(said) + 1, NEW k \in 1..Len(said) + 1, n < k
      PROVE  pos[n] < pos[k]
  <2>1. n \in 1..Len(said) /\ k \in n + 1..Len(said) + 1
    BY <1>1, <1>3
  <2> QED BY <1>2, <2>1
<1>4. ASSUME NEW n \in 1..Len(said) + 1, NEW k \in 1..Len(said) + 1, n <= k
      PROVE  pos[n] <= pos[k]
  <2>1. pos[n] \in 1..Len(s) + 1 /\ pos[k] \in 1..Len(s) + 1
    BY <1>2
  <2>2. CASE n = k
    BY <1>1, <2>1, <2>2
  <2>3. CASE n # k
    <3>1. n < k
      BY <1>1, <1>4, <2>3
    <3>2. pos[n] < pos[k]
      BY <1>3, <3>1
    <3> QED BY <1>1, <2>1, <3>2
  <2> QED BY <2>2, <2>3
<1>5. ASSUME NEW n \in 1..Len(said)
      PROVE  /\ n \in 1..Len(said) + 1 /\ n + 1 \in 1..Len(said) + 1
             /\ pos[n] \in 1..Len(s) /\ pos[n + 1] \in pos[n] + 1..Len(s) + 1
  <2>1. n \in 1..Len(said) + 1 /\ n + 1 \in 1..Len(said) + 1 /\ n < n + 1
    BY <1>1
  <2>2. /\ pos[n] \in 1..Len(s) + 1 /\ pos[n + 1] \in 1..Len(s) + 1
        /\ pos[n] < pos[n + 1]
    BY <1>2, <1>3, <2>1
  <2> QED BY <1>1, <2>1, <2>2
<1> QED BY <1>1, <1>2, <1>3, <1>4, <1>5

\* Every byte is of some unit.
LEMMA UnitOf ==
  ASSUME NEW kind, NEW s \in Seq(Nat), NEW said \in Seq(Int), NEW pos,
         Spelled(kind, s, said, pos), NEW i \in 1..Len(s)
  PROVE  \E n \in 1..Len(said) : pos[n] <= i /\ i < pos[n + 1]
<1> DEFINE N == Len(said)
           T == {n \in 1..N + 1 : pos[n] > i}
<1>1. N \in Nat /\ Len(s) \in Nat /\ N + 1 \in T /\ T \subseteq Nat /\ 1 \notin T
  <2>1. pos[N + 1] = Len(s) + 1 /\ pos[1] = 1 /\ N \in Nat /\ Len(s) \in Nat
    BY Units
  <2> QED BY <2>1
<1>2. PICK j \in T : \A k \in T : ~(<<k, j>> \in OpToRel(<, Nat))
  BY <1>1, WFMin, NatLessThanWellFounded
<1>3. \A k \in T : ~(k < j)
  BY <1>1, <1>2 DEF OpToRel
<1>4. j \in 1..N + 1 /\ j # 1 /\ pos[j] > i
  BY <1>1, <1>2
<1> DEFINE n == j - 1
<1>5. n \in 1..N /\ n + 1 = j /\ n \in 1..N + 1 /\ n < j
  BY <1>1, <1>4
<1>6. n \notin T
  BY <1>3, <1>5
<1>7. pos[n] \in 1..Len(s) + 1
  BY <1>5, Units
<1>8. pos[n] <= i
  BY <1>1, <1>5, <1>6, <1>7
<1> QED BY <1>4, <1>5, <1>8

\* A unit of a query string is a mark where one is meant, and has none within.
LEMMA MarksMeant ==
  ASSUME NEW s, NEW said, NEW pos, Query(s, said, pos), NEW n \in 1..Len(said)
  PROVE  /\ \A X \in SUBSET Marks : s[pos[n]] \in X <=> said[n] \in Negatives(X)
         /\ s[pos[n]] \in Marks => pos[n + 1] = pos[n] + 1 /\ said[n] = -s[pos[n]]
         /\ \A k \in pos[n] + 1..pos[n + 1] - 1 : s[k] \notin Marks
<1> DEFINE i == pos[n]
           j == pos[n + 1]
           v == said[n]
<1>1. i \in 1..Len(s) /\ j \in i + 1..Len(s) + 1 /\ Len(s) \in Nat
  BY Units DEF Query
<1>2. InQuery(s, i, j, v)
  BY DEF Query, Spelled
<1>3. s[i] \in Nat /\ v \in Int
  BY SMTT(40), <1>1 DEF Query
<1> HIDE DEF i, j, v
<1>4. Marks = {38, 59, 61} /\ \A b \in Marks : ~IsHexDigit(b)
  BY DEF Marks, And, Semicolon, Equals, IsHexDigit, Digits
<1>5. CASE j = i + 1 /\ s[i] \in Marks /\ v = -s[i]
  <2>1. \A X \in SUBSET Marks : s[i] \in X <=> v \in Negatives(X)
    <3>1. \A X \in SUBSET Marks : v \in Negatives(X) <=> \E b \in X : v = -b
      BY DEF Negatives
    <3>2. \A b \in Marks : v = -b <=> b = s[i]
      BY <1>3, <1>4, <1>5
    <3> QED BY <3>1, <3>2
  <2> QED BY <1>1, <1>5, <2>1 DEF i, j, v
<1>6. ASSUME v >= -1, s[i] \notin Marks, \A k \in i + 1..j - 1 : IsHexDigit(s[k])
      PROVE  /\ \A X \in SUBSET Marks : s[i] \in X <=> v \in Negatives(X)
             /\ \A k \in i + 1..j - 1 : s[k] \notin Marks
  <2>1. \A b \in Marks : v # -b
    BY <1>3, <1>4, <1>6
  <2>2. \A X \in SUBSET Marks : s[i] \notin X /\ v \notin Negatives(X)
    BY <1>6, <2>1 DEF Negatives
  <2> QED BY <1>4, <1>6, <2>2
<1>7. CASE j = i + 1 /\ s[i] = v /\ v \notin Marks \cup {Percent, Plus}
  <2>1. v >= -1 /\ s[i] \notin Marks /\ \A k \in i + 1..j - 1 : IsHexDigit(s[k])
    BY <1>1, <1>3, <1>7
  <2> QED BY <1>6, <2>1 DEF i, j, v
<1>8. CASE j = i + 1 /\ s[i] = Plus /\ v = Space
  <2>1. v >= -1 /\ s[i] \notin Marks /\ \A k \in i + 1..j - 1 : IsHexDigit(s[k])
    BY <1>1, <1>4, <1>8 DEF Plus, Space
  <2> QED BY <1>6, <2>1 DEF i, j, v
<1>9. CASE /\ j = i + 3 /\ s[i] = Percent /\ IsHexDigit(s[i + 1]) /\ IsHexDigit(s[i + 2])
           /\ v = 16 * DigitValue(s[i + 1]) + DigitValue(s[i + 2])
  <2>1. s[i + 1] \in Nat /\ s[i + 2] \in Nat
    <3>1. \A b : IsHexDigit(b) => b \in Nat
      BY DEF IsHexDigit, Digits
    <3> QED BY <1>9, <3>1
  <2>2. \A b \in Nat : IsHexDigit(b) => DigitValue(b) \in 0..15
    BY DEF IsHexDigit, DigitValue, Digits
  <2>3. DigitValue(s[i + 1]) \in 0..15 /\ DigitValue(s[i + 2]) \in 0..15
    BY <1>9, <2>1, <2>2
  <2>4. v >= -1
    <3> DEFINE x == DigitValue(s[i + 1])
               y == DigitValue(s[i + 2])
    <3>1. x \in 0..15 /\ y \in 0..15 /\ v = 16 * x + y
      BY <1>9, <2>3
    <3> HIDE DEF x, y
    <3> QED BY <3>1
  <2>5. s[i] \notin Marks
    BY <1>4, <1>9 DEF Percent
  <2>6. ASSUME NEW k \in i + 1..j - 1 PROVE IsHexDigit(s[k])
    <3>1. k = i + 1 \/ k = i + 2
      BY <1>1, <1>9
    <3> QED BY <1>9, <3>1
  <2> QED BY <1>6, <2>4, <2>5, <2>6 DEF i, j, v
<1>a. CASE /\ j \in i + 1..i + 2 /\ s[i] = Percent /\ v = BadEscape
           /\ j = i + 2 => IsHexDigit(s[i + 1])
           /\ j <= Len(s) => ~IsHexDigit(s[j])
  <2>1. v >= -1 /\ s[i] \notin Marks
    BY <1>4, <1>a DEF Percent, BadEscape
  <2>2. ASSUME NEW k \in i + 1..j - 1 PROVE IsHexDigit(s[k])
    <3>1. k = i + 1 /\ j = i + 2
      BY <1>1, <1>a
    <3> QED BY <1>a, <3>1
  <2> QED BY <1>6, <2>1, <2>2 DEF i, j, v
<1> QED BY <1>2, <1>5, <1>7, <1>8, <1>9, <1>a DEF InQuery

\* Bytes up to the first mark of a kind are units up to the first that means one.
LEMMA FirstMark ==
  ASSUME NEW s, NEW said, NEW pos, Query(s, said, pos), NEW X \in SUBSET Marks,
         NEW b \in 1..Len(said) + 1, NEW c, c = UpTo(said, b, Negatives(X))
  PROVE  /\ IsFirst(said, b, Negatives(X), c) /\ c \in b..Len(said) + 1
         /\ UpTo(s, pos[b], X) = pos[c]
<1>1. /\ s \in Seq(Nat) /\ said \in Seq(Int) /\ Spelled("query", s, said, pos)
      /\ Len(s) \in Nat /\ Len(said) \in Nat
  BY DEF Query
<1>2. IsFirst(said, b, Negatives(X), c)
  BY <1>1, UpToFirst
<1>3. c \in b..Len(said) + 1 /\ c \in 1..Len(said) + 1 /\ b <= c
  BY <1>1, <1>2 DEF IsFirst
<1>4. /\ pos[b] \in 1..Len(s) + 1 /\ pos[c] \in 1..Len(s) + 1 /\ pos[b] <= pos[c]
  BY <1>1, <1>3, Units
<1>5. pos[c] > Len(s) \/ s[pos[c]] \in X
  <2>1. CASE c = Len(said) + 1
    <3>1. pos[c] = Len(s) + 1
      BY <1>1, <2>1, Units
    <3> QED BY <1>1, <3>1
  <2>2. CASE c # Len(said) + 1
    <3>1. c \in 1..Len(said) /\ ~(c > Len(said))
      BY <1>1, <1>3, <2>2
    <3>2. said[c] \in Negatives(X)
      BY <1>2, <3>1 DEF IsFirst
    <3> QED BY <3>1, <3>2, MarksMeant
  <2> QED BY <2>1, <2>2
<1>6. ASSUME NEW k \in pos[b]..pos[c] - 1 PROVE s[k] \notin X
  <2>1. k \in 1..Len(s) /\ k \in Int /\ pos[b] <= k /\ k < pos[c]
    BY <1>1, <1>4
  <2>2. PICK n \in 1..Len(said) : pos[n] <= k /\ k < pos[n + 1]
    BY <1>1, <2>1, UnitOf
  <2>3. /\ n \in 1..Len(said) + 1 /\ n + 1 \in 1..Len(said) + 1
        /\ pos[n] \in 1..Len(s) /\ pos[n + 1] \in pos[n] + 1..Len(s) + 1
    BY <1>1, Units
  <2>4. n < c
    <3>1. CASE c <= n
      <4>1. pos[c] <= pos[n]
        BY <1>1, <1>3, <2>3, <3>1, Units
      <4> QED BY <1>4, <2>1, <2>2, <2>3, <4>1
    <3> QED BY <1>1, <1>3, <3>1
  <2>5. b <= n
    <3>1. CASE n + 1 <= b
      <4>1. pos[n + 1] <= pos[b]
        BY <1>1, <2>3, <3>1, Units
      <4> QED BY <1>4, <2>1, <2>2, <2>3, <4>1
    <3> QED BY <1>1, <3>1
  <2>6. said[n] \notin Negatives(X)
    <3>1. n \in b..c - 1
      BY <1>1, <1>3, <2>4, <2>5
    <3> QED BY <1>2, <3>1 DEF IsFirst
  <2>7. CASE k = pos[n]
    BY <2>6, <2>7, MarksMeant
  <2>8. CASE k # pos[n]
    <3>1. k \in pos[n] + 1..pos[n + 1] - 1
      BY <2>1, <2>2, <2>3, <2>8
    <3>2. s[k] \notin Marks
      BY <3>1, MarksMeant
    <3> QED BY <3>2
  <2> QED BY <2>7, <2>8
<1>7. pos[c] \in pos[b]..Len(s) + 1
  BY <1>1, <1>4
<1>8. IsFirst(s, pos[b], X, pos[c])
  BY <1>5, <1>6, <1>7 DEF IsFirst
<1>9. UpTo(s, pos[b], X) = pos[c]
  BY <1>1, <1>4, <1>8, UpToIs
<1> QED BY <1>2, <1>3, <1>9

\* Where the units from b up to c begin in a part that has only those.
Starts(pos, b, c) == [n \in 1..c - b + 1 |-> pos[b + n - 1] - pos[b] + 1]

\* A part of the units is spelled by the bytes of them.
LEMMA PartSpelled ==
  ASSUME NEW s, NEW said, NEW pos, Query(s, said, pos),
         NEW b \in 1..Len(said) + 1, NEW c \in b..Len(said) + 1
  PROVE  /\ Query(SubSeq(s, pos[b], pos[c] - 1), SubSeq(said, b, c - 1), Starts(pos, b, c))
         /\ Len(SubSeq(said, b, c - 1)) = c - b
         /\ Len(SubSeq(s, pos[b], pos[c] - 1)) = pos[c] - pos[b]
         /\ \A n \in 1..c - b : SubSeq(said, b, c - 1)[n] = said[b + n - 1]
<1> DEFINE lo == pos[b]
           hi == pos[c]
           part == SubSeq(said, b, c - 1)
           of == SubSeq(s, lo, hi - 1)
           bt == Starts(pos, b, c)
           by == 1 - lo
           N == Len(said)
           L == Len(s)
<1>0. /\ s \in Seq(Nat) /\ said \in Seq(Int) /\ Spelled("query", s, said, pos)
  BY DEF Query
<1>1. L \in Nat /\ N \in Nat /\ b \in Int /\ c \in Int /\ 1 <= b /\ b <= c
      /\ c <= N + 1 /\ b \in 1..N + 1 /\ c \in 1..N + 1
  BY <1>0
<1>2. /\ \A n \in 1..N + 1 : pos[n] \in 1..L + 1
      /\ \A n, k \in 1..N + 1 : n < k => pos[n] < pos[k]
      /\ \A n, k \in 1..N + 1 : n <= k => pos[n] <= pos[k]
  BY <1>0, Units
<1>3. lo \in 1..L + 1 /\ hi \in 1..L + 1 /\ lo <= hi
  BY <1>1, <1>2
<1>4. /\ part \in Seq(Int) /\ Len(part) = c - b
      /\ \A n \in 1..c - b : part[n] = said[b + n - 1]
  <2>1. \A n \in b..c - 1 : said[n] \in Int
    BY <1>0, <1>1
  <2>2. c - 1 \in Int /\ (c - 1) - b + 1 = c - b
    BY <1>1
  <2> QED BY <1>1, <2>1, <2>2, SubSeqProperties
<1> HIDE DEF lo, hi
<1>5. /\ of \in Seq(Nat) /\ Len(of) = hi - lo
      /\ \A n \in 1..hi - lo : of[n] = s[lo + n - 1]
  <2>1. \A n \in lo..hi - 1 : s[n] \in Nat
    <3>1. \A n \in lo..hi - 1 : n \in 1..L
      BY <1>1, <1>3
    <3> QED BY <1>0, <3>1
  <2>2. lo \in Int /\ hi - 1 \in Int /\ (hi - 1) - lo + 1 = hi - lo
    BY <1>1, <1>3
  <2> QED BY <1>1, <1>3, <2>1, <2>2, SubSeqProperties
<1> HIDE DEF part, of, N, L
<1>6. ASSUME NEW n \in 1..c - b + 1
      PROVE  /\ b + n - 1 \in 1..N + 1 /\ bt[n] = pos[b + n - 1] + by
             /\ bt[n] \in 1..Len(of) + 1
  <2> DEFINE x == pos[b + n - 1]
  <2>1. b + n - 1 \in 1..N + 1 /\ b <= b + n - 1 /\ b + n - 1 <= c
    BY <1>1
  <2>2. x \in 1..L + 1 /\ lo <= x /\ x <= hi
    BY <1>1, <1>2, <2>1 DEF lo, hi
  <2>3. bt[n] = x - lo + 1
    BY DEF Starts, lo
  <2> HIDE DEF x
  <2>4. x - lo + 1 = x + by /\ x + by \in 1..(hi - lo) + 1
    BY <1>1, <1>3, <2>2
  <2> QED BY <1>5, <2>1, <2>3, <2>4 DEF x
<1>7. bt \in [1..Len(part) + 1 -> 1..Len(of) + 1]
  <2>1. bt = [n \in 1..Len(part) + 1 |-> bt[n]]
    BY <1>4 DEF Starts
  <2> HIDE DEF bt
  <2> QED BY <1>4, <1>6, <2>1
<1> HIDE DEF bt
<1>8. bt[1] = 1 /\ bt[Len(part) + 1] = Len(of) + 1
  <2>1. 1 \in 1..c - b + 1 /\ c - b + 1 \in 1..c - b + 1 /\ b + 1 - 1 = b
        /\ b + (c - b + 1) - 1 = c
    BY <1>1
  <2>2. bt[1] = lo + by /\ bt[c - b + 1] = hi + by
    BY <1>6, <2>1 DEF lo, hi
  <2>3. lo + by = 1 /\ hi + by = (hi - lo) + 1
    BY <1>1, <1>3
  <2> QED BY <1>4, <1>5, <2>2, <2>3
<1>9. ASSUME NEW n \in 1..Len(part), NEW k \in n + 1..Len(part) + 1 PROVE bt[n] < bt[k]
  <2> DEFINE x == pos[b + n - 1]
             y == pos[b + k - 1]
  <2>1. n \in 1..c - b + 1 /\ k \in 1..c - b + 1 /\ b + n - 1 < b + k - 1
    BY <1>1, <1>4
  <2>2. /\ bt[n] = x + by /\ bt[k] = y + by
        /\ b + n - 1 \in 1..N + 1 /\ b + k - 1 \in 1..N + 1
    BY <1>6, <2>1
  <2>3. x < y /\ x \in 1..L + 1 /\ y \in 1..L + 1
    BY <1>2, <2>1, <2>2
  <2> HIDE DEF x, y
  <2>4. x + by < y + by
    BY <1>1, <1>3, <2>3
  <2> QED BY <2>2, <2>4
<1>a. ASSUME NEW n \in 1..Len(part) PROVE InQuery(of, bt[n], bt[n + 1], part[n])
  <2> DEFINE m == b + n - 1
             i == pos[m]
             j == pos[m + 1]
  <2>0. n \in Int /\ 1 <= n /\ n <= c - b
    BY <1>1, <1>4
  <2>1. m \in 1..N /\ m + 1 <= c /\ m + 1 = b + (n + 1) - 1 /\ b <= m
        /\ n \in 1..c - b + 1 /\ n + 1 \in 1..c - b + 1 /\ n \in 1..c - b
        /\ m \in 1..N + 1 /\ m + 1 \in 1..N + 1
    BY <1>1, <2>0
  <2>2. bt[n] = i + by /\ bt[n + 1] = j + by /\ part[n] = said[m]
    BY <1>4, <1>6, <2>1
  <2>3. InQuery(s, i, j, said[m])
    BY <1>0, <2>1 DEF Spelled, N
  <2>4. i \in 1..L /\ j \in i + 1..L + 1
    BY <1>0, <2>1, Units DEF N, L
  <2>5. lo <= i /\ j <= hi
    BY <1>1, <1>2, <2>1 DEF lo, hi
  <2> HIDE DEF m, i, j
  <2>6. ASSUME NEW k \in Int, lo <= k, k < hi
        PROVE  /\ k + by \in 1..Len(of) /\ of[k + by] = s[k]
    <3>1. k + by \in 1..hi - lo /\ lo + (k + by) - 1 = k
      BY <1>1, <1>3, <2>6
    <3> HIDE DEF by
    <3> QED BY <1>5, <3>1
  <2>7. Moved(s, of, i, j, by)
    <3>1. ASSUME NEW k \in i..j - 1 PROVE of[k + by] = s[k]
      <4>1. k \in Int /\ lo <= k /\ k < hi
        BY <1>1, <1>3, <2>4, <2>5
      <4> QED BY <2>6, <4>1
    <3>2. /\ i + by \in 1..hi - lo /\ j + by \in 1..(hi - lo) + 1 /\ by \in Int
      BY <1>1, <1>3, <2>4, <2>5
    <3> HIDE DEF by
    <3> QED BY <1>0, <1>5, <2>4, <3>1, <3>2 DEF Moved, L
  <2>8. j + by <= Len(of) /\ IsHexDigit(of[j + by]) => j <= Len(s) /\ IsHexDigit(s[j])
    <3>1. ASSUME j + by <= Len(of) PROVE j <= Len(s) /\ of[j + by] = s[j]
      <4>0. j + by <= hi - lo
        BY <1>5, <3>1
      <4>1. j \in Int /\ lo <= j /\ j < hi /\ j <= L
        BY <1>1, <1>3, <2>4, <2>5, <4>0
      <4> QED BY <2>6, <4>1 DEF L
    <3> QED BY <3>1
  <2> HIDE DEF by
  <2>9. InQuery(of, i + by, j + by, said[m])
    BY <2>3, <2>7, <2>8, InQueryMoved
  <2> QED BY <2>2, <2>9
<1>b. Spelled("query", of, part, bt)
  BY <1>7, <1>8, <1>9, <1>a DEF Spelled
<1>c. Query(of, part, bt)
  BY <1>4, <1>5, <1>b DEF Query
<1> QED BY <1>4, <1>5, <1>c DEF part, of, bt, lo, hi

\* What a byte of a name or a document is where it means what it does: the mark that does
\* not separate there is itself.
AsByte(v) == IF v = -Equals THEN Equals ELSE v

\* No part ends within.
Unparted(said) == \A n \in 1..Len(said) : said[n] \notin Negatives(Separators)

LEMMA UnitDecoded ==
  ASSUME NEW s, NEW said, NEW pos, Query(s, said, pos), Unparted(said),
         NEW n \in 1..Len(said)
  PROVE  /\ said[n] = BadEscape => DecodedAt(s, pos[n]) = <<<<BadEscape>>, Len(s) + 1>>
         /\ said[n] # BadEscape => DecodedAt(s, pos[n]) = <<<<AsByte(said[n])>>, pos[n + 1]>>
<1> DEFINE i == pos[n]
           j == pos[n + 1]
           v == said[n]
<1>1. i \in 1..Len(s) /\ j \in i + 1..Len(s) + 1 /\ Len(s) \in Nat
  BY Units DEF Query
<1>2. InQuery(s, i, j, v)
  BY DEF Query, Spelled
<1>3. s[i] \in Nat /\ v \in Int
  BY SMTT(40), <1>1 DEF Query
<1>4. Separators = {38, 59} /\ Equals = 61 /\ Plus = 43 /\ Percent = 37 /\ BadEscape = -1
      /\ Space = 32 /\ Marks = {38, 59, 61}
  BY DEF Separators, Marks, And, Semicolon, Equals, Plus, Percent, BadEscape, Space
<1>5. v # -38 /\ v # -59
  BY <1>4 DEF Unparted, Negatives
<1> HIDE DEF i, j, v
<1>6. CASE j = i + 1 /\ s[i] = v /\ v \notin Marks \cup {Percent, Plus}
  <2>1. s[i] # Plus /\ s[i] # Percent /\ v # BadEscape /\ AsByte(v) = s[i]
    BY <1>3, <1>4, <1>6 DEF AsByte
  <2>2. DecodedAt(s, i) = <<<<AsByte(v)>>, j>>
    BY <1>6, <2>1 DEF DecodedAt
  <2> QED BY <2>1, <2>2 DEF i, j, v
<1>7. CASE j = i + 1 /\ s[i] \in Marks /\ v = -s[i]
  <2>1. s[i] = Equals /\ v = -Equals
    BY <1>3, <1>4, <1>5, <1>7
  <2>2. s[i] # Plus /\ s[i] # Percent /\ v # BadEscape /\ AsByte(v) = s[i]
    BY <1>4, <2>1 DEF AsByte
  <2>3. DecodedAt(s, i) = <<<<AsByte(v)>>, j>>
    BY <1>7, <2>2 DEF DecodedAt
  <2> QED BY <2>2, <2>3 DEF i, j, v
<1>8. CASE j = i + 1 /\ s[i] = Plus /\ v = Space
  <2>1. v # BadEscape /\ AsByte(v) = Space
    BY <1>4, <1>8 DEF AsByte
  <2>2. DecodedAt(s, i) = <<<<AsByte(v)>>, j>>
    BY <1>8, <2>1 DEF DecodedAt
  <2> QED BY <2>1, <2>2 DEF i, j, v
<1>9. CASE /\ j = i + 3 /\ s[i] = Percent /\ IsHexDigit(s[i + 1]) /\ IsHexDigit(s[i + 2])
           /\ v = 16 * DigitValue(s[i + 1]) + DigitValue(s[i + 2])
  <2>1. \A b : IsHexDigit(b) => DigitValue(b) \in 0..15
    BY DEF IsHexDigit, DigitValue, Digits
  <2> DEFINE x == DigitValue(s[i + 1])
             y == DigitValue(s[i + 2])
  <2>2. x \in 0..15 /\ y \in 0..15 /\ v = 16 * x + y
    BY <1>9, <2>1
  <2> HIDE DEF x, y
  <2>3. v >= 0
    BY <2>2
  <2>4. v # BadEscape /\ AsByte(v) = v
    BY <1>4, <2>3 DEF AsByte
  <2>5. s[i] # Plus /\ ~(i + 2 > Len(s))
    <3>1. s[i] = 37 /\ j = i + 3
      BY <1>4, <1>9
    <3> QED BY <1>1, <1>4, <3>1
  <2>6. DecodedAt(s, i) = <<<<16 * x + y>>, i + 3>>
    BY <1>9, <2>5 DEF DecodedAt, x, y
  <2> QED BY <1>9, <2>2, <2>4, <2>6 DEF i, j, v
<1>a. CASE /\ j \in i + 1..i + 2 /\ s[i] = Percent /\ v = BadEscape
           /\ j = i + 2 => IsHexDigit(s[i + 1])
           /\ j <= Len(s) => ~IsHexDigit(s[j])
  <2>1. s[i] # Plus
    BY <1>4, <1>a
  <2>2. i + 2 > Len(s) \/ ~IsHexDigit(s[i + 1]) \/ ~IsHexDigit(s[i + 2])
    <3>1. CASE j = i + 1
      <4>1. j <= Len(s) \/ i + 2 > Len(s)
        BY <1>1, <3>1
      <4> QED BY <1>a, <3>1, <4>1
    <3>2. CASE j = i + 2
      <4>1. j <= Len(s) \/ i + 2 > Len(s)
        BY <1>1, <3>2
      <4> QED BY <1>a, <3>2, <4>1
    <3>3. j = i + 1 \/ j = i + 2
      BY <1>1, <1>a
    <3> QED BY <3>1, <3>2, <3>3
  <2>3. DecodedAt(s, i) = <<<<BadEscape>>, Len(s) + 1>>
    BY <1>a, <2>1, <2>2 DEF DecodedAt
  <2> QED BY <1>a, <2>3 DEF i, j, v
<1> QED BY <1>2, <1>6, <1>7, <1>8, <1>9, <1>a DEF InQuery

\* What is said from n on.
Rest(said, n) == [k \in 1..Len(said) + 1 - n |-> AsByte(said[n + k - 1])]

LEMMA RestIs ==
  ASSUME NEW said \in Seq(Int), NEW n \in 1..Len(said)
  PROVE  Rest(said, n) = <<AsByte(said[n])>> \o Rest(said, n + 1)
<1> DEFINE N == Len(said)
           r == Rest(said, n)
           t == Rest(said, n + 1)
           h == <<AsByte(said[n])>>
<1>1. N \in Nat /\ n \in Int /\ 1 <= n /\ n <= N
  OBVIOUS
<1>2. \A k \in 1..N : AsByte(said[k]) \in Int
  BY DEF AsByte, Equals
<1>3. r \in Seq(Int) /\ Len(r) = N + 1 - n
  <2>1. \A k \in 1..N + 1 - n : n + k - 1 \in 1..N
    BY <1>1
  <2>2. \A k \in 1..N + 1 - n : AsByte(said[n + k - 1]) \in Int
    BY <1>2, <2>1
  <2>3. N + 1 - n \in Nat
    BY <1>1
  <2> QED BY <2>2, <2>3 DEF Rest
<1>4. t \in Seq(Int) /\ Len(t) = N - n
  <2>1. \A k \in 1..N + 1 - (n + 1) : n + 1 + k - 1 \in 1..N
    BY <1>1
  <2>2. \A k \in 1..N + 1 - (n + 1) : AsByte(said[n + 1 + k - 1]) \in Int
    BY <1>2, <2>1
  <2>3. N + 1 - (n + 1) \in Nat /\ N + 1 - (n + 1) = N - n
    BY <1>1
  <2> QED BY <2>2, <2>3 DEF Rest
<1>5. h \in Seq(Int) /\ Len(h) = 1 /\ h[1] = AsByte(said[n])
  BY <1>2
<1> DEFINE ht == h \o t
<1> HIDE DEF h
<1>6. /\ ht \in Seq(Int) /\ Len(ht) = 1 + Len(t) /\ ht[1] = h[1]
      /\ \A k \in 1..Len(t) : ht[1 + k] = t[k]
  <2>1. /\ ht \in Seq(Int) /\ Len(ht) = Len(h) + Len(t)
        /\ \A k \in 1..Len(h) : ht[k] = h[k]
        /\ \A k \in 1..Len(t) : ht[Len(h) + k] = t[k]
    <3>1. h \in Seq(Int)
      BY <1>5
    <3>2. t \in Seq(Int)
      BY <1>4
    <3> HIDE DEF t
    <3> QED BY <3>1, <3>2, Joined
  <2> QED BY SMTT(40), <1>5, <2>1
<1>7. ASSUME NEW k \in 1..Len(r) PROVE r[k] = ht[k]
  <2>0. k \in 1..N + 1 - n
    BY <1>3
  <2>1. r[k] = AsByte(said[n + k - 1])
    BY <2>0 DEF Rest
  <2>2. CASE k = 1
    <3>1. n + k - 1 = n
      BY <1>1, <2>2
    <3> QED BY <1>5, <1>6, <2>1, <2>2, <3>1
  <2>3. CASE k # 1
    <3>1. k - 1 \in 1..N + 1 - (n + 1) /\ k = 1 + (k - 1) /\ n + 1 + (k - 1) - 1 = n + k - 1
          /\ k - 1 \in 1..N - n
      BY <1>1, <2>0, <2>3
    <3>2. t[k - 1] = AsByte(said[n + k - 1])
      BY <3>1 DEF Rest
    <3>3. ht[1 + (k - 1)] = t[k - 1]
      BY <1>4, <1>6, <3>1
    <3> QED BY <2>1, <3>1, <3>2, <3>3
  <2> QED BY <2>2, <2>3
<1>8. Len(r) = Len(ht)
  BY SMTT(40), <1>1, <1>3, <1>4, <1>6
<1> HIDE DEF r, ht
<1>9. r = ht
  BY <1>3, <1>6, <1>7, <1>8, SeqEqual
<1> QED BY <1>9 DEF r, ht, h

LEMMA DecodedGoesOn ==
  ASSUME NEW s \in Seq(Nat), NEW i \in 1..Len(s)
  PROVE  DecodedAt(s, i)[2] \in Nat /\ DecodedAt(s, i)[2] > i
<1>1. i \in Nat /\ Len(s) \in Nat /\ i <= Len(s)
  OBVIOUS
<1>2. \/ DecodedAt(s, i)[2] = i + 1 \/ DecodedAt(s, i)[2] = i + 3
      \/ DecodedAt(s, i)[2] = Len(s) + 1
  BY DEF DecodedAt
<1> QED BY <1>1, <1>2

\* What is decoded of a part is what it means, as far as its escapes are escapes.
LEMMA PartDecoded ==
  ASSUME NEW s, NEW said, NEW pos, Query(s, said, pos), Unparted(said)
  PROVE  /\ ~Contains(said, BadEscape) => urlDecoded(s) = Rest(said, 1)
         /\ Contains(said, BadEscape) => Bad(urlDecoded(s))
<1> DEFINE step == [i \in DOMAIN s |-> DecodedAt(s, i)]
           N == Len(said)
           L == Len(s)
           BadFrom(n) == \E k \in n..N : said[k] = BadEscape
<1>1. /\ s \in Seq(Nat) /\ said \in Seq(Int) /\ Spelled("query", s, said, pos)
      /\ L \in Nat /\ N \in Nat
  BY DEF Query
<1>2. urlDecoded(s) = Gathered(L, step)
  BY DEF urlDecoded
<1>3. \A i \in 1..L : step[i] = DecodedAt(s, i)
  BY <1>1
<1> HIDE DEF step
<1>4. \A i \in 1..L : step[i][2] \in Nat /\ step[i][2] > i
  BY <1>1, <1>3, DecodedGoesOn
<1>5. PICK F : Reads(F, L, step) /\ Gathered(L, step) = F[1]
  BY <1>1, <1>4, GatheredReads
<1> DEFINE S == {n \in 1..N + 1 : /\ ~BadFrom(n) => F[pos[n]] = Rest(said, n)
                                  /\ BadFrom(n) => /\ F[pos[n]] \in Seq(Int)
                                                   /\ Contains(F[pos[n]], BadEscape)}
<1>6. F[L + 1] = <<>>
  <2>1. L + 1 \in Nat /\ L + 1 > L
    BY <1>1
  <2> QED BY <1>5, <2>1 DEF Reads
<1>7. N + 1 \in S
  <2>1. pos[N + 1] = L + 1
    BY <1>1, Units
  <2>2. Rest(said, N + 1) = <<>>
    <3>1. N + 1 - (N + 1) = 0
      BY <1>1
    <3> QED BY <3>1 DEF Rest
  <2>3. ~BadFrom(N + 1) /\ N + 1 \in 1..N + 1
    BY <1>1
  <2> HIDE DEF BadFrom
  <2> QED BY <1>6, <2>1, <2>2, <2>3
<1>8. \A n \in 1..N : AsByte(said[n]) \in Int
  BY <1>1 DEF AsByte, Equals
<1>9. ASSUME NEW n \in 1..N, \A k \in n + 1..N + 1 : k \in S PROVE n \in S
  <2> DEFINE i == pos[n]
             j == pos[n + 1]
             h == <<AsByte(said[n])>>
  <2>1. n \in Int /\ n + 1 \in n + 1..N + 1 /\ n \in 1..N + 1 /\ n + 1 \in 1..N + 1
        /\ n \in n..N
    BY <1>1
  <2>2. n + 1 \in S
    BY <1>9, <2>1
  <2>3. i \in 1..L
    BY <1>1, Units
  <2>4. F[i] = DecodedAt(s, i)[1] \o F[DecodedAt(s, i)[2]]
    BY <1>3, <1>5, <2>3 DEF Reads
  <2>5. BadFrom(n) <=> said[n] = BadEscape \/ BadFrom(n + 1)
    BY <2>1
  <2> HIDE DEF BadFrom
  <2>6. CASE said[n] = BadEscape
    <3>1. DecodedAt(s, i) = <<<<BadEscape>>, L + 1>>
      BY <2>6, UnitDecoded
    <3>0. DecodedAt(s, i)[1] = <<BadEscape>> /\ DecodedAt(s, i)[2] = L + 1
      BY <3>1
    <3>2. F[i] = <<BadEscape>> \o <<>>
      BY <1>6, <2>4, <3>0
    <3>3. <<BadEscape>> \in Seq(Int)
      BY DEF BadEscape
    <3>4. F[i] = <<BadEscape>>
      BY <3>2, <3>3, ConcatEmptySeq
    <3>5. Contains(F[i], BadEscape)
      BY <3>4 DEF Contains
    <3>6. F[i] \in Seq(Int)
      BY <3>3, <3>4
    <3> QED BY <2>1, <2>5, <2>6, <3>5, <3>6
  <2>7. CASE said[n] # BadEscape
    <3>1. DecodedAt(s, i) = <<h, j>>
      <4>1. BadEscape # said[n]
        BY <2>7
      <4> QED BY <4>1, UnitDecoded
    <3>0. DecodedAt(s, i)[1] = h /\ DecodedAt(s, i)[2] = j
      BY <3>1
    <3>2. F[i] = h \o F[j]
      BY <2>4, <3>0
    <3>3. h \in Seq(Int) /\ Len(h) = 1
      BY <1>8
    <3>4. CASE ~BadFrom(n + 1)
      <4>1. F[j] = Rest(said, n + 1)
        BY <2>2, <3>4
      <4>2. F[i] = Rest(said, n)
        BY <1>1, <3>2, <4>1, RestIs
      <4> QED BY <2>1, <2>5, <2>7, <3>4, <4>2
    <3>5. CASE BadFrom(n + 1)
      <4> DEFINE t == F[j]
      <4>1. t \in Seq(Int) /\ Contains(t, BadEscape)
        BY <2>2, <3>5
      <4> HIDE DEF t, h
      <4>2. /\ h \o t \in Seq(Int) /\ Len(h \o t) = 1 + Len(t) /\ Len(t) \in Nat
            /\ \A k \in 1..Len(t) : (h \o t)[1 + k] = t[k]
        <5>1. Len(h) + Len(t) = 1 + Len(t) /\ Len(h) = 1
          BY <3>3
        <5>3. h \in Seq(Int)
          BY <3>3
        <5>4. t \in Seq(Int)
          BY <4>1
        <5>2. /\ h \o t \in Seq(Int) /\ Len(h \o t) = Len(h) + Len(t) /\ Len(t) \in Nat
              /\ \A k \in 1..Len(t) : (h \o t)[Len(h) + k] = t[k]
          BY <5>3, <5>4, Joined
        <5> QED BY <5>1, <5>2
      <4>3. PICK k \in 1..Len(t) : t[k] = BadEscape
        BY <4>1 DEF Contains
      <4>4. 1 + k \in 1..Len(h \o t) /\ (h \o t)[1 + k] = BadEscape
        BY <4>2, <4>3
      <4>5. Contains(h \o t, BadEscape)
        BY <4>4 DEF Contains
      <4>6. F[i] \in Seq(Int) /\ Contains(F[i], BadEscape)
        BY <3>2, <4>2, <4>5 DEF t
      <4> QED BY <2>1, <2>5, <3>5, <4>6
    <3> QED BY <3>4, <3>5
  <2> QED BY <2>6, <2>7
<1>a. 1 \in S
  <2> HIDE DEF S
  <2>1. \A n \in 1..N + 1 : n \in S
    BY <1>1, <1>7, <1>9, Descends
  <2> QED BY <1>1, <2>1
<1>b. pos[1] = 1
  BY <1>1, Units
<1>c. Contains(said, BadEscape) <=> BadFrom(1)
  BY DEF Contains
<1> HIDE DEF BadFrom
<1> QED BY <1>2, <1>5, <1>a, <1>b, <1>c DEF Bad

\* The units of a part, its name and its document.
PartAt(said, X, b) == SubSeq(said, b, UpTo(said, b, Negatives(X)) - 1)
NameIn(part) == SubSeq(part, 1, UpTo(part, 1, {-Equals}) - 1)
DocumentIn(part) ==
  LET eq == UpTo(part, 1, {-Equals})
  IN [n \in 1..Len(part) - eq |-> AsByte(part[eq + n])]

LEMMA PairPart ==
  ASSUME NEW s, NEW said, NEW pos, Query(s, said, pos), NEW b \in 1..Len(said)
  PROVE  /\ \E starts : Query(Pair(s, pos[b]), PartAt(said, Separators, b), starts)
         /\ Unparted(PartAt(said, Separators, b))
<1> DEFINE c == UpTo(said, b, Negatives(Separators))
           part == SubSeq(said, b, c - 1)
<1>0. Separators \in SUBSET Marks
  BY DEF Separators, Marks
<1>1. b \in 1..Len(said) + 1 /\ Len(said) \in Nat /\ b \in Int
  BY DEF Query
<1>2. /\ IsFirst(said, b, Negatives(Separators), c) /\ c \in b..Len(said) + 1
      /\ UpTo(s, pos[b], Separators) = pos[c]
  BY <1>0, <1>1, FirstMark
<1>3. Pair(s, pos[b]) = SubSeq(s, pos[b], pos[c] - 1) /\ PartAt(said, Separators, b) = part
  BY <1>2 DEF Pair, PartAt
<1> HIDE DEF c
<1>4. /\ Query(SubSeq(s, pos[b], pos[c] - 1), part, Starts(pos, b, c))
      /\ Len(part) = c - b
      /\ \A n \in 1..c - b : part[n] = said[b + n - 1]
  BY <1>1, <1>2, PartSpelled
<1> HIDE DEF part
<1>5. Unparted(part)
  <2>1. ASSUME NEW n \in 1..Len(part) PROVE part[n] \notin Negatives(Separators)
    <3>1. n \in 1..c - b
      BY <1>4
    <3>2. b + n - 1 \in b..c - 1
      BY <1>1, <1>2, <3>1
    <3>3. said[b + n - 1] \notin Negatives(Separators)
      BY <1>2, <3>2 DEF IsFirst
    <3> QED BY <1>4, <3>1, <3>3
  <2> QED BY <2>1 DEF Unparted
<1> QED BY <1>3, <1>4, <1>5

\* The code reads a name where the part has it, and reads it alike.
LEMMA NameRead ==
  ASSUME NEW pair, NEW part, NEW pos, Query(pair, part, pos), Unparted(part)
  PROVE  isQueryParam(KeyOf(pair)) <=> NameIn(part) = Name
<1> DEFINE e == UpTo(part, 1, {-Equals})
           key == SubSeq(pair, 1, pos[e] - 1)
           name == SubSeq(part, 1, e - 1)
<1>0. {Equals} \in SUBSET Marks /\ Negatives({Equals}) = {-Equals}
  BY DEF Marks, Negatives
<1>s. pair \in Seq(Nat) /\ part \in Seq(Int) /\ Spelled("query", pair, part, pos)
  BY DEF Query
<1>1. /\ Len(part) \in Nat /\ 1 \in 1..Len(part) + 1 /\ pos[1] = 1
      /\ part \in Seq(Int)
  <2>1. Len(part) \in Nat /\ pos[1] = 1
    BY <1>s, Units
  <2> QED BY <1>s, <2>1
<1>2. /\ IsFirst(part, 1, {-Equals}, e) /\ e \in 1..Len(part) + 1
      /\ UpTo(pair, 1, {Equals}) = pos[e]
  <2>1. /\ IsFirst(part, 1, Negatives({Equals}), e) /\ e \in 1..Len(part) + 1
        /\ UpTo(pair, pos[1], {Equals}) = pos[e]
    <3>1. e = UpTo(part, 1, Negatives({Equals}))
      BY <1>0
    <3> HIDE DEF e
    <3> QED BY <1>0, <1>1, <3>1, FirstMark
  <2> QED BY <1>0, <1>1, <2>1
<1>3. KeyOf(pair) = key /\ NameIn(part) = name
  BY <1>2 DEF KeyOf, NameIn
<1> HIDE DEF e
<1>4. /\ Query(key, name, Starts(pos, 1, e)) /\ Len(name) = e - 1
      /\ \A n \in 1..e - 1 : name[n] = part[1 + n - 1]
  BY <1>1, <1>2, PartSpelled
<1> HIDE DEF name, key
<1>5. \A n \in 1..Len(name) : name[n] = part[n] /\ n \in 1..Len(part) /\ n \in 1..e - 1
  BY <1>1, <1>2, <1>4
<1>6. Unparted(name)
  BY <1>5 DEF Unparted
<1>7. \A n \in 1..Len(name) : name[n] # -Equals
  BY <1>2, <1>5 DEF IsFirst
<1>8. name \in Seq(Int)
  BY <1>4 DEF Query
<1>9. CASE Contains(name, BadEscape)
  <2>1. \A n \in 1..Len(Name) : Name[n] # BadEscape
    BY DEF Name, BadEscape
  <2>2. Bad(urlDecoded(key))
    BY <1>4, <1>6, <1>9, PartDecoded
  <2>3. urlDecoded(key) # Name
    BY <2>1, <2>2 DEF Bad, Contains
  <2>4. name # Name
    BY <1>9, <2>1 DEF Contains
  <2> QED BY <1>3, <2>3, <2>4 DEF isQueryParam
<1>a. CASE ~Contains(name, BadEscape)
  <2>1. urlDecoded(key) = Rest(name, 1)
    BY <1>4, <1>6, <1>a, PartDecoded
  <2>2. Rest(name, 1) = name
    <3> DEFINE N == Len(name)
    <3>1. N \in Nat /\ N + 1 - 1 = N /\ \A k \in 1..N : 1 + k - 1 = k
      BY <1>8
    <3>2. Rest(name, 1) = [k \in 1..N |-> AsByte(name[1 + k - 1])]
      BY <3>1 DEF Rest
    <3>3. \A k \in 1..N : AsByte(name[1 + k - 1]) = name[k]
      BY <1>7, <3>1 DEF AsByte
    <3>4. Rest(name, 1) = [k \in 1..N |-> name[k]]
      BY <3>2, <3>3
    <3> QED BY <1>8, <3>4
  <2> QED BY <1>3, <2>1, <2>2 DEF isQueryParam
<1> QED BY <1>9, <1>a

\* And the document where it has that.
LEMMA DocumentRead ==
  ASSUME NEW pair, NEW part, NEW pos, Query(pair, part, pos), Unparted(part)
  PROVE  ~Bad(urlDecoded(ValueOf(pair))) => urlDecoded(ValueOf(pair)) = DocumentIn(part)
<1> DEFINE e == UpTo(part, 1, {-Equals})
           from == pos[e]
           N == Len(part)
           L == Len(pair)
<1>0. {Equals} \in SUBSET Marks /\ Negatives({Equals}) = {-Equals}
  BY DEF Marks, Negatives
<1>s. pair \in Seq(Nat) /\ part \in Seq(Int) /\ Spelled("query", pair, part, pos)
  BY DEF Query
<1>1. /\ N \in Nat /\ L \in Nat /\ 1 \in 1..N + 1 /\ pos[1] = 1 /\ pos[N + 1] = L + 1
      /\ part \in Seq(Int)
  <2>1. N \in Nat /\ L \in Nat /\ pos[1] = 1 /\ pos[N + 1] = L + 1
    BY <1>s, Units
  <2> QED BY <1>s, <2>1
<1>2. /\ IsFirst(part, 1, {-Equals}, e) /\ e \in 1..N + 1
      /\ UpTo(pair, 1, {Equals}) = from
  <2>1. /\ IsFirst(part, 1, Negatives({Equals}), e) /\ e \in 1..N + 1
        /\ UpTo(pair, pos[1], {Equals}) = from
    <3>1. e = UpTo(part, 1, Negatives({Equals}))
      BY <1>0
    <3> HIDE DEF e
    <3> QED BY <1>0, <1>1, <3>1, FirstMark
  <2> QED BY <1>0, <1>1, <2>1
<1>3. /\ ValueOf(pair) = SubSeq(pair, from + 1, L)
      /\ DocumentIn(part) = [n \in 1..N - e |-> AsByte(part[e + n])]
  BY <1>2 DEF ValueOf, DocumentIn
<1> HIDE DEF e
<1>4. CASE e = N + 1
  <2>1. from = L + 1
    BY <1>1, <1>4
  <2> HIDE DEF L, from, N
  <2>2. ValueOf(pair) = <<>>
    <3>1. from + 1 \in Int /\ L \in Int /\ L < from + 1
      BY <1>1, <2>1
    <3> QED BY <1>3, <3>1, SubSeqEmpty
  <2>3. urlDecoded(ValueOf(pair)) = <<>>
    BY <2>2, EmptySeq, EmptyDecoded
  <2>4. DocumentIn(part) = <<>>
    <3>1. 1..N - e = {}
      BY <1>1, <1>4
    <3>2. [n \in {} |-> AsByte(part[e + n])] = <<>>
      OBVIOUS
    <3> QED BY <1>3, <3>1, <3>2
  <2> QED BY <2>3, <2>4
<1>5. CASE e # N + 1
  <2>1. e \in 1..N /\ ~(e > N) /\ e + 1 \in 1..N + 1 /\ N + 1 \in e + 1..N + 1
    BY <1>1, <1>2, <1>5
  <2>2. part[e] = -Equals
    BY <1>2, <2>1 DEF IsFirst
  <2>3. pair[from] \in Marks
    <3>1. part[e] \in Negatives({Equals})
      BY <1>0, <2>2
    <3>2. pair[from] \in {Equals}
      BY <1>0, <2>1, <3>1, MarksMeant
    <3> QED BY <1>0, <3>2
  <2>4. pos[e + 1] = from + 1
    BY <2>1, <2>3, MarksMeant
  <2> DEFINE w == SubSeq(part, e + 1, (N + 1) - 1)
             value1 == SubSeq(pair, pos[e + 1], pos[N + 1] - 1)
  <2>5. /\ Query(value1, w, Starts(pos, e + 1, N + 1))
        /\ Len(w) = (N + 1) - (e + 1)
        /\ \A n \in 1..(N + 1) - (e + 1) : w[n] = part[(e + 1) + n - 1]
    BY <2>1, PartSpelled
  <2>6. value1 = ValueOf(pair)
    <3>1. pos[N + 1] - 1 = L
      BY <1>1
    <3> QED BY <1>3, <2>4, <3>1
  <2> HIDE DEF w, value1, L, from
  <2>7. \A n \in 1..Len(w) : w[n] = part[e + n] /\ e + n \in 1..N
    <3>1. ASSUME NEW n \in 1..Len(w) PROVE w[n] = part[e + n] /\ e + n \in 1..N
      <4>1. n \in 1..(N + 1) - (e + 1)
        BY <2>5
      <4> HIDE DEF N
      <4>2. (e + 1) + n - 1 = e + n /\ e + n \in 1..N
        BY <1>1, <2>1, <4>1
      <4> QED BY <2>5, <4>1, <4>2
    <3> QED BY <3>1
  <2>8. Unparted(w)
    BY <2>7 DEF Unparted
  <2>9. ~Bad(urlDecoded(value1)) => urlDecoded(value1) = Rest(w, 1)
    BY <2>5, <2>8, PartDecoded
  <2>a. Rest(w, 1) = [n \in 1..N - e |-> AsByte(part[e + n])]
    <3>1. Len(w) = N - e /\ N - e \in Nat
      <4> HIDE DEF N
      <4> QED BY <1>1, <2>1, <2>5
    <3>2. Len(w) + 1 - 1 = Len(w) /\ \A k \in 1..Len(w) : 1 + k - 1 = k
      BY <3>1
    <3>3. \A k \in 1..Len(w) : AsByte(w[1 + k - 1]) = AsByte(part[e + k])
      BY <2>7, <3>2
    <3> HIDE DEF N
    <3> QED BY <3>1, <3>2, <3>3 DEF Rest
  <2> QED BY <1>3, <2>6, <2>9, <2>a
<1> QED BY <1>4, <1>5

\* Where what is meant has a parameter, and what is in it.
BeginsMeant(said, X) ==
  {1} \cup {n + 1 : n \in {m \in DOMAIN said : said[m] \in Negatives(X)}}
ParamOf(said, X, b) ==
  [begins |-> b, name |-> NameIn(PartAt(said, X, b)),
   document |-> DocumentIn(PartAt(said, X, b))]

LEMMA ParamsAre ==
  ASSUME NEW X
  PROVE  Params(X) = {ParamOf(meant, X, b) : b \in BeginsMeant(meant, X)}
BY DEF Params, ParamOf, BeginsMeant, PartAt, NameIn, DocumentIn, AsByte, Negatives

\* The code has a pair begin where a parameter does that has any unit.
LEMMA BeginsAt ==
  ASSUME NEW s, NEW said, NEW pos, Query(s, said, pos)
  PROVE  /\ \A b \in 1..Len(said) :
              b \in BeginsMeant(said, Separators) <=> pos[b] \in Begins(s)
         /\ \A i \in Begins(s) : \E b \in 1..Len(said) : i = pos[b]
         /\ BeginsMeant(said, Separators) \subseteq 1..Len(said) + 1
<1> DEFINE N == Len(said)
           L == Len(s)
<1>s. s \in Seq(Nat) /\ said \in Seq(Int) /\ Spelled("query", s, said, pos)
  BY DEF Query
<1>0. Separators \in SUBSET Marks
  BY DEF Separators, Marks
<1>1. /\ N \in Nat /\ L \in Nat /\ pos[1] = 1 /\ pos[N + 1] = L + 1
      /\ DOMAIN s = 1..L /\ DOMAIN said = 1..N
  <2>1. N \in Nat /\ L \in Nat /\ pos[1] = 1 /\ pos[N + 1] = L + 1
    BY <1>s, Units
  <2> QED BY <1>s, <2>1
<1>2. \A n \in 1..N : pos[n] \in 1..L /\ pos[n + 1] \in pos[n] + 1..L + 1
  BY <1>s, Units
<1>3. \A n \in 1..N : s[pos[n]] \in Separators <=> said[n] \in Negatives(Separators)
  BY <1>0, MarksMeant
<1>4. \A n \in 1..N : s[pos[n]] \in Separators => pos[n + 1] = pos[n] + 1
  BY <1>0, MarksMeant
<1>5. \A n \in 1..N : \A k \in pos[n] + 1..pos[n + 1] - 1 : s[k] \notin Separators
  BY <1>0, MarksMeant
<1>6. \A n \in 1..N + 1 : n \in BeginsMeant(said, Separators) <=>
        n = 1 \/ (n - 1 \in 1..N /\ said[n - 1] \in Negatives(Separators))
  BY <1>1 DEF BeginsMeant
<1>7. BeginsMeant(said, Separators) \subseteq 1..N + 1
  BY <1>1 DEF BeginsMeant
<1>8. \A i \in 1..L : i \in Begins(s) <=> i = 1 \/ s[i - 1] \in Separators
  BY <1>1 DEF Begins
<1>9. Begins(s) \subseteq 1..L
  BY <1>1 DEF Begins
<1> HIDE DEF N, L
\* The byte before a unit is the mark before it, or none.
<1>a. ASSUME NEW n \in 1..N
      PROVE  s[pos[n + 1] - 1] \in Separators <=> said[n] \in Negatives(Separators)
  <2> DEFINE i == pos[n]
             j == pos[n + 1]
  <2>1. i \in 1..L /\ j \in i + 1..L + 1
    BY <1>2
  <2>2. s[i] \in Separators <=> said[n] \in Negatives(Separators)
    BY <1>3
  <2>3. s[i] \in Separators => j = i + 1
    BY <1>4
  <2>4. \A k \in i + 1..j - 1 : s[k] \notin Separators
    BY <1>5
  <2> HIDE DEF i, j
  <2>5. CASE j = i + 1
    <3>1. j - 1 = i
      BY <1>1, <2>1, <2>5
    <3> QED BY <2>2, <3>1 DEF j
  <2>6. CASE j # i + 1
    <3>1. j - 1 \in i + 1..j - 1
      BY <1>1, <2>1, <2>6
    <3> QED BY <2>2, <2>3, <2>4, <2>6, <3>1 DEF j
  <2> QED BY <2>5, <2>6
<1>b. ASSUME NEW b \in 1..N
      PROVE  b \in BeginsMeant(said, Separators) <=> pos[b] \in Begins(s)
  <2>1. b \in 1..N + 1 /\ pos[b] \in 1..L
    BY <1>1, <1>2
  <2>2. CASE b = 1
    BY <1>1, <1>6, <1>8, <2>1, <2>2
  <2>3. CASE b # 1
    <3> DEFINE n == b - 1
    <3>1. n \in 1..N /\ n + 1 = b
      BY <1>1, <2>3
    <3>2. s[pos[b] - 1] \in Separators <=> said[n] \in Negatives(Separators)
      BY <1>a, <3>1
    <3>3. pos[b] # 1
      <4>1. pos[n] \in 1..L /\ pos[b] \in pos[n] + 1..L + 1
        BY <1>2, <3>1
      <4> QED BY <1>1, <4>1
    <3> QED BY <1>6, <1>8, <2>1, <2>3, <3>1, <3>2, <3>3
  <2> QED BY <2>2, <2>3
<1>c. ASSUME NEW i \in Begins(s) PROVE \E b \in 1..N : i = pos[b]
  <2>0. i \in 1..L /\ i \in Int
    BY <1>1, <1>9
  <2>1. CASE i = 1
    <3>1. N # 0
      BY <1>1, <2>0
    <3>2. 1 \in 1..N
      BY <1>1, <3>1
    <3> QED BY <1>1, <2>1, <3>2
  <2>2. CASE i # 1
    <3> DEFINE h == i - 1
    <3>1. h \in 1..L /\ h + 1 = i /\ s[h] \in Separators
      BY <1>1, <1>8, <2>0, <2>2
    <3> HIDE DEF h
    <3>2. PICK n \in 1..N : pos[n] <= h /\ h < pos[n + 1]
      BY <1>s, <3>1, UnitOf DEF L, N
    <3>3. pos[n] \in 1..L /\ pos[n + 1] \in pos[n] + 1..L + 1
      BY <1>2
    <3>4. h = pos[n]
      <4>1. h \notin pos[n] + 1..pos[n + 1] - 1
        BY <1>5, <3>1
      <4> QED BY <1>1, <3>1, <3>2, <3>3, <4>1
    <3>5. pos[n + 1] = pos[n] + 1
      BY <1>4, <3>1, <3>4
    <3>6. i = pos[n + 1]
      BY <3>1, <3>4, <3>5
    <3>7. n + 1 \in 1..N
      <4>1. CASE n = N
        BY <1>1, <2>0, <3>6, <4>1
      <4> QED BY <1>1, <4>1
    <3> QED BY <3>6, <3>7
  <2> QED BY <2>1, <2>2
<1> QED BY <1>7, <1>b, <1>c DEF N, L

\* The parameters named query.
Asked(said) ==
  {b \in BeginsMeant(said, Separators) : NameIn(PartAt(said, Separators, b)) = Name}

LEMMA QueriesAt ==
  ASSUME NEW s, NEW said, NEW pos, Query(s, said, pos)
  PROVE  /\ Asked(said) \subseteq 1..Len(said)
         /\ QueryBegins(s) = {pos[b] : b \in Asked(said)}
<1> DEFINE N == Len(said)
<1>s. said \in Seq(Int) /\ N \in Nat
  BY DEF Query
<1>1. \A b \in 1..N : isQueryParam(KeyOf(Pair(s, pos[b]))) <=>
                         NameIn(PartAt(said, Separators, b)) = Name
  BY PairPart, NameRead
<1>2. NameIn(PartAt(said, Separators, N + 1)) # Name
  <2> DEFINE c == UpTo(said, N + 1, Negatives(Separators))
             part == PartAt(said, Separators, N + 1)
             e == UpTo(part, 1, {-Equals})
  <2>1. c = N + 1
    <3>1. N + 1 \in 1..N + 1
      BY <1>s
    <3>2. IsFirst(said, N + 1, Negatives(Separators), c)
      BY <1>s, <3>1, UpToFirst
    <3> HIDE DEF c
    <3> QED BY <1>s, <3>2 DEF IsFirst
  <2>2. part = <<>>
    <3>1. part = SubSeq(said, N + 1, c - 1)
      BY DEF PartAt
    <3> HIDE DEF c, part
    <3>2. N + 1 \in Int /\ c - 1 \in Int /\ c - 1 < N + 1
      BY <1>s, <2>1
    <3> QED BY <3>1, <3>2, SubSeqEmpty
  <2>3. e = 1
    <3> HIDE DEF part
    <3>0. <<>> \in Seq(Int) /\ Len(<<>>) = 0
      BY EmptySeq
    <3>1. part \in Seq(Int) /\ Len(part) = 0 /\ 1 \in 1..Len(part) + 1
      BY <2>2, <3>0
    <3>2. IsFirst(part, 1, {-Equals}, e)
      BY <3>1, UpToFirst
    <3> HIDE DEF e
    <3> QED BY <3>1, <3>2 DEF IsFirst
  <2>4. NameIn(part) = SubSeq(part, 1, e - 1)
    BY DEF NameIn
  <2> HIDE DEF e, part
  <2>5. SubSeq(part, 1, e - 1) = <<>>
    <3>1. e - 1 \in Int /\ e - 1 < 1
      BY <2>3
    <3> QED BY <3>1, SubSeqEmpty
  <2>6. Name # <<>>
    BY DEF Name
  <2> QED BY <2>4, <2>5, <2>6 DEF part
<1>3. Asked(said) \subseteq 1..N
  <2>1. ASSUME NEW b \in Asked(said) PROVE b \in 1..N
    <3>1. b \in 1..N + 1
      BY BeginsAt DEF Asked
    <3>2. b # N + 1
      BY <1>2, <2>1 DEF Asked
    <3> QED BY <1>s, <3>1, <3>2
  <2> QED BY <2>1
<1>4. ASSUME NEW i \in QueryBegins(s) PROVE \E b \in Asked(said) : i = pos[b]
  <2>1. i \in Begins(s) /\ isQueryParam(KeyOf(Pair(s, i)))
    BY DEF QueryBegins
  <2>2. PICK b \in 1..N : i = pos[b]
    BY <2>1, BeginsAt
  <2>3. b \in BeginsMeant(said, Separators)
    BY <2>1, <2>2, BeginsAt
  <2>4. NameIn(PartAt(said, Separators, b)) = Name
    BY <1>1, <2>1, <2>2
  <2> QED BY <2>2, <2>3, <2>4 DEF Asked
<1>5. ASSUME NEW b \in Asked(said) PROVE pos[b] \in QueryBegins(s)
  <2>1. /\ b \in 1..N /\ b \in BeginsMeant(said, Separators)
        /\ NameIn(PartAt(said, Separators, b)) = Name
    BY <1>3 DEF Asked
  <2>2. pos[b] \in Begins(s)
    BY <2>1, BeginsAt
  <2> QED BY <1>1, <2>1, <2>2 DEF QueryBegins
<1> QED BY <1>3, <1>4, <1>5

\* A part that & ends, and that is the query's, has within it the one that ; ends as well:
\* the same name, and the document up to its first ;.
LEMMA SplitWithin ==
  ASSUME NEW said \in Seq(Int), NEW b \in 1..Len(said) + 1,
         NameIn(PartAt(said, {And}, b)) = Name
  PROVE  LET whole == DocumentIn(PartAt(said, {And}, b))
         IN /\ NameIn(PartAt(said, Separators, b)) = Name
            /\ DocumentIn(PartAt(said, Separators, b)) = UpToSemicolon(whole)
            /\ whole \in Seq(Int)
<1> DEFINE N == Len(said)
           c == UpTo(said, b, Negatives({And}))
           part == SubSeq(said, b, c - 1)
           e == UpTo(part, 1, {-Equals})
           name == SubSeq(part, 1, e - 1)
<1>0. Negatives({And}) = {-And} /\ Negatives(Separators) = {-And, -Semicolon}
  BY DEF Negatives, Separators
<1>1. N \in Nat
  OBVIOUS
<1>2. IsFirst(said, b, Negatives({And}), c)
  BY UpToFirst
<1>3. PartAt(said, {And}, b) = part
  BY DEF PartAt
<1> HIDE DEF c
<1>4. c \in b..N + 1 /\ b \in 1..N + 1
  BY <1>2 DEF IsFirst
<1>5. part \in Seq(Int) /\ Len(part) = c - b /\ \A m \in 1..c - b : part[m] = said[b + m - 1]
  <2>1. b \in Int /\ c - 1 \in Int /\ \A m \in b..c - 1 : said[m] \in Int
    BY <1>1, <1>4
  <2> DEFINE d == c - 1
  <2>2. /\ SubSeq(said, b, d) \in Seq(Int)
        /\ Len(SubSeq(said, b, d)) = IF b <= d THEN d - b + 1 ELSE 0
        /\ \A m \in 1..d - b + 1 : SubSeq(said, b, d)[m] = said[b + m - 1]
    <3> HIDE DEF d
    <3> QED BY <2>1, SubSeqProperties DEF d
  <2> HIDE DEF N, part
  <2>3. d - b + 1 = c - b /\ (b <= d \/ c - b = 0)
    BY <1>1, <1>4
  <2> QED BY <2>2, <2>3 DEF part
<1> HIDE DEF part
<1>6. IsFirst(part, 1, {-Equals}, e) /\ e \in 1..Len(part) + 1
  <2>1. 1 \in 1..Len(part) + 1
    BY <1>5
  <2>2. IsFirst(part, 1, {-Equals}, e)
    BY <1>5, <2>1, UpToFirst
  <2> QED BY <2>2 DEF IsFirst
<1>7. NameIn(part) = name
  BY DEF NameIn
<1>8. DocumentIn(part) = [n \in 1..Len(part) - e |-> AsByte(part[e + n])]
  BY DEF DocumentIn
<1> HIDE DEF e
<1>9. \A m \in 1..e - 1 : name[m] = part[m] /\ m \in 1..Len(name)
  <2>1. 1 \in Int /\ e - 1 \in Int /\ \A m \in 1..e - 1 : part[m] \in Int
    BY <1>5, <1>6
  <2> DEFINE d == e - 1
  <2>2. /\ Len(SubSeq(part, 1, d)) = IF 1 <= d THEN d - 1 + 1 ELSE 0
        /\ \A m \in 1..d - 1 + 1 : SubSeq(part, 1, d)[m] = part[1 + m - 1]
    <3> HIDE DEF d
    <3> QED BY <2>1, SubSeqProperties DEF d
  <2> QED BY <1>6, <2>2
<1>a. name = Name
  BY <1>3, <1>7
<1> HIDE DEF name
<1>b. ASSUME NEW m \in 1..e, m <= Len(part) PROVE part[m] # -Semicolon
  <2>1. CASE m < e
    <3>1. m \in 1..e - 1
      BY <1>6, <2>1
    <3>2. part[m] = Name[m] /\ m \in 1..Len(Name)
      BY <1>9, <1>a, <3>1
    <3>3. Len(Name) = 5 /\ Name[1] > 0 /\ Name[2] > 0 /\ Name[3] > 0 /\ Name[4] > 0 /\ Name[5] > 0
      BY DEF Name
    <3>4. \A k \in 1..5 : k = 1 \/ k = 2 \/ k = 3 \/ k = 4 \/ k = 5
      OBVIOUS
    <3>5. Name[m] > 0
      BY <3>2, <3>3, <3>4
    <3>6. ~(-Semicolon > 0)
      BY DEF Semicolon
    <3> QED BY <3>2, <3>5, <3>6
  <2>2. CASE m = e
    <3>1. part[m] = -Equals
      BY <1>b, <1>5, <1>6, <2>2 DEF IsFirst
    <3> QED BY <3>1 DEF Equals, Semicolon
  <2> QED BY <1>6, <2>1, <2>2
<1> DEFINE L == Len(part)
           q == UpTo(part, 1, {-Semicolon})
           short == SubSeq(said, b, b + q - 2)
<1>c. IsFirst(part, 1, {-Semicolon}, q) /\ q \in 1..L + 1
  <2>1. 1 \in 1..Len(part) + 1
    BY <1>5
  <2>2. IsFirst(part, 1, {-Semicolon}, q)
    BY <1>5, <2>1, UpToFirst
  <2> QED BY <2>2 DEF IsFirst
<1> HIDE DEF q
<1>d. L \in Nat /\ e \in 1..L + 1 /\ (e < q \/ q = L + 1)
  <2>1. L \in Nat /\ e \in 1..L + 1
    BY <1>5, <1>6
  <2>2. ASSUME q <= e, q # L + 1 PROVE FALSE
    <3>1. q \in 1..e /\ q <= L
      BY <1>c, <2>1, <2>2
    <3>2. part[q] = -Semicolon
      BY <1>c, <2>1, <3>1 DEF IsFirst
    <3> QED BY <1>b, <3>1, <3>2
  <2> QED BY <1>c, <2>1, <2>2
<1>e. IsFirst(said, b, Negatives(Separators), b + q - 1)
  <2>1. b + q - 1 \in b..N + 1
    BY <1>c, <1>1, <1>4, <1>5
  <2>2. CASE q = L + 1
    <3>1. b + q - 1 = c
      BY <1>4, <1>5, <2>2
    <3>2. c > N \/ said[c] \in Negatives(Separators)
      BY <1>0, <1>2 DEF IsFirst
    <3>3. ASSUME NEW k \in b..c - 1 PROVE said[k] \notin Negatives(Separators)
      <4> DEFINE m == k - b + 1
      <4>1. m \in 1..c - b /\ b + m - 1 = k
        <5> HIDE DEF N
        <5> QED BY <1>1, <1>4
      <4>2. m \in 1..q - 1
        BY <1>5, <2>2, <4>1
      <4> HIDE DEF m
      <4>3. said[k] # -Semicolon
        BY <1>5, <1>c, <4>1, <4>2 DEF IsFirst
      <4>4. said[k] # -And
        BY <1>0, <1>2 DEF IsFirst
      <4> QED BY <1>0, <4>3, <4>4
    <3> QED BY <2>1, <3>1, <3>2, <3>3 DEF IsFirst
  <2>3. CASE q <= L
    <3>1. q \in 1..c - b /\ part[q] = -Semicolon
      BY <1>5, <1>c, <2>3 DEF IsFirst
    <3>2. said[b + q - 1] \in Negatives(Separators)
      BY <1>0, <1>5, <3>1
    <3>3. ASSUME NEW k \in b..b + q - 1 - 1 PROVE said[k] \notin Negatives(Separators)
      <4> DEFINE m == k - b + 1
      <4>1. m \in 1..c - b /\ b + m - 1 = k /\ m \in 1..q - 1 /\ k \in b..c - 1
        <5> HIDE DEF N
        <5> QED BY <1>1, <1>4, <3>1
      <4> HIDE DEF m
      <4>2. said[k] # -Semicolon
        BY <1>5, <1>c, <4>1 DEF IsFirst
      <4>3. said[k] # -And
        BY <1>0, <1>2, <4>1 DEF IsFirst
      <4> QED BY <1>0, <4>2, <4>3
    <3> DEFINE j == b + q - 1
    <3>4. j \in b..Len(said) + 1 /\ said[j] \in Negatives(Separators)
      BY <2>1, <3>2
    <3>5. \A k \in b..j - 1 : said[k] \notin Negatives(Separators)
      <4>1. b + q - 1 - 1 = j - 1
        BY <1>4, <3>1
      <4> HIDE DEF j
      <4> QED BY <3>3, <4>1
    <3> HIDE DEF j
    <3>6. IsFirst(said, b, Negatives(Separators), j)
      BY <3>4, <3>5 DEF IsFirst
    <3> QED BY <3>6 DEF j
  <2> QED BY <1>c, <1>d, <2>2, <2>3
<1>f. PartAt(said, Separators, b) = short
  <2>1. UpTo(said, b, Negatives(Separators)) = b + q - 1
    BY <1>e, UpToIs
  <2> DEFINE j == UpTo(said, b, Negatives(Separators))
  <2>2. j - 1 = b + q - 2
    BY <1>c, <1>d, <1>4, <2>1
  <2>3. PartAt(said, Separators, b) = SubSeq(said, b, j - 1)
    BY DEF PartAt
  <2> HIDE DEF j
  <2> QED BY <2>2, <2>3
<1>g. /\ short \in Seq(Int) /\ Len(short) = q - 1
      /\ \A m \in 1..q - 1 : short[m] = part[m]
  <2> DEFINE d == b + q - 2
  <2>0. q \in Int /\ 1 <= q /\ q - 1 <= c - b
    BY <1>c, <1>4, <1>5
  <2>1. b \in Int /\ d \in Int /\ \A m \in b..d : said[m] \in Int
    <3> HIDE DEF N
    <3>1. \A m \in b..d : m \in 1..N
      BY <1>1, <1>4, <2>0
    <3>2. \A m \in 1..N : said[m] \in Int
      BY DEF N
    <3> QED BY <1>4, <2>0, <3>1, <3>2
  <2>2. /\ SubSeq(said, b, d) \in Seq(Int)
        /\ Len(SubSeq(said, b, d)) = IF b <= d THEN d - b + 1 ELSE 0
        /\ \A m \in 1..d - b + 1 : SubSeq(said, b, d)[m] = said[b + m - 1]
    <3> HIDE DEF d
    <3> QED BY <2>1, SubSeqProperties DEF d
  <2>3. d - b + 1 = q - 1 /\ (b <= d \/ q - 1 = 0) /\ 1..q - 1 \subseteq 1..c - b
    BY <1>4, <2>0
  <2> HIDE DEF d
  <2>4. SubSeq(said, b, d) = short
    BY DEF d
  <2> HIDE DEF short
  <2> QED BY <1>5, <2>2, <2>3, <2>4
<1> HIDE DEF short
<1>h. UpTo(short, 1, {-Equals}) = e
  <2>1. e \in 1..Len(short) + 1
    BY <1>c, <1>d, <1>g
  <2>2. e > Len(short) \/ short[e] \in {-Equals}
    <3>1. CASE e <= q - 1
      <4>1. e \in 1..q - 1 /\ e <= L
        BY <1>c, <1>d, <3>1
      <4> QED BY <1>6, <1>d, <1>g, <4>1 DEF IsFirst
    <3>2. CASE e > q - 1
      BY <1>g, <3>2
    <3> QED BY <1>c, <1>d, <3>1, <3>2
  <2>3. \A k \in 1..e - 1 : short[k] \notin {-Equals}
    <3>1. \A k \in 1..e - 1 : k \in 1..q - 1
      BY <1>c, <1>d
    <3> QED BY <1>6, <1>g, <3>1 DEF IsFirst
  <2>4. 1 \in 1..Len(short) + 1 /\ IsFirst(short, 1, {-Equals}, e)
    BY <1>c, <1>g, <2>1, <2>2, <2>3 DEF IsFirst
  <2> QED BY <1>g, <2>4, UpToIs
<1>i. NameIn(short) = Name
  <2> DEFINE d == e - 1
  <2>1. 1 \in Int /\ d \in Int /\ \A m \in 1..d : short[m] \in Int /\ part[m] \in Int
    <3>1. \A m \in 1..d : m \in 1..q - 1 /\ m \in 1..L
      BY <1>c, <1>d
    <3> QED BY <1>5, <1>d, <1>g, <3>1
  <2> HIDE DEF d
  <2>2. /\ SubSeq(short, 1, d) \in Seq(Int) /\ SubSeq(part, 1, d) \in Seq(Int)
        /\ Len(SubSeq(short, 1, d)) = Len(SubSeq(part, 1, d))
        /\ Len(SubSeq(short, 1, d)) = IF 1 <= d THEN d - 1 + 1 ELSE 0
        /\ \A m \in 1..d - 1 + 1 : /\ SubSeq(short, 1, d)[m] = short[1 + m - 1]
                                   /\ SubSeq(part, 1, d)[m] = part[1 + m - 1]
    BY <2>1, SubSeqProperties
  <2>3. ASSUME NEW m \in 1..Len(SubSeq(short, 1, d))
        PROVE  SubSeq(short, 1, d)[m] = SubSeq(part, 1, d)[m]
    <3>1. m \in 1..d - 1 + 1 /\ 1 + m - 1 = m /\ m \in 1..d
      BY <2>1, <2>2
    <3>2. m \in 1..q - 1
      BY <1>c, <1>d, <3>1 DEF d
    <3> QED BY <1>g, <2>2, <3>1, <3>2
  <2>4. SubSeq(short, 1, d) = SubSeq(part, 1, d)
    BY <2>2, <2>3, SeqEqual
  <2> QED BY <1>a, <1>h, <2>4 DEF NameIn, name, d
<1> DEFINE doc == DocumentIn(part)
           u == UpTo(doc, 1, {-Semicolon})
<1>j. DocumentIn(short) = [n \in 1..q - 1 - e |-> AsByte(short[e + n])]
  BY <1>g, <1>h DEF DocumentIn
<1>k. doc \in Seq(Int) /\ Len(doc) = IF e <= L THEN L - e ELSE 0
  <2>1. ASSUME NEW n \in 1..L - e PROVE AsByte(part[e + n]) \in Int
    <3>1. e + n \in 1..L
      BY <1>d
    <3>2. part[e + n] \in Int
      BY <1>5, <3>1
    <3> QED BY <3>2 DEF AsByte, Equals
  <2>2. CASE e <= L
    <3>1. L - e \in Nat
      BY <1>d, <2>2
    <3> HIDE DEF L
    <3> QED BY <1>8, <2>1, <2>2, <3>1 DEF L
  <2>3. CASE e > L
    <3>1. 1..L - e = {} /\ 1..0 = {}
      BY <1>d, <2>3
    <3>2. doc = [n \in 1..0 |-> AsByte(part[e + n])]
      BY <1>8, <3>1
    <3>3. doc = <<>>
      BY <3>1, <3>2
    <3>4. <<>> \in Seq(Int) /\ Len(<<>>) = 0 /\ ~(e <= L)
      BY <1>d, <2>3
    <3> HIDE DEF doc
    <3> QED BY <3>3, <3>4
  <2> QED BY <1>d, <2>2, <2>3
<1>l. CASE e <= L
  <2>1. e < q /\ q - e \in 1..L - e + 1 /\ L - e \in Nat
    BY <1>c, <1>d, <1>l
  <2>2. \A n \in 1..L - e : doc[n] = AsByte(part[e + n])
    BY <1>8
  <2> HIDE DEF doc
  <2>3. \A v : AsByte(v) = -Semicolon <=> v = -Semicolon
    BY DEF AsByte, Equals, Semicolon
  <2>4. IsFirst(doc, 1, {-Semicolon}, q - e)
    <3>1. q - e \in 1..Len(doc) + 1
      BY <1>k, <1>l, <2>1
    <3>2. q - e > Len(doc) \/ doc[q - e] \in {-Semicolon}
      <4>1. CASE q = L + 1
        BY <1>k, <1>l, <1>d, <4>1
      <4>2. CASE q <= L
        <5>1. q - e \in 1..L - e /\ e + (q - e) = q
          BY <1>c, <1>d, <2>1, <4>2
        <5>2. part[q] = -Semicolon
          BY <1>c, <1>d, <4>2 DEF IsFirst
        <5>3. doc[q - e] = AsByte(part[q])
          BY <2>2, <5>1
        <5> QED BY <2>3, <5>2, <5>3
      <4> QED BY <1>c, <1>d, <4>1, <4>2
    <3>3. ASSUME NEW k \in 1..q - e - 1 PROVE doc[k] \notin {-Semicolon}
      <4>1. k \in 1..L - e /\ e + k \in 1..q - 1
        BY <1>c, <1>d, <2>1
      <4>2. part[e + k] # -Semicolon
        BY <1>c, <4>1 DEF IsFirst
      <4> QED BY <2>2, <2>3, <4>1, <4>2
    <3> QED BY <3>1, <3>2, <3>3 DEF IsFirst
  <2>5. u = q - e
    <3>1. 1 \in 1..Len(doc) + 1
      BY <1>k, <1>l, <2>1
    <3> QED BY <1>k, <2>4, <3>1, UpToIs
  <2> DEFINE d == q - e - 1
             cut == SubSeq(doc, 1, d)
  <2>6. 1 \in Int /\ d \in Nat /\ \A m \in 1..d : doc[m] \in Int
    <3>1. d \in Nat /\ \A m \in 1..d : m \in 1..Len(doc)
      BY <1>c, <1>d, <1>k, <1>l, <2>1
    <3> QED BY <1>k, <3>1
  <2>7. /\ cut \in Seq(Int) /\ Len(cut) = d
        /\ \A m \in 1..d : cut[m] = doc[m]
    <3> HIDE DEF d
    <3>1. /\ SubSeq(doc, 1, d) \in Seq(Int)
          /\ Len(SubSeq(doc, 1, d)) = IF 1 <= d THEN d - 1 + 1 ELSE 0
          /\ \A m \in 1..d - 1 + 1 : SubSeq(doc, 1, d)[m] = doc[1 + m - 1]
      BY <2>6, SubSeqProperties
    <3>2. \A m \in 1..d : m \in 1..d - 1 + 1 /\ 1 + m - 1 = m
      BY <2>6
    <3>3. (IF 1 <= d THEN d - 1 + 1 ELSE 0) = d
      BY <2>6
    <3> QED BY <3>1, <3>2, <3>3
  <2>8. UpToSemicolon(doc) = cut
    BY <2>5 DEF UpToSemicolon, u
  <2> HIDE DEF cut
  <2>9. cut = [m \in 1..d |-> AsByte(short[e + m])]
    <3>1. ASSUME NEW m \in 1..d PROVE cut[m] = AsByte(short[e + m])
      <4>1. m \in 1..L - e /\ e + m \in 1..q - 1
        BY <1>c, <1>d, <2>1
      <4> QED BY <1>g, <2>2, <2>7, <4>1
    <3>2. cut = [m \in 1..d |-> cut[m]]
      <4> HIDE DEF d
      <4> QED BY <2>7
    <3> QED BY <3>1, <3>2
  <2>a. q - 1 - e = d
    BY <1>c, <1>d
  <2> QED BY <1>3, <1>f, <1>i, <1>j, <1>k, <2>8, <2>9, <2>a DEF doc
<1>m. CASE e > L
  <2>1. q = L + 1 /\ e = L + 1
    BY <1>c, <1>d, <1>m
  <2>2. Len(doc) = 0 /\ doc = <<>>
    <3>1. Len(doc) = 0
      BY <1>d, <1>k, <1>m
    <3> QED BY <1>k, <3>1, EmptySeq
  <2>3. DocumentIn(short) = <<>>
    <3>1. 1..q - 1 - e = {} /\ 1..0 = {}
      BY <1>d, <2>1
    <3>2. DocumentIn(short) = [n \in 1..0 |-> AsByte(short[e + n])]
      BY <1>j, <3>1
    <3> QED BY <3>1, <3>2
  <2>4. UpToSemicolon(<<>>) = <<>>
    <3>1. IsFirst(<<>>, 1, {-Semicolon}, 1)
      BY DEF IsFirst
    <3>2. <<>> \in Seq(Int) /\ 1 \in 1..Len(<<>>) + 1
      OBVIOUS
    <3>3. UpTo(<<>>, 1, {-Semicolon}) = 1
      BY <3>1, <3>2, UpToIs
    <3>4. SubSeq(<<>>, 1, 0) = <<>>
      BY SubSeqEmpty
    <3> QED BY <3>3, <3>4 DEF UpToSemicolon
  <2> HIDE DEF doc
  <2> QED BY <1>3, <1>f, <1>i, <1>k, <2>2, <2>3, <2>4 DEF doc
<1> QED BY <1>d, <1>l, <1>m

\* What no ; is in is all of what comes before one.
LEMMA NothingCut ==
  ASSUME NEW doc \in Seq(Int), ~Contains(doc, -Semicolon)
  PROVE  UpToSemicolon(doc) = doc
<1>1. Len(doc) \in Nat /\ \A k \in 1..Len(doc) : doc[k] # -Semicolon
  BY DEF Contains
<1>2. IsFirst(doc, 1, {-Semicolon}, Len(doc) + 1)
  BY <1>1 DEF IsFirst
<1>3. UpTo(doc, 1, {-Semicolon}) = Len(doc) + 1
  BY <1>1, <1>2, UpToIs
<1>4. Len(doc) + 1 - 1 = Len(doc)
  BY <1>1
<1>5. SubSeq(doc, 1, Len(doc)) = doc
  BY SubSeqFull
<1> QED BY <1>3, <1>4, <1>5 DEF UpToSemicolon

\* What an API reads that splits on & is, up to its first ;, what one reads that splits on
\* both, and what Go reads is all of it.
LEMMA AmpReadsOfBoth ==
  ASSUME meant \in Seq(Int)
  PROVE  /\ ReadByBoth = {ParamOf(meant, Separators, b) : b \in Asked(meant)}
         /\ \A p \in ReadByAmp : \E r \in ReadByBoth : UpToSemicolon(p.document) = r.document
         /\ \A p \in ReadByGo : p \in ReadByAmp /\ UpToSemicolon(p.document) = p.document
<1>1. ReadByBoth = {ParamOf(meant, Separators, b) : b \in Asked(meant)}
  <2>1. \A b : ParamOf(meant, Separators, b).name = NameIn(PartAt(meant, Separators, b))
    BY DEF ParamOf
  <2>2. ReadByBoth = {p \in {ParamOf(meant, Separators, b) :
                              b \in BeginsMeant(meant, Separators)} : p.name = Name}
    BY ParamsAre DEF ReadByBoth
  <2> QED BY <2>1, <2>2 DEF Asked
<1>2. ASSUME NEW p \in ReadByAmp
      PROVE  /\ \E r \in ReadByBoth : UpToSemicolon(p.document) = r.document
             /\ p.document \in Seq(Int)
  <2>1. p \in Params({And}) /\ p.name = Name
    BY DEF ReadByAmp
  <2>2. PICK b \in BeginsMeant(meant, {And}) : p = ParamOf(meant, {And}, b)
    BY <2>1, ParamsAre
  <2>3. /\ NameIn(PartAt(meant, {And}, b)) = Name
        /\ p.document = DocumentIn(PartAt(meant, {And}, b))
    BY <2>1, <2>2 DEF ParamOf
  <2>4. b \in 1..Len(meant) + 1 /\ b \in BeginsMeant(meant, Separators)
    <3>1. Negatives({And}) \subseteq Negatives(Separators)
      BY DEF Negatives, Separators
    <3>2. Len(meant) \in Nat /\ DOMAIN meant = 1..Len(meant)
      OBVIOUS
    <3>3. b = 1 \/ \E m \in 1..Len(meant) : b = m + 1 /\ meant[m] \in Negatives({And})
      BY <3>2 DEF BeginsMeant
    <3>4. b \in 1..Len(meant) + 1
      BY <3>2, <3>3
    <3>5. b \in BeginsMeant(meant, Separators)
      BY <3>1, <3>2, <3>3 DEF BeginsMeant
    <3> QED BY <3>4, <3>5
  <2>5. /\ NameIn(PartAt(meant, Separators, b)) = Name
        /\ DocumentIn(PartAt(meant, Separators, b)) = UpToSemicolon(p.document)
        /\ p.document \in Seq(Int)
    BY <2>3, <2>4, SplitWithin
  <2>6. b \in Asked(meant)
    BY <2>4, <2>5 DEF Asked
  <2>7. ParamOf(meant, Separators, b).document = UpToSemicolon(p.document)
    BY <2>5 DEF ParamOf
  <2> QED BY <1>1, <2>5, <2>6, <2>7
<1>3. ASSUME NEW p \in ReadByGo
      PROVE  p \in ReadByAmp /\ UpToSemicolon(p.document) = p.document
  <2>1. p \in ReadByAmp /\ ~Contains(p.document, -Semicolon)
    BY DEF ReadByGo
  <2> QED BY <1>2, <2>1, NothingCut
<1> QED BY <1>1, <1>2, <1>3

\* The document of a GET is the one an API reads, or the begin of it.
LEMMA QueryReads == TextSpelled => ReadsWhatApisRead
<1> SUFFICES ASSUME TextSpelled, text.kind = "query"
             PROVE  LET read == extractQueryParam(bytes)
                        both == ReadByBoth
                    IN /\ read.err = "errNoQuery" <=> both = {}
                       /\ read.err = "errDuplicateQuery" <=> \E p, q \in both : p # q
                       /\ read.err = "nil" =>
                            /\ \A p \in both \cup ReadByGo : p.document = read.value
                            /\ \A p \in ReadByAmp :
                                 UpToSemicolon(p.document) = read.value
  BY DEF ReadsWhatApisRead
<1> DEFINE read == extractQueryParam(bytes)
           named == Asked(meant)
           begins == QueryBegins(bytes)
           found(i) == urlDecoded(ValueOf(Pair(bytes, i)))
<1>1. meant \in Seq(Int) /\ bytes \in Seq(Nat)
  BY DEF TextSpelled
<1>2. PICK pos : Query(bytes, meant, pos)
  BY <1>1 DEF TextSpelled, Query
<1>3. /\ ReadByBoth = {ParamOf(meant, Separators, b) : b \in named}
      /\ \A p \in ReadByAmp : \E r \in ReadByBoth : UpToSemicolon(p.document) = r.document
      /\ \A p \in ReadByGo : p \in ReadByAmp /\ UpToSemicolon(p.document) = p.document
  BY <1>1, AmpReadsOfBoth
<1>4. named \subseteq 1..Len(meant) /\ begins = {pos[b] : b \in named}
  BY <1>2, QueriesAt
<1>5. \A b, d \in named : b # d => pos[b] # pos[d]
  <2>1. Spelled("query", bytes, meant, pos)
    BY <1>2 DEF Query
  <2>2. /\ \A n, k \in 1..Len(meant) + 1 : n < k => pos[n] < pos[k]
        /\ \A n \in 1..Len(meant) + 1 : pos[n] \in 1..Len(bytes) + 1
    BY <1>1, <2>1, Units
  <2>3. \A n \in 1..Len(meant) : n \in 1..Len(meant) + 1 /\ n \in Int
    BY <1>1
  <2>4. ASSUME NEW b \in named, NEW d \in named, b < d PROVE pos[b] # pos[d]
    <3>1. pos[b] < pos[d] /\ pos[b] \in Int /\ pos[d] \in Int
      BY <1>4, <2>2, <2>3, <2>4
    <3> QED BY <3>1
  <2>5. \A b, d \in named : b # d => b < d \/ d < b
    BY <1>4, <2>3
  <2> QED BY <2>4, <2>5
<1>6. \A b : ParamOf(meant, Separators, b).begins = b
  BY DEF ParamOf
<1>7. CASE named = {}
  <2>1. begins = {}
    BY <1>4, <1>7
  <2>2. read.err = "errNoQuery"
    BY <2>1 DEF extractQueryParam
  <2> QED BY <1>3, <1>7, <2>2
<1>8. CASE \E b, d \in named : b # d
  <2>1. PICK b \in named, d \in named : b # d
    BY <1>8
  <2>2. pos[b] \in begins /\ pos[d] \in begins /\ pos[b] # pos[d]
    BY <1>4, <1>5, <2>1
  <2>3. read.err = "errDuplicateQuery"
    BY <2>2 DEF extractQueryParam
  <2>4. ParamOf(meant, Separators, b) # ParamOf(meant, Separators, d)
    BY <1>6, <2>1
  <2>5. ReadByBoth # {} /\ \E p, q \in ReadByBoth : p # q
    BY <1>3, <2>1, <2>4
  <2> QED BY <2>3, <2>5
<1>9. CASE named # {} /\ ~\E b, d \in named : b # d
  <2>1. PICK b : named = {b}
    BY <1>9
  <2> DEFINE part == PartAt(meant, Separators, b)
             i == CHOOSE n \in begins : TRUE
  <2>2. begins = {pos[b]} /\ ReadByBoth = {ParamOf(meant, Separators, b)}
    BY <1>3, <1>4, <2>1
  <2>3. i = pos[b]
    BY <2>2
  <2>4. read = IF Bad(found(i)) THEN [err |-> "errInvalidEscape", value |-> <<>>]
               ELSE [err |-> "nil", value |-> found(i)]
    BY <2>2 DEF extractQueryParam
  <2> HIDE DEF i, read
  <2>5. read.err # "errNoQuery" /\ read.err # "errDuplicateQuery"
    BY <2>4
  <2>6. read.err = "nil" => ~Bad(found(pos[b])) /\ read.value = found(pos[b])
    BY <2>3, <2>4
  <2>7. ~Bad(found(pos[b])) => found(pos[b]) = DocumentIn(part)
    <3>1. b \in 1..Len(meant)
      BY <1>4, <2>1
    <3>2. /\ \E starts : Query(Pair(bytes, pos[b]), part, starts)
          /\ Unparted(part)
      BY <1>2, <3>1, PairPart
    <3>3. PICK starts : Query(Pair(bytes, pos[b]), part, starts)
      BY <3>2
    <3> QED BY <3>2, <3>3, DocumentRead
  <2>8. ParamOf(meant, Separators, b).document = DocumentIn(part)
    BY DEF ParamOf
  <2>9. ASSUME read.err = "nil"
        PROVE  /\ \A p \in ReadByBoth \cup ReadByGo : p.document = read.value
               /\ \A p \in ReadByAmp : UpToSemicolon(p.document) = read.value
    <3>1. \A r \in ReadByBoth : r.document = read.value
      BY <2>2, <2>6, <2>7, <2>8, <2>9
    <3>2. \A p \in ReadByAmp : UpToSemicolon(p.document) = read.value
      BY <1>3, <3>1
    <3>3. \A p \in ReadByGo : p.document = read.value
      BY <1>3, <3>2
    <3> QED BY <3>1, <3>2, <3>3
  <2>a. ReadByBoth # {} /\ ~\E p, q \in ReadByBoth : p # q
    BY <2>2
  <2> QED BY <2>5, <2>9, <2>a DEF read
<1> QED BY <1>7, <1>8, <1>9

-----------------------------------------------------------------------------
(* The string of a body.                                                   *)

Half(v) == 55296 <= v /\ v <= 57343

LEMMA Halves ==
  ASSUME NEW v \in Nat
  PROVE  /\ IsLeadingSurrogate(v) \/ IsTrailingSurrogate(v) <=> Half(v)
         /\ ~(IsLeadingSurrogate(v) /\ IsTrailingSurrogate(v))
         /\ IsScalarValue(v) <=> v <= 1114111 /\ ~Half(v)
         /\ v < 128 => ~Half(v)
<1>1. IsLeadingSurrogate(v) <=> 55296 <= v /\ v <= 56319
  BY DEF IsLeadingSurrogate
<1>2. IsTrailingSurrogate(v) <=> 56320 <= v /\ v <= 57343
  BY DEF IsTrailingSurrogate
<1>3. IsScalarValue(v) <=> v <= 1114111 /\ ~(55296 <= v /\ v <= 57343)
  BY SMT DEF IsScalarValue
<1> QED BY <1>1, <1>2, <1>3 DEF Half

\* All bytes of a character are beyond ASCII, or it is one of its 128.
LEMMA Encoded ==
  ASSUME NEW v \in Nat
  PROVE  /\ utf8(v) \in Seq(Nat) /\ Len(utf8(v)) \in 1..4
         /\ v < 128 => utf8(v) = <<v>>
         /\ v >= 128 => \A k \in 1..Len(utf8(v)) : utf8(v)[k] >= 128
         /\ Half(v) => utf8(v) = <<239, 191, 189>>
<1> DEFINE Goal == /\ utf8(v) \in Seq(Nat) /\ Len(utf8(v)) \in 1..4
                   /\ v < 128 => utf8(v) = <<v>>
                   /\ v >= 128 => \A k \in 1..Len(utf8(v)) : utf8(v)[k] >= 128
                   /\ Half(v) => utf8(v) = <<239, 191, 189>>
<1> SUFFICES Goal
  OBVIOUS
<1>1. \A n \in {1, 64, 4096} : NextByte(v, n) \in Nat /\ NextByte(v, n) >= 128
  BY DEF NextByte
<1>2. ASSUME NEW mark \in {192, 224, 240}, NEW n \in {64, 4096, 262144}
      PROVE  LeadByte(mark, v, n) \in Nat /\ LeadByte(mark, v, n) >= 128
  BY DEF LeadByte
<1>3. CASE v < 128
  <2>1. utf8(v) = <<v>>
    BY <1>3 DEF utf8
  <2>2. v < 128 /\ ~Half(v)
    BY <1>3 DEF Half
  <2>3. utf8(v) \in Seq(Nat) /\ Len(utf8(v)) = 1
    BY <2>1
  <2> QED BY <2>1, <2>2, <2>3
<1>4. CASE ~(v < 128) /\ v < 2048
  <2> DEFINE a == LeadByte(192, v, 64)
             b == NextByte(v, 1)
  <2>1. utf8(v) = <<a, b>>
    BY <1>4, SMTT(30) DEF utf8
  <2>2. a \in Nat /\ b \in Nat /\ a >= 128 /\ b >= 128
    BY <1>1, <1>2
  <2> HIDE DEF a, b
  <2>3. utf8(v) \in Seq(Nat) /\ Len(utf8(v)) = 2
    BY <2>1, <2>2
  <2>4. \A k \in 1..2 : utf8(v)[k] >= 128
    BY <2>1, <2>2
  <2>5. v >= 128 /\ ~Half(v)
    BY <1>4 DEF Half
  <2> QED BY <2>3, <2>4, <2>5
<1>5. CASE ~(v < 2048) /\ ~IsScalarValue(v)
  <2>0. ~(v < 128)
    BY <1>5
  <2>1. utf8(v) = <<239, 191, 189>>
    BY <1>5, <2>0, SMTT(30) DEF utf8
  <2>2. \A k \in 1..3 : utf8(v)[k] >= 128
    BY <2>1
  <2>3. utf8(v) \in Seq(Nat) /\ Len(utf8(v)) = 3
    BY <2>1
  <2> QED BY <1>5, <2>1, <2>2, <2>3
<1>6. CASE ~(v < 2048) /\ v < 65536 /\ IsScalarValue(v)
  <2> DEFINE a == LeadByte(224, v, 4096)
             b == NextByte(v, 64)
             c == NextByte(v, 1)
  <2>0. ~(v < 128)
    BY <1>6
  <2>1. utf8(v) = <<a, b, c>>
    BY <1>6, <2>0, SMTT(30) DEF utf8
  <2>2. a \in Nat /\ b \in Nat /\ c \in Nat /\ a >= 128 /\ b >= 128 /\ c >= 128
    BY <1>1, <1>2
  <2> HIDE DEF a, b, c
  <2>3. utf8(v) \in Seq(Nat) /\ Len(utf8(v)) = 3
    BY <2>1, <2>2
  <2>4. \A k \in 1..3 : utf8(v)[k] >= 128
    BY <2>1, <2>2
  <2>5. v >= 128 /\ ~Half(v)
    BY <1>6, <2>0, Halves, SMTT(30)
  <2> QED BY <2>3, <2>4, <2>5
<1>7. CASE ~(v < 2048) /\ ~(v < 65536) /\ IsScalarValue(v)
  <2> DEFINE a == LeadByte(240, v, 262144)
             b == NextByte(v, 4096)
             c == NextByte(v, 64)
             d == NextByte(v, 1)
  <2>0. ~(v < 128)
    BY <1>7
  <2>1. utf8(v) = <<a, b, c, d>>
    BY <1>7, <2>0, SMTT(30) DEF utf8
  <2>2. /\ a \in Nat /\ b \in Nat /\ c \in Nat /\ d \in Nat
        /\ a >= 128 /\ b >= 128 /\ c >= 128 /\ d >= 128
    BY <1>1, <1>2
  <2> HIDE DEF a, b, c, d
  <2>3. utf8(v) \in Seq(Nat) /\ Len(utf8(v)) = 4
    BY <2>1, <2>2
  <2>4. \A k \in 1..4 : utf8(v)[k] >= 128
    BY <2>1, <2>2
  <2>5. v >= 128 /\ ~Half(v)
    BY <1>7, <2>0, Halves, SMTT(30)
  <2> QED BY <2>3, <2>4, <2>5
<1> HIDE DEF Goal
<1>8. CASE v < 2048
  BY <1>3, <1>4, <1>8
<1>9. CASE ~(v < 2048) /\ IsScalarValue(v)
  <2>1. CASE v < 65536
    BY <1>6, <1>9, <2>1
  <2>2. CASE ~(v < 65536)
    BY <1>7, <1>9, <2>2
  <2> QED BY <2>1, <2>2
<1> QED BY <1>5, <1>8, <1>9

\* How one unit is unescaped, which is a character as it is, or an escape.
Whole(i, j, s, v) ==
  /\ ~Half(v) /\ SubSeq(s, i, j - 1) = utf8(v)
  /\ \A k \in i..j - 1 : s[k] # Backslash

Escaped(i, j, s) ==
  /\ j = i + 6 /\ s[i] = Backslash /\ s[i + 1] = 117 /\ Hex4(s, i + 2)

Single(i, j, s, v) ==
  /\ j = i + 2 /\ s[i] = Backslash /\ s[i + 1] # 117 /\ SingleEscape(s[i + 1]) = v
  /\ v \in {Quote, Backslash, Slash, 8, 12, LF, CR, Tab}

LEMMA WholeHasNoBackslash ==
  ASSUME NEW i, NEW j, NEW s, NEW v, Whole(i, j, s, v), NEW k \in i..j - 1
  PROVE  s[k] # Backslash
BY DEF Whole

LEMMA SingleIsAscii ==
  ASSUME NEW i, NEW j, NEW s, NEW v, Single(i, j, s, v)
  PROVE  v \in 0..127
<1>1. v \in {Quote, Backslash, Slash, 8, 12, LF, CR, Tab}
  BY DEF Single
<1> QED BY <1>1 DEF Quote, Backslash, Slash, LF, CR, Tab

LEMMA AsciiIsNoHalf ==
  ASSUME NEW v \in 0..127
  PROVE  v < 128 /\ v \in Nat /\ ~Half(v) /\ ~IsLeadingSurrogate(v)
BY Halves

LEMMA Spelling ==
  ASSUME NEW s \in Seq(Nat), NEW i \in 1..Len(s), NEW j \in i + 1..Len(s) + 1, NEW v,
         InMember(s, i, j, v)
  PROVE  /\ v \in Nat
         /\ \/ Whole(i, j, s, v)
            \/ Single(i, j, s, v)
            \/ Escaped(i, j, s) /\ v = Value(s, i + 2)
<1>0. v \in Nat
  BY DEF InMember
<1>1. CASE IsScalarValue(v) /\ v \notin {Quote, Backslash} /\ SubSeq(s, i, j - 1) = utf8(v)
  <2> DEFINE w == utf8(v)
             h == j - 1
  <2>1. \A k \in 1..Len(w) : w[k] # Backslash
    <3>1. CASE v < 128
      <4>1. w = <<v>>
        BY <1>0, <3>1, Encoded
      <4>2. v # Backslash
        BY <1>1
      <4> QED BY <4>1, <4>2
    <3>2. CASE v >= 128
      <4>1. \A k \in 1..Len(w) : w[k] >= 128
        BY <1>0, <3>2, Encoded
      <4> QED BY <4>1 DEF Backslash
    <3> QED BY <1>0, <3>1, <3>2
  <2>2. Len(s) \in Nat /\ i \in Int /\ h \in Int /\ h >= i /\ h <= Len(s)
    OBVIOUS
  <2> HIDE DEF h
  <2>3. \A k \in i..h : s[k] \in Nat
    BY <2>2
  <2>4. /\ Len(SubSeq(s, i, h)) = IF i <= h THEN h - i + 1 ELSE 0
        /\ \A k \in 1..h - i + 1 : SubSeq(s, i, h)[k] = s[i + k - 1]
    BY <2>2, <2>3, SubSeqProperties
  <2>5. SubSeq(s, i, h) = w
    BY <1>1 DEF h
  <2> HIDE DEF w
  <2>6. ASSUME NEW k \in i..h PROVE s[k] # Backslash
    <3> DEFINE m == k - i + 1
    <3>1. m \in 1..h - i + 1 /\ i + m - 1 = k /\ Len(w) = h - i + 1
      BY <2>2, <2>4, <2>5
    <3> HIDE DEF m
    <3> QED BY <2>1, <2>4, <2>5, <3>1
  <2>7. ~Half(v)
    BY <1>0, <1>1, Halves
  <2> QED BY <1>0, <1>1, <2>6, <2>7 DEF Whole, h
<1>2. CASE /\ j = i + 2 /\ s[i] = Backslash
           /\ <<s[i + 1], v>> \in {<<Quote, Quote>>, <<Backslash, Backslash>>, <<Slash, Slash>>,
                               <<98, 8>>, <<102, 12>>, <<110, LF>>, <<114, CR>>, <<116, Tab>>}
  <2> DEFINE b == s[i + 1]
  <2>1. \/ b = Quote /\ v = Quote
        \/ b = Backslash /\ v = Backslash
        \/ b = Slash /\ v = Slash
        \/ b = 98 /\ v = 8
        \/ b = 102 /\ v = 12
        \/ b = 110 /\ v = LF
        \/ b = 114 /\ v = CR
        \/ b = 116 /\ v = Tab
    <3> HIDE DEF b
    <3> QED BY <1>2 DEF b
  <2> HIDE DEF b
  <2>2. b # 117 /\ SingleEscape(b) = v
    <3>1. b # 117
      BY <2>1 DEF Quote, Backslash, Slash
    <3>2. CASE b \in {Quote, Backslash, Slash}
      <4>1. b = v
        BY <2>1, <3>2 DEF Quote, Backslash, Slash
      <4>2. b # 98 /\ b # 102 /\ b # 110 /\ b # 114 /\ b # 116
        BY <3>2 DEF Quote, Backslash, Slash
      <4>3. SingleEscape(b) = b
        BY <4>2 DEF SingleEscape
      <4> QED BY <3>1, <4>1, <4>3
    <3>3. CASE b = 98
      <4>1. v = 8
        BY <2>1, <3>3 DEF Quote, Backslash, Slash
      <4> QED BY <3>1, <3>3, <4>1 DEF SingleEscape
    <3>4. CASE b = 102
      <4>1. v = 12
        BY <2>1, <3>4 DEF Quote, Backslash, Slash
      <4> QED BY <3>1, <3>4, <4>1 DEF SingleEscape
    <3>5. CASE b = 110
      <4>1. v = LF
        BY <2>1, <3>5 DEF Quote, Backslash, Slash
      <4> QED BY <3>1, <3>5, <4>1 DEF SingleEscape
    <3>6. CASE b = 114
      <4>1. v = CR
        BY <2>1, <3>6 DEF Quote, Backslash, Slash
      <4> QED BY <3>1, <3>6, <4>1 DEF SingleEscape
    <3>7. CASE b = 116
      <4>1. v = Tab
        BY <2>1, <3>7 DEF Quote, Backslash, Slash
      <4> QED BY <3>1, <3>7, <4>1 DEF SingleEscape
    <3> QED BY <2>1, <3>1, <3>2, <3>3, <3>4, <3>5, <3>6, <3>7
  <2>3. v \in {Quote, Backslash, Slash, 8, 12, LF, CR, Tab}
    BY <2>1
  <2> QED BY <1>0, <1>2, <2>2, <2>3 DEF Single, b
<1>3. CASE /\ j = i + 6 /\ s[i] = Backslash /\ s[i + 1] = 117
           /\ Hex4(s, i + 2) /\ v = Value(s, i + 2)
  BY <1>0, <1>3 DEF Escaped
<1> QED BY <1>0, <1>1, <1>2, <1>3 DEF InMember

\* Of the string that has been read.
Member(pos) ==
  bytes \in Seq(Nat) /\ meant \in Seq(Int) /\ Spelled("member", bytes, meant, pos)

LEMMA UnitSpelled ==
  ASSUME NEW pos, Member(pos), NEW n \in 1..Len(meant)
  PROVE  /\ pos[n] \in 1..Len(bytes) /\ pos[n + 1] \in pos[n] + 1..Len(bytes) + 1
         /\ meant[n] \in Nat
         /\ \/ Whole(pos[n], pos[n + 1], bytes, meant[n])
            \/ Single(pos[n], pos[n + 1], bytes, meant[n])
            \/ Escaped(pos[n], pos[n + 1], bytes) /\ meant[n] = Value(bytes, pos[n] + 2)
<1>1. bytes \in Seq(Nat) /\ meant \in Seq(Int) /\ Spelled("member", bytes, meant, pos)
  BY DEF Member
<1>2. pos[n] \in 1..Len(bytes) /\ pos[n + 1] \in pos[n] + 1..Len(bytes) + 1
  BY <1>1, Units
<1>3. InMember(bytes, pos[n], pos[n + 1], meant[n])
  BY <1>1 DEF Spelled
<1> QED BY <1>1, <1>2, <1>3, Spelling

\* Only a half is alone or has another, and is an escape.
LEMMA HalfEscaped ==
  ASSUME NEW pos, Member(pos), NEW n \in 1..Len(meant), Half(meant[n])
  PROVE  Escaped(pos[n], pos[n + 1], bytes) /\ meant[n] = Value(bytes, pos[n] + 2)
<1>1. ASSUME Single(pos[n], pos[n + 1], bytes, meant[n]) PROVE FALSE
  <2>1. meant[n] \in 0..127
    BY <1>1, SingleIsAscii
  <2> QED BY <2>1, AsciiIsNoHalf
<1>2. ~Whole(pos[n], pos[n + 1], bytes, meant[n])
  BY DEF Whole
<1> QED BY <1>1, <1>2, UnitSpelled

\* The other half is there for the code where it is meant.
LEMMA TrailPaired ==
  ASSUME NEW pos, Member(pos), NEW n \in 1..Len(meant), IsLeadingSurrogate(meant[n])
  PROVE  /\ TrailAt(bytes, pos[n] + 6) <=> Paired(n)
         /\ Paired(n) => /\ n + 1 \in 1..Len(meant)
                         /\ pos[n + 2] = pos[n] + 12
                         /\ meant[n + 1] = Value(bytes, pos[n] + 8)
<1> DEFINE N == Len(meant)
           L == Len(bytes)
           i == pos[n]
           j == pos[n + 1]
<1>1. /\ N \in Nat /\ L \in Nat /\ pos[N + 1] = L + 1
      /\ bytes \in Seq(Nat) /\ \A k \in 1..L : bytes[k] \in Nat
  <2>1. bytes \in Seq(Nat) /\ meant \in Seq(Int) /\ Spelled("member", bytes, meant, pos)
    BY DEF Member
  <2>2. pos[N + 1] = L + 1
    BY <2>1, Units
  <2> QED BY <2>1, <2>2
<1>2. Escaped(i, j, bytes) /\ i \in 1..L /\ j \in i + 1..L + 1
  <2>0. meant[n] \in Nat
    BY UnitSpelled
  <2>1. Half(meant[n])
    BY <2>0, Halves
  <2> QED BY <2>1, HalfEscaped, UnitSpelled
<1>3. j = i + 6 /\ j \in 1..L + 1
  BY <1>1, <1>2 DEF Escaped
<1> HIDE DEF i, j, L
<1>4. CASE n = N
  <2>1. j = L + 1
    BY <1>1, <1>4 DEF j
  <2>2. ~TrailAt(bytes, j)
    <3>1. Len(<<Backslash, 117>>) = 2
      OBVIOUS
    <3>2. ~(j + 2 - 1 <= L)
      BY <1>1, <2>1
    <3> QED BY <3>1, <3>2 DEF TrailAt, hasPrefixAt, L
  <2>3. ~Paired(n)
    BY <1>1, <1>4 DEF Paired
  <2> QED BY <1>3, <2>2, <2>3 DEF i
<1>5. CASE n # N
  <2> DEFINE m == n + 1
             l == pos[m + 1]
             v == meant[m]
  <2>1. m \in 1..N /\ m + 1 = n + 2
    BY <1>1, <1>5
  <2>2. /\ j \in 1..L /\ l \in j + 1..L + 1
        /\ \/ Whole(j, l, bytes, v)
           \/ Single(j, l, bytes, v)
           \/ Escaped(j, l, bytes) /\ v = Value(bytes, j + 2)
    BY <2>1, UnitSpelled DEF j, L
  <2>p. Paired(n) <=> IsTrailingSurrogate(v)
    <3>1. n < Len(meant)
      BY <1>1, <1>5
    <3> QED BY <3>1 DEF Paired
  <2>3. IsTrailingSurrogate(v) => Escaped(j, l, bytes) /\ v = Value(bytes, j + 2)
    <3>0. v \in Nat
      BY <2>1, UnitSpelled
    <3>1. IsTrailingSurrogate(v) => Half(v)
      BY <3>0, Halves
    <3> QED BY <2>1, <3>1, HalfEscaped DEF j
  <2> HIDE DEF m, l, v
  <2>w. j + 1 <= L => SubSeq(bytes, j, j + 1) = <<bytes[j], bytes[j + 1]>>
    <3> SUFFICES ASSUME j + 1 <= L PROVE SubSeq(bytes, j, j + 1) = <<bytes[j], bytes[j + 1]>>
      OBVIOUS
    <3> DEFINE w == SubSeq(bytes, j, j + 1)
               x == <<bytes[j], bytes[j + 1]>>
    <3>1. j \in Int /\ j + 1 \in Int /\ \A k \in j..j + 1 : bytes[k] \in Nat
      BY <1>1, <2>2
    <3>2. /\ w \in Seq(Nat)
          /\ Len(w) = IF j <= j + 1 THEN (j + 1) - j + 1 ELSE 0
          /\ \A k \in 1..(j + 1) - j + 1 : w[k] = bytes[j + k - 1]
      BY <3>1, SubSeqProperties
    <3>3. (j + 1) - j + 1 = 2 /\ j <= j + 1 /\ j + 1 - 1 = j /\ j + 2 - 1 = j + 1
      BY <3>1
    <3>4. bytes[j] \in Nat /\ bytes[j + 1] \in Nat
      BY <3>1, <3>3
    <3> HIDE DEF w
    <3>5. Len(w) = 2 /\ w[1] = bytes[j] /\ w[2] = bytes[j + 1]
      BY <3>2, <3>3
    <3>6. x \in Seq(Nat) /\ Len(x) = 2 /\ x[1] = bytes[j] /\ x[2] = bytes[j + 1]
      BY <3>4
    <3> HIDE DEF x
    <3>7. \A k \in 1..2 : w[k] = x[k]
      BY <3>5, <3>6
    <3>8. w = x
      BY <3>2, <3>5, <3>6, <3>7, SeqEqual
    <3> QED BY <3>8 DEF w, x
  <2>4. IsTrailingSurrogate(v) => TrailAt(bytes, j)
    <3> SUFFICES ASSUME IsTrailingSurrogate(v) PROVE TrailAt(bytes, j)
      OBVIOUS
    <3>1. /\ l = j + 6 /\ bytes[j] = Backslash /\ bytes[j + 1] = 117 /\ Hex4(bytes, j + 2)
          /\ v = Value(bytes, j + 2)
      BY <2>3 DEF Escaped
    <3>2. j + 1 <= L /\ j + 2 - 1 <= L /\ j + 2 - 1 = j + 1
      BY <1>1, <2>2, <3>1
    <3>3. Len(<<Backslash, 117>>) = 2
      OBVIOUS
    <3>4. hasPrefixAt(bytes, j, <<Backslash, 117>>)
      BY <2>w, <3>1, <3>2, <3>3 DEF hasPrefixAt, L
    <3> QED BY <3>1, <3>4 DEF TrailAt
  <2>5. TrailAt(bytes, j) => IsTrailingSurrogate(v)
    <3> SUFFICES ASSUME TrailAt(bytes, j) PROVE IsTrailingSurrogate(v)
      OBVIOUS
    <3>3. Len(<<Backslash, 117>>) = 2
      OBVIOUS
    <3>1. j + 2 - 1 <= L /\ SubSeq(bytes, j, j + 2 - 1) = <<Backslash, 117>>
      BY <3>3 DEF TrailAt, hasPrefixAt, L
    <3>2. j + 2 - 1 = j + 1
      BY <1>1, <2>2
    <3>4. bytes[j] = Backslash /\ bytes[j + 1] = 117
      BY <2>w, <3>1, <3>2
    <3>5. ~Whole(j, l, bytes, v)
      <4>1. j \in j..l - 1
        BY <1>1, <2>2
      <4> QED BY <3>4, <4>1, WholeHasNoBackslash
    <3>6. ~Single(j, l, bytes, v)
      BY <3>4 DEF Single
    <3> QED BY <2>2, <3>5, <3>6 DEF TrailAt
  <2>6. IsTrailingSurrogate(v) =>
          m \in 1..N /\ pos[m + 1] = pos[n] + 12 /\ v = Value(bytes, i + 8)
    <3> SUFFICES ASSUME IsTrailingSurrogate(v)
                 PROVE  m \in 1..N /\ pos[m + 1] = pos[n] + 12 /\ v = Value(bytes, i + 8)
      OBVIOUS
    <3>1. l = j + 6 /\ v = Value(bytes, j + 2)
      BY <2>3 DEF Escaped
    <3>2. j + 6 = i + 12 /\ j + 2 = i + 8
      BY <1>2, <1>3
    <3> QED BY <2>1, <3>1, <3>2 DEF l, i
  <2> QED BY <1>3, <2>1, <2>p, <2>4, <2>5, <2>6 DEF i, m, v
<1> QED BY <1>4, <1>5

\* What the code reads at an escape.
LEMMA EscapeRead ==
  ASSUME NEW pos, Member(pos), NEW n \in 1..Len(meant), bytes[pos[n]] = Backslash
  PROVE  /\ ~IsLeadingSurrogate(meant[n]) =>
              UnescapedAt(bytes, pos[n]) = <<utf8(meant[n]), pos[n + 1]>>
         /\ IsLeadingSurrogate(meant[n]) /\ Paired(n) =>
              UnescapedAt(bytes, pos[n]) =
                <<utf8(SurrogatePair(meant[n], meant[n + 1])), pos[n + 2]>>
         /\ IsLeadingSurrogate(meant[n]) /\ ~Paired(n) =>
              UnescapedAt(bytes, pos[n]) = <<<<BadEscape>>, Len(bytes) + 1>>
<1> DEFINE i == pos[n]
           j == pos[n + 1]
           v == meant[n]
<1>1. /\ i \in 1..Len(bytes) /\ j \in i + 1..Len(bytes) + 1 /\ v \in Nat
      /\ \/ Whole(i, j, bytes, v)
         \/ Single(i, j, bytes, v)
         \/ Escaped(i, j, bytes) /\ v = Value(bytes, i + 2)
  BY UnitSpelled
<1>2. ~Whole(i, j, bytes, v)
  <2>1. i \in i..j - 1
    BY <1>1
  <2> QED BY <2>1, WholeHasNoBackslash
<1>3. CASE Single(i, j, bytes, v)
  <2>1. v \in 0..127
    BY <1>3, SingleIsAscii
  <2>2. UnescapedAt(bytes, i) = <<<<SingleEscape(bytes[i + 1])>>, i + 2>>
    BY <1>3 DEF Single, UnescapedAt
  <2>3. SingleEscape(bytes[i + 1]) = v /\ j = i + 2
    BY <1>3 DEF Single
  <2>4. utf8(v) = <<v>> /\ ~IsLeadingSurrogate(v)
    <3>1. v \in Nat /\ v < 128 /\ ~IsLeadingSurrogate(v)
      BY <2>1, AsciiIsNoHalf
    <3> QED BY <3>1, Encoded
  <2> QED BY <2>2, <2>3, <2>4
<1>4. CASE Escaped(i, j, bytes) /\ v = Value(bytes, i + 2)
  <2>1. j = i + 6 /\ bytes[i] = Backslash /\ bytes[i + 1] = 117
    BY <1>4 DEF Escaped
  <2>2. CASE ~IsLeadingSurrogate(v)
    BY <1>4, <2>1, <2>2 DEF UnescapedAt
  <2>3. CASE IsLeadingSurrogate(v)
    <3>1. /\ TrailAt(bytes, i + 6) <=> Paired(n)
          /\ Paired(n) => pos[n + 2] = i + 12 /\ meant[n + 1] = Value(bytes, i + 8)
      BY <2>3, TrailPaired
    <3> QED BY <1>4, <2>1, <2>3, <3>1 DEF UnescapedAt
  <2> QED BY <2>2, <2>3
<1> QED BY <1>1, <1>2, <1>3, <1>4

LEMMA Associates ==
  \A a, w, t \in Seq(Int) : (a \o w) \o t = a \o (w \o t)
BY SMTT(40), ConcatAssociative

\* Bytes that each say themselves are read as they are.
LEMMA RunRead ==
  ASSUME NEW s \in Seq(Nat), NEW F, NEW i \in 1..Len(s), NEW j \in i..Len(s) + 1,
         F[j] \in Seq(Int), \A k \in i..j - 1 : F[k] = <<s[k]>> \o F[k + 1]
  PROVE  F[i] = SubSeq(s, i, j - 1) \o F[j]
<1> DEFINE M == j - i
           h == j - 1
           S == {n \in 1..M + 1 : F[i + n - 1] = SubSeq(s, i + n - 1, h) \o F[j]}
<1>0. M \in Nat /\ i \in Int /\ j \in Int /\ h \in Int /\ Len(s) \in Nat
  OBVIOUS
<1>1. M + 1 \in S
  <2>1. i + (M + 1) - 1 = j /\ h < j /\ M + 1 \in 1..M + 1
    BY <1>0
  <2>2. SubSeq(s, j, h) = <<>>
    <3> HIDE DEF h
    <3> QED BY <1>0, <2>1, SubSeqEmpty
  <2>3. <<>> \o F[j] = F[j]
    BY ConcatEmptySeq
  <2> HIDE DEF h, M
  <2> QED BY <2>1, <2>2, <2>3
<1>2. ASSUME NEW n \in 1..M, \A k \in n + 1..M + 1 : k \in S PROVE n \in S
  <2> DEFINE k == i + n - 1
             w == SubSeq(s, k + 1, h)
  <2>1. k \in i..j - 1 /\ i + (n + 1) - 1 = k + 1 /\ n + 1 \in n + 1..M + 1
        /\ n \in 1..M + 1 /\ k \in 1..Len(s) /\ h \in k..Len(s)
    BY <1>0
  <2>2. F[k + 1] = w \o F[j]
    BY <1>2, <2>1
  <2>3. F[k] = <<s[k]>> \o F[k + 1]
    BY <2>1
  <2>4. w \in Seq(Nat) /\ \A m \in k + 1..h : s[m] \in Nat
    <3>1. k + 1 \in Int /\ \A m \in k + 1..h : s[m] \in Nat
      BY <1>0, <2>1
    <3> HIDE DEF k, h
    <3> QED BY <1>0, <3>1, SubSeqProperties
  <2>5. SubSeq(s, k, h) = <<s[k]>> \o w
    <3> HIDE DEF k, h
    <3> QED BY <2>1, SubSeqRecursiveFirst
  <2> DEFINE a == <<s[k]>>
  <2>6. a \in Seq(Int) /\ w \in Seq(Int)
    <3> HIDE DEF w, k
    <3>1. s[k] \in Int
      BY <2>1
    <3>2. Nat \subseteq Int
      OBVIOUS
    <3>3. w \in Seq(Int)
      BY <2>4, <3>2, SeqMonotonic
    <3> QED BY <3>1, <3>3
  <2> HIDE DEF w, a, k, h
  <2>7. (a \o w) \o F[j] = a \o (w \o F[j])
    <3> DEFINE t == F[j]
    <3>1. t \in Seq(Int)
      OBVIOUS
    <3>2. a \in Seq(Int)
      BY <2>6
    <3>3. w \in Seq(Int)
      BY <2>6
    <3> HIDE DEF t
    <3>4. (a \o w) \o t = a \o (w \o t)
      BY <3>1, <3>2, <3>3, Associates, Zenon
    <3> QED BY <3>4 DEF t
  <2>8. F[k] = SubSeq(s, k, h) \o F[j]
    BY <2>2, <2>3, <2>5, <2>7 DEF a
  <2> QED BY <2>1, <2>8 DEF k
<1>3. 1 \in S
  <2> HIDE DEF S, M
  <2>1. \A n \in 1..M + 1 : n \in S
    BY <1>0, <1>1, <1>2, Descends
  <2> QED BY <1>0, <2>1
<1>4. i + 1 - 1 = i
  BY <1>0
<1> HIDE DEF h
<1> QED BY <1>3, <1>4 DEF h

\* The reading of a string by the code, and by encoding/json.
ReadsByCode(U) == Reads(U, Len(bytes), [i \in DOMAIN bytes |-> UnescapedAt(bytes, i)])
ReadsByGo(D) ==
  Reads(D, Len(meant),
        [n \in DOMAIN meant |->
           IF Paired(n) THEN <<utf8(SurrogatePair(meant[n], meant[n + 1])), n + 2>>
           ELSE <<utf8(meant[n]), n + 1>>])

LEMMA CodeReads ==
  ASSUME NEW pos, Member(pos)
  PROVE  \E U : ReadsByCode(U) /\ Unescaped(bytes) = U[1]
<1> DEFINE L == Len(bytes)
           step == [i \in DOMAIN bytes |-> UnescapedAt(bytes, i)]
<1>1. L \in Nat /\ DOMAIN bytes = 1..L
  BY DEF Member
<1>2. ASSUME NEW i \in 1..L PROVE step[i][2] \in Nat /\ step[i][2] > i
  <2>1. step[i] = UnescapedAt(bytes, i)
    BY <1>1
  <2>2. \A w : <<w, i + 1>>[2] = i + 1 /\ <<w, i + 2>>[2] = i + 2 /\ <<w, i + 6>>[2] = i + 6
               /\ <<w, i + 12>>[2] = i + 12 /\ <<w, L + 1>>[2] = L + 1
    OBVIOUS
  <2>3. \E w : step[i] \in {<<w, i + 1>>, <<w, i + 2>>, <<w, i + 6>>, <<w, i + 12>>, <<w, L + 1>>}
    BY <2>1, Zenon DEF UnescapedAt
  <2>4. step[i][2] \in {i + 1, i + 2, i + 6, i + 12, L + 1}
    <3> HIDE DEF step, L
    <3> QED BY <2>2, <2>3
  <2> HIDE DEF step
  <2> QED BY <1>1, <2>4
<1>3. Unescaped(bytes) = Gathered(L, step)
  BY DEF Unescaped
<1> HIDE DEF step, L
<1>4. \E U : Reads(U, L, step) /\ Gathered(L, step) = U[1]
  BY <1>1, <1>2, GatheredReads
<1> QED BY <1>3, <1>4 DEF ReadsByCode, step, L

LEMMA GoReads ==
  ASSUME meant \in Seq(Int)
  PROVE  \E D : ReadsByGo(D) /\ DecodedByGo = D[1]
<1> DEFINE N == Len(meant)
           step == [n \in DOMAIN meant |->
                      IF Paired(n) THEN <<utf8(SurrogatePair(meant[n], meant[n + 1])), n + 2>>
                      ELSE <<utf8(meant[n]), n + 1>>]
<1>1. N \in Nat /\ DOMAIN meant = 1..N
  OBVIOUS
<1>2. ASSUME NEW n \in 1..N PROVE step[n][2] \in Nat /\ step[n][2] > n
  <2>1. step[n] = IF Paired(n) THEN <<utf8(SurrogatePair(meant[n], meant[n + 1])), n + 2>>
                  ELSE <<utf8(meant[n]), n + 1>>
    BY <1>1
  <2>2. step[n][2] = n + 2 \/ step[n][2] = n + 1
    <3> HIDE DEF step
    <3> QED BY <2>1
  <2> HIDE DEF step
  <2> QED BY <2>2
<1>3. DecodedByGo = Gathered(N, step)
  BY DEF DecodedByGo
<1> HIDE DEF step, N
<1>4. \E D : Reads(D, N, step) /\ Gathered(N, step) = D[1]
  BY <1>1, <1>2, GatheredReads
<1> QED BY <1>3, <1>4 DEF ReadsByGo, step, N

\* A pair of halves is a character beyond the first plane.
LEMMA PairIsWide ==
  ASSUME NEW n, Paired(n), meant[n] \in Nat, meant[n + 1] \in Nat
  PROVE  SurrogatePair(meant[n], meant[n + 1]) \in Nat
         /\ SurrogatePair(meant[n], meant[n + 1]) >= 65536
<1> DEFINE a == meant[n]
           b == meant[n + 1]
<1>1. IsLeadingSurrogate(a) /\ IsTrailingSurrogate(b)
  BY DEF Paired
<1> HIDE DEF a, b
<1>2. a \in Nat /\ 55296 <= a
  BY <1>1 DEF a, IsLeadingSurrogate
<1>3. b \in Nat /\ 56320 <= b
  BY <1>1 DEF b, IsTrailingSurrogate
<1>4. SurrogatePair(a, b) \in Nat /\ SurrogatePair(a, b) >= 65536
  BY <1>2, <1>3 DEF SurrogatePair
<1> QED BY <1>4 DEF a, b

\* One unit, read by both.
LEMMA UnitReadByGo ==
  ASSUME NEW pos, Member(pos), NEW D, ReadsByGo(D), NEW n \in 1..Len(meant)
  PROVE  /\ Paired(n) =>
              D[n] = utf8(SurrogatePair(meant[n], meant[n + 1])) \o D[n + 2]
         /\ ~Paired(n) => D[n] = utf8(meant[n]) \o D[n + 1]
         /\ D[Len(meant) + 1] = <<>>
<1> DEFINE N == Len(meant)
           step == [k \in DOMAIN meant |->
                      IF Paired(k) THEN <<utf8(SurrogatePair(meant[k], meant[k + 1])), k + 2>>
                      ELSE <<utf8(meant[k]), k + 1>>]
<1>1. N \in Nat /\ DOMAIN meant = 1..N
  BY DEF Member
<1>2. step[n] = IF Paired(n) THEN <<utf8(SurrogatePair(meant[n], meant[n + 1])), n + 2>>
                ELSE <<utf8(meant[n]), n + 1>>
  BY <1>1
<1>3. Reads(D, N, step)
  BY DEF ReadsByGo
<1> HIDE DEF step
<1>4. D[n] = step[n][1] \o D[step[n][2]]
  BY <1>3 DEF Reads
<1>5. D[N + 1] = <<>>
  <2>1. N + 1 \in Nat /\ N + 1 > N
    BY <1>1
  <2> HIDE DEF N
  <2> QED BY <1>3, <2>1 DEF Reads
<1>6. CASE Paired(n)
  <2>1. step[n][1] = utf8(SurrogatePair(meant[n], meant[n + 1])) /\ step[n][2] = n + 2
    BY <1>2, <1>6
  <2> QED BY <1>4, <1>5, <1>6, <2>1
<1>7. CASE ~Paired(n)
  <2>1. step[n][1] = utf8(meant[n]) /\ step[n][2] = n + 1
    BY <1>2, <1>7
  <2> QED BY <1>4, <1>5, <1>7, <2>1
<1> QED BY <1>6, <1>7

LEMMA ByteReadByCode ==
  ASSUME NEW pos, Member(pos), NEW U, ReadsByCode(U)
  PROVE  /\ \A i \in 1..Len(bytes) :
              U[i] = UnescapedAt(bytes, i)[1] \o U[UnescapedAt(bytes, i)[2]]
         /\ \A i \in 1..Len(bytes) : bytes[i] # Backslash => U[i] = <<bytes[i]>> \o U[i + 1]
         /\ U[Len(bytes) + 1] = <<>>
<1> DEFINE L == Len(bytes)
           step == [i \in DOMAIN bytes |-> UnescapedAt(bytes, i)]
<1>1. L \in Nat /\ DOMAIN bytes = 1..L
  BY DEF Member
<1>2. \A i \in 1..L : step[i] = UnescapedAt(bytes, i)
  BY <1>1
<1>3. Reads(U, L, step)
  BY DEF ReadsByCode
<1> HIDE DEF step, L
<1>4. \A i \in 1..L : U[i] = UnescapedAt(bytes, i)[1] \o U[UnescapedAt(bytes, i)[2]]
  BY <1>2, <1>3 DEF Reads
<1>5. U[L + 1] = <<>>
  <2>1. L + 1 \in Nat /\ L + 1 > L
    BY <1>1
  <2> QED BY <1>3, <2>1 DEF Reads
<1>6. ASSUME NEW i \in 1..L, bytes[i] # Backslash PROVE U[i] = <<bytes[i]>> \o U[i + 1]
  <2>1. UnescapedAt(bytes, i) = <<<<bytes[i]>>, i + 1>>
    BY <1>6 DEF UnescapedAt
  <2>2. UnescapedAt(bytes, i)[1] = <<bytes[i]>> /\ UnescapedAt(bytes, i)[2] = i + 1
    BY <2>1
  <2> QED BY <1>4, <2>2
<1> QED BY <1>4, <1>5, <1>6 DEF L

LEMMA UnitReadByCode ==
  ASSUME NEW pos, Member(pos), NEW U, ReadsByCode(U), NEW n \in 1..Len(meant)
  PROVE  /\ Paired(n) =>
              U[pos[n]] = utf8(SurrogatePair(meant[n], meant[n + 1])) \o U[pos[n + 2]]
         /\ ~IsLeadingSurrogate(meant[n]) /\ U[pos[n + 1]] \in Seq(Int) =>
              U[pos[n]] = utf8(meant[n]) \o U[pos[n + 1]]
         /\ IsLeadingSurrogate(meant[n]) /\ ~Paired(n) => U[pos[n]] = <<BadEscape>>
<1> DEFINE L == Len(bytes)
           i == pos[n]
           j == pos[n + 1]
           v == meant[n]
<1>1. /\ i \in 1..L /\ j \in i + 1..L + 1 /\ v \in Nat
      /\ \/ Whole(i, j, bytes, v)
         \/ Single(i, j, bytes, v)
         \/ Escaped(i, j, bytes) /\ v = Value(bytes, i + 2)
  BY UnitSpelled
<1>2. bytes \in Seq(Nat)
  BY DEF Member
<1>3. U[i] = UnescapedAt(bytes, i)[1] \o U[UnescapedAt(bytes, i)[2]] /\ U[L + 1] = <<>>
  BY <1>1, ByteReadByCode
<1>4. Paired(n) => IsLeadingSurrogate(v)
  BY DEF Paired
<1>5. IsLeadingSurrogate(v) => bytes[i] = Backslash
  <2>1. IsLeadingSurrogate(v) => Half(v)
    BY <1>1, Halves
  <2> QED BY <2>1, HalfEscaped DEF Escaped
<1>6. CASE Paired(n)
  <2>1. UnescapedAt(bytes, i) = <<utf8(SurrogatePair(meant[n], meant[n + 1])), pos[n + 2]>>
    BY <1>4, <1>5, <1>6, EscapeRead
  <2>2. /\ UnescapedAt(bytes, i)[1] = utf8(SurrogatePair(meant[n], meant[n + 1]))
        /\ UnescapedAt(bytes, i)[2] = pos[n + 2]
    BY <2>1
  <2> QED BY <1>3, <1>4, <1>6, <2>2
<1>7. CASE IsLeadingSurrogate(v) /\ ~Paired(n)
  <2>1. UnescapedAt(bytes, i) = <<<<BadEscape>>, L + 1>>
    BY <1>5, <1>7, EscapeRead
  <2>2. UnescapedAt(bytes, i)[1] = <<BadEscape>> /\ UnescapedAt(bytes, i)[2] = L + 1
    BY <2>1
  <2>3. U[i] = <<BadEscape>> \o <<>>
    BY <1>3, <2>2
  <2>4. <<BadEscape>> \in Seq(Int)
    BY DEF BadEscape
  <2>5. U[i] = <<BadEscape>>
    BY <2>3, <2>4, ConcatEmptySeq
  <2> QED BY <1>7, <2>5
<1>8. CASE ~IsLeadingSurrogate(v) /\ bytes[i] = Backslash
  <2>1. UnescapedAt(bytes, i) = <<utf8(v), j>>
    BY <1>8, EscapeRead
  <2>2. UnescapedAt(bytes, i)[1] = utf8(v) /\ UnescapedAt(bytes, i)[2] = j
    BY <2>1
  <2> QED BY <1>3, <1>4, <1>8, <2>2
<1>9. CASE ~IsLeadingSurrogate(v) /\ bytes[i] # Backslash
  <2>1. SUFFICES ASSUME U[j] \in Seq(Int) PROVE U[i] = utf8(v) \o U[j]
    BY <1>4, <1>9
  <2>2. Whole(i, j, bytes, v)
    BY <1>1, <1>9 DEF Single, Escaped
  <2>3. \A k \in i..j - 1 : bytes[k] # Backslash /\ k \in 1..L
    BY <1>1, <1>2, <2>2, WholeHasNoBackslash
  <2>4. \A k \in i..j - 1 : U[k] = <<bytes[k]>> \o U[k + 1]
    BY <2>3, ByteReadByCode
  <2>5. SubSeq(bytes, i, j - 1) = utf8(v)
    BY <2>2 DEF Whole
  <2>6. i \in 1..Len(bytes) /\ j \in i..Len(bytes) + 1
    BY <1>1, <1>2
  <2> HIDE DEF i, j, v, L
  <2>7. U[i] = SubSeq(bytes, i, j - 1) \o U[j]
    BY <1>2, <2>1, <2>4, <2>6, RunRead
  <2> QED BY <2>5, <2>7
<1> QED BY <1>6, <1>7, <1>8, <1>9

\* From n on a half has no other.
Alone(n) == \E k \in n..Len(meant) : IsLeadingSurrogate(meant[k]) /\ ~Paired(k)

\* What is in one of two is in both.
LEMMA InJoined ==
  ASSUME NEW S, NEW w \in Seq(S), NEW t \in Seq(S), NEW v, Contains(w, v) \/ Contains(t, v)
  PROVE  Contains(w \o t, v)
<1>1. /\ Len(w \o t) = Len(w) + Len(t) /\ Len(w) \in Nat /\ Len(t) \in Nat
      /\ \A k \in 1..Len(w) : (w \o t)[k] = w[k]
      /\ \A k \in 1..Len(t) : (w \o t)[Len(w) + k] = t[k]
  BY Joined
<1> DEFINE a == Len(w)
           b == Len(t)
<1> HIDE DEF a, b
<1>2. CASE \E k \in 1..a : w[k] = v
  <2>1. PICK k \in 1..a : w[k] = v
    BY <1>2
  <2>2. k \in 1..a + b /\ (w \o t)[k] = v
    BY <1>1, <2>1 DEF a, b
  <2> QED BY <1>1, <2>2 DEF a, b, Contains
<1>3. CASE \E k \in 1..b : t[k] = v
  <2>1. PICK k \in 1..b : t[k] = v
    BY <1>3
  <2>2. a + k \in 1..a + b /\ (w \o t)[a + k] = v
    BY <1>1, <2>1 DEF a, b
  <2> QED BY <1>1, <2>2 DEF a, b, Contains
<1> QED BY <1>2, <1>3 DEF a, b, Contains

\* The code and encoding/json read the same from every unit on, but where a half is
\* alone: the code has found that it is, and encoding/json has replaced it.
ReadAlike(U, D, pos, n) ==
  /\ U[pos[n]] \in Seq(Int) /\ D[n] \in Seq(Nat)
  /\ ~Alone(n) => U[pos[n]] = D[n]
  /\ Alone(n) => Contains(U[pos[n]], BadEscape) /\ Contains(D[n], 239)

LEMMA GoesOnAlike ==
  ASSUME NEW U, NEW D, NEW pos, NEW n, NEW next, ReadAlike(U, D, pos, next), NEW w \in Seq(Nat),
         Alone(n) <=> Alone(next), U[pos[n]] = w \o U[pos[next]], D[n] = w \o D[next]
  PROVE  ReadAlike(U, D, pos, n)
<1> DEFINE t == U[pos[next]]
           d == D[next]
<1>1. t \in Seq(Int)
  BY DEF ReadAlike
<1>2. d \in Seq(Nat)
  BY DEF ReadAlike
<1>3. w \in Seq(Int)
  <2>1. Nat \subseteq Int
    OBVIOUS
  <2> QED BY <2>1, SeqMonotonic
<1>4. /\ ~Alone(next) => t = d
      /\ Alone(next) => Contains(t, BadEscape) /\ Contains(d, 239)
  BY DEF ReadAlike
<1>5. U[pos[n]] = w \o t /\ D[n] = w \o d
  OBVIOUS
<1> HIDE DEF t, d
<1>6. w \o t \in Seq(Int)
  BY <1>1, <1>3, Joined
<1>7. w \o d \in Seq(Nat)
  BY <1>2, Joined
<1>8. Contains(t, BadEscape) => Contains(w \o t, BadEscape)
  BY <1>1, <1>3, InJoined
<1>9. Contains(d, 239) => Contains(w \o d, 239)
  BY <1>2, InJoined
<1> QED BY <1>4, <1>5, <1>6, <1>7, <1>8, <1>9 DEF ReadAlike

LEMMA AllReadAlike ==
  ASSUME NEW pos, Member(pos), NEW U, ReadsByCode(U), NEW D, ReadsByGo(D)
  PROVE  \A n \in 1..Len(meant) + 1 : ReadAlike(U, D, pos, n)
<1> DEFINE N == Len(meant)
           S == {n \in 1..N + 1 : ReadAlike(U, D, pos, n)}
<1>1. N \in Nat /\ \A n \in 1..N : meant[n] \in Nat
  <2>1. N \in Nat
    BY DEF Member
  <2> QED BY <2>1, UnitSpelled
<1>2. N + 1 \in S
  <2>1. pos[N + 1] = Len(bytes) + 1
    <3>1. bytes \in Seq(Nat) /\ meant \in Seq(Int) /\ Spelled("member", bytes, meant, pos)
      BY DEF Member
    <3> QED BY <3>1, Units
  <2>2. U[pos[N + 1]] = <<>>
    BY <2>1, ByteReadByCode
  <2>3. D[N + 1] = <<>>
    <3>1. N + 1 \in Nat /\ N + 1 > N
      BY <1>1
    <3> QED BY <3>1 DEF ReadsByGo, Reads
  <2>4. ~Alone(N + 1)
    BY <1>1 DEF Alone
  <2>5. ReadAlike(U, D, pos, N + 1)
    BY <2>2, <2>3, <2>4, EmptySeq DEF ReadAlike
  <2> QED BY <1>1, <2>5
<1>3. ASSUME NEW n \in 1..N, \A k \in n + 1..N + 1 : k \in S PROVE n \in S
  <2>1. n \in 1..N + 1 /\ n + 1 \in n + 1..N + 1 /\ ReadAlike(U, D, pos, n + 1)
    BY <1>1, <1>3
  <2>2. CASE Paired(n)
    <3>1. n < N /\ IsTrailingSurrogate(meant[n + 1])
      BY <2>2 DEF Paired
    <3>2. n + 2 \in n + 1..N + 1 /\ n + 1 \in 1..N /\ n \in Int /\ n + 2 \in Int
      BY <1>1, <3>1
    <3>3. ReadAlike(U, D, pos, n + 2)
      BY <1>3, <3>2
    <3>4. Alone(n) <=> Alone(n + 2)
      <4>1. ~IsLeadingSurrogate(meant[n + 1])
        BY <1>1, <3>1, <3>2, Halves
      <4>2. \A k \in n..N : k = n \/ k = n + 1 \/ k \in n + 2..N
        BY <1>1, <3>2
      <4>3. \A k \in n + 2..N : k \in n..N
        BY <1>1, <3>2
      <4> HIDE DEF N
      <4> QED BY <2>2, <4>1, <4>2, <4>3 DEF Alone, N
    <3> DEFINE w == utf8(SurrogatePair(meant[n], meant[n + 1]))
    <3>5. w \in Seq(Nat)
      <4>1. SurrogatePair(meant[n], meant[n + 1]) \in Nat
        BY <1>1, <2>2, <3>2, PairIsWide
      <4> QED BY <4>1, Encoded
    <3>6. U[pos[n]] = w \o U[pos[n + 2]] /\ D[n] = w \o D[n + 2]
      BY <2>2, UnitReadByCode, UnitReadByGo
    <3> HIDE DEF w
    <3>7. ReadAlike(U, D, pos, n)
      BY <3>3, <3>4, <3>5, <3>6, GoesOnAlike
    <3> QED BY <2>1, <3>7
  <2>a. \A k \in n..N : k = n \/ k \in n + 1..N
    BY <1>1
  <2>b. (\A k \in n + 1..N : k \in n..N) /\ n \in n..N
    BY <1>1
  <2>3. CASE ~Paired(n) /\ ~IsLeadingSurrogate(meant[n])
    <3>1. Alone(n) <=> Alone(n + 1)
      BY <2>3, <2>a, <2>b DEF Alone
    <3> DEFINE w == utf8(meant[n])
    <3>2. w \in Seq(Nat)
      BY <1>1, Encoded
    <3>3. U[pos[n + 1]] \in Seq(Int)
      BY <2>1 DEF ReadAlike
    <3>4. U[pos[n]] = w \o U[pos[n + 1]] /\ D[n] = w \o D[n + 1]
      BY <2>3, <3>3, UnitReadByCode, UnitReadByGo
    <3> HIDE DEF w
    <3>5. ReadAlike(U, D, pos, n)
      BY <2>1, <3>1, <3>2, <3>4, GoesOnAlike
    <3> QED BY <2>1, <3>5
  <2>4. CASE ~Paired(n) /\ IsLeadingSurrogate(meant[n])
    <3>1. Alone(n)
      BY <2>4, <2>b DEF Alone
    <3>2. U[pos[n]] = <<BadEscape>>
      BY <2>4, UnitReadByCode
    <3>3. U[pos[n]] \in Seq(Int) /\ Contains(U[pos[n]], BadEscape)
      BY <3>2 DEF Contains, BadEscape
    <3> DEFINE w == <<239, 191, 189>>
               d == D[n + 1]
    <3>4. D[n] = w \o d
      <4>1. utf8(meant[n]) = w
        <5> DEFINE v == meant[n]
        <5>1. v \in Nat /\ IsLeadingSurrogate(v)
          BY <1>1, <2>4
        <5> HIDE DEF v
        <5>2. Half(v)
          BY <5>1, Halves
        <5>3. utf8(v) = <<239, 191, 189>>
          BY <5>1, <5>2, Encoded
        <5> QED BY <5>3 DEF v
      <4> QED BY <2>4, <4>1, UnitReadByGo
    <3>5. d \in Seq(Nat)
      BY <2>1 DEF ReadAlike
    <3>6. w \in Seq(Nat)
      OBVIOUS
    <3>7. Contains(w, 239)
      BY DEF Contains
    <3> HIDE DEF w, d
    <3>8. w \o d \in Seq(Nat) /\ Contains(w \o d, 239)
      BY <3>5, <3>6, <3>7, Joined, InJoined
    <3>9. ReadAlike(U, D, pos, n)
      BY <3>1, <3>3, <3>4, <3>8 DEF ReadAlike
    <3> QED BY <2>1, <3>9
  <2> QED BY <2>2, <2>3, <2>4
<1>4. \A n \in 1..N + 1 : n \in S
  <2> HIDE DEF S, N
  <2> QED BY <1>1, <1>2, <1>3, Descends
<1> QED BY <1>4

\* So of the whole string.
LEMMA StringRead ==
  ASSUME NEW pos, Member(pos)
  PROVE  /\ DecodedByGo \in Seq(Nat)
         /\ ~HalfAlone => Unescaped(bytes) = DecodedByGo /\ ~Bad(Unescaped(bytes))
         /\ HalfAlone => Bad(Unescaped(bytes)) /\ Contains(DecodedByGo, 239)
<1>1. bytes \in Seq(Nat) /\ meant \in Seq(Int) /\ Spelled("member", bytes, meant, pos)
  BY DEF Member
<1>2. PICK U : ReadsByCode(U) /\ Unescaped(bytes) = U[1]
  BY CodeReads
<1>3. PICK D : ReadsByGo(D) /\ DecodedByGo = D[1]
  BY <1>1, GoReads
<1>4. pos[1] = 1 /\ 1 \in 1..Len(meant) + 1 /\ DOMAIN meant = 1..Len(meant)
  <2>1. pos[1] = 1
    BY <1>1, Units
  <2> QED BY <1>1, <2>1
<1>5. ReadAlike(U, D, pos, 1)
  BY <1>2, <1>3, <1>4, AllReadAlike
<1>6. HalfAlone <=> Alone(1)
  BY <1>4 DEF HalfAlone, Alone
<1>7. DecodedByGo \in Seq(Nat) => ~Bad(DecodedByGo)
  <2>1. SUFFICES ASSUME DecodedByGo \in Seq(Nat), NEW k \in 1..Len(DecodedByGo)
                 PROVE  DecodedByGo[k] # BadEscape
    BY DEF Bad, Contains
  <2> DEFINE d == DecodedByGo
  <2> HIDE DEF d
  <2>2. d[k] \in Nat
    BY <2>1, ElementOfSeq DEF d
  <2> QED BY <2>2 DEF d, BadEscape
<1> QED BY <1>2, <1>3, <1>4, <1>5, <1>6, <1>7 DEF ReadAlike, Bad

\* The document that is looked up is the one encoding/json would decode.
LEMMA DocumentDecoded == TextSpelled => DocumentAsDecoded
<1> SUFFICES ASSUME TextSpelled, text.kind = "member"
             PROVE  LET read == unescapeJSON(bytes) IN
                      /\ read.err = "errInvalidEscape" <=> HalfAlone
                      /\ read.err = "nil" => read.value = DecodedByGo
  BY DEF DocumentAsDecoded
<1>1. PICK pos : Member(pos)
  BY DEF TextSpelled, Member
<1>2. /\ ~HalfAlone => Unescaped(bytes) = DecodedByGo /\ ~Bad(Unescaped(bytes))
      /\ HalfAlone => Bad(Unescaped(bytes))
  BY <1>1, StringRead
<1>3. unescapeJSON(bytes) =
        IF Bad(Unescaped(bytes)) THEN [err |-> "errInvalidEscape", value |-> <<>>]
        ELSE [err |-> "nil", value |-> Unescaped(bytes)]
  BY DEF unescapeJSON
<1> QED BY <1>2, <1>3

-----------------------------------------------------------------------------
(* The name of a member.                                                   *)

\* The bytes that letters of the name are among, once lowered.
Letters(w) == \A k \in 1..Len(w) : Lowered(w[k]) \in 101..121

LEMMA NoLetter ==
  /\ \A b \in {Quote, Backslash, Slash, 8, 12, LF, CR, Tab, 239} : Lowered(b) \notin 101..121
  /\ \A b \in Nat : b >= 128 => Lowered(b) \notin 101..121
<1>1. ASSUME NEW b \in Nat, b >= 128 PROVE Lowered(b) \notin 101..121
  BY <1>1 DEF Lowered
<1>2. /\ Lowered(34) = 34 /\ Lowered(92) = 124 /\ Lowered(47) = 47 /\ Lowered(8) = 40
      /\ Lowered(12) = 44 /\ Lowered(10) = 42 /\ Lowered(13) = 45 /\ Lowered(9) = 41
  BY DEF Lowered
<1> QED BY <1>1, <1>2 DEF Quote, Backslash, Slash, LF, CR, Tab

LEMMA NameIs ==
  /\ Name \in Seq(Int) /\ Len(Name) = 5 /\ DOMAIN Name = 1..5
  /\ \A k \in 1..5 : Name[k] \in 101..121
<1>1. Name \in Seq(Int) /\ Len(Name) = 5 /\ DOMAIN Name = 1..5
  BY DEF Name
<1>2. /\ Name[1] \in 101..121 /\ Name[2] \in 101..121 /\ Name[3] \in 101..121
      /\ Name[4] \in 101..121 /\ Name[5] \in 101..121
  BY DEF Name
<1>3. \A k \in 1..5 : k = 1 \/ k = 2 \/ k = 3 \/ k = 4 \/ k = 5
  OBVIOUS
<1> QED BY <1>1, <1>2, <1>3

\* What spells the name is letters, five of them.
LEMMA SpellsLetters ==
  ASSUME NEW w, Spells(w)
  PROVE  Len(w) = 5 /\ Letters(w)
BY NameIs DEF Spells, Letters

LEMMA SpellsIs ==
  ASSUME NEW w \in Seq(Nat)
  PROVE  [n \in DOMAIN w |-> Lowered(w[n])] = Name <=> Spells(w)
<1> DEFINE f == [n \in DOMAIN w |-> Lowered(w[n])]
<1>1. DOMAIN w = 1..Len(w) /\ Len(w) \in Nat
  OBVIOUS
<1>2. DOMAIN f = 1..Len(w) /\ \A n \in 1..Len(w) : f[n] = Lowered(w[n])
  BY <1>1
<1> HIDE DEF f
<1>3. ASSUME f = Name PROVE Spells(w)
  <2>1. 1..Len(w) = 1..5
    BY <1>2, <1>3, NameIs
  <2>2. Len(w) = 5
    BY <1>1, <2>1
  <2> QED BY <1>2, <1>3, <2>2 DEF Spells
<1>4. ASSUME Spells(w) PROVE f = Name
  <2>1. Len(w) = 5 /\ \A n \in 1..5 : Lowered(w[n]) = Name[n]
    BY <1>4 DEF Spells
  <2>2. f \in Seq(Int) /\ Len(f) = 5 /\ \A n \in 1..5 : f[n] = Name[n]
    <3>1. f = [n \in 1..5 |-> Name[n]]
      BY <1>1, <2>1 DEF f
    <3>2. \A n \in 1..5 : Name[n] \in Int
      BY NameIs
    <3> QED BY <3>1, <3>2
  <2>3. Name \in Seq(Int) /\ Len(Name) = 5
    BY NameIs
  <2> QED BY <2>2, <2>3, SeqEqual
<1> QED BY <1>3, <1>4 DEF f

\* Without an escape a string is as it is read, and none of its halves alone.
LEMMA PlainRead ==
  ASSUME NEW pos, Member(pos), ~Contains(bytes, Backslash)
  PROVE  ~HalfAlone /\ Unescaped(bytes) = bytes
<1> DEFINE L == Len(bytes)
<1>1. /\ bytes \in Seq(Nat) /\ L \in Nat /\ DOMAIN meant = 1..Len(meant)
      /\ \A i \in 1..L : bytes[i] # Backslash
  BY DEF Member, Contains
<1>2. ASSUME NEW n \in 1..Len(meant) PROVE ~IsLeadingSurrogate(meant[n])
  <2>1. meant[n] \in Nat /\ pos[n] \in 1..L
    BY UnitSpelled
  <2>2. IsLeadingSurrogate(meant[n]) => Half(meant[n])
    BY <2>1, Halves
  <2>3. Half(meant[n]) => bytes[pos[n]] = Backslash
    BY HalfEscaped DEF Escaped
  <2>4. bytes[pos[n]] # Backslash
    BY <1>1, <2>1
  <2> QED BY <2>2, <2>3, <2>4
<1>3. ~HalfAlone
  BY <1>1, <1>2 DEF HalfAlone
<1>4. PICK U : ReadsByCode(U) /\ Unescaped(bytes) = U[1]
  BY CodeReads
<1>5. U[L + 1] = <<>> /\ \A k \in 1..L : U[k] = <<bytes[k]>> \o U[k + 1]
  BY <1>1, <1>4, ByteReadByCode
<1>6. U[1] = bytes
  <2>1. CASE L = 0
    <3>1. U[1] = <<>>
      BY <1>5, <2>1
    <3>2. bytes = <<>>
      BY <1>1, <2>1, EmptySeq
    <3> QED BY <3>1, <3>2
  <2>2. CASE L # 0
    <3> DEFINE j == L + 1
               t == U[j]
    <3>1. 1 \in 1..L /\ j \in 1..L + 1 /\ j - 1 = L
      BY <1>1, <2>2
    <3>2. t \in Seq(Int) /\ t = <<>>
      BY <1>5, EmptySeq
    <3>3. \A k \in 1..j - 1 : U[k] = <<bytes[k]>> \o U[k + 1]
      BY <1>5, <3>1
    <3> HIDE DEF j
    <3>4. U[1] = SubSeq(bytes, 1, j - 1) \o U[j]
      BY <1>1, <3>1, <3>2, <3>3, RunRead
    <3>5. SubSeq(bytes, 1, L) = bytes
      BY <1>1, SubSeqFull
    <3>6. bytes \o <<>> = bytes
      BY <1>1, ConcatEmptySeq
    <3> QED BY <3>1, <3>2, <3>4, <3>5, <3>6
  <2> QED BY <2>1, <2>2
<1> QED BY <1>3, <1>4, <1>6

\* Each byte of letters that is read takes one of the string, or six for an escape.
Taken(D, pos, n) ==
  \E k \in 0..Len(D[n]) :
    /\ Len(bytes) + 1 - pos[n] = Len(D[n]) + 5 * k
    /\ k = 0 => \A i \in pos[n]..Len(bytes) : bytes[i] # Backslash

LEMMA LettersTaken ==
  ASSUME NEW pos, Member(pos), NEW D, ReadsByGo(D),
         \A n \in 1..Len(meant) + 1 : D[n] \in Seq(Nat)
  PROVE  \A n \in 1..Len(meant) + 1 : Letters(D[n]) => Taken(D, pos, n)
<1> DEFINE N == Len(meant)
           L == Len(bytes)
           S == {n \in 1..N + 1 : Letters(D[n]) => Taken(D, pos, n)}
<1>1. N \in Nat /\ L \in Nat /\ \A n \in 1..N : meant[n] \in Nat
  <2>1. N \in Nat /\ L \in Nat
    BY DEF Member
  <2> QED BY <2>1, UnitSpelled
<1>2. N + 1 \in S
  <2>1. pos[N + 1] = L + 1
    <3>1. bytes \in Seq(Nat) /\ meant \in Seq(Int) /\ Spelled("member", bytes, meant, pos)
      BY DEF Member
    <3> QED BY <3>1, Units
  <2>2. D[N + 1] = <<>>
    <3>1. N + 1 \in Nat /\ N + 1 > N
      BY <1>1
    <3> QED BY <3>1 DEF ReadsByGo, Reads
  <2>3. Len(D[N + 1]) = 0
    BY <2>2
  <2>4. Len(bytes) + 1 - pos[N + 1] = Len(D[N + 1]) + 5 * 0
    BY <1>1, <2>1, <2>3
  <2>5. \A i \in pos[N + 1]..Len(bytes) : bytes[i] # Backslash
    BY <1>1, <2>1
  <2>6. 0 \in 0..Len(D[N + 1])
    BY <2>3
  <2>7. Taken(D, pos, N + 1)
    BY <2>4, <2>5, <2>6 DEF Taken
  <2> QED BY <1>1, <2>7
<1>3. ASSUME NEW n \in 1..N, \A k \in n + 1..N + 1 : k \in S PROVE n \in S
  <2>1. n \in 1..N + 1 /\ n + 1 \in n + 1..N + 1 /\ n + 1 \in 1..N + 1
    BY <1>1
  <2>2. SUFFICES ASSUME Letters(D[n]) PROVE Taken(D, pos, n)
    BY <2>1
  <2> DEFINE i == pos[n]
             j == pos[n + 1]
             v == meant[n]
             d == D[n + 1]
  <2>3. /\ i \in 1..L /\ j \in i + 1..L + 1 /\ v \in Nat
        /\ \/ Whole(i, j, bytes, v)
           \/ Single(i, j, bytes, v)
           \/ Escaped(i, j, bytes) /\ v = Value(bytes, i + 2)
    BY UnitSpelled
  <2>4. d \in Seq(Nat) /\ Letters(d) => Taken(D, pos, n + 1)
    BY <1>3, <2>1
  <2>5. ASSUME NEW w \in Seq(Nat), NEW t \in Seq(Nat), D[n] = w \o t
        PROVE  Letters(w) /\ Letters(t) /\ Len(D[n]) = Len(w) + Len(t)
    <3>1. /\ Len(w \o t) = Len(w) + Len(t) /\ Len(w) \in Nat /\ Len(t) \in Nat
          /\ \A k \in 1..Len(w) : (w \o t)[k] = w[k]
          /\ \A k \in 1..Len(t) : (w \o t)[Len(w) + k] = t[k]
      BY Joined
    <3> DEFINE a == Len(w)
               b == Len(t)
    <3> HIDE DEF a, b
    <3>2. \A k \in 1..a : k \in 1..a + b
      BY <3>1 DEF a, b
    <3>3. \A k \in 1..b : a + k \in 1..a + b
      BY <3>1 DEF a, b
    <3>4. \A k \in 1..a + b : Lowered((w \o t)[k]) \in 101..121
      BY <2>2, <2>5, <3>1 DEF Letters, a, b
    <3>5. Letters(w)
      BY <3>1, <3>2, <3>4 DEF Letters, a
    <3>6. Letters(t)
      BY <3>1, <3>3, <3>4 DEF Letters, a, b
    <3> QED BY <2>5, <3>1, <3>5, <3>6
  <2>6. ~Paired(n)
    <3> SUFFICES ASSUME Paired(n) PROVE FALSE
      OBVIOUS
    <3> DEFINE u == SurrogatePair(meant[n], meant[n + 1])
               w == utf8(u)
               t == D[n + 2]
    <3>1. n + 2 \in 1..N + 1 /\ n + 1 \in 1..N
      BY <1>1 DEF Paired
    <3>2. t \in Seq(Nat)
      BY <3>1
    <3>3. u \in Nat /\ u >= 128
      <4>1. u \in Nat /\ u >= 65536
        BY <1>1, <3>1, PairIsWide
      <4> HIDE DEF u
      <4> QED BY <4>1
    <3> HIDE DEF u
    <3>4. w \in Seq(Nat) /\ Len(w) \in 1..4 /\ \A k \in 1..Len(w) : w[k] >= 128
      BY <3>3, Encoded
    <3>5. D[n] = w \o t
      BY UnitReadByGo DEF u
    <3> HIDE DEF w, t
    <3>6. Letters(w)
      BY <2>5, <3>2, <3>4, <3>5
    <3>7. 1 \in 1..Len(w) /\ w[1] \in Nat /\ w[1] >= 128
      BY <3>4
    <3> QED BY <3>6, <3>7, NoLetter DEF Letters
  <2>7. utf8(v) \in Seq(Nat) /\ Len(utf8(v)) \in 1..4 /\ D[n] = utf8(v) \o d
    BY <2>3, <2>6, Encoded, UnitReadByGo
  <2>8. Letters(utf8(v)) /\ Letters(d) /\ Len(D[n]) = Len(utf8(v)) + Len(d)
    <3> DEFINE w == utf8(v)
    <3>1. w \in Seq(Nat)
      BY <2>7
    <3>2. d \in Seq(Nat)
      BY <2>4
    <3>3. D[n] = w \o d
      BY <2>7
    <3> HIDE DEF w, d
    <3> QED BY <2>5, <3>1, <3>2, <3>3 DEF w
  <2>9. v < 128
    <3> DEFINE w == utf8(v)
    <3> SUFFICES ASSUME v >= 128 PROVE FALSE
      BY <2>3
    <3>1. \A k \in 1..Len(w) : w[k] >= 128
      BY <2>3, Encoded
    <3>2. w \in Seq(Nat) /\ Len(w) \in 1..4 /\ Letters(w)
      BY <2>7, <2>8
    <3> HIDE DEF w
    <3>3. 1 \in 1..Len(w) /\ w[1] \in Nat /\ w[1] >= 128
      BY <3>1, <3>2
    <3> QED BY <3>2, <3>3, NoLetter DEF Letters
  <2>a. utf8(v) = <<v>>
    BY <2>3, <2>9, Encoded
  <2>b. Lowered(v) \in 101..121
    <3>1. 1 \in 1..Len(<<v>>) /\ <<v>>[1] = v
      OBVIOUS
    <3> HIDE DEF v
    <3> QED BY <2>8, <2>a, <3>1 DEF Letters
  <2>c. ~Single(i, j, bytes, v)
    <3> HIDE DEF v
    <3> QED BY <2>b, NoLetter DEF Single
  <2>d. Len(D[n]) = 1 + Len(d) /\ Len(d) \in Nat
    <3>1. Len(<<v>>) = 1
      OBVIOUS
    <3> HIDE DEF v, d
    <3> QED BY <2>4, <2>8, <2>a, <3>1
  <2>e. PICK k \in 0..Len(d) :
          /\ L + 1 - j = Len(d) + 5 * k
          /\ k = 0 => \A m \in j..L : bytes[m] # Backslash
    <3>1. Taken(D, pos, n + 1)
      BY <2>4, <2>8
    <3> QED BY <3>1 DEF Taken
  <2>f. CASE Whole(i, j, bytes, v)
    <3>1. j = i + 1
      <4> DEFINE h == j - 1
      <4>1. i \in Int /\ h \in Int /\ h >= i /\ h <= L /\ \A m \in i..h : bytes[m] \in Nat
        <5>1. \A m \in 1..L : bytes[m] \in Nat
          BY DEF Member
        <5> HIDE DEF i, j, L
        <5> QED BY <1>1, <2>3, <5>1
      <4>2. SubSeq(bytes, i, h) = <<v>>
        BY <2>a, <2>f DEF Whole
      <4> HIDE DEF i, h
      <4>3. Len(SubSeq(bytes, i, h)) = h - i + 1
        BY <4>1, SubSeqProperties
      <4>4. Len(<<v>>) = 1
        OBVIOUS
      <4>5. h - i + 1 = 1
        BY <4>2, <4>3, <4>4
      <4> HIDE DEF j
      <4> QED BY <1>1, <2>3, <4>1, <4>5 DEF h
    <3>2. bytes[i] # Backslash
      <4>1. i \in i..j - 1
        BY <2>3
      <4> QED BY <2>f, <4>1, WholeHasNoBackslash
    <3> HIDE DEF i, j, L, d
    <3>3. k \in 0..Len(D[n]) /\ L + 1 - i = Len(D[n]) + 5 * k
      <4>1. i \in 1..L
        BY <2>3
      <4> DEFINE x == Len(D[n])
                 y == Len(d)
      <4>2. y \in Nat /\ x = 1 + y /\ k \in 0..y
        BY <2>d
      <4>3. L + 1 - j = y + 5 * k
        BY <2>e
      <4> HIDE DEF x, y
      <4>4. k \in 0..x
        BY <4>2
      <4>5. L + 1 - i = x + 5 * k
        BY <1>1, <3>1, <4>1, <4>2, <4>3
      <4> QED BY <4>4, <4>5 DEF x
    <3>4. k = 0 => \A m \in i..L : bytes[m] # Backslash
      <4>1. \A m \in i..L : m = i \/ m \in j..L
        BY <1>1, <2>3, <3>1
      <4> QED BY <2>e, <3>2, <4>1
    <3> QED BY <3>3, <3>4 DEF Taken, i, L
  <2>g. CASE Escaped(i, j, bytes)
    <3>1. j = i + 6
      BY <2>g DEF Escaped
    <3> HIDE DEF i, j, L, d
    <3> DEFINE l == k + 1
    <3>2. l \in 0..Len(D[n]) /\ L + 1 - i = Len(D[n]) + 5 * l /\ l # 0
      BY <1>1, <2>3, <2>d, <2>e, <3>1
    <3> HIDE DEF l
    <3> QED BY <3>2 DEF Taken, i, L
  <2> QED BY <2>3, <2>c, <2>f, <2>g
<1>4. \A n \in 1..N + 1 : n \in S
  <2> HIDE DEF S, N
  <2> QED BY <1>1, <1>2, <1>3, Descends
<1> QED BY <1>4

\* A member is the query in every spelling that a decoder takes for it, and in no other.
LEMMA MemberDecoded == TextSpelled => MemberAsDecoded
<1> SUFFICES ASSUME TextSpelled, text.kind = "member"
             PROVE  isQueryKey(bytes) <=>
                      [n \in DOMAIN DecodedByGo |-> Lowered(DecodedByGo[n])] = Name
  BY DEF MemberAsDecoded
<1> DEFINE L == Len(bytes)
<1>1. PICK pos : Member(pos)
  BY DEF TextSpelled, Member
<1>2. /\ DecodedByGo \in Seq(Nat)
      /\ ~HalfAlone => Unescaped(bytes) = DecodedByGo /\ ~Bad(Unescaped(bytes))
      /\ HalfAlone => Bad(Unescaped(bytes)) /\ Contains(DecodedByGo, 239)
  BY <1>1, StringRead
<1>3. [n \in DOMAIN DecodedByGo |-> Lowered(DecodedByGo[n])] = Name <=> Spells(DecodedByGo)
  BY <1>2, SpellsIs
<1>4. ~Contains(bytes, Backslash) => ~HalfAlone /\ DecodedByGo = bytes
  BY <1>1, <1>2, PlainRead
<1>5. unescapeJSON(bytes).value = IF HalfAlone THEN <<>> ELSE DecodedByGo
  BY <1>2 DEF unescapeJSON
<1>6. \A b \in Nat : Contains(bytes, b) /\ Lowered(b) \notin 101..121 => ~Spells(bytes)
  BY SpellsLetters DEF Letters, Contains
<1>7. Contains(bytes, Backslash) => ~Spells(bytes)
  BY <1>6, NoLetter DEF Backslash
<1>8. HalfAlone => ~Spells(DecodedByGo)
  <2> DEFINE d == DecodedByGo
  <2> SUFFICES ASSUME HalfAlone, Spells(d) PROVE FALSE
    OBVIOUS
  <2>1. Contains(d, 239)
    BY <1>2
  <2> HIDE DEF d
  <2>2. Letters(d)
    BY SpellsLetters
  <2>3. PICK k \in 1..Len(d) : d[k] = 239
    BY <2>1 DEF Contains
  <2>4. Lowered(d[k]) \in 101..121
    BY <2>2 DEF Letters
  <2>5. Lowered(239) \notin 101..121
    BY NoLetter
  <2> QED BY <2>3, <2>4, <2>5
<1>9. ASSUME isQueryKey(bytes) PROVE Spells(DecodedByGo)
  <2>1. CASE Spells(bytes)
    BY <1>4, <1>7, <2>1
  <2>2. CASE Spells(unescapeJSON(bytes).value)
    <3>1. ~Spells(<<>>)
      BY DEF Spells
    <3> QED BY <1>5, <2>2, <3>1
  <2> QED BY <1>9, <2>1, <2>2 DEF isQueryKey
<1>a. ASSUME Spells(DecodedByGo) PROVE isQueryKey(bytes)
  <2>1. CASE ~Contains(bytes, Backslash)
    BY <1>4, <1>a, <2>1 DEF isQueryKey
  <2>2. CASE Contains(bytes, Backslash)
    <3>1. Spells(unescapeJSON(bytes).value)
      BY <1>5, <1>8, <1>a
    <3>2. PICK U : ReadsByCode(U) /\ Unescaped(bytes) = U[1]
      BY <1>1, CodeReads
    <3>3. meant \in Seq(Int) /\ Spelled("member", bytes, meant, pos) /\ bytes \in Seq(Nat)
      BY <1>1 DEF Member
    <3>4. PICK D : ReadsByGo(D) /\ DecodedByGo = D[1]
      BY <3>3, GoReads
    <3>5. 1 \in 1..Len(meant) + 1 /\ pos[1] = 1 /\ L \in Nat
      <4>1. pos[1] = 1
        BY <3>3, Units
      <4> QED BY <3>3, <4>1
    <3>6. \A n \in 1..Len(meant) + 1 : D[n] \in Seq(Nat)
      BY <1>1, <3>2, <3>4, AllReadAlike DEF ReadAlike
    <3>7. Letters(D[1]) /\ Len(D[1]) = 5
      BY <1>a, <3>4, SpellsLetters
    <3>8. Taken(D, pos, 1)
      BY <1>1, <3>4, <3>5, <3>6, <3>7, LettersTaken
    <3>9. PICK k \in 0..5 : /\ L + 1 - 1 = 5 + 5 * k
                            /\ k = 0 => \A i \in 1..L : bytes[i] # Backslash
      BY <3>5, <3>7, <3>8 DEF Taken
    <3>a. k # 0
      BY <2>2, <3>9 DEF Contains
    <3> HIDE DEF L
    <3>b. k \in 1..5 /\ L = 5 + 5 * k
      BY <3>5, <3>9, <3>a
    <3>c. L \in 6..30 /\ (L - 5) % 5 = 0
      BY <3>b
    <3> QED BY <2>2, <3>1, <3>c DEF isQueryKey, L
  <2> QED BY <2>1, <2>2
<1> QED BY <1>3, <1>9, <1>a

-----------------------------------------------------------------------------
\* The document of a GET is the one an API reads that splits on ;, or that drops a part with
\* one, and is what comes before the first ; in the one of an API that keeps it; one of two
\* is refused.  So it is however long a query string gets and whatever it is spelled from
\* (extract.go:288-300, 418-422).
THEOREM QueryReadAsApisDo == WireSpec => []ReadsWhatApisRead
<1> QED BY QueryReads, InitText, NextText, PTL DEF WireSpec, wireVars

\* An upstream query that the proxy starts with adds no document to a client's and takes
\* none away, whatever the client sends (extract.go:369-371).
THEOREM MergeKept == WireSpec => []MergeKeepsTheDocument
<1>1. TextSpelled => MergeKeepsTheDocument
  BY UpstreamsAssumption, MergeReads DEF TextSpelled, MergeKeepsTheDocument
<1> QED BY <1>1, InitText, NextText, PTL DEF WireSpec, wireVars

\* A member is taken for the query in each spelling that encoding/json decodes to it, in
\* any case, and in no other: no length that isQueryKey turns away has one
\* (extract.go:235-249).
THEOREM MemberReadAsDecoded == WireSpec => []MemberAsDecoded
<1> QED BY MemberDecoded, InitText, NextText, PTL DEF WireSpec, wireVars

\* The document that is looked up is byte for byte the one encoding/json would decode, of
\* every string of JSON, but one with half a pair, which is refused
\* (extract.go:168-170, 212-224).
THEOREM DocumentReadAsDecoded == WireSpec => []DocumentAsDecoded
<1> QED BY DocumentDecoded, InitText, NextText, PTL DEF WireSpec, wireVars

\* What is looked up is what the API behind the proxy reads, from a query string, of an API
\* that does not keep a ; in a parameter, as from a body (extract.go:168-170, 235-249,
\* 288-312, 369-371).
THEOREM ReadsAsApis == WireSpec => []ReadAsApisRead
<1>1. TextSpelled => ReadAsApisRead
  <2>1. TextSpelled => MergeKeepsTheDocument
    BY UpstreamsAssumption, MergeReads DEF TextSpelled, MergeKeepsTheDocument
  <2> QED BY <2>1, QueryReads, MemberDecoded, DocumentDecoded DEF ReadAsApisRead
<1> QED BY <1>1, InitText, NextText, PTL DEF WireSpec, wireVars
==============================================================================
