------------------------------- MODULE Headers --------------------------------
(***************************************************************************)
(* The headers of a forwarded request, as proxyfast.go makes them and as   *)
(* the Rewrite of proxy.go does behind net/http/httputil.ReverseProxy,     *)
(* which is external.                                                      *)
(*                                                                         *)
(* Headers are a function from their names to the lines of each, in the    *)
(* order they came, of which there is at least one.  A line of Connection  *)
(* is the set of what it names, one of X-Forwarded-For the sequence of its *)
(* addresses.  Left out is what fasthttp keeps apart from its lists: Host, *)
(* Content-Type, User-Agent, Cookie, and a Connection that says close.     *)
(***************************************************************************)
EXTENDS Sequences, Functions

CONSTANTS
  Peer,    \* the address the request came from
  Host,    \* the host it names
  Scheme   \* the scheme it came over

hopByHopHeaders ==
  {"Connection", "Proxy-Connection", "Keep-Alive", "Proxy-Authenticate",
   "Proxy-Authorization", "Te", "Trailer", "Transfer-Encoding", "Upgrade"}

requestOnlyHeaders == {"Expect"}

Forwarding == {"Forwarded", "X-Forwarded-For", "X-Forwarded-Host", "X-Forwarded-Proto"}

Del(h, names) == Restrict(h, DOMAIN h \ names)

Set(h, name, v) == [n \in DOMAIN h \cup {name} |-> IF n = name THEN <<v>> ELSE h[n]]

LinesOf(h, name) == IF name \in DOMAIN h THEN h[name] ELSE <<>>

\* One more line of a name.
Add(h, name, v) ==
  [n \in DOMAIN h \cup {name} |-> IF n = name THEN Append(LinesOf(h, n), v) ELSE h[n]]

\* Peek and Get know the first line only.
First(h, name, default) == IF name \in DOMAIN h THEN h[name][1] ELSE default

NamedByFirst(h) == First(h, "Connection", {})

NamedByConnection(h) ==
  UNION {LinesOf(h, "Connection")[i] : i \in DOMAIN LinesOf(h, "Connection")}

\* Mutant: what Connection names goes on.
removeListed(h) == Del(h, hopByHopHeaders)

removeHopByHop(h) == Del(h, NamedByFirst(h) \cup hopByHopHeaders)

\* Mutant: only what is set anew is deleted.
DroppedLess == Forwarding \ {"Forwarded"}

Dropped == Forwarding

\* Of the request as it came, on the one that goes out.
setForwarded(in, out, trust) ==
  LET claimed == IF trust THEN in ELSE Restrict(in, {})
  IN Set(Set(Set(Del(out, Dropped),
       "X-Forwarded-For", Append(First(claimed, "X-Forwarded-For", <<>>), Peer)),
       "X-Forwarded-Host", First(claimed, "X-Forwarded-Host", Host)),
       "X-Forwarded-Proto", First(claimed, "X-Forwarded-Proto", Scheme))

\* Mutant: the proxy speaks for the client before the client's own wishes are heard.
FastEarly(h, trust) == Del(removeHopByHop(setForwarded(h, h, trust)), requestOnlyHeaders)

\* server.forward
Fast(h, trust) == setForwarded(h, Del(removeHopByHop(h), requestOnlyHeaders), trust)

-----------------------------------------------------------------------------
(* net/http.                                                               *)

\* ReverseProxy, before Rewrite: hop-by-hop headers go and what any line of Connection
\* names, but trailers may still be offered, an upgrade is put back, and the client's
\* forwarding headers are gone.
BeforeRewrite(h) ==
  LET stripped == Del(h, NamedByConnection(h) \cup hopByHopHeaders)
      offered == IF \E i \in DOMAIN LinesOf(h, "Te") : h["Te"][i] = "trailers"
                 THEN Set(stripped, "Te", "trailers") ELSE stripped
      upgraded == IF "Upgrade" \in NamedByConnection(h) /\ "Upgrade" \in DOMAIN h
                  THEN Set(Set(offered, "Connection", {"Upgrade"}), "Upgrade", First(h, "Upgrade", ""))
                  ELSE offered
  IN Del(upgraded, Forwarding)

\* ProxyRequest.SetXForwarded
SetXForwarded(out) ==
  Set(Set(Set(out, "X-Forwarded-For", <<Peer>>), "X-Forwarded-Host", Host),
      "X-Forwarded-Proto", Scheme)

netSetForwarded(in, out, trust) ==
  IF ~trust THEN Del(SetXForwarded(out), {"Forwarded"})
  ELSE Set(Set(Set(SetXForwarded(out),
         "X-Forwarded-For",
         First(in, "X-Forwarded-For", <<>>)
           \o First(SetXForwarded(out), "X-Forwarded-For", <<>>)),
         "X-Forwarded-Host", First(in, "X-Forwarded-Host", Host)),
         "X-Forwarded-Proto", First(in, "X-Forwarded-Proto", Scheme))

\* Mutant: an upgrade that was put back stays.
RewriteKeeps(h, trust) == netSetForwarded(h, Del(BeforeRewrite(h), {"Expect"}), trust)

Rewrite(h, trust) ==
  netSetForwarded(h, Del(BeforeRewrite(h), {"Upgrade", "Connection", "Expect"}), trust)
==============================================================================
