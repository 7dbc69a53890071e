------------------------------ MODULE Decision ------------------------------
(***************************************************************************)
(* internal/app/proxy: whether a request is forwarded.  A request names    *)
(* documents in its query string and in its body; check (net/http) and     *)
(* Core.Decide (fasthttp) reduce it to the documents to look up or to a    *)
(* refusal, extractJSON reads the documents out of a JSON body, and allow  *)
(* looks each of them up while reloads replace the list in service.        *)
(*                                                                         *)
(* A request is its shape: what the decision tells apart, and no bytes.  A *)
(* document stands for its canonical form, so it is its own key.  A batch  *)
(* is the sequence of its elements, an element the sequence of its members *)
(* whose name reads as query, in the order of the body; a lone request     *)
(* object is the only element of a body that is no batch.                  *)
(***************************************************************************)
EXTENDS Integers, Sequences, FiniteSets

CONSTANTS
  Requests,     \* requests the proxy serves
  Shapes,       \* what a request may look like
  Documents,    \* the documents requests name
  Class,        \* "ok", or what is wrong with a document: "syntax", "deep", "escape"
  MaxBody,      \* -server.max-body
  MaxBatch,     \* -server.max-batch
  MaxPublishes, \* bound: lists published
  Impls         \* the HTTP implementations serving: "nethttp", "fasthttp"

NotString == "not a string"  \* a query member that is no JSON string

Good == {d \in Documents : Class[d] = "ok"}

Members == Documents \cup {NotString}

ASSUME LimitsAssumption == MaxBody \in Nat /\ MaxBatch \in Nat /\ MaxPublishes \in Nat
ASSUME ClassAssumption == Class \in [Documents -> {"ok", "syntax", "deep", "escape"}]
ASSUME MembersAssumption == NotString \notin Documents /\ Documents # {}
ASSUME ImplsAssumption == Impls \subseteq {"nethttp", "fasthttp"}

\* method, the documents of its query parameters, its size in bytes, whether all of
\* it arrives, whether it is an application/graphql document or JSON, whether the
\* JSON is an array, its elements, and whether it breaks off after them.
ASSUME ShapesAssumption ==
  \A s \in Shapes :
    /\ s.method \in {"GET", "POST", "other"}
    /\ s.query \in Seq(Documents)
    /\ s.size \in Nat
    /\ {s.arrives, s.raw, s.batch, s.cut} \subseteq BOOLEAN
    /\ s.elems \in Seq(Seq(Members))
    /\ s.raw => \E d \in Documents : s.elems = << <<d>> >>
    /\ ~s.batch => Len(s.elems) <= 1
    /\ s.method = "GET" => s.elems = <<>> /\ ~s.batch  \* its body is refused, never read

VARIABLES
  pc,         \* where each request is
  shape,      \* what it looks like
  impl,       \* the implementation serving it
  todo,       \* the documents to look up
  at,         \* the one being looked up
  value,      \* that document, unescaped
  verdict,    \* what was decided, "none" until then
  served,     \* the documents on the list in service
  published,  \* lists published
  since,      \* ghost: the lists in service since the request was read
  counted,    \* counters, by decision
  observed    \* durations observed, by decision

vars == <<pc, shape, impl, todo, at, value, verdict, served, published, since, counted,
          observed>>

Verdicts == {"allowed", "rejected", "malformed", "too_large", "ambiguous", "too_deep",
             "batch_too_large", "method_not_allowed"}

-----------------------------------------------------------------------------
(* extractJSON: the elements in order up to the first that breaks a rule.  *)

\* Mutant: a member of any type is taken for a document.
CarriesAny(elem) == Len(elem) > 0

Carries(elem) == Len(elem) > 0 /\ elem[1] # NotString

\* Mutant: the cap is looked at one document late.
TooManyLate(s, i) == s.batch /\ Carries(s.elems[i]) /\ i > MaxBatch + 1

TooMany(s, i) == s.batch /\ Carries(s.elems[i]) /\ i > MaxBatch

\* Mutant: a member named twice is read once.
BreakNoCollision(s, i) ==
  IF i > 1 /\ ~Carries(s.elems[i - 1]) THEN "malformed"
  ELSE IF TooMany(s, i) THEN "batch_too_large" ELSE "none"

\* Why the scan stops within element i, or "none".
Break(s, i) ==
  IF i > 1 /\ ~Carries(s.elems[i - 1]) THEN "malformed"
  ELSE IF TooMany(s, i) THEN "batch_too_large"
  ELSE IF Len(s.elems[i]) > 1 THEN "ambiguous" ELSE "none"

Broken(s) == {i \in DOMAIN s.elems : Break(s, i) # "none"}

extractJSON(s) ==
  CASE s.batch /\ MaxBatch < 1 -> "malformed"
    [] ~(s.batch /\ MaxBatch < 1) /\ Broken(s) # {} ->
         Break(s, CHOOSE i \in Broken(s) : \A j \in Broken(s) : i <= j)
    [] OTHER ->
         IF s.cut \/ s.elems = <<>> \/ ~Carries(s.elems[Len(s.elems)])
         THEN "malformed" ELSE "none"

-----------------------------------------------------------------------------
(* decide, and what each implementation does before it.                    *)

\* Mutant: a query parameter beside a body is not looked for.
decideBesideBody(s) ==
  CASE s.method = "other" -> "method_not_allowed"
    [] s.method = "GET" ->
         IF s.size > 0 \/ Len(s.query) > 1 THEN "ambiguous"
         ELSE IF s.query = <<>> THEN "malformed" ELSE "none"
    [] s.method = "POST" -> IF s.raw THEN "none" ELSE extractJSON(s)

\* The refusal the shape alone earns, or "none".
decide(s) ==
  CASE s.method = "other" -> "method_not_allowed"
    [] s.method = "GET" ->
         IF s.size > 0 \/ Len(s.query) > 1 THEN "ambiguous"
         ELSE IF s.query = <<>> THEN "malformed" ELSE "none"
    [] s.method = "POST" ->
         IF s.query # <<>> THEN "ambiguous"
         ELSE IF s.raw THEN "none" ELSE extractJSON(s)

\* The documents decide looks up, in order, where it refuses nothing.
Looked(s) ==
  IF s.method = "GET" THEN s.query ELSE [i \in DOMAIN s.elems |-> s.elems[i][1]]

readBody(s) ==
  IF s.size > MaxBody THEN "too_large" ELSE IF s.arrives THEN "none" ELSE "malformed"

check(s) ==
  IF s.method = "other" \/ readBody(s) = "none" THEN decide(s) ELSE readBody(s)

\* Mutant: only the server's own limit, which is one over.
CoreUnbounded(s) ==
  CASE s.size > MaxBody + 1 -> "too_large"
    [] s.size <= MaxBody + 1 /\ ~s.arrives -> "malformed"
    [] OTHER -> decide(s)

\* fasthttp reads the body before the handler, up to one byte over the limit.
Core(s) ==
  CASE s.size > MaxBody + 1 -> "too_large"
    [] s.size <= MaxBody + 1 /\ ~s.arrives -> "malformed"
    [] OTHER ->
         IF s.method # "GET" /\ s.size > MaxBody THEN "too_large" ELSE decide(s)

Refusal(r) == IF impl[r] = "nethttp" THEN check(shape[r]) ELSE Core(shape[r])

-----------------------------------------------------------------------------
Init ==
  /\ pc = [r \in Requests |-> "idle"]
  /\ shape \in [Requests -> Shapes]
  /\ impl \in [Requests -> Impls]
  /\ todo = [r \in Requests |-> <<>>]
  /\ at = [r \in Requests |-> 0]
  /\ value = [r \in Requests |-> CHOOSE d \in Documents : TRUE]
  /\ verdict = [r \in Requests |-> "none"]
  /\ served = {}
  /\ published = 0
  /\ since = [r \in Requests |-> {}]
  /\ counted = [v \in Verdicts |-> 0]
  /\ observed = [v \in Verdicts |-> 0]

Decide(r, v) ==
  /\ pc' = [pc EXCEPT ![r] = "decided"]
  /\ verdict' = [verdict EXCEPT ![r] = v]

Check(r) ==
  /\ pc[r] = "idle"
  /\ since' = [since EXCEPT ![r] = {served}]
  /\ IF Refusal(r) # "none"
     THEN Decide(r, Refusal(r)) /\ UNCHANGED <<todo, at>>
     ELSE /\ pc' = [pc EXCEPT ![r] = "reading"]
          /\ todo' = [todo EXCEPT ![r] = Looked(shape[r])]
          /\ at' = [at EXCEPT ![r] = 1]
          /\ UNCHANGED verdict
  /\ UNCHANGED <<shape, impl, value, served, published, counted, observed>>

\* An escape that does not decode, in JSON and in a query string; a raw body has none.
Unescapes(r) == shape[r].raw \/ Class[todo[r][at[r]]] # "escape"

Unescape(r) ==
  /\ pc[r] = "reading"
  /\ IF Unescapes(r)
     THEN /\ pc' = [pc EXCEPT ![r] = "counting"]
          /\ value' = [value EXCEPT ![r] = todo[r][at[r]]]
          /\ UNCHANGED verdict
     ELSE Decide(r, "malformed") /\ UNCHANGED value
  /\ UNCHANGED <<shape, impl, todo, at, served, published, since, counted, observed>>

\* allow asks for the length of the list in service, then parses and hashes.
LoadLen(r) ==
  /\ pc[r] = "counting"
  /\ CASE served # {} /\ Class[value[r]] = "ok" ->
            pc' = [pc EXCEPT ![r] = "looking"] /\ UNCHANGED verdict
       [] served # {} /\ Class[value[r]] = "deep" -> Decide(r, "too_deep")
       [] OTHER -> Decide(r, "rejected")
  /\ UNCHANGED <<shape, impl, todo, at, value, served, published, since, counted, observed>>

\* Mutant: the list served last is kept for the documents of a batch after the first.
LookUpOnce(r) ==
  /\ pc[r] = "looking"
  /\ IF value[r] \in served \/ at[r] > 1
     THEN pc' = [pc EXCEPT ![r] = "matched"] /\ UNCHANGED verdict
     ELSE Decide(r, "rejected")
  /\ UNCHANGED <<shape, impl, todo, at, value, served, published, since, counted, observed>>

\* Mutant: the answer is turned round.
LookUpInverted(r) ==
  /\ pc[r] = "looking"
  /\ IF value[r] \notin served
     THEN pc' = [pc EXCEPT ![r] = "matched"] /\ UNCHANGED verdict
     ELSE Decide(r, "rejected")
  /\ UNCHANGED <<shape, impl, todo, at, value, served, published, since, counted, observed>>

\* allow then loads the list in service again, which may be another.
LookUp(r) ==
  /\ pc[r] = "looking"
  /\ IF value[r] \in served
     THEN pc' = [pc EXCEPT ![r] = "matched"] /\ UNCHANGED verdict
     ELSE Decide(r, "rejected")
  /\ UNCHANGED <<shape, impl, todo, at, value, served, published, since, counted, observed>>

Advance(r) ==
  /\ pc[r] = "matched"
  /\ IF at[r] < Len(todo[r])
     THEN /\ pc' = [pc EXCEPT ![r] = "reading"]
          /\ at' = [at EXCEPT ![r] = @ + 1]
          /\ UNCHANGED verdict
     ELSE Decide(r, "allowed") /\ UNCHANGED at
  /\ UNCHANGED <<shape, impl, todo, value, served, published, since, counted, observed>>

Count(r) ==
  /\ pc[r] = "decided"
  /\ pc' = [pc EXCEPT ![r] = "answered"]
  /\ counted' = [counted EXCEPT ![verdict[r]] = @ + 1]
  /\ UNCHANGED <<shape, impl, todo, at, value, verdict, served, published, since, observed>>

\* Mutant: a refusal for its size is timed with the malformed.
ObserveTooLarge(r) ==
  /\ pc[r] = "answered"
  /\ pc' = [pc EXCEPT ![r] = "done"]
  /\ LET v == IF verdict[r] = "too_large" THEN "malformed" ELSE verdict[r]
     IN observed' = [observed EXCEPT ![v] = @ + 1]
  /\ UNCHANGED <<shape, impl, todo, at, value, verdict, served, published, since, counted>>

\* After the refusal is written, or after the forward.
Observe(r) ==
  /\ pc[r] = "answered"
  /\ pc' = [pc EXCEPT ![r] = "done"]
  /\ observed' = [observed EXCEPT ![verdict[r]] = @ + 1]
  /\ UNCHANGED <<shape, impl, todo, at, value, verdict, served, published, since, counted>>

\* A reload publishes another list: Allowlist.Store.
Publish ==
  /\ published < MaxPublishes
  /\ published' = published + 1
  /\ served' \in SUBSET Good
  /\ since' = [r \in Requests |-> since[r] \cup {served'}]
  /\ UNCHANGED <<pc, shape, impl, todo, at, value, verdict, counted, observed>>

Next ==
  \/ Publish
  \/ \E r \in Requests :
       \/ Check(r) \/ Unescape(r) \/ LoadLen(r) \/ LookUp(r) \/ Advance(r)
       \/ Count(r) \/ Observe(r)

Spec == Init /\ [][Next]_vars

-----------------------------------------------------------------------------
TypeOK ==
  /\ pc \in [Requests -> {"idle", "reading", "counting", "looking", "matched", "decided",
                          "answered", "done"}]
  /\ DOMAIN shape = Requests  \* nothing changes it
  /\ impl \in [Requests -> Impls]
  /\ todo \in [Requests -> Seq(Documents)]
  /\ at \in [Requests -> Nat]
  /\ value \in [Requests -> Documents]
  /\ verdict \in [Requests -> Verdicts \cup {"none"}]
  /\ served \in SUBSET Good
  /\ published \in 0..MaxPublishes
  /\ since \in [Requests -> SUBSET SUBSET Good]
  /\ counted \in [Verdicts -> Nat]
  /\ observed \in [Verdicts -> Nat]

\* Every document a request names, wherever an API might read it from.
Named(s) ==
  {s.query[i] : i \in DOMAIN s.query}
    \cup (Documents \cap UNION {{e[j] : j \in DOMAIN e} :
                               e \in {s.elems[i] : i \in DOMAIN s.elems}})

\* Nothing is forwarded that the allowlist did not answer for: every document an
\* allowed request names, in its query string, in its body, in any element of a batch
\* and under any of its members, was on a list in service while it was decided
\* (proxy.go:563-575, extract.go:60-66), and each element carries one.
AllowedWasServed ==
  \A r \in Requests : verdict[r] = "allowed" =>
    /\ \A d \in Named(shape[r]) : \E list \in since[r] : d \in list
    /\ shape[r].method = "POST" =>
         \A i \in DOMAIN shape[r].elems : Carries(shape[r].elems[i])

\* A request is refused as not allowed for a reason: some document of it does not
\* parse, or was missing from a list in service while it was decided; as too deep only
\* where one nests too deep (proxy.go:604-622).
RefusedWasMissing ==
  \A r \in Requests :
    /\ verdict[r] = "rejected" =>
         \E d \in Named(shape[r]) :
           Class[d] # "ok" \/ \E list \in since[r] : d \notin list
    /\ verdict[r] = "too_deep" => \E d \in Named(shape[r]) : Class[d] = "deep"

\* A request is decided by the lists in service while it was (proxy.go:563-622).
DecidedByTheList == AllowedWasServed /\ RefusedWasMissing

\* One request has no more documents looked up than -server.max-batch, or one where it
\* is no batch (extract.go:118-126).
CapHolds ==
  \A r \in Requests : at[r] <= (IF shape[r].batch /\ ~shape[r].raw THEN MaxBatch ELSE 1)

InState(r, where) == pc[r] \in where

\* Every request raises one counter and is timed once under the same decision, and no
\* decision is timed before it is counted (proxy.go:332-397, core.go:123-160).
TotalsAgree ==
  \A v \in Verdicts :
    /\ counted[v] = Cardinality({r \in Requests :
                                   InState(r, {"answered", "done"}) /\ verdict[r] = v})
    /\ observed[v] = Cardinality({r \in Requests : InState(r, {"done"}) /\ verdict[r] = v})

\* Where the two implementations read the same of a request they refuse it alike
\* (core.go:10-12): a POST, unless it breaks off one byte over the limit, a GET that is not
\* one byte over the limit, and another method whose body arrives and fits.
Alike(s) ==
  \/ s.method = "POST" /\ (s.arrives \/ s.size # MaxBody + 1)
  \/ s.method = "GET" /\ s.size # MaxBody + 1
  \/ s.method = "other" /\ s.size <= MaxBody /\ s.arrives

RefusedAlike == \A r \in Requests : Alike(shape[r]) => check(shape[r]) = Core(shape[r])

\* What the call of allow for the document at its turn has answered.
AnswerOf(r) ==
  CASE pc[r] \in {"counting", "looking"} -> "waiting"
    [] pc[r] = "matched" -> "hit"
    [] pc[r] = "decided" /\ verdict[r] \in {"rejected", "too_deep"} -> "miss"
    [] OTHER -> "idle"

\* Each call of allow answers as one lookup of the list in service at one moment between
\* its call and its return, though it loads that list twice (proxy.go:605, 621).
Lookups == INSTANCE ServedSet WITH
  Keys <- Documents, Readers <- Requests, asked <- value,
  answer <- [r \in Requests |-> AnswerOf(r)]

LookupsAreAtomic == Lookups!Spec
==============================================================================
