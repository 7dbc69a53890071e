---------------------------- MODULE DecisionProofs ----------------------------
(***************************************************************************)
(* What Decision promises, for any requests, shapes, documents and limits. *)
(* The first part is about the reading of one shape, where no step is      *)
(* taken: what is not refused is read whole.  The second part carries that *)
(* through the steps of the requests and of the reloads between them.      *)
(***************************************************************************)
EXTENDS Decision, FiniteSetTheorems, WellFoundedInduction, TLAPS

\* Some element is the first at which the scan stops, where it stops (extract.go:60-66).
LEMMA FirstBroken ==
  ASSUME NEW s \in Shapes, Broken(s) # {}
  PROVE  \E i \in Broken(s) : \A j \in Broken(s) : i <= j
<1>1. Broken(s) \subseteq Nat
  BY ShapesAssumption DEF Broken
<1>2. PICK i \in Broken(s) : \A j \in Broken(s) : ~(<<j, i>> \in OpToRel(<, Nat))
  BY <1>1, WFMin, NatLessThanWellFounded
<1>3. \A j \in Broken(s) : ~(j < i)
  BY <1>1, <1>2 DEF OpToRel
<1> QED BY <1>1, <1>3

\* A body whose JSON is not refused breaks no rule in any element, and every element
\* carries one document (extract.go:60-66, 98-139).
LEMMA ReadWhole ==
  ASSUME NEW s \in Shapes, extractJSON(s) = "none"
  PROVE  /\ s.elems # <<>>
         /\ s.batch => MaxBatch >= 1
         /\ \A i \in DOMAIN s.elems : Break(s, i) = "none" /\ Carries(s.elems[i])
<1>0. s.elems \in Seq(Seq(Members)) /\ s.batch \in BOOLEAN
  BY ShapesAssumption
<1>1. ~(s.batch /\ MaxBatch < 1)
  BY DEF extractJSON
<1>2. Broken(s) = {}
  <2> SUFFICES ASSUME Broken(s) # {} PROVE FALSE
    OBVIOUS
  <2> DEFINE first == CHOOSE i \in Broken(s) : \A j \in Broken(s) : i <= j
  <2>1. first \in Broken(s)
    BY FirstBroken
  <2>2. Break(s, first) # "none"
    BY <2>1 DEF Broken
  <2>3. extractJSON(s) = Break(s, first)
    BY <1>1 DEF extractJSON
  <2> QED BY <2>2, <2>3
<1>3. s.elems # <<>> /\ Carries(s.elems[Len(s.elems)])
  BY <1>1, <1>2 DEF extractJSON
<1>4. \A i \in DOMAIN s.elems : Break(s, i) = "none"
  BY <1>2 DEF Broken
<1>5. ASSUME NEW i \in DOMAIN s.elems PROVE Carries(s.elems[i])
  <2>1. CASE i = Len(s.elems)
    BY <1>3, <2>1
  <2>2. CASE i # Len(s.elems)
    <3>1. i + 1 \in DOMAIN s.elems /\ i + 1 > 1 /\ (i + 1) - 1 = i
      BY <1>0, <2>2
    <3>2. Break(s, i + 1) = "none"
      BY <3>1, <1>4
    <3> QED BY <3>1, <3>2 DEF Break
  <2> QED BY <2>1, <2>2
<1> QED BY <1>1, <1>3, <1>4, <1>5, LimitsAssumption

\* The bound on the documents of one request.
Cap(s) == IF s.batch /\ ~s.raw THEN MaxBatch ELSE 1

\* What decide lets through is looked up whole: each document the request names, in the
\* places an API may read one from, and no more than the cap allows
\* (proxy.go:549-575, extract.go:60-66).
LEMMA LookedWhole ==
  ASSUME NEW s \in Shapes, decide(s) = "none"
  PROVE  /\ s.method # "other"
         /\ Looked(s) \in Seq(Documents)
         /\ Len(Looked(s)) >= 1
         /\ Len(Looked(s)) <= Cap(s)
         /\ \A d \in Named(s) : \E i \in DOMAIN Looked(s) : d = Looked(s)[i]
         /\ \A i \in DOMAIN Looked(s) : Looked(s)[i] \in Named(s)
         /\ s.method = "POST" => \A i \in DOMAIN s.elems : Carries(s.elems[i])
<1>0. /\ s.elems \in Seq(Seq(Members)) /\ s.query \in Seq(Documents)
      /\ s.method \in {"GET", "POST", "other"} /\ s.batch \in BOOLEAN /\ s.raw \in BOOLEAN
      /\ s.raw => \E d \in Documents : s.elems = << <<d>> >>
      /\ ~s.batch => Len(s.elems) <= 1
      /\ s.method = "GET" => s.elems = <<>> /\ ~s.batch
  BY ShapesAssumption
<1>1. s.method # "other"
  BY DEF decide
<1>2. CASE s.method = "GET"
  <2>1. s.query # <<>> /\ Len(s.query) <= 1
    BY <1>0, <1>2 DEF decide
  <2>2. Looked(s) = s.query
    BY <1>2 DEF Looked
  <2>3. Cap(s) = 1
    BY <1>0, <1>2 DEF Cap
  <2>4. Named(s) = {s.query[i] : i \in DOMAIN s.query}
    BY <1>0, <1>2 DEF Named
  <2> QED BY <1>0, <1>2, <2>1, <2>2, <2>3, <2>4
<1>3. CASE s.method = "POST"
  <2>1. s.query = <<>>
    BY <1>3 DEF decide
  <2>2. Looked(s) = [i \in DOMAIN s.elems |-> s.elems[i][1]]
    BY <1>3 DEF Looked
  <2>3. /\ s.elems # <<>> /\ Len(s.elems) <= Cap(s)
        /\ \A i \in DOMAIN s.elems : Carries(s.elems[i]) /\ Len(s.elems[i]) = 1
    <3>1. CASE s.raw
      <4>1. PICK d \in Documents : s.elems = << <<d>> >>
        BY <1>0, <3>1
      <4>2. d # NotString
        BY MembersAssumption
      <4> QED BY <3>1, <4>1, <4>2 DEF Carries, Cap
    <3>2. CASE ~s.raw
      <4>1. extractJSON(s) = "none"
        BY <1>3, <2>1, <3>2 DEF decide
      <4>2. /\ s.elems # <<>>
            /\ s.batch => MaxBatch >= 1
            /\ \A i \in DOMAIN s.elems : Break(s, i) = "none" /\ Carries(s.elems[i])
        BY <4>1, ReadWhole
      <4>3. ASSUME NEW i \in DOMAIN s.elems
            PROVE  Len(s.elems[i]) = 1 /\ ~TooMany(s, i)
        <5>1. s.elems[i] \in Seq(Members)
          BY <1>0
        <5>2. Break(s, i) = "none" /\ Len(s.elems[i]) > 0
          BY <4>2 DEF Carries
        <5>3. ~TooMany(s, i) /\ ~(Len(s.elems[i]) > 1)
          BY <5>2 DEF Break
        <5>4. Len(s.elems[i]) \in Nat
          BY <5>1
        <5>5. \A n \in Nat : n > 0 /\ ~(n > 1) => n = 1
          OBVIOUS
        <5>6. Len(s.elems[i]) = 1
          BY <5>2, <5>3, <5>4, <5>5
        <5> QED BY <5>3, <5>6
      <4>4. Len(s.elems) \in DOMAIN s.elems /\ Len(s.elems) \in Nat
        BY <1>0, <4>2
      <4>5. Len(s.elems) <= Cap(s)
        BY <1>0, <3>2, <4>2, <4>3, <4>4, LimitsAssumption DEF TooMany, Cap
      <4> QED BY <4>2, <4>3, <4>5
    <3> QED BY <1>0, <3>1, <3>2
  <2>4. ASSUME NEW i \in DOMAIN s.elems
        PROVE  s.elems[i][1] \in Documents /\ DOMAIN s.elems[i] = {1}
    <3>1. s.elems[i] \in Seq(Members) /\ Len(s.elems[i]) = 1 /\ s.elems[i][1] # NotString
      BY <1>0, <2>3 DEF Carries
    <3> QED BY <3>1 DEF Members
  <2>5. Looked(s) \in Seq(Documents) /\ Len(Looked(s)) = Len(s.elems)
    <3>1. Len(s.elems) \in Nat /\ DOMAIN s.elems = 1..Len(s.elems)
      BY <1>0
    <3>2. Looked(s) \in [1..Len(s.elems) -> Documents]
      BY <2>2, <2>4, <3>1
    <3> QED BY <3>1, <3>2
  <2>6. Named(s) = {s.elems[i][1] : i \in DOMAIN s.elems}
    <3>1. {s.query[i] : i \in DOMAIN s.query} = {}
      BY <2>1
    <3> QED BY <2>4, <3>1 DEF Named
  <2>7. \A d \in Named(s) : \E i \in DOMAIN Looked(s) : d = Looked(s)[i]
    BY <2>2, <2>6
  <2>8. \A i \in DOMAIN Looked(s) : Looked(s)[i] \in Named(s)
    BY <2>2, <2>6
  <2> QED BY <1>0, <1>1, <2>3, <2>5, <2>7, <2>8
<1> QED BY <1>0, <1>1, <1>2, <1>3

\* What the two implementations add to decide is only a refusal, and none of the shape
\* alone is one of the allowlist or of the parser (proxy.go:516-547, core.go:98-121).
Refused == {"malformed", "too_large", "ambiguous", "batch_too_large", "method_not_allowed"}

LEMMA RefusedByShape ==
  ASSUME NEW s \in Shapes, NEW verd \in {check(s), Core(s)}
  PROVE  /\ verd \in Refused \cup {"none"}
         /\ verd = "none" => decide(s) = "none"
<1>1. \A i : Break(s, i) \in Refused \cup {"none"}
  BY DEF Break, Refused
<1>2. extractJSON(s) \in Refused \cup {"none"}
  <2>1. CASE s.batch /\ MaxBatch < 1
    BY <2>1 DEF extractJSON, Refused
  <2>2. CASE ~(s.batch /\ MaxBatch < 1) /\ Broken(s) # {}
    BY <1>1, <2>2 DEF extractJSON
  <2>3. CASE ~(s.batch /\ MaxBatch < 1) /\ Broken(s) = {}
    BY <2>3 DEF extractJSON, Refused
  <2> QED BY <2>1, <2>2, <2>3
<1>3. s.method \in {"GET", "POST", "other"} /\ s.size \in Nat /\ s.arrives \in BOOLEAN
  BY ShapesAssumption
<1>4. decide(s) \in Refused \cup {"none"}
  BY <1>2, <1>3 DEF decide, Refused
<1>5. CASE verd = check(s)
  BY <1>4, <1>5 DEF check, readBody, Refused
<1>6. CASE verd = Core(s)
  BY <1>3, <1>4, <1>6, LimitsAssumption DEF Core, Refused
<1> QED BY <1>5, <1>6
-----------------------------------------------------------------------------
(* The steps.                                                              *)

Stages == {"reading", "counting", "looking", "matched"}

\* The documents before the one being looked up, and that one too once it was found.
Found(r) == IF pc[r] = "matched" THEN at[r] ELSE at[r] - 1

Covered(d, r) == \E list \in since[r] : d \in list

\* A request that is read is read as decide has it, up to the document at its turn.
Reading(r) ==
  pc[r] \in Stages =>
    /\ verdict[r] = "none"
    /\ decide(shape[r]) = "none"
    /\ todo[r] = Looked(shape[r])
    /\ at[r] \in 1..Len(todo[r])
    /\ \A i \in 1..Found(r) : Covered(todo[r][i], r)

\* The document at its turn is the one unescaped, and parses where it is looked up.
Turn(r) ==
  /\ pc[r] \in {"counting", "looking", "matched"} => value[r] = todo[r][at[r]]
  /\ pc[r] = "looking" => Class[value[r]] = "ok"

\* What was decided, with the reason that DecidedByTheList asks for.
Reasons(r) ==
  /\ verdict[r] = "none" <=> pc[r] \in Stages \cup {"idle"}
  /\ verdict[r] = "allowed" =>
       decide(shape[r]) = "none" /\ \A d \in Named(shape[r]) : Covered(d, r)
  /\ verdict[r] = "rejected" =>
       \E d \in Named(shape[r]) : Class[d] # "ok" \/ \E list \in since[r] : d \notin list
  /\ verdict[r] = "too_deep" => \E d \in Named(shape[r]) : Class[d] = "deep"

Within(r) ==
  at[r] # 0 => decide(shape[r]) = "none" /\ at[r] <= Len(Looked(shape[r]))

ReadInv ==
  /\ shape \in [Requests -> Shapes]
  /\ \A r \in Requests :
       /\ pc[r] # "idle" => served \in since[r]
       /\ Reading(r) /\ Turn(r) /\ Reasons(r) /\ Within(r)

LEMMA InitType == Init => TypeOK
<1> SUFFICES ASSUME Init PROVE TypeOK
  OBVIOUS
<1>1. (CHOOSE d \in Documents : TRUE) \in Documents
  BY MembersAssumption
<1>2. DOMAIN shape = Requests /\ {} \in SUBSET Good /\ <<>> \in Seq(Documents)
  BY DEF Init
<1> QED BY <1>1, <1>2, LimitsAssumption DEF Init, TypeOK

LEMMA InitRead == Init => ReadInv
BY DEF Init, ReadInv, Reading, Turn, Reasons, Within, Stages

\* What a request is refused for, and that one let through is read whole.
LEMMA ShapeRead ==
  ASSUME TypeOK, ReadInv, NEW r \in Requests
  PROVE  /\ Refusal(r) \in Refused \cup {"none"}
         /\ Refusal(r) = "none" => decide(shape[r]) = "none"
         /\ decide(shape[r]) = "none" =>
              /\ Looked(shape[r]) \in Seq(Documents)
              /\ Len(Looked(shape[r])) >= 1
<1>1. shape[r] \in Shapes
  BY DEF ReadInv
<1>2. Refusal(r) \in {check(shape[r]), Core(shape[r])}
  BY DEF Refusal
<1> QED BY <1>1, <1>2, RefusedByShape, LookedWhole

\* Setting what was decided keeps it one of the decisions.
LEMMA DecideType ==
  ASSUME TypeOK, NEW r \in Requests, NEW v \in Verdicts, Decide(r, v)
  PROVE  /\ pc' \in [Requests -> Stages \cup {"idle", "decided", "answered", "done"}]
         /\ verdict' \in [Requests -> Verdicts \cup {"none"}]
<1>1. pc \in [Requests -> Stages \cup {"idle", "decided", "answered", "done"}]
  BY DEF TypeOK, Stages
<1>2. verdict \in [Requests -> Verdicts \cup {"none"}]
  BY DEF TypeOK
<1> QED BY <1>1, <1>2 DEF Decide

LEMMA NextType == TypeOK /\ ReadInv /\ [Next]_vars => TypeOK'
<1> SUFFICES ASSUME TypeOK, ReadInv, [Next]_vars PROVE TypeOK'
  OBVIOUS
<1>0. {"rejected", "too_deep", "malformed", "allowed"} \subseteq Verdicts
  BY DEF Verdicts
<1>1. CASE Publish
  BY <1>1, LimitsAssumption DEF Publish, TypeOK
<1>2. ASSUME NEW r \in Requests, Check(r) PROVE TypeOK'
  <2>1. CASE Refusal(r) # "none"
    <3>1. Refusal(r) \in Verdicts
      BY <2>1, ShapeRead DEF Refused, Verdicts
    <3>2. Decide(r, Refusal(r))
      BY <1>2, <2>1 DEF Check
    <3> QED BY <1>2, <2>1, <3>1, <3>2, DecideType DEF Check, TypeOK, Stages
  <2>2. CASE Refusal(r) = "none"
    <3>1. Looked(shape[r]) \in Seq(Documents)
      BY <2>2, ShapeRead
    <3>2. /\ pc' = [pc EXCEPT ![r] = "reading"]
          /\ todo' = [todo EXCEPT ![r] = Looked(shape[r])]
          /\ at' = [at EXCEPT ![r] = 1]
          /\ since' = [since EXCEPT ![r] = {served}]
          /\ UNCHANGED <<shape, impl, value, verdict, served, published, counted, observed>>
      BY <1>2, <2>2 DEF Check
    <3>3. todo' \in [Requests -> Seq(Documents)]
      BY <3>1, <3>2 DEF TypeOK
    <3>4. at' \in [Requests -> Nat] /\ since' \in [Requests -> SUBSET SUBSET Good]
      BY <3>2 DEF TypeOK
    <3> QED BY <3>2, <3>3, <3>4 DEF TypeOK
  <2> QED BY <2>1, <2>2
<1>3. ASSUME NEW r \in Requests, Unescape(r) PROVE TypeOK'
  <2>1. todo[r][at[r]] \in Documents
    BY <1>3 DEF Unescape, ReadInv, Reading, Stages, TypeOK
  <2>2. CASE Unescapes(r)
    BY <1>3, <2>1, <2>2 DEF Unescape, TypeOK
  <2>3. CASE ~Unescapes(r)
    <3>1. Decide(r, "malformed")
      BY <1>3, <2>3 DEF Unescape
    <3> QED BY <1>0, <1>3, <2>3, <3>1, DecideType DEF Unescape, TypeOK, Stages
  <2> QED BY <2>2, <2>3
<1>4. ASSUME NEW r \in Requests, LoadLen(r) PROVE TypeOK'
  <2>1. CASE pc' = [pc EXCEPT ![r] = "looking"] /\ UNCHANGED verdict
    BY <1>4, <2>1 DEF LoadLen, TypeOK
  <2>2. ASSUME NEW v \in {"too_deep", "rejected"}, Decide(r, v) PROVE TypeOK'
    BY <1>0, <1>4, <2>2, DecideType DEF LoadLen, TypeOK, Stages
  <2> QED BY <1>4, <2>1, <2>2 DEF LoadLen
<1>5. ASSUME NEW r \in Requests, LookUp(r) PROVE TypeOK'
  <2>1. CASE value[r] \in served
    BY <1>5, <2>1 DEF LookUp, TypeOK
  <2>2. CASE value[r] \notin served
    <3>1. Decide(r, "rejected")
      BY <1>5, <2>2 DEF LookUp
    <3> QED BY <1>0, <1>5, <3>1, DecideType DEF LookUp, TypeOK, Stages
  <2> QED BY <2>1, <2>2
<1>6. ASSUME NEW r \in Requests, Advance(r) PROVE TypeOK'
  <2>1. CASE at[r] < Len(todo[r])
    <3>1. /\ pc' = [pc EXCEPT ![r] = "reading"]
          /\ at' = [at EXCEPT ![r] = @ + 1]
          /\ UNCHANGED <<shape, impl, todo, value, verdict, served, published, since,
                         counted, observed>>
      BY <1>6, <2>1 DEF Advance
    <3>2. at' \in [Requests -> Nat]
      BY <3>1 DEF TypeOK
    <3> QED BY <3>1, <3>2 DEF TypeOK
  <2>2. CASE ~(at[r] < Len(todo[r]))
    <3>1. Decide(r, "allowed")
      BY <1>6, <2>2 DEF Advance
    <3> QED BY <1>0, <1>6, <2>2, <3>1, DecideType DEF Advance, TypeOK, Stages
  <2> QED BY <2>1, <2>2
<1>7. ASSUME NEW r \in Requests, Count(r) PROVE TypeOK'
  <2>1. verdict[r] \in Verdicts
    BY <1>7 DEF Count, ReadInv, Reasons, Stages, TypeOK
  <2> QED BY <1>7, <2>1 DEF Count, TypeOK
<1>8. ASSUME NEW r \in Requests, Observe(r) PROVE TypeOK'
  <2>1. verdict[r] \in Verdicts
    BY <1>8 DEF Observe, ReadInv, Reasons, Stages, TypeOK
  <2> QED BY <1>8, <2>1 DEF Observe, TypeOK
<1>9. CASE UNCHANGED vars
  BY <1>9 DEF vars, TypeOK
<1> QED
  BY <1>1, <1>2, <1>3, <1>4, <1>5, <1>6, <1>7, <1>8, <1>9 DEF Next
-----------------------------------------------------------------------------
\* The document at its turn is one the request names, and every one named has its turn.
LEMMA TurnOfNamed ==
  ASSUME TypeOK, ReadInv, NEW r \in Requests, pc[r] \in Stages
  PROVE  /\ todo[r][at[r]] \in Named(shape[r])
         /\ \A d \in Named(shape[r]) : \E i \in 1..Len(todo[r]) : d = todo[r][i]
<1>1. decide(shape[r]) = "none" /\ todo[r] = Looked(shape[r]) /\ at[r] \in 1..Len(todo[r])
  BY DEF ReadInv, Reading
<1>2. shape[r] \in Shapes
  BY DEF ReadInv
<1>3. DOMAIN Looked(shape[r]) = 1..Len(todo[r])
  BY <1>1, <1>2, LookedWhole
<1> QED BY <1>1, <1>2, <1>3, LookedWhole

LEMMA NextRead == TypeOK /\ ReadInv /\ [Next]_vars => ReadInv'
<1> SUFFICES ASSUME TypeOK, ReadInv, [Next]_vars PROVE ReadInv'
  OBVIOUS
<1>0. shape' = shape
  BY DEF Next, vars, Publish, Check, Unescape, LoadLen, LookUp, Advance, Count, Observe
<1> DEFINE Kept(q) == /\ pc[q] # "idle" => served \in since[q]
                      /\ Reading(q) /\ Turn(q) /\ Reasons(q) /\ Within(q)
<1> SUFFICES ASSUME NEW q \in Requests PROVE Kept(q)'
  BY <1>0 DEF ReadInv
<1>a. Kept(q) /\ shape[q] \in Shapes
  BY DEF ReadInv
\* A step that is not this request's, and at most adds a list to those it has seen.
<1>b. ASSUME pc'[q] = pc[q], todo'[q] = todo[q], at'[q] = at[q], value'[q] = value[q],
             verdict'[q] = verdict[q], since[q] \subseteq since'[q],
             pc[q] # "idle" => served' \in since'[q]
      PROVE  Kept(q)'
  <2>1. \A d : Covered(d, q) => Covered(d, q)'
    BY <1>b DEF Covered
  <2>2. Found(q)' = Found(q)
    BY <1>b DEF Found
  <2>3. Reading(q)' /\ Turn(q)'
    BY <1>0, <1>a, <1>b, <2>1, <2>2 DEF Reading, Turn
  <2>4. Reasons(q)' /\ Within(q)'
    BY <1>0, <1>a, <1>b, <2>1 DEF Reasons, Within
  <2> QED BY <1>b, <2>3, <2>4
<1>1. CASE Publish
  <2>1. since'[q] = since[q] \cup {served'}
    BY <1>1 DEF Publish
  <2> QED BY <1>b, <1>1, <2>1 DEF Publish
<1>2. CASE UNCHANGED vars
  BY <1>a, <1>b, <1>2 DEF vars
<1>3. ASSUME NEW r \in Requests, r # q,
             \/ Check(r) \/ Unescape(r) \/ LoadLen(r) \/ LookUp(r) \/ Advance(r)
             \/ Count(r) \/ Observe(r)
      PROVE  Kept(q)'
  <2>1. /\ pc'[q] = pc[q] /\ todo'[q] = todo[q] /\ at'[q] = at[q] /\ value'[q] = value[q]
        /\ verdict'[q] = verdict[q] /\ since'[q] = since[q] /\ served' = served
    BY <1>3 DEF TypeOK, Check, Unescape, LoadLen, LookUp, Advance, Count, Observe, Decide
  <2> QED BY <1>a, <1>b, <2>1
\* A step that decides this request ends its reading.
<1>c. ASSUME NEW v \in Verdicts, Decide(q, v), at'[q] = at[q], served' = served,
             served \in since'[q],
             v \in {"allowed", "rejected", "too_deep"} => since'[q] = since[q],
             v = "allowed" => /\ decide(shape[q]) = "none"
                              /\ \A d \in Named(shape[q]) : Covered(d, q),
             v = "rejected" => \E d \in Named(shape[q]) :
                                 Class[d] # "ok" \/ \E list \in since[q] : d \notin list,
             v = "too_deep" => \E d \in Named(shape[q]) : Class[d] = "deep"
      PROVE  Kept(q)'
  <2>1. pc'[q] = "decided" /\ verdict'[q] = v
    BY <1>c DEF Decide, TypeOK
  <2>2. v # "none"
    BY <1>c DEF Verdicts
  <2>3. Reading(q)' /\ Turn(q)'
    BY <2>1 DEF Reading, Turn, Stages
  <2>4. Reasons(q)'
    BY <1>0, <1>c, <2>1, <2>2 DEF Reasons, Stages, Covered
  <2>5. Within(q)'
    BY <1>0, <1>a, <1>c DEF Within
  <2> QED BY <1>c, <2>3, <2>4, <2>5
<1>d. {"rejected", "too_deep", "malformed", "allowed"} \subseteq Verdicts
  BY DEF Verdicts
<1>4. CASE Check(q)
  <2>1. pc[q] = "idle" /\ served' = served /\ since'[q] = {served}
    BY <1>4 DEF Check, TypeOK
  <2>2. CASE Refusal(q) # "none"
    <3>1. Decide(q, Refusal(q)) /\ at' = at
      BY <1>4, <2>2 DEF Check
    <3>2. Refusal(q) \in Verdicts
      BY <2>2, ShapeRead DEF Refused, Verdicts
    <3>3. Refusal(q) \notin {"allowed", "rejected", "too_deep"}
      BY <2>2, ShapeRead DEF Refused
    <3> QED BY <1>c, <2>1, <3>1, <3>2, <3>3
  <2>3. CASE Refusal(q) = "none"
    <3>1. /\ pc'[q] = "reading" /\ todo'[q] = Looked(shape[q]) /\ at'[q] = 1
          /\ verdict'[q] = verdict[q]
      BY <1>4, <2>3 DEF Check, TypeOK
    <3>2. verdict[q] = "none"
      BY <1>a, <2>1 DEF Reasons
    <3>3. /\ decide(shape[q]) = "none"
          /\ Looked(shape[q]) \in Seq(Documents) /\ Len(Looked(shape[q])) >= 1
      BY <2>3, ShapeRead
    <3>4. Found(q)' = 0
      BY <3>1 DEF Found
    <3>5. Reading(q)' /\ Turn(q)'
      BY <1>0, <3>1, <3>2, <3>3, <3>4 DEF Reading, Turn
    <3>6. Reasons(q)' /\ Within(q)'
      BY <1>0, <3>1, <3>2, <3>3 DEF Reasons, Within, Stages
    <3> QED BY <2>1, <3>5, <3>6
  <2> QED BY <2>2, <2>3
<1>5. CASE Unescape(q)
  <2>1. /\ pc[q] = "reading" /\ served' = served /\ since' = since /\ at' = at
        /\ todo' = todo
    BY <1>5 DEF Unescape
  <2>2. CASE Unescapes(q)
    <3>1. /\ pc'[q] = "counting" /\ value'[q] = todo[q][at[q]] /\ verdict' = verdict
      BY <1>5, <2>2 DEF Unescape, TypeOK
    <3>2. Found(q)' = Found(q)
      BY <2>1, <3>1 DEF Found
    <3>3. Reading(q)' /\ Turn(q)'
      BY <1>0, <1>a, <2>1, <3>1, <3>2 DEF Reading, Turn, Stages, Covered
    <3>4. Reasons(q)' /\ Within(q)'
      BY <1>0, <1>a, <2>1, <3>1 DEF Reasons, Within, Stages
    <3> QED BY <1>a, <2>1, <3>3, <3>4
  <2>3. CASE ~Unescapes(q)
    <3>1. Decide(q, "malformed")
      BY <1>5, <2>3 DEF Unescape
    <3> QED BY <1>a, <1>c, <1>d, <2>1, <3>1
  <2> QED BY <2>2, <2>3
<1>6. CASE LoadLen(q)
  <2>1. /\ pc[q] = "counting" /\ served' = served /\ since' = since /\ at' = at
        /\ todo' = todo /\ value' = value
    BY <1>6 DEF LoadLen
  <2>2. value[q] \in Named(shape[q]) /\ served \in since[q]
    BY <1>a, <2>1, TurnOfNamed DEF Turn, Stages
  <2>3. CASE served # {} /\ Class[value[q]] = "ok"
    <3>1. pc'[q] = "looking" /\ verdict' = verdict
      BY <1>6, <2>3 DEF LoadLen, TypeOK
    <3>2. Found(q)' = Found(q)
      BY <2>1, <3>1 DEF Found
    <3>3. Reading(q)' /\ Turn(q)'
      BY <1>0, <1>a, <2>1, <2>3, <3>1, <3>2 DEF Reading, Turn, Stages, Covered
    <3>4. Reasons(q)' /\ Within(q)'
      BY <1>0, <1>a, <2>1, <3>1 DEF Reasons, Within, Stages
    <3> QED BY <1>a, <2>1, <3>3, <3>4
  <2>4. CASE served # {} /\ Class[value[q]] = "deep"
    <3>1. Decide(q, "too_deep")
      BY <1>6, <2>4 DEF LoadLen
    <3> QED BY <1>c, <1>d, <2>1, <2>2, <2>4, <3>1
  <2>5. CASE served = {} \/ Class[value[q]] \notin {"ok", "deep"}
    <3>1. Decide(q, "rejected")
      BY <1>6, <2>5 DEF LoadLen
    <3> QED BY <1>c, <1>d, <2>1, <2>2, <2>5, <3>1
  <2> QED BY <2>3, <2>4, <2>5
<1>7. CASE LookUp(q)
  <2>1. /\ pc[q] = "looking" /\ served' = served /\ since' = since /\ at' = at
        /\ todo' = todo /\ value' = value
    BY <1>7 DEF LookUp
  <2>2. value[q] \in Named(shape[q]) /\ served \in since[q] /\ value[q] = todo[q][at[q]]
    BY <1>a, <2>1, TurnOfNamed DEF Turn, Stages
  <2>3. CASE value[q] \in served
    <3>1. pc'[q] = "matched" /\ verdict' = verdict
      BY <1>7, <2>3 DEF LookUp, TypeOK
    <3>2. Found(q)' = at[q] /\ Found(q) = at[q] - 1 /\ at[q] \in Nat
      BY <2>1, <3>1 DEF Found, TypeOK
    <3>3. Covered(todo[q][at[q]], q)
      BY <2>2, <2>3 DEF Covered
    <3>4. \A i \in 1..at[q] : Covered(todo[q][i], q)
      <4>1. \A i \in 1..(at[q] - 1) : Covered(todo[q][i], q)
        BY <1>a, <2>1, <3>2 DEF Reading, Stages
      <4>2. \A i \in 1..at[q] : i \in 1..(at[q] - 1) \/ i = at[q]
        BY <3>2
      <4> QED BY <3>3, <4>1, <4>2
    <3>5. Reading(q)' /\ Turn(q)'
      BY <1>0, <1>a, <2>1, <2>2, <3>1, <3>2, <3>4 DEF Reading, Turn, Stages, Covered
    <3>6. Reasons(q)' /\ Within(q)'
      BY <1>0, <1>a, <2>1, <3>1 DEF Reasons, Within, Stages
    <3> QED BY <1>a, <2>1, <3>5, <3>6
  <2>4. CASE value[q] \notin served
    <3>1. Decide(q, "rejected")
      BY <1>7, <2>4 DEF LookUp
    <3> QED BY <1>c, <1>d, <2>1, <2>2, <2>4, <3>1
  <2> QED BY <2>3, <2>4
<1>8. CASE Advance(q)
  <2>1. /\ pc[q] = "matched" /\ served' = served /\ since' = since /\ todo' = todo
        /\ value' = value
    BY <1>8 DEF Advance
  <2>2. /\ verdict[q] = "none" /\ decide(shape[q]) = "none" /\ todo[q] = Looked(shape[q])
        /\ at[q] \in 1..Len(todo[q]) /\ \A i \in 1..at[q] : Covered(todo[q][i], q)
    BY <1>a, <2>1 DEF Reading, Found, Stages
  <2>n. Len(todo[q]) \in Nat
    BY DEF TypeOK
  <2>3. CASE at[q] < Len(todo[q])
    <3>1. pc'[q] = "reading" /\ at'[q] = at[q] + 1 /\ verdict' = verdict
      BY <1>8, <2>3 DEF Advance, TypeOK
    <3>2. Found(q)' = at[q] /\ at'[q] \in 1..Len(todo[q])
      BY <2>2, <2>3, <2>n, <3>1 DEF Found
    <3>3. Reading(q)' /\ Turn(q)'
      BY <1>0, <2>1, <2>2, <3>1, <3>2 DEF Reading, Turn, Stages, Covered
    <3>4. Reasons(q)' /\ Within(q)'
      BY <1>0, <1>a, <2>1, <2>2, <3>1, <3>2 DEF Reasons, Within, Stages
    <3> QED BY <1>a, <2>1, <3>3, <3>4
  <2>4. CASE ~(at[q] < Len(todo[q]))
    <3>1. Decide(q, "allowed") /\ at' = at
      BY <1>8, <2>4 DEF Advance
    <3>2. at[q] = Len(todo[q])
      BY <2>2, <2>4, <2>n
    <3>3. \A d \in Named(shape[q]) : Covered(d, q)
      BY <2>1, <2>2, <3>2, TurnOfNamed DEF Stages
    <3> QED BY <1>a, <1>c, <1>d, <2>1, <2>2, <3>1, <3>3
  <2> QED BY <2>3, <2>4
<1>9. CASE Count(q) \/ Observe(q)
  <2>1. /\ pc[q] \in {"decided", "answered"} /\ pc'[q] \in {"answered", "done"}
        /\ at' = at /\ verdict' = verdict /\ since' = since /\ served' = served
    BY <1>9 DEF Count, Observe, TypeOK
  <2>2. Reading(q)' /\ Turn(q)'
    BY <2>1 DEF Reading, Turn, Stages
  <2>3. Reasons(q)' /\ Within(q)'
    BY <1>0, <1>a, <2>1 DEF Reasons, Within, Stages, Covered
  <2> QED BY <1>a, <2>1, <2>2, <2>3
<1> QED
  BY <1>1, <1>2, <1>3, <1>4, <1>5, <1>6, <1>7, <1>8, <1>9 DEF Next

LEMMA ReadInvHolds == Spec => [](TypeOK /\ ReadInv)
<1>1. Init => TypeOK /\ ReadInv
  BY InitType, InitRead
<1>2. TypeOK /\ ReadInv /\ [Next]_vars => (TypeOK /\ ReadInv)'
  BY NextType, NextRead
<1> QED BY <1>1, <1>2, PTL DEF Spec

\* The variables keep their types.
THEOREM TypeCorrect == Spec => []TypeOK
BY ReadInvHolds, PTL

\* A request is decided by the lists in service while it was: allowed where each
\* document it names was on one of them, refused as not allowed where one was not
\* (proxy.go:563-622).
THEOREM DecidedByLists == Spec => []DecidedByTheList
<1>1. ReadInv => DecidedByTheList
  <2> SUFFICES ASSUME ReadInv, NEW r \in Requests
               PROVE  /\ verdict[r] = "allowed" =>
                           /\ \A d \in Named(shape[r]) : Covered(d, r)
                           /\ shape[r].method = "POST" =>
                                \A i \in DOMAIN shape[r].elems : Carries(shape[r].elems[i])
                      /\ verdict[r] = "rejected" =>
                           \E d \in Named(shape[r]) :
                             Class[d] # "ok" \/ \E list \in since[r] : d \notin list
                      /\ verdict[r] = "too_deep" =>
                           \E d \in Named(shape[r]) : Class[d] = "deep"
    BY DEF DecidedByTheList, AllowedWasServed, RefusedWasMissing, Covered
  <2>1. shape[r] \in Shapes /\ Reasons(r)
    BY DEF ReadInv
  <2> QED BY <2>1, LookedWhole DEF Reasons
<1> QED BY <1>1, ReadInvHolds, PTL

\* One request has no more documents looked up than -server.max-batch, or one where it
\* is no batch (extract.go:118-126).
THEOREM CapKept == Spec => []CapHolds
<1>1. TypeOK /\ ReadInv => CapHolds
  <2> SUFFICES ASSUME TypeOK, ReadInv, NEW r \in Requests PROVE at[r] <= Cap(shape[r])
    BY DEF CapHolds, Cap
  <2>1. shape[r] \in Shapes /\ Within(r) /\ at[r] \in Nat
    BY DEF ReadInv, TypeOK
  <2>2. Cap(shape[r]) \in Nat
    BY LimitsAssumption DEF Cap
  <2>3. CASE at[r] = 0
    BY <2>2, <2>3
  <2>4. CASE at[r] # 0
    <3>1. /\ Looked(shape[r]) \in Seq(Documents)
          /\ at[r] <= Len(Looked(shape[r])) /\ Len(Looked(shape[r])) <= Cap(shape[r])
      BY <2>1, <2>4, LookedWhole DEF Within
    <3> QED BY <2>1, <2>2, <3>1
  <2> QED BY <2>3, <2>4
<1> QED BY <1>1, ReadInvHolds, PTL

\* Where both implementations read the same of a request they refuse it alike
\* (core.go:10-12).
THEOREM ImplsAlike == Spec => []RefusedAlike
<1>1. ASSUME NEW s \in Shapes, Alike(s) PROVE check(s) = Core(s)
  <2>1. s.method \in {"GET", "POST", "other"} /\ s.size \in Nat /\ s.arrives \in BOOLEAN
    BY ShapesAssumption
  <2>2. CASE s.method = "other"
    BY <1>1, <2>1, <2>2, LimitsAssumption DEF Alike, check, Core, decide
  <2>3. CASE s.method = "GET"
    BY <1>1, <2>1, <2>3, LimitsAssumption DEF Alike, check, Core, decide, readBody
  <2>4. CASE s.method = "POST"
    BY <1>1, <2>1, <2>4, LimitsAssumption DEF Alike, check, Core, decide, readBody
  <2> QED BY <2>1, <2>2, <2>3, <2>4
<1>2. ReadInv => RefusedAlike
  BY <1>1 DEF ReadInv, RefusedAlike
<1> QED BY <1>2, ReadInvHolds, PTL

-----------------------------------------------------------------------------
(* The counters.                                                           *)

CountedAs(v) == {r \in Requests : InState(r, {"answered", "done"}) /\ verdict[r] = v}

TimedAs(v) == {r \in Requests : InState(r, {"done"}) /\ verdict[r] = v}

TotalsInv ==
  \A v \in Verdicts :
    /\ IsFiniteSet(CountedAs(v)) /\ counted[v] = Cardinality(CountedAs(v))
    /\ IsFiniteSet(TimedAs(v)) /\ observed[v] = Cardinality(TimedAs(v))

\* Every request raises one counter and is timed once under the same decision, and no
\* decision is timed before it is counted (proxy.go:332-397, core.go:123-160).
THEOREM TotalsKept == Spec => []TotalsAgree
<1>1. Init => TotalsInv
  <2> SUFFICES ASSUME Init, NEW v \in Verdicts
               PROVE  /\ IsFiniteSet(CountedAs(v)) /\ counted[v] = Cardinality(CountedAs(v))
                      /\ IsFiniteSet(TimedAs(v)) /\ observed[v] = Cardinality(TimedAs(v))
    BY DEF TotalsInv
  <2>1. CountedAs(v) = {} /\ TimedAs(v) = {} /\ counted[v] = 0 /\ observed[v] = 0
    BY DEF Init, CountedAs, TimedAs, InState
  <2> QED BY <2>1, FS_EmptySet
<1>2. TypeOK /\ ReadInv /\ TotalsInv /\ [Next]_vars => TotalsInv'
  <2> SUFFICES ASSUME TypeOK, ReadInv, TotalsInv, [Next]_vars, NEW v \in Verdicts
               PROVE  /\ IsFiniteSet(CountedAs(v)')
                      /\ counted'[v] = Cardinality(CountedAs(v)')
                      /\ IsFiniteSet(TimedAs(v)')
                      /\ observed'[v] = Cardinality(TimedAs(v)')
    BY DEF TotalsInv
  <2>0. /\ IsFiniteSet(CountedAs(v)) /\ counted[v] = Cardinality(CountedAs(v))
        /\ IsFiniteSet(TimedAs(v)) /\ observed[v] = Cardinality(TimedAs(v))
    BY DEF TotalsInv
  <2>1. CASE /\ counted' = counted /\ observed' = observed
             /\ CountedAs(v)' = CountedAs(v) /\ TimedAs(v)' = TimedAs(v)
    BY <2>0, <2>1
  <2>2. CASE UNCHANGED <<pc, verdict, counted, observed>>
    BY <2>1, <2>2 DEF CountedAs, TimedAs, InState
  <2>3. ASSUME NEW r \in Requests,
               Check(r) \/ Unescape(r) \/ LoadLen(r) \/ LookUp(r) \/ Advance(r)
        PROVE  CountedAs(v)' = CountedAs(v) /\ TimedAs(v)' = TimedAs(v)
    <3>1. pc[r] \notin {"answered", "done"} /\ pc'[r] \notin {"answered", "done"}
      BY <2>3 DEF TypeOK, Check, Unescape, LoadLen, LookUp, Advance, Decide
    <3>2. \A q \in Requests : q # r => pc'[q] = pc[q] /\ verdict'[q] = verdict[q]
      BY <2>3 DEF TypeOK, Check, Unescape, LoadLen, LookUp, Advance, Decide
    <3> QED BY <3>1, <3>2 DEF CountedAs, TimedAs, InState
  <2>4. ASSUME NEW r \in Requests, Count(r)
        PROVE  /\ IsFiniteSet(CountedAs(v)') /\ counted'[v] = Cardinality(CountedAs(v)')
               /\ IsFiniteSet(TimedAs(v)') /\ observed'[v] = Cardinality(TimedAs(v)')
    <3>1. /\ pc[r] = "decided" /\ pc' = [pc EXCEPT ![r] = "answered"] /\ verdict' = verdict
          /\ observed' = observed /\ counted' = [counted EXCEPT ![verdict[r]] = @ + 1]
      BY <2>4 DEF Count
    <3>2. TimedAs(v)' = TimedAs(v)
      BY <3>1 DEF TimedAs, InState, TypeOK
    <3>3. CASE verdict[r] = v
      <4>1. CountedAs(v)' = CountedAs(v) \cup {r} /\ r \notin CountedAs(v)
        BY <3>1, <3>3 DEF CountedAs, InState, TypeOK
      <4>2. counted'[v] = counted[v] + 1
        BY <3>1, <3>3 DEF TypeOK
      <4> QED BY <2>0, <3>1, <3>2, <4>1, <4>2, FS_AddElement
    <3>4. CASE verdict[r] # v
      <4>1. CountedAs(v)' = CountedAs(v) /\ counted'[v] = counted[v]
        BY <3>1, <3>4 DEF CountedAs, InState, TypeOK
      <4> QED BY <2>0, <3>1, <3>2, <4>1
    <3> QED BY <3>3, <3>4
  <2>5. ASSUME NEW r \in Requests, Observe(r)
        PROVE  /\ IsFiniteSet(CountedAs(v)') /\ counted'[v] = Cardinality(CountedAs(v)')
               /\ IsFiniteSet(TimedAs(v)') /\ observed'[v] = Cardinality(TimedAs(v)')
    <3>1. /\ pc[r] = "answered" /\ pc' = [pc EXCEPT ![r] = "done"] /\ verdict' = verdict
          /\ counted' = counted /\ observed' = [observed EXCEPT ![verdict[r]] = @ + 1]
      BY <2>5 DEF Observe
    <3>2. CountedAs(v)' = CountedAs(v)
      BY <3>1 DEF CountedAs, InState, TypeOK
    <3>3. CASE verdict[r] = v
      <4>1. TimedAs(v)' = TimedAs(v) \cup {r} /\ r \notin TimedAs(v)
        BY <3>1, <3>3 DEF TimedAs, InState, TypeOK
      <4>2. observed'[v] = observed[v] + 1
        BY <3>1, <3>3 DEF TypeOK
      <4> QED BY <2>0, <3>1, <3>2, <4>1, <4>2, FS_AddElement
    <3>4. CASE verdict[r] # v
      <4>1. TimedAs(v)' = TimedAs(v) /\ observed'[v] = observed[v]
        BY <3>1, <3>4 DEF TimedAs, InState, TypeOK
      <4> QED BY <2>0, <3>1, <3>2, <4>1
    <3> QED BY <3>3, <3>4
  <2>6. CASE Publish \/ UNCHANGED vars
    BY <2>2, <2>6 DEF Publish, vars
  <2>7. ASSUME NEW r \in Requests,
               Check(r) \/ Unescape(r) \/ LoadLen(r) \/ LookUp(r) \/ Advance(r)
        PROVE  counted' = counted /\ observed' = observed
    BY <2>7 DEF Check, Unescape, LoadLen, LookUp, Advance
  <2> QED BY <2>1, <2>3, <2>4, <2>5, <2>6, <2>7 DEF Next
<1>3. TotalsInv => TotalsAgree
  BY DEF TotalsInv, TotalsAgree, CountedAs, TimedAs
<1> QED BY <1>1, <1>2, <1>3, ReadInvHolds, PTL DEF Spec

-----------------------------------------------------------------------------
\* Each call of allow answers as one lookup of the list in service at one moment of the
\* call, though it loads that list twice (proxy.go:605, 621).
THEOREM LookupsKept == Spec => LookupsAreAtomic
<1>1. Init => Lookups!Init
  BY MembersAssumption DEF Init, Lookups!Init, AnswerOf
<1>2. TypeOK /\ TypeOK' /\ ReadInv /\ ReadInv' /\ [Next]_vars => [Lookups!Next]_Lookups!vars
  <2> SUFFICES ASSUME TypeOK, TypeOK', ReadInv, ReadInv', [Next]_vars
               PROVE  [Lookups!Next]_Lookups!vars
    OBVIOUS
  <2> DEFINE ans == [r \in Requests |-> AnswerOf(r)]
  \* Only the answer of the request that steps can change.
  <2>0. ASSUME NEW r \in Requests,
               \A q \in Requests : q # r => pc'[q] = pc[q] /\ verdict'[q] = verdict[q],
               NEW x, AnswerOf(r)' = x
        PROVE  ans' = [ans EXCEPT ![r] = x]
    BY <2>0 DEF AnswerOf
  <2>1. ASSUME NEW r \in Requests,
               \/ Check(r) \/ Unescape(r) \/ LoadLen(r) \/ LookUp(r) \/ Advance(r)
               \/ Count(r) \/ Observe(r)
        PROVE  \A q \in Requests : q # r => pc'[q] = pc[q] /\ verdict'[q] = verdict[q]
    BY <2>1 DEF TypeOK, Check, Unescape, LoadLen, LookUp, Advance, Count, Observe, Decide
  <2>2. ASSUME NEW r \in Requests, AnswerOf(r)' = AnswerOf(r), value' = value,
               served' = served,
               \A q \in Requests : q # r => pc'[q] = pc[q] /\ verdict'[q] = verdict[q]
        PROVE  UNCHANGED Lookups!vars
    BY <2>2 DEF AnswerOf, Lookups!vars
  <2>3. CASE Publish
    <3>1. served' \in SUBSET Documents
      BY <2>3 DEF Publish, Good
    <3>2. value' = value /\ ans' = ans
      BY <2>3 DEF Publish, AnswerOf
    <3> QED BY <3>1, <3>2 DEF Lookups!Next, Lookups!Replace
  <2>4. CASE UNCHANGED vars
    BY <2>4 DEF vars, AnswerOf, Lookups!vars
  <2>5. ASSUME NEW r \in Requests, Check(r) PROVE UNCHANGED Lookups!vars
    <3>1. pc[r] = "idle" /\ value' = value /\ served' = served
      BY <2>5 DEF Check
    <3>2. CASE Refusal(r) # "none"
      <4>1. pc'[r] = "decided" /\ verdict'[r] = Refusal(r)
        BY <2>5, <3>2 DEF Check, Decide, TypeOK
      <4>2. Refusal(r) \notin {"rejected", "too_deep"}
        BY <3>2, ShapeRead DEF Refused
      <4>3. AnswerOf(r)' = AnswerOf(r)
        BY <3>1, <4>1, <4>2 DEF AnswerOf
      <4> QED BY <2>1, <2>2, <2>5, <3>1, <4>3
    <3>3. CASE Refusal(r) = "none"
      <4>1. pc'[r] = "reading"
        BY <2>5, <3>3 DEF Check, TypeOK
      <4>2. AnswerOf(r)' = AnswerOf(r)
        BY <3>1, <4>1 DEF AnswerOf
      <4> QED BY <2>1, <2>2, <2>5, <3>1, <4>2
    <3> QED BY <3>2, <3>3
  <2>6. ASSUME NEW r \in Requests, Unescape(r) PROVE [Lookups!Next]_Lookups!vars
    <3>1. pc[r] = "reading" /\ served' = served
      BY <2>6 DEF Unescape
    <3>2. CASE Unescapes(r)
      <4>1. /\ pc'[r] = "counting" /\ value' = [value EXCEPT ![r] = todo[r][at[r]]]
            /\ todo[r][at[r]] \in Documents
        BY <2>6, <3>1, <3>2 DEF Unescape, TypeOK, ReadInv, Reading, Stages
      <4>2. ans[r] = "idle" /\ AnswerOf(r)' = "waiting"
        BY <3>1, <4>1 DEF AnswerOf
      <4>3. ans' = [ans EXCEPT ![r] = "waiting"]
        BY <2>0, <2>1, <2>6, <4>2
      <4> QED BY <3>1, <4>1, <4>2, <4>3 DEF Lookups!Next, Lookups!Ask
    <3>3. CASE ~Unescapes(r)
      <4>1. pc'[r] = "decided" /\ verdict'[r] = "malformed" /\ value' = value
        BY <2>6, <3>3 DEF Unescape, Decide, TypeOK
      <4>2. AnswerOf(r)' = AnswerOf(r)
        BY <3>1, <4>1 DEF AnswerOf
      <4> QED BY <2>1, <2>2, <2>6, <3>1, <4>1, <4>2
    <3> QED BY <3>2, <3>3
  \* The two ways in which the call of allow returns.
  <2>7. ASSUME NEW r \in Requests, pc[r] \in {"counting", "looking"},
               value' = value, served' = served,
               \A q \in Requests : q # r => pc'[q] = pc[q] /\ verdict'[q] = verdict[q],
               \/ pc'[r] = "matched" /\ value[r] \in served
               \/ /\ pc'[r] = "decided" /\ verdict'[r] \in {"rejected", "too_deep"}
                  /\ value[r] \notin served
        PROVE  Lookups!Next
    <3>1. ans[r] = "waiting"
      BY <2>7 DEF AnswerOf
    <3>2. AnswerOf(r)' = IF value[r] \in served THEN "hit" ELSE "miss"
      BY <2>7 DEF AnswerOf
    <3>3. ans' = [ans EXCEPT ![r] = IF value[r] \in served THEN "hit" ELSE "miss"]
      BY <2>0, <2>7, <3>2
    <3> QED BY <2>7, <3>1, <3>3 DEF Lookups!Next, Lookups!Answer
  <2>8. ASSUME NEW r \in Requests, LoadLen(r) PROVE [Lookups!Next]_Lookups!vars
    <3>1. pc[r] = "counting" /\ value' = value /\ served' = served
      BY <2>8 DEF LoadLen
    <3>2. CASE served # {} /\ Class[value[r]] = "ok"
      <4>1. pc'[r] = "looking"
        BY <2>8, <3>2 DEF LoadLen, TypeOK
      <4>2. AnswerOf(r)' = AnswerOf(r)
        BY <3>1, <4>1 DEF AnswerOf
      <4> QED BY <2>1, <2>2, <2>8, <3>1, <4>2
    <3>3. CASE ~(served # {} /\ Class[value[r]] = "ok")
      <4>1. pc'[r] = "decided" /\ verdict'[r] \in {"rejected", "too_deep"}
        BY <2>8, <3>3 DEF LoadLen, Decide, TypeOK
      <4>2. value[r] \notin served
        BY <3>3 DEF TypeOK, Good
      <4> QED BY <2>1, <2>7, <2>8, <3>1, <4>1, <4>2
    <3> QED BY <3>2, <3>3
  <2>9. ASSUME NEW r \in Requests, LookUp(r) PROVE Lookups!Next
    <3>1. pc[r] = "looking" /\ value' = value /\ served' = served
      BY <2>9 DEF LookUp
    <3>2. \/ pc'[r] = "matched" /\ value[r] \in served
          \/ /\ pc'[r] = "decided" /\ verdict'[r] = "rejected"
             /\ value[r] \notin served
      BY <2>9 DEF LookUp, Decide, TypeOK
    <3> QED BY <2>1, <2>7, <2>9, <3>1, <3>2
  <2>a. ASSUME NEW r \in Requests, ans[r] \in {"hit", "miss"}, AnswerOf(r)' = "idle",
               value' = value, served' = served,
               \A q \in Requests : q # r => pc'[q] = pc[q] /\ verdict'[q] = verdict[q]
        PROVE  Lookups!Next
    <3>1. ans' = [ans EXCEPT ![r] = "idle"]
      BY <2>0, <2>a
    <3> QED BY <2>a, <3>1 DEF Lookups!Next, Lookups!Leave
  <2>b. ASSUME NEW r \in Requests, Advance(r) PROVE Lookups!Next
    <3>1. pc[r] = "matched" /\ value' = value /\ served' = served
      BY <2>b DEF Advance
    <3>2. pc'[r] = "reading" \/ (pc'[r] = "decided" /\ verdict'[r] = "allowed")
      BY <2>b DEF Advance, Decide, TypeOK
    <3>3. ans[r] = "hit" /\ AnswerOf(r)' = "idle"
      BY <3>1, <3>2 DEF AnswerOf
    <3> QED BY <2>1, <2>a, <2>b, <3>1, <3>3
  <2>c. ASSUME NEW r \in Requests, Count(r) PROVE [Lookups!Next]_Lookups!vars
    <3>1. pc[r] = "decided" /\ pc'[r] = "answered" /\ value' = value /\ served' = served
      BY <2>c DEF Count, TypeOK
    <3>2. AnswerOf(r)' = "idle" /\ ans[r] \in {"miss", "idle"}
      BY <3>1 DEF AnswerOf
    <3>3. CASE ans[r] = "miss"
      BY <2>1, <2>a, <2>c, <3>1, <3>2, <3>3
    <3>4. CASE ans[r] = "idle"
      BY <2>1, <2>2, <2>c, <3>1, <3>2, <3>4
    <3> QED BY <3>2, <3>3, <3>4
  <2>d. ASSUME NEW r \in Requests, Observe(r) PROVE UNCHANGED Lookups!vars
    <3>1. /\ pc[r] = "answered" /\ pc'[r] = "done" /\ value' = value /\ served' = served
      BY <2>d DEF Observe, TypeOK
    <3>2. AnswerOf(r)' = AnswerOf(r)
      BY <3>1 DEF AnswerOf
    <3> QED BY <2>1, <2>2, <2>d, <3>1, <3>2
  <2> QED
    BY <2>3, <2>4, <2>5, <2>6, <2>8, <2>9, <2>b, <2>c, <2>d DEF Next
<1> QED BY <1>1, <1>2, ReadInvHolds, PTL DEF Spec, LookupsAreAtomic, Lookups!Spec
==============================================================================
