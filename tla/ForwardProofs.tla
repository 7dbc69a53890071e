---------------------------- MODULE ForwardProofs -----------------------------
(***************************************************************************)
(* Theorems about Forward, for any requests and any pooled states.  A      *)
(* step is one request's, but for the drain watch, which may cancel        *)
(* another's context.                                                      *)
(***************************************************************************)
EXTENDS Forward, TLAPS

Actions(r) ==
  \/ \E s \in States : Begin(r, s)
  \/ Handler(r) \/ Upstream(r) \/ Runtime(r) \/ Transport(r) \/ ClientDoes(r)

LEMMA InitType == Init => TypeOK
<1> SUFFICES ASSUME Init PROVE TypeOK
  OBVIOUS
<1> USE DEF Init
<1>1. /\ pc \in [Requests -> {"idle"}]
      /\ st \in [Requests -> States \cup {"nowhere"}]
      /\ owner \in [States -> Requests \cup {"nobody"}]
      /\ cancelOf \in [States -> Requests \cup {"nobody"}]
      /\ body \in [States -> Requests \cup {"nobody"}]
  OBVIOUS
<1>2. /\ asked \in [Requests -> BOOLEAN]
      /\ decided \in [Requests -> BOOLEAN]
      /\ streamed \in [Requests -> BOOLEAN]
      /\ failed \in [Requests -> BOOLEAN]
      /\ bounded \in [Requests -> BOOLEAN]
      /\ broke \in [Requests -> BOOLEAN]
      /\ silent \in [Requests -> BOOLEAN]
  OBVIOUS
<1>3. failures \in [Requests -> Nat] /\ observed \in [Requests -> Nat]
  OBVIOUS
<1> QED
  BY <1>1, <1>2, <1>3 DEF TypeOK

LEMMA FailuresType ==
  ASSUME TypeOK, NEW r \in Requests, CountFailure(r)
  PROVE  failures' \in [Requests -> Nat]
  BY DEF TypeOK, CountFailure

LEMMA CauseType ==
  ASSUME TypeOK, NEW q, NEW why \in {"client", "timeout", "drain", "over"}
  PROVE  Cancelled(q, why) \in [Requests -> {"none", "client", "timeout", "drain", "over"}]
  BY DEF TypeOK, Cancelled

LEMMA FlagTypes ==
  ASSUME TypeOK, NEW r
  PROVE  /\ [failed EXCEPT ![r] = TRUE] \in [Requests -> BOOLEAN]
         /\ [decided EXCEPT ![r] = TRUE] \in [Requests -> BOOLEAN]
         /\ [streamed EXCEPT ![r] = TRUE] \in [Requests -> BOOLEAN]
         /\ [bounded EXCEPT ![r] = FALSE] \in [Requests -> BOOLEAN]
  BY DEF TypeOK

LEMMA NextType == TypeOK /\ [Next]_vars => TypeOK'
<1> SUFFICES ASSUME TypeOK, [Next]_vars PROVE TypeOK'
  OBVIOUS
<1> USE DEF pooled, writer, ghosts
<1>1. CASE StartDraining
  BY <1>1 DEF StartDraining, TypeOK
<1>2. ASSUME NEW r \in Requests, Actions(r) PROVE TypeOK'
  <2>1. ASSUME NEW s \in States, Begin(r, s) PROVE TypeOK'
    BY <2>1 DEF Begin, Goto, TypeOK
  <2>2. CASE Handler(r)
    <3>1. CASE RoundTripCancelled(r)
      BY <3>1 DEF RoundTripCancelled, Goto, TypeOK
    <3>2. CASE WriteHeader(r)
      <4>1. pc' = [pc EXCEPT ![r] = "copy"] /\ decided' = [decided EXCEPT ![r] = TRUE]
        BY <3>2 DEF WriteHeader, Goto
      <4>2. streamed' \in [Requests -> BOOLEAN] /\ bounded' \in [Requests -> BOOLEAN]
        <5>1. /\ streamed' = [streamed EXCEPT ![r] = TRUE] \/ streamed' = streamed
              /\ bounded' = [bounded EXCEPT ![r] = FALSE] \/ bounded' = bounded
          BY <3>2 DEF WriteHeader
        <5>2. streamed \in [Requests -> BOOLEAN] /\ bounded \in [Requests -> BOOLEAN]
          BY DEF TypeOK
        <5> QED BY <5>1, <5>2, FlagTypes, Zenon
      <4>3. observed' \in [Requests -> Nat]
        BY <3>2 DEF WriteHeader, TypeOK
      <4>4. /\ timer' \in [Requests -> {"off", "armed", "stopped", "expired", "ran"}]
            /\ watch' \in [Requests -> {"none", "armed", "stopped", "launched", "ran"}]
        BY <3>2 DEF WriteHeader, StopTimer, TypeOK
      <4> QED
        BY <3>2, <4>1, <4>2, <4>3, <4>4 DEF WriteHeader, TypeOK
    <3>3. CASE CopyCancelled(r)
      BY <3>3 DEF CopyCancelled, CopyStops, Goto, TypeOK
    <3>4. CASE HandleError(r)
      <4>1. failures' \in [Requests -> Nat]
        BY <3>4, FailuresType DEF HandleError, TypeOK
      <4>2. failed' \in [Requests -> BOOLEAN] /\ decided' \in [Requests -> BOOLEAN]
        <5>1. /\ failed' = [failed EXCEPT ![r] = TRUE]
              /\ decided' = [decided EXCEPT ![r] = TRUE] \/ decided' = decided
          BY <3>4 DEF HandleError
        <5>2. decided \in [Requests -> BOOLEAN]
          BY DEF TypeOK
        <5> QED BY <5>1, <5>2, FlagTypes, Zenon
      <4>3. pc' = [pc EXCEPT ![r] = "deferred"] \/ pc' = [pc EXCEPT ![r] = "handling"]
        BY <3>4 DEF HandleError
      <4> QED
        BY <3>4, <4>1, <4>2, <4>3 DEF HandleError, TypeOK
    <3>5. CASE HandleGone(r)
      BY <3>5 DEF HandleGone, Goto, TypeOK
    <3>6. CASE HandleFailure(r)
      BY <3>6, FailuresType DEF HandleFailure, Goto, TypeOK
    <3>7. CASE StopDraining(r)
      BY <3>7 DEF StopDraining, Goto, TypeOK
    <3>8. CASE Account(r)
      <4>1. failures' \in [Requests -> Nat]
        BY <3>8, FailuresType DEF Account, TypeOK
      <4>2. observed' \in [Requests -> Nat]
        BY <3>8 DEF Account, TypeOK
      <4>3. pc' = [pc EXCEPT ![r] = "counted"]
        BY <3>8 DEF Account, Goto
      <4> QED
        BY <3>8, <4>1, <4>2, <4>3 DEF Account, TypeOK
    <3>9. CASE Release(r)
      <4>1. cause' \in [Requests -> {"none", "client", "timeout", "drain", "over"}]
        BY <3>9, CauseType DEF Release, TypeOK
      <4> QED
        BY <3>9, <4>1 DEF Release, Goto, StopTimer, TypeOK
    <3> QED
      BY <2>2, <3>1, <3>2, <3>3, <3>4, <3>5, <3>6, <3>7, <3>8, <3>9 DEF Handler
  <2>3. CASE Upstream(r)
    <3>1. CASE Inform(r)
      BY <3>1 DEF Inform, TypeOK
    <3>2. ASSUME NEW k \in {"plain", "stream", "switch"}, Answer(r, k) PROVE TypeOK'
      BY <3>2 DEF Answer, Goto, TypeOK
    <3>3. CASE UpstreamFails(r)
      BY <3>3 DEF UpstreamFails, Goto, TypeOK
    <3>4. CASE CopyEnds(r)
      BY <3>4 DEF CopyEnds, CopyStops, Goto, TypeOK
    <3>5. CASE CopyBreaks(r)
      BY <3>5 DEF CopyBreaks, CopyStops, Goto, TypeOK
    <3> QED
      BY <2>3, <3>1, <3>2, <3>3, <3>4, <3>5 DEF Upstream
  <2>4. CASE Runtime(r)
    <3>1. CASE Expire(r)
      BY <3>1 DEF Expire, TypeOK
    <3>2. CASE CancelByTimeout(r)
      BY <3>2, CauseType DEF CancelByTimeout, TypeOK
    <3>3. CASE LaunchWatch(r)
      BY <3>3 DEF LaunchWatch, TypeOK
    <3>4. CASE RunWatch(r)
      <4>1. cause' \in [Requests -> {"none", "client", "timeout", "drain", "over"}]
        BY <3>4, CauseType DEF RunWatch, TypeOK
      <4>2. crashed' \in BOOLEAN /\ stray' \in BOOLEAN
        BY <3>4, Zenon DEF RunWatch, TypeOK
      <4> QED
        BY <3>4, <4>1, <4>2 DEF RunWatch, TypeOK
    <3>5. CASE WriteTimesOut(r)
      BY <3>5, CauseType DEF WriteTimesOut, Goto, TypeOK
    <3> QED
      BY <2>4, <3>1, <3>2, <3>3, <3>4, <3>5 DEF Runtime
  <2>5. CASE Transport(r)
    BY <2>5 DEF Transport, WriteBody, DropBody, TypeOK
  <2>6. CASE ClientDoes(r)
    <3>1. CASE ClientLeaves(r)
      BY <3>1, CauseType DEF ClientLeaves, TypeOK
    <3>2. CASE ClientStalls(r)
      BY <3>2 DEF ClientStalls, Goto, TypeOK
    <3>3. CASE ClientTakes(r)
      BY <3>3 DEF ClientTakes, Goto, TypeOK
    <3> QED
      BY <2>6, <3>1, <3>2, <3>3 DEF ClientDoes
  <2> QED
    BY <1>2, <2>1, <2>2, <2>3, <2>4, <2>5, <2>6 DEF Actions
<1>3. CASE UNCHANGED vars
  BY <1>3 DEF vars, TypeOK
<1> QED
  BY <1>1, <1>2, <1>3 DEF Next, Actions

\* Every variable has its type.
THEOREM TypeCorrect == Spec => []TypeOK
  BY InitType, NextType, PTL DEF Spec

-----------------------------------------------------------------------------
Relaying == {"idle", "roundtrip", "header", "copy", "blocked", "failed", "handling"}
Over == {"counted", "done"}

\* What is counted is counted at one place: the error handler sets failed, or the
\* deferred accounting finds it unset.
Counted(r) ==
  /\ failures[r] <= 1
  /\ pc[r] = "handling" => failed[r]
  /\ pc[r] \in Relaying \/ (~failed[r] /\ pc[r] \notin Over) => failures[r] = 0

\* What is timed is timed at one place: a stream at its headers, all else at the end.
Timed(r) ==
  /\ observed[r] = IF streamed[r] \/ pc[r] \in Over THEN 1 ELSE 0
  /\ pc[r] \in Relaying /\ ~Copying(r) => ~streamed[r]

\* Where the failure, and the cause that stands for it, come from.
Blamed(r) ==
  /\ cause[r] = "timeout" => timer[r] = "ran"
  /\ pc[r] = "idle" => timer[r] = "off"
  /\ pc[r] \in {"failed", "handling"} => broke[r] \/ cause[r] # "none"
  /\ failures[r] > 0 => broke[r] \/ timer[r] = "ran"

\* The bounds hold until the headers, and from there on but for streams.
Bounded(r) ==
  /\ pc[r] \in {"roundtrip", "header"} => bounded[r] /\ timer[r] # "stopped"
  /\ pc[r] \in Relaying /\ ~Copying(r) => ~decided[r]
  /\ Copying(r) =>
       IF IsStream(r)
       THEN streamed[r] /\ ~bounded[r] /\ timer[r] # "armed"
       ELSE ~streamed[r] /\ bounded[r] /\ timer[r] # "stopped"

ForwardInv(r) == Counted(r) /\ Timed(r) /\ Blamed(r) /\ Bounded(r)

Inv == \A r \in Requests : ForwardInv(r)

LEMMA InitInv == Init => Inv
  BY DEF Init, Inv, ForwardInv, Counted, Timed, Blamed, Bounded, Relaying, Over, Copying

\* Nothing a request's invariant speaks of changes, or its context is cancelled for
\* something else than the deadline.
Aside(r) ==
  /\ pc'[r] = pc[r] /\ asked'[r] = asked[r] /\ kind'[r] = kind[r]
  /\ decided'[r] = decided[r] /\ streamed'[r] = streamed[r] /\ failed'[r] = failed[r]
  /\ timer'[r] = timer[r] /\ bounded'[r] = bounded[r] /\ broke'[r] = broke[r]
  /\ failures'[r] = failures[r] /\ observed'[r] = observed[r]
  /\ \/ cause'[r] = cause[r]
     \/ cause[r] = "none" /\ cause'[r] \notin {"none", "timeout"}

LEMMA AsideKeeps ==
  ASSUME NEW r \in Requests, ForwardInv(r), Aside(r)
  PROVE  ForwardInv(r)'
  BY DEF ForwardInv, Aside, Counted, Timed, Blamed, Bounded, IsStream, Relaying, Over, Copying

\* A step of one request is aside of the others.
LEMMA OthersAside ==
  ASSUME TypeOK, NEW r \in Requests, Actions(r), NEW o \in Requests \ {r}
  PROVE  Aside(o)
<1> USE DEF Aside, TypeOK, pooled, writer, ghosts
<1>1. ASSUME NEW s \in States, Begin(r, s) PROVE Aside(o)
  BY <1>1 DEF Begin, Goto
<1>2. CASE Handler(r)
  <2>1. CASE RoundTripCancelled(r) \/ CopyCancelled(r) \/ HandleGone(r) \/ StopDraining(r)
    BY <2>1 DEF RoundTripCancelled, CopyCancelled, CopyStops, HandleGone, StopDraining, Goto
  <2>2. CASE WriteHeader(r)
    BY <2>2 DEF WriteHeader, Goto, StopTimer
  <2>3. CASE HandleError(r) \/ HandleFailure(r)
    BY <2>3 DEF HandleError, HandleFailure, CountFailure, Goto
  <2>4. CASE Account(r)
    BY <2>4 DEF Account, CountFailure, Goto
  <2>5. CASE Release(r)
    BY <2>5 DEF Release, Goto, StopTimer, Cancelled
  <2> QED
    BY <1>2, <2>1, <2>2, <2>3, <2>4, <2>5 DEF Handler
<1>3. CASE Upstream(r)
  BY <1>3 DEF Upstream, Inform, Answer, UpstreamFails, CopyEnds, CopyBreaks, CopyStops, Goto
<1>4. CASE Runtime(r)
  <2>1. CASE Expire(r) \/ CancelByTimeout(r) \/ LaunchWatch(r) \/ WriteTimesOut(r)
    BY <2>1 DEF Expire, CancelByTimeout, LaunchWatch, WriteTimesOut, Goto, Cancelled
  <2>2. CASE RunWatch(r)
    BY <2>2 DEF RunWatch, Cancelled
  <2> QED
    BY <1>4, <2>1, <2>2 DEF Runtime
<1>5. CASE Transport(r)
  BY <1>5 DEF Transport, WriteBody, DropBody
<1>6. CASE ClientDoes(r)
  BY <1>6 DEF ClientDoes, ClientLeaves, ClientStalls, ClientTakes, Goto, Cancelled
<1> QED
  BY <1>1, <1>2, <1>3, <1>4, <1>5, <1>6 DEF Actions

LEMMA OwnKeeps ==
  ASSUME TypeOK, NEW r \in Requests, ForwardInv(r), Actions(r)
  PROVE  ForwardInv(r)'
<1> USE DEF ForwardInv, Counted, Timed, Blamed, Bounded, IsStream, Relaying, Over, Copying,
            TypeOK, pooled, writer, ghosts
<1>1. ASSUME NEW s \in States, Begin(r, s) PROVE ForwardInv(r)'
  BY <1>1 DEF Begin, Goto
<1>2. CASE Handler(r)
  <2>1. CASE RoundTripCancelled(r)
    BY <2>1 DEF RoundTripCancelled, Goto
  <2>2. CASE WriteHeader(r)
    <3>1. CASE ~decided[r] /\ IsStream(r)
      BY <2>2, <3>1 DEF WriteHeader, Goto, StopTimer
    <3>2. CASE ~(~decided[r] /\ IsStream(r))
      BY <2>2, <3>2 DEF WriteHeader, Goto
    <3> QED BY <3>1, <3>2
  <2>3. CASE CopyCancelled(r)
    BY <2>3 DEF CopyCancelled, CopyStops, Goto
  <2>4. CASE HandleError(r)
    BY <2>4 DEF HandleError, CountFailure
  <2>5. CASE HandleGone(r)
    BY <2>5 DEF HandleGone, Goto
  <2>6. CASE HandleFailure(r)
    BY <2>6 DEF HandleFailure, CountFailure, Goto
  <2>7. CASE StopDraining(r)
    BY <2>7 DEF StopDraining, Goto
  <2>8. CASE Account(r)
    BY <2>8 DEF Account, CountFailure, Goto
  <2>9. CASE Release(r)
    BY <2>9 DEF Release, Goto, StopTimer, Cancelled
  <2> QED
    BY <1>2, <2>1, <2>2, <2>3, <2>4, <2>5, <2>6, <2>7, <2>8, <2>9 DEF Handler
<1>3. CASE Upstream(r)
  <2>1. CASE Inform(r)
    BY <2>1 DEF Inform
  <2>2. ASSUME NEW k \in {"plain", "stream", "switch"}, Answer(r, k) PROVE ForwardInv(r)'
    BY <2>2 DEF Answer, Goto
  <2>3. CASE UpstreamFails(r)
    BY <2>3 DEF UpstreamFails, Goto
  <2>4. CASE CopyEnds(r)
    BY <2>4 DEF CopyEnds, CopyStops, Goto
  <2>5. CASE CopyBreaks(r)
    BY <2>5 DEF CopyBreaks, CopyStops, Goto
  <2> QED
    BY <1>3, <2>1, <2>2, <2>3, <2>4, <2>5 DEF Upstream
<1>4. CASE Runtime(r)
  <2>1. CASE Expire(r)
    BY <2>1 DEF Expire
  <2>2. CASE CancelByTimeout(r)
    BY <2>2 DEF CancelByTimeout, Cancelled
  <2>3. CASE LaunchWatch(r)
    BY <2>3 DEF LaunchWatch
  <2>4. CASE RunWatch(r)
    <3>1. Aside(r)
      BY <2>4 DEF RunWatch, Cancelled, Aside
    <3> QED BY <3>1, AsideKeeps
  <2>5. CASE WriteTimesOut(r)
    BY <2>5 DEF WriteTimesOut, Goto, Cancelled
  <2> QED
    BY <1>4, <2>1, <2>2, <2>3, <2>4, <2>5 DEF Runtime
<1>5. CASE Transport(r)
  BY <1>5 DEF Transport, WriteBody, DropBody
<1>6. CASE ClientDoes(r)
  <2>1. CASE ClientLeaves(r)
    BY <2>1 DEF ClientLeaves, Cancelled
  <2>2. CASE ClientStalls(r)
    BY <2>2 DEF ClientStalls, Goto
  <2>3. CASE ClientTakes(r)
    BY <2>3 DEF ClientTakes, Goto
  <2> QED
    BY <1>6, <2>1, <2>2, <2>3 DEF ClientDoes
<1> QED
  BY <1>1, <1>2, <1>3, <1>4, <1>5, <1>6 DEF Actions

LEMMA NextInv == TypeOK /\ Inv /\ [Next]_vars => Inv'
<1> SUFFICES ASSUME TypeOK, Inv, [Next]_vars, NEW r \in Requests PROVE ForwardInv(r)'
  BY DEF Inv
<1>1. CASE StartDraining \/ UNCHANGED vars
  <2>1. Aside(r)
    BY <1>1 DEF StartDraining, vars, pooled, writer, ghosts, Aside
  <2> QED BY <2>1, AsideKeeps DEF Inv
<1>2. ASSUME NEW o \in Requests, Actions(o) PROVE ForwardInv(r)'
  BY <1>2, OthersAside, AsideKeeps, OwnKeeps DEF Inv
<1> QED
  BY <1>1, <1>2 DEF Next, Actions

LEMMA Invariance == Spec => []Inv
  BY InitInv, NextInv, TypeCorrect, PTL DEF Spec

-----------------------------------------------------------------------------
(* Forward implements Relay.                                               *)

Enters(r) ==
  pc[r] = "idle" /\ pc' = [pc EXCEPT ![r] = "roundtrip"] /\ UNCHANGED <<failures, observed>>

Goes(r) ==
  /\ pc[r] \notin {"idle", "done"}
  /\ \E to : to # "idle" /\ pc' = [pc EXCEPT ![r] = to]
  /\ UNCHANGED failures \/ CountFailure(r)
  /\ UNCHANGED observed \/ observed' = [observed EXCEPT ![r] = @ + 1]

Stays == UNCHANGED <<pc, failures, observed>>

LEMMA Moves ==
  ASSUME TypeOK, NEW r \in Requests, Actions(r)
  PROVE  Enters(r) \/ Goes(r) \/ Stays
<1> USE DEF Enters, Goes, Stays, Goto
<1>1. ASSUME NEW s \in States, Begin(r, s) PROVE Enters(r)
  BY <1>1 DEF Begin
<1>2. CASE Handler(r)
  <2>1. CASE RoundTripCancelled(r)
    BY <2>1 DEF RoundTripCancelled
  <2>2. CASE WriteHeader(r)
    BY <2>2 DEF WriteHeader
  <2>3. CASE CopyCancelled(r)
    BY <2>3 DEF CopyCancelled, CopyStops
  <2>4. CASE HandleError(r)
    BY <2>4 DEF HandleError
  <2>5. CASE HandleGone(r)
    BY <2>5 DEF HandleGone
  <2>6. CASE HandleFailure(r)
    BY <2>6 DEF HandleFailure
  <2>7. CASE StopDraining(r)
    BY <2>7 DEF StopDraining
  <2>8. CASE Account(r)
    <3>1. UNCHANGED observed \/ observed' = [observed EXCEPT ![r] = @ + 1]
      <4>1. CASE streamed[r]
        BY <2>8, <4>1 DEF Account, TypeOK
      <4>2. CASE ~streamed[r]
        BY <2>8, <4>2 DEF Account
      <4> QED BY <4>1, <4>2
    <3> QED BY <2>8, <3>1 DEF Account
  <2>9. CASE Release(r)
    BY <2>9 DEF Release
  <2> QED
    BY <1>2, <2>1, <2>2, <2>3, <2>4, <2>5, <2>6, <2>7, <2>8, <2>9 DEF Handler
<1>3. CASE Upstream(r)
  <2>1. CASE Inform(r)
    BY <2>1 DEF Inform
  <2>2. ASSUME NEW k \in {"plain", "stream", "switch"}, Answer(r, k) PROVE Goes(r)
    BY <2>2 DEF Answer
  <2>3. CASE UpstreamFails(r)
    BY <2>3 DEF UpstreamFails
  <2>4. CASE CopyEnds(r) \/ CopyBreaks(r)
    BY <2>4 DEF CopyEnds, CopyBreaks, CopyStops
  <2> QED
    BY <1>3, <2>1, <2>2, <2>3, <2>4 DEF Upstream
<1>4. CASE Runtime(r)
  BY <1>4 DEF Runtime, Expire, CancelByTimeout, LaunchWatch, RunWatch, WriteTimesOut
<1>5. CASE Transport(r)
  BY <1>5 DEF Transport, WriteBody, DropBody
<1>6. CASE ClientDoes(r)
  BY <1>6 DEF ClientDoes, ClientLeaves, ClientStalls, ClientTakes
<1> QED
  BY <1>1, <1>2, <1>3, <1>4, <1>5, <1>6 DEF Actions

PhaseOf == [r \in Requests |-> IF pc[r] = "idle" THEN "idle"
                               ELSE IF pc[r] = "done" THEN "over" ELSE "going"]

LEMMA EntersBegins ==
  ASSUME TypeOK, NEW r \in Requests, Enters(r) PROVE R!Begin(r)
<1>1. PhaseOf[r] = "idle" /\ PhaseOf' = [PhaseOf EXCEPT ![r] = "going"]
  BY DEF Enters, PhaseOf, TypeOK
<1> QED
  BY <1>1 DEF Enters, PhaseOf, R!Begin

LEMMA GoesProceeds ==
  ASSUME TypeOK, TypeOK', NEW r \in Requests, ForwardInv(r)', Goes(r) PROVE R!Proceed(r)
<1>1. PICK to : to # "idle" /\ pc' = [pc EXCEPT ![r] = to]
  BY DEF Goes
<1>2. PhaseOf[r] = "going"
  BY DEF Goes, PhaseOf
<1>3. PhaseOf' = PhaseOf \/ (to = "done" /\ PhaseOf' = [PhaseOf EXCEPT ![r] = "over"])
  <2>1. r \in DOMAIN pc /\ \A q \in Requests \ {r} : pc'[q] = pc[q]
    BY <1>1 DEF TypeOK
  <2>2. \A q \in Requests \ {r} : PhaseOf'[q] = PhaseOf[q]
    BY <2>1 DEF PhaseOf
  <2>3. PhaseOf'[r] = IF to = "done" THEN "over" ELSE "going"
    BY <1>1, <2>1 DEF PhaseOf
  <2>4. PhaseOf = [q \in Requests |-> PhaseOf[q]] /\ PhaseOf' = [q \in Requests |-> PhaseOf'[q]]
    BY DEF PhaseOf
  <2>5. CASE to = "done"
    BY <2>2, <2>3, <2>4, <2>5
  <2>6. CASE to # "done"
    BY <1>2, <2>2, <2>3, <2>4, <2>6
  <2> QED BY <2>5, <2>6
<1>4. failures'[r] <= 1 /\ observed'[r] <= 1 /\ (to = "done" => observed'[r] = 1)
  BY <1>1 DEF ForwardInv, Counted, Timed, Over, TypeOK
<1>5. \E f \in {0, 1} : failures' = [failures EXCEPT ![r] = @ + f]
  BY DEF Goes, CountFailure, TypeOK
<1>6. \E o \in {0, 1} : observed' = [observed EXCEPT ![r] = @ + o]
  BY DEF Goes, TypeOK
<1> QED
  BY <1>2, <1>3, <1>4, <1>5, <1>6 DEF PhaseOf, R!Proceed

LEMMA NextRelays == TypeOK /\ TypeOK' /\ Inv' /\ [Next]_vars => [R!Next]_R!vars
<1> SUFFICES ASSUME TypeOK, TypeOK', Inv', [Next]_vars PROVE [R!Next]_R!vars
  OBVIOUS
<1>1. CASE Stays
  BY <1>1 DEF Stays, R!vars
<1>2. CASE StartDraining \/ UNCHANGED vars
  BY <1>1, <1>2 DEF StartDraining, vars, Stays
<1>3. ASSUME NEW r \in Requests, Actions(r) PROVE [R!Next]_R!vars
  <2>1. CASE Enters(r)
    BY <2>1, EntersBegins DEF R!Next
  <2>2. CASE Goes(r)
    BY <2>2, GoesProceeds DEF R!Next, Inv
  <2> QED
    BY <1>1, <1>3, <2>1, <2>2, Moves
<1> QED
  BY <1>2, <1>3 DEF Next, Actions

\* What is counted and timed of a forward is what either data plane promises: a failure
\* once, though the error handler and the deferred accounting both may, and the time
\* once (proxy.go:279-281, 450-456, stream.go:66-70).
THEOREM KeepsRelay == Spec => RelaySpec
<1>1. Init => R!Init
  BY DEF Init, R!Init
<1> QED
  BY <1>1, NextRelays, TypeCorrect, Invariance, PTL DEF Spec, RelaySpec, R!Spec

-----------------------------------------------------------------------------
\* A counted upstream failure is the upstream's, or the deadline's (proxy.go:295).
THEOREM FailureBlamed == Spec => []FailureIsUpstreams
<1>1. Inv => FailureIsUpstreams
  BY DEF Inv, ForwardInv, Blamed, FailureIsUpstreams
<1> QED BY <1>1, Invariance, PTL

\* An event stream that was asked for, and nothing else, loses its bounds (stream.go:84-105).
THEOREM StreamsReleased == Spec => []StreamReleased
<1>1. Inv => StreamReleased
  BY DEF Inv, ForwardInv, Bounded, IsStream, Copying, StreamReleased
<1> QED BY <1>1, Invariance, PTL
==============================================================================
