-------------------------------- MODULE Relay --------------------------------
(***************************************************************************)
(* What either data plane promises of one allowed request, whichever HTTP  *)
(* stack carries it: the counters of internal/app/proxy move once for a    *)
(* request the upstream failed, the request is timed once, both before it  *)
(* is over, and nothing about it is counted from then on.                  *)
(***************************************************************************)
EXTENDS Integers

CONSTANT Requests

VARIABLES
  phase,     \* "idle", "going" or "over"
  failures,  \* times the request raised counters.upstream
  observed   \* times metrics.Observe ran for it

vars == <<phase, failures, observed>>

Init ==
  /\ phase = [r \in Requests |-> "idle"]
  /\ failures = [r \in Requests |-> 0]
  /\ observed = [r \in Requests |-> 0]

Begin(r) ==
  /\ phase[r] = "idle"
  /\ phase' = [phase EXCEPT ![r] = "going"]
  /\ UNCHANGED <<failures, observed>>

\* One step may count a failure, time the request, and end it once it is timed.
Proceed(r) ==
  /\ phase[r] = "going"
  /\ \E f, o \in {0, 1} :
       /\ failures' = [failures EXCEPT ![r] = @ + f]
       /\ observed' = [observed EXCEPT ![r] = @ + o]
  /\ failures'[r] <= 1
  /\ observed'[r] <= 1
  /\ \/ UNCHANGED phase
     \/ observed'[r] = 1 /\ phase' = [phase EXCEPT ![r] = "over"]

Next == \E r \in Requests : Begin(r) \/ Proceed(r)

Spec == Init /\ [][Next]_vars
==============================================================================
