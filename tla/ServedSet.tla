------------------------------ MODULE ServedSet ------------------------------
(***************************************************************************)
(* What the allowlist promises the handlers that look a document up while  *)
(* it is being reloaded (internal/allowlist): one set of keys is served at *)
(* any moment, a reload replaces the whole of it in one step, and a lookup *)
(* is answered from the set served at one moment between its call and its  *)
(* return.                                                                 *)
(***************************************************************************)
EXTENDS Integers

CONSTANTS
  Keys,      \* hashes of canonical forms
  Readers    \* calls of Allowlist.Allowed that may be in flight at once

VARIABLES
  served,    \* the keys a lookup finds now
  asked,     \* the key each reader looks up
  answer     \* "idle", "waiting", or what the lookup found

vars == <<served, asked, answer>>

Init ==
  /\ served = {}
  /\ asked \in [Readers -> Keys]
  /\ answer = [r \in Readers |-> "idle"]

Replace ==
  /\ served' \in SUBSET Keys
  /\ UNCHANGED <<asked, answer>>

Ask(r) ==
  /\ answer[r] = "idle"
  /\ \E k \in Keys : asked' = [asked EXCEPT ![r] = k]
  /\ answer' = [answer EXCEPT ![r] = "waiting"]
  /\ UNCHANGED served

Answer(r) ==
  /\ answer[r] = "waiting"
  /\ answer' = [answer EXCEPT ![r] = IF asked[r] \in served THEN "hit" ELSE "miss"]
  /\ UNCHANGED <<served, asked>>

Leave(r) ==
  /\ answer[r] \in {"hit", "miss"}
  /\ answer' = [answer EXCEPT ![r] = "idle"]
  /\ UNCHANGED <<served, asked>>

Next == Replace \/ \E r \in Readers : Ask(r) \/ Answer(r) \/ Leave(r)

Spec == Init /\ [][Next]_vars
==============================================================================
