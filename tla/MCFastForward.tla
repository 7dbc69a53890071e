---- MODULE MCFastForward ----
(* Small instances of FastForward. *)
EXTENDS FastForward
CONSTANTS r1, r2, c1, c2
TwoRequests == {r1, r2}
OneContext == {c1}
TwoContexts == {c1, c2}
====
