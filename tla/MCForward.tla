------------------------------ MODULE MCForward ------------------------------
(* Small instances of Forward. *)
EXTENDS Forward

CONSTANTS r1, r2, s1

OneRequest  == {r1}
TwoRequests == {r1, r2}
OneState    == {s1}

==============================================================================
