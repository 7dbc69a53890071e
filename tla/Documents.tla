------------------------------ MODULE Documents -------------------------------
(***************************************************************************)
(* A document as Parse sees it on both levels: either its tokens, written  *)
(* in their canonical form, or the bytes of a token a scanner reads.       *)
(***************************************************************************)
EXTENDS Canonical, Scanner

\* No token arrives: the calls that leave the stage to a scanner.
Scanning == call.alphabet = {} /\ call.begins = <<>>

DocumentInit ==
  /\ CanonicalInit
  /\ IF Scanning THEN ScanInit ELSE source = NoSource /\ spelt = <<>>

DocumentNext ==
  \/ ~Scanning /\ CanonicalNext /\ UNCHANGED <<source, spelt>>
  \/ Scanning /\ Spell /\ UNCHANGED allVars

DocumentSpec == DocumentInit /\ [][DocumentNext]_<<allVars, source, spelt>>
==============================================================================
