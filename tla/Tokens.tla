-------------------------------- MODULE Tokens --------------------------------
(***************************************************************************)
(* The tokens of a GraphQL document, as far as its structure depends on    *)
(* them.  Keywords are names like any other.  "ignored" stands for the     *)
(* Ignored tokens between two others, "broken" for bytes that begin none.  *)
(***************************************************************************)
Operations == {"query", "mutation", "subscription"}
Literals == {"null", "true", "false"}
Keywords == Operations \cup Literals \cup {"fragment", "on"}
Names == Keywords \cup {"a", "b"}
Values == {"1", "1.5", "str"}
Punctuators == {"{", "}", "(", ")", "[", "]", ":", "=", "!", "@", "$", "..."}
Tokens == Names \cup Values \cup Punctuators \cup {"ignored", "broken"}
==============================================================================
