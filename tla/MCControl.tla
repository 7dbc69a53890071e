------------------------------ MODULE MCControl -------------------------------
(***************************************************************************)
(* Small instances of Control: "a" and "a2" share a hash, the schema takes *)
(* "a" and "b", and "bad" does not parse.  Either two requests to reload   *)
(* race over a directory that is edited under them, or scrapes run beside  *)
(* a reload and two lookups.                                               *)
(***************************************************************************)
EXTENDS Control

CONSTANTS a, a2, b, bad, ka, kb, start, l1, l2, status, metrics

MCDocs == {a, a2, b, bad}
MCParses == {a, a2, b}
MCTaken == {a, b}
MCKeys == {ka, kb}
MCHashOf == [d \in MCDocs |-> IF d = b THEN kb ELSE ka]
MCLoaders == {start, l1, l2}
MCScrapers == [s \in {status, metrics} |-> IF s = status THEN "status" ELSE "metrics"]

Bound(callers, e, l, r, scrapers, contents, schemas) ==
  [callers |-> callers, edits |-> e, reloads |-> l, lookups |-> r, scrapers |-> scrapers,
   contents |-> contents, schemas |-> schemas]

\* Two callers race; one load of every directory; a lookup, then scrapes, beside a load of
\* a directory that changed; scrapes beside lookups.
MCBounds ==
  {Bound({l1, l2}, 1, 3, 0, {}, {a, b}, {"none"}),
   Bound({}, 1, 1, 0, {}, Contents, Schemas),
   Bound({l1}, 1, 2, 1, {}, {a, "absent"}, {"none"}),
   Bound({l1}, 1, 2, 0, {metrics}, {a, "absent"}, {"none"}),
   Bound({l1}, 0, 2, 2, {metrics}, {a, "absent"}, {"none"}),
   Bound({l1}, 0, 2, 1, {status}, {a, "absent"}, {"none"})}
==============================================================================
