------------------------------ MODULE MCStartup ------------------------------
(***************************************************************************)
(* A run of Startup in a small world: what it is given is a run that       *)
(* serves with one group of its flags varied, on the command line, in the  *)
(* environment, or in both with different values.                          *)
(***************************************************************************)
EXTENDS Startup

CONSTANT Absent  \* a flag that is not given

Given(choice) == [f \in {f \in DOMAIN choice : choice[f] # Absent} |-> choice[f]]

Serves == [url |-> "http", allowlist |-> "directory"]

\* A group of flags on the line, over the rest of a run that serves.
OnLine(choices) == {[env |-> NoFlags, line |-> Given(c) @@ Serves] : c \in choices}

InBoth(choices) ==
  {[env |-> Given(e) @@ Serves, line |-> Given(l)] : e \in choices, l \in choices}

Reading == [readHeader : {Absent, -1, 0, 40}, read : {Absent, -1, 0, 5}]
Writing == [write : {Absent, Garbage, 0, 30, 40}, upstream : {Absent, -1, 0, 30, 40}]
Pooling == [perHost : {Absent, 0, 300}, maxIdle : {Absent, -1, 0, 64, 300},
            lifetime : {Absent, -1, 60}]
Secured == [url : {"http", "https"}, ca : {Absent, "authority", "empty"},
            cert : {Absent, "cert", "absent"}, key : {Absent, "key"}]
Named == [url : {Absent, "", "relative", "ftp", "credentials", "document"},
          allowlist : {Absent, "", "absent"}, control : {Absent, ""},
          hash : {Absent, "md5"}, ignore : {Absent, "inputs", "all"}]
Asked == [version : {Absent, TRUE}, help : {Absent, TRUE}, argument : {Absent, TRUE},
          url : {Absent, ""}, http2 : {Absent, Garbage, TRUE, FALSE}]
Bounded == [maxBody : {Absent, 0, 1}, maxBatch : {Absent, -1, 2}, depth : {Absent, -1, 5},
            level : {Absent, "loud"}, shutdown : {Absent, -1, 5}, idle : {Absent, -1, 0}]

MCSettings ==
  UNION {OnLine(Reading), OnLine(Pooling), OnLine(Secured), OnLine(Named), OnLine(Asked),
         OnLine(Bounded), InBoth(Writing)}
==============================================================================
