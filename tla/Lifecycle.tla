------------------------------ MODULE Lifecycle ------------------------------
(***************************************************************************)
(* internal/app/proxy/run.go, serveOn with the signals of RunWith: a run   *)
(* serves requests on the data plane and scrapes on the control plane      *)
(* until a signal ends its context or the data plane fails, then lets both *)
(* go within -server.shutdown-timeout.                                     *)
(*                                                                         *)
(* The two servers are external: Serve takes requests until Shutdown or    *)
(* until its listener fails; Shutdown closes the listener and returns when *)
(* nothing is in flight, or with an error once its context is done.  What  *)
(* serves a request is Forward's and FastForward's, an event stream that   *)
(* was told to end among it; here it ends at some time or never, so that a *)
(* stream may outlast the drain, as one does whose client takes nothing.   *)
(***************************************************************************)
EXTENDS Integers, FiniteSets

CONSTANTS
  Exchanges,  \* requests to the data plane, answered once or by an event stream
  Scrapes     \* requests to the control server

ASSUME PlanesApart == Exchanges \cap Scrapes = {}

MaxSignals == 2  \* bound: more signals than two show nothing new

Planes == {"data", "control"}
Of(plane) == IF plane = "data" THEN Exchanges ELSE Scrapes
Requests == Of("data") \cup Of("control")

VARIABLES
  pc,        \* where serveOn is; "killed" once a signal took the process
  server,    \* the goroutine serving each plane
  shut,      \* planes Shutdown was called on
  errServe,  \* an error is in the channel
  failed,    \* serveOn's failed
  code,      \* the exit code, 2 until there is one
  deadline,  \* the context of the shutdown
  draining,  \* proxy.StartDraining was called
  ctxDone,   \* the context of the run
  signals,   \* signals that arrived
  restored,  \* stop() ran: the next signal kills
  at         \* where each request is

vars == <<pc, server, shut, errServe, failed, code, deadline, draining, ctxDone, signals,
          restored, at>>

Alive == pc \notin {"exited", "killed"}

InFlight(plane) == {r \in Of(plane) : at[r] = "inflight"}

Accepting(plane) == server[plane] = "serving" /\ plane \notin shut

Init ==
  /\ pc = "listen"
  /\ server = [data |-> "starting", control |-> "off"]
  /\ shut = {} /\ errServe = FALSE /\ failed = FALSE /\ code = 2
  /\ deadline = "none" /\ draining = FALSE
  /\ ctxDone = FALSE /\ signals = 0 /\ restored = FALSE
  /\ at = [r \in Requests |-> "client"]

-----------------------------------------------------------------------------
(* serveOn.                                                                *)

ListenControl ==
  /\ pc = "listen" /\ pc' = "serving"
  /\ server' = [server EXCEPT !.control = "starting"]
  /\ UNCHANGED <<shut, errServe, failed, code, deadline, draining, ctxDone, signals,
                 restored, at>>

\* The control address is taken: the data plane is given a second.
ListenControlFails ==
  /\ pc = "listen" /\ pc' = "early"
  /\ shut' = {"data"}
  /\ deadline' = "running"
  /\ UNCHANGED <<server, errServe, failed, code, draining, ctxDone, signals, restored, at>>

GivenUp(plane) == InFlight(plane) # {} /\ deadline = "expired"

\* Shutdown of the plane returns.
Returns(plane) == InFlight(plane) = {} \/ GivenUp(plane)

\* Mutant: the exit code of a wrong flag.
EarlyReturnUsage ==
  /\ pc = "early" /\ pc' = "exited"
  /\ Returns("data")
  /\ code' = 2
  /\ UNCHANGED <<server, shut, errServe, failed, deadline, draining, ctxDone, signals,
                 restored, at>>

EarlyReturn ==
  /\ pc = "early" /\ pc' = "exited"
  /\ Returns("data")
  /\ code' = 1
  /\ UNCHANGED <<server, shut, errServe, failed, deadline, draining, ctxDone, signals,
                 restored, at>>

\* Mutant: a run that is told to stop reports it as a failure.
NoticeFails ==
  /\ pc = "serving" /\ pc' = "draining"
  /\ errServe \/ ctxDone
  /\ failed' = TRUE
  /\ UNCHANGED <<server, shut, errServe, code, deadline, draining, ctxDone, signals,
                 restored, at>>

\* Mutant: an error of the data plane is not waited for.
NoticeSignal ==
  /\ pc = "serving" /\ pc' = "draining"
  /\ ctxDone /\ UNCHANGED failed
  /\ UNCHANGED <<server, shut, errServe, code, deadline, draining, ctxDone, signals,
                 restored, at>>

\* The select: either of two ready cases.
Notice ==
  /\ pc = "serving" /\ pc' = "draining"
  /\ \/ errServe /\ failed' = TRUE
     \/ ctxDone /\ UNCHANGED failed
  /\ UNCHANGED <<server, shut, errServe, code, deadline, draining, ctxDone, signals,
                 restored, at>>

\* Mutant: the streams are left to themselves.
DrainNothing ==
  /\ pc = "draining" /\ pc' = "control"
  /\ deadline' = "running"
  /\ shut' = shut \cup {"control"}
  /\ UNCHANGED <<server, errServe, failed, code, draining, ctxDone, signals, restored, at>>

\* Mutant: the data plane goes first.
DrainDataFirst ==
  /\ pc = "draining" /\ pc' = "control"
  /\ draining' = TRUE
  /\ deadline' = "running"
  /\ shut' = shut \cup {"data"}
  /\ UNCHANGED <<server, errServe, failed, code, ctxDone, signals, restored, at>>

\* The streams are told to end, the clock starts, the control server is shut down.
Drain ==
  /\ pc = "draining" /\ pc' = "control"
  /\ draining' = TRUE
  /\ deadline' = "running"
  /\ shut' = shut \cup {"control"}
  /\ UNCHANGED <<server, errServe, failed, code, ctxDone, signals, restored, at>>

\* Mutant: the error of the control server's Shutdown is dropped.
ControlDownForgets ==
  /\ pc = "control" /\ pc' = "data"
  /\ Returns("control")
  /\ shut' = shut \cup {"data"}
  /\ UNCHANGED <<server, errServe, failed, code, deadline, draining, ctxDone, signals,
                 restored, at>>

ControlDown ==
  /\ pc = "control" /\ pc' = "data"
  /\ Returns("control")
  /\ failed' = (failed \/ GivenUp("control"))
  /\ shut' = shut \cup {"data"}
  /\ UNCHANGED <<server, errServe, code, deadline, draining, ctxDone, signals, restored,
                 at>>

DataDown ==
  /\ pc = "data" /\ pc' = "exited"
  /\ Returns("data")
  /\ failed' = (failed \/ GivenUp("data"))
  /\ code' = IF failed' THEN 1 ELSE 0
  /\ UNCHANGED <<server, shut, errServe, deadline, draining, ctxDone, signals, restored,
                 at>>

-----------------------------------------------------------------------------
(* The servers.                                                            *)

Serve(plane) ==
  /\ Alive
  /\ server[plane] = "starting"
  /\ server' = [server EXCEPT ![plane] = IF plane \in shut THEN "closed" ELSE "serving"]
  /\ UNCHANGED <<pc, shut, errServe, failed, code, deadline, draining, ctxDone, signals,
                 restored, at>>

\* A listener fails.  The control server's error is logged and no more.
ServeFails(plane) ==
  /\ Alive
  /\ Accepting(plane)
  /\ server' = [server EXCEPT ![plane] = "failed"]
  /\ errServe' = (errServe \/ plane = "data")
  /\ UNCHANGED <<pc, shut, failed, code, deadline, draining, ctxDone, signals, restored, at>>

Arrive(r) ==
  /\ Alive
  /\ at[r] = "client"
  /\ \E plane \in Planes : r \in Of(plane) /\ Accepting(plane)
  /\ at' = [at EXCEPT ![r] = "inflight"]
  /\ UNCHANGED <<pc, server, shut, errServe, failed, code, deadline, draining, ctxDone,
                 signals, restored>>

Finish(r) ==
  /\ Alive
  /\ at[r] = "inflight"
  /\ at' = [at EXCEPT ![r] = "answered"]
  /\ UNCHANGED <<pc, server, shut, errServe, failed, code, deadline, draining, ctxDone,
                 signals, restored>>

\* Real time: the timer runs out when it does, a timeout of 0 at once.
Expire ==
  /\ Alive
  /\ deadline = "running"
  /\ deadline' = "expired"
  /\ UNCHANGED <<pc, server, shut, errServe, failed, code, draining, ctxDone, signals,
                 restored, at>>

-----------------------------------------------------------------------------
(* Signals: the first ends the context, and one after stop() ran kills.    *)

Signal ==
  /\ Alive
  /\ signals < MaxSignals
  /\ signals' = signals + 1
  /\ IF restored
     THEN pc' = "killed" /\ UNCHANGED ctxDone
     ELSE ctxDone' = TRUE /\ UNCHANGED pc
  /\ UNCHANGED <<server, shut, errServe, failed, code, deadline, draining, restored, at>>

RestoreSignals ==
  /\ Alive
  /\ ctxDone /\ ~restored
  /\ restored' = TRUE
  /\ UNCHANGED <<pc, server, shut, errServe, failed, code, deadline, draining, ctxDone,
                 signals, at>>

-----------------------------------------------------------------------------
Main ==
  \/ ListenControl \/ ListenControlFails \/ EarlyReturn
  \/ Notice \/ Drain \/ ControlDown \/ DataDown

Next ==
  \/ Main
  \/ \E plane \in Planes : Serve(plane) \/ ServeFails(plane)
  \/ \E r \in Requests : Arrive(r) \/ Finish(r)
  \/ Expire \/ Signal \/ RestoreSignals

Spec == Init /\ [][Next]_vars

-----------------------------------------------------------------------------
\* Every variable has its type, and a run that is over has an exit code of its own:
\* 0 or 1, where 2 is what a wrong flag is answered with (run.go:271, 332-335).
TypeOK ==
  /\ pc \in {"listen", "early", "serving", "draining", "control", "data", "exited", "killed"}
  /\ server \in [Planes -> {"off", "starting", "serving", "closed", "failed"}]
  /\ shut \subseteq Planes
  /\ errServe \in BOOLEAN /\ failed \in BOOLEAN
  /\ code \in IF pc = "exited" THEN 0..1 ELSE {2}
  /\ deadline \in {"none", "running", "expired"}
  /\ draining \in BOOLEAN /\ ctxDone \in BOOLEAN /\ restored \in BOOLEAN
  /\ signals \in 0..MaxSignals
  /\ at \in [Requests -> {"client", "inflight", "answered"}]

\* A request, or a scrape, that is still in flight when the process exits was waited for
\* until the deadline, and the exit code tells (run.go:322-339).
AbandonedIsTold ==
  pc = "exited" /\ (\E r \in Requests : at[r] = "inflight") =>
    deadline = "expired" /\ code = 1

\* A run fails for a server, or for a drain that took its whole time: one that was told
\* to stop, and is done with its requests in that time, is a success (run.go:301-339).
FailuresHaveCause ==
  pc = "exited" /\ code = 1 =>
    server["control"] = "off" \/ server["data"] = "failed" \/ deadline = "expired"

\* The exit code tells whether the drain left anyone behind (run.go:301-339).
ExitTellsTheDrain == AbandonedIsTold /\ FailuresHaveCause

\* The streams are told to end before a Shutdown begins to wait (run.go:314-318), and the
\* control server, which a probe asks, goes away before the traffic port does
\* (cmd/gqlhash-proxy/README.md:92): while the data plane is shut, no scrape is taken.  A
\* run that never had its control server has served nothing.
ShutInOrder ==
  /\ shut # {} /\ server["control"] # "off" => draining
  /\ "data" \in shut => ~Accepting("control")
==============================================================================
