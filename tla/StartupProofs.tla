----------------------------- MODULE StartupProofs ----------------------------
(***************************************************************************)
(* Theorems about Lifecycle, for any requests and scrapes, and             *)
(* about Startup, for any settings: what is proved of Lifecycle holds of a *)
(* run from its first step on, and a run that is accepted has what it was  *)
(* given.                                                                  *)
(***************************************************************************)
EXTENDS Startup, TLAPS

LEMMA InitType == Init => TypeOK
<1> SUFFICES ASSUME Init PROVE TypeOK
  OBVIOUS
<1>1. server \in [Planes -> {"off", "starting", "serving", "closed", "failed"}]
  BY DEF Init, Planes
<1>2. signals \in 0..MaxSignals
  BY DEF Init, MaxSignals
<1> QED
  BY <1>1, <1>2 DEF Init, TypeOK

LEMMA NextType == TypeOK /\ [Next]_vars => TypeOK'
<1> SUFFICES ASSUME TypeOK, [Next]_vars PROVE TypeOK'
  OBVIOUS
<1> USE DEF TypeOK, Planes, Alive, MaxSignals
<1>1. CASE ListenControl
  BY <1>1 DEF ListenControl
<1>2. CASE ListenControlFails
  BY <1>2 DEF ListenControlFails
<1>3. CASE EarlyReturn
  BY <1>3 DEF EarlyReturn
<1>4. CASE Notice
  BY <1>4 DEF Notice
<1>5. CASE Drain
  BY <1>5 DEF Drain
<1>6. CASE ControlDown
  BY <1>6 DEF ControlDown, GivenUp
<1>7. CASE DataDown
  BY <1>7 DEF DataDown, GivenUp
<1>8. ASSUME NEW plane \in Planes, Serve(plane) PROVE TypeOK'
  BY <1>8 DEF Serve
<1>9. ASSUME NEW plane \in Planes, ServeFails(plane) PROVE TypeOK'
  BY <1>9 DEF ServeFails
<1>10. ASSUME NEW r \in Requests, Arrive(r) PROVE TypeOK'
  BY <1>10 DEF Arrive
<1>11. ASSUME NEW r \in Requests, Finish(r) PROVE TypeOK'
  BY <1>11 DEF Finish
<1>12. CASE Expire
  BY <1>12 DEF Expire
<1>13. CASE Signal
  <2>1. signals' \in 0..MaxSignals
    BY <1>13 DEF Signal
  <2>2. pc' \in {pc, "killed"} /\ pc # "exited" /\ ctxDone' \in BOOLEAN
    BY <1>13 DEF Signal
  <2>3. code' = 2 /\ pc' # "exited"
    BY <1>13, <2>2 DEF Signal
  <2> QED BY <1>13, <2>1, <2>2, <2>3 DEF Signal
<1>14. CASE RestoreSignals
  BY <1>14 DEF RestoreSignals
<1>15. CASE UNCHANGED vars
  BY <1>15 DEF vars
<1> QED
  BY <1>1, <1>2, <1>3, <1>4, <1>5, <1>6, <1>7, <1>8, <1>9, <1>10, <1>11, <1>12, <1>13,
     <1>14, <1>15 DEF Next, Main

\* Every variable has its type, and a run that is over has an exit code of its own
\* (run.go:271, 332-335).
THEOREM TypeCorrect == Spec => []TypeOK
  BY InitType, NextType, PTL DEF Spec

-----------------------------------------------------------------------------
\* What is shut down when, where the control server is off, and that the streams were told
\* before.
Order ==
  /\ pc \in {"listen", "serving", "draining"} => shut = {}
  /\ pc \in {"listen", "early"} => server["control"] = "off"
  /\ pc = "control" => shut = {"control"}
  /\ pc = "data" => shut = Planes
  /\ pc \notin {"listen", "early", "exited", "killed"} => server["control"] # "off"
  /\ "data" \in shut => "control" \in shut \/ server["control"] = "off"
  /\ shut # {} /\ server["control"] # "off" => draining

LEMMA InitOrder == Init => Order
  BY DEF Init, Order

LEMMA NextOrder == TypeOK /\ Order /\ [Next]_vars => Order'
<1> SUFFICES ASSUME TypeOK, Order, [Next]_vars PROVE Order'
  OBVIOUS
<1> USE DEF TypeOK, Order, Planes
<1>1. CASE ListenControl
  BY <1>1 DEF ListenControl
<1>2. CASE ListenControlFails
  BY <1>2 DEF ListenControlFails
<1>3. CASE EarlyReturn
  BY <1>3 DEF EarlyReturn
<1>4. CASE Notice
  BY <1>4 DEF Notice
<1>5. CASE Drain
  BY <1>5 DEF Drain
<1>6. CASE ControlDown
  BY <1>6 DEF ControlDown
<1>7. CASE DataDown
  BY <1>7 DEF DataDown
<1>8. ASSUME NEW plane \in Planes, Serve(plane) PROVE Order'
  BY <1>8 DEF Serve
<1>9. ASSUME NEW plane \in Planes, ServeFails(plane) PROVE Order'
  BY <1>9 DEF ServeFails, Accepting
<1>10. ASSUME NEW r \in Requests, Arrive(r) PROVE Order'
  BY <1>10 DEF Arrive
<1>11. ASSUME NEW r \in Requests, Finish(r) PROVE Order'
  BY <1>11 DEF Finish
<1>12. CASE Expire
  BY <1>12 DEF Expire
<1>13. CASE Signal
  BY <1>13 DEF Signal, Alive
<1>14. CASE RestoreSignals
  BY <1>14 DEF RestoreSignals
<1>15. CASE UNCHANGED vars
  BY <1>15 DEF vars
<1> QED
  BY <1>1, <1>2, <1>3, <1>4, <1>5, <1>6, <1>7, <1>8, <1>9, <1>10, <1>11, <1>12, <1>13,
     <1>14, <1>15 DEF Next, Main

\* The streams are told before a Shutdown waits, and the control server goes away before
\* the traffic port does, or was never there (run.go:314-322,
\* cmd/gqlhash-proxy/README.md:92).
THEOREM ControlFirst == Spec => []ShutInOrder
<1>1. Order => ShutInOrder
  BY DEF Order, ShutInOrder, Accepting
<1> QED
  BY <1>1, InitOrder, NextOrder, TypeCorrect, PTL DEF Spec

-----------------------------------------------------------------------------
\* A plane that was let go has nothing in flight, or what it has was waited for until
\* the deadline and will be told.
LetGo(plane) == InFlight(plane) # {} => deadline = "expired" /\ failed

Told ==
  /\ server["control"] = "off" => InFlight("control") = {}
  /\ pc = "data" => LetGo("control")
  /\ AbandonedIsTold

LEMMA InitTold == Init => Told
  BY DEF Init, Told, AbandonedIsTold, InFlight, Of, Requests

\* A plane that takes no requests gets none.
LEMMA NoneArrive ==
  ASSUME NEW r \in Requests, NEW plane \in Planes, Arrive(r), ~Accepting(plane)
  PROVE  InFlight(plane)' = InFlight(plane)
<1>1. PICK other \in Planes : r \in Of(other) /\ Accepting(other)
  BY DEF Arrive
<1>2. r \notin Of(plane)
  BY <1>1, PlanesApart DEF Of, Planes
<1> QED
  BY <1>2 DEF Arrive, InFlight

LEMMA NextTold == TypeOK /\ Order /\ Told /\ [Next]_vars => Told'
<1> SUFFICES ASSUME TypeOK, Order, Told, [Next]_vars PROVE Told'
  OBVIOUS
<1> USE DEF Told, LetGo, AbandonedIsTold
<1>1. CASE ListenControl
  BY <1>1 DEF ListenControl, InFlight, TypeOK, Planes
<1>2. CASE ListenControlFails
  BY <1>2 DEF ListenControlFails, InFlight
<1>3. CASE EarlyReturn
  <2>1. InFlight("control") = {}
    BY <1>3 DEF EarlyReturn, Order
  <2>2. \A r \in Requests : at[r] = "inflight" => r \in InFlight("data")
    BY <2>1 DEF InFlight, Requests
  <2>3. InFlight("control")' = InFlight("control")
    BY <1>3 DEF EarlyReturn, InFlight
  <2> QED
    BY <1>3, <2>1, <2>2, <2>3 DEF EarlyReturn, Returns, GivenUp
<1>4. CASE Notice
  BY <1>4 DEF Notice, InFlight
<1>5. CASE Drain
  BY <1>5 DEF Drain, InFlight
<1>6. CASE ControlDown
  <2>1. InFlight("control")' = InFlight("control")
    BY <1>6 DEF ControlDown, InFlight
  <2> QED
    BY <1>6, <2>1 DEF ControlDown, Returns, GivenUp, Order
<1>7. CASE DataDown
  <2>1. InFlight("control")' = InFlight("control")
    BY <1>7 DEF DataDown, InFlight
  <2>2. \A r \in Requests : at[r] = "inflight" =>
          r \in InFlight("data") \/ r \in InFlight("control")
    BY DEF InFlight, Requests
  <2> QED
    BY <1>7, <2>1, <2>2 DEF DataDown, Returns, GivenUp, Order
<1>8. ASSUME NEW plane \in Planes, Serve(plane) PROVE Told'
  BY <1>8 DEF Serve, InFlight, TypeOK, Planes, Alive
<1>9. ASSUME NEW plane \in Planes, ServeFails(plane) PROVE Told'
  BY <1>9 DEF ServeFails, InFlight, TypeOK, Planes, Alive
<1>10. ASSUME NEW r \in Requests, Arrive(r) PROVE Told'
  <2>1. server["control"] = "off" \/ pc = "data" => ~Accepting("control")
    BY DEF Accepting, Order, Planes
  <2>2. server["control"] = "off" \/ pc = "data" => InFlight("control")' = InFlight("control")
    BY <1>10, <2>1, NoneArrive DEF Planes
  <2> QED
    BY <1>10, <2>2 DEF Arrive, Alive
<1>11. ASSUME NEW r \in Requests, Finish(r) PROVE Told'
  <2>1. InFlight("control")' \subseteq InFlight("control")
    BY <1>11 DEF Finish, InFlight, TypeOK
  <2> QED
    BY <1>11, <2>1 DEF Finish, Alive
<1>12. CASE Expire
  BY <1>12 DEF Expire, InFlight, Alive
<1>13. CASE Signal
  BY <1>13 DEF Signal, InFlight, Alive
<1>14. CASE RestoreSignals
  BY <1>14 DEF RestoreSignals, InFlight, Alive
<1>15. CASE UNCHANGED vars
  BY <1>15 DEF vars, InFlight
<1> QED
  BY <1>1, <1>2, <1>3, <1>4, <1>5, <1>6, <1>7, <1>8, <1>9, <1>10, <1>11, <1>12, <1>13,
     <1>14, <1>15 DEF Next, Main

\* What is still in flight when the process exits was waited for until the deadline, and
\* the exit code tells (run.go:322-339).
THEOREM AbandonedTold == Spec => []AbandonedIsTold
<1>1. Told => AbandonedIsTold
  BY DEF Told
<1> QED
  BY <1>1, InitTold, NextTold, InitOrder, NextOrder, TypeCorrect, PTL DEF Spec

-----------------------------------------------------------------------------
\* What a failure is put down to: the data plane, or the deadline, which runs out once.
Blame ==
  /\ pc \in {"listen", "serving", "draining"} => deadline = "none"
  /\ errServe => server["data"] = "failed"
  /\ failed => server["data"] = "failed" \/ deadline = "expired"
  /\ pc = "exited" /\ code = 1 => failed \/ server["control"] = "off"

LEMMA InitBlame == Init => Blame
  BY DEF Init, Blame

LEMMA NextBlame == TypeOK /\ Order /\ Blame /\ [Next]_vars => Blame'
<1> SUFFICES ASSUME TypeOK, Order, Blame, [Next]_vars PROVE Blame'
  OBVIOUS
<1> USE DEF TypeOK, Order, Blame, Planes
<1>1. CASE ListenControl
  BY <1>1 DEF ListenControl
<1>2. CASE ListenControlFails
  BY <1>2 DEF ListenControlFails
<1>3. CASE EarlyReturn
  BY <1>3 DEF EarlyReturn
<1>4. CASE Notice
  BY <1>4 DEF Notice
<1>5. CASE Drain
  BY <1>5 DEF Drain
<1>6. CASE ControlDown
  BY <1>6 DEF ControlDown, GivenUp
<1>7. CASE DataDown
  BY <1>7 DEF DataDown, GivenUp
<1>8. ASSUME NEW plane \in Planes, Serve(plane) PROVE Blame'
  BY <1>8 DEF Serve
<1>9. ASSUME NEW plane \in Planes, ServeFails(plane) PROVE Blame'
  BY <1>9 DEF ServeFails, Accepting
<1>10. ASSUME NEW r \in Requests, Arrive(r) PROVE Blame'
  BY <1>10 DEF Arrive
<1>11. ASSUME NEW r \in Requests, Finish(r) PROVE Blame'
  BY <1>11 DEF Finish
<1>12. CASE Expire
  BY <1>12 DEF Expire
<1>13. CASE Signal
  BY <1>13 DEF Signal, Alive
<1>14. CASE RestoreSignals
  BY <1>14 DEF RestoreSignals
<1>15. CASE UNCHANGED vars
  BY <1>15 DEF vars
<1> QED
  BY <1>1, <1>2, <1>3, <1>4, <1>5, <1>6, <1>7, <1>8, <1>9, <1>10, <1>11, <1>12, <1>13,
     <1>14, <1>15 DEF Next, Main

\* A run fails for a server, or for a drain that took its whole time (run.go:301-339).
THEOREM FailuresCaused == Spec => []FailuresHaveCause
<1>1. Blame => FailuresHaveCause
  BY DEF Blame, FailuresHaveCause
<1> QED
  BY <1>1, InitBlame, NextBlame, InitOrder, NextOrder, TypeCorrect, PTL DEF Spec

\* The exit code tells whether the drain left anyone behind, a stream as any request, and a
\* run that left no one behind in time is a failure only for a server (run.go:301-339).
THEOREM ToldOfDrain == Spec => []ExitTellsTheDrain
BY AbandonedTold, FailuresCaused, PTL DEF ExitTellsTheDrain

-----------------------------------------------------------------------------
(* From the flags on.                                                      *)

allVars == <<vars, startVars>>

LEMMA SignalKept == Signalled => [Next]_vars
BY DEF Signalled, Next

LEMMA StartStepKept == [StartNext]_allVars => [Next]_vars
BY SignalKept DEF StartNext, allVars

\* A run of the proxy, from its flags on, is a behaviour of Lifecycle (run.go:40-93).
THEOREM KeepsLifecycle == StartSpec => Spec
BY StartStepKept, PTL DEF StartSpec, Spec, StartInit, allVars

\* The exit code tells of the drain, whatever a run starts from (run.go:301-339).
THEOREM StartTellsTheDrain == StartSpec => []ExitTellsTheDrain
BY KeepsLifecycle, ToldOfDrain

-----------------------------------------------------------------------------
(* The types, and which step of a run leaves what.                         *)

\* A signal that comes before there is a server leaves both as they are.
LEMMA SignalServer == Signalled => UNCHANGED server
BY DEF Signalled, Signal, RestoreSignals

Steps == ReadEnv \/ ReadLine \/ Rule \/ RuleOfRun \/ Build

StartTypes ==
  /\ boot \in {"flags", "line", "rules", "configured", "building", "serving", "over"}
  /\ exit \in IF boot = "over" THEN 0..2 ELSE {2}
  /\ DOMAIN cfg \in {{}, Flags}
  /\ boot \in {"configured", "building"} => cfg # NoConfig
  /\ boot # "serving" => server = [data |-> "starting", control |-> "off"]

LEMMA ConfigIsOne == DOMAIN Config = Flags /\ Config # NoConfig
<1>1. DOMAIN Config = Flags
  BY DEF Config
<1>2. "url" \in Flags
  BY DEF Flags, Default
<1>3. DOMAIN NoConfig = {}
  BY DEF NoConfig
<1> QED
  BY <1>1, <1>2, <1>3

LEMMA StepTypes == StartTypes /\ Steps /\ UNCHANGED vars => StartTypes'
<1> SUFFICES ASSUME StartTypes, Steps, UNCHANGED vars PROVE StartTypes'
  OBVIOUS
<1> USE DEF StartTypes, Exit
<1>0. UNCHANGED server
  BY DEF vars
<1>1. CASE ReadEnv
  BY <1>0, <1>1 DEF ReadEnv
<1>2. CASE ReadLine
  BY <1>0, <1>2 DEF ReadLine
<1>3. CASE Rule
  BY <1>0, <1>3, ConfigIsOne DEF Rule
<1>4. CASE RuleOfRun
  BY <1>0, <1>4 DEF RuleOfRun
<1>5. CASE Build
  BY <1>0, <1>5 DEF Build, NoConfig
<1> QED
  BY <1>1, <1>2, <1>3, <1>4, <1>5 DEF Steps

LEMMA NextStartTypes == StartTypes /\ [StartNext]_allVars => StartTypes'
<1> SUFFICES ASSUME StartTypes, [StartNext]_allVars PROVE StartTypes'
  OBVIOUS
<1>1. CASE Boot /\ UNCHANGED vars
  BY <1>1, StepTypes DEF Boot, Steps
<1>2. CASE Started /\ Next /\ UNCHANGED startVars
  BY <1>2 DEF Started, startVars, StartTypes
<1>3. CASE Signalled /\ UNCHANGED startVars
  BY <1>3, SignalServer DEF startVars, StartTypes
<1>4. CASE UNCHANGED allVars
  BY <1>4 DEF allVars, vars, startVars, StartTypes
<1> QED
  BY <1>1, <1>2, <1>3, <1>4 DEF StartNext

\* Every variable of a run keeps its type, and it serves nothing on its way to serving.
THEOREM StartTypeCorrect == StartSpec => []StartTypeOK
<1>1. StartInit => StartTypes
  BY DEF StartInit, Init, StartTypes, NoConfig
<1>2. StartTypes /\ TypeOK => StartTypeOK
  BY DEF StartTypes, StartTypeOK
<1> QED
  BY <1>1, <1>2, NextStartTypes, KeepsLifecycle, TypeCorrect, PTL DEF StartSpec, allVars

-----------------------------------------------------------------------------
(* What an accepted run has.                                               *)

\* What passed the flag package is of its flag's type.
Legible ==
  /\ Typed(env) /\ Typed(line)
  /\ boot \in {"line", "rules"} => ~Unreadable(env)
  /\ boot = "rules" => ~Unreadable(line)

InForce == GivenIsInForce /\ DefaultFollowsUpstream /\ EveryBoundTakesEffect

LEMMA NoFlagsTyped == Typed(NoFlags)
<1>1. DOMAIN NoFlags = {}
  BY DEF NoFlags
<1> QED
  BY <1>1 DEF Typed

LEMMA NumberTyped ==
  ASSUME Legible, boot = "rules", NEW t \in Numbers
  PROVE  Value(t) \in Int
<1>0. Numbers \subseteq Flags
  BY DEF Flags, Default, Timeouts, Numbers
<1>1. t \in Flags /\ Default[t] \in Int
  <2>1. Default["readHeader"] \in Int /\ Default["read"] \in Int
    BY DEF Default
  <2>2. Default["write"] \in Int /\ Default["idle"] \in Int
    BY DEF Default
  <2>3. Default["upstream"] \in Int /\ Default["shutdown"] \in Int
    BY DEF Default
  <2>4. Default["depth"] \in Int
    BY DEF Default
  <2> QED
    BY <1>0, <2>1, <2>2, <2>3, <2>4 DEF Timeouts, Numbers
<1>2. CASE t \in DOMAIN line
  BY <1>1, <1>2 DEF Legible, Typed, Unreadable, Value
<1>3. CASE t \notin DOMAIN line /\ t \in DOMAIN env
  BY <1>1, <1>3 DEF Legible, Typed, Unreadable, Value
<1> QED
  BY <1>1, <1>2, <1>3 DEF Value

LEMMA SwitchTyped ==
  ASSUME Legible, boot = "rules" PROVE Value("http2") \in BOOLEAN
<1>1. "http2" \in Flags /\ Default["http2"] \in BOOLEAN
  BY DEF Flags, Default
<1>2. CASE "http2" \in DOMAIN line
  BY <1>1, <1>2 DEF Legible, Typed, Unreadable, Value
<1>3. CASE "http2" \notin DOMAIN line /\ "http2" \in DOMAIN env
  BY <1>1, <1>3 DEF Legible, Typed, Unreadable, Value
<1> QED
  BY <1>1, <1>2, <1>3 DEF Value

\* A flag that is given has its value, be it one that a default would follow another for.
LEMMA GivenKept ==
  ASSUME Legible, boot = "rules", Accepts, NEW f \in Flags \ {"depth"}, IsSet(f)
  PROVE  Config[f] = Value(f)
<1>1. CASE f = "write"
  BY <1>1 DEF Config, WriteInForce
<1>2. CASE f = "http2"
  <2>1. Value("http2") \in BOOLEAN
    BY SwitchTyped
  <2>2. Http1Only => Value("http2") = FALSE
    BY <1>2, <2>1 DEF Accepts, ProtocolServes
  <2>3. Config["http2"] = (Value("http2") /\ ~Http1Only)
    BY <1>2 DEF Config
  <2> QED
    BY <1>2, <2>1, <2>2, <2>3, Http1OnlyAssumption
<1>3. CASE f \notin {"write", "http2"}
  BY <1>3 DEF Config
<1> QED
  BY <1>1, <1>2, <1>3

LEMMA TimeKept ==
  ASSUME Legible, boot = "rules", Accepts
  PROVE  /\ Config["write"] # 0 /\ Config["upstream"] # 0 =>
              Config["write"] > Config["upstream"]
         /\ ~IsSet("write") =>
              IF Config["upstream"] = 0 THEN Config["write"] = 0
              ELSE Config["write"] > Config["upstream"]
<1>1. Value("upstream") \in Int /\ Value("write") \in Int
  BY NumberTyped DEF Timeouts, Numbers
<1>2. "write" \in Flags /\ "upstream" \in Flags /\ Default["write"] = 0
  BY DEF Flags, Default
<1>3. Config["write"] = WriteInForce /\ Config["upstream"] = Value("upstream")
  BY <1>2 DEF Config
<1>4. ~IsSet("write") => Value("write") = 0
  BY <1>2 DEF IsSet, Value
<1> QED
  BY <1>1, <1>3, <1>4 DEF WriteInForce, Accepts, WriteServes

LEMMA BoundsKept ==
  ASSUME Legible, boot = "rules", Accepts
  PROVE  /\ Config["read"] # 0 => Config["readHeader"] <= Config["read"]
         /\ Config["maxIdle"] # 0 => Config["perHost"] <= Config["maxIdle"]
         /\ Config["depth"] >= 1 /\ Config["maxBody"] >= 1
<1>1. Value("read") \in Int /\ Value("readHeader") \in Int /\ Value("depth") \in Int
  BY NumberTyped DEF Timeouts, Numbers
<1>2. {"read", "readHeader", "maxIdle", "perHost", "depth", "maxBody"} \subseteq Flags
  BY DEF Flags, Default
<1>3. /\ Config["read"] = Value("read") /\ Config["readHeader"] = Value("readHeader")
      /\ Config["maxIdle"] = Value("maxIdle") /\ Config["perHost"] = Value("perHost")
      /\ Config["maxBody"] = Value("maxBody")
  BY <1>2 DEF Config
<1>4. Config["depth"] = IF Value("depth") < 1 THEN Default["depth"] ELSE Value("depth")
  BY <1>2 DEF Config
<1>5. Default["depth"] = 128
  BY DEF Default
<1>6. Config["depth"] >= 1
  BY <1>1, <1>4, <1>5
<1> QED
  BY <1>1, <1>3, <1>6 DEF Accepts, ReadServes, PoolServes, RequestsServe

LEMMA RuleInForce == Legible /\ Rule => InForce'
<1> SUFFICES ASSUME Legible, Rule, boot' = "configured" PROVE InForce'
  BY DEF InForce, GivenIsInForce, DefaultFollowsUpstream, EveryBoundTakesEffect
<1>1. /\ boot = "rules" /\ Accepts /\ cfg' = Config
      /\ UNCHANGED <<env, line>>
  BY DEF Rule, Exit
<1>2. ASSUME NEW f \in Flags \ {"depth"}, f \in DOMAIN line \/ f \in DOMAIN env
      PROVE  cfg'[f] = IF f \in DOMAIN line THEN line[f] ELSE env[f]
  <2>1. Config[f] = Value(f)
    BY <1>1, <1>2, GivenKept DEF IsSet
  <2> QED
    BY <1>1, <1>2, <2>1 DEF Value
<1>3. GivenIsInForce'
  BY <1>1, <1>2 DEF GivenIsInForce
<1>4. DefaultFollowsUpstream'
  BY <1>1, TimeKept DEF DefaultFollowsUpstream, IsSet
<1>5. EveryBoundTakesEffect'
  BY <1>1, BoundsKept, TimeKept DEF EveryBoundTakesEffect
<1> QED
  BY <1>3, <1>4, <1>5 DEF InForce

LEMMA StepInForce == Legible /\ InForce /\ Steps => (Legible /\ InForce)'
<1> SUFFICES ASSUME Legible, InForce, Steps PROVE (Legible /\ InForce)'
  OBVIOUS
<1> USE DEF Exit
<1>1. CASE ReadEnv
  BY <1>1 DEF ReadEnv, Legible, Typed, Unreadable, InForce, GivenIsInForce,
    DefaultFollowsUpstream, EveryBoundTakesEffect
<1>2. CASE ReadLine
  BY <1>2 DEF ReadLine, Legible, Typed, Unreadable, InForce, GivenIsInForce,
    DefaultFollowsUpstream, EveryBoundTakesEffect
<1>3. CASE Rule
  <2>1. Legible'
    BY <1>3 DEF Rule, Legible, Typed, Unreadable
  <2> QED
    BY <1>3, <2>1, RuleInForce
<1>4. CASE RuleOfRun
  BY <1>4 DEF RuleOfRun, Legible, Typed, Unreadable, InForce, GivenIsInForce,
    DefaultFollowsUpstream, EveryBoundTakesEffect
<1>5. CASE Build
  <2>1. boot' \in {"serving", "over"}
    BY <1>5 DEF Build
  <2>2. InForce'
    BY <2>1 DEF InForce, GivenIsInForce, DefaultFollowsUpstream, EveryBoundTakesEffect
  <2>3. CASE UNCHANGED <<env, line>>
    BY <2>1, <2>2, <2>3 DEF Legible, Typed
  <2>4. CASE env' = NoFlags /\ line' = NoFlags
    <3>1. Typed(env)' /\ Typed(line)'
      BY <2>4, NoFlagsTyped DEF Typed
    <3> QED
      BY <2>1, <2>2, <3>1 DEF Legible
  <2> QED
    BY <1>5, <2>3, <2>4 DEF Build
<1> QED
  BY <1>1, <1>2, <1>3, <1>4, <1>5 DEF Steps

LEMMA NextInForce == Legible /\ InForce /\ [StartNext]_allVars => (Legible /\ InForce)'
<1> SUFFICES ASSUME Legible, InForce, [StartNext]_allVars PROVE (Legible /\ InForce)'
  OBVIOUS
<1>1. CASE Boot /\ UNCHANGED vars
  BY <1>1, StepInForce DEF Boot, Steps
<1>2. CASE UNCHANGED startVars
  BY <1>2 DEF startVars, Legible, Typed, Unreadable, InForce, GivenIsInForce,
    DefaultFollowsUpstream, EveryBoundTakesEffect
<1> QED
  BY <1>1, <1>2 DEF StartNext, allVars

LEMMA InitInForce == StartInit => Legible /\ InForce
<1> SUFFICES ASSUME StartInit PROVE Legible /\ InForce
  OBVIOUS
<1>1. PICK s \in Settings : env = s.env /\ line = s.line
  BY DEF StartInit
<1>2. Typed(env) /\ Typed(line)
  BY <1>1, SettingsAssumption
<1> QED
  BY <1>2 DEF StartInit, Legible, InForce, GivenIsInForce, DefaultFollowsUpstream,
    EveryBoundTakesEffect

\* Whatever a run is given is in force once it is accepted, a write timeout nobody set is
\* never the shorter beside the upstream's, and no bound of an accepted run hides another
\* that is on (flags.go:576-594, 636-637, 677-680).
THEOREM SettingsInForce == StartSpec => []SettingsHold
<1>1. InForce => SettingsHold
  BY DEF InForce, SettingsHold
<1> QED
  BY <1>1, InitInForce, NextInForce, PTL DEF StartSpec, allVars

-----------------------------------------------------------------------------
(* What an exit code says.                                                 *)

\* What is about to be built was accepted, by the rules of the run as well.
FaultInv ==
  /\ boot = "building" => cfg.url # "document"
  /\ ExitTellsWhoseFault

LEMMA StepFault == StartTypes /\ FaultInv /\ Steps => FaultInv'
<1> SUFFICES ASSUME StartTypes, FaultInv, Steps PROVE FaultInv'
  OBVIOUS
<1> USE DEF FaultInv, ExitTellsWhoseFault, Exit
<1>1. CASE ReadEnv
  BY <1>1 DEF ReadEnv
<1>2. CASE ReadLine
  BY <1>2 DEF ReadLine
<1>3. CASE Rule
  BY <1>3 DEF Rule, Value
<1>4. CASE RuleOfRun
  BY <1>4 DEF RuleOfRun
<1>5. CASE Build
  BY <1>5 DEF Build, StartTypes
<1> QED
  BY <1>1, <1>2, <1>3, <1>4, <1>5 DEF Steps

LEMMA NextFault == StartTypes /\ FaultInv /\ [StartNext]_allVars => FaultInv'
<1> SUFFICES ASSUME StartTypes, FaultInv, [StartNext]_allVars PROVE FaultInv'
  OBVIOUS
<1>1. CASE Boot /\ UNCHANGED vars
  BY <1>1, StepFault DEF Boot, Steps
<1>2. CASE UNCHANGED startVars
  BY <1>2 DEF startVars, FaultInv, ExitTellsWhoseFault, Help, Value
<1> QED
  BY <1>1, <1>2 DEF StartNext, allVars

\* A run that served nothing exits with 0 where that was asked for, and with 1 where
\* nothing it was given was at fault (run.go:59-91).
THEOREM ExitsTell == StartSpec => []ExitTellsWhoseFault
<1>1. StartInit => StartTypes /\ FaultInv
  BY DEF StartInit, Init, StartTypes, NoConfig, FaultInv, ExitTellsWhoseFault
<1>2. FaultInv => ExitTellsWhoseFault
  BY DEF FaultInv
<1> QED
  BY <1>1, <1>2, NextStartTypes, NextFault, PTL DEF StartSpec, allVars
==============================================================================
