------------------------------- MODULE Startup -------------------------------
(***************************************************************************)
(* internal/app/config/flags.go and RunWith of internal/app/proxy/run.go:  *)
(* how a run of the proxy gets from its environment and its command line   *)
(* to the servers of Lifecycle, or to an exit code without them.           *)
(*                                                                         *)
(* The signals are Lifecycle's and are taken from the first step on: a run *)
(* can be told to stop while it reads its flags or its allowlist.  A value *)
(* is what its rule tells apart: a time is in seconds, a URL, a file or a  *)
(* name is a member of a small set.                                        *)
(***************************************************************************)
EXTENDS Lifecycle, TLC

CONSTANTS
  Http1Only,  \* the command carries a data plane that speaks HTTP/1.1 only
  Settings,   \* what a run may be given: records of an env and a line
  Garbage     \* a value that the type of its flag does not take

ASSUME Http1OnlyAssumption == Http1Only \in BOOLEAN

Default == [
  url |-> "", allowlist |-> "", control |-> "loopback", hash |-> "sha2",
  ignore |-> "nothing", cert |-> "", key |-> "", ca |-> "", level |-> "info",
  maxBody |-> 1048576, maxBatch |-> 0,
  readHeader |-> 10, read |-> 30, write |-> 0, idle |-> 120, shutdown |-> 10,
  upstream |-> 30, lifetime |-> 0, perHost |-> 64, maxIdle |-> 256,
  depth |-> 128, http2 |-> TRUE, version |-> FALSE]

Flags == DOMAIN Default

Timeouts == {"readHeader", "read", "write", "idle", "upstream", "shutdown"}

Numbers == Timeouts \cup {"depth"}

\* What the flag package makes of a number and of a switch.
Typed(given) ==
  /\ \A n \in Numbers \cap DOMAIN given : given[n] \in Int \cup {Garbage}
  /\ "http2" \in DOMAIN given => given["http2"] \in BOOLEAN \cup {Garbage}

ASSUME SettingsAssumption == \A s \in Settings : Typed(s.env) /\ Typed(s.line)

VARIABLES
  boot,   \* where RunWith is; "serving" is Lifecycle's to go on with
  env,    \* the flags the environment sets, a function
  line,   \* the flags of the command line, a function
  cfg,    \* config.Proxy
  exit    \* the exit code of a run that served nothing

startVars == <<boot, env, line, cfg, exit>>

\* What no flag type takes, and what is no flag.
Unreadable(given) == \E f \in DOMAIN given \cap Flags : given[f] = Garbage
Positional(given) == "argument" \in DOMAIN given
Help(given) == "help" \in DOMAIN given

\* The environment is applied first, so the command line wins.
Value(f) ==
  IF f \in DOMAIN line THEN line[f] ELSE IF f \in DOMAIN env THEN env[f] ELSE Default[f]

\* Mutant: a value of the environment is set past the flag set.
SetOnLine(f) == f \in DOMAIN line

IsSet(f) == f \in DOMAIN line \cup DOMAIN env

-----------------------------------------------------------------------------
(* The rules of ParseProxyFor.  Each refusal is exit code 2.               *)

Absolute == {"http", "https", "ftp", "credentials", "document"}
Scheme(url) == IF url \in {"https", "ftp"} THEN url ELSE "http"

UrlServes ==
  LET url == Value("url") IN
    url \in Absolute /\ Scheme(url) \in {"http", "https"} /\ url # "credentials"

CertificateServes ==
  \/ Value("cert") = "" /\ Value("key") = ""
  \/ Value("cert") = "cert" /\ Value("key") = "key"

AuthorityServes ==
  Value("ca") = "" \/ (Value("ca") = "authority" /\ Scheme(Value("url")) = "https")

NamesServe ==
  /\ Value("allowlist") # "" /\ Value("control") # ""
  /\ Value("hash") = "sha2"
  /\ Value("ignore") \in {"nothing", "inputs", "variables"}

TimesServe == \A t \in Timeouts : Value(t) >= 0

RequestsServe == Value("maxBody") >= 1 /\ Value("maxBatch") >= 0

\* Mutant: a write timeout of the upstream's is taken.
WriteServesEqual ==
  IsSet("write") => Value("write") = 0 \/ Value("write") >= Value("upstream")

WriteServes ==
  IsSet("write") => Value("write") = 0 \/ Value("write") > Value("upstream")

ReadServes == Value("read") = 0 \/ Value("read") >= Value("readHeader")

ProtocolServes == ~(Http1Only /\ IsSet("http2") /\ Value("http2"))

\* Mutant: the ceiling is not compared with what it is over.
PoolServesAny ==
  Value("lifetime") >= 0 /\ Value("perHost") >= 1 /\ Value("maxIdle") >= 0

PoolServes ==
  /\ Value("lifetime") >= 0
  /\ Value("perHost") >= 1
  /\ Value("maxIdle") >= 0
  /\ Value("maxIdle") = 0 \/ Value("maxIdle") >= Value("perHost")

Accepts ==
  /\ UrlServes /\ CertificateServes /\ AuthorityServes /\ NamesServe
  /\ TimesServe /\ RequestsServe /\ WriteServes /\ ReadServes
  /\ ProtocolServes /\ PoolServes

\* Mutant: the default is the upstream's time and some more, of an upstream without one too.
WriteInForceAlone ==
  IF IsSet("write") THEN Value("write") ELSE Value("upstream") + 10

WriteInForce ==
  IF IsSet("write") \/ Value("upstream") = 0 THEN Value("write") ELSE Value("upstream") + 10

Config ==
  [[f \in Flags |-> Value(f)] EXCEPT
     !["write"] = WriteInForce,
     !["depth"] = IF @ < 1 THEN Default["depth"] ELSE @,
     !["http2"] = @ /\ ~Http1Only]

-----------------------------------------------------------------------------
(* RunWith.                                                                *)

NoFlags == [f \in {} |-> "none"]
NoConfig == [f \in {} |-> "none"]

StartInit ==
  /\ Init
  /\ boot = "flags"
  /\ \E s \in Settings : env = s.env /\ line = s.line
  /\ cfg = NoConfig /\ exit = 2

Exit(code_) ==
  /\ boot' = "over" /\ exit' = code_
  /\ UNCHANGED <<env, line, cfg>>

\* A wrong variable stops the run, whatever the command line says of that flag.
ReadEnv ==
  /\ boot = "flags"
  /\ IF Unreadable(env) THEN Exit(2)
     ELSE boot' = "line" /\ UNCHANGED <<env, line, cfg, exit>>

\* The flag package stops at the first of what it cannot read and what asks for help.
ReadLine ==
  /\ boot = "line"
  /\ \/ Unreadable(line) /\ Exit(2)
     \/ Help(line) /\ Exit(0)
     \/ /\ ~Unreadable(line) /\ ~Help(line)
        /\ IF Positional(line) THEN Exit(2)
           ELSE boot' = "rules" /\ UNCHANGED <<env, line, cfg, exit>>

Rule ==
  /\ boot = "rules"
  /\ IF Value("version") THEN Exit(0)
     ELSE IF ~Accepts THEN Exit(2)
     ELSE boot' = "configured" /\ cfg' = Config /\ UNCHANGED <<env, line, exit>>

\* What config owns no rule for: a document in the upstream's query, a level of the log.
RuleOfRun ==
  /\ boot = "configured"
  /\ IF cfg.url = "document" \/ cfg.level # "info" THEN Exit(2)
     ELSE boot' = "building" /\ UNCHANGED <<env, line, cfg, exit>>

\* Mutant: what keeps a run from serving is logged and no more.
BuildQuietly ==
  /\ boot = "building"
  /\ \/ Exit(0)
     \/ /\ cfg.allowlist # "absent"
        /\ boot' = "serving" /\ cfg' = NoConfig
        /\ env' = NoFlags /\ line' = NoFlags
        /\ UNCHANGED exit

\* The allowlist is loaded and the listener opened, each of which may fail.  What the
\* servers are given of cfg is in them now.
Build ==
  /\ boot = "building"
  /\ \/ Exit(1)
     \/ /\ cfg.allowlist # "absent"
        /\ boot' = "serving" /\ cfg' = NoConfig
        /\ env' = NoFlags /\ line' = NoFlags
        /\ UNCHANGED exit

Boot == Alive /\ (ReadEnv \/ ReadLine \/ Rule \/ RuleOfRun \/ Build)

Started == boot = "serving"
Over == boot = "over" \/ ~Alive

\* A signal is taken before there is a server to stop.
Signalled == boot \notin {"over", "serving"} /\ (Signal \/ RestoreSignals)

StartNext ==
  \/ Boot /\ UNCHANGED vars
  \/ Started /\ Next /\ UNCHANGED startVars
  \/ Signalled /\ UNCHANGED startVars

\* Goroutines run and time passes.  No request, no client, no upstream and no signal owes
\* a step.
StartFairness ==
  /\ WF_<<vars, startVars>>(Boot /\ UNCHANGED vars)
  /\ WF_<<vars, startVars>>(Started /\ Main /\ UNCHANGED startVars)
  /\ WF_<<vars, startVars>>(Started /\ Expire /\ UNCHANGED startVars)
  /\ WF_<<vars, startVars>>(boot # "over" /\ RestoreSignals /\ UNCHANGED startVars)
  /\ \A plane \in Planes :
       WF_<<vars, startVars>>(Started /\ Serve(plane) /\ UNCHANGED startVars)

StartSpec == StartInit /\ [][StartNext]_<<vars, startVars>>
FairStartSpec == StartSpec /\ StartFairness

-----------------------------------------------------------------------------
\* Lifecycle's variables keep their types, whatever a run starts from, and so do those
\* of RunWith: a run that serves, or is on its way to, has the code of no run that was
\* refused (run.go:59-85).
StartTypeOK ==
  /\ TypeOK
  /\ boot \in {"flags", "line", "rules", "configured", "building", "serving", "over"}
  /\ exit \in IF boot = "over" THEN 0..2 ELSE {2}
  /\ DOMAIN cfg \in {{}, Flags}
  /\ boot \in {"configured", "building"} => cfg # NoConfig
  /\ boot # "serving" => server = [data |-> "starting", control |-> "off"]

\* What a deployment gives is what the run has, through the environment as on the
\* command line, which wins: no default that follows another flag takes its place
\* (flags.go:677-680, 391).  A limit of the depth below 1 is none (flags.go:646-649).
GivenIsInForce ==
  boot = "configured" =>
    \A f \in Flags \ {"depth"} :
      /\ f \in DOMAIN line => cfg[f] = line[f]
      /\ f \in DOMAIN env \ DOMAIN line => cfg[f] = env[f]

\* A write timeout that nobody set follows the upstream's, and is never the shorter of
\* the two: off where that is off, longer where it is not (flags.go:576-585).
DefaultFollowsUpstream ==
  boot = "configured" /\ "write" \notin DOMAIN line \cup DOMAIN env =>
    IF cfg.upstream = 0 THEN cfg.write = 0 ELSE cfg.write > cfg.upstream

\* No bound of an accepted run hides another that is on, and none that has to be there is
\* off (flags.go:586, 593-594, 636-637, 652-654).  Nothing is claimed of a write timeout
\* that is set beside an upstream without one: it is accepted, and cuts answers short.
EveryBoundTakesEffect ==
  boot = "configured" =>
    /\ cfg.write # 0 /\ cfg.upstream # 0 => cfg.write > cfg.upstream
    /\ cfg.read # 0 => cfg.readHeader <= cfg.read
    /\ cfg.maxIdle # 0 => cfg.perHost <= cfg.maxIdle
    /\ cfg.depth >= 1 /\ cfg.maxBody >= 1

\* The settings a run is built from are those that were given, and hold together
\* (flags.go:391, 576-586, 593-594, 636-637, 646-654, 677-680).
SettingsHold == GivenIsInForce /\ DefaultFollowsUpstream /\ EveryBoundTakesEffect

\* A run that served nothing and says so with 0 was asked for its flags or its version,
\* and one that exits with 1 had nothing wrong in what it was given (run.go:59-91).
ExitTellsWhoseFault ==
  boot = "over" =>
    /\ exit = 0 => Help(line) \/ Value("version")
    /\ exit = 1 => cfg # NoConfig /\ cfg.url # "document"

\* A run that was told to stop ends, from whichever of its steps it was told at, and so
\* does one whose data plane failed (run.go:49-56, 234).
RunEnds == (ctxDone \/ server["data"] = "failed") ~> Over
==============================================================================
