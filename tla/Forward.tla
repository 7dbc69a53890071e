------------------------------- MODULE Forward -------------------------------
(***************************************************************************)
(* internal/app/proxy/proxy.go, ServeHTTP from the decision "allowed" on,  *)
(* with the error handler of its ReverseProxy and the streamWriter of      *)
(* stream.go: one request is relayed upstream while its deadline may fire, *)
(* its client may leave or take nothing for a while, the upstream may fail *)
(* or stall at any point, and a shutdown may ask the event streams to end. *)
(*                                                                         *)
(* The handler's goroutine takes one step per access to what another       *)
(* goroutine may change: the request's context, its deadline timer, the    *)
(* drain watch (context.AfterFunc), and the pooled state whose writer the  *)
(* watch reads and whose body buffer the transport reads.  ReverseProxy,   *)
(* the transport, timers and the pool are external: what they may do is    *)
(* what net/http documents.                                                *)
(***************************************************************************)
EXTENDS Integers, FiniteSets

CONSTANTS
  Requests,      \* allowed requests; each is forwarded once
  Posts,         \* those that carry a body
  States,        \* pooled states
  Timeout,       \* whether -upstream.timeout is on
  WriteTimeout,  \* whether -server.write-timeout is on
  MayDrain       \* whether the shutdown may start

ASSUME FlagsAssumption ==
  Timeout \in BOOLEAN /\ WriteTimeout \in BOOLEAN /\ MayDrain \in BOOLEAN
ASSUME NobodyAssumption == "nobody" \notin Requests /\ "nowhere" \notin States

VARIABLES
  pc,        \* where each handler is
  st,        \* the pooled state each handler took, kept after it returned
  owner,     \* the handler holding each pooled state, or "nobody"
  cancelOf,  \* whose cancel the writer of each pooled state holds, or "nobody" for nil
  body,      \* whose bytes the body buffer of each pooled state holds
  asked,     \* Accept names text/event-stream
  kind,      \* what the upstream answered with
  decided,   \* streamWriter.decided
  streamed,  \* streamWriter.streamed
  failed,    \* streamWriter.failed
  cause,     \* context.Cause of the forward: the first cancellation wins
  timer,     \* the deadline timer
  bounded,   \* -server.write-timeout bounds writing this answer
  watch,     \* the drain watch of each request
  sent,      \* the request body the transport wrote upstream
  failures,  \* times the request raised counters.upstream
  observed,  \* times metrics.Observe ran for it
  broke,     \* ghost: the upstream failed by itself
  silent,    \* ghost: the error handler returned without an answer
  draining,  \* proxy.draining is closed
  stray,     \* ghost: a drain watch found another cancel than its request's
  crashed    \* a goroutine called a nil function: the process is gone

pooled == <<owner, cancelOf, body>>
writer == <<asked, decided, streamed, failed>>
ghosts == <<broke, silent, stray>>
vars == <<pc, st, pooled, writer, kind, cause, timer, bounded, watch, sent, failures,
          observed, ghosts, draining, crashed>>

Goto(r, from, to) == pc[r] = from /\ pc' = [pc EXCEPT ![r] = to]

\* A context keeps the cause of its first cancellation.
Cancelled(r, why) == [cause EXCEPT ![r] = IF @ = "none" THEN why ELSE @]

InFlight(r) == pc[r] \notin {"idle", "done"}

\* The body is being copied to the client: the handler reads from the upstream, or waits
\* in Write for a client that takes nothing.
Copying(r) == pc[r] \in {"copy", "blocked"}

-----------------------------------------------------------------------------
Init ==
  /\ pc = [r \in Requests |-> "idle"]
  /\ st = [r \in Requests |-> "nowhere"]
  /\ owner = [s \in States |-> "nobody"]
  /\ cancelOf = [s \in States |-> "nobody"]
  /\ body = [s \in States |-> "nobody"]
  /\ asked \in [Requests -> BOOLEAN]
  /\ kind = [r \in Requests |-> "none"]
  /\ decided = [r \in Requests |-> FALSE]
  /\ streamed = [r \in Requests |-> FALSE]
  /\ failed = [r \in Requests |-> FALSE]
  /\ cause = [r \in Requests |-> "none"]
  /\ timer = [r \in Requests |-> "off"]
  /\ bounded = [r \in Requests |-> FALSE]
  /\ watch = [r \in Requests |-> "none"]
  /\ sent = [r \in Requests |-> IF r \in Posts THEN "unsent" ELSE "dropped"]
  /\ failures = [r \in Requests |-> 0]
  /\ observed = [r \in Requests |-> 0]
  /\ broke = [r \in Requests |-> FALSE]
  /\ silent = [r \in Requests |-> FALSE]
  /\ draining = FALSE
  /\ stray = FALSE
  /\ crashed = FALSE

-----------------------------------------------------------------------------
(* The handler up to the upstream's answer.                                *)

\* A state is taken, the body read into it, the deadline armed, the writer reset.
Begin(r, s) ==
  /\ Goto(r, "idle", "roundtrip")
  /\ owner[s] = "nobody"
  /\ owner' = [owner EXCEPT ![s] = r]
  /\ st' = [st EXCEPT ![r] = s]
  /\ body' = [body EXCEPT ![s] = r]
  /\ cancelOf' = [cancelOf EXCEPT ![s] = IF Timeout THEN r ELSE "nobody"]
  /\ timer' = [timer EXCEPT ![r] = IF Timeout THEN "armed" ELSE "off"]
  /\ bounded' = [bounded EXCEPT ![r] = TRUE]
  /\ UNCHANGED <<writer, kind, cause, watch, sent, failures, observed, ghosts, draining,
                 crashed>>

\* Mutant: the first status written decides, a 1xx too.
InformDecides(r) ==
  /\ pc[r] = "roundtrip"
  /\ kind[r] = "none"
  /\ kind' = [kind EXCEPT ![r] = "hinted"]
  /\ decided' = [decided EXCEPT ![r] = TRUE]
  /\ UNCHANGED <<pc, st, pooled, asked, streamed, failed, cause, timer, bounded, watch,
                 sent, failures, observed, ghosts, draining, crashed>>

\* An informational answer is relayed and decides nothing.
Inform(r) ==
  /\ pc[r] = "roundtrip"
  /\ kind[r] = "none"
  /\ kind' = [kind EXCEPT ![r] = "hinted"]
  /\ UNCHANGED <<pc, st, pooled, writer, cause, timer, bounded, watch, sent, failures,
                 observed, ghosts, draining, crashed>>

\* The transport returns an answer.  A 101 fails ModifyResponse.
Answer(r, k) ==
  /\ Goto(r, "roundtrip", IF k = "switch" THEN "failed" ELSE "header")
  /\ kind' = [kind EXCEPT ![r] = k]
  /\ broke' = [broke EXCEPT ![r] = (k = "switch")]
  /\ UNCHANGED <<st, pooled, writer, cause, timer, bounded, watch, sent, failures,
                 observed, silent, stray, draining, crashed>>

\* The transport gives up on the upstream.
UpstreamFails(r) ==
  /\ Goto(r, "roundtrip", "failed")
  /\ broke' = [broke EXCEPT ![r] = TRUE]
  /\ UNCHANGED <<st, pooled, writer, kind, cause, timer, bounded, watch, sent, failures,
                 observed, silent, stray, draining, crashed>>

\* The transport gives up because the context is done.
RoundTripCancelled(r) ==
  /\ Goto(r, "roundtrip", "failed")
  /\ cause[r] # "none"
  /\ UNCHANGED <<st, pooled, writer, kind, cause, timer, bounded, watch, sent, failures,
                 observed, ghosts, draining, crashed>>

-----------------------------------------------------------------------------
(* streamWriter.WriteHeader with the final status.                         *)

IsStream(r) == asked[r] /\ kind[r] = "stream"

StopTimer(r) == [timer EXCEPT ![r] = IF @ = "armed" THEN "stopped" ELSE @]

\* Mutant: a stream does not watch the drain.
WriteHeaderUnwatched(r) ==
  /\ Goto(r, "header", "copy")
  /\ decided' = [decided EXCEPT ![r] = TRUE]
  /\ IF ~decided[r] /\ IsStream(r)
     THEN /\ streamed' = [streamed EXCEPT ![r] = TRUE]
          /\ timer' = StopTimer(r)
          /\ bounded' = [bounded EXCEPT ![r] = FALSE]
          /\ observed' = [observed EXCEPT ![r] = @ + 1]
     ELSE UNCHANGED <<streamed, timer, bounded, observed>>
  /\ UNCHANGED <<st, pooled, asked, failed, kind, cause, watch, sent, failures, ghosts,
                 draining, crashed>>

WriteHeader(r) ==
  /\ Goto(r, "header", "copy")
  /\ decided' = [decided EXCEPT ![r] = TRUE]
  /\ IF ~decided[r] /\ IsStream(r)
     THEN /\ streamed' = [streamed EXCEPT ![r] = TRUE]
          /\ timer' = StopTimer(r)
          /\ bounded' = [bounded EXCEPT ![r] = FALSE]
          /\ watch' = [watch EXCEPT ![r] = IF cancelOf[st[r]] = "nobody" THEN @ ELSE "armed"]
          /\ observed' = [observed EXCEPT ![r] = @ + 1]
     ELSE UNCHANGED <<streamed, timer, bounded, watch, observed>>
  /\ UNCHANGED <<st, pooled, asked, failed, kind, cause, sent, failures, ghosts, draining,
                 crashed>>

\* The copy of the body ends, or breaks and panics with http.ErrAbortHandler: the
\* deferred calls run either way.
CopyStops(r) ==
  /\ Goto(r, "copy", "deferred")
  /\ UNCHANGED <<st, pooled, writer, kind, cause, timer, bounded, watch, sent, failures,
                 observed, silent, stray, draining, crashed>>

CopyEnds(r) == CopyStops(r) /\ UNCHANGED broke

CopyBreaks(r) ==
  /\ CopyStops(r)
  /\ broke' = [broke EXCEPT ![r] = TRUE]

\* The upstream's body fails to read once the context is done.  A Write that waits for
\* the client does not look at the context.
CopyCancelled(r) ==
  /\ CopyStops(r)
  /\ cause[r] # "none"
  /\ UNCHANGED broke

-----------------------------------------------------------------------------
(* ReverseProxy.ErrorHandler reads the context twice.                      *)

\* Mutant: the count is lowered.
CountFailureDown(r) == failures' = [failures EXCEPT ![r] = @ - 1]

CountFailure(r) == failures' = [failures EXCEPT ![r] = @ + 1]

HandleError(r) ==
  /\ pc[r] = "failed"
  /\ failed' = [failed EXCEPT ![r] = TRUE]
  /\ \/ /\ cause[r] = "timeout"
        /\ CountFailure(r)
        /\ pc' = [pc EXCEPT ![r] = "deferred"]
        /\ decided' = [decided EXCEPT ![r] = TRUE]
     \/ /\ cause[r] # "timeout"
        /\ pc' = [pc EXCEPT ![r] = "handling"]
        /\ UNCHANGED <<failures, decided>>
  /\ UNCHANGED <<st, pooled, asked, streamed, kind, cause, timer, bounded, watch, sent,
                 observed, ghosts, draining, crashed>>

\* The client hung up.
HandleGone(r) ==
  /\ Goto(r, "handling", "deferred")
  /\ cause[r] # "none"
  /\ silent' = [silent EXCEPT ![r] = TRUE]
  /\ UNCHANGED <<st, pooled, writer, kind, cause, timer, bounded, watch, sent, failures,
                 observed, broke, stray, draining, crashed>>

\* Mutant: a client that hung up is not looked for.
HandleFailureOfAny(r) ==
  /\ Goto(r, "handling", "deferred")
  /\ CountFailure(r)
  /\ decided' = [decided EXCEPT ![r] = TRUE]
  /\ UNCHANGED <<st, pooled, asked, streamed, failed, kind, cause, timer, bounded, watch,
                 sent, observed, ghosts, draining, crashed>>

\* The upstream failed: 502 or 504.
HandleFailure(r) ==
  /\ Goto(r, "handling", "deferred")
  /\ cause[r] = "none"
  /\ CountFailure(r)
  /\ decided' = [decided EXCEPT ![r] = TRUE]
  /\ UNCHANGED <<st, pooled, asked, streamed, failed, kind, cause, timer, bounded, watch,
                 sent, observed, ghosts, draining, crashed>>

-----------------------------------------------------------------------------
(* The deferred calls, last to first.                                      *)

\* stopDraining: no effect on a watch that started.
StopDraining(r) ==
  /\ Goto(r, "deferred", "unwatched")
  /\ watch' = [watch EXCEPT ![r] = IF @ = "armed" THEN "stopped" ELSE @]
  /\ UNCHANGED <<st, pooled, writer, kind, cause, timer, bounded, sent, failures,
                 observed, ghosts, draining, crashed>>

\* Mutant: a failure the error handler counted is counted again.
AccountForgetsFailed(r) ==
  /\ Goto(r, "unwatched", "counted")
  /\ IF cause[r] = "timeout" THEN CountFailure(r) ELSE UNCHANGED failures
  /\ observed' = [observed EXCEPT ![r] = IF streamed[r] THEN @ ELSE @ + 1]
  /\ UNCHANGED <<st, pooled, writer, kind, cause, timer, bounded, watch, sent, ghosts,
                 draining, crashed>>

\* Mutant: a stream is timed at its end as well.
AccountForgetsStreamed(r) ==
  /\ Goto(r, "unwatched", "counted")
  /\ IF ~failed[r] /\ cause[r] = "timeout" THEN CountFailure(r) ELSE UNCHANGED failures
  /\ observed' = [observed EXCEPT ![r] = @ + 1]
  /\ UNCHANGED <<st, pooled, writer, kind, cause, timer, bounded, watch, sent, ghosts,
                 draining, crashed>>

Account(r) ==
  /\ Goto(r, "unwatched", "counted")
  /\ IF ~failed[r] /\ cause[r] = "timeout" THEN CountFailure(r) ELSE UNCHANGED failures
  /\ observed' = [observed EXCEPT ![r] = IF streamed[r] THEN @ ELSE @ + 1]
  /\ UNCHANGED <<st, pooled, writer, kind, cause, timer, bounded, watch, sent, ghosts,
                 draining, crashed>>

\* deadline.Stop, cancel(nil), release and Put.  The writer is cleared and the answer
\* let go; the body buffer keeps its bytes.
Release(r) ==
  /\ Goto(r, "counted", "done")
  /\ timer' = StopTimer(r)
  /\ cause' = IF Timeout THEN Cancelled(r, "over") ELSE cause
  /\ cancelOf' = [cancelOf EXCEPT ![st[r]] = "nobody"]
  /\ owner' = [owner EXCEPT ![st[r]] = "nobody"]
  /\ asked' = [asked EXCEPT ![r] = FALSE]
  /\ decided' = [decided EXCEPT ![r] = FALSE]
  /\ streamed' = [streamed EXCEPT ![r] = FALSE]
  /\ failed' = [failed EXCEPT ![r] = FALSE]
  /\ kind' = [kind EXCEPT ![r] = "none"]
  /\ UNCHANGED <<st, body, bounded, watch, sent, failures, observed, ghosts, draining,
                 crashed>>

-----------------------------------------------------------------------------
(* What runs beside the handler.                                           *)

ClientLeaves(r) ==
  /\ InFlight(r)
  /\ cause[r] = "none"
  /\ cause' = Cancelled(r, "client")
  /\ UNCHANGED <<pc, st, pooled, writer, kind, timer, bounded, watch, sent, failures,
                 observed, ghosts, draining, crashed>>

\* The client takes nothing more of the answer.
ClientStalls(r) ==
  /\ Goto(r, "copy", "blocked")
  /\ UNCHANGED <<st, pooled, writer, kind, cause, timer, bounded, watch, sent, failures,
                 observed, ghosts, draining, crashed>>

\* It does again, or its connection is gone: Write returns, and there is more to read
\* unless the context is done.
ClientTakes(r) ==
  /\ Goto(r, "blocked", IF cause[r] = "none" THEN "copy" ELSE "deferred")
  /\ UNCHANGED <<st, pooled, writer, kind, cause, timer, bounded, watch, sent, failures,
                 observed, ghosts, draining, crashed>>

\* The write deadline fails the Write that waits, and net/http cancels the context.
WriteTimesOut(r) ==
  /\ WriteTimeout /\ bounded[r]
  /\ Goto(r, "blocked", "deferred")
  /\ cause' = Cancelled(r, "client")
  /\ UNCHANGED <<st, pooled, writer, kind, timer, bounded, watch, sent, failures, observed,
                 ghosts, draining, crashed>>

\* The timer expires, then its function runs: a Stop between the two comes too late.
Expire(r) ==
  /\ timer[r] = "armed"
  /\ timer' = [timer EXCEPT ![r] = "expired"]
  /\ UNCHANGED <<pc, st, pooled, writer, kind, cause, bounded, watch, sent, failures,
                 observed, ghosts, draining, crashed>>

\* Mutant: the deadline cancels nothing.
CancelNothing(r) ==
  /\ timer[r] = "expired"
  /\ timer' = [timer EXCEPT ![r] = "ran"]
  /\ UNCHANGED <<pc, st, pooled, writer, kind, cause, bounded, watch, sent, failures,
                 observed, ghosts, draining, crashed>>

\* Mutant: a deadline that came too late is counted where nothing was.
CancelLateCounts(r) ==
  /\ timer[r] = "expired"
  /\ timer' = [timer EXCEPT ![r] = "ran"]
  /\ cause' = Cancelled(r, "timeout")
  /\ failures' = [failures EXCEPT ![r] = IF cause[r] = "over" /\ @ = 0 THEN 1 ELSE @]
  /\ UNCHANGED <<pc, st, pooled, writer, kind, bounded, watch, sent, observed, ghosts,
                 draining, crashed>>

CancelByTimeout(r) ==
  /\ timer[r] = "expired"
  /\ timer' = [timer EXCEPT ![r] = "ran"]
  /\ cause' = Cancelled(r, "timeout")
  /\ UNCHANGED <<pc, st, pooled, writer, kind, bounded, watch, sent, failures, observed,
                 ghosts, draining, crashed>>

StartDraining ==
  /\ MayDrain
  /\ ~draining
  /\ draining' = TRUE
  /\ UNCHANGED <<pc, st, pooled, writer, kind, cause, timer, bounded, watch, sent,
                 failures, observed, ghosts, crashed>>

\* The closed channel starts the watch's goroutine, which reads the writer's cancel
\* when it runs and not when it was registered.
LaunchWatch(r) ==
  /\ draining
  /\ watch[r] = "armed"
  /\ watch' = [watch EXCEPT ![r] = "launched"]
  /\ UNCHANGED <<pc, st, pooled, writer, kind, cause, timer, bounded, sent, failures,
                 observed, ghosts, draining, crashed>>

RunWatch(r) ==
  LET q == cancelOf[st[r]]
  IN /\ watch[r] = "launched"
     /\ watch' = [watch EXCEPT ![r] = "ran"]
     /\ stray' = (stray \/ q # r)
     /\ IF q = "nobody"
        THEN crashed' = TRUE /\ UNCHANGED cause
        ELSE cause' = Cancelled(q, "drain") /\ UNCHANGED crashed
     /\ UNCHANGED <<pc, st, pooled, writer, kind, timer, bounded, sent, failures,
                    observed, broke, silent, draining>>

\* The transport writes the request body from a goroutine that may outlive
\* RoundTrip, or closes the connection instead.
WriteBody(r) ==
  /\ sent[r] = "unsent"
  /\ pc[r] # "idle"
  /\ sent' = [sent EXCEPT ![r] = IF body[st[r]] = r THEN "own" ELSE "foreign"]
  /\ UNCHANGED <<pc, st, pooled, writer, kind, cause, timer, bounded, watch, failures,
                 observed, ghosts, draining, crashed>>

DropBody(r) ==
  /\ sent[r] = "unsent"
  /\ pc[r] \notin {"idle", "roundtrip"}
  /\ sent' = [sent EXCEPT ![r] = "dropped"]
  /\ UNCHANGED <<pc, st, pooled, writer, kind, cause, timer, bounded, watch, failures,
                 observed, ghosts, draining, crashed>>

-----------------------------------------------------------------------------
Handler(r) ==
  \/ RoundTripCancelled(r) \/ WriteHeader(r) \/ CopyCancelled(r) \/ HandleError(r)
  \/ HandleGone(r) \/ HandleFailure(r) \/ StopDraining(r) \/ Account(r) \/ Release(r)

Upstream(r) ==
  \/ Inform(r) \/ \E k \in {"plain", "stream", "switch"} : Answer(r, k)
  \/ UpstreamFails(r) \/ CopyEnds(r) \/ CopyBreaks(r)

Runtime(r) ==
  \/ Expire(r) \/ CancelByTimeout(r) \/ LaunchWatch(r) \/ RunWatch(r) \/ WriteTimesOut(r)

ClientDoes(r) == ClientLeaves(r) \/ ClientStalls(r) \/ ClientTakes(r)

Transport(r) == WriteBody(r) \/ DropBody(r)

Next ==
  /\ ~crashed
  /\ \/ StartDraining
     \/ \E r \in Requests :
          \/ \E s \in States : Begin(r, s)
          \/ Handler(r) \/ Upstream(r) \/ Runtime(r) \/ Transport(r)
          \/ ClientDoes(r)

Spec == Init /\ [][Next]_vars

\* The goroutines that hold no one else's promise run: the handler's, the timer's
\* and the watch's, and a write deadline passes.  Neither the upstream nor the client
\* owes a step.
Fairness ==
  \A r \in Requests : WF_vars(~crashed /\ Handler(r)) /\ WF_vars(~crashed /\ Runtime(r))

FairSpec == Spec /\ Fairness

-----------------------------------------------------------------------------
TypeOK ==
  /\ pc \in [Requests -> {"idle", "roundtrip", "header", "copy", "blocked", "failed",
                          "handling", "deferred", "unwatched", "counted", "done"}]
  /\ st \in [Requests -> States \cup {"nowhere"}]
  /\ owner \in [States -> Requests \cup {"nobody"}]
  /\ cancelOf \in [States -> Requests \cup {"nobody"}]
  /\ body \in [States -> Requests \cup {"nobody"}]
  /\ asked \in [Requests -> BOOLEAN]
  /\ kind \in [Requests -> {"none", "hinted", "plain", "stream", "switch"}]
  /\ decided \in [Requests -> BOOLEAN]
  /\ streamed \in [Requests -> BOOLEAN]
  /\ failed \in [Requests -> BOOLEAN]
  /\ cause \in [Requests -> {"none", "client", "timeout", "drain", "over"}]
  /\ timer \in [Requests -> {"off", "armed", "stopped", "expired", "ran"}]
  /\ bounded \in [Requests -> BOOLEAN]
  /\ watch \in [Requests -> {"none", "armed", "stopped", "launched", "ran"}]
  /\ sent \in [Requests -> {"unsent", "own", "foreign", "dropped"}]
  /\ failures \in [Requests -> Nat]
  /\ observed \in [Requests -> Nat]
  /\ broke \in [Requests -> BOOLEAN]
  /\ silent \in [Requests -> BOOLEAN]
  /\ draining \in BOOLEAN
  /\ stray \in BOOLEAN
  /\ crashed \in BOOLEAN

\* A counted upstream failure is the upstream's: it broke by itself, or the proxy's
\* own deadline cut it off.  A client that hung up counts for nothing (proxy.go:295).
FailureIsUpstreams ==
  \A r \in Requests : failures[r] > 0 => broke[r] \/ timer[r] = "ran"

\* What is counted and timed is what either data plane promises (proxy.go:442-457).
R == INSTANCE Relay WITH
       phase <- [r \in Requests |-> IF pc[r] = "idle" THEN "idle"
                                    ELSE IF pc[r] = "done" THEN "over" ELSE "going"]
RelaySpec == R!Spec

\* An event stream that was asked for is relayed without -upstream.timeout and
\* -server.write-timeout, whatever informational answers came first (stream.go:84-105);
\* nothing else loses either bound.
StreamReleased ==
  \A r \in Requests : Copying(r) =>
    IF asked[r] /\ kind[r] = "stream"
    THEN streamed[r] /\ ~bounded[r] /\ timer[r] # "armed"
    ELSE ~streamed[r] /\ bounded[r] /\ timer[r] # "stopped"

\* Under -upstream.timeout and -server.write-timeout an exchange ends, whatever the
\* upstream and the client do: only a stream that was asked for may last
\* (proxy.go:416-417, stream.go:32-35, 97-104).
EveryExchangeEnds ==
  \A r \in Requests :
    pc[r] = "roundtrip"
      ~> (pc[r] = "done" \/ crashed \/ (Copying(r) /\ asked[r] /\ kind[r] = "stream"))

\* Under -upstream.timeout a stream ends once the drain started, whether the watch was
\* registered before the drain or after it (stream.go:106-112), unless its client takes
\* nothing for good: with its write deadline cleared nothing ends that Write.
DrainEndsStreams ==
  \A r \in Requests :
    []<>(pc[r] # "blocked") =>
      ((draining /\ Copying(r) /\ streamed[r]) ~> (pc[r] = "done" \/ crashed))

\* stopDraining unregisters the watch once the request is over (stream.go:54-55): a
\* watch never runs on behalf of a request that is gone.
WatchEndsWithRequest == ~stray

\* Where the error handler answers nothing the client hung up (proxy.go:295-296).
SilenceMeansGone ==
  \A r \in Requests : silent[r] => cause[r] = "client"

\* The bytes that were hashed are the bytes that go upstream (proxy.go:404).
SameBytesUpstream == \A r \in Requests : sent[r] # "foreign"
==============================================================================
