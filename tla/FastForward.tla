----------------------------- MODULE FastForward -----------------------------
(***************************************************************************)
(* internal/app/proxyfast: server.forward and what it hands to others.     *)
(*                                                                         *)
(* A request is carried by a fasthttp client.  One that did not ask for an *)
(* event stream is carried by its handler, under the deadline of the       *)
(* connection.  One that did is carried by a goroutine (server.within)     *)
(* which nothing can stop: past the deadline the handler answers 504 and   *)
(* leaves the request and the answer to it.  An answer relayed as a stream *)
(* is written after the handler returned, until it ends, its client leaves *)
(* or the shutdown closes it.  The handler takes one step per access to    *)
(* what the goroutine, the writer or the shutdown may touch.               *)
(*                                                                         *)
(* fasthttp is external: a context is reused once its answer is written,   *)
(* an answer not asked for as a stream is read whole, the first close of a *)
(* body stream decides, and a close without an error returns the           *)
(* connection to the pool of the client it came from.                      *)
(***************************************************************************)
EXTENDS Integers, FiniteSets

CONSTANTS
  Requests,  \* allowed requests; each is forwarded once
  Contexts,  \* fasthttp request contexts
  Timeout    \* whether -upstream.timeout is on

ASSUME FlagAssumption == Timeout \in BOOLEAN
ASSUME NobodyAssumption == "nobody" \notin Requests /\ "nowhere" \notin Contexts

VARIABLES
  pc,        \* where the handler is, or the writer of a stream
  ctx,       \* the context each request arrived in
  owner,     \* the request each context serves, or "nobody"
  bytes,     \* whose body the buffer of each context holds
  asked,     \* Accept names text/event-stream
  work,      \* the exchange: carried by the handler, or by the goroutine of within
  outcome,   \* what it returned
  attempts,  \* times it was sent
  kind,      \* what the upstream answered with
  flow,      \* the body of that answer on its connection
  conn,      \* the connection of the request
  late,      \* the deadline has passed
  reaper,    \* a goroutine waits to release what an abandoned forward holds
  released,  \* times the request and the answer were released
  live,      \* the streams in server.live
  found,     \* the streams the shutdown found
  read,      \* upstreamStream.read
  drained,   \* Shutdown ended the streams it found
  failures,  \* times the request raised counters.upstream
  observed,  \* times metrics.Observe ran for it
  sent,      \* ghost: whose body went upstream
  taken,     \* ghost: times the upstream took the request
  foreign    \* ghost: the connection carried what is left of another's answer

context == <<ctx, owner, bytes>>
exchange == <<work, outcome, attempts, kind>>
wire == <<flow, conn>>
streams == <<live, found, read>>
counts == <<failures, observed>>
ghosts == <<sent, taken, foreign>>
vars == <<pc, context, asked, exchange, wire, late, reaper, released, streams, drained,
          counts, ghosts>>

Goto(r, from, to) == pc[r] = from /\ pc' = [pc EXCEPT ![r] = to]

Finish(r, result) ==
  /\ work' = [work EXCEPT ![r] = "finished"]
  /\ outcome' = [outcome EXCEPT ![r] = result]

-----------------------------------------------------------------------------
Init ==
  /\ pc = [r \in Requests |-> "idle"]
  /\ ctx = [r \in Requests |-> "nowhere"]
  /\ owner = [c \in Contexts |-> "nobody"]
  /\ bytes = [c \in Contexts |-> "nobody"]
  /\ asked \in [Requests -> BOOLEAN]
  /\ work = [r \in Requests |-> "off"]
  /\ outcome = [r \in Requests |-> "none"]
  /\ attempts = [r \in Requests |-> 0]
  /\ kind = [r \in Requests |-> "none"]
  /\ flow = [r \in Requests |-> "none"]
  /\ conn = [r \in Requests |-> "none"]
  /\ late = [r \in Requests |-> FALSE]
  /\ reaper = [r \in Requests |-> FALSE]
  /\ released = [r \in Requests |-> 0]
  /\ live = {}
  /\ found = {}
  /\ read = [r \in Requests |-> FALSE]
  /\ drained = FALSE
  /\ failures = [r \in Requests |-> 0]
  /\ observed = [r \in Requests |-> 0]
  /\ sent = [r \in Requests |-> "unsent"]
  /\ taken = [r \in Requests |-> 0]
  /\ foreign = [r \in Requests |-> FALSE]

-----------------------------------------------------------------------------
(* The exchange: Do of the streaming client, DoTimeout of the other one.   *)

\* forward up to do: the exchange starts and the deadline is armed.
Begin(r, c) ==
  /\ Goto(r, "idle", "doing")
  /\ owner[c] = "nobody"
  /\ owner' = [owner EXCEPT ![c] = r]
  /\ ctx' = [ctx EXCEPT ![r] = c]
  /\ bytes' = [bytes EXCEPT ![c] = r]
  /\ work' = [work EXCEPT ![r] = "sending"]
  /\ UNCHANGED <<asked, outcome, attempts, kind, wire, late, reaper, released, streams,
                 drained, counts, ghosts>>

\* Mutant: the body is never copied.
BodySentRaw(r) == bytes[ctx[r]]

\* The bytes that go upstream: a copy where the client asked for a stream, the buffer
\* of the context where it did not.
BodySent(r) == IF asked[r] THEN r ELSE bytes[ctx[r]]

Send(r) ==
  /\ work[r] = "sending"
  /\ work' = [work EXCEPT ![r] = "waiting"]
  /\ attempts' = [attempts EXCEPT ![r] = @ + 1]
  /\ sent' = [sent EXCEPT ![r] =
                IF BodySent(r) # r \/ @ = "foreign" THEN "foreign" ELSE "own"]
  /\ UNCHANGED <<pc, context, asked, outcome, kind, flow, late, reaper, released, streams,
                 drained, counts, taken>>

SendFresh(r) ==
  /\ Send(r)
  /\ conn' = [conn EXCEPT ![r] = "busy"]
  /\ UNCHANGED foreign

\* Each client has a pool of its own.
SendPooled(r, q) ==
  /\ Send(r)
  /\ q # r
  /\ conn[q] = "pooled"
  /\ asked[q] = asked[r]
  /\ conn' = [conn EXCEPT ![r] = "busy", ![q] = "reused"]
  /\ foreign' = [foreign EXCEPT ![r] = (flow[q] = "flowing")]

\* No connection: the dial failed, or none got free in time.
NoConnection(r) ==
  /\ work[r] = "sending"
  /\ Finish(r, "failed")
  /\ UNCHANGED <<pc, context, asked, attempts, kind, wire, late, reaper, released, streams,
                 drained, counts, ghosts>>

\* The streaming client returns at the headers, the other one at the end of the body.
Answer(r, k) ==
  /\ work[r] = "waiting"
  /\ Finish(r, "ok")
  /\ kind' = [kind EXCEPT ![r] = k]
  /\ taken' = [taken EXCEPT ![r] = @ + 1]
  /\ IF asked[r] /\ k \in {"plain", "events"}
     THEN /\ flow' = [flow EXCEPT ![r] = "flowing"]
          /\ UNCHANGED conn
     ELSE /\ conn' = [conn EXCEPT ![r] = IF k = "switch" THEN "closed" ELSE "pooled"]
          /\ UNCHANGED flow
  /\ UNCHANGED <<pc, context, asked, attempts, late, reaper, released, streams, drained,
                 counts, sent, foreign>>

\* Mutant: a second attempt may be retried as well.
RetryAlways(r) == TRUE

\* retryDeadConn
Retry(r) == attempts[r] <= 1

\* The connection fails (EOF, a reset); the upstream may have taken the request.
ConnectionDies(r, saw) ==
  /\ work[r] = "waiting"
  /\ conn' = [conn EXCEPT ![r] = "closed"]
  /\ taken' = [taken EXCEPT ![r] = IF saw THEN @ + 1 ELSE @]
  /\ IF Retry(r)
     THEN /\ work' = [work EXCEPT ![r] = "sending"]
          /\ UNCHANGED outcome
     ELSE Finish(r, "failed")
  /\ UNCHANGED <<pc, context, asked, attempts, kind, flow, late, reaper, released, streams,
                 drained, counts, sent, foreign>>

\* -upstream.timeout passes for a forward that still waits.
Expire(r) ==
  /\ Timeout
  /\ pc[r] \in {"doing", "reading"}
  /\ ~late[r]
  /\ late' = [late EXCEPT ![r] = TRUE]
  /\ UNCHANGED <<pc, context, asked, exchange, wire, reaper, released, streams, drained,
                 counts, ghosts>>

\* The deadline of the connection: the ordinary client has one, the streaming one none.
DoTimesOut(r) ==
  /\ ~asked[r]
  /\ late[r]
  /\ work[r] \in {"sending", "waiting"}
  /\ Finish(r, "timeout")
  /\ conn' = [conn EXCEPT ![r] = IF @ = "busy" THEN "closed" ELSE @]
  /\ UNCHANGED <<pc, context, asked, attempts, kind, flow, late, reaper, released, streams,
                 drained, counts, ghosts>>

-----------------------------------------------------------------------------
(* The goroutine that reads an answer which is no stream after all.        *)

ReadWhole(r, result, to) ==
  /\ work[r] = "reading"
  /\ Finish(r, result)
  /\ flow' = [flow EXCEPT ![r] = to]
  /\ UNCHANGED <<pc, context, asked, attempts, kind, conn, late, reaper, released, streams,
                 drained, counts, ghosts>>

PayloadEnds(r) == flow[r] = "flowing" /\ conn[r] = "busy" /\ ReadWhole(r, "ok", "ended")

PayloadBreaks(r) == flow[r] = "flowing" /\ ReadWhole(r, "failed", "broken")

\* maxBufferedAnswer: the rest is left on the connection.
PayloadTooLarge(r) ==
  flow[r] = "flowing" /\ conn[r] = "busy" /\ ReadWhole(r, "failed", "flowing")

\* A 204 or a 304 leaves no stream to read.
NoPayload(r) == flow[r] = "none" /\ ReadWhole(r, "ok", "none")

-----------------------------------------------------------------------------
(* The handler once the exchange is back.                                  *)

\* Mutant: the count is lowered.
CountFailureDown(r) == failures' = [failures EXCEPT ![r] = @ - 1]

CountFailure(r) == failures' = [failures EXCEPT ![r] = @ + 1]

\* An error, or a 101 nobody asked for.
AnswerUnavailable(r) ==
  /\ pc[r] \in {"doing", "reading"}
  /\ work[r] = "finished"
  /\ outcome[r] # "ok" \/ kind[r] = "switch"
  /\ pc' = [pc EXCEPT ![r] = "returning"]
  /\ CountFailure(r)
  /\ UNCHANGED <<context, asked, exchange, wire, late, reaper, released, streams, drained,
                 observed, ghosts>>

Answered(r) == work[r] = "finished" /\ outcome[r] = "ok" /\ kind[r] # "switch"

IsEventStream(r) == kind[r] \in {"events", "noevents"}

\* Asked for a stream, answered with something else: read whole by another goroutine.
ReadAll(r) ==
  /\ Goto(r, "doing", "reading")
  /\ Answered(r)
  /\ asked[r] /\ ~IsEventStream(r)
  /\ work' = [work EXCEPT ![r] = "reading"]
  /\ outcome' = [outcome EXCEPT ![r] = "none"]
  /\ UNCHANGED <<context, asked, attempts, kind, wire, late, reaper, released, streams,
                 drained, counts, ghosts>>

\* The answer is copied into the context; SetBodyRaw closes a stream read to its end.
CopyAnswer(r) ==
  /\ \/ pc[r] = "doing" /\ (~asked[r] \/ kind[r] = "noevents")
     \/ pc[r] = "reading"
  /\ Answered(r)
  /\ pc' = [pc EXCEPT ![r] = "returning"]
  /\ conn' = [conn EXCEPT ![r] = IF @ = "busy" THEN "pooled" ELSE @]
  /\ UNCHANGED <<context, asked, exchange, flow, late, reaper, released, streams, drained,
                 counts, ghosts>>

\* An event stream becomes the body stream of the context.
RelayStream(r) ==
  /\ Goto(r, "doing", "streamed")
  /\ Answered(r)
  /\ asked[r] /\ kind[r] = "events"
  /\ live' = live \cup {r}
  /\ UNCHANGED <<context, asked, exchange, wire, late, reaper, released, found, read,
                 drained, counts, ghosts>>

\* Mutant: the timer's branch waits for the goroutine.
AbandonWaits(r) ==
  /\ pc[r] \in {"doing", "reading"}
  /\ asked[r] /\ late[r]
  /\ work[r] = "finished"
  /\ conn' = [conn EXCEPT ![r] = IF @ = "busy" THEN "closed" ELSE @]
  /\ reaper' = [reaper EXCEPT ![r] = TRUE]
  /\ pc' = [pc EXCEPT ![r] = "abandoned"]
  /\ CountFailure(r)
  /\ UNCHANGED <<context, asked, exchange, flow, late, released, streams, drained, observed,
                 ghosts>>

\* within, the timer's branch: the body stream is closed where one is seen.  While the
\* exchange runs the field is read without synchronisation, so it may be missed.
Abandon(r) ==
  /\ pc[r] \in {"doing", "reading"}
  /\ asked[r] /\ late[r]
  /\ \E seen \in BOOLEAN :
       /\ seen => flow[r] # "none"
       /\ (pc[r] = "reading" /\ flow[r] # "none") => seen
       /\ conn' = [conn EXCEPT ![r] = IF seen /\ @ = "busy" THEN "closed" ELSE @]
  /\ reaper' = [reaper EXCEPT ![r] = TRUE]
  /\ pc' = [pc EXCEPT ![r] = "abandoned"]
  /\ CountFailure(r)
  /\ UNCHANGED <<context, asked, exchange, flow, late, released, streams, drained, observed,
                 ghosts>>

\* ReleaseRequest and ReleaseResponse: a body stream still open is closed without an
\* error, which returns its connection to the pool.
Release(r, c) ==
  /\ released' = [released EXCEPT ![r] = @ + 1]
  /\ conn' = [conn EXCEPT ![r] = IF c = "busy" THEN "pooled" ELSE c]

\* Mutant: the deferred release runs for an abandoned forward too.
ReturnReleasing(r) ==
  /\ pc[r] \in {"returning", "abandoned", "streamed"}
  /\ pc' = [pc EXCEPT ![r] = "observing"]
  /\ IF pc[r] # "streamed"
     THEN Release(r, conn[r])
     ELSE UNCHANGED <<released, conn>>
  /\ UNCHANGED <<context, asked, exchange, flow, late, reaper, streams, drained, counts,
                 ghosts>>

\* forward returns: what it still owns is released.
Return(r) ==
  /\ pc[r] \in {"returning", "abandoned", "streamed"}
  /\ pc' = [pc EXCEPT ![r] = "observing"]
  /\ IF pc[r] = "returning"
     THEN Release(r, conn[r])
     ELSE UNCHANGED <<released, conn>>
  /\ UNCHANGED <<context, asked, exchange, flow, late, reaper, streams, drained, counts,
                 ghosts>>

FreeContext(r) == owner' = [owner EXCEPT ![ctx[r]] = "nobody"]

\* Mutant: the context is given up before the forward is timed.
ObserveForgets(r) ==
  /\ Goto(r, "observing", IF r \in live THEN "writing" ELSE "over")
  /\ IF r \in live THEN UNCHANGED owner ELSE FreeContext(r)
  /\ UNCHANGED <<ctx, bytes, asked, exchange, wire, late, reaper, released, streams,
                 drained, counts, ghosts>>

\* handle observes and returns.  fasthttp then writes the answer, for as long as a
\* stream lasts, and reuses the context.
Observe(r) ==
  /\ Goto(r, "observing", IF r \in live THEN "writing" ELSE "over")
  /\ observed' = [observed EXCEPT ![r] = @ + 1]
  /\ IF r \in live THEN UNCHANGED owner ELSE FreeContext(r)
  /\ UNCHANGED <<ctx, bytes, asked, exchange, wire, late, reaper, released, streams,
                 drained, failures, ghosts>>

\* The goroutine left behind by within.
Reap(r) ==
  /\ reaper[r]
  /\ work[r] = "finished"
  /\ reaper' = [reaper EXCEPT ![r] = FALSE]
  /\ Release(r, conn[r])
  /\ UNCHANGED <<pc, context, asked, exchange, flow, late, streams, drained, counts,
                 ghosts>>

-----------------------------------------------------------------------------
(* upstreamStream, read by the server as it writes to the client.          *)

StopReading(r, to, eof) ==
  /\ Goto(r, "writing", "closing")
  /\ flow' = [flow EXCEPT ![r] = to]
  /\ read' = [read EXCEPT ![r] = eof]
  /\ UNCHANGED <<context, asked, exchange, conn, late, reaper, released, live, found,
                 drained, counts, ghosts>>

StreamEnds(r) == conn[r] = "busy" /\ StopReading(r, "ended", TRUE)

StreamBreaks(r) == conn[r] = "busy" /\ StopReading(r, "broken", FALSE)

StreamClosed(r) == conn[r] = "closed" /\ StopReading(r, flow[r], FALSE)

\* Writing an event fails: its client left.
ClientLeft(r) == conn[r] = "busy" /\ StopReading(r, flow[r], FALSE)

\* The client takes nothing more: the writer waits, and a stream's write deadline is a
\* hundred years away.
ClientStalls(r) ==
  /\ Goto(r, "writing", "blocked")
  /\ UNCHANGED <<context, asked, exchange, wire, late, reaper, released, streams, drained,
                 counts, ghosts>>

\* It does again, or its connection is gone: the write returns, and there is more to read
\* unless the stream was closed.
ClientTakes(r) ==
  /\ Goto(r, "blocked", IF conn[r] = "busy" THEN "writing" ELSE "closing")
  /\ UNCHANGED <<context, asked, exchange, wire, late, reaper, released, streams, drained,
                 counts, ghosts>>

\* Mutant: what a stream was read from is released, however it ended.
CloseClean(r) ==
  /\ Goto(r, "closing", "over")
  /\ live' = live \ {r}
  /\ Release(r, conn[r])
  /\ FreeContext(r)
  /\ UNCHANGED <<ctx, bytes, asked, exchange, flow, late, reaper, found, read, drained,
                 counts, ghosts>>

Close(r) ==
  /\ Goto(r, "closing", "over")
  /\ live' = live \ {r}
  /\ Release(r, IF ~read[r] /\ conn[r] = "busy" THEN "closed" ELSE conn[r])
  /\ FreeContext(r)
  /\ UNCHANGED <<ctx, bytes, asked, exchange, flow, late, reaper, found, read, drained,
                 counts, ghosts>>

\* Mutant: the streams are left to end by themselves.
EndNoStreams ==
  /\ ~drained
  /\ drained' = TRUE
  /\ found' = live
  /\ UNCHANGED <<pc, context, asked, exchange, wire, late, reaper, released, live, read,
                 counts, ghosts>>

\* Shutdown ends the streams it finds, then waits.
EndStreams ==
  /\ ~drained
  /\ drained' = TRUE
  /\ found' = live
  /\ conn' = [r \in Requests |-> IF r \in live /\ conn[r] = "busy" THEN "closed"
                                                                    ELSE conn[r]]
  /\ UNCHANGED <<pc, context, asked, exchange, flow, late, reaper, released, live, read,
                 counts, ghosts>>

-----------------------------------------------------------------------------
Handler(r) ==
  \/ AnswerUnavailable(r) \/ ReadAll(r) \/ CopyAnswer(r) \/ RelayStream(r) \/ Abandon(r)
  \/ Return(r) \/ Observe(r)

Writer(r) == StreamClosed(r) \/ Close(r)

Goroutine(r) == NoPayload(r) \/ Reap(r)

Runtime(r) == Expire(r) \/ DoTimesOut(r)

ClientDoes(r) == ClientLeft(r) \/ ClientStalls(r) \/ ClientTakes(r)

Network(r) ==
  \/ SendFresh(r) \/ \E q \in Requests : SendPooled(r, q)
  \/ NoConnection(r)
  \/ \E k \in {"plain", "empty", "events", "noevents", "switch"} : Answer(r, k)
  \/ \E saw \in BOOLEAN : ConnectionDies(r, saw)
  \/ PayloadEnds(r) \/ PayloadBreaks(r) \/ PayloadTooLarge(r)
  \/ StreamEnds(r) \/ StreamBreaks(r)
  \/ ClientDoes(r)

Next ==
  \/ EndStreams
  \/ \E r \in Requests :
       \/ \E c \in Contexts : Begin(r, c)
       \/ Handler(r) \/ Writer(r) \/ Goroutine(r) \/ Runtime(r) \/ Network(r)

Spec == Init /\ [][Next]_vars

\* Handlers, the server's writer, timers and connection deadlines run.  Neither the
\* upstream nor the client owes a step.
Fairness ==
  \A r \in Requests :
    WF_vars(Handler(r)) /\ WF_vars(Writer(r)) /\ WF_vars(Runtime(r))

FairSpec == Spec /\ Fairness

-----------------------------------------------------------------------------
TypeOK ==
  /\ pc \in [Requests -> {"idle", "doing", "reading", "returning", "abandoned", "streamed",
                          "observing", "writing", "blocked", "closing", "over"}]
  /\ ctx \in [Requests -> Contexts \cup {"nowhere"}]
  /\ owner \in [Contexts -> Requests \cup {"nobody"}]
  /\ bytes \in [Contexts -> Requests \cup {"nobody"}]
  /\ asked \in [Requests -> BOOLEAN]
  /\ work \in [Requests -> {"off", "sending", "waiting", "reading", "finished"}]
  /\ outcome \in [Requests -> {"none", "ok", "failed", "timeout"}]
  /\ attempts \in [Requests -> Nat]
  /\ kind \in [Requests -> {"none", "plain", "empty", "events", "noevents", "switch"}]
  /\ flow \in [Requests -> {"none", "flowing", "ended", "broken"}]
  /\ conn \in [Requests -> {"none", "busy", "pooled", "reused", "closed"}]
  /\ late \in [Requests -> BOOLEAN]
  /\ reaper \in [Requests -> BOOLEAN]
  /\ released \in [Requests -> Nat]
  /\ live \subseteq Requests
  /\ found \subseteq Requests
  /\ read \in [Requests -> BOOLEAN]
  /\ drained \in BOOLEAN
  /\ failures \in [Requests -> Nat]
  /\ observed \in [Requests -> Nat]
  /\ sent \in [Requests -> {"unsent", "own", "foreign"}]
  /\ taken \in [Requests -> Nat]
  /\ foreign \in [Requests -> BOOLEAN]

\* The request and the answer are released once, by the last of the handler, the
\* goroutine of an abandoned forward and the writer of a stream, and never while one of
\* them uses them (proxyfast.go:445-451, 362-366, 635-641).
ReleasedByLastUser ==
  \A r \in Requests :
    /\ released[r] <= 1
    /\ released[r] = 1 => /\ work[r] = "finished"
                          /\ pc[r] \in {"abandoned", "observing", "over"}
                          /\ r \notin live /\ ~reaper[r]
    /\ (pc[r] = "over" /\ ~reaper[r]) => released[r] = 1

\* The bytes that were hashed are the bytes that go upstream, though an abandoned
\* forward may be sent again after its context serves another request
\* (proxyfast.go:482-495).
SameBytesUpstream == \A r \in Requests : sent[r] # "foreign"

\* The upstream takes a request twice at most: a forward whose connection failed goes
\* again once, abandoned or not, and its retry does not (proxyfast.go:201-205, 318-329).
TakenAgainOnlyOnce == \A r \in Requests : taken[r] <= 2

\* A stream that failed nothing and was left in its middle, by its client or for the
\* shutdown, does not return its connection to the pool (proxyfast.go:397-404).
LeftStreamRetired ==
  \A r \in Requests :
    (failures[r] = 0 /\ flow[r] = "flowing") => conn[r] \notin {"pooled", "reused"}

\* What is counted and timed is what either data plane promises (proxyfast.go:305-315).
R == INSTANCE Relay WITH
       phase <- [r \in Requests |-> IF pc[r] \in {"idle", "over"} THEN pc[r] ELSE "going"]
RelaySpec == R!Spec

\* Under -upstream.timeout a forward is answered whatever the upstream does, and naming
\* text/event-stream buys no wider bound: only an event stream that was asked for may
\* last (proxyfast.go:615-621).
AnsweredInTime ==
  \A r \in Requests :
    (Timeout /\ pc[r] = "doing") ~> (pc[r] \in {"writing", "over"})

\* A stream the shutdown found comes to its end (proxyfast.go:234-240), unless its client
\* takes nothing for good: closing the upstream's end does not end that write.  Of a
\* stream that is stored after the shutdown looked it says nothing.
FoundStreamsEnd ==
  \A r \in Requests : []<>(pc[r] # "blocked") => (r \in found ~> pc[r] = "over")

\* A forward ends of its own or is ended (proxyfast.go:234-240, 615-621).
ForwardsEnd == AnsweredInTime /\ FoundStreamsEnd

\* No forward is carried over a connection on which another's answer is still arriving
\* (proxyfast.go:397-404).
OwnAnswers == \A r \in Requests : ~foreign[r]
==============================================================================
