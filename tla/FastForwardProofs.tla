-------------------------- MODULE FastForwardProofs ---------------------------
(***************************************************************************)
(* Theorems about FastForward, for any requests and any contexts.  A step  *)
(* is one request's, but that a connection of one pool serves another      *)
(* request, and that the shutdown closes the streams of all.               *)
(***************************************************************************)
EXTENDS FastForward, TLAPS

Actions(r) ==
  \/ \E c \in Contexts : Begin(r, c)
  \/ Handler(r) \/ Writer(r) \/ Goroutine(r) \/ Runtime(r) \/ Network(r)

LEMMA InitType == Init => TypeOK
<1> SUFFICES ASSUME Init PROVE TypeOK
  OBVIOUS
<1> USE DEF Init
<1>1. /\ pc \in [Requests -> {"idle"}]
      /\ ctx \in [Requests -> Contexts \cup {"nowhere"}]
      /\ owner \in [Contexts -> Requests \cup {"nobody"}]
      /\ bytes \in [Contexts -> Requests \cup {"nobody"}]
  OBVIOUS
<1>2. /\ work \in [Requests -> {"off"}] /\ outcome \in [Requests -> {"none"}]
      /\ kind \in [Requests -> {"none"}] /\ flow \in [Requests -> {"none"}]
      /\ conn \in [Requests -> {"none"}] /\ sent \in [Requests -> {"unsent"}]
  OBVIOUS
<1>3. /\ late \in [Requests -> BOOLEAN] /\ reaper \in [Requests -> BOOLEAN]
      /\ read \in [Requests -> BOOLEAN] /\ foreign \in [Requests -> BOOLEAN]
  OBVIOUS
<1>4. /\ attempts \in [Requests -> Nat] /\ released \in [Requests -> Nat]
      /\ failures \in [Requests -> Nat] /\ observed \in [Requests -> Nat]
      /\ taken \in [Requests -> Nat]
  OBVIOUS
<1> QED
  BY <1>1, <1>2, <1>3, <1>4 DEF TypeOK

LEMMA ReleaseType ==
  ASSUME TypeOK, NEW r \in Requests, NEW c \in {"none", "busy", "pooled", "reused", "closed"},
         Release(r, c)
  PROVE  /\ released' \in [Requests -> Nat]
         /\ conn' \in [Requests -> {"none", "busy", "pooled", "reused", "closed"}]
  BY DEF TypeOK, Release

LEMMA NextType == TypeOK /\ [Next]_vars => TypeOK'
<1> SUFFICES ASSUME TypeOK, [Next]_vars PROVE TypeOK'
  OBVIOUS
<1> USE DEF context, exchange, wire, streams, counts, ghosts, Finish, Goto
<1>1. CASE EndStreams
  BY <1>1 DEF EndStreams, TypeOK
<1>2. ASSUME NEW r \in Requests, Actions(r) PROVE TypeOK'
  <2>1. ASSUME NEW c \in Contexts, Begin(r, c) PROVE TypeOK'
    BY <2>1 DEF Begin, TypeOK
  <2>2. CASE Handler(r)
    <3>1. CASE AnswerUnavailable(r)
      BY <3>1 DEF AnswerUnavailable, CountFailure, TypeOK
    <3>2. CASE ReadAll(r)
      BY <3>2 DEF ReadAll, TypeOK
    <3>3. CASE CopyAnswer(r)
      BY <3>3 DEF CopyAnswer, TypeOK
    <3>4. CASE RelayStream(r)
      BY <3>4 DEF RelayStream, TypeOK
    <3>5. CASE Abandon(r)
      BY <3>5 DEF Abandon, CountFailure, TypeOK
    <3>6. CASE Return(r)
      <4>1. CASE pc[r] = "returning"
        <5>1. Release(r, conn[r]) /\ conn[r] \in {"none", "busy", "pooled", "reused", "closed"}
          BY <3>6, <4>1 DEF Return, TypeOK
        <5> QED
          BY <3>6, <5>1, ReleaseType DEF Return, TypeOK
      <4>2. CASE pc[r] # "returning"
        BY <3>6, <4>2 DEF Return, TypeOK
      <4> QED BY <4>1, <4>2
    <3>7. CASE Observe(r)
      BY <3>7 DEF Observe, FreeContext, TypeOK
    <3> QED
      BY <2>2, <3>1, <3>2, <3>3, <3>4, <3>5, <3>6, <3>7 DEF Handler
  <2>3. CASE Writer(r)
    <3>1. CASE StreamClosed(r)
      BY <3>1 DEF StreamClosed, StopReading, TypeOK
    <3>2. CASE Close(r)
      <4>1. PICK c \in {"none", "busy", "pooled", "reused", "closed"} : Release(r, c)
        BY <3>2 DEF Close, TypeOK
      <4>2. /\ pc' = [pc EXCEPT ![r] = "over"] /\ live' = live \ {r}
            /\ owner' = [owner EXCEPT ![ctx[r]] = "nobody"]
        BY <3>2 DEF Close, FreeContext
      <4>3. UNCHANGED <<ctx, bytes, asked, exchange, flow, late, reaper, found, read, drained,
                        counts, ghosts>>
        BY <3>2 DEF Close
      <4>4. /\ released' \in [Requests -> Nat]
            /\ conn' \in [Requests -> {"none", "busy", "pooled", "reused", "closed"}]
        BY <4>1, ReleaseType
      <4> QED
        BY <4>2, <4>3, <4>4 DEF TypeOK
    <3> QED
      BY <2>3, <3>1, <3>2 DEF Writer
  <2>4. CASE Goroutine(r)
    <3>1. CASE NoPayload(r)
      BY <3>1 DEF NoPayload, ReadWhole, TypeOK
    <3>2. CASE Reap(r)
      BY <3>2 DEF Reap, Release, TypeOK
    <3> QED
      BY <2>4, <3>1, <3>2 DEF Goroutine
  <2>5. CASE Runtime(r)
    <3>1. CASE Expire(r)
      BY <3>1 DEF Expire, TypeOK
    <3>2. CASE DoTimesOut(r)
      BY <3>2 DEF DoTimesOut, TypeOK
    <3> QED
      BY <2>5, <3>1, <3>2 DEF Runtime
  <2>6. CASE Network(r)
    <3>1. CASE SendFresh(r)
      BY <3>1 DEF SendFresh, Send, TypeOK
    <3>2. ASSUME NEW q \in Requests, SendPooled(r, q) PROVE TypeOK'
      BY <3>2 DEF SendPooled, Send, TypeOK
    <3>3. CASE NoConnection(r)
      BY <3>3 DEF NoConnection, TypeOK
    <3>4. ASSUME NEW k \in {"plain", "empty", "events", "noevents", "switch"}, Answer(r, k)
          PROVE  TypeOK'
      BY <3>4 DEF Answer, TypeOK
    <3>5. ASSUME NEW saw \in BOOLEAN, ConnectionDies(r, saw) PROVE TypeOK'
      <4>1. /\ conn' = [conn EXCEPT ![r] = "closed"]
            /\ taken' = [taken EXCEPT ![r] = IF saw THEN @ + 1 ELSE @]
            /\ UNCHANGED <<pc, context, asked, attempts, kind, flow, late, reaper, released,
                           streams, drained, counts, sent, foreign>>
        BY <3>5 DEF ConnectionDies
      <4>2. taken' \in [Requests -> Nat]
        BY <4>1 DEF TypeOK
      <4>3. /\ work' \in [Requests -> {"off", "sending", "waiting", "reading", "finished"}]
            /\ outcome' \in [Requests -> {"none", "ok", "failed", "timeout"}]
        BY <3>5 DEF ConnectionDies, TypeOK
      <4>4. conn' \in [Requests -> {"none", "busy", "pooled", "reused", "closed"}]
        BY <4>1 DEF TypeOK
      <4> QED
        BY <4>1, <4>2, <4>3, <4>4 DEF TypeOK
    <3>6. CASE PayloadEnds(r) \/ PayloadBreaks(r) \/ PayloadTooLarge(r)
      BY <3>6 DEF PayloadEnds, PayloadBreaks, PayloadTooLarge, ReadWhole, TypeOK
    <3>7. CASE StreamEnds(r)
      BY <3>7 DEF StreamEnds, StopReading, TypeOK
    <3>8. CASE StreamBreaks(r)
      BY <3>8 DEF StreamBreaks, StopReading, TypeOK
    <3>9. CASE ClientDoes(r)
      <4>1. CASE ClientLeft(r)
        BY <4>1 DEF ClientLeft, StopReading, TypeOK
      <4>2. CASE ClientStalls(r)
        BY <4>2 DEF ClientStalls, TypeOK
      <4>3. CASE ClientTakes(r)
        BY <4>3 DEF ClientTakes, TypeOK
      <4> QED
        BY <3>9, <4>1, <4>2, <4>3 DEF ClientDoes
    <3> QED
      BY <2>6, <3>1, <3>2, <3>3, <3>4, <3>5, <3>6, <3>7, <3>8, <3>9 DEF Network
  <2> QED
    BY <1>2, <2>1, <2>2, <2>3, <2>4, <2>5, <2>6 DEF Actions
<1>3. CASE UNCHANGED vars
  BY <1>3 DEF vars, TypeOK
<1> QED
  BY <1>1, <1>2, <1>3 DEF Next, Actions

\* Every variable keeps its type (FastForward, TypeOK).
THEOREM TypeCorrect == Spec => []TypeOK
  BY InitType, NextType, PTL DEF Spec

-----------------------------------------------------------------------------
(* The invariant: what holds of a forward wherever its handler, its        *)
(* goroutine, its writer and the shutdown are.                             *)

InService ==
  {"doing", "reading", "returning", "abandoned", "streamed", "observing", "writing",
   "blocked", "closing"}
Left == {"abandoned", "observing", "over"}

\* A forward has its context, and the buffer of it, until it is over.
Owned(r) ==
  pc[r] \in InService => ctx[r] \in Contexts /\ owner[ctx[r]] = r /\ bytes[ctx[r]] = r

\* Who carries the exchange: only what asked for a stream outlasts its handler.
Carried(r) ==
  /\ pc[r] = "idle" => work[r] = "off"
  /\ pc[r] = "doing" => work[r] \in {"sending", "waiting", "finished"}
  /\ pc[r] = "reading" => work[r] \in {"reading", "finished"} /\ asked[r]
  /\ pc[r] \in {"returning", "streamed", "writing", "blocked", "closing"} => work[r] = "finished"
  /\ pc[r] \in Left => work[r] = "finished" \/ reaper[r]
  /\ reaper[r] => asked[r]

\* Once the handler let go, one of three has the request and the answer: the goroutine,
\* the writer, or nobody any more.
Users(r) ==
  /\ released[r] = 0 \/ (released[r] = 1 /\ pc[r] \in Left /\ work[r] = "finished")
  /\ reaper[r] => pc[r] \in Left /\ released[r] = 0
  /\ r \in live =>
       /\ pc[r] \in {"streamed", "observing", "writing", "blocked", "closing"}
       /\ released[r] = 0 /\ ~reaper[r]
       /\ asked[r] /\ kind[r] = "events"
  /\ pc[r] \in {"streamed", "writing", "blocked", "closing"} => r \in live
  /\ pc[r] \in Left => reaper[r] \/ released[r] = 1 \/ r \in live

Tries(r) ==
  /\ attempts[r] <= 2
  /\ taken[r] <= attempts[r]
  /\ work[r] \in {"off", "sending"} => attempts[r] <= 1
  /\ work[r] = "waiting" => taken[r] < attempts[r]

Counted(r) ==
  /\ failures[r] \in {0, 1}
  /\ failures[r] = 1 => pc[r] \in {"returning"} \cup Left /\ r \notin live
  /\ observed[r] = IF pc[r] \in {"writing", "blocked", "closing", "over"} THEN 1 ELSE 0
  /\ pc[r] = "abandoned" \/ reaper[r] => failures[r] = 1

\* Only a connection that failed someone carries the rest of an answer into the pool.
Wired(r) ==
  /\ work[r] = "waiting" => conn[r] = "busy"
  /\ work[r] \in {"off", "sending", "waiting"} => flow[r] = "none"
  /\ flow[r] = "flowing" => conn[r] \in {"busy", "closed"} \/ failures[r] = 1
  /\ flow[r] # "none" => asked[r] /\ kind[r] \in {"plain", "events"}
  /\ pc[r] = "reading" /\ Answered(r) => flow[r] # "flowing"
  /\ pc[r] = "returning" /\ flow[r] = "flowing" => failures[r] = 1
  /\ read[r] => flow[r] = "ended"

ForwardInv(r) ==
  Carried(r) /\ Users(r) /\ Tries(r) /\ Counted(r) /\ Wired(r) /\ sent[r] # "foreign"

Inv == \A r \in Requests : Owned(r) /\ ForwardInv(r)

LEMMA InitInv == Init => Inv
<1> SUFFICES ASSUME Init, NEW r \in Requests PROVE Owned(r) /\ ForwardInv(r)
  BY DEF Inv
<1> USE DEF Init, InService, Left
<1>1. Owned(r) /\ Carried(r) /\ Users(r)
  BY DEF Owned, Carried, Users
<1>2. Tries(r) /\ Counted(r) /\ Wired(r) /\ sent[r] # "foreign"
  BY DEF Tries, Counted, Wired, Answered
<1> QED
  BY <1>1, <1>2 DEF ForwardInv
-----------------------------------------------------------------------------
(* Contexts.                                                               *)

\* No context changes hands, and no forward gets one.
Sits ==
  /\ UNCHANGED context
  /\ \A o \in Requests : pc'[o] \in InService => pc[o] \in InService

LEMMA SitsKeeps ==
  ASSUME \A o \in Requests : Owned(o), Sits PROVE \A o \in Requests : Owned(o)'
  BY DEF Owned, Sits, context

LEMMA MostSit ==
  ASSUME TypeOK, NEW r \in Requests, Handler(r) \/ Writer(r) \/ Goroutine(r) \/ Runtime(r) \/
           Network(r)
  PROVE  Sits \/ Observe(r) \/ Close(r)
<1> USE DEF Sits, InService, Goto, TypeOK
<1>1. CASE Handler(r)
  <2>1. CASE AnswerUnavailable(r) \/ Abandon(r)
    BY <2>1 DEF AnswerUnavailable, Abandon
  <2>2. CASE ReadAll(r) \/ CopyAnswer(r) \/ RelayStream(r)
    BY <2>2 DEF ReadAll, CopyAnswer, RelayStream
  <2>3. CASE Return(r)
    BY <2>3 DEF Return
  <2> QED
    BY <1>1, <2>1, <2>2, <2>3 DEF Handler
<1>2. CASE Writer(r)
  BY <1>2 DEF Writer, StreamClosed, StopReading
<1>3. CASE Goroutine(r)
  BY <1>3 DEF Goroutine, NoPayload, ReadWhole, Reap
<1>4. CASE Runtime(r)
  BY <1>4 DEF Runtime, Expire, DoTimesOut
<1>5. CASE Network(r)
  <2>1. CASE SendFresh(r) \/ \E q \in Requests : SendPooled(r, q)
    BY <2>1 DEF SendFresh, SendPooled, Send
  <2>2. CASE NoConnection(r) \/ PayloadEnds(r) \/ PayloadBreaks(r) \/ PayloadTooLarge(r)
    BY <2>2 DEF NoConnection, PayloadEnds, PayloadBreaks, PayloadTooLarge, ReadWhole
  <2>3. CASE \E k \in {"plain", "empty", "events", "noevents", "switch"} : Answer(r, k)
    BY <2>3 DEF Answer
  <2>4. CASE \E saw \in BOOLEAN : ConnectionDies(r, saw)
    BY <2>4 DEF ConnectionDies
  <2>5. CASE StreamEnds(r) \/ StreamBreaks(r) \/ ClientDoes(r)
    BY <2>5 DEF StreamEnds, StreamBreaks, ClientDoes, ClientLeft, ClientStalls,
                ClientTakes, StopReading
  <2> QED
    BY <1>5, <2>1, <2>2, <2>3, <2>4, <2>5 DEF Network
<1> QED
  BY <1>1, <1>2, <1>3, <1>4, <1>5

LEMMA NextOwned ==
  ASSUME TypeOK, \A o \in Requests : Owned(o), [Next]_vars
  PROVE  \A o \in Requests : Owned(o)'
<1>1. CASE EndStreams \/ UNCHANGED vars
  BY <1>1, SitsKeeps DEF EndStreams, vars, Sits
<1>2. ASSUME NEW r \in Requests, NEW c \in Contexts, Begin(r, c)
      PROVE  \A o \in Requests : Owned(o)'
  BY <1>2, NobodyAssumption DEF Begin, Goto, Owned, InService, TypeOK
<1>3. ASSUME NEW r \in Requests, Observe(r) PROVE \A o \in Requests : Owned(o)'
  BY <1>3 DEF Observe, FreeContext, Goto, Owned, InService, TypeOK
<1>4. ASSUME NEW r \in Requests, Close(r) PROVE \A o \in Requests : Owned(o)'
  BY <1>4 DEF Close, FreeContext, Goto, Owned, InService, TypeOK
<1> QED
  BY <1>1, <1>2, <1>3, <1>4, MostSit, SitsKeeps DEF Next

-----------------------------------------------------------------------------
(* A step of one request is aside of the others.                           *)

Aside(o) ==
  /\ pc'[o] = pc[o] /\ asked'[o] = asked[o] /\ sent'[o] = sent[o]
  /\ work'[o] = work[o] /\ outcome'[o] = outcome[o]
  /\ attempts'[o] = attempts[o] /\ kind'[o] = kind[o]
  /\ flow'[o] = flow[o] /\ reaper'[o] = reaper[o] /\ released'[o] = released[o]
  /\ (o \in live') = (o \in live) /\ read'[o] = read[o]
  /\ failures'[o] = failures[o] /\ observed'[o] = observed[o] /\ taken'[o] = taken[o]
  /\ \/ conn'[o] = conn[o]
     \/ conn[o] = "pooled" /\ conn'[o] = "reused"
     \/ o \in live /\ conn'[o] = "closed"

LEMMA AsideKeeps ==
  ASSUME NEW o \in Requests, ForwardInv(o), Aside(o)
  PROVE  ForwardInv(o)'
<1> USE DEF ForwardInv, Aside, Left
<1>1. Carried(o)' /\ Users(o)'
  BY DEF Carried, Users
<1>2. Tries(o)' /\ Counted(o)'
  BY DEF Tries, Counted
<1>3. Wired(o)'
  BY DEF Wired, Carried, Users, Answered
<1> QED
  BY <1>1, <1>2, <1>3

LEMMA OthersAside ==
  ASSUME TypeOK, NEW r \in Requests, Actions(r), NEW o \in Requests \ {r}
  PROVE  Aside(o)
<1> USE DEF Aside, TypeOK, Goto, Finish, exchange, wire, streams, counts, ghosts
<1>1. ASSUME NEW c \in Contexts, Begin(r, c) PROVE Aside(o)
  BY <1>1 DEF Begin
<1>2. CASE Handler(r)
  <2>1. CASE AnswerUnavailable(r) \/ Abandon(r)
    BY <2>1 DEF AnswerUnavailable, Abandon, CountFailure
  <2>2. CASE ReadAll(r) \/ CopyAnswer(r) \/ RelayStream(r)
    BY <2>2 DEF ReadAll, CopyAnswer, RelayStream
  <2>3. CASE Return(r)
    BY <2>3 DEF Return, Release
  <2>4. CASE Observe(r)
    BY <2>4 DEF Observe
  <2> QED
    BY <1>2, <2>1, <2>2, <2>3, <2>4 DEF Handler
<1>3. CASE Writer(r)
  BY <1>3 DEF Writer, StreamClosed, StopReading, Close, Release
<1>4. CASE Goroutine(r)
  BY <1>4 DEF Goroutine, NoPayload, ReadWhole, Reap, Release
<1>5. CASE Runtime(r)
  BY <1>5 DEF Runtime, Expire, DoTimesOut
<1>6. CASE Network(r)
  <2>1. CASE SendFresh(r)
    BY <2>1 DEF SendFresh, Send
  <2>2. ASSUME NEW q \in Requests, SendPooled(r, q) PROVE Aside(o)
    BY <2>2 DEF SendPooled, Send
  <2>3. CASE NoConnection(r) \/ PayloadEnds(r) \/ PayloadBreaks(r) \/ PayloadTooLarge(r)
    BY <2>3 DEF NoConnection, PayloadEnds, PayloadBreaks, PayloadTooLarge, ReadWhole
  <2>4. CASE \E k \in {"plain", "empty", "events", "noevents", "switch"} : Answer(r, k)
    BY <2>4 DEF Answer
  <2>5. CASE \E saw \in BOOLEAN : ConnectionDies(r, saw)
    BY <2>5 DEF ConnectionDies
  <2>6. CASE StreamEnds(r) \/ StreamBreaks(r) \/ ClientDoes(r)
    BY <2>6 DEF StreamEnds, StreamBreaks, ClientDoes, ClientLeft, ClientStalls,
                ClientTakes, StopReading
  <2> QED
    BY <1>6, <2>1, <2>2, <2>3, <2>4, <2>5, <2>6 DEF Network
<1> QED
  BY <1>1, <1>2, <1>3, <1>4, <1>5, <1>6 DEF Actions

LEMMA EndStreamsAside ==
  ASSUME TypeOK, EndStreams, NEW o \in Requests PROVE Aside(o)
  BY DEF EndStreams, Aside, TypeOK, exchange, streams, counts, ghosts

-----------------------------------------------------------------------------
LEMMA OwnKeeps ==
  ASSUME TypeOK, NEW r \in Requests, Owned(r), ForwardInv(r), Actions(r)
  PROVE  ForwardInv(r)'
<1> USE DEF ForwardInv, Carried, Users, Tries, Counted, Wired, Answered, Left, TypeOK, Goto,
            Finish, context, exchange, wire, streams, counts, ghosts
<1>1. ASSUME NEW c \in Contexts, Begin(r, c) PROVE ForwardInv(r)'
  BY <1>1 DEF Begin
<1>2. CASE Handler(r)
  <2>1. CASE AnswerUnavailable(r)
    BY <2>1 DEF AnswerUnavailable, CountFailure
  <2>2. CASE ReadAll(r)
    BY <2>2 DEF ReadAll
  <2>3. CASE CopyAnswer(r)
    BY <2>3 DEF CopyAnswer
  <2>4. CASE RelayStream(r)
    BY <2>4 DEF RelayStream
  <2>5. CASE Abandon(r)
    BY <2>5 DEF Abandon, CountFailure
  <2>6. CASE Return(r)
    BY <2>6 DEF Return, Release
  <2>7. CASE Observe(r)
    BY <2>7 DEF Observe
  <2> QED
    BY <1>2, <2>1, <2>2, <2>3, <2>4, <2>5, <2>6, <2>7 DEF Handler
<1>3. CASE Writer(r)
  <2>1. CASE StreamClosed(r)
    BY <2>1 DEF StreamClosed, StopReading
  <2>2. CASE Close(r)
    BY <2>2 DEF Close, Release
  <2> QED
    BY <1>3, <2>1, <2>2 DEF Writer
<1>4. CASE Goroutine(r)
  <2>1. CASE NoPayload(r)
    BY <2>1 DEF NoPayload, ReadWhole
  <2>2. CASE Reap(r)
    BY <2>2 DEF Reap, Release
  <2> QED
    BY <1>4, <2>1, <2>2 DEF Goroutine
<1>5. CASE Runtime(r)
  <2>1. CASE Expire(r)
    BY <2>1 DEF Expire
  <2>2. CASE DoTimesOut(r)
    BY <2>2 DEF DoTimesOut
  <2> QED
    BY <1>5, <2>1, <2>2 DEF Runtime
<1>6. CASE Network(r)
  <2>0. BodySent(r) = r \/ work[r] # "sending"
    BY DEF BodySent, Owned, InService
  <2>1. CASE SendFresh(r)
    BY <2>0, <2>1 DEF SendFresh, Send
  <2>2. ASSUME NEW q \in Requests, SendPooled(r, q) PROVE ForwardInv(r)'
    BY <2>0, <2>2 DEF SendPooled, Send
  <2>3. CASE NoConnection(r)
    BY <2>3 DEF NoConnection
  <2>4. ASSUME NEW k \in {"plain", "empty", "events", "noevents", "switch"}, Answer(r, k)
        PROVE  ForwardInv(r)'
    BY <2>4 DEF Answer
  <2>5. ASSUME NEW saw \in BOOLEAN, ConnectionDies(r, saw) PROVE ForwardInv(r)'
    BY <2>5 DEF ConnectionDies, Retry
  <2>6. CASE PayloadEnds(r)
    BY <2>6 DEF PayloadEnds, ReadWhole
  <2>7. CASE PayloadBreaks(r)
    BY <2>7 DEF PayloadBreaks, ReadWhole
  <2>8. CASE PayloadTooLarge(r)
    BY <2>8 DEF PayloadTooLarge, ReadWhole
  <2>9. CASE StreamEnds(r)
    BY <2>9 DEF StreamEnds, StopReading
  <2>10. CASE StreamBreaks(r)
    BY <2>10 DEF StreamBreaks, StopReading
  <2>11. CASE ClientDoes(r)
    BY <2>11 DEF ClientDoes, ClientLeft, ClientStalls, ClientTakes, StopReading
  <2> QED
    BY <1>6, <2>1, <2>2, <2>3, <2>4, <2>5, <2>6, <2>7, <2>8, <2>9, <2>10, <2>11 DEF Network
<1> QED
  BY <1>1, <1>2, <1>3, <1>4, <1>5, <1>6 DEF Actions

LEMMA NextInv == TypeOK /\ Inv /\ [Next]_vars => Inv'
<1> SUFFICES ASSUME TypeOK, Inv, [Next]_vars PROVE Inv'
  OBVIOUS
<1>1. \A o \in Requests : Owned(o)'
  BY NextOwned DEF Inv
<1>2. ASSUME NEW o \in Requests PROVE ForwardInv(o)'
  <2>1. CASE UNCHANGED vars
    <3>1. Aside(o)
      BY <2>1 DEF vars, exchange, wire, streams, counts, ghosts, Aside
    <3> QED BY <3>1, AsideKeeps DEF Inv
  <2>2. CASE EndStreams
    BY <2>2, EndStreamsAside, AsideKeeps DEF Inv
  <2>3. ASSUME NEW r \in Requests, Actions(r) PROVE ForwardInv(o)'
    BY <2>3, OthersAside, AsideKeeps, OwnKeeps DEF Inv
  <2> QED
    BY <2>1, <2>2, <2>3 DEF Next, Actions
<1> QED
  BY <1>1, <1>2 DEF Inv

LEMMA Invariance == Spec => []Inv
  BY InitInv, NextInv, TypeCorrect, PTL DEF Spec

\* The request and the answer are released once, by the last that uses them, though three
\* may be the last (proxyfast.go:445-451, 362-366, 635-641).
THEOREM ReleasedOnce == Spec => []ReleasedByLastUser
<1>1. Inv => ReleasedByLastUser
  BY DEF Inv, ForwardInv, Users, Carried, Left, ReleasedByLastUser
<1> QED BY <1>1, Invariance, PTL

\* The bytes that were hashed are the bytes that go upstream, on the second attempt as on
\* the first, and from an abandoned forward (proxyfast.go:482-495).
THEOREM BytesKept == Spec => []SameBytesUpstream
<1>1. Inv => SameBytesUpstream
  BY DEF Inv, ForwardInv, SameBytesUpstream
<1> QED BY <1>1, Invariance, PTL

\* The upstream takes a request twice at most (proxyfast.go:201-205, 318-329).
THEOREM TakenTwiceAtMost == Spec => []TakenAgainOnlyOnce
<1>1. TypeOK /\ Inv => TakenAgainOnlyOnce
  BY DEF Inv, ForwardInv, Tries, TakenAgainOnlyOnce, TypeOK
<1> QED BY <1>1, Invariance, TypeCorrect, PTL

\* A stream that failed nothing and was left in its middle does not return its connection
\* to the pool (proxyfast.go:397-404).
THEOREM LeftStreamsRetire == Spec => []LeftStreamRetired
<1>1. Inv => LeftStreamRetired
  BY DEF Inv, ForwardInv, Wired, LeftStreamRetired
<1> QED BY <1>1, Invariance, PTL

-----------------------------------------------------------------------------
(* FastForward implements Relay.                                           *)

Enters(r) ==
  pc[r] = "idle" /\ pc' = [pc EXCEPT ![r] = "doing"] /\ UNCHANGED <<failures, observed>>

Goes(r) ==
  /\ pc[r] \in InService
  /\ \E to \in InService \cup {"over"} : pc' = [pc EXCEPT ![r] = to]
  /\ UNCHANGED failures \/ CountFailure(r)
  /\ UNCHANGED observed \/ observed' = [observed EXCEPT ![r] = @ + 1]

Stays == UNCHANGED <<pc, failures, observed>>

LEMMA Moves ==
  ASSUME TypeOK, NEW r \in Requests, Actions(r)
  PROVE  Enters(r) \/ Goes(r) \/ Stays
<1> USE DEF Enters, Goes, Stays, Goto, InService, counts
<1>1. ASSUME NEW c \in Contexts, Begin(r, c) PROVE Enters(r)
  BY <1>1 DEF Begin
<1>2. CASE Handler(r)
  <2>1. CASE AnswerUnavailable(r) \/ Abandon(r)
    BY <2>1 DEF AnswerUnavailable, Abandon
  <2>2. CASE ReadAll(r) \/ CopyAnswer(r) \/ RelayStream(r)
    BY <2>2 DEF ReadAll, CopyAnswer, RelayStream
  <2>3. CASE Return(r)
    BY <2>3 DEF Return
  <2>4. CASE Observe(r)
    BY <2>4 DEF Observe
  <2> QED
    BY <1>2, <2>1, <2>2, <2>3, <2>4 DEF Handler
<1>3. CASE Writer(r)
  BY <1>3 DEF Writer, StreamClosed, StopReading, Close
<1>4. CASE Goroutine(r) \/ Runtime(r)
  BY <1>4 DEF Goroutine, NoPayload, ReadWhole, Reap, Runtime, Expire, DoTimesOut
<1>5. CASE Network(r)
  <2>1. CASE StreamEnds(r) \/ StreamBreaks(r) \/ ClientDoes(r)
    BY <2>1 DEF StreamEnds, StreamBreaks, ClientDoes, ClientLeft, ClientStalls,
                ClientTakes, StopReading
  <2>2. CASE SendFresh(r) \/ (\E q \in Requests : SendPooled(r, q)) \/ NoConnection(r)
    BY <2>2 DEF SendFresh, SendPooled, Send, NoConnection
  <2>3. CASE \E k \in {"plain", "empty", "events", "noevents", "switch"} : Answer(r, k)
    BY <2>3 DEF Answer
  <2>4. CASE \E saw \in BOOLEAN : ConnectionDies(r, saw)
    BY <2>4 DEF ConnectionDies
  <2>5. CASE PayloadEnds(r) \/ PayloadBreaks(r) \/ PayloadTooLarge(r)
    BY <2>5 DEF PayloadEnds, PayloadBreaks, PayloadTooLarge, ReadWhole
  <2> QED
    BY <1>5, <2>1, <2>2, <2>3, <2>4, <2>5 DEF Network
<1> QED
  BY <1>1, <1>2, <1>3, <1>4, <1>5 DEF Actions

PhaseOf == [r \in Requests |-> IF pc[r] \in {"idle", "over"} THEN pc[r] ELSE "going"]

LEMMA EntersBegins ==
  ASSUME TypeOK, NEW r \in Requests, Enters(r) PROVE R!Begin(r)
<1>1. PhaseOf[r] = "idle" /\ PhaseOf' = [PhaseOf EXCEPT ![r] = "going"]
  BY DEF Enters, PhaseOf, TypeOK
<1> QED
  BY <1>1 DEF Enters, PhaseOf, R!Begin

LEMMA GoesProceeds ==
  ASSUME TypeOK, TypeOK', NEW r \in Requests, ForwardInv(r)', Goes(r) PROVE R!Proceed(r)
<1>1. PICK to \in InService \cup {"over"} : pc' = [pc EXCEPT ![r] = to]
  BY DEF Goes
<1>2. PhaseOf[r] = "going"
  BY DEF Goes, PhaseOf, InService
<1>3. PhaseOf' = PhaseOf \/ (to = "over" /\ PhaseOf' = [PhaseOf EXCEPT ![r] = "over"])
  <2>1. pc'[r] = to /\ \A q \in Requests \ {r} : pc'[q] = pc[q]
    BY <1>1 DEF TypeOK
  <2>2. \A q \in Requests \ {r} : PhaseOf'[q] = PhaseOf[q]
    BY <2>1 DEF PhaseOf
  <2>3. PhaseOf'[r] = IF to = "over" THEN "over" ELSE "going"
    BY <1>1, <2>1 DEF PhaseOf, InService
  <2>4. /\ PhaseOf = [q \in Requests |-> PhaseOf[q]]
        /\ PhaseOf' = [q \in Requests |-> PhaseOf'[q]]
    BY DEF PhaseOf
  <2>5. CASE to = "over"
    BY <2>2, <2>3, <2>4, <2>5
  <2>6. CASE to # "over"
    BY <1>2, <2>2, <2>3, <2>4, <2>6
  <2> QED BY <2>5, <2>6
<1>4. failures'[r] <= 1 /\ observed'[r] <= 1 /\ (to = "over" => observed'[r] = 1)
  BY <1>1 DEF ForwardInv, Counted, TypeOK
<1>5. \E f \in {0, 1} : failures' = [failures EXCEPT ![r] = @ + f]
  BY DEF Goes, CountFailure, TypeOK
<1>6. \E o \in {0, 1} : observed' = [observed EXCEPT ![r] = @ + o]
  BY DEF Goes, TypeOK
<1> QED
  BY <1>2, <1>3, <1>4, <1>5, <1>6 DEF PhaseOf, R!Proceed

LEMMA NextRelays == TypeOK /\ TypeOK' /\ Inv' /\ [Next]_vars => [R!Next]_R!vars
<1> SUFFICES ASSUME TypeOK, TypeOK', Inv', [Next]_vars PROVE [R!Next]_R!vars
  OBVIOUS
<1>1. CASE Stays
  BY <1>1 DEF Stays, R!vars
<1>2. CASE EndStreams \/ UNCHANGED vars
  BY <1>1, <1>2 DEF EndStreams, vars, counts, Stays
<1>3. ASSUME NEW r \in Requests, Actions(r) PROVE [R!Next]_R!vars
  <2>1. CASE Enters(r)
    BY <2>1, EntersBegins DEF R!Next
  <2>2. CASE Goes(r)
    BY <2>2, GoesProceeds DEF R!Next, Inv
  <2> QED
    BY <1>1, <1>3, <2>1, <2>2, Moves
<1> QED
  BY <1>2, <1>3 DEF Next, Actions

\* What is counted and timed of a forward is what either data plane promises, though it
\* may be abandoned, sent again or outlast its handler (proxyfast.go:305-315, 659-674).
THEOREM KeepsRelay == Spec => RelaySpec
<1>1. Init => R!Init
  BY DEF Init, R!Init
<1> QED
  BY <1>1, NextRelays, TypeCorrect, Invariance, PTL DEF Spec, RelaySpec, R!Spec
==============================================================================
