# gqlhash: a TLA+ model of the hash and of the proxy

gqlhash hashes a GraphQL document by its canonical form, and gqlhash-proxy
forwards a request to a GraphQL API only if the hash of every document it
carries is on an allowlist that is reread while the proxy serves. This directory
models that program: the parts in which order, concurrency and nesting decide
what happens, and the bytes at its edges where a reading that differs from the
API's would matter. TLC checks the models on small instances, and TLAPS proves
most of what they promise for all instances.

Paths below are those of the repository; line numbers are of the commit modelled.
`PROJECT.json` has the definitions with the lines they stand for, the runs, the
hazards and the disagreements between code and comments that the runs exhibit.

## The system

| Component | State it keeps | Operations | Modelled in |
|---|---|---|---|
| allowlist (`internal/allowlist`) | pointer to one immutable list; mutex `loading` | `Reload`, `Allowed`, `Len`, `Stats` | `Allowlist`, `ServedSet` |
| control server (control.go) | none: reads the others' | `/healthz`, `/status`, `/metrics`, `/reload` | `Control` |
| counters and metrics (proxy.go, metrics.go) | atomic counters, histograms | `snapshot`, `Observe`, rendering | `Control`, `Decision`, `Relay`, `Forward`, `FastForward` |
| request decision (`internal/app/proxy`: proxy.go, core.go, extract.go, mediatype.go) | nothing of its own | `check`, `decide`, `Core.Decide`, `allow`, `extractJSON`, `extractQueryParam`, `mergeQuery` | `Decision`, `Extraction`, `Wire` |
| forwarding over net/http (proxy.go, stream.go, eventstream.go) | pooled request states; a context, a timer and a drain watch for each forward | `ServeHTTP`, the error handler, `streamWriter.WriteHeader`, `StartDraining` | `Forward`, `Headers` |
| fasthttp data plane (`internal/app/proxyfast`) | live streams, two host clients with their pools, pooled requests and answers | `handle`, `forward`, `within`, `upstreamStream`, `Shutdown` | `FastForward`, `Headers`, `Decision` |
| parser (`parser/`) | program counter, depth counters, return registers, stack, output | `Parse` and its scanners and writers | `Tokens`, `Parser`, `Grammar`, `Canonical`, `Bytes`, `Scanner`, `Documents` |
| unicode escapes (`internal/unicodeesc`) | none | digits, scalar values, surrogate pairs | `Bytes`, used by `Scanner` and `Extraction` |
| process lifecycle (run.go, serverimpl.go) | two servers, the shutdown context, the exit code | `RunWith`, `build`, `serveOn`, signals | `Startup`, `Lifecycle` |
| configuration (`internal/app/config`) | none | `ParseProxyFor` | `Startup` |
| hash API, hasher command, proxy commands | none | `gqlhash.Hash`, one-shot command, mains | not modelled |
| web page (`web/src`, `web/wasm`), service worker, editor | panes, timers, caches | edit, save, hash; install, activate, fetch | not modelled |
| load test, playground API, tests, vendored code | - | - | not modelled |

How they interact. `RunWith` reads its settings, loads the allowlist and serves
two servers. A request reaches the data plane, which reads the body into a pooled
state, calls the decision (parser and allowlist lookups, several per batch), and,
if allowed, forwards it: over `httputil.ReverseProxy`, whose transport, error
handler and response writer run beside a deadline timer, the client's context
and, for an event stream, a watch on the drain; or over a fasthttp client, whose
exchange is left to a goroutine where the client asked for a stream. The control
server asks the allowlist to reload, from any number of connections at once, and
reads the counters the requests raise. `serveOn` owns both servers and tells the
data plane to drain.

What is hard in it:

- lookups and reloads run at once, and a batch is looked up document by document;
- a reload walks a directory that a deployment edits meanwhile, and several loads
  may be asked for at once;
- a scrape reads one counter after another while requests raise them;
- a forward is ended by whichever comes first of the upstream, the deadline, the
  client and the drain, and what happened is worked out afterwards, in two places;
- what a request borrowed from a pool may be read after it was given back, and an
  exchange that nothing can stop outlives the handler that started it;
- a connection returns to its pool although bytes of an answer are still to come;
- a document nests in three ways at once, counted by one register or counter for
  each, with early ends on every error;
- the canonical form is never parsed: that different documents give different
  bytes rests on every production marking its ends, and on no string holding a mark;
- what a request says is read here and again by an API that may split, decode and
  choose among parameters otherwise;
- a shutdown ends streams and waits for requests, under one deadline for two servers,
  and a client that takes nothing can hold a handler that nothing else would;
- a default that follows another flag must not replace what somebody set.

What makes each component correct:

- *allowlist*: one bad file costs itself only; what is published is what the
  directory holds; every file listed is served or named; a lookup is answered from
  one list; the last reload wins; the reported differences add up.
- *control server*: an answer 200 means the directory is in service; a scrape shows
  one list, and no counter goes back.
- *decision*: nothing is forwarded that was not looked up and found; refusals have
  a reason; the cap on documents holds; both HTTP implementations decide alike; the
  document looked up is the one an API reads, as far as APIs agree.
- *forwarding*, over either stack: a failure is counted once and for the right
  reason; every request is timed once; only an asked-for stream loses its bounds;
  everything else ends; the drain ends the streams whose clients do not stall; what was
  borrowed is given back once, by the last to use it.
- *parser*: exactly the grammar is accepted; depth is bounded; equal documents have
  equal bytes, different ones different bytes; the options leave out what they say.
- *lifecycle and configuration*: what was given is in force; a told run ends; the
  exit code says whose fault it was and what was abandoned; the streams are told before
  anything waits, and the control server goes first.

## Modules

```
ServedSet <-- Allowlist <-- Control          Relay <-- Forward
    ^                                           ^----- FastForward
    '-------- Decision <-- Wire --> Extraction --> Bytes <-- Scanner
                             '----> Headers                    ^
Tokens <-- Parser <-- Canonical --> Grammar                    |
                          ^------- Documents ------------------'
Lifecycle <-- Startup
```

An arrow from the right is "extends" or "implements": `ServedSet` and `Relay` are
abstract specifications, `Control` implements `Allowlist`, and `Startup` implements
`Lifecycle`. Every `MC` module instantiates the module it is named for, every
`...Proofs` module holds the theorems about it.

### `ServedSet`, `Allowlist`, `Control`

`ServedSet` is the abstract specification: one set of keys is in service, replaced
as a whole, and a lookup is answered at one moment between its call and its
return. `Allowlist` implements it under `served <- current.docs`; `Decision`
implements it too, with its two loads of the list per lookup.

`Reload` is one action per access to what others change: taking the mutex, the
walk of the directory, reading the schema, reading a file (the next of the walk,
never another), reading the list in service, storing the new one, returning. The
deployment's `Edit` may come between any two. `Allowed` is a load of the pointer
and a lookup in what it pointed to. A document is a model value with a hash, a
verdict of the parser and one of the schema; two documents may share a hash. The
two ghosts are `fresh` (nobody edited the directory since the load walked it) and
`balance` (documents reported added less those removed).

`Control` puts the start, `POST /reload`, the requests and the scrapes around it,
each step of the allowlist being one of theirs. A scrape is one action per counter
it loads (`Read`). The ghost `still` says that the directory has not changed since
a reload was asked for, which is when an answer 200 promises something;
`history` is the lists published. What one behaviour may contain (callers, edits,
reloads, lookups, scrapers, contents of the directory) is a record chosen at first
(`Bounds`), so that one run covers several small worlds instead of their product.

### `Decision`, `Extraction`, `Headers`, `Wire`

A request is its shape: method, documents in the query string, size, whether the
body arrives whole, whether it is a raw document or JSON, batch or not, the
members named `query` of each element, and whether the JSON breaks off. That is
what the decision tells apart. `check` is net/http's order of looking at these,
`Core` is fasthttp's; `extractJSON` stops at the first element that breaks a rule.
`Unescape`, `LoadLen` and `LookUp` are apart because a reload may publish between
them. `Count` and `Observe` are the two places that record the decision.

`Extraction` is how a shape is read from bytes: query strings split, decoded and
searched for the parameter (`extractQueryParam`, `hasQueryParam`, `mergeQuery`), the
name of a JSON member (`isQueryKey`) and the value of a JSON string (`unescapeJSON`).
A text grows piece by piece: `bytes` is what arrived so far and `meant` what its
writer meant by it, so that the reader in the code is compared with what was meant and
with the APIs behind it: one that splits on both `&` and `;`, one that splits on `&` and
drops a part with a semicolon, as Go's net/url does, one that splits on `&` and keeps the
semicolon, and encoding/json for strings. `Spelled` says
which bytes mean what: in a query string a byte, an escape, a mark, or a percent sign
that is no escape, which covers every sequence of bytes; in a JSON string a character in
UTF-8 or one of JSON's escapes, half a surrogate pair too. Raw bytes that break UTF-8,
which encoding/json replaces and `unescapeJSON` keeps, are no spelling. `TextsAssumption`
asks that each piece is spelled so, and TLC evaluates it; `Completes` holds a piece back
that would make an escape of a percent sign that was none. The loops of the code that
decode are `Gathered`: what each step says, and where it goes on. The grammar of a JSON
body is jscan's, which is not in `src/`.

`Headers` is the rewriting of headers by both implementations, as functions from
names to the lines of each: `Rewrite` for ReverseProxy's (what it removes before `Rewrite` is
called is external), `Fast` for proxyfast's. `Wire` composes the three: a behaviour
is a request that is decided, a text that grows, or a request whose headers come
line by line, so that one run answers for them together.

### `Relay`, `Forward`, `FastForward`

`Relay` is what either data plane promises of an allowed request: one failure
counted at most, one duration, both before it is over. Both data planes implement it.

`Forward` is `ServeHTTP` after an allowed decision, one action per access to what
the timer, the client, the drain watch or the transport may change. `st`, `owner`,
`cancelOf` and `body` are the pooled states, kept after release so that what still
points into them is seen. `Expire` and `CancelByTimeout` are two steps because a
stopped timer's function may already run; `LaunchWatch` and `RunWatch` likewise for
`context.AfterFunc`. A handler that writes to a client which takes nothing is "blocked":
the client may take again or leave, and -server.write-timeout (`WriteTimesOut`) frees an
exchange, but no stream, whose write deadline is cleared. ReverseProxy, transport, timers and pool are external and may
do whatever net/http documents. `broke`, `silent` and `stray` are
ghosts that properties read and no guard does. A nil call in a goroutine
(`crashed`) ends the process, and with it the behaviour.

`FastForward` is proxyfast's `forward`. A request that asked for an event stream is
carried by a goroutine (`within`) that nothing stops: past the deadline the handler
answers 504, leaves request and answer behind (`Abandon`) and a second goroutine
releases them (`Reap`). `context` is fasthttp's, reused once its answer is written;
`bytes` says whose body its buffer holds. `flow` and `conn` are the answer's body
on its connection and where that connection is: a close without an error pools it,
whatever is still to come. `Retry` is the second attempt on a connection that died.
`Shutdown` ends the streams it `found`; `live` is what it may find. The writer of a stream
may be "blocked" as well, and closing the stream at its upstream does not free it.

### `Tokens`, `Parser`, `Grammar`, `Canonical`

`Parser` is the state machine of parse.go: `pc` is the label (a label that reads
several tokens is split at each), `stack`, `selDepth`, `typeDepth`, `dirRet`,
`argRet`, `valRet`, `constant` and `mute` are its variables, `buf` the canonical
form as a sequence of the prefixes of parser.go and the tokens they introduce.
Tokens arrive as they are looked at, so that one run reads every source within the
bound, and every error is met at the token that causes it. What may arrive, and the
Options, are those of the `call`, chosen at first. `Expected` lists what
every label accepts; all else is `Unexpected`. Ignored tokens, numbers, names and
strings are one token each here.

`Grammar` is the reference definition: the productions of the specification as
data, and one operator that goes on with a set of readings of the tokens by a
production. It says whether a source is a document, which tokens may come next, and
what a document *means* to the hash: its tokens without Ignored ones, descriptions,
and what `Ignore` leaves out. `Canonical` composes the two: a parser,
reused after a document or after one that failed half-way, reads a second one, and the canonical forms are compared
with the meanings. The second source goes on only as long as it can still be the
first document or be written like it, which is what makes pairs checkable.

### `Bytes`, `Scanner`, `Documents`

`Scanner` is what `Parser` takes as one token, byte by byte: strings with every
escape, surrogate pairs among them, block strings, numbers, and runs of ignored
tokens, as scan.go reads them and write.go writes them, block strings with their
common indentation and blank lines. A source is spelt piece by piece, each piece
with the value the specification gives it, and the code's reading is compared with
the reading of the spelling. A character outside the alphabet is `Malformed`, one
byte that breaks UTF-8. The evaluated value, escaped where it holds a prefix of the
canonical form (`strByte`), is then read back. `Bytes` holds what the scanner and
`Extraction` share, internal/unicodeesc among it. `Documents` is `Canonical` and
`Scanner` in one specification.

### `Lifecycle`, `Startup`

`Lifecycle` is `serveOn`: the data plane is served before the control address is
bound; a signal or a failing data plane ends the wait; streams are told to end;
control server, then data plane, are shut down under one deadline. The servers are
external: `Shutdown` returns when nothing is in flight, or with an error past the
deadline. Requests and scrapes end at some time or never, an event stream that was told
to end among them: when a told stream ends is `Forward`'s and `FastForward`'s, and not
every one does. The deadline expires when it does, at once where
`-server.shutdown-timeout` is 0. A second signal kills only after `stop()` ran.

`Startup` is `RunWith` and `ParseProxyFor` before that: the environment, then the
command line, then the rules in the order of flags.go, then the files, the
allowlist and the data-plane listener. A value is what its rule tells apart: a
time in seconds, a URL or a file as a member of a small set. Signals are taken from
the first step on, as the code takes them (run.go:49-56). Once built, the run is
`Lifecycle`'s.

## Runs

Bounds are named in the modules (`MaxEdits`, `MaxLoads`, `MaxPublishes`,
`MaxSignals`, `MaxLines`, the records of `Bounds`, and `maxTokens`, `max` and
`documents` of each call or text); the sets are in the MC modules and cfgs. All
runs stop by themselves (a bound is reached, a request is over, a process exits),
so none of them checks for deadlock; that nothing gets stuck is what the liveness
properties are for.

| Run | Checks | Instance, and why it is enough |
|---|---|---|
| `allowlist` (`MCControl`) | `ResultsAddUp`, `AnsweredReloadServes`, `TotalsOfTheDirectory`, `ScrapesAreTrue`, `ReloadsSettle`; refinement of `ServedSet` (`LookupsAreAtomic`) | two files (for a shared hash), the start and two callers (for a race), a reader, a scraper of each kind; six worlds, among them two racing callers under an edit, every directory loaded once, and scrapes beside lookups |
| `forward` | `FailureIsUpstreams`, `StreamReleased`, `EveryExchangeEnds`, `DrainEndsStreams`; refinement of `Relay` (`RelaySpec`) | two requests, one with a body, that share one pooled state, so one may start while what the other left still runs; under both timeouts |
| `fast` | `ReleasedByLastUser`, `SameBytesUpstream`, `TakenAgainOnlyOnce`, `LeftStreamRetired`, `ForwardsEnd`; refinement of `Relay` | two requests that share one fasthttp context and the pools of connections: one may take over what the other abandoned |
| `decision` (`MCDecision`) | `DecidedByTheList`, `CapHolds`, `RefusedAlike`, `TotalsAgree`; refinement of `ServedSet`; `ReadAsApisRead`; `HeadersSentOn` | one request of every shape: methods, up to two query documents, sizes around the limit, lone objects with up to two `query` members, batches to three elements under a cap of two; two lists published. Requests share nothing but the list and the counters, and that any number of them is no different is proved. Query strings of five pieces and JSON strings of four; four header lines of ten names, as many of one name as come |
| `parser` (`MCCanonical`) | `AcceptsGrammar`, `NestsWithin`, `SameBytesJustForSame`; `ScansTheGrammar`, `ValuesKeptApart` | sixteen calls of `Parse`, and six kinds of spelling, see below |
| `lifecycle` (`MCStartup`) | `SettingsHold`, `ExitTellsWhoseFault`, `ExitTellsTheDrain`, `ShutInOrder`, `RunEnds` | 1,482 sets of flags, one group of related flags varied at a time, the write timeout in the environment and on the line at once; two requests, a scrape, two signals |

Each also checks the type invariant of its module. What the merged names stand for
is in the modules: `NestsWithin` is the depths counted back and the depth of the
document held, `DecidedByTheList` is "nothing unread is forwarded" and
"a refusal has its reason", `ResultsAddUp` is the files accounted for and the
balance of reported differences, `ScrapesAreTrue` is one list per scrape and no
total that goes back, `ReadAsApisRead` and `HeadersSentOn` are four and three
statements about what the upstream reads, `SettingsHold` is three about the settings, and
`ExitTellsTheDrain` is that an abandoned request shows in the exit code and that a run
which abandoned none in time fails only for a server.

The calls of the run `parser` are in `MCCanonical`. Each has an alphabet for one part
of the grammar, and every source over it is read up to a length: with arguments to 9
tokens; with values (lists, input objects, variables) to 12, of which `{a(a:` are
given; with types and default values to 15, after `query($query:`, and to 22 where the
type is a later variable's and the one before has a directive with arguments; with
definitions, descriptions, Ignored tokens and broken bytes to 5, and to 8 in a
fragment and after another definition. Depth limits of 1 and 2 are met by these. The
other calls read a second document: of selections (aliases, spreads, inline fragments,
directives) to 8 tokens, and to 9 with a type condition; of nested lists and objects
to 13; of arguments hashed without their values to 10; of operations hashed without
variables to 10, and of default values left out to 13; of directives between variables
to 16; of spellings (Ignored tokens, descriptions, shorthand) to 5. Before either of
two documents others may fail, which leave the stack, the buffer and the muting as they
were: it is these that show that `Parse` starts afresh. One more call gives the stage
to the scanners: strings of three spellings out of nineteen (each escape, its malformed
neighbours, every prefix byte), of five where escapes pair up or a written value is to
be kept apart from what follows, block strings of four and six (quotes and backslashes;
blank and indented lines under both line ends), numbers of six bytes and runs of
ignored bytes of four.

Six further runs exhibit a disagreement between the code and what it says of
itself; each checks the one statement and finds it violated.

| Run | Statement | What happens |
|---|---|---|
| `forward_watch` | stream.go:54-55 | a drain watch that has started is not stopped by `stopDraining` and reads the pooled writer's cancel later: nil, or another request's |
| `forward_silent` | proxy.go:295-296 | the deadline fires between the error handler's two looks at the context, and a waiting client gets an empty 200 |
| `forward_body` | proxy.go:404 | the transport may still send a pooled body after the handler returned |
| `fast_pool` | proxyfast.go:397-404 | headers that arrive after a streaming forward was given up: the connection is pooled with the body still arriving, and the next stream reads it |
| `empty_values` | parser.go:173-174 | empty lists and objects have no end marker: `{a(a:[[[]a]])}` and `{a(a:[[][a]])}` hash alike, and so does, for the same reason of variable definitions, a directive of the last variable and one of the operation |
| `scrape_moment` | proxy.go:56-57 | a scrape loads the counters one after another, so that the numbers of one answer may never have held together |

What the passing properties leave out because of this, and by the code's own word:

- `SameBytesJustForSame` speaks of documents without the two cases of `empty_values`
  (`Plain`): no empty list or object, and no directive on the last variable of a
  definition. The depth of `NestsWithin` is depth as the code counts it: an empty list or
  input object may nest one deeper than `DepthLimit`, and types are bounded by nothing.
- `RefusedAlike` leaves out what the two implementations read differently (`Alike`):
  a body past the limit comes before another method in one and after it in the other.
- `DrainEndsStreams` and `FoundStreamsEnd` say less than the comments they are about:
  run.go:314-317 has the streams end before the drain begins to wait, and
  proxyfast.go:231-233 leaves the drain only exchanges. In the code some streams outlive
  the drain. Without `-upstream.timeout` a stream has no cancel, and none is called
  (stream.go:108). A stream's write deadline is cleared (stream.go:104) or a hundred
  years off, so that a handler or writer blocked on a client that takes nothing is freed
  by no cancel and no close. One that proxyfast stores after `Shutdown` looked is ended by
  nobody (proxyfast.go:235). So the two properties suppose a timeout, clients that do not
  stall for good, and streams that were found; `Lifecycle` supposes nothing of streams,
  and says what follows: the run waits for the deadline and exits with 1.
- `EveryExchangeEnds` is checked under both timeouts: with `-server.write-timeout=0` a
  client that stalls holds its handler, as the flag says.
- `TakenAgainOnlyOnce` is twice, not once: a forward that failed with EOF goes again
  although the upstream may have carried it out (proxyfast.go:318-319).
- `ScrapesAreTrue` promises that each number follows its counter and never goes back, and
  that the list is one list; that all of them are of one moment, as proxy.go:56-57 has it,
  is what `scrape_moment` refutes. It takes each load of the list to be told a later
  time than the one before.
- `SettingsHold` says nothing of a write timeout that somebody set beside
  `-upstream.timeout=0`. The code accepts it (flags.go:586), although flags.go:576-581 and
  cmd/gqlhash-proxy/README.md:203 have it leave the upstream its full time, which there is
  without end: an answer that takes longer is cut off. The default follows the upstream
  (`DefaultFollowsUpstream`), and where both are on the write timeout is the longer. It
  counts from the end of the request's headers.
- `SameHeadersUpstream` excepts two things, against proxyfast.go:684-686 and 741-746,
  by which both implementations forward the same. `Te: trailers` is offered again by
  net/http only. And where a client sends `Connection` in several lines, fasthttp reads
  the first (proxyfast.go:712) and ReverseProxy all: what a later line names, fasthttp
  sends on. Left out of the model are the differences of GQLHASH_PROXY_FHTTP.md:83-97,
  fasthttp's own `User-Agent` and the trailers of a request, and the headers fasthttp
  keeps apart from its list (`Host`, `Content-Type`, `User-Agent`, `Cookie`, a
  `Connection` that says close).
- `ReadsWhatApisRead` promises the whole document to an API that splits on `;` too and to
  one that drops a part with one. An API that splits on `&` and keeps the semicolon, as
  URLSearchParams does, reads on past it: of `query=A;B` the proxy looks up `A`
  (extract.go:306) and sends the string on as it came (proxy.go:252), which
  headers_test.go:131-133 pins. For such an API the property promises only that what was
  looked up is what it reads up to the first semicolon that is not escaped.
- A control server that fails (`ServeFails`) is logged and does not end a run
  (run.go:249-250, 277), and which of two ready cases `serveOn` takes is Go's
  choice (run.go:302).

### Fairness

- `Control`: a goroutine inside `Reload` keeps running (weak fairness), and a
  queued one gets the mutex (strong fairness): `sync.Mutex` hands itself to a
  waiter that starves. Edits, reloads, lookups and scrapes are never owed.
- `Forward`: the handler, the timers and the watch run (`Runtime`). The upstream and the
  client owe nothing, which is what `EveryExchangeEnds` is about; a handler blocked on
  its client has no step of its own until the client takes or leaves, or the write
  deadline frees it. `DrainEndsStreams` supposes of the clients that none is stalled
  from some time on, and says so in its formula.
- `FastForward`: handlers, writers of streams and deadlines (`Runtime`) run. Neither
  upstream nor client owes anything, nor is a shutdown or the goroutine of an abandoned
  forward owed a step. `FoundStreamsEnd` supposes of the clients what `DrainEndsStreams` does.
- `Startup`: `RunWith`, `serveOn`, the servers' goroutines and `stop()` run, and time
  passes. No client, no request, no stream and no signal is owed a step.

## Proofs

Eight modules hold theorems; the assumptions are those the modules name, about the
constants: finite sets, distinct names, numbers at or above zero, pieces of text that
spell what they are said to mean (`TextsAssumption`), upstream queries that are bytes
(`UpstreamsAssumption`) and addresses that are strings (`AddressesAssumption`).

| Module | Theorem | States |
|---|---|---|
| `AllowlistProofs` | `TypeCorrect`, `ResultsAdded` | `[]TypeOK`, `[]ResultsAddUp` |
| | `FreshLoads` | `[]FreshLoadServesUsable`: an undisturbed load publishes the directory |
| | `Refinement` | `Spec => LookupsAreAtomic` |
| `ControlProofs` | `KeepsAllowlist` | `ControlSpec => Spec` of `Allowlist` |
| | `ReloadServes`, `TotalsTrue` | `[]` of `AnsweredReloadServes`, `TotalsOfTheDirectory` |
| | `ScrapesTrue`, `LookupsKept` | `ScrapesAreTrue`, `LookupsAreAtomic` |
| `DecisionProofs` | `TypeCorrect`, `DecidedByLists`, `CapKept`, `ImplsAlike`, `TotalsKept` | `[]` of `TypeOK`, `DecidedByTheList`, `CapHolds`, `RefusedAlike`, `TotalsAgree` |
| | `LookupsKept` | `Spec => LookupsAreAtomic` |
| `ForwardProofs` | `TypeCorrect`, `FailureBlamed`, `StreamsReleased` | `[]` of `TypeOK`, `FailureIsUpstreams`, `StreamReleased` |
| | `KeepsRelay` | `Spec => RelaySpec` |
| `FastForwardProofs` | `TypeCorrect`, `ReleasedOnce`, `BytesKept`, `TakenTwiceAtMost`, `LeftStreamsRetire` | `[]` of `TypeOK`, `ReleasedByLastUser`, `SameBytesUpstream`, `TakenAgainOnlyOnce`, `LeftStreamRetired` |
| | `KeepsRelay` | `Spec => RelaySpec` |
| `ParserProofs` | `TypeCorrect`, `DepthOfTheDocument`, `DepthsHeld` | `[]` of `TypeOK`, `NestsWithin`, `DepthsBounded` |
| `WireProofs` | `KeepsDecision`, `DecidesAsProved` | `WireSpec => Spec` of `Decision`, and with it what is proved there |
| | `HeadersSent` | `[]HeadersSentOn` |
| | `QueryReadAsApisDo`, `MergeKept` | `[]` of `ReadsWhatApisRead`, `MergeKeepsTheDocument` |
| | `MemberReadAsDecoded`, `DocumentReadAsDecoded` | `[]` of `MemberAsDecoded`, `DocumentAsDecoded` |
| | `ReadsAsApis` | `[]ReadAsApisRead`, the four together |
| `StartupProofs` | `ToldOfDrain`, `ControlFirst` | of `Lifecycle`: `[]` of `ExitTellsTheDrain`, `ShutInOrder` |
| | `KeepsLifecycle` | `StartSpec => Spec` of `Lifecycle` |
| | `StartTypeCorrect`, `SettingsInForce`, `StartTellsTheDrain`, `ExitsTell` | `[]` of `StartTypeOK`, `SettingsHold`, `ExitTellsTheDrain`, `ExitTellsWhoseFault` |

The arguments:

- *Allowlist*, for any files, loaders, readers and documents. None of its
  properties is inductive: they speak of the end of a load, and what makes them true
  happened on the way. `LoadInv` says so: `Mutex` (only the holder is inside a load,
  so two never interleave on `current`), `Sorted` (a file walked so far was hashed or
  skipped), `Faithful` (while nobody edits, what a load read is what the directory
  holds; an edit makes every load stale, so it has nothing to preserve) and `Owned`
  (from its look at the list in service to its return, a load is the only one to
  change it, so `previous` is what it replaces and `balance` what that holds).
- *Control* adds no step of its own to `Allowlist`, so what is proved there holds
  beside it. `AnswerInv` adds why an answer 200 stays true: while the directory holds
  still (`still`), every load that has walked it is `fresh`, the one that answered and
  any that stores after it, and what fresh loads publish is the directory. The totals
  it tells are of the list it published, which by then need not be the one in service:
  `TotalsInv` says that a fresh load listed all that is there (`Whole`), so that what it
  leaves out and what it takes add up to the files, one hash for each file it takes. For
  the scrapes, `ScrapeInv` bounds every number read from both sides: it is no less than
  what the scraper was told last and no more than the counter is now (`TrueSoFar`), and
  the list read is one published before (`Published`).
- *Decision*, for any requests, shapes, documents and limits. First the reading of
  one shape, without steps: where the scan refuses nothing it broke no rule at any
  element (`ReadWhole`, by the least element that breaks one), so the documents looked
  up are all those the request names, and no more than the cap (`LookedWhole`). Then
  `ReadInv`: a request being read was read so, each document before its turn was on a
  list since (`Covered` only grows), and the one at its turn is the one unescaped. For
  the counters, the requests counted under a decision are a finite set that each
  step enlarges by one at most.
- *Wire*, for any requests, texts and lines of headers. A request that is decided beside
  the parts is decided as `Decision` has it. `HeadersTyped` says only which lines have
  arrived, one or more of a name. Both rewritings come to one function of a request's
  headers, given what each takes Connection to name, but for the offer of trailers
  (`FastSays`, `RewriteSays`), from which the three parts of `HeadersSentOn` are read off.

  For the texts the invariant is `TextSpelled`: there are positions at which `bytes`
  spells `meant`, value by value. It is inductive because two spellings one after the
  other are one (`SpelledTwice`), for which alone `Completes` is needed: all else that is
  spelled is spelled alike further on (`InQueryMoved`, `InMemberMoved`). The rest is
  about one spelling, of any length. `Gathered` is a recursive function, and without
  induction what is known of it is one step (`GatheredReads`): what it gives from a
  position on is what the step says and what it gives from the next. Read from right to
  left, this carries a statement from each later position of a spelling to an earlier
  one, so that it holds at the first; there is no last position where it fails
  (`Descends`, by the least element of a set of numbers).

  A *query string* is cut by the code at the separators among its bytes and by an API at
  the marks among what is meant; the first are where the second are spelled
  (`MarksMeant`, `FirstMark`), so each pair of the one is a part of the other
  (`PairPart`), which is spelled in its turn (`PartSpelled`), decodes to what is meant
  (`PartDecoded`), and is named query in both or neither (`NameRead`). What an API reads
  that splits on `&` alone is, up to its first semicolon, what one reads that splits on
  both, since the name has none (`SplitWithin`, `AmpReadsOfBoth`), and all of it where
  there is none (`NothingCut`). A merged query string has the client's pairs where they were, moved
  by the length of the upstream's (`Merged`, `PairOfClient`), so the pairs named query are
  the client's (`QueryMerged`), and what is read depends on these alone (`ReadsPairs`).

  A *JSON string* is read unit by unit, a unit being a value and the bytes that spell it,
  or a pair of halves and theirs. A raw character is as many bytes to the code as
  encoding/json makes of the value (`RunRead`), and an escape is one in both
  (`EscapeRead`, `TrailPaired`), so from each position on both read the same, or the code
  meets a half that stands alone and refuses (`AllReadAlike`). For the *name of a member*
  this leaves the lengths that `isQueryKey` turns away unread: five letters come of five
  units, of one byte or of an escape of six that is a letter's, since no other unit
  decodes to one byte that is a letter, so that the name is 5 to 30 bytes long, five at a
  time (`LettersTaken`).
- *Forward*, for any requests, streams among them, and pooled states. `Inv` is one of
  each request: `Counted` (the error handler leaves `failed` set for what it counted,
  or the deferred accounting counts, never both), `Timed`, `Blamed` (the cause is
  the deadline only if the timer ran) and `Bounded` (the bounds hold until the
  headers). A step of one request is aside of every other (`OthersAside`): only the
  drain watch touches another's context, and never in the name of the deadline.
- *FastForward*, for any requests and contexts, by one invariant of each request:
  `Owned` (its context is its own while it is in service), `Carried` (what its exchange
  may be doing at each step of its handler), `Users` (who may still release what it
  holds), `Tries` (how often it was sent and taken), `Counted`, and `Wired` (where its
  connection is while an answer is on it). Most steps
  leave every context where it is (`Sits`), and what a step of one leaves of another is
  `Aside`, as in `Forward`.
- *Lifecycle*, by `Order` (which servers are shut where in `serveOn`, and that the streams
  were told before), `Told` (a plane that was let go has nothing in flight, or the
  deadline expired and the failure is remembered) and `Blame` (what is remembered as a
  failure is the data plane's or the deadline's).
- *Startup* is `Lifecycle` once it serves, and changes none of its variables before:
  `KeepsLifecycle` is the refinement, and its theorems are used by name.
  `SettingsInForce` follows the settings through the rules, for any settings, and
  `FaultInv` adds to `ExitTellsWhoseFault` that what is about to be built was accepted.
- *Parser*, for every source, without a bound on its length, and all `Options`. It
  keeps one register for each way back, and a register is stale wherever it is not
  read: `Registers` says what they hold where they are, `Nesting` where selection
  sets are open, and `Counts` what the counters hold in between. None of them is
  inductive without the others, since a way back is taken by a register. That the
  counters are the depth of the *document* is `NestInv`, on top of these: of the tokens
  read, the parentheses left open are the productions being read that have them
  (`Within`), the brackets left open inside parentheses are what the stack, the types
  and a value just opened account for (`Held`), and the braces outside are `selDepth`.
  Which tokens are open is counted on the source alone, by the positions where each
  opens or closes (`Among`), so that one more token adds its own (`ReadOpens`). A step
  then only has to show that what is being read follows the token (`StepFollows`).

Model-checked only:

- liveness (`ReloadsSettle`, `EveryExchangeEnds`, `DrainEndsStreams`, `ForwardsEnd`,
  `RunEnds`): it needs fairness, and with it ENABLED, which the prover does not have;
- `AcceptsGrammar` and `SameBytesJustForSame`: the reference reads by recursion over the
  productions, and what a recursive definition computes for every source needs an
  induction that the prover cannot instantiate;
- `ScansTheGrammar` and `ValuesKeptApart`: the same, for the readings of a token byte by
  byte, of which there are as many as kinds of token.

## Not modelled, and why

- *Text and layout*: the position an error carries, metrics rendering, logging,
  the parsing of one flag's text. No property depends on them.
- *External code*: net/http, ReverseProxy, fasthttp, jscan's JSON grammar, the
  GraphQL schema validator, the hash functions, the flag package. What they may do
  appears as actions and definitions mapped as external. Gathering a request from
  fasthttp's accessors is the translation of its interface, and media types are
  only told apart as what they are recognised as.
- *Timers that change nothing the models tell apart*: the ticker that recycles idle
  upstream connections, the version notice.
- *The hash API, the hasher and the mains* (`gqlhash.go`, `internal/app/hasher`,
  `cmd`): one call of the parser with a hash as its output, without state.
- *The load test and the playground API*: tools beside the product.
- *The web page, its editor and its service worker*: a demonstration. What decides
  in the worker (`web/src/sw.js`: which build's worker serves which page, and when a
  cache is written) is the browser's life cycle of workers, so a model would be one of
  the browser; its hazard is listed without a property.

Left to do, should the code grow that way: the grammar of a JSON body, with a
reference of its own, if jscan is replaced; a drain that ends every stream, once the code
has one for streams without an upstream timeout and for clients that stall; and induction over what the parser's reference
reads, once a prover can be given it.
