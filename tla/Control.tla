------------------------------- MODULE Control --------------------------------
(***************************************************************************)
(* internal/app/proxy/control.go, metrics.go and the counters of proxy.go: *)
(* the control server beside the allowlist and the requests.  The start    *)
(* loads the allowlist before anything is served (run.go, build); then     *)
(* POST /reload loads it again, a request that was looked up is counted by *)
(* what was decided and once more if its forward failed, and a scrape      *)
(* reads the counters one after another and the list in use.               *)
(***************************************************************************)
EXTENDS Allowlist, Sequences

CONSTANTS
  Main,      \* the loader that is the start, not a request
  Token,     \* -control.token, or "" for none
  Given,     \* what requests carry for it
  Scrapers,  \* the scrape each one repeats: "status" or "metrics"
  Bounds     \* records: who calls, how often, and what the directory may hold

ASSUME MainAssumption ==
  Main \in Loaders /\ \A b \in Bounds : b.callers \subseteq Loaders \ {Main}

VARIABLES
  bound,     \* bound: the record chosen
  answer,    \* the status each loader was answered, 0 before
  told,      \* the totals of an answer 200
  still,     \* ghost: the directory has not changed since this loader asked
  history,   \* ghost: the lists published
  counters,  \* how many requests each decision took
  forwards,  \* the readers whose request is upstream
  spc,       \* what each scrape reads next
  shown,     \* what it read
  scraped    \* what each scraper was told last

requests == <<answer, told, still, history>>
scrapes == <<spc, shown, scraped>>
controlVars == <<bound, requests, counters, forwards, scrapes>>
allVars == <<vars, controlVars>>

Decisions == {"allowed", "rejected", "upstream"}

\* What is reported of nothing.
Nothing == [documents |-> 0, loadedAt |-> 0, allowed |-> 0, rejected |-> 0, upstream |-> 0]

-----------------------------------------------------------------------------
ControlInit ==
  /\ Init
  /\ bound \in Bounds
  /\ schema \in bound.schemas /\ \A f \in Files : disk[f] \in bound.contents
  /\ answer = [l \in Loaders |-> 0]
  /\ told = [l \in Loaders |-> [documents |-> 0, skipped |-> 0]]
  /\ still = [l \in Loaders |-> FALSE]
  /\ history = {}
  /\ counters = [d \in Decisions |-> 0]
  /\ forwards = {}
  /\ spc = [s \in DOMAIN Scrapers |-> 0]
  /\ shown = [s \in DOMAIN Scrapers |-> Nothing]
  /\ scraped = [s \in DOMAIN Scrapers |-> Nothing]

\* build returned the components, so the listeners are bound.
Serving == answer[Main] = 200

Deploy ==
  /\ edits < bound.edits
  /\ Edit
  /\ schema' \in bound.schemas /\ \A f \in Files : disk'[f] \in bound.contents
  /\ still' = [l \in Loaders |-> FALSE]
  /\ UNCHANGED <<bound, answer, told, history, counters, forwards, scrapes>>

-----------------------------------------------------------------------------
(* The start and POST /reload.                                             *)

authorized(given) == Token = "" \/ given = Token

Respond(l, status) == answer' = [answer EXCEPT ![l] = status]

CallReload(l) ==
  /\ Reload(l)
  /\ Respond(l, 0)
  /\ still' = [still EXCEPT ![l] = TRUE]
  /\ UNCHANGED <<bound, told, history, counters, forwards, scrapes>>

\* A start that fails is the end of the process.
Start ==
  /\ answer[Main] = 0
  /\ CallReload(Main)

reload(l, method, given) ==
  /\ Serving /\ l \in bound.callers /\ pc[l] = "idle" /\ clock < bound.reloads
  /\ IF method # "POST"
     THEN Respond(l, 405) /\ UNCHANGED <<vars, bound, told, still, history, counters,
                                         forwards, scrapes>>
     ELSE IF ~authorized(given)
     THEN Respond(l, 401) /\ UNCHANGED <<vars, bound, told, still, history, counters,
                                         forwards, scrapes>>
     ELSE CallReload(l)

Loads(l) ==
  /\ Lock(l) \/ ScanDir(l) \/ LoadSchema(l) \/ ReadFile(l) \/ LoadPrevious(l)
  /\ UNCHANGED controlVars

Publishes(l) ==
  /\ Store(l)
  /\ history' = history \cup {current'}
  /\ UNCHANGED <<bound, answer, told, still, counters, forwards, scrapes>>

Fails(l) ==
  /\ ScanFails(l)
  /\ Respond(l, 500)
  /\ UNCHANGED <<bound, told, still, history, counters, forwards, scrapes>>

\* Mutant: the schema that can't be read is not named.
ReportsFilesOnly(l) ==
  /\ Return(l)
  /\ Respond(l, 200)
  /\ told' = [told EXCEPT ![l] = [documents |-> Cardinality(Loaded(found[l])),
                                 skipped |-> Cardinality(skipped[l])]]
  /\ UNCHANGED <<bound, still, history, counters, forwards, scrapes>>

\* The schema that can't be read is named beside the files.
Reports(l) ==
  /\ Return(l)
  /\ Respond(l, 200)
  /\ told' = [told EXCEPT ![l] =
                [documents |-> Cardinality(Loaded(found[l])),
                 skipped |-> Cardinality(skipped[l])
                               + IF rules[l] = "broken" THEN 1 ELSE 0]]
  /\ UNCHANGED <<bound, still, history, counters, forwards, scrapes>>

\* Mutant: a caller that finds a load running is answered with that load.
QueueJoins(l) ==
  \/ /\ pc[l] = "queued" /\ loading # "nobody"
     /\ pc' = [pc EXCEPT ![l] = "idle"]
     /\ Respond(l, 200)
     /\ told' = [told EXCEPT ![l] = told[loading]]
     /\ UNCHANGED <<directory, loading, current, clock, work, lookups, fresh, balance,
                    bound, still, history, counters, forwards, scrapes>>
  \/ Loads(l) \/ Publishes(l) \/ Fails(l) \/ Reports(l)

Loading(l) == Loads(l) \/ Publishes(l) \/ Fails(l) \/ Reports(l)

-----------------------------------------------------------------------------
(* Requests.                                                               *)

InFlight == Cardinality({r \in Readers : rpc[r] # "idle"})

Arrives(r) ==
  /\ Serving /\ r \notin forwards
  /\ counters["allowed"] + counters["rejected"] + InFlight < bound.lookups
  /\ Call(r)
  /\ UNCHANGED controlVars

Looks(r) == LoadCurrent(r) /\ UNCHANGED controlVars

Count(d) == counters' = [counters EXCEPT ![d] = @ + 1]

\* Counted before the request goes anywhere.
Decides(r) ==
  /\ Answer(r)
  /\ IF Allowed(r)
     THEN Count("allowed") /\ forwards' = forwards \cup {r}
     ELSE Count("rejected") /\ UNCHANGED forwards
  /\ UNCHANGED <<bound, requests, scrapes>>

Forwarded(r) ==
  /\ r \in forwards
  /\ forwards' = forwards \ {r}
  /\ Count("upstream") \/ UNCHANGED counters
  /\ UNCHANGED <<vars, bound, requests, scrapes>>

-----------------------------------------------------------------------------
(* Scrapes.                                                                *)

snapshot == <<"allowed", "rejected", "upstream">>

Reads(s) == IF Scrapers[s] = "status" THEN <<"Stats">> \o snapshot ELSE snapshot \o <<"Stats">>

Show(s, what) == shown' = [shown EXCEPT ![s] = what]

\* Mutant: the count and the time are read from the list in use, one at a time.
StatsApart(s) ==
  \/ /\ shown[s].documents = -1
     /\ Show(s, [shown[s] EXCEPT !.documents = Cardinality(current.docs)])
     /\ spc' = [spc EXCEPT ![s] = @ + 1]
  \/ /\ shown[s].documents # -1
     /\ Show(s, [shown[s] EXCEPT !.documents = -1, !.loadedAt = current.loadedAt])
     /\ UNCHANGED spc

Stats(s) ==
  /\ Show(s, [shown[s] EXCEPT !.documents = Cardinality(current.docs),
                              !.loadedAt = current.loadedAt])
  /\ spc' = [spc EXCEPT ![s] = @ + 1]

ScrapeBegins(s) ==
  /\ Serving /\ spc[s] = 0 /\ s \in bound.scrapers
  /\ spc' = [spc EXCEPT ![s] = 1]
  /\ Show(s, Nothing)
  /\ UNCHANGED <<vars, bound, requests, counters, forwards, scraped>>

\* Mutant: a counter starts over when it was read.
ReadsAndClears(s) ==
  /\ spc[s] \in DOMAIN Reads(s)
  /\ LET d == Reads(s)[spc[s]]
     IN IF d = "Stats"
        THEN Stats(s) /\ UNCHANGED counters
        ELSE /\ Show(s, [shown[s] EXCEPT ![d] = counters[d]])
             /\ counters' = [counters EXCEPT ![d] = 0]
             /\ spc' = [spc EXCEPT ![s] = @ + 1]
  /\ UNCHANGED <<vars, bound, requests, forwards, scraped>>

Read(s) ==
  /\ spc[s] \in DOMAIN Reads(s)
  /\ LET d == Reads(s)[spc[s]]
     IN IF d = "Stats"
        THEN Stats(s)
        ELSE /\ Show(s, [shown[s] EXCEPT ![d] = counters[d]])
             /\ spc' = [spc EXCEPT ![s] = @ + 1]
  /\ UNCHANGED <<vars, bound, requests, counters, forwards, scraped>>

ScrapeEnds(s) ==
  /\ spc[s] > Len(Reads(s))
  /\ spc' = [spc EXCEPT ![s] = 0]
  /\ scraped' = [scraped EXCEPT ![s] = shown[s]]
  /\ UNCHANGED <<vars, bound, requests, counters, forwards, shown>>

-----------------------------------------------------------------------------
ControlNext ==
  \/ Deploy \/ Start
  \/ \E l \in Loaders :
       \/ \E method \in {"GET", "POST"}, given \in Given : reload(l, method, given)
       \/ Loading(l)
  \/ \E r \in Readers : Arrives(r) \/ Looks(r) \/ Decides(r) \/ Forwarded(r)
  \/ \E s \in DOMAIN Scrapers : ScrapeBegins(s) \/ Read(s) \/ ScrapeEnds(s)

ControlSpec == ControlInit /\ [][ControlNext]_allVars

\* As Allowlist has it, of the steps with what they answer.
ControlFairness ==
  \A l \in Loaders : WF_allVars(Loading(l)) /\ SF_allVars(Lock(l) /\ UNCHANGED controlVars)

FairControlSpec == ControlSpec /\ ControlFairness

-----------------------------------------------------------------------------
(* Safety.                                                                 *)

Present == {f \in Files : disk[f] # "absent"}

\* A reload that was answered 200 for a directory nobody has touched since it was asked
\* for has put that directory into service, and no load that was running when it was
\* asked for puts an older one back (control.go:90-92, allowlist.go:122-124).
AnsweredReloadServes ==
  \A l \in Loaders : answer[l] = 200 /\ still[l] => current.docs = Usable

\* Its totals are those of the directory: every file is counted once, and a schema that
\* can't be read is an error beside them (control.go:102-114).
TotalsOfTheDirectory ==
  \A l \in Loaders : answer[l] = 200 /\ still[l] =>
    /\ told[l].documents = Cardinality(Usable)
    /\ told[l].documents + told[l].skipped =
         Cardinality(Present) + IF schema = "broken" THEN 1 ELSE 0

\* The count and the time told are those of one list that was published.
OfOneList(it) ==
  \E list \in history :
    it.documents = Cardinality(list.docs) /\ it.loadedAt = list.loadedAt

\* The count and the time of a scrape are those of one published list, whatever is
\* published while it reads (metrics.go:169, allowlist.go:77-79).
ScrapeOfOneList ==
  \A s \in DOMAIN Scrapers : scraped[s] # Nothing => OfOneList(scraped[s])

\* A scraper is never told of an older list than before (the clock numbers the lists in
\* the order they were published), nor of fewer requests, nor of one nobody has decided
\* yet (proxy.go:70-82, metrics.go:152-167).
ScrapesAdvance ==
  [][\A s \in DOMAIN Scrapers : scraped'[s] # scraped[s] =>
       /\ scraped'[s].loadedAt >= scraped[s].loadedAt
       /\ \A d \in Decisions : scraped[s][d] <= scraped'[s][d] /\ scraped'[s][d] <= counters[d]
    ]_allVars

\* What a scraper is told of the list is of one list, and each number it is told follows
\* its counter, whatever is published and counted while it reads (proxy.go:70-82,
\* metrics.go:152-176).  It says nothing of how the numbers of one scrape fit together.
ScrapesAreTrue == []ScrapeOfOneList /\ ScrapesAdvance

\* "decisions is what a proxy did, read at one moment." (proxy.go:56)  At no moment have
\* more requests failed upstream than were allowed: Decides counts a request before it
\* goes anywhere.
ReadAtOneMoment == \A s \in DOMAIN Scrapers : scraped[s].upstream <= scraped[s].allowed

-----------------------------------------------------------------------------
(* The inductive invariant behind AnsweredReloadServes.                    *)

Walked(l) == pc[l] \in {"schema", "read", "store", "diff"}

\* Whoever has walked the directory since a reload was answered has seen what it loaded.
AnswerInv ==
  /\ answer \in [Loaders -> {0, 200, 401, 405, 500}]
  /\ still \in [Loaders -> BOOLEAN]
  /\ \A l \in Loaders : still[l] /\ Walked(l) => fresh[l]
  /\ AnsweredReloadServes
  /\ \A l, m \in Loaders : answer[l] = 200 /\ still[l] /\ Walked(m) => fresh[m]

-----------------------------------------------------------------------------
(* The inductive invariant behind TotalsOfTheDirectory.                    *)

\* A load that has seen the directory of now has listed all of it, and read it under the
\* schema it holds.
Whole(l) ==
  /\ Walked(l) => scanned[l] = Present
  /\ pc[l] \in {"store", "diff"} => rules[l] = schema

TotalsInv ==
  /\ \A l \in Loaders : fresh[l] => Whole(l)
  /\ told \in [Loaders -> [documents : Nat, skipped : Nat]]
  /\ TotalsOfTheDirectory

-----------------------------------------------------------------------------
(* The inductive invariant behind ScrapesAreTrue.                          *)

Told == [documents : Nat, loadedAt : Nat, allowed : Nat, rejected : Nat, upstream : Nat]

\* The scrape under way has read d.
Has(s, d) == \E i \in DOMAIN Reads(s) : i < spc[s] /\ Reads(s)[i] = d

\* A list is published before any answer says so, and at the time it says.
Published ==
  /\ current.loadedAt = clock
  /\ clock > 0 => current \in history
  /\ \A l \in Loaders : answer[l] = 200 \/ pc[l] = "diff" => clock > 0

\* What a scrape has read so far is no older than what its scraper was told last, and
\* no newer than now.
TrueSoFar(s) ==
  /\ spc[s] > 0 => clock > 0
  /\ scraped[s] # Nothing => OfOneList(scraped[s])
  /\ scraped[s].loadedAt <= clock
  /\ Has(s, "Stats") => /\ OfOneList(shown[s])
                        /\ scraped[s].loadedAt <= shown[s].loadedAt
                        /\ shown[s].loadedAt <= clock
  /\ \A d \in Decisions :
       /\ scraped[s][d] <= counters[d]
       /\ Has(s, d) => scraped[s][d] <= shown[s][d] /\ shown[s][d] <= counters[d]

ScrapeInv ==
  /\ counters \in [Decisions -> Nat]
  /\ spc \in [DOMAIN Scrapers -> 0..5]
  /\ shown \in [DOMAIN Scrapers -> Told]
  /\ scraped \in [DOMAIN Scrapers -> Told]
  /\ Published
  /\ \A s \in DOMAIN Scrapers : TrueSoFar(s)
==============================================================================
