----------------------------- MODULE ControlProofs ----------------------------
(***************************************************************************)
(* The control server, the requests and the scrapes leave the allowlist    *)
(* to its own steps, so what is proved of Allowlist holds of Control.      *)
(***************************************************************************)
EXTENDS Control, AllowlistProofs, SequenceTheorems

LEMMA InitKept == ControlInit => Init
BY DEF ControlInit

LEMMA LoadKept == ASSUME NEW l \in Loaders, Loading(l) PROVE Next
BY DEF Loading, Loads, Publishes, Fails, Reports, Next, Step

LEMMA ReloadKept ==
  ASSUME NEW l \in Loaders, NEW method, NEW given, reload(l, method, given)
  PROVE [Next]_vars
BY DEF reload, CallReload, Next

LEMMA StartKept == ASSUME Start PROVE Next
BY MainAssumption DEF Start, CallReload, Next

LEMMA RequestKept ==
  ASSUME NEW r \in Readers, Arrives(r) \/ Looks(r) \/ Decides(r) \/ Forwarded(r)
  PROVE [Next]_vars
BY DEF Arrives, Looks, Decides, Forwarded, Next

LEMMA ScrapeKept ==
  ASSUME NEW s \in DOMAIN Scrapers, ScrapeBegins(s) \/ Read(s) \/ ScrapeEnds(s)
  PROVE UNCHANGED vars
BY DEF ScrapeBegins, Read, ScrapeEnds

LEMMA StepKept == [ControlNext]_allVars => [Next]_vars
<1> SUFFICES ASSUME [ControlNext]_allVars PROVE [Next]_vars
    OBVIOUS
<1>1. CASE Deploy
      BY <1>1 DEF Deploy, Next
<1>2. CASE Start
      BY <1>2, StartKept
<1>3. CASE \E l \in Loaders :
             \/ \E method \in {"GET", "POST"}, given \in Given : reload(l, method, given)
             \/ Loading(l)
      BY <1>3, ReloadKept, LoadKept
<1>4. CASE \E r \in Readers : Arrives(r) \/ Looks(r) \/ Decides(r) \/ Forwarded(r)
      BY <1>4, RequestKept
<1>5. CASE \E s \in DOMAIN Scrapers : ScrapeBegins(s) \/ Read(s) \/ ScrapeEnds(s)
      BY <1>5, ScrapeKept
<1>6. CASE UNCHANGED allVars
      BY <1>6 DEF allVars
<1> QED
    BY <1>1, <1>2, <1>3, <1>4, <1>5, <1>6 DEF ControlNext

\* The control server is one of the environments the allowlist is specified for: it adds
\* no step of its own to a load or a lookup (control.go:90-92).
THEOREM KeepsAllowlist == ControlSpec => Spec
<1>1. ControlInit => Init
      BY InitKept
<1>2. [ControlNext]_allVars => [Next]_vars
      BY StepKept
<1> QED
    BY <1>1, <1>2, PTL DEF ControlSpec, Spec

\* Beside the control server, too, a load of a directory that held still publishes the
\* hashes one acceptable file carries, every listed file is served or named, and the
\* differences reported add up (allowlist.go:114-121).
THEOREM LoadsKept ==
  ControlSpec => [](FreshLoadServesUsable /\ EveryFileAccounted /\ BalanceIsLen)
BY KeepsAllowlist, FreshLoads, FilesAccounted, ReportsBalance, PTL

\* And lookups are those of the abstract served set (allowlist.go:28-30).
THEOREM LookupsKept == ControlSpec => LookupsAreAtomic
BY KeepsAllowlist, Refinement, PTL

-----------------------------------------------------------------------------
LEMMA UsableKept ==
  ASSUME UNCHANGED directory PROVE Usable' = Usable
BY DEF directory, Usable, Carriers

LEMMA InitAnswer == ControlInit => AnswerInv
BY DEF ControlInit, Init, AnswerInv, AnsweredReloadServes, Walked

\* Nothing AnswerInv speaks of changes.
LEMMA FrameAnswer ==
  ASSUME AnswerInv, UNCHANGED <<answer, still, fresh, pc, current, directory>>
  PROVE  AnswerInv'
<1>1. Usable' = Usable
      BY UsableKept
<1> QED
    BY <1>1 DEF AnswerInv, AnsweredReloadServes, Walked

LEMMA DeployAnswer ==
  ASSUME TypeOK, AnswerInv, Deploy PROVE AnswerInv'
BY DEF Deploy, Edit, AnswerInv, AnsweredReloadServes, Walked

LEMMA CallAnswer ==
  ASSUME TypeOK, AnswerInv, NEW l \in Loaders, CallReload(l)
  PROVE  AnswerInv'
<1> USE DEF CallReload, Reload, Goto, Respond, TypeOK
<1>1. Usable' = Usable
      BY UsableKept
<1>2. /\ answer' = [answer EXCEPT ![l] = 0]
      /\ still' = [still EXCEPT ![l] = TRUE]
      /\ UNCHANGED <<current, fresh>>
      /\ pc' = [pc EXCEPT ![l] = "queued"]
      OBVIOUS
<1>3. \A m \in Loaders : Walked(m)' => m # l /\ Walked(m)
      BY <1>2 DEF Walked
<1> QED
    BY <1>1, <1>2, <1>3 DEF AnswerInv, AnsweredReloadServes

LEMMA ReloadAnswer ==
  ASSUME TypeOK, AnswerInv, NEW l \in Loaders, NEW method, NEW given,
         reload(l, method, given)
  PROVE  AnswerInv'
<1>1. CASE CallReload(l)
      BY <1>1, CallAnswer
<1>2. CASE \E status \in {401, 405} : Respond(l, status) /\ UNCHANGED <<vars, still>>
      <2>1. PICK status \in {401, 405} : Respond(l, status)
            BY <1>2
      <2>2. UNCHANGED <<directory, current, fresh, pc, still>>
            BY <1>2 DEF vars
      <2>3. Usable' = Usable
            BY <2>2, UsableKept
      <2> QED
          BY <2>1, <2>2, <2>3 DEF Respond, AnswerInv, AnsweredReloadServes, Walked
<1> QED
    BY <1>1, <1>2 DEF reload

\* A step of a load that publishes nothing and ends nothing.
LEMMA LoadsAnswer ==
  ASSUME TypeOK, AnswerInv, NEW l \in Loaders, Loads(l)
  PROVE  AnswerInv'
<1>1. UNCHANGED <<answer, still, current, directory>>
      BY DEF Loads, controlVars, requests, Lock, ScanDir, LoadSchema, ReadFile, LoadPrevious
<1>2. Usable' = Usable
      BY <1>1, UsableKept
<1>3. ASSUME NEW m \in Loaders, Walked(m)'
      PROVE  (fresh'[m] = fresh[m] /\ Walked(m)) \/ fresh'[m]
      <2>1. CASE Lock(l)
            BY <2>1, <1>3 DEF Lock, Goto, Walked, TypeOK
      <2>2. CASE ScanDir(l)
            BY <2>2, <1>3 DEF ScanDir, Goto, Walked, TypeOK
      <2>3. CASE LoadSchema(l)
            BY <2>3, <1>3 DEF LoadSchema, Goto, Walked, TypeOK
      <2>4. CASE ReadFile(l)
            BY <2>4, <1>3 DEF ReadFile, Walked
      <2>5. CASE LoadPrevious(l)
            BY <2>5, <1>3 DEF LoadPrevious, Goto, Walked, TypeOK
      <2> QED
          BY <2>1, <2>2, <2>3, <2>4, <2>5 DEF Loads
<1> QED
    BY <1>1, <1>2, <1>3 DEF AnswerInv, AnsweredReloadServes

\* A list published beside an answer that still holds is the one it answered for.
LEMMA PublishesAnswer ==
  ASSUME TypeOK, LoadInv, AnswerInv, NEW l \in Loaders, Publishes(l)
  PROVE  AnswerInv'
<1> USE DEF Publishes, Store, Goto
<1>1. Usable' = Usable
      BY UsableKept
<1>2. UNCHANGED <<answer, still, fresh>>
      OBVIOUS
<1>3. \A m \in Loaders : Walked(m)' => Walked(m)
      BY DEF Walked, TypeOK
<1>4. ASSUME fresh[l] PROVE DocsOf(found[l]) = Usable
      <2>1. \A f \in Files : found[l][f] = Expected(f)
            BY <1>4 DEF LoadInv, Faithful
      <2> QED
          BY <2>1, FoundIsUsable
<1>5. current'.docs = DocsOf(found[l]) /\ Walked(l)
      BY DEF Walked
<1> QED
    BY <1>1, <1>2, <1>3, <1>4, <1>5 DEF AnswerInv, AnsweredReloadServes

LEMMA FailsAnswer ==
  ASSUME TypeOK, AnswerInv, NEW l \in Loaders, Fails(l)
  PROVE  AnswerInv'
<1> USE DEF Fails, ScanFails, Goto, Respond
<1>1. Usable' = Usable
      BY UsableKept
<1>2. \A m \in Loaders : Walked(m)' => Walked(m)
      BY DEF Walked, TypeOK
<1> QED
    BY <1>1, <1>2 DEF AnswerInv, AnsweredReloadServes

\* The one that answers holds the mutex, so no other has walked the directory.
LEMMA ReportsAnswer ==
  ASSUME TypeOK, LoadInv, AnswerInv, NEW l \in Loaders, Reports(l)
  PROVE  AnswerInv'
<1> USE DEF Reports, Return, Goto, Respond
<1>1. Usable' = Usable
      BY UsableKept
<1>2. loading = l
      BY DEF LoadInv, Mutex, Holding, PcStates
<1>3. \A m \in Loaders : ~Walked(m)'
      BY <1>2 DEF LoadInv, Mutex, Holding, PcStates, Walked, TypeOK
<1>4. still[l] => current.docs = Usable
      <2> SUFFICES ASSUME still[l] PROVE current.docs = Usable
          OBVIOUS
      <2>1. fresh[l]
            BY DEF AnswerInv, Walked
      <2>2. \A f \in Files : found[l][f] = Expected(f)
            BY <2>1 DEF LoadInv, Faithful
      <2>3. current.docs = DocsOf(found[l])
            BY DEF LoadInv, Owned
      <2> QED
          BY <2>2, <2>3, FoundIsUsable
<1> QED
    BY <1>1, <1>3, <1>4 DEF AnswerInv, AnsweredReloadServes

LEMMA NextAnswer ==
  ASSUME TypeOK, LoadInv, AnswerInv, [ControlNext]_allVars
  PROVE  AnswerInv'
<1>1. CASE Deploy
      BY <1>1, DeployAnswer
<1>2. CASE Start
      BY <1>2, CallAnswer, MainAssumption DEF Start
<1>3. CASE \E l \in Loaders :
             \/ \E method \in {"GET", "POST"}, given \in Given : reload(l, method, given)
             \/ Loading(l)
      BY <1>3, ReloadAnswer, LoadsAnswer, PublishesAnswer, FailsAnswer, ReportsAnswer
         DEF Loading
<1>4. CASE \E r \in Readers : Arrives(r) \/ Looks(r) \/ Decides(r) \/ Forwarded(r)
      <2>1. UNCHANGED <<answer, still, fresh, pc, current, directory>>
            BY <1>4 DEF Arrives, Looks, Decides, Forwarded, Call, LoadCurrent, Answer,
               controlVars, requests, vars
      <2> QED
          BY <2>1, FrameAnswer
<1>5. CASE \E s \in DOMAIN Scrapers : ScrapeBegins(s) \/ Read(s) \/ ScrapeEnds(s)
      <2>1. UNCHANGED <<answer, still, fresh, pc, current, directory>>
            BY <1>5 DEF ScrapeBegins, Read, ScrapeEnds, requests, vars
      <2> QED
          BY <2>1, FrameAnswer
<1>6. CASE UNCHANGED allVars
      <2>1. UNCHANGED <<answer, still, fresh, pc, current, directory>>
            BY <1>6 DEF allVars, controlVars, requests, vars
      <2> QED
          BY <2>1, FrameAnswer
<1> QED
    BY <1>1, <1>2, <1>3, <1>4, <1>5, <1>6 DEF ControlNext

\* A reload answered 200 has put into service the directory as it is, if nobody touched
\* it since the reload was asked for (control.go:90-92).
THEOREM ReloadServes == ControlSpec => []AnsweredReloadServes
<1>1. ControlInit => AnswerInv
      BY InitAnswer
<1>2. TypeOK /\ LoadInv /\ AnswerInv /\ [ControlNext]_allVars => AnswerInv'
      BY NextAnswer
<1>3. AnswerInv => AnsweredReloadServes
      BY DEF AnswerInv
<1> QED
    BY <1>1, <1>2, <1>3, KeepsAllowlist, TypeCorrect, LoadInvHolds, PTL DEF ControlSpec
-----------------------------------------------------------------------------
(* The totals of an answer.                                                *)

\* A load publishes one hash for each document file it leaves in: it counts the one by
\* counting the other.
LEMMA AsManyAsLoaded ==
  ASSUME NEW x \in [Files -> Keys \cup {"none"}]
  PROVE  /\ IsFiniteSet(Loaded(x))
         /\ Cardinality(Loaded(x)) = Cardinality(DocsOf(x))
<1>1. Loaded(x) \subseteq Files
      BY DEF Loaded
<1>2. IsFiniteSet(Files)
      BY FS_Interval, SizesAssumption DEF Files
<1>3. IsFiniteSet(Loaded(x))
      BY <1>1, <1>2, FS_Subset
<1> DEFINE hash == [f \in Loaded(x) |-> x[f]]
<1>4. hash \in Bijection(Loaded(x), DocsOf(x))
      BY LoadedApart DEF Bijection, Injection, IsInjective, Surjection, DocsOf
<1>5. ExistsBijection(Loaded(x), DocsOf(x))
      BY <1>4 DEF ExistsBijection
<1> QED
    BY <1>3, <1>5, FS_Bijection

\* Of a load that read the directory of now, the documents are the usable ones, and they
\* and the skipped are the files.
LEMMA WholeCounted ==
  ASSUME TypeOK, LoadInv, NEW l \in Loaders, pc[l] = "diff", fresh[l], Whole(l)
  PROVE  /\ Cardinality(Loaded(found[l])) = Cardinality(Usable)
         /\ Cardinality(Loaded(found[l])) + Cardinality(skipped[l]) = Cardinality(Present)
         /\ Cardinality(Loaded(found[l])) \in Nat /\ Cardinality(skipped[l]) \in Nat
         /\ Cardinality(Present) \in Nat
<1>1. found[l] \in [Files -> Keys \cup {"none"}]
      BY DEF TypeOK
<1>2. \A f \in Files : found[l][f] = Expected(f)
      BY DEF LoadInv, Faithful
<1>3. DocsOf(found[l]) = Usable
      BY <1>2, FoundIsUsable
<1>4. Cardinality(Loaded(found[l])) = Cardinality(Usable)
      BY <1>1, <1>3, AsManyAsLoaded
<1>5. /\ Loaded(found[l]) \cup skipped[l] = Present
      /\ Loaded(found[l]) \cap skipped[l] = {}
      BY DEF LoadInv, Sorted, Whole, Walked
<1>6. IsFiniteSet(Loaded(found[l])) /\ IsFiniteSet(skipped[l]) /\ IsFiniteSet(Present)
      <2>1. IsFiniteSet(Files)
            BY FS_Interval, SizesAssumption DEF Files
      <2> QED
          BY <1>1, <2>1, AsManyAsLoaded, FS_Subset DEF TypeOK, Present
<1>7. /\ Cardinality(Loaded(found[l])) \in Nat /\ Cardinality(skipped[l]) \in Nat
      /\ Cardinality(Present) \in Nat
      BY <1>6, FS_CardinalityType
<1>8. Cardinality(Present) = Cardinality(Loaded(found[l])) + Cardinality(skipped[l])
                              - Cardinality(Loaded(found[l]) \cap skipped[l])
      BY <1>5, <1>6, FS_Union
<1>9. Cardinality(Loaded(found[l]) \cap skipped[l]) = 0
      BY <1>5, FS_EmptySet
<1> QED
    BY <1>4, <1>7, <1>8, <1>9

\* What the directory holds is as it was.
LEMMA DirectoryKept ==
  ASSUME UNCHANGED directory
  PROVE  Usable' = Usable /\ Present' = Present /\ schema' = schema
BY UsableKept DEF directory, Present

LEMMA InitTotals == ControlInit => TotalsInv
BY DEF ControlInit, Init, TotalsInv, TotalsOfTheDirectory

\* A step that leaves the answers and the directory as they are, and no load fresh that
\* has read less than the directory.
LEMMA FrameTotals ==
  ASSUME TotalsInv, UNCHANGED <<answer, told, still, directory>>,
         \A m \in Loaders : fresh'[m] => Whole(m)'
  PROVE  TotalsInv'
<1>1. Usable' = Usable /\ Present' = Present /\ schema' = schema
      BY DirectoryKept
<1> QED
    BY <1>1 DEF TotalsInv, TotalsOfTheDirectory

LEMMA DeployTotals ==
  ASSUME TotalsInv, Deploy PROVE TotalsInv'
BY DEF Deploy, Edit, TotalsInv, TotalsOfTheDirectory

\* Where only pc moves, to where nothing is claimed of the walk, every load is as whole
\* as it was.
LEMMA StaysWhole ==
  ASSUME TotalsInv, UNCHANGED <<scanned, rules, directory, fresh>>, NEW m \in Loaders,
         fresh'[m], Walked(m)' => Walked(m),
         pc'[m] \in {"store", "diff"} => pc[m] \in {"store", "diff"}
  PROVE  Whole(m)'
<1>1. Present' = Present /\ schema' = schema
      BY DirectoryKept
<1> QED
    BY <1>1 DEF TotalsInv, Whole

LEMMA CallTotals ==
  ASSUME TypeOK, AnswerInv, TotalsInv, NEW l \in Loaders, CallReload(l)
  PROVE  TotalsInv'
<1> USE DEF CallReload, Reload, Goto, Respond, TypeOK
<1>1. Usable' = Usable /\ Present' = Present /\ schema' = schema
      BY DirectoryKept
<1>2. ASSUME NEW m \in Loaders, fresh'[m] PROVE Whole(m)'
      BY <1>2, StaysWhole DEF Walked, work
<1>3. TotalsOfTheDirectory'
      <2> SUFFICES ASSUME NEW m \in Loaders, answer'[m] = 200, still'[m]
                   PROVE  m # l /\ answer[m] = 200 /\ still[m]
          BY <1>1 DEF TotalsInv, TotalsOfTheDirectory
      <2> QED
          BY DEF AnswerInv
<1> QED
    BY <1>2, <1>3 DEF TotalsInv
LEMMA ReloadTotals ==
  ASSUME TypeOK, AnswerInv, TotalsInv, NEW l \in Loaders, NEW method, NEW given,
         reload(l, method, given)
  PROVE  TotalsInv'
<1>1. CASE CallReload(l)
      BY <1>1, CallTotals
<1>2. CASE \E status \in {401, 405} : /\ Respond(l, status)
                                      /\ UNCHANGED <<vars, told, still>>
      <2>1. PICK status \in {401, 405} : Respond(l, status)
            BY <1>2
      <2>2. UNCHANGED <<directory, fresh, pc, scanned, rules, told, still>>
            BY <1>2 DEF vars, work
      <2>3. Usable' = Usable /\ Present' = Present /\ schema' = schema
            BY <2>2, DirectoryKept
      <2>4. ASSUME NEW m \in Loaders, fresh'[m] PROVE Whole(m)'
            BY <2>2, <2>4, StaysWhole DEF Walked
      <2>5. ASSUME NEW m \in Loaders, answer'[m] = 200 PROVE answer[m] = 200
            BY <2>1, <2>5 DEF Respond, AnswerInv
      <2> QED
          BY <2>2, <2>3, <2>4, <2>5 DEF TotalsInv, TotalsOfTheDirectory
<1> QED
    BY <1>1, <1>2 DEF reload

\* The walk lists what is present; the schema read after it is the one a fresh load finds.
LEMMA LoadsTotals ==
  ASSUME TypeOK, LoadInv, TotalsInv, NEW l \in Loaders, Loads(l)
  PROVE  TotalsInv'
<1> USE DEF Goto, TypeOK
<1>1. UNCHANGED <<answer, told, still, directory>>
      BY DEF Loads, controlVars, requests, Lock, ScanDir, LoadSchema, ReadFile, LoadPrevious
<1>2. Present' = Present /\ schema' = schema
      BY <1>1, DirectoryKept
<1>3. ASSUME NEW m \in Loaders, fresh'[m] PROVE Whole(m)'
      <2>1. CASE Lock(l)
            BY <1>3, <2>1, StaysWhole DEF Lock, Walked, work
      <2>2. CASE ScanDir(l)
            <3>1. CASE m = l
                  BY <1>2, <2>2, <3>1 DEF ScanDir, Whole, Present
            <3>2. CASE m # l
                  BY <1>2, <1>3, <2>2, <3>2 DEF ScanDir, Whole, Walked, TotalsInv
            <3> QED
                BY <3>1, <3>2
      <2>3. CASE LoadSchema(l)
            BY <1>2, <1>3, <2>3 DEF LoadSchema, Whole, Walked, TotalsInv
      <2>4. CASE ReadFile(l)
            BY <1>3, <2>4, StaysWhole DEF ReadFile, Walked
      <2>5. CASE LoadPrevious(l)
            <3>1. fresh[m] /\ UNCHANGED <<scanned, rules>>
                  BY <1>3, <2>5 DEF LoadPrevious
            <3>2. pc[l] = "read" /\ pc' = [pc EXCEPT ![l] = "store"]
                  BY <2>5 DEF LoadPrevious
            <3>3. m = l => rules[m] = schema
                  BY <3>1, <3>2 DEF LoadInv, Faithful
            <3> QED
                BY <1>2, <3>1, <3>2, <3>3 DEF Whole, Walked, TotalsInv
      <2> QED
          BY <2>1, <2>2, <2>3, <2>4, <2>5 DEF Loads
<1> QED
    BY <1>1, <1>3, FrameTotals

LEMMA PublishesTotals ==
  ASSUME TypeOK, TotalsInv, NEW l \in Loaders, Publishes(l)
  PROVE  TotalsInv'
<1> USE DEF Publishes, Store, Goto, TypeOK
<1>1. ASSUME NEW m \in Loaders, fresh'[m] PROVE Whole(m)'
      BY <1>1, StaysWhole DEF Walked, work
<1> QED
    BY <1>1, FrameTotals

LEMMA FailsTotals ==
  ASSUME TypeOK, AnswerInv, TotalsInv, NEW l \in Loaders, Fails(l)
  PROVE  TotalsInv'
<1> USE DEF Fails, ScanFails, Goto, Respond, TypeOK
<1>1. Usable' = Usable /\ Present' = Present /\ schema' = schema
      BY DirectoryKept
<1>2. ASSUME NEW m \in Loaders, fresh'[m] PROVE Whole(m)'
      BY <1>2, StaysWhole DEF Walked, work
<1>3. ASSUME NEW m \in Loaders, answer'[m] = 200 PROVE answer[m] = 200
      BY <1>3 DEF AnswerInv
<1> QED
    BY <1>1, <1>2, <1>3 DEF TotalsInv, TotalsOfTheDirectory

\* A load whose caller still sees the directory it asked about has seen it too.
LEMMA ReportsTotals ==
  ASSUME TypeOK, LoadInv, AnswerInv, TotalsInv, NEW l \in Loaders, Reports(l)
  PROVE  TotalsInv'
<1> USE DEF Reports, Return, Goto, Respond, TypeOK
<1>1. Usable' = Usable /\ Present' = Present /\ schema' = schema
      BY DirectoryKept
<1>2. ASSUME NEW m \in Loaders, fresh'[m] PROVE Whole(m)'
      BY <1>2, StaysWhole DEF Walked, work
<1> DEFINE documents == Cardinality(Loaded(found[l]))
           files == Cardinality(skipped[l])
           totals == [documents |-> documents,
                      skipped |-> files + IF rules[l] = "broken" THEN 1 ELSE 0]
<1>3. told' = [told EXCEPT ![l] = totals]
      OBVIOUS
<1>4. documents \in Nat /\ files \in Nat
      <2>1. found[l] \in [Files -> Keys \cup {"none"}] /\ skipped[l] \subseteq Files
            OBVIOUS
      <2>2. IsFiniteSet(Files)
            BY FS_Interval, SizesAssumption DEF Files
      <2>3. IsFiniteSet(Loaded(found[l])) /\ IsFiniteSet(skipped[l])
            BY <2>1, <2>2, AsManyAsLoaded, FS_Subset
      <2> QED
          BY <2>3, FS_CardinalityType
<1>5. still[l] => /\ documents = Cardinality(Usable)
                  /\ documents + files = Cardinality(Present)
                  /\ rules[l] = schema
      <2> SUFFICES ASSUME still[l] PROVE documents = Cardinality(Usable)
                                         /\ documents + files = Cardinality(Present)
                                         /\ rules[l] = schema
          OBVIOUS
      <2>1. pc[l] = "diff" /\ fresh[l]
            BY DEF AnswerInv, Walked
      <2>2. Whole(l)
            BY <2>1 DEF TotalsInv
      <2> QED
          BY <2>1, <2>2, WholeCounted DEF Whole
<1> HIDE DEF documents, files
<1>6. totals \in [documents : Nat, skipped : Nat]
      BY <1>4
<1>7. still[l] => /\ totals.documents = Cardinality(Usable)
                  /\ totals.documents + totals.skipped =
                       Cardinality(Present) + IF schema = "broken" THEN 1 ELSE 0
      BY <1>4, <1>5
<1> HIDE DEF totals
<1>8. told' \in [Loaders -> [documents : Nat, skipped : Nat]]
      BY <1>3, <1>6 DEF TotalsInv
<1>9. told'[l] = totals /\ still' = still /\ \A m \in Loaders \ {l} : told'[m] = told[m] /\ answer'[m] = answer[m]
      BY <1>3 DEF TotalsInv, AnswerInv
<1>10. TotalsOfTheDirectory'
      BY <1>1, <1>7, <1>9 DEF TotalsInv, TotalsOfTheDirectory
<1> QED
    BY <1>2, <1>8, <1>10 DEF TotalsInv

LEMMA NextTotals ==
  ASSUME TypeOK, LoadInv, AnswerInv, TotalsInv, [ControlNext]_allVars
  PROVE  TotalsInv'
<1>1. CASE Deploy
      BY <1>1, DeployTotals
<1>2. CASE Start
      BY <1>2, CallTotals, MainAssumption DEF Start
<1>3. CASE \E l \in Loaders :
             \/ \E method \in {"GET", "POST"}, given \in Given : reload(l, method, given)
             \/ Loading(l)
      BY <1>3, ReloadTotals, LoadsTotals, PublishesTotals, FailsTotals, ReportsTotals
         DEF Loading
<1>4. ASSUME UNCHANGED <<answer, told, still, directory, pc, scanned, rules, fresh>>
      PROVE  TotalsInv'
      BY <1>4, StaysWhole, FrameTotals DEF Walked
<1>5. CASE \E r \in Readers : Arrives(r) \/ Looks(r) \/ Decides(r) \/ Forwarded(r)
      BY <1>4, <1>5 DEF Arrives, Looks, Decides, Forwarded, Call, LoadCurrent, Answer,
         controlVars, requests, vars, work
<1>6. CASE \E s \in DOMAIN Scrapers : ScrapeBegins(s) \/ Read(s) \/ ScrapeEnds(s)
      BY <1>4, <1>6 DEF ScrapeBegins, Read, ScrapeEnds, requests, vars, work
<1>7. CASE UNCHANGED allVars
      BY <1>4, <1>7 DEF allVars, controlVars, requests, vars, work
<1> QED
    BY <1>1, <1>2, <1>3, <1>5, <1>6, <1>7 DEF ControlNext

\* The totals a reload is answered with are those of the directory, if nobody touched it
\* since: as many documents as are served, and with the skipped every file, and the
\* schema where it can't be read (control.go:102-114).
THEOREM TotalsTrue == ControlSpec => []TotalsOfTheDirectory
<1>1. ControlInit => AnswerInv /\ TotalsInv
      BY InitAnswer, InitTotals
<1>2. TypeOK /\ LoadInv /\ AnswerInv /\ TotalsInv /\ [ControlNext]_allVars
        => AnswerInv' /\ TotalsInv'
      BY NextAnswer, NextTotals
<1>3. TotalsInv => TotalsOfTheDirectory
      BY DEF TotalsInv
<1> QED
    BY <1>1, <1>2, <1>3, KeepsAllowlist, TypeCorrect, LoadInvHolds, PTL DEF ControlSpec
-----------------------------------------------------------------------------
(* Scrapes.                                                                *)

LEMMA Joined ==
  ASSUME NEW S, NEW x \in Seq(S), NEW y \in Seq(S), Len(x) + Len(y) = 4
  PROVE  /\ DOMAIN (x \o y) = 1..4 /\ Len(x \o y) = 4
         /\ \A i \in 1..4 : (x \o y)[i] = IF i <= Len(x) THEN x[i] ELSE y[i - Len(x)]
BY ConcatProperties, LenProperties

\* A scrape reads four things: each counter and the list, each once.
LEMMA ReadsAll ==
  ASSUME NEW s \in DOMAIN Scrapers
  PROVE  /\ DOMAIN Reads(s) = 1..4 /\ Len(Reads(s)) = 4
         /\ \A i \in 1..4 : Reads(s)[i] \in Decisions \cup {"Stats"}
         /\ \A d \in Decisions \cup {"Stats"} : \E i \in 1..4 : Reads(s)[i] = d
<1> DEFINE one == <<"Stats">>
           S == Decisions \cup {"Stats"}
<1>1. one \in Seq(S) /\ Len(one) = 1
      OBVIOUS
<1>2. snapshot \in Seq(S) /\ Len(snapshot) = 3
      BY DEF snapshot, Decisions
<1>3. /\ one[1] = "Stats"
      /\ snapshot[1] = "allowed" /\ snapshot[2] = "rejected" /\ snapshot[3] = "upstream"
      BY DEF snapshot
<1>4. Reads(s) = IF Scrapers[s] = "status" THEN one \o snapshot ELSE snapshot \o one
      BY DEF Reads
<1> HIDE DEF one, S
<1>5. Len(one) + Len(snapshot) = 4 /\ Len(snapshot) + Len(one) = 4
      BY <1>1, <1>2
<1>6. CASE Scrapers[s] = "status"
      <2>1. /\ DOMAIN (one \o snapshot) = 1..4 /\ Len(one \o snapshot) = 4
            /\ \A i \in 1..4 : (one \o snapshot)[i] =
                 IF i <= Len(one) THEN one[i] ELSE snapshot[i - Len(one)]
            BY <1>1, <1>2, <1>5, Joined, Zenon
      <2>2. /\ Reads(s)[1] = "Stats" /\ Reads(s)[2] = "allowed"
            /\ Reads(s)[3] = "rejected" /\ Reads(s)[4] = "upstream"
            BY <1>1, <1>3, <1>4, <1>6, <2>1
      <2> QED
          BY <1>4, <1>6, <2>1, <2>2 DEF Decisions
<1>7. CASE Scrapers[s] # "status"
      <2>1. /\ DOMAIN (snapshot \o one) = 1..4 /\ Len(snapshot \o one) = 4
            /\ \A i \in 1..4 : (snapshot \o one)[i] =
                 IF i <= Len(snapshot) THEN snapshot[i] ELSE one[i - Len(snapshot)]
            BY <1>1, <1>2, <1>5, Joined, Zenon
      <2>2. /\ Reads(s)[1] = "allowed" /\ Reads(s)[2] = "rejected"
            /\ Reads(s)[3] = "upstream" /\ Reads(s)[4] = "Stats"
            BY <1>2, <1>3, <1>4, <1>7, <2>1
      <2> QED
          BY <1>4, <1>7, <2>1, <2>2 DEF Decisions
<1> QED
    BY <1>6, <1>7

\* What is read of a told record, and what one reading of it leaves of the others.
LEMMA ToldFields ==
  ASSUME NEW x \in Told, NEW d \in Decisions, NEW n \in Nat
  PROVE  /\ [x EXCEPT ![d] = n] \in Told
         /\ [x EXCEPT ![d] = n][d] = n
         /\ \A e \in Decisions \ {d} : [x EXCEPT ![d] = n][e] = x[e]
         /\ [x EXCEPT ![d] = n].documents = x.documents
         /\ [x EXCEPT ![d] = n].loadedAt = x.loadedAt
BY DEF Told, Decisions

LEMMA ToldNumbers ==
  ASSUME NEW x \in Told
  PROVE  x.documents \in Nat /\ x.loadedAt \in Nat /\ \A d \in Decisions : x[d] \in Nat
BY DEF Told, Decisions

LEMMA NothingTold ==
  /\ Nothing \in Told /\ Nothing.loadedAt = 0
  /\ \A d \in Decisions : Nothing[d] = 0
BY DEF Nothing, Told, Decisions

\* The list in use is a set of finitely many hashes and the time it was published.
LEMMA ListInUse ==
  ASSUME TypeOK
  PROVE  Cardinality(current.docs) \in Nat /\ current.loadedAt \in Nat
<1>1. current.docs \in SUBSET Keys /\ current.loadedAt \in Nat
      BY ListsHaveDocs DEF TypeOK
<1> QED
    BY <1>1, KeysFinite, FS_Subset, FS_CardinalityType

LEMMA InitScrapes == ControlInit => ScrapeInv
<1> SUFFICES ASSUME ControlInit PROVE ScrapeInv
    OBVIOUS
<1>1. /\ counters \in [Decisions -> Nat]
      /\ spc \in [DOMAIN Scrapers -> 0..5]
      /\ shown \in [DOMAIN Scrapers -> Told] /\ scraped \in [DOMAIN Scrapers -> Told]
      BY NothingTold DEF ControlInit
<1>2. Published
      BY DEF ControlInit, Init, NoList, Published
<1>3. ASSUME NEW s \in DOMAIN Scrapers PROVE TrueSoFar(s)
      <2>1. scraped[s] = Nothing /\ spc[s] = 0 /\ clock = 0
            BY DEF ControlInit, Init
      <2>2. \A d : ~Has(s, d)
            BY <2>1, ReadsAll DEF Has
      <2>3. \A d \in Decisions : scraped[s][d] <= counters[d]
            BY <2>1, NothingTold DEF ControlInit
      <2> QED
          BY <2>1, <2>2, <2>3, NothingTold DEF TrueSoFar
<1> QED
    BY <1>1, <1>2, <1>3 DEF ScrapeInv

\* A list comes into use as it enters the history, and an answer after its list.
LEMMA NextPublished ==
  ASSUME TypeOK, AnswerInv, Published, [ControlNext]_allVars
  PROVE  Published' /\ clock' \in Nat /\ clock <= clock' /\ history \subseteq history'
<1> USE DEF Published, TypeOK
<1>1. ASSUME UNCHANGED <<current, clock, history>>,
             \A l \in Loaders : answer'[l] = 200 \/ pc'[l] = "diff"
                                  => answer[l] = 200 \/ pc[l] = "diff"
      PROVE  Published' /\ clock' \in Nat /\ clock <= clock' /\ history \subseteq history'
      BY <1>1
<1>2. CASE Deploy
      BY <1>1, <1>2 DEF Deploy, Edit
<1>3. ASSUME NEW l \in Loaders, CallReload(l)
      PROVE  Published' /\ clock' \in Nat /\ clock <= clock' /\ history \subseteq history'
      BY <1>1, <1>3 DEF CallReload, Reload, Goto, Respond, AnswerInv
<1>4. CASE Start
      BY <1>3, <1>4, MainAssumption DEF Start
<1>5. ASSUME NEW l \in Loaders, NEW method, NEW given, reload(l, method, given)
      PROVE  Published' /\ clock' \in Nat /\ clock <= clock' /\ history \subseteq history'
      <2>1. CASE CallReload(l)
            BY <1>3, <2>1
      <2>2. CASE Respond(l, 401) /\ UNCHANGED <<vars, history>>
            BY <1>1, <2>2 DEF Respond, AnswerInv, vars
      <2>3. CASE Respond(l, 405) /\ UNCHANGED <<vars, history>>
            BY <1>1, <2>3 DEF Respond, AnswerInv, vars
      <2> QED
          BY <1>5, <2>1, <2>2, <2>3 DEF reload
<1>6. ASSUME NEW l \in Loaders, Loads(l)
      PROVE  Published' /\ clock' \in Nat /\ clock <= clock' /\ history \subseteq history'
      <2>1. UNCHANGED <<answer, current, clock, history>>
            BY <1>6 DEF Loads, controlVars, requests, Lock, ScanDir, LoadSchema, ReadFile,
               LoadPrevious
      <2>2. \A m \in Loaders : pc'[m] = "diff" => pc[m] = "diff"
            BY <1>6 DEF Loads, Lock, ScanDir, LoadSchema, ReadFile, LoadPrevious, Goto
      <2> QED
          BY <1>1, <2>1, <2>2
<1>7. ASSUME NEW l \in Loaders, Publishes(l)
      PROVE  Published' /\ clock' \in Nat /\ clock <= clock' /\ history \subseteq history'
      BY <1>7 DEF Publishes, Store
<1>8. ASSUME NEW l \in Loaders, Fails(l) \/ Reports(l)
      PROVE  Published' /\ clock' \in Nat /\ clock <= clock' /\ history \subseteq history'
      <2>1. CASE Fails(l)
            BY <1>1, <2>1 DEF Fails, ScanFails, Goto, Respond, AnswerInv
      <2>2. CASE Reports(l)
            BY <1>1, <2>2 DEF Reports, Return, Goto, Respond, AnswerInv
      <2> QED
          BY <1>8, <2>1, <2>2
<1>9. CASE \E r \in Readers : Arrives(r) \/ Looks(r) \/ Decides(r) \/ Forwarded(r)
      BY <1>1, <1>9 DEF Arrives, Looks, Decides, Forwarded, Call, LoadCurrent, Answer,
         controlVars, requests, vars
<1>10. CASE \E s \in DOMAIN Scrapers : ScrapeBegins(s) \/ Read(s) \/ ScrapeEnds(s)
      BY <1>1, <1>10 DEF ScrapeBegins, Read, ScrapeEnds, requests, vars
<1>11. CASE UNCHANGED allVars
      BY <1>1, <1>11 DEF allVars, controlVars, requests, vars
<1> QED
    BY <1>2, <1>4, <1>5, <1>6, <1>7, <1>8, <1>9, <1>10, <1>11 DEF ControlNext, Loading

\* No counter is ever set back.
LEMMA CountersGrow ==
  ASSUME ScrapeInv, [ControlNext]_allVars
  PROVE  /\ counters' \in [Decisions -> Nat]
         /\ \A d \in Decisions : counters[d] <= counters'[d]
<1>1. counters' = counters \/ \E d \in Decisions : Count(d)
      <2>1. CASE Deploy \/ Start
            BY <2>1 DEF Deploy, Start, CallReload
      <2>2. ASSUME NEW l \in Loaders, NEW method, NEW given, reload(l, method, given)
            PROVE  counters' = counters
            BY <2>2 DEF reload, CallReload
      <2>3. ASSUME NEW l \in Loaders, Loading(l) PROVE counters' = counters
            BY <2>3 DEF Loading, Loads, Publishes, Fails, Reports, controlVars
      <2>4. ASSUME NEW r \in Readers, Arrives(r) \/ Looks(r) \/ Decides(r) \/ Forwarded(r)
            PROVE  counters' = counters \/ \E d \in Decisions : Count(d)
            BY <2>4 DEF Arrives, Looks, Decides, Forwarded, controlVars, Decisions
      <2>5. ASSUME NEW s \in DOMAIN Scrapers, ScrapeBegins(s) \/ Read(s) \/ ScrapeEnds(s)
            PROVE  counters' = counters
            BY <2>5 DEF ScrapeBegins, Read, ScrapeEnds
      <2>6. CASE UNCHANGED allVars
            BY <2>6 DEF allVars, controlVars
      <2> QED
          BY <2>1, <2>2, <2>3, <2>4, <2>5, <2>6 DEF ControlNext
<1> QED
    BY <1>1 DEF ScrapeInv, Count

\* While a scrape stands still, what it is true of moves on.
LEMMA StaysTrue ==
  ASSUME TypeOK, ScrapeInv, NEW s \in DOMAIN Scrapers,
         spc'[s] = spc[s], shown'[s] = shown[s], scraped'[s] = scraped[s],
         clock' \in Nat, clock <= clock', history \subseteq history',
         counters' \in [Decisions -> Nat], \A d \in Decisions : counters[d] <= counters'[d]
  PROVE  TrueSoFar(s)'
<1>1. scraped[s] \in Told /\ shown[s] \in Told
      BY DEF ScrapeInv
<1>2. /\ scraped[s].loadedAt \in Nat /\ shown[s].loadedAt \in Nat
      /\ \A d \in Decisions : scraped[s][d] \in Nat /\ shown[s][d] \in Nat
      BY <1>1, ToldNumbers
<1>3. TrueSoFar(s) /\ clock \in Nat /\ counters \in [Decisions -> Nat]
      BY DEF ScrapeInv, TypeOK
<1>4. ASSUME NEW it, OfOneList(it) PROVE OfOneList(it)'
      BY <1>4 DEF OfOneList
<1>5. ASSUME NEW d PROVE Has(s, d)' <=> Has(s, d)
      BY DEF Has, Reads, snapshot
<1>6. /\ spc'[s] > 0 => clock' > 0
      /\ scraped'[s].loadedAt <= clock'
      BY <1>2, <1>3 DEF TrueSoFar, ScrapeInv
<1>7. /\ scraped'[s] # Nothing => OfOneList(scraped[s])'
      /\ Has(s, "Stats")' => /\ OfOneList(shown[s])'
                            /\ scraped'[s].loadedAt <= shown'[s].loadedAt
                            /\ shown'[s].loadedAt <= clock'
      BY <1>2, <1>3, <1>4, <1>5 DEF TrueSoFar
<1>8. ASSUME NEW d \in Decisions
      PROVE  /\ scraped'[s][d] <= counters'[d]
             /\ Has(s, d)' => scraped'[s][d] <= shown'[s][d] /\ shown'[s][d] <= counters'[d]
      BY <1>2, <1>3, <1>5 DEF TrueSoFar
<1> QED
    BY <1>6, <1>7, <1>8 DEF TrueSoFar, OfOneList


\* A scrape that begins has read nothing, and there is a list for it to read.
LEMMA BeginsTrue ==
  ASSUME TypeOK, ScrapeInv, NEW s \in DOMAIN Scrapers, ScrapeBegins(s)
  PROVE  spc' \in [DOMAIN Scrapers -> 0..5] /\ shown' \in [DOMAIN Scrapers -> Told]
         /\ TrueSoFar(s)'
<1>1. /\ spc' = [spc EXCEPT ![s] = 1] /\ shown' = [shown EXCEPT ![s] = Nothing]
      /\ UNCHANGED <<clock, history, counters, scraped>>
      BY DEF ScrapeBegins, Show, vars, requests
<1>2. clock > 0
      BY MainAssumption DEF ScrapeBegins, Serving, ScrapeInv, Published
<1>3. spc'[s] = 1
      BY <1>1 DEF ScrapeInv
<1>4. \A d : ~Has(s, d)'
      BY <1>3, ReadsAll DEF Has, Reads, snapshot
<1>5. TrueSoFar(s)
      BY DEF ScrapeInv
<1>6. TrueSoFar(s)'
      BY <1>1, <1>2, <1>3, <1>4, <1>5 DEF TrueSoFar, OfOneList
<1> QED
    BY <1>1, <1>6, NothingTold DEF ScrapeInv

\* What it reads is true now, and what it has read stays.
LEMMA ReadTrue ==
  ASSUME TypeOK, ScrapeInv, NEW s \in DOMAIN Scrapers, Read(s)
  PROVE  spc' \in [DOMAIN Scrapers -> 0..5] /\ shown' \in [DOMAIN Scrapers -> Told]
         /\ TrueSoFar(s)'
<1> DEFINE i == spc[s]
           d == Reads(s)[i]
<1>1. i \in 1..4 /\ d \in Decisions \cup {"Stats"}
      BY ReadsAll DEF Read
<1>2. /\ spc' = [spc EXCEPT ![s] = i + 1]
      /\ UNCHANGED <<clock, history, counters, scraped, current>>
      BY DEF Read, Stats, vars, requests
<1>3. spc' \in [DOMAIN Scrapers -> 0..5] /\ spc'[s] = i + 1
      BY <1>1, <1>2 DEF ScrapeInv
<1>4. ASSUME NEW e PROVE Has(s, e)' <=> Has(s, e) \/ e = d
      <2>1. Has(s, e)' <=> \E j \in DOMAIN Reads(s) : j < i + 1 /\ Reads(s)[j] = e
            BY <1>3 DEF Has, Reads, snapshot
      <2>2. DOMAIN Reads(s) = 1..4
            BY ReadsAll
      <2> QED
          BY <1>1, <2>1, <2>2 DEF Has
<1>5. TrueSoFar(s) /\ shown[s] \in Told /\ counters \in [Decisions -> Nat]
      /\ scraped[s] \in Told /\ shown \in [DOMAIN Scrapers -> Told] /\ clock \in Nat
      BY DEF ScrapeInv, TypeOK
<1>6. clock > 0 /\ current \in history /\ current.loadedAt = clock
      BY <1>1, <1>5 DEF TrueSoFar, ScrapeInv, Published
<1>7. "Stats" \notin Decisions
      BY DEF Decisions
<1>8. CASE d = "Stats"
      <2> DEFINE new == [shown[s] EXCEPT !.documents = Cardinality(current.docs),
                                        !.loadedAt = current.loadedAt]
      <2>1. shown' = [shown EXCEPT ![s] = new]
            BY <1>8 DEF Read, Stats, Show
      <2>2. /\ new \in Told /\ new.loadedAt = clock /\ OfOneList(new)
            /\ \A e \in Decisions : new[e] = shown[s][e]
            BY <1>5, <1>6, ListInUse DEF Told, OfOneList, Decisions
      <2> HIDE DEF new
      <2>3. shown'[s] = new /\ shown' \in [DOMAIN Scrapers -> Told]
            BY <1>5, <2>1, <2>2
      <2>4. \A e \in Decisions : Has(s, e)' <=> Has(s, e)
            BY <1>4, <1>7, <1>8
      <2>5. OfOneList(shown[s])' /\ (scraped[s] # Nothing => OfOneList(scraped[s])')
            BY <1>2, <1>5, <2>2, <2>3 DEF OfOneList, TrueSoFar
      <2>6. /\ scraped[s].loadedAt <= shown'[s].loadedAt
            /\ shown'[s].loadedAt <= clock /\ scraped[s].loadedAt <= clock
            BY <1>5, <2>2, <2>3 DEF TrueSoFar
      <2>7. \A e \in Decisions :
              /\ scraped[s][e] <= counters[e]
              /\ Has(s, e)' => scraped[s][e] <= shown'[s][e] /\ shown'[s][e] <= counters[e]
            BY <1>5, <2>2, <2>3, <2>4 DEF TrueSoFar
      <2> QED
          BY <1>2, <1>3, <1>6, <2>3, <2>5, <2>6, <2>7 DEF TrueSoFar
<1>9. CASE d \in Decisions
      <2> DEFINE new == [shown[s] EXCEPT ![d] = counters[d]]
      <2>1. shown' = [shown EXCEPT ![s] = new]
            BY <1>7, <1>9 DEF Read, Show
      <2>2. counters[d] \in Nat
            BY <1>5, <1>9
      <2>3. /\ new \in Told /\ new[d] = counters[d]
            /\ \A e \in Decisions \ {d} : new[e] = shown[s][e]
            /\ new.documents = shown[s].documents /\ new.loadedAt = shown[s].loadedAt
            BY <1>5, <1>9, <2>2, ToldFields
      <2> HIDE DEF new
      <2>4. shown'[s] = new /\ shown' \in [DOMAIN Scrapers -> Told]
            BY <1>5, <2>1, <2>3
      <2>5. Has(s, "Stats")' <=> Has(s, "Stats")
            BY <1>4, <1>7, <1>9
      <2>6. /\ scraped[s] # Nothing => OfOneList(scraped[s])'
            /\ Has(s, "Stats")' => OfOneList(shown[s])'
            BY <1>2, <1>5, <2>3, <2>4, <2>5 DEF OfOneList, TrueSoFar
      <2>7. Has(s, "Stats")' => /\ scraped[s].loadedAt <= shown'[s].loadedAt
                               /\ shown'[s].loadedAt <= clock
            BY <1>5, <2>3, <2>4, <2>5 DEF TrueSoFar
      <2>8. ASSUME NEW e \in Decisions
            PROVE  /\ scraped[s][e] <= counters[e]
                   /\ Has(s, e)' => /\ scraped[s][e] <= shown'[s][e]
                                   /\ shown'[s][e] <= counters[e]
            <3>1. CASE e = d
                  BY <1>5, <2>2, <2>3, <2>4, <3>1 DEF TrueSoFar
            <3>2. CASE e # d
                  BY <1>4, <1>5, <2>3, <2>4, <3>2 DEF TrueSoFar
            <3> QED
                BY <3>1, <3>2
      <2>9. scraped[s].loadedAt <= clock
            BY <1>5 DEF TrueSoFar
      <2> QED
          BY <1>2, <1>3, <1>6, <2>4, <2>6, <2>7, <2>8, <2>9 DEF TrueSoFar
<1> QED
    BY <1>1, <1>8, <1>9

\* A scrape that ends has read everything.
LEMMA EndsHaving ==
  ASSUME ScrapeInv, NEW s \in DOMAIN Scrapers, ScrapeEnds(s)
  PROVE  /\ Has(s, "Stats") /\ \A d \in Decisions : Has(s, d)
         /\ TrueSoFar(s) /\ scraped'[s] = shown[s]
<1>1. spc[s] > 4 /\ spc[s] \in 0..5 /\ DOMAIN Reads(s) = 1..4
      BY ReadsAll DEF ScrapeEnds, ScrapeInv
<1>2. \A d \in Decisions \cup {"Stats"} : Has(s, d)
      BY <1>1, ReadsAll DEF Has
<1> QED
    BY <1>2 DEF ScrapeEnds, ScrapeInv

LEMMA EndsTrue ==
  ASSUME TypeOK, ScrapeInv, NEW s \in DOMAIN Scrapers, ScrapeEnds(s)
  PROVE  spc' \in [DOMAIN Scrapers -> 0..5] /\ scraped' \in [DOMAIN Scrapers -> Told]
         /\ TrueSoFar(s)'
<1>1. /\ spc' = [spc EXCEPT ![s] = 0] /\ scraped' = [scraped EXCEPT ![s] = shown[s]]
      /\ UNCHANGED <<clock, history, counters, shown>>
      BY DEF ScrapeEnds, vars, requests
<1>2. spc'[s] = 0
      BY <1>1 DEF ScrapeInv
<1>3. \A d : ~Has(s, d)'
      BY <1>2, ReadsAll DEF Has, Reads, snapshot
<1>4. /\ Has(s, "Stats") /\ \A d \in Decisions : Has(s, d)
      /\ TrueSoFar(s) /\ scraped'[s] = shown[s]
      BY EndsHaving
<1>5. OfOneList(scraped[s])'
      BY <1>1, <1>4 DEF TrueSoFar, OfOneList
<1>6. /\ scraped'[s].loadedAt <= clock'
      /\ \A d \in Decisions : scraped'[s][d] <= counters'[d]
      BY <1>1, <1>4 DEF TrueSoFar
<1>7. TrueSoFar(s)'
      BY <1>2, <1>3, <1>5, <1>6 DEF TrueSoFar
<1> QED
    BY <1>1, <1>7 DEF ScrapeInv

LEMMA NextScrapes ==
  ASSUME TypeOK, AnswerInv, ScrapeInv, [ControlNext]_allVars
  PROVE  ScrapeInv'
<1>1. Published' /\ clock' \in Nat /\ clock <= clock' /\ history \subseteq history'
      BY NextPublished DEF ScrapeInv
<1>2. /\ counters' \in [Decisions -> Nat]
      /\ \A d \in Decisions : counters[d] <= counters'[d]
      BY CountersGrow
<1>3. CASE UNCHANGED scrapes
      <2>1. UNCHANGED <<spc, shown, scraped>>
            BY <1>3 DEF scrapes
      <2> QED
          BY <1>1, <1>2, <2>1, StaysTrue DEF ScrapeInv
<1>4. ASSUME NEW s \in DOMAIN Scrapers, ScrapeBegins(s) \/ Read(s) \/ ScrapeEnds(s)
      PROVE  ScrapeInv'
      <2>1. /\ spc' \in [DOMAIN Scrapers -> 0..5]
            /\ shown' \in [DOMAIN Scrapers -> Told] /\ scraped' \in [DOMAIN Scrapers -> Told]
            /\ TrueSoFar(s)'
            <3>1. CASE ScrapeBegins(s)
                  BY <3>1, BeginsTrue DEF ScrapeBegins, ScrapeInv
            <3>2. CASE Read(s)
                  BY <3>2, ReadTrue DEF Read, ScrapeInv
            <3>3. CASE ScrapeEnds(s)
                  BY <3>3, EndsTrue DEF ScrapeEnds, ScrapeInv
            <3> QED
                BY <1>4, <3>1, <3>2, <3>3
      <2>2. ASSUME NEW other \in DOMAIN Scrapers, other # s PROVE TrueSoFar(other)'
            <3>1. /\ spc'[other] = spc[other] /\ shown'[other] = shown[other]
                  /\ scraped'[other] = scraped[other]
                  BY <1>4, <2>2 DEF ScrapeBegins, Read, Stats, Show, ScrapeEnds, ScrapeInv
            <3> QED
                BY <1>1, <1>2, <3>1, StaysTrue
      <2> QED
          BY <1>1, <1>2, <2>1, <2>2 DEF ScrapeInv
<1>5. UNCHANGED scrapes \/ \E s \in DOMAIN Scrapers : ScrapeBegins(s) \/ Read(s) \/ ScrapeEnds(s)
      BY DEF ControlNext, Deploy, Start, CallReload, reload, Loading, Loads, Publishes, Fails,
         Reports, Arrives, Looks, Decides, Forwarded, controlVars, allVars
<1> QED
    BY <1>3, <1>4, <1>5

\* What a scraper is told is what it saw, between what it was told before and now.
LEMMA EndsAdvance ==
  ASSUME TypeOK, ScrapeInv, [ControlNext]_allVars, NEW s \in DOMAIN Scrapers,
         scraped'[s] # scraped[s]
  PROVE  /\ scraped'[s].loadedAt >= scraped[s].loadedAt
         /\ \A d \in Decisions : scraped[s][d] <= scraped'[s][d] /\ scraped'[s][d] <= counters[d]
<1>1. UNCHANGED scraped \/ \E t \in DOMAIN Scrapers : ScrapeEnds(t)
      BY DEF ControlNext, Deploy, Start, CallReload, reload, Loading, Loads, Publishes, Fails,
         Reports, Arrives, Looks, Decides, Forwarded, controlVars, allVars, scrapes,
         ScrapeBegins, Read
<1>2. ScrapeEnds(s)
      BY <1>1 DEF ScrapeEnds, ScrapeInv
<1>3. /\ Has(s, "Stats") /\ \A d \in Decisions : Has(s, d)
      /\ TrueSoFar(s) /\ scraped'[s] = shown[s]
      BY <1>2, EndsHaving
<1>4. scraped[s] \in Told /\ shown[s] \in Told
      BY DEF ScrapeInv
<1> QED
    BY <1>3, <1>4, ToldNumbers DEF TrueSoFar

\* A scraper is told of one published list, of counters that never go back, and of no
\* request that was not decided, whatever is loaded and counted while it reads
\* (proxy.go:56-82, metrics.go:152-176).
THEOREM ScrapesTrue == ControlSpec => ScrapesAreTrue
<1>1. ControlInit => AnswerInv /\ ScrapeInv
      BY InitAnswer, InitScrapes
<1>2. TypeOK /\ LoadInv /\ AnswerInv /\ ScrapeInv /\ [ControlNext]_allVars
        => AnswerInv' /\ ScrapeInv'
      BY NextAnswer, NextScrapes
<1>3. ScrapeInv => ScrapeOfOneList
      BY DEF ScrapeInv, TrueSoFar, ScrapeOfOneList
<1> DEFINE Advance == \A s \in DOMAIN Scrapers : scraped'[s] # scraped[s] =>
       /\ scraped'[s].loadedAt >= scraped[s].loadedAt
       /\ \A d \in Decisions : scraped[s][d] <= scraped'[s][d] /\ scraped'[s][d] <= counters[d]
<1>4. TypeOK /\ ScrapeInv /\ [ControlNext]_allVars => [Advance]_allVars
      BY EndsAdvance
<1> QED
    BY <1>1, <1>2, <1>3, <1>4, KeepsAllowlist, TypeCorrect, LoadInvHolds, PTL
       DEF ControlSpec, ScrapesAreTrue, ScrapesAdvance
==============================================================================
