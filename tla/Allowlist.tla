------------------------------ MODULE Allowlist ------------------------------
(***************************************************************************)
(* internal/allowlist/allowlist.go: Reload reads a directory and publishes *)
(* what it holds as one immutable list, while the handlers of requests in  *)
(* flight look documents up in the list published last.                    *)
(*                                                                         *)
(* The directory is not the process's own: a deployment edits it while a   *)
(* load walks it.  Several callers may ask for a load at once (the start,  *)
(* and every POST /reload), so they queue on the mutex "loading".          *)
(*                                                                         *)
(* A document is a model value.  What decides its fate is abstracted to    *)
(* three constants: whether it parses, the hash of its canonical form, and *)
(* whether the schema takes it.  Two documents may share a hash.           *)
(***************************************************************************)
EXTENDS Integers, FiniteSets

CONSTANTS
  NFiles,    \* files 1..NFiles of the directory, numbered in walk order
  Docs,      \* documents a file may hold
  Parses,    \* the documents the parser takes
  Taken,     \* the documents the schema takes
  Keys,      \* hashes
  HashOf,    \* the hash of each document's canonical form
  Loaders,   \* callers of Reload
  Readers,   \* callers of Allowed
  MaxEdits,  \* bound: changes to the directory
  MaxLoads   \* bound: loads published

Files == 1 .. NFiles
Contents == Docs \cup {"absent", "unreadable"}
Schemas == {"none", "valid", "broken"}

ASSUME SizesAssumption == NFiles \in Nat /\ MaxEdits \in Nat /\ MaxLoads \in Nat
ASSUME DocsAssumption ==
  /\ Parses \subseteq Docs
  /\ Taken \subseteq Docs
  /\ Docs \cap {"absent", "unreadable"} = {}
ASSUME KeysAssumption == HashOf \in [Docs -> Keys] /\ "none" \notin Keys
ASSUME KeysFinite == IsFiniteSet(Keys)
ASSUME LoadersAssumption == "nobody" \notin Loaders

VARIABLES
  disk,      \* what each file holds
  schema,    \* what the .graphqls files hold
  root,      \* whether the directory can be walked
  edits,     \* bound: changes made so far
  loading,   \* holder of the mutex, or "nobody"
  current,   \* the published list; NoList before the first
  clock,     \* the time of the last publication
  pc,        \* where each loader is in Reload
  scanned,   \* the documents scanDir listed
  todo,      \* those of them not read yet
  rules,     \* the schema the documents are checked against
  found,     \* the hash of each file's document, "none" where it was skipped
  skipped,   \* the files left out so far
  previous,  \* the list the publication replaces
  rpc,       \* where each reader is in Allowed
  key,       \* the key it looks up
  seen,      \* the list it loaded
  fresh,     \* ghost: the directory has not changed since this load walked it
  balance    \* ghost: documents added less documents removed, as reported

directory == <<disk, schema, root, edits>>
work == <<scanned, todo, rules, found, skipped, previous>>
lookups == <<rpc, key, seen>>
vars == <<directory, loading, current, clock, pc, work, lookups, fresh, balance>>

Lists == [docs : SUBSET Keys, loadedAt : Nat]
NoList == [docs |-> {}, loadedAt |-> 0]

-----------------------------------------------------------------------------
(* What one load makes of the files it read.                               *)

Accepts(d, s) == d \in Parses /\ (s = "valid" => d \in Taken)

\* The files whose document another file's shares its hash with.
Sharing(f) ==
  {i \in Files : f[i] # "none" /\ \E j \in Files \ {i} : f[j] = f[i]}

\* Mutant: a shared hash serves both of its files.
LoadedShared(f) == {i \in Files : f[i] # "none"}

\* One file per document published.
Loaded(f) == {i \in Files : f[i] # "none"} \ Sharing(f)
\* Mutant: a skipped file publishes too.
DocsOfSkipped(f) == {f[i] : i \in Files}
DocsOf(f) == {f[i] : i \in Loaded(f)}

\* Mutant: the files sharing a hash are left out without being named.
LeftOutUnnamed(l) == skipped[l]
LeftOut(l) == skipped[l] \cup Sharing(found[l])

Added(old, new) == Cardinality(new.docs \ old.docs)
Removed(old, new) == Cardinality(old.docs \ new.docs)

-----------------------------------------------------------------------------
Init ==
  /\ disk \in [Files -> Contents]
  /\ schema \in Schemas
  /\ root = TRUE
  /\ edits = 0
  /\ loading = "nobody"
  /\ current = NoList
  /\ clock = 0
  /\ pc = [l \in Loaders |-> "idle"]
  /\ scanned = [l \in Loaders |-> {}]
  /\ todo = [l \in Loaders |-> {}]
  /\ rules = [l \in Loaders |-> "none"]
  /\ found = [l \in Loaders |-> [f \in Files |-> "none"]]
  /\ skipped = [l \in Loaders |-> {}]
  /\ previous = [l \in Loaders |-> NoList]
  /\ rpc = [r \in Readers |-> "idle"]
  /\ key \in [Readers -> Keys]
  /\ seen = [r \in Readers |-> NoList]
  /\ fresh = [l \in Loaders |-> FALSE]
  /\ balance = 0

-----------------------------------------------------------------------------
(* The deployment.                                                         *)

Edit ==
  /\ edits < MaxEdits
  /\ edits' = edits + 1
  /\ \/ /\ \E f \in Files, c \in Contents : disk' = [disk EXCEPT ![f] = c]
        /\ UNCHANGED <<schema, root>>
     \/ schema' \in Schemas /\ UNCHANGED <<disk, root>>
     \/ root' = ~root /\ UNCHANGED <<disk, schema>>
  /\ fresh' = [l \in Loaders |-> FALSE]
  /\ UNCHANGED <<loading, current, clock, pc, work, lookups, balance>>

-----------------------------------------------------------------------------
(* Reload.                                                                 *)

Goto(l, from, to) == pc[l] = from /\ pc' = [pc EXCEPT ![l] = to]

Reload(l) ==
  /\ clock < MaxLoads
  /\ Goto(l, "idle", "queued")
  /\ UNCHANGED <<directory, loading, current, clock, work, lookups, fresh, balance>>

\* Mutant: Reload without its mutex.
LockNothing(l) ==
  /\ Goto(l, "queued", "scan")
  /\ loading' = l
  /\ UNCHANGED <<directory, current, clock, work, lookups, fresh, balance>>

\* Mutant: a caller that finds the mutex taken returns.
LockTries(l) ==
  /\ pc[l] = "queued"
  /\ IF loading = "nobody"
     THEN pc' = [pc EXCEPT ![l] = "scan"] /\ loading' = l
     ELSE pc' = [pc EXCEPT ![l] = "idle"] /\ UNCHANGED loading
  /\ UNCHANGED <<directory, current, clock, work, lookups, fresh, balance>>

Lock(l) ==
  /\ Goto(l, "queued", "scan")
  /\ loading = "nobody"
  /\ loading' = l
  /\ UNCHANGED <<directory, current, clock, work, lookups, fresh, balance>>

\* Mutant: the error return without the deferred unlock.
ScanFailsLocked(l) ==
  /\ Goto(l, "scan", "idle")
  /\ ~root
  /\ UNCHANGED <<directory, loading, current, clock, work, lookups, fresh, balance>>

\* The caller gets the error; nothing is published.
ScanFails(l) ==
  /\ Goto(l, "scan", "idle")
  /\ ~root
  /\ loading' = "nobody"
  /\ UNCHANGED <<directory, current, clock, work, lookups, fresh, balance>>

ScanDir(l) ==
  /\ Goto(l, "scan", "schema")
  /\ root
  /\ scanned' = [scanned EXCEPT ![l] = {f \in Files : disk[f] # "absent"}]
  /\ todo' = [todo EXCEPT ![l] = {f \in Files : disk[f] # "absent"}]
  /\ rules' = [rules EXCEPT ![l] = IF schema = "none" THEN "none" ELSE "listed"]
  /\ found' = [found EXCEPT ![l] = [f \in Files |-> "none"]]
  /\ skipped' = [skipped EXCEPT ![l] = {}]
  /\ fresh' = [fresh EXCEPT ![l] = TRUE]
  /\ UNCHANGED <<directory, loading, current, clock, previous, lookups, balance>>

\* A schema that was listed and is gone by now can't be read.
LoadSchema(l) ==
  /\ Goto(l, "schema", "read")
  /\ rules' = [rules EXCEPT ![l] =
                 IF @ = "listed" THEN IF schema = "valid" THEN "valid" ELSE "broken"
                                 ELSE @]
  /\ UNCHANGED <<directory, loading, current, clock, scanned, todo, found, skipped,
                 previous, lookups, fresh, balance>>

\* The next file of the walk: it can be read, parses, and the schema takes it.
Hash(l, f) ==
  /\ disk[f] \in Docs
  /\ Accepts(disk[f], rules[l])
  /\ found' = [found EXCEPT ![l] = [@ EXCEPT ![f] = HashOf[disk[f]]]]
  /\ UNCHANGED skipped

Skip(l, f) ==
  /\ ~(disk[f] \in Docs /\ Accepts(disk[f], rules[l]))
  /\ skipped' = [skipped EXCEPT ![l] = @ \cup {f}]
  /\ UNCHANGED found

ReadFile(l) ==
  /\ pc[l] = "read"
  /\ \E f \in todo[l] :
       /\ \A g \in todo[l] : f <= g
       /\ todo' = [todo EXCEPT ![l] = @ \ {f}]
       /\ Hash(l, f) \/ Skip(l, f)
  /\ UNCHANGED <<directory, loading, current, clock, pc, scanned, rules, previous,
                 lookups, fresh, balance>>

\* The documents sharing a hash are left out, then the list in service is read.
LoadPrevious(l) ==
  /\ Goto(l, "read", "store")
  /\ todo[l] = {}
  /\ skipped' = [skipped EXCEPT ![l] = LeftOut(l)]
  /\ previous' = [previous EXCEPT ![l] = current]
  /\ UNCHANGED <<directory, loading, current, clock, scanned, todo, rules, found,
                 lookups, fresh, balance>>

Store(l) ==
  /\ Goto(l, "store", "diff")
  /\ clock' = clock + 1
  /\ current' = [docs |-> DocsOf(found[l]), loadedAt |-> clock']
  /\ UNCHANGED <<directory, loading, work, lookups, fresh, balance>>

\* The Result is returned and the mutex released.
Return(l) ==
  /\ Goto(l, "diff", "idle")
  /\ loading' = "nobody"
  /\ LET new == [docs |-> DocsOf(found[l]), loadedAt |-> 0]
     IN balance' = balance + Added(previous[l], new) - Removed(previous[l], new)
  /\ UNCHANGED <<directory, current, clock, work, lookups, fresh>>

-----------------------------------------------------------------------------
(* Allowed: one load of the pointer, then a lookup in what it points to.   *)

Call(r) ==
  /\ rpc[r] = "idle"
  /\ rpc' = [rpc EXCEPT ![r] = "called"]
  /\ \E k \in Keys : key' = [key EXCEPT ![r] = k]
  /\ UNCHANGED <<directory, loading, current, clock, pc, work, seen, fresh, balance>>

LoadCurrent(r) ==
  /\ rpc[r] = "called"
  /\ rpc' = [rpc EXCEPT ![r] = "loaded"]
  /\ seen' = [seen EXCEPT ![r] = current]
  /\ UNCHANGED <<directory, loading, current, clock, pc, work, key, fresh, balance>>

\* Mutant: the published map is edited in place, so a lookup reads the newest one.
AllowedInPlace(r) == key[r] \in current.docs
Allowed(r) == key[r] \in seen[r].docs

Answer(r) ==
  /\ rpc[r] = "loaded"
  /\ rpc' = [rpc EXCEPT ![r] = "idle"]
  /\ seen' = [seen EXCEPT ![r] = NoList]
  /\ UNCHANGED <<directory, loading, current, clock, pc, work, key, fresh, balance>>

-----------------------------------------------------------------------------
Step(l) ==
  \/ Lock(l) \/ ScanFails(l) \/ ScanDir(l) \/ LoadSchema(l) \/ ReadFile(l)
  \/ LoadPrevious(l) \/ Store(l) \/ Return(l)

Next ==
  \/ Edit
  \/ \E l \in Loaders : Reload(l) \/ Step(l)
  \/ \E r \in Readers : Call(r) \/ LoadCurrent(r) \/ Answer(r)

Spec == Init /\ [][Next]_vars

\* A goroutine inside Reload keeps running, and sync.Mutex hands itself to a
\* waiter that starves, so a queued caller gets it.
Fairness == \A l \in Loaders : WF_vars(Step(l)) /\ SF_vars(Lock(l))

FairSpec == Spec /\ Fairness

-----------------------------------------------------------------------------
(* Type invariant.  The loader variables are locals of one call of Reload. *)

PcStates == {"idle", "queued", "scan", "schema", "read", "store", "diff"}
Holding == PcStates \ {"idle", "queued"}
Rules == Schemas \cup {"listed"}

TypeOK ==
  /\ disk \in [Files -> Contents]
  /\ schema \in Schemas
  /\ root \in BOOLEAN
  /\ edits \in Nat
  /\ loading \in Loaders \cup {"nobody"}
  /\ current \in Lists
  /\ clock \in Nat
  /\ pc \in [Loaders -> PcStates]
  /\ scanned \in [Loaders -> SUBSET Files]
  /\ todo \in [Loaders -> SUBSET Files]
  /\ rules \in [Loaders -> Rules]
  /\ found \in [Loaders -> [Files -> Keys \cup {"none"}]]
  /\ skipped \in [Loaders -> SUBSET Files]
  /\ previous \in [Loaders -> Lists]
  /\ rpc \in [Readers -> {"idle", "called", "loaded"}]
  /\ key \in [Readers -> Keys]
  /\ seen \in [Readers -> Lists]
  /\ fresh \in [Loaders -> BOOLEAN]
  /\ balance \in Int

-----------------------------------------------------------------------------
(* Safety.                                                                 *)

\* What the directory holds, read off it at once rather than file by file: the
\* hashes that exactly one acceptable file carries.
Carriers(k) ==
  {f \in Files : /\ disk[f] \in Docs
                 /\ Accepts(disk[f], schema)
                 /\ HashOf[disk[f]] = k}
Usable == {k \in Keys : \E f \in Files : Carriers(k) = {f}}

\* A load of a directory nobody touched meanwhile publishes exactly the hashes
\* one acceptable file carries, whichever other loads run or wait: a shared hash
\* serves neither file, and one bad file costs no other (Reload, lines 114-121).
FreshLoadServesUsable ==
  \A l \in Loaders : pc[l] = "diff" /\ fresh[l] => current.docs = Usable

\* Whatever the directory does under a load, each document file it listed is
\* either served, under a hash of its own, or named among the skipped, never both
\* and never neither (Result.Files and Result.Skipped).
EveryFileAccounted ==
  \A l \in Loaders : pc[l] \in {"store", "diff"} =>
    /\ Loaded(found[l]) \cup skipped[l] = scanned[l]
    /\ Loaded(found[l]) \cap skipped[l] = {}
    /\ \A f, g \in Loaded(found[l]) : found[l][f] = found[l][g] => f = g

\* The Added and Removed counts of all loads reported so far add up to what is
\* served: no load is diffed against a list another load replaced meanwhile.
BalanceIsLen ==
  (\A l \in Loaders : pc[l] # "diff") => balance = Cardinality(current.docs)

\* What loads report adds up, of the files they found and of the list they leave
\* (Result, allowlist.go:88-101).
ResultsAddUp == EveryFileAccounted /\ BalanceIsLen

\* A lookup in flight is answered from the one list it loaded, whatever reloads
\* publish before it returns (the doc of Allowlist, lines 28-30).
AnswerOf(r) ==
  CASE rpc[r] = "idle"   -> "idle"
    [] rpc[r] = "called" -> "waiting"
    [] rpc[r] = "loaded" -> IF Allowed(r) THEN "hit" ELSE "miss"

Promise == INSTANCE ServedSet WITH
  served <- current.docs, asked <- key, answer <- [r \in Readers |-> AnswerOf(r)]

LookupsAreAtomic == Promise!Spec

-----------------------------------------------------------------------------
(* Liveness.                                                               *)

\* A reload asked for once the deployment is done with the directory brings that
\* directory into service, and no slower load puts an older one back.
ReloadServesDirectory ==
  \A l \in Loaders :
    (pc[l] = "queued" /\ edits = MaxEdits /\ root) ~> [](current.docs = Usable)

\* Every call of Reload returns, whether or not the directory can be walked.
ReloadReturns == \A l \in Loaders : pc[l] = "queued" ~> pc[l] = "idle"

\* Reloads come to their end, and so does what they are for (allowlist.go:122-130).
ReloadsSettle == ReloadServesDirectory /\ ReloadReturns

-----------------------------------------------------------------------------
(* The inductive invariant behind the safety properties.                   *)

Mutex == \A l \in Loaders : pc[l] \in Holding <=> loading = l

\* Every file walked so far was hashed or skipped.
Sorted(l) ==
  /\ pc[l] \in {"schema", "read"} =>
       /\ todo[l] \subseteq scanned[l]
       /\ skipped[l] \subseteq scanned[l] \ todo[l]
       /\ \A f \in Files :
            found[l][f] # "none" <=> f \in (scanned[l] \ todo[l]) \ skipped[l]
  /\ pc[l] \in {"store", "diff"} =>
       /\ skipped[l] \subseteq scanned[l]
       /\ Loaded(found[l]) = scanned[l] \ skipped[l]

\* The hash a file carries, where the load that walked the directory is fresh.
Expected(f) ==
  IF disk[f] \in Docs /\ Accepts(disk[f], schema) THEN HashOf[disk[f]] ELSE "none"

\* A fresh load has read what the directory holds.
Faithful(l) ==
  fresh[l] /\ pc[l] \in {"schema", "read", "store", "diff"} =>
    /\ todo[l] \subseteq {f \in Files : disk[f] # "absent"}
    /\ pc[l] = "schema" => rules[l] = IF schema = "none" THEN "none" ELSE "listed"
    /\ pc[l] = "read" => rules[l] = schema
    /\ pc[l] \in {"store", "diff"} => todo[l] = {}
    /\ \A f \in Files \ todo[l] : found[l][f] = Expected(f)

\* Between its load of the previous list and its return, a load owns current.
Owned(l) ==
  /\ pc[l] = "store" => previous[l] = current
  /\ pc[l] = "diff" => /\ current.docs = DocsOf(found[l])
                       /\ balance = Cardinality(previous[l].docs)

LoadInv ==
  /\ Mutex
  /\ \A l \in Loaders : Sorted(l) /\ Faithful(l) /\ Owned(l)
  /\ BalanceIsLen
==============================================================================
