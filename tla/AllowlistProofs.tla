--------------------------- MODULE AllowlistProofs ---------------------------
(***************************************************************************)
(* Theorems about Allowlist, for any number of files, loaders and readers. *)
(***************************************************************************)
EXTENDS Allowlist, TLAPS, FiniteSetTheorems

LEMMA NoneNotKey == "none" \notin Keys
  BY KeysAssumption

LEMMA ListsHaveDocs == \A x \in Lists : x.docs \in SUBSET Keys /\ x.loadedAt \in Nat
  BY DEF Lists

LEMMA NoListIsList == NoList \in Lists
  BY DEF NoList, Lists

\* What a load publishes is a set of hashes.
LEMMA DocsOfType ==
  ASSUME NEW f \in [Files -> Keys \cup {"none"}]
  PROVE  DocsOf(f) \in SUBSET Keys
  BY DEF DocsOf, Loaded

-----------------------------------------------------------------------------
LEMMA InitType == Init => TypeOK
  BY NoListIsList DEF Init, TypeOK, Contents, PcStates, Rules, Schemas

LEMMA NextType == TypeOK /\ [Next]_vars => TypeOK'
<1> SUFFICES ASSUME TypeOK, [Next]_vars PROVE TypeOK'
  OBVIOUS
<1> USE DEF TypeOK, directory, work, lookups, Goto, PcStates, Rules
<1>1. CASE Edit
  <2>1. fresh' \in [Loaders -> BOOLEAN] /\ edits' \in Nat
    BY <1>1 DEF Edit
  <2>2. disk' \in [Files -> Contents] /\ schema' \in Schemas
    BY <1>1 DEF Edit
  <2>3. root' \in BOOLEAN
    <3>1. root' = root \/ root' = ~root
      BY <1>1 DEF Edit
    <3> QED BY <3>1, Zenon
  <2> QED BY <1>1, <2>1, <2>2, <2>3 DEF Edit
<1>2. ASSUME NEW l \in Loaders, Reload(l) PROVE TypeOK'
  BY <1>2 DEF Reload
<1>3. ASSUME NEW l \in Loaders, Lock(l) PROVE TypeOK'
  BY <1>3 DEF Lock
<1>4. ASSUME NEW l \in Loaders, ScanFails(l) PROVE TypeOK'
  BY <1>4 DEF ScanFails
<1>5. ASSUME NEW l \in Loaders, ScanDir(l) PROVE TypeOK'
  BY <1>5 DEF ScanDir, Schemas
<1>6. ASSUME NEW l \in Loaders, LoadSchema(l) PROVE TypeOK'
  BY <1>6 DEF LoadSchema, Schemas
<1>7. ASSUME NEW l \in Loaders, ReadFile(l) PROVE TypeOK'
  <2>1. PICK f \in todo[l] : /\ todo' = [todo EXCEPT ![l] = @ \ {f}]
                             /\ Hash(l, f) \/ Skip(l, f)
    BY <1>7 DEF ReadFile
  <2>2. todo' \in [Loaders -> SUBSET Files] /\ f \in Files
    BY <2>1
  <2>3. CASE Hash(l, f)
    <3>1. HashOf[disk[f]] \in Keys
      BY <2>3, KeysAssumption DEF Hash
    <3>2. found' \in [Loaders -> [Files -> Keys \cup {"none"}]]
      BY <2>2, <2>3, <3>1 DEF Hash
    <3> QED BY <1>7, <2>2, <2>3, <3>2 DEF ReadFile, Hash
  <2>4. CASE Skip(l, f)
    BY <1>7, <2>2, <2>4 DEF ReadFile, Skip
  <2> QED BY <2>1, <2>3, <2>4
<1>8. ASSUME NEW l \in Loaders, LoadPrevious(l) PROVE TypeOK'
  BY <1>8 DEF LoadPrevious, LeftOut, Sharing
<1>9. ASSUME NEW l \in Loaders, Store(l) PROVE TypeOK'
  <2>1. DocsOf(found[l]) \in SUBSET Keys
    BY DocsOfType
  <2>2. current' \in Lists
    BY <1>9, <2>1 DEF Store, Lists
  <2> QED BY <1>9, <2>2 DEF Store
<1>10. ASSUME NEW l \in Loaders, Return(l) PROVE TypeOK'
  <2> DEFINE new == [docs |-> DocsOf(found[l]), loadedAt |-> 0]
  <2>1. new.docs \in SUBSET Keys /\ previous[l].docs \in SUBSET Keys
    BY DocsOfType, ListsHaveDocs
  <2>2. Added(previous[l], new) \in Nat /\ Removed(previous[l], new) \in Nat
    <3>1. IsFiniteSet(new.docs \ previous[l].docs) /\ IsFiniteSet(previous[l].docs \ new.docs)
      BY <2>1, KeysFinite, FS_Subset, FS_Difference
    <3> QED BY <3>1, FS_CardinalityType DEF Added, Removed
  <2>3. balance' \in Int
    <3> HIDE DEF new
    <3> QED BY <1>10, <2>2 DEF Return, new
  <2> QED BY <1>10, <2>3 DEF Return
<1>11. ASSUME NEW r \in Readers, Call(r) PROVE TypeOK'
  BY <1>11 DEF Call
<1>12. ASSUME NEW r \in Readers, LoadCurrent(r) PROVE TypeOK'
  BY <1>12 DEF LoadCurrent
<1>13. ASSUME NEW r \in Readers, Answer(r) PROVE TypeOK'
  BY <1>13, NoListIsList DEF Answer
<1>14. CASE UNCHANGED vars
  BY <1>14 DEF vars
<1> QED
  BY <1>1, <1>2, <1>3, <1>4, <1>5, <1>6, <1>7, <1>8, <1>9, <1>10, <1>11, <1>12,
     <1>13, <1>14 DEF Next, Step

\* Every variable of the model keeps its type, whatever the directory does.
THEOREM TypeCorrect == Spec => []TypeOK
  BY InitType, NextType, PTL DEF Spec

-----------------------------------------------------------------------------
LEMMA InitLoadInv == Init => LoadInv
<1> SUFFICES ASSUME Init PROVE LoadInv
  OBVIOUS
<1>1. Mutex
  BY LoadersAssumption DEF Init, Mutex, Holding, PcStates
<1>2. \A l \in Loaders : Sorted(l) /\ Faithful(l) /\ Owned(l)
  BY DEF Init, Sorted, Faithful, Owned
<1>3. BalanceIsLen
  BY FS_EmptySet DEF Init, BalanceIsLen, NoList
<1> QED BY <1>1, <1>2, <1>3 DEF LoadInv

\* A step of one loader that keeps the lock leaves the others outside Reload's body.
LEMMA OthersOutside ==
  ASSUME Mutex, NEW l \in Loaders, pc[l] \in Holding, NEW m \in Loaders, m # l
  PROVE  pc[m] \notin Holding
  BY DEF Mutex

\* A loader outside the body of Reload claims nothing.
LEMMA OutsideClaimsNothing ==
  ASSUME NEW m \in Loaders, pc[m] \notin Holding, pc \in [Loaders -> PcStates]
  PROVE  Sorted(m) /\ Faithful(m) /\ Owned(m)
  BY DEF Holding, PcStates, Sorted, Faithful, Owned

\* The same of the state after a step.
LEMMA OutsideClaimsNothingAfter ==
  ASSUME NEW m \in Loaders, pc'[m] \notin Holding, pc' \in [Loaders -> PcStates]
  PROVE  Sorted(m)' /\ Faithful(m)' /\ Owned(m)'
  BY DEF Holding, PcStates, Sorted, Faithful, Owned

\* Reporting the difference of two lists moves the balance from one to the other.
LEMMA DiffBalances ==
  ASSUME NEW old \in Lists, NEW new \in [docs : SUBSET Keys, loadedAt : Nat]
  PROVE  Cardinality(old.docs) + Added(old, new) - Removed(old, new)
           = Cardinality(new.docs)
<1> DEFINE o == old.docs  n == new.docs
<1>1. IsFiniteSet(o) /\ IsFiniteSet(n)
  BY KeysFinite, FS_Subset DEF Lists
<1>2. /\ IsFiniteSet(o \cap n) /\ IsFiniteSet(o \ n) /\ IsFiniteSet(n \ o)
  BY <1>1, FS_Intersection, FS_Difference
<1>3. /\ Cardinality(o \ n) = Cardinality(o) - Cardinality(o \cap n)
      /\ Cardinality(n \ o) = Cardinality(n) - Cardinality(n \cap o)
  BY <1>1, FS_Difference
<1>4. Cardinality(n \cap o) = Cardinality(o \cap n)
  <2>1. n \cap o = o \cap n
    OBVIOUS
  <2> QED BY <2>1, Zenon
<1>5. /\ Cardinality(o \cap n) \in Nat /\ Cardinality(o \ n) \in Nat
      /\ Cardinality(n \ o) \in Nat /\ Cardinality(o) \in Nat /\ Cardinality(n) \in Nat
  BY <1>1, <1>2, FS_CardinalityType
<1> HIDE DEF o, n
<1>6. Cardinality(o) + Cardinality(n \ o) - Cardinality(o \ n) = Cardinality(n)
  BY <1>3, <1>4, <1>5
<1> QED BY <1>6 DEF o, n, Added, Removed

-----------------------------------------------------------------------------
\* A step that touches nothing a load relies on keeps its claims.
LEMMA FrameLoad ==
  ASSUME NEW m \in Loaders, Sorted(m) /\ Faithful(m) /\ Owned(m),
         pc'[m] = pc[m], scanned'[m] = scanned[m], todo'[m] = todo[m],
         rules'[m] = rules[m], found'[m] = found[m], skipped'[m] = skipped[m],
         previous'[m] = previous[m], fresh'[m] = fresh[m],
         UNCHANGED <<disk, schema, current, balance>>
  PROVE  Sorted(m)' /\ Faithful(m)' /\ Owned(m)'
<1>1. Sorted(m)'
  BY DEF Sorted, Loaded, Sharing
<1>2. Faithful(m)'
  BY DEF Faithful, Expected, Accepts
<1>3. Owned(m)'
  BY DEF Owned, DocsOf, Loaded, Sharing
<1> QED BY <1>1, <1>2, <1>3

\* A step inside Reload leaves every other loader waiting or idle.
LEMMA OthersAfter ==
  ASSUME TypeOK, LoadInv, NEW l \in Loaders, pc[l] \in Holding,
         NEW m \in Loaders, m # l, pc' \in [Loaders -> PcStates], pc'[m] = pc[m]
  PROVE  Sorted(m)' /\ Faithful(m)' /\ Owned(m)'
  BY OthersOutside, OutsideClaimsNothingAfter DEF LoadInv

LEMMA EditLoadInv == TypeOK /\ LoadInv /\ Edit => LoadInv'
<1> SUFFICES ASSUME TypeOK, LoadInv, Edit PROVE LoadInv'
  OBVIOUS
<1> USE DEF work, lookups
<1>1. Mutex' /\ BalanceIsLen'
  BY DEF LoadInv, Edit, Mutex, BalanceIsLen
<1>2. ASSUME NEW m \in Loaders PROVE Sorted(m)' /\ Faithful(m)' /\ Owned(m)'
  <2>1. Sorted(m)'
    BY DEF LoadInv, Edit, Sorted, Loaded, Sharing
  <2>2. Faithful(m)'
    BY DEF Edit, Faithful
  <2>3. Owned(m)'
    BY DEF LoadInv, Edit, Owned, DocsOf, Loaded, Sharing
  <2> QED BY <2>1, <2>2, <2>3
<1> QED BY <1>1, <1>2 DEF LoadInv

LEMMA ReaderLoadInv ==
  ASSUME TypeOK, LoadInv,
         UNCHANGED <<directory, loading, current, clock, pc, work, fresh, balance>>
  PROVE  LoadInv'
<1> USE DEF work, directory
<1>1. Mutex' /\ BalanceIsLen'
  BY DEF LoadInv, Mutex, BalanceIsLen
<1>2. ASSUME NEW m \in Loaders PROVE Sorted(m)' /\ Faithful(m)' /\ Owned(m)'
  BY FrameLoad DEF LoadInv
<1> QED BY <1>1, <1>2 DEF LoadInv

\* Queueing and taking the lock leave every claim of the others alone.
LEMMA EnterLoadInv ==
  ASSUME TypeOK, LoadInv, NEW l \in Loaders, Reload(l) \/ Lock(l)
  PROVE  LoadInv'
<1> USE DEF work, directory, Goto, TypeOK
<1>1. Mutex'
  BY LoadersAssumption DEF LoadInv, Mutex, Reload, Lock, Holding, PcStates
<1>2. BalanceIsLen'
  BY DEF LoadInv, BalanceIsLen, Reload, Lock
<1>3. pc' \in [Loaders -> PcStates] /\ pc'[l] \in {"queued", "scan"}
  BY DEF Reload, Lock, PcStates
<1>4. ASSUME NEW m \in Loaders PROVE Sorted(m)' /\ Faithful(m)' /\ Owned(m)'
  <2>1. CASE m = l
    BY <1>3, <2>1 DEF Sorted, Faithful, Owned
  <2>2. CASE m # l
    <3>1. pc'[m] = pc[m]
      BY <2>2 DEF Reload, Lock
    <3> QED BY <3>1, FrameLoad DEF LoadInv, Reload, Lock
  <2> QED BY <2>1, <2>2
<1> QED BY <1>1, <1>2, <1>4 DEF LoadInv

LEMMA ScanFailsLoadInv ==
  ASSUME TypeOK, LoadInv, NEW l \in Loaders, ScanFails(l)
  PROVE  LoadInv'
<1> USE DEF work, directory, Goto, TypeOK
<1>1. Mutex'
  BY LoadersAssumption DEF LoadInv, Mutex, ScanFails, Holding, PcStates
<1>2. BalanceIsLen'
  BY DEF LoadInv, BalanceIsLen, ScanFails
<1>3. pc' \in [Loaders -> PcStates] /\ pc'[l] \notin Holding /\ pc[l] \in Holding
  BY DEF ScanFails, PcStates, Holding
<1>4. ASSUME NEW m \in Loaders PROVE Sorted(m)' /\ Faithful(m)' /\ Owned(m)'
  <2>1. CASE m = l
    BY <1>3, <2>1, OutsideClaimsNothingAfter
  <2>2. CASE m # l
    BY <1>3, <2>2, OthersAfter DEF ScanFails
  <2> QED BY <2>1, <2>2
<1> QED BY <1>1, <1>2, <1>4 DEF LoadInv

LEMMA ScanDirLoadInv ==
  ASSUME TypeOK, LoadInv, NEW l \in Loaders, ScanDir(l)
  PROVE  LoadInv'
<1> USE DEF work, directory, Goto, TypeOK
<1>1. Mutex'
  BY DEF LoadInv, Mutex, ScanDir, Holding, PcStates
<1>2. BalanceIsLen'
  BY DEF LoadInv, BalanceIsLen, ScanDir
<1>3. pc' \in [Loaders -> PcStates] /\ pc'[l] = "schema" /\ pc[l] \in Holding
  BY DEF ScanDir, PcStates, Holding
<1>4. Sorted(l)' /\ Faithful(l)' /\ Owned(l)'
  <2>1. Sorted(l)' /\ Owned(l)'
    BY <1>3 DEF ScanDir, Sorted, Owned
  <2>2. Faithful(l)'
    BY <1>3, DocsAssumption DEF ScanDir, Faithful, Expected
  <2> QED BY <2>1, <2>2
<1>5. ASSUME NEW m \in Loaders PROVE Sorted(m)' /\ Faithful(m)' /\ Owned(m)'
  <2>2. CASE m # l
    BY <1>3, <2>2, OthersAfter DEF ScanDir
  <2> QED BY <1>4, <2>2
<1> QED BY <1>1, <1>2, <1>5 DEF LoadInv

LEMMA LoadSchemaLoadInv ==
  ASSUME TypeOK, LoadInv, NEW l \in Loaders, LoadSchema(l)
  PROVE  LoadInv'
<1> USE DEF work, directory, Goto, TypeOK
<1>1. Mutex'
  BY DEF LoadInv, Mutex, LoadSchema, Holding, PcStates
<1>2. BalanceIsLen'
  BY DEF LoadInv, BalanceIsLen, LoadSchema
<1>3. /\ pc' \in [Loaders -> PcStates]
      /\ pc'[l] = "read" /\ pc[l] = "schema" /\ pc[l] \in Holding
  BY DEF LoadSchema, PcStates, Holding
<1>4. Sorted(l)' /\ Faithful(l)' /\ Owned(l)'
  <2>1. Sorted(l)' /\ Owned(l)'
    BY <1>3 DEF LoadInv, LoadSchema, Sorted, Owned
  <2>2. Faithful(l)'
    BY <1>3 DEF LoadInv, LoadSchema, Faithful, Expected, Accepts, Schemas
  <2> QED BY <2>1, <2>2
<1>5. ASSUME NEW m \in Loaders PROVE Sorted(m)' /\ Faithful(m)' /\ Owned(m)'
  <2>2. CASE m # l
    BY <1>3, <2>2, OthersAfter DEF LoadSchema
  <2> QED BY <1>4, <2>2
<1> QED BY <1>1, <1>2, <1>5 DEF LoadInv

LEMMA ReadFileLoadInv ==
  ASSUME TypeOK, LoadInv, NEW l \in Loaders, ReadFile(l)
  PROVE  LoadInv'
<1> USE DEF work, directory, TypeOK
<1>1. Mutex' /\ BalanceIsLen'
  BY DEF LoadInv, Mutex, BalanceIsLen, ReadFile
<1>2. pc' \in [Loaders -> PcStates] /\ pc'[l] = "read" /\ pc[l] = "read" /\ pc[l] \in Holding
  BY DEF ReadFile, PcStates, Holding
<1>3. PICK f \in todo[l] : /\ todo' = [todo EXCEPT ![l] = @ \ {f}]
                           /\ Hash(l, f) \/ Skip(l, f)
  BY DEF ReadFile
<1>4. f \in Files /\ f \in scanned[l]
  BY <1>2, <1>3 DEF LoadInv, Sorted
<1>5. Sorted(l)'
  <2>1. CASE Hash(l, f)
    <3>1. HashOf[disk[f]] # "none"
      BY <2>1, KeysAssumption DEF Hash
    <3> QED BY <1>2, <1>3, <1>4, <2>1, <3>1 DEF LoadInv, ReadFile, Hash, Sorted
  <2>2. CASE Skip(l, f)
    BY <1>2, <1>3, <1>4, <2>2 DEF LoadInv, ReadFile, Skip, Sorted
  <2> QED BY <1>3, <2>1, <2>2
<1>6. Faithful(l)'
  <2>1. CASE Hash(l, f)
    BY <1>2, <1>3, <1>4, <2>1 DEF LoadInv, ReadFile, Hash, Faithful, Expected
  <2>2. CASE Skip(l, f)
    <3>1. found[l][f] = "none"
      BY <1>2, <1>3, <1>4 DEF LoadInv, Sorted
    <3> QED BY <1>2, <1>3, <1>4, <2>2, <3>1
              DEF LoadInv, ReadFile, Skip, Faithful, Expected
  <2> QED BY <1>3, <2>1, <2>2
<1>7. Owned(l)'
  BY <1>2 DEF Owned
<1>8. ASSUME NEW m \in Loaders PROVE Sorted(m)' /\ Faithful(m)' /\ Owned(m)'
  <2>2. CASE m # l
    BY <1>2, <2>2, OthersAfter DEF ReadFile
  <2> QED BY <1>5, <1>6, <1>7, <2>2
<1> QED BY <1>1, <1>8 DEF LoadInv

LEMMA LoadPreviousLoadInv ==
  ASSUME TypeOK, LoadInv, NEW l \in Loaders, LoadPrevious(l)
  PROVE  LoadInv'
<1> USE DEF work, directory, Goto, TypeOK
<1>1. Mutex'
  BY DEF LoadInv, Mutex, LoadPrevious, Holding, PcStates
<1>2. BalanceIsLen'
  BY DEF LoadInv, BalanceIsLen, LoadPrevious
<1>3. /\ pc' \in [Loaders -> PcStates]
      /\ pc'[l] = "store" /\ pc[l] = "read" /\ pc[l] \in Holding
  BY DEF LoadPrevious, PcStates, Holding
<1>4. Sorted(l)'
  <2>1. /\ todo[l] = {} /\ skipped[l] \subseteq scanned[l]
        /\ \A f \in Files : found[l][f] # "none" <=> f \in scanned[l] \ skipped[l]
    BY <1>3 DEF LoadInv, LoadPrevious, Sorted
  <2>2. skipped'[l] = skipped[l] \cup Sharing(found[l])
    BY DEF LoadPrevious, LeftOut
  <2>3. Sharing(found[l]) \subseteq scanned[l] \ skipped[l]
    BY <2>1 DEF Sharing
  <2>4. Loaded(found[l]) = (scanned[l] \ skipped[l]) \ Sharing(found[l])
    BY <2>1 DEF Loaded
  <2>5. skipped'[l] \subseteq scanned[l] /\ Loaded(found[l]) = scanned[l] \ skipped'[l]
    BY <2>1, <2>2, <2>3, <2>4
  <2>6. scanned'[l] = scanned[l] /\ found'[l] = found[l]
    BY DEF LoadPrevious
  <2> QED BY <1>3, <2>5, <2>6 DEF Sorted, Loaded, Sharing
<1>5. Faithful(l)'
  BY <1>3 DEF LoadInv, LoadPrevious, Faithful, Expected
<1>6. Owned(l)'
  BY <1>3 DEF LoadPrevious, Owned
<1>7. ASSUME NEW m \in Loaders PROVE Sorted(m)' /\ Faithful(m)' /\ Owned(m)'
  <2>2. CASE m # l
    BY <1>3, <2>2, OthersAfter DEF LoadPrevious
  <2> QED BY <1>4, <1>5, <1>6, <2>2
<1> QED BY <1>1, <1>2, <1>7 DEF LoadInv

LEMMA StoreLoadInv ==
  ASSUME TypeOK, LoadInv, NEW l \in Loaders, Store(l)
  PROVE  LoadInv'
<1> USE DEF work, directory, Goto, TypeOK
<1>1. Mutex'
  BY DEF LoadInv, Mutex, Store, Holding, PcStates
<1>2. /\ pc' \in [Loaders -> PcStates]
      /\ pc'[l] = "diff" /\ pc[l] = "store" /\ pc[l] \in Holding
  BY DEF Store, PcStates, Holding
<1>3. BalanceIsLen'
  BY <1>2 DEF BalanceIsLen
<1>4. Sorted(l)' /\ Faithful(l)'
  BY <1>2 DEF LoadInv, Store, Sorted, Loaded, Sharing, Faithful, Expected
<1>5. Owned(l)'
  <2>1. \A m \in Loaders : pc[m] # "diff"
    BY <1>2, OthersOutside DEF LoadInv, Holding, PcStates
  <2>2. balance = Cardinality(previous[l].docs)
    BY <1>2, <2>1 DEF LoadInv, BalanceIsLen, Owned
  <2>3. current'.docs = DocsOf(found[l])
    BY DEF Store
  <2>4. found' = found /\ previous' = previous /\ balance' = balance
    BY DEF Store
  <2> QED BY <1>2, <2>2, <2>3, <2>4 DEF Owned, DocsOf, Loaded, Sharing
<1>6. ASSUME NEW m \in Loaders PROVE Sorted(m)' /\ Faithful(m)' /\ Owned(m)'
  <2>2. CASE m # l
    BY <1>2, <2>2, OthersAfter DEF Store
  <2> QED BY <1>4, <1>5, <2>2
<1> QED BY <1>1, <1>3, <1>6 DEF LoadInv

LEMMA ReturnLoadInv ==
  ASSUME TypeOK, LoadInv, NEW l \in Loaders, Return(l)
  PROVE  LoadInv'
<1> USE DEF work, directory, Goto, TypeOK
<1>1. Mutex'
  BY LoadersAssumption DEF LoadInv, Mutex, Return, Holding, PcStates
<1>2. /\ pc' \in [Loaders -> PcStates]
      /\ pc'[l] \notin Holding /\ pc[l] = "diff" /\ pc[l] \in Holding
  BY DEF Return, PcStates, Holding
<1>3. BalanceIsLen'
  <2> DEFINE new == [docs |-> DocsOf(found[l]), loadedAt |-> 0]
  <2>1. new \in [docs : SUBSET Keys, loadedAt : Nat] /\ previous[l] \in Lists
    BY DocsOfType
  <2>2. current.docs = new.docs /\ balance = Cardinality(previous[l].docs)
    BY <1>2 DEF LoadInv, Owned
  <2>3. balance' = balance + Added(previous[l], new) - Removed(previous[l], new)
    BY DEF Return
  <2>4. current' = current
    BY DEF Return
  <2> HIDE DEF new
  <2>5. balance' = Cardinality(new.docs)
    BY <2>1, <2>2, <2>3, DiffBalances
  <2> QED BY <2>2, <2>4, <2>5 DEF BalanceIsLen
<1>4. ASSUME NEW m \in Loaders PROVE Sorted(m)' /\ Faithful(m)' /\ Owned(m)'
  <2>1. CASE m = l
    BY <1>2, <2>1, OutsideClaimsNothingAfter
  <2>2. CASE m # l
    BY <1>2, <2>2, OthersAfter DEF Return
  <2> QED BY <2>1, <2>2
<1> QED BY <1>1, <1>3, <1>4 DEF LoadInv

LEMMA NextLoadInv == TypeOK /\ LoadInv /\ [Next]_vars => LoadInv'
<1> SUFFICES ASSUME TypeOK, LoadInv, [Next]_vars PROVE LoadInv'
  OBVIOUS
<1>1. CASE Edit
  BY <1>1, EditLoadInv
<1>2. ASSUME NEW l \in Loaders, Reload(l) \/ Step(l) PROVE LoadInv'
  BY <1>2, EnterLoadInv, ScanFailsLoadInv, ScanDirLoadInv, LoadSchemaLoadInv,
     ReadFileLoadInv, LoadPreviousLoadInv, StoreLoadInv, ReturnLoadInv DEF Step
<1>3. ASSUME NEW r \in Readers, Call(r) \/ LoadCurrent(r) \/ Answer(r) PROVE LoadInv'
  <2>1. UNCHANGED <<directory, loading, current, clock, pc, work, fresh, balance>>
    BY <1>3 DEF Call, LoadCurrent, Answer
  <2> QED BY <2>1, ReaderLoadInv
<1>4. CASE UNCHANGED vars
  <2>1. UNCHANGED <<directory, loading, current, clock, pc, work, fresh, balance>>
    BY <1>4 DEF vars
  <2> QED BY <2>1, ReaderLoadInv
<1> QED BY <1>1, <1>2, <1>3, <1>4 DEF Next

THEOREM LoadInvHolds == Spec => []LoadInv
<1>1. Init => TypeOK /\ LoadInv
  BY InitType, InitLoadInv
<1>2. TypeOK /\ LoadInv /\ [Next]_vars => TypeOK' /\ LoadInv'
  BY NextType, NextLoadInv
<1> QED BY <1>1, <1>2, PTL DEF Spec

-----------------------------------------------------------------------------
\* Two files a load serves never share a hash.
LEMMA LoadedApart ==
  ASSUME NEW x, NEW f \in Loaded(x), NEW g \in Loaded(x), x[f] = x[g]
  PROVE  f = g
  BY DEF Loaded, Sharing

\* Each listed file is served or named as skipped, never both, never neither.
THEOREM FilesAccounted == Spec => []EveryFileAccounted
<1>1. LoadInv => EveryFileAccounted
  BY LoadedApart DEF LoadInv, Sorted, EveryFileAccounted
<1> QED BY <1>1, LoadInvHolds, PTL

\* The reported additions and removals add up to the number of keys in service.
THEOREM ReportsBalance == Spec => []BalanceIsLen
<1>1. LoadInv => BalanceIsLen
  BY DEF LoadInv
<1> QED BY <1>1, LoadInvHolds, PTL

\* What loads report adds up, of the files they found and of the list they leave.
THEOREM ResultsAdded == Spec => []ResultsAddUp
BY FilesAccounted, ReportsBalance, PTL DEF ResultsAddUp

\* Hashing the files one by one gives what the directory holds as a whole.
LEMMA FoundIsUsable ==
  ASSUME NEW x, \A f \in Files : x[f] = Expected(f)
  PROVE  DocsOf(x) = Usable
<1>1. \A k \in Keys : Carriers(k) = {f \in Files : x[f] = k}
  BY KeysAssumption DEF Expected, Carriers
<1>2. \A f \in Files : x[f] # "none" => x[f] \in Keys
  BY KeysAssumption DEF Expected
<1>3. ASSUME NEW k \in DocsOf(x) PROVE k \in Usable
  <2>1. PICK f \in Loaded(x) : k = x[f]
    BY <1>3 DEF DocsOf
  <2>2. f \in Files /\ k \in Keys
    BY <1>2, <2>1 DEF Loaded
  <2>3. {g \in Files : x[g] = k} = {f}
    BY <2>1, <2>2 DEF Loaded, Sharing
  <2> QED BY <1>1, <2>2, <2>3 DEF Usable
<1>4. ASSUME NEW k \in Usable PROVE k \in DocsOf(x)
  <2>1. PICK f \in Files : {g \in Files : x[g] = k} = {f}
    BY <1>1, <1>4 DEF Usable
  <2>2. x[f] = k /\ k \in Keys /\ \A g \in Files \ {f} : x[g] # x[f]
    BY <1>4, <2>1 DEF Usable
  <2>3. f \in Loaded(x)
    BY <2>1, <2>2, NoneNotKey DEF Loaded, Sharing
  <2> QED BY <2>2, <2>3 DEF DocsOf
<1> QED BY <1>3, <1>4

\* A load of a directory that held still publishes what that directory holds.
THEOREM FreshLoads == Spec => []FreshLoadServesUsable
<1>1. LoadInv => FreshLoadServesUsable
  <2> SUFFICES ASSUME LoadInv, NEW l \in Loaders, pc[l] = "diff", fresh[l]
               PROVE  current.docs = Usable
    BY DEF FreshLoadServesUsable
  <2>1. \A f \in Files : found[l][f] = Expected(f)
    BY DEF LoadInv, Faithful
  <2>2. current.docs = DocsOf(found[l])
    BY DEF LoadInv, Owned
  <2> QED BY <2>1, <2>2, FoundIsUsable
<1> QED BY <1>1, LoadInvHolds, PTL

-----------------------------------------------------------------------------
\* The allowlist implements the abstract served set: a reload replaces all of it
\* in its Store, and a lookup is answered where it loads the pointer.
THEOREM Refinement == Spec => LookupsAreAtomic
<1>1. Init => Promise!Init
  BY DEF Init, Promise!Init, NoList, AnswerOf
<1>2. TypeOK /\ TypeOK' /\ [Next]_vars => [Promise!Next]_Promise!vars
  <2> SUFFICES ASSUME TypeOK, TypeOK', [Next]_vars
               PROVE  [Promise!Next]_Promise!vars
    OBVIOUS
  <2> DEFINE ans == [r \in Readers |-> AnswerOf(r)]
  <2>1. ASSUME UNCHANGED <<current, lookups>> PROVE UNCHANGED Promise!vars
    BY <2>1 DEF lookups, Promise!vars, AnswerOf, Allowed
  <2>2. ASSUME NEW l \in Loaders, Store(l) PROVE Promise!Replace
    <3>1. current'.docs \in SUBSET Keys
      BY ListsHaveDocs DEF TypeOK
    <3>2. UNCHANGED <<key, ans>>
      BY <2>2 DEF Store, lookups, AnswerOf, Allowed
    <3> QED BY <3>1, <3>2 DEF Promise!Replace
  <2>3. ASSUME NEW r \in Readers, Call(r) PROVE Promise!Ask(r)
    <3>1. ans[r] = "idle" /\ ans' = [ans EXCEPT ![r] = "waiting"]
      BY <2>3 DEF Call, TypeOK, AnswerOf, Allowed
    <3> QED BY <2>3, <3>1 DEF Call, Promise!Ask
  <2>4. ASSUME NEW r \in Readers, LoadCurrent(r) PROVE Promise!Answer(r)
    <3>1. ans[r] = "waiting"
      BY <2>4 DEF LoadCurrent, AnswerOf
    <3>2. ans' = [ans EXCEPT ![r] = IF key[r] \in current.docs THEN "hit" ELSE "miss"]
      BY <2>4 DEF LoadCurrent, TypeOK, AnswerOf, Allowed
    <3> QED BY <2>4, <3>1, <3>2 DEF LoadCurrent, Promise!Answer
  <2>5. ASSUME NEW r \in Readers, Answer(r) PROVE Promise!Leave(r)
    <3>1. ans[r] \in {"hit", "miss"} /\ ans' = [ans EXCEPT ![r] = "idle"]
      BY <2>5 DEF Answer, TypeOK, AnswerOf, Allowed
    <3> QED BY <2>5, <3>1 DEF Answer, Promise!Leave
  <2>6. CASE Edit \/ UNCHANGED vars
    BY <2>1, <2>6 DEF Edit, vars
  <2>7. ASSUME NEW l \in Loaders, Reload(l) \/ Step(l), ~Store(l)
        PROVE  UNCHANGED <<current, lookups>>
    BY <2>7 DEF Step, Reload, Lock, ScanFails, ScanDir, LoadSchema, ReadFile,
       LoadPrevious, Return
  <2> HIDE DEF ans
  <2> QED
    BY <2>1, <2>2, <2>3, <2>4, <2>5, <2>6, <2>7 DEF Next, Promise!Next, Step
<1> QED BY <1>1, <1>2, TypeCorrect, PTL DEF Spec, LookupsAreAtomic, Promise!Spec
==============================================================================
