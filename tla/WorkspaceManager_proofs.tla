---------------------- MODULE WorkspaceManager_proofs ----------------------
(***************************************************************************)
(* Proofs about WorkspaceManager, for any number of keys, slots, loaders   *)
(* and readers, any memory limit and any working-set estimates.            *)
(***************************************************************************)
EXTENDS WorkspaceManager, TLAPS

(***************************************************************************)
(* Type correctness.                                                       *)
(***************************************************************************)

\* An eviction plan names keys.
LEMMA PlansType ==
  ASSUME NEW k, NEW need, NEW V \in EvictionPlans(k, need)
  PROVE  V \subseteq Key
BY Zenon DEF EvictionPlans, EvictionCandidates

\* What a replaced generation leaves in the ledger.
LEMMA RetainType ==
  ASSUME NEW g \in Graph \cup {Placeholder}, NEW b \in Bytes, LedgerTypeOK
  PROVE  Retain(g, b) \subseteq [graph : Graph \cup {Placeholder}, bytes : Bytes]
BY DEF Retain, LedgerTypeOK, Bytes

LEMMA ReleaseGraphType ==
  ASSUME SlotTypeOK, LedgerTypeOK, NEW s \in Slot, ReleaseGraph(s)
  PROVE  /\ published' \in [Slot -> Graph \cup {Placeholder}]
         /\ memory' \in [Slot -> Bytes]
         /\ loaded' \in Bytes
         /\ retained' \subseteq [graph : Graph \cup {Placeholder}, bytes : Bytes]
<1>1. retained' \subseteq [graph : Graph \cup {Placeholder}, bytes : Bytes]
  BY RetainType DEF ReleaseGraph, SlotTypeOK
<1>2. published' \in [Slot -> Graph \cup {Placeholder}] /\ memory' \in [Slot -> Bytes]
  BY DEF ReleaseGraph, SlotTypeOK, Bytes
<1>3. loaded' \in Bytes
  BY DEF ReleaseGraph, SlotTypeOK, LedgerTypeOK, SatSub, Bytes
<1> QED BY <1>1, <1>2, <1>3

\* A step of a tombstone is a step on a slot, and its writer has the lock.
LEMMA TombstoneSlot ==
  ASSUME MapTypeOK, tombstone.next \in TombstoneStep
  PROVE  /\ tombstone.slot \in Slot /\ tombstone.by \in TombstoneCall \cup Task
         /\ ~ReadLockFree
BY DEF MapTypeOK, NoTombstone, TombstoneStep, ReadLockFree

LEMMA TombstoneReturnsType ==
  ASSUME MapTypeOK, NEW s \in Slot, NEW c \in TombstoneCall \cup Task,
         TombstoneReturns(s, c), doomed' \subseteq Key
  PROVE  MapTypeOK'
BY SlotAssumption DEF TombstoneReturns, MapTypeOK, TombstoneStep

LEMMA EvictToTombstoneType ==
  ASSUME MapTypeOK, SlotTypeOK, LedgerTypeOK, NEW s \in Slot,
         NEW c \in TombstoneCall \cup Task, EvictToTombstone(s, c), doomed' \subseteq Key
  PROVE  MapTypeOK' /\ SlotTypeOK' /\ LedgerTypeOK'
<1>1. CASE state[s] = "Evicted"
  BY <1>1, TombstoneReturnsType DEF EvictToTombstone, SlotTypeOK, LedgerTypeOK
<1>2. CASE state[s] # "Evicted"
  <2>1. /\ ReleaseGraph(s) /\ workspaces' = workspaces
        /\ tombstone' = [slot |-> s, next |-> "sample", by |-> c]
        /\ UNCHANGED <<watching, state, pinned, cancelled, midIteration, inFlight, reserved>>
    BY <1>2 DEF EvictToTombstone
  <2>2. MapTypeOK'
    BY <2>1 DEF MapTypeOK, TombstoneStep
  <2> QED BY <2>1, <2>2, ReleaseGraphType DEF SlotTypeOK, LedgerTypeOK
<1> QED BY <1>1, <1>2

LEMMA ExecuteEvictionType ==
  ASSUME MapTypeOK, SlotTypeOK, LedgerTypeOK, NEW k \in Key,
         NEW c \in TombstoneCall \cup Task, ExecuteEviction(k, c), doomed' \subseteq Key
  PROVE  MapTypeOK' /\ SlotTypeOK' /\ LedgerTypeOK'
<1>1. CASE workspaces[k] \notin Slot
  BY <1>1 DEF ExecuteEviction, MapTypeOK, SlotTypeOK, LedgerTypeOK, slotVars, ledgerVars
<1>2. CASE workspaces[k] \in Slot
  BY <1>2, EvictToTombstoneType DEF ExecuteEviction
<1> QED BY <1>1, <1>2

LEMMA WriteTombstoneType ==
  ASSUME MapTypeOK, SlotTypeOK, LedgerTypeOK, WriteTombstone
  PROVE  MapTypeOK' /\ SlotTypeOK' /\ LedgerTypeOK'
<1>1. /\ tombstone.slot \in Slot /\ tombstone.by \in TombstoneCall \cup Task
      /\ tombstone \in [slot : Slot, next : TombstoneStep, by : TombstoneCall \cup Task]
  BY TombstoneSlot DEF WriteTombstone, TombstoneSamples, TombstoneCancels, TombstoneStores, ResetReleases,
     ResetClears, ResetStores, TombstoneStep, MapTypeOK, ReadLockFree
<1>2. doomed' \subseteq Key
  BY DEF WriteTombstone, TombstoneSamples, TombstoneCancels, TombstoneStores, ResetReleases,
     ResetClears, ResetStores, MapTypeOK
<1>8. CASE TombstoneSamples
  BY <1>1, <1>8 DEF TombstoneSamples, MapTypeOK, SlotTypeOK, LedgerTypeOK, ledgerVars,
     TombstoneStep
<1>3. CASE TombstoneCancels
  BY <1>1, <1>3 DEF TombstoneCancels, MapTypeOK, SlotTypeOK, LedgerTypeOK, ledgerVars,
     TombstoneStep
<1>4. CASE TombstoneStores
  <2>1. MapTypeOK'
    BY <1>1, <1>2, <1>4, TombstoneReturnsType DEF TombstoneStores
  <2> QED BY <1>1, <1>4, <2>1
          DEF TombstoneStores, SlotTypeOK, LedgerTypeOK, ledgerVars, State
<1>5. CASE ResetReleases
  <2>1. EvictToTombstone(tombstone.slot, "reset") /\ "reset" \in TombstoneCall \cup Task
    BY <1>5 DEF ResetReleases, TombstoneCall
  <2> QED BY <1>1, <1>2, <2>1, EvictToTombstoneType
<1>6. CASE ResetClears
  BY <1>1, <1>6 DEF ResetClears, MapTypeOK, SlotTypeOK, LedgerTypeOK, ledgerVars, TombstoneStep
<1>7. CASE ResetStores
  BY <1>1, <1>7 DEF ResetStores, MapTypeOK, SlotTypeOK, LedgerTypeOK, ledgerVars, State
<1> QED BY <1>3, <1>4, <1>5, <1>6, <1>7, <1>8 DEF WriteTombstone

\* What a tombstone does to a slot, it does without a task or a reader.
LEMMA WriteTombstoneLocals ==
  ASSUME WriteTombstone
  PROVE  /\ UNCHANGED <<pc, at, entry, est, victims, new, old, held, doomed>>
         /\ UNCHANGED <<pinned, inFlight, reserved>>
BY DEF WriteTombstone, TombstoneSamples, TombstoneCancels, TombstoneStores, ResetReleases, ResetClears,
   ResetStores, EvictToTombstone, taskVars, localVars, ledgerVars

\* The places a loader goes to are program places.
LEMMA Labels ==
  /\ "idle" \in PC /\ "gate" \in PC /\ "entered" \in PC /\ "observed" \in PC
  /\ "rearm" \in PC /\ "prepare" \in PC /\ "abandon" \in PC /\ "fail" \in PC
  /\ "reserve" \in PC /\ "evict" \in PC /\ "reap" \in PC /\ "admit" \in PC
  /\ "build" \in PC /\ "publish" \in PC /\ "swap" \in PC /\ "memory" \in PC
  /\ "commit" \in PC /\ "store" \in PC
BY DEF PC, LoaderPC, ReservePC, PublishPC

LEMMA InitType == Init => TypeOK /\ TaskHasSlot
BY SlotAssumption, Labels DEF Init, TypeOK, MapTypeOK, SlotTypeOK, LedgerTypeOK, TaskTypeOK,
   TaskHasSlot, Task, State, NoEntry, NoNew, NoOld, Bytes

\* Every step keeps the types, and every task between its gate and its end
\* keeps its slot.
LEMMA TypeStep ==
  ASSUME TypeOK, TaskHasSlot, [Next]_managerVars
  PROVE  TypeOK' /\ TaskHasSlot'
<1> USE SlotAssumption, LoaderAssumption, BytesAssumption, Labels
  DEF TypeOK, TaskHasSlot, Task, State, NoEntry, NoNew, NoOld, Bytes, SatSub, Goto,
      managerVars, mapVars, slotVars, ledgerVars, taskVars, localVars
<1>1. ASSUME NEW l \in Loader, EnterLoading(l) PROVE TypeOK' /\ TaskHasSlot'
  <2>0. at[l] \in Slot /\ pc[l] = "gate"
    BY <1>1 DEF EnterLoading
  <2>1. MapTypeOK' /\ SlotTypeOK' /\ LedgerTypeOK' /\ held' = held
    BY <1>1, <2>0 DEF EnterLoading, Finish, MapTypeOK, SlotTypeOK, LedgerTypeOK, TaskTypeOK
  <2>2. CASE state[at[l]] \in {"Unloaded", "Failed", "Evicted"}
    <3>1. entry' \in [Task -> [prior : State, inserted : BOOLEAN, cancelled : BOOLEAN]]
      <4>1. entry' = [entry EXCEPT ![l] = [prior |-> state[at[l]],
                        inserted |-> entry[l].inserted, cancelled |-> FALSE]]
        BY <1>1, <2>2 DEF EnterLoading, TaskTypeOK
      <4>2. state[at[l]] \in State /\ entry[l].inserted \in BOOLEAN
        BY <2>0 DEF SlotTypeOK, TaskTypeOK
      <4> QED BY <4>1, <4>2 DEF TaskTypeOK
    <3> QED BY <1>1, <2>0, <2>1, <2>2, <3>1 DEF EnterLoading, TaskTypeOK
  <2>3. CASE state[at[l]] \notin {"Unloaded", "Failed", "Evicted"}
    <3>1. Finish(l)
      BY <1>1, <2>3 DEF EnterLoading
    <3> QED BY <2>1, <3>1 DEF Finish, TaskTypeOK
  <2> QED BY <2>2, <2>3
<1>2. ASSUME NEW l \in Loader, ObserveCancel(l) PROVE TypeOK' /\ TaskHasSlot'
  BY <1>2 DEF ObserveCancel, MapTypeOK, SlotTypeOK, LedgerTypeOK, TaskTypeOK
<1>3. ASSUME NEW l \in Loader, HonorConsumes(l) PROVE TypeOK' /\ TaskHasSlot'
  BY <1>3 DEF HonorConsumes, MapTypeOK, SlotTypeOK, LedgerTypeOK, TaskTypeOK
<1>4. ASSUME NEW l \in Loader, HonorFails(l) PROVE TypeOK' /\ TaskHasSlot'
  BY <1>4
     DEF HonorFails, TransitionState, Finish, MapTypeOK, SlotTypeOK, LedgerTypeOK, TaskTypeOK
<1>5. ASSUME NEW l \in Loader, Prepare(l) PROVE TypeOK' /\ TaskHasSlot'
  <2> PICK p \in {"reserve", "abandon", "fail"} : Goto(l, p)
    BY <1>5 DEF Prepare
  <2> QED BY <1>5 DEF Prepare, MapTypeOK, SlotTypeOK, LedgerTypeOK, TaskTypeOK
<1>6. ASSUME NEW l \in Loader, AbandonLoad(l) PROVE TypeOK' /\ TaskHasSlot'
  BY <1>6
     DEF AbandonLoad, TransitionState, Finish, MapTypeOK, SlotTypeOK, LedgerTypeOK, TaskTypeOK
<1>7. ASSUME NEW l \in Loader, FailLoad(l) PROVE TypeOK' /\ TaskHasSlot'
  BY <1>7 DEF FailLoad, TransitionState, Finish, MapTypeOK, SlotTypeOK, LedgerTypeOK, TaskTypeOK
<1>8. ASSUME NEW l \in Loader, Build(l) PROVE TypeOK' /\ TaskHasSlot'
  <2>1. MapTypeOK' /\ SlotTypeOK' /\ LedgerTypeOK' /\ held' = held
    BY <1>8 DEF Build, MapTypeOK, SlotTypeOK, LedgerTypeOK, TaskTypeOK
  <2>2. at' = at /\ entry' = entry /\ est' = est /\ victims' = victims /\ old' = old
    BY <1>8 DEF Build
  <2>3. new' \in [Task -> [graph : Graph \cup {Placeholder}, bytes : Bytes]]
    <3>1. CASE new' = new
      BY <3>1 DEF TaskTypeOK
    <3>2. ASSUME NEW g \in Graph, NEW b \in Sizes,
                 new' = [new EXCEPT ![l] = [graph |-> g, bytes |-> b]]
          PROVE  new' \in [Task -> [graph : Graph \cup {Placeholder}, bytes : Bytes]]
      BY <3>2 DEF TaskTypeOK
    <3> QED BY <1>8, <3>1, <3>2 DEF Build, FreshGraphs
  <2>4. \E p \in {"publish", "abandon", "fail"} : pc' = [pc EXCEPT ![l] = p]
    BY <1>8 DEF Build
  <2> QED BY <1>8, <2>1, <2>2, <2>3, <2>4 DEF Build, TaskTypeOK
<1>9. ASSUME NEW l \in Loader, LoadRecheck(l) PROVE TypeOK' /\ TaskHasSlot'
  BY <1>9 DEF LoadRecheck, MapTypeOK, SlotTypeOK, LedgerTypeOK, TaskTypeOK
<1>10. ASSUME NEW l \in Loader, StoreLoaded(l) PROVE TypeOK' /\ TaskHasSlot'
  BY <1>10 DEF StoreLoaded, Finish, MapTypeOK, SlotTypeOK, LedgerTypeOK, TaskTypeOK
<1>11. ASSUME NEW l \in Loader, ReservePlan(l) PROVE TypeOK' /\ TaskHasSlot'
  <2>1. MapTypeOK' /\ SlotTypeOK' /\ LedgerTypeOK' /\ held' = held
    BY <1>11 DEF ReservePlan, MapTypeOK, SlotTypeOK, LedgerTypeOK, TaskTypeOK
  <2>2. at' = at /\ entry' = entry /\ new' = new /\ old' = old /\ pc[l] = "reserve"
    BY <1>11 DEF ReservePlan
  <2>3. /\ est' = est \/ \E e \in Estimates : est' = [est EXCEPT ![l] = e]
        /\ victims' = victims \/ \E V \in SUBSET Key : victims' = [victims EXCEPT ![l] = V]
    BY <1>11, PlansType, Zenon DEF ReservePlan
  <2>4. \E p \in {"fail", "abandon", "admit", "evict"} : pc' = [pc EXCEPT ![l] = p]
    BY <1>11 DEF ReservePlan, OnEvicted
  <2>5. est' \in [Task -> Bytes]
    BY <2>3 DEF TaskTypeOK
  <2>6. victims' \in [Task -> SUBSET Key]
    <3>1. CASE victims' = victims
      BY <3>1 DEF TaskTypeOK
    <3>2. ASSUME NEW V \in SUBSET Key, victims' = [victims EXCEPT ![l] = V]
          PROVE  victims' \in [Task -> SUBSET Key]
      BY <3>2 DEF TaskTypeOK
    <3> QED BY <2>3, <3>1, <3>2
  <2>7. pc' \in [Task -> PC] /\ TaskHasSlot'
    BY <2>2, <2>4 DEF TaskTypeOK
  <2> QED BY <2>1, <2>2, <2>5, <2>6, <2>7 DEF TaskTypeOK
<1>12. ASSUME NEW l \in Loader, ReserveEvict(l) PROVE TypeOK' /\ TaskHasSlot'
  <2>1. PICK k \in victims[l] :
          /\ ExecuteEviction(k, l)
          /\ victims' = [victims EXCEPT ![l] = @ \ {k}]
          /\ Goto(l, IF victims[l] = {k} THEN "reap" ELSE "evict")
    BY <1>12 DEF ReserveEvict
  <2>2. k \in Key /\ l \in TombstoneCall \cup Task /\ doomed' \subseteq Key
    BY <1>12, <2>1 DEF ReserveEvict, MapTypeOK, TaskTypeOK
  <2>3. MapTypeOK' /\ SlotTypeOK' /\ LedgerTypeOK'
    BY <2>1, <2>2, ExecuteEvictionType
  <2> QED BY <1>12, <2>1, <2>3 DEF ReserveEvict, TaskTypeOK
<1>13. ASSUME NEW l \in Loader, ReserveReap(l) PROVE TypeOK' /\ TaskHasSlot'
  BY <1>13 DEF ReserveReap, ReapOnce, MapTypeOK, SlotTypeOK, LedgerTypeOK, TaskTypeOK
<1>14. ASSUME NEW l \in Loader, ReserveAdmit(l) PROVE TypeOK' /\ TaskHasSlot'
  <2>1. reserved' \in Bytes /\ UNCHANGED <<mapVars, slotVars, loaded, retained, localVars, held>>
    BY <1>14 DEF ReserveAdmit, LedgerTypeOK, TaskTypeOK
  <2>2. pc[l] = "admit" /\ \E p \in {"abandon", "build"} : pc' = [pc EXCEPT ![l] = p]
    BY <1>14 DEF ReserveAdmit, OnBudget
  <2> QED BY <2>1, <2>2 DEF MapTypeOK, SlotTypeOK, LedgerTypeOK, TaskTypeOK
<1>15. ASSUME NEW l \in Loader, PublishSwap(l) PROVE TypeOK' /\ TaskHasSlot'
  BY <1>15 DEF PublishSwap, MapTypeOK, SlotTypeOK, LedgerTypeOK, TaskTypeOK
<1>16. ASSUME NEW l \in Loader, PublishMemory(l) PROVE TypeOK' /\ TaskHasSlot'
  BY <1>16 DEF PublishMemory, MapTypeOK, SlotTypeOK, LedgerTypeOK, TaskTypeOK
<1>17. ASSUME NEW l \in Loader, PublishCommit(l) PROVE TypeOK' /\ TaskHasSlot'
  <2>1. retained' \subseteq [graph : Graph \cup {Placeholder}, bytes : Bytes]
    BY <1>17, RetainType DEF PublishCommit, TaskTypeOK
  <2> QED BY <1>17, <2>1 DEF PublishCommit, MapTypeOK, SlotTypeOK, LedgerTypeOK, TaskTypeOK
<1>18. ASSUME NEW l \in Loader, PublishUnwind(l) PROVE TypeOK' /\ TaskHasSlot'
  BY <1>18 DEF PublishUnwind, MapTypeOK, SlotTypeOK, LedgerTypeOK, TaskTypeOK
<1>19. ASSUME NEW l \in Loader, GetOrInsert(l) PROVE TypeOK' /\ TaskHasSlot'
  <2>1. CASE workspaces[LoaderKey[l]] \in Slot
    <3>1. /\ UNCHANGED <<workspaces, doomed, tombstone, slotVars, ledgerVars, entry, held>>
          /\ UNCHANGED <<est, victims, new, old>> /\ pc' = [pc EXCEPT ![l] = "gate"]
          /\ at' = [at EXCEPT ![l] = workspaces[LoaderKey[l]]]
      BY <1>19, <2>1, Zenon DEF GetOrInsert
    <3> QED BY <2>1, <3>1 DEF MapTypeOK, SlotTypeOK, LedgerTypeOK, TaskTypeOK
  <2>2. CASE workspaces[LoaderKey[l]] = NoSlot
    <3>1. PICK s \in FreshSlots(LoaderKey[l]) :
            /\ workspaces' = [workspaces EXCEPT ![LoaderKey[l]] = s]
            /\ at' = [at EXCEPT ![l] = s]
            /\ state' = [state EXCEPT ![s] = "Unloaded"]
            /\ published' = [published EXCEPT ![s] = Placeholder]
            /\ memory' = [memory EXCEPT ![s] = 0]
            /\ pinned' = [pinned EXCEPT ![s] = FALSE]
            /\ cancelled' = [cancelled EXCEPT ![s] = FALSE]
            /\ midIteration' = [midIteration EXCEPT ![s] = FALSE]
            /\ inFlight' = [inFlight EXCEPT ![s] = FALSE]
            /\ watching' = [watching EXCEPT ![s] = FALSE]
      BY <1>19, <2>2 DEF GetOrInsert
    <3>2. s \in Slot /\ KeyOf[s] = LoaderKey[l]
      BY DEF FreshSlots
    <3>3. UNCHANGED <<doomed, tombstone>> /\ held' = held /\ ledgerVars' = ledgerVars /\ pc' = [pc EXCEPT ![l] = "gate"]
          /\ est' = est /\ victims' = victims /\ new' = new /\ old' = old
      BY <1>19 DEF GetOrInsert
    <3>4. MapTypeOK'
      BY <3>1, <3>2, <3>3 DEF MapTypeOK
    <3>5. SlotTypeOK'
      BY <3>1, <3>2 DEF SlotTypeOK
    <3>6. entry' = [entry EXCEPT ![l] = [prior |-> "Unloaded", inserted |-> TRUE, cancelled |-> FALSE]]
      BY <1>19, <2>2, Zenon DEF GetOrInsert
    <3>7. TaskTypeOK' /\ TaskHasSlot'
      BY <3>1, <3>2, <3>3, <3>6 DEF TaskTypeOK
    <3> QED BY <3>3, <3>4, <3>5, <3>7 DEF LedgerTypeOK
  <2> QED BY <1>19, <2>1, <2>2 DEF GetOrInsert
<1>20. ASSUME NEW k \in Key, EvictLruPick(k) PROVE TypeOK' /\ TaskHasSlot'
  BY <1>20 DEF EvictLruPick, MapTypeOK, SlotTypeOK, LedgerTypeOK, TaskTypeOK
<1>21. ASSUME NEW k \in Key, EvictLruExecute(k) PROVE TypeOK' /\ TaskHasSlot'
  <2>1. /\ ExecuteEviction(k, "evict_lru") /\ doomed' \subseteq Key
        /\ "evict_lru" \in TombstoneCall \cup Task
    BY <1>21 DEF EvictLruExecute, MapTypeOK, TombstoneCall
  <2>2. MapTypeOK' /\ SlotTypeOK' /\ LedgerTypeOK'
    BY <2>1, ExecuteEvictionType
  <2> QED BY <1>21, <2>2 DEF EvictLruExecute, TaskTypeOK
<1>22. ASSUME NEW k \in Key, Unload(k) PROVE TypeOK' /\ TaskHasSlot'
  <2>1. /\ ExecuteEviction(k, "unload") /\ doomed' \subseteq Key
        /\ "unload" \in TombstoneCall \cup Task
    BY <1>22 DEF Unload, MapTypeOK, TombstoneCall
  <2>2. MapTypeOK' /\ SlotTypeOK' /\ LedgerTypeOK'
    BY <2>1, ExecuteEvictionType
  <2> QED BY <1>22, <2>2 DEF Unload, TaskTypeOK
<1>23. ASSUME NEW k \in Key, ResetEmpties(k) PROVE TypeOK' /\ TaskHasSlot'
  BY <1>23 DEF ResetEmpties, MapTypeOK, SlotTypeOK, LedgerTypeOK, TaskTypeOK, TombstoneStep,
     TombstoneCall
<1>28. ASSUME WriteTombstone PROVE TypeOK' /\ TaskHasSlot'
  BY <1>28, WriteTombstoneType, WriteTombstoneLocals DEF TaskTypeOK
<1>24. ASSUME RetentionReaper PROVE TypeOK' /\ TaskHasSlot'
  BY <1>24 DEF RetentionReaper, ReapOnce, MapTypeOK, SlotTypeOK, LedgerTypeOK, TaskTypeOK
<1>25. ASSUME NEW r \in Reader, ReleaseReader(r) PROVE TypeOK' /\ TaskHasSlot'
  BY <1>25 DEF ReleaseReader, MapTypeOK, SlotTypeOK, LedgerTypeOK, TaskTypeOK
<1>26. ASSUME NEW r \in Reader, NEW k \in Key, ServeGraph(r, k) PROVE TypeOK' /\ TaskHasSlot'
  BY <1>26 DEF ServeGraph, MapTypeOK, SlotTypeOK, LedgerTypeOK, TaskTypeOK
<1>27. ASSUME UNCHANGED managerVars PROVE TypeOK' /\ TaskHasSlot'
  BY <1>27 DEF MapTypeOK, SlotTypeOK, LedgerTypeOK, TaskTypeOK
<1> QED
  BY <1>1, <1>2, <1>3, <1>4, <1>5, <1>6, <1>7, <1>8, <1>9, <1>10, <1>11, <1>12, <1>13, <1>14,
         <1>15, <1>16, <1>17, <1>18, <1>19, <1>20, <1>21, <1>22, <1>23, <1>24, <1>25, <1>26,
         <1>27, <1>28
     DEF Next, Environment, LoadStep, Reserve, PublishAndRetain

(***************************************************************************)
(* The gate remembers a state a load starts from, and a task brings a      *)
(* built graph to its publication.                                         *)
(***************************************************************************)
LEMMA LocalsStep ==
  ASSUME ResidencyInv, [Next]_managerVars
  PROVE  EntryIsLoadable' /\ GraphIsBuilt'
<1> USE SlotAssumption DEF ResidencyInv, TypeOK, TaskTypeOK, Task, EntryIsLoadable,
      GraphIsBuilt, NoEntry, NoNew, Goto, managerVars, taskVars, localVars
<1>1. ASSUME NEW l \in Loader, EnterLoading(l) PROVE EntryIsLoadable' /\ GraphIsBuilt'
  BY <1>1 DEF EnterLoading, Finish
<1>2. ASSUME NEW l \in Loader, ObserveCancel(l) PROVE EntryIsLoadable' /\ GraphIsBuilt'
  BY <1>2 DEF ObserveCancel
<1>3. ASSUME NEW l \in Loader, HonorConsumes(l) PROVE EntryIsLoadable' /\ GraphIsBuilt'
  BY <1>3 DEF HonorConsumes
<1>4. ASSUME NEW l \in Loader, HonorFails(l) PROVE EntryIsLoadable' /\ GraphIsBuilt'
  BY <1>4 DEF HonorFails, Finish
<1>5. ASSUME NEW l \in Loader, Prepare(l) PROVE EntryIsLoadable' /\ GraphIsBuilt'
  BY <1>5 DEF Prepare
<1>6. ASSUME NEW l \in Loader, AbandonLoad(l) PROVE EntryIsLoadable' /\ GraphIsBuilt'
  BY <1>6 DEF AbandonLoad, Finish
<1>7. ASSUME NEW l \in Loader, FailLoad(l) PROVE EntryIsLoadable' /\ GraphIsBuilt'
  BY <1>7 DEF FailLoad, Finish
<1>8. ASSUME NEW l \in Loader, Build(l) PROVE EntryIsLoadable' /\ GraphIsBuilt'
  BY <1>8 DEF Build, FreshGraphs
<1>9. ASSUME NEW l \in Loader, LoadRecheck(l) PROVE EntryIsLoadable' /\ GraphIsBuilt'
  BY <1>9 DEF LoadRecheck
<1>10. ASSUME NEW l \in Loader, StoreLoaded(l) PROVE EntryIsLoadable' /\ GraphIsBuilt'
  BY <1>10 DEF StoreLoaded, Finish
<1>11. ASSUME NEW l \in Loader, ReservePlan(l) PROVE EntryIsLoadable' /\ GraphIsBuilt'
  BY <1>11 DEF ReservePlan, OnEvicted
<1>12. ASSUME NEW l \in Loader, ReserveEvict(l) PROVE EntryIsLoadable' /\ GraphIsBuilt'
  BY <1>12 DEF ReserveEvict
<1>13. ASSUME NEW l \in Loader, ReserveReap(l) PROVE EntryIsLoadable' /\ GraphIsBuilt'
  BY <1>13 DEF ReserveReap
<1>14. ASSUME NEW l \in Loader, ReserveAdmit(l) PROVE EntryIsLoadable' /\ GraphIsBuilt'
  BY <1>14 DEF ReserveAdmit, OnBudget
<1>15. ASSUME NEW l \in Loader, PublishSwap(l) PROVE EntryIsLoadable' /\ GraphIsBuilt'
  BY <1>15 DEF PublishSwap
<1>16. ASSUME NEW l \in Loader, PublishMemory(l) PROVE EntryIsLoadable' /\ GraphIsBuilt'
  BY <1>16 DEF PublishMemory
<1>17. ASSUME NEW l \in Loader, PublishCommit(l) PROVE EntryIsLoadable' /\ GraphIsBuilt'
  BY <1>17 DEF PublishCommit
<1>18. ASSUME NEW l \in Loader, PublishUnwind(l) PROVE EntryIsLoadable' /\ GraphIsBuilt'
  BY <1>18 DEF PublishUnwind
<1>19. ASSUME NEW l \in Loader, GetOrInsert(l) PROVE EntryIsLoadable' /\ GraphIsBuilt'
  <2>1. /\ pc' = [pc EXCEPT ![l] = "gate"] /\ new' = new
        /\ \/ entry' = entry
           \/ entry' = [entry EXCEPT ![l] = [NoEntry EXCEPT !.inserted = TRUE]]
    BY <1>19, Zenon DEF GetOrInsert
  <2> QED BY <2>1
<1>20. ASSUME NEW k \in Key, EvictLruPick(k) PROVE EntryIsLoadable' /\ GraphIsBuilt'
  BY <1>20 DEF EvictLruPick
<1>21. ASSUME NEW k \in Key, EvictLruExecute(k) PROVE EntryIsLoadable' /\ GraphIsBuilt'
  BY <1>21 DEF EvictLruExecute
<1>22. ASSUME NEW k \in Key, Unload(k) PROVE EntryIsLoadable' /\ GraphIsBuilt'
  BY <1>22 DEF Unload
<1>23. ASSUME NEW k \in Key, ResetEmpties(k) PROVE EntryIsLoadable' /\ GraphIsBuilt'
  BY <1>23 DEF ResetEmpties
<1>24. ASSUME NEW r \in Reader, ReleaseReader(r) PROVE EntryIsLoadable' /\ GraphIsBuilt'
  BY <1>24 DEF ReleaseReader
<1>25. ASSUME NEW r \in Reader, NEW k \in Key, ServeGraph(r, k) PROVE EntryIsLoadable' /\ GraphIsBuilt'
  BY <1>25 DEF ServeGraph
<1>28. ASSUME WriteTombstone PROVE EntryIsLoadable' /\ GraphIsBuilt'
  BY <1>28, WriteTombstoneLocals
<1>26. ASSUME RetentionReaper PROVE EntryIsLoadable' /\ GraphIsBuilt'
  BY <1>26 DEF RetentionReaper
<1>27. ASSUME UNCHANGED managerVars PROVE EntryIsLoadable' /\ GraphIsBuilt'
  BY <1>27
<1> QED
  BY <1>1, <1>2, <1>3, <1>4, <1>5, <1>6, <1>7, <1>8, <1>9, <1>10, <1>11, <1>12, <1>13, <1>14,
         <1>15, <1>16, <1>17, <1>18, <1>19, <1>20, <1>21, <1>22, <1>23, <1>24, <1>25, <1>26,
         <1>27, <1>28
     DEF Next, Environment, LoadStep, Reserve, PublishAndRetain
(***************************************************************************)
(* Residency.  Three shapes of step preserve it: a step of a task outside  *)
(* its publication, an eviction under the write lock, and the three steps  *)
(* of a publication.                                                       *)
(***************************************************************************)

\* Only task t moves.
OnlyMoves(t) ==
  \A u \in Task \ {t} : pc'[u] = pc[u] /\ at'[u] = at[u]

\* Task t is not publishing and does not start to, and no slot enters or
\* leaves Loaded.
Quiet(t) ==
  /\ OnlyMoves(t)
  /\ pc[t] \notin PublishPC /\ pc'[t] \notin PublishPC
  /\ UNCHANGED <<workspaces, tombstone, published, memory>>
  /\ \A s \in Slot : state'[s] = "Loaded" <=> state[s] = "Loaded"

\* Such a step changes nothing residency speaks of.
LEMMA QuietStep ==
  ASSUME ResidencyInv, NEW t \in Task, Quiet(t)
  PROVE  Residency'
<1> USE DEF Quiet
<1>1. \A s \in Slot : PastSwap(s)' <=> PastSwap(s)
  BY DEF PastSwap, OnlyMoves, PublishPC
<1>2. PublishesIntoMap'
  BY DEF ResidencyInv, Residency, PublishesIntoMap, OnlyMoves, Registers
<1>3. SwapIsVisible' /\ OnlyLoadedHolds' /\ LoadedIsRegistered' /\ LoadedStands'
  BY <1>1 DEF ResidencyInv, Residency, SwapIsVisible, OnlyLoadedHolds, Bare,
     LoadedIsRegistered, LoadedStands, Registers
<1>4. TombstoneIsAlone'
  BY DEF ResidencyInv, Residency, TombstoneIsAlone, ReadLockFree, Registers, Bare, OnlyMoves
<1> QED BY <1>2, <1>3, <1>4 DEF Residency

\* A publication keeps every tombstone out.
LEMMA PublisherAlone ==
  ASSUME ResidencyInv, NEW t \in Task, pc[t] \in PublishPC
  PROVE  ReadLockFree
BY DEF ResidencyInv, Residency, TombstoneIsAlone

LEMMA FreeIsAlone ==
  ASSUME ReadLockFree, tombstone' = tombstone
  PROVE  TombstoneIsAlone'
BY DEF TombstoneIsAlone, ReadLockFree

\* A step that changes neither slots, map nor places.
LEMMA ResidencyKept ==
  ASSUME Residency,
         UNCHANGED <<workspaces, tombstone, state, published, memory, pc, at>>
  PROVE  Residency'
BY DEF Residency, TombstoneIsAlone, ReadLockFree, PublishesIntoMap, SwapIsVisible,
   OnlyLoadedHolds, LoadedIsRegistered, LoadedStands, Bare, Registers, PastSwap

\* Under the write lock nobody publishes: a step that empties one slot, takes
\* it out of Loaded or leaves that to its tombstone, and at most takes it out
\* of the map keeps residency.
LEMMA EmptyingStep ==
  ASSUME ResidencyInv, NEW s \in Slot,
         \A t \in Task : pc[t] \notin PublishPC /\ pc'[t] \notin PublishPC,
         ReadLockFree \/ tombstone.slot = s,
         ReadLockFree' \/ (tombstone'.slot = s /\ Registers(s)'),
         \/ workspaces' = workspaces
         \/ workspaces' = [workspaces EXCEPT ![KeyOf[s]] = NoSlot] /\ Registers(s),
         state'[s] # "Loaded" \/ ~ReadLockFree',
         published'[s] = Placeholder, memory'[s] = 0,
         \A x \in Slot \ {s} : /\ state'[x] = state[x]
                               /\ published'[x] = published[x]
                               /\ memory'[x] = memory[x]
  PROVE  Residency'
<1>1. \A x \in Slot : ~PastSwap(x) /\ ~PastSwap(x)'
  BY DEF PastSwap
<1>2. PublishesIntoMap' /\ SwapIsVisible'
  BY <1>1 DEF PublishesIntoMap, SwapIsVisible
<1>3. OnlyLoadedHolds'
  BY <1>1 DEF ResidencyInv, Residency, OnlyLoadedHolds, Bare
<1>4. LoadedIsRegistered'
  BY SlotAssumption DEF ResidencyInv, Residency, TypeOK, MapTypeOK,
     LoadedIsRegistered, Registers
<1>5. LoadedStands'
  <2> SUFFICES ASSUME NEW x \in Slot, state'[x] = "Loaded", tombstone'.slot # x
               PROVE  published'[x] # Placeholder
    BY DEF LoadedStands
  <2>1. x # s
    OBVIOUS
  <2>2. tombstone.slot # x
    BY <2>1, SlotAssumption DEF ReadLockFree, NoTombstone
  <2> QED BY <2>1, <2>2 DEF ResidencyInv, Residency, LoadedStands
<1>6. TombstoneIsAlone'
  BY DEF TombstoneIsAlone, Bare
<1> QED BY <1>2, <1>3, <1>4, <1>5, <1>6 DEF Residency

\* An Evicted slot is empty while nobody publishes.
LEMMA EvictedIsBare ==
  ASSUME ResidencyInv, \A t \in Task : pc[t] \notin PublishPC, NEW s \in Slot,
         state[s] = "Evicted"
  PROVE  published[s] = Placeholder /\ memory[s] = 0
BY DEF ResidencyInv, Residency, OnlyLoadedHolds, Bare, PastSwap

\* The first steps of a tombstone, for whichever caller.
LEMMA TombstoneBegins ==
  ASSUME ResidencyInv, NEW s \in Slot, NEW c, Registers(s), EvictToTombstone(s, c),
         ReadLockFree \/ tombstone.slot = s,
         \A t \in Task : pc[t] \notin PublishPC /\ pc'[t] \notin PublishPC
  PROVE  Residency'
<1>1. CASE state[s] = "Evicted"
  <2>1. published[s] = Placeholder /\ memory[s] = 0
    BY <1>1, EvictedIsBare
  <2>2. TombstoneReturns(s, c) /\ UNCHANGED <<state, published, memory>>
    BY <1>1 DEF EvictToTombstone
  <2>3. ReadLockFree' \/ (tombstone'.slot = s /\ Registers(s)')
    BY <2>2 DEF TombstoneReturns, ReadLockFree, Registers
  <2>4. \/ workspaces' = workspaces
        \/ workspaces' = [workspaces EXCEPT ![KeyOf[s]] = NoSlot] /\ Registers(s)
    BY <2>2 DEF TombstoneReturns
  <2> QED BY <1>1, <2>1, <2>2, <2>3, <2>4, EmptyingStep
<1>2. CASE state[s] # "Evicted"
  <2>1. /\ ReleaseGraph(s) /\ UNCHANGED <<workspaces, state>>
        /\ tombstone' = [slot |-> s, next |-> "sample", by |-> c]
    BY <1>2 DEF EvictToTombstone
  <2>2. tombstone'.slot = s /\ Registers(s)' /\ ~ReadLockFree'
    BY <2>1 DEF ReadLockFree, NoTombstone, Registers
  <2>3. /\ published'[s] = Placeholder /\ memory'[s] = 0
        /\ \A x \in Slot \ {s} : published'[x] = published[x] /\ memory'[x] = memory[x]
    BY <2>1 DEF ReleaseGraph, ResidencyInv, TypeOK, SlotTypeOK
  <2> QED BY <2>1, <2>2, <2>3, EmptyingStep
<1> QED BY <1>1, <1>2

\* An eviction, by whatever path, keeps residency.
LEMMA EvictionStep ==
  ASSUME ResidencyInv, NEW k \in Key, NEW c, ExecuteEviction(k, c),
         \A t \in Task : pc'[t] \notin PublishPC
  PROVE  Residency'
<1>1. ReadLockFree /\ \A t \in Task : pc[t] \notin PublishPC
  BY DEF ExecuteEviction, WriteLockFree
<1>2. CASE workspaces[k] \notin Slot
  <2>1. UNCHANGED <<workspaces, tombstone, state, published, memory>>
    BY <1>2 DEF ExecuteEviction, slotVars
  <2>2. \A x \in Slot : ~PastSwap(x) /\ ~PastSwap(x)'
    BY <1>1 DEF PastSwap
  <2>3. TombstoneIsAlone'
    BY <1>1, <2>1, FreeIsAlone
  <2> QED BY <2>1, <2>2, <2>3 DEF ResidencyInv, Residency, PublishesIntoMap, SwapIsVisible,
        OnlyLoadedHolds, LoadedIsRegistered, LoadedStands, Bare, Registers
<1>3. CASE workspaces[k] \in Slot
  <2>1. EvictToTombstone(workspaces[k], c) /\ Registers(workspaces[k])
    BY <1>3 DEF ExecuteEviction, Registers, ResidencyInv, TypeOK, MapTypeOK
  <2> QED BY <1>1, <1>3, <2>1, TombstoneBegins
<1> QED BY <1>2, <1>3

\* So do the steps of a tombstone after the first.
LEMMA TombstoneStepResidency ==
  ASSUME ResidencyInv, WriteTombstone
  PROVE  Residency'
<1> PICK s : s = tombstone.slot
  OBVIOUS
<1>0. tombstone.next \in TombstoneStep /\ pc' = pc
  BY WriteTombstoneLocals
     DEF WriteTombstone, TombstoneSamples, TombstoneCancels, TombstoneStores, ResetReleases,
     ResetClears, ResetStores, TombstoneStep
<1>1. /\ s \in Slot /\ Registers(s) /\ ~ReadLockFree
      /\ \A t \in Task : pc[t] \notin PublishPC /\ pc'[t] \notin PublishPC
      /\ tombstone.next # "release" => Bare(s)
  BY <1>0, TombstoneSlot
     DEF ResidencyInv, TypeOK, Residency, TombstoneIsAlone
<1>2. CASE ResetReleases
  <2>1. EvictToTombstone(s, "reset")
    BY <1>2 DEF ResetReleases
  <2> QED BY <1>1, <2>1, TombstoneBegins
<1>3. CASE TombstoneSamples \/ TombstoneCancels \/ ResetClears
  <2>1. /\ UNCHANGED <<workspaces, state, published, memory, at>>
        /\ tombstone'.slot = s /\ tombstone.next # "release"
    BY <1>1, <1>3 DEF TombstoneSamples, TombstoneCancels, ResetClears, ResidencyInv, TypeOK, MapTypeOK,
       ReadLockFree, taskVars, localVars
  <2>2. TombstoneIsAlone'
    BY <1>1, <2>1 DEF TombstoneIsAlone, Registers, Bare
  <2> QED BY <1>0, <2>1, <2>2 DEF ResidencyInv, Residency, PublishesIntoMap, SwapIsVisible,
        OnlyLoadedHolds, LoadedIsRegistered, LoadedStands, Bare, Registers, PastSwap
<1>4. CASE TombstoneStores
  <2>1. /\ UNCHANGED <<published, memory>> /\ state' = [state EXCEPT ![s] = "Evicted"]
        /\ TombstoneReturns(s, tombstone.by) /\ tombstone.next = "store"
    BY <1>4 DEF TombstoneStores
  <2>2. Bare(s)
    BY <1>1, <2>1
  <2>3. ReadLockFree' \/ (tombstone'.slot = s /\ Registers(s)')
    BY <1>1, <2>1 DEF TombstoneReturns, ReadLockFree, Registers
  <2>4. \/ workspaces' = workspaces
        \/ workspaces' = [workspaces EXCEPT ![KeyOf[s]] = NoSlot] /\ Registers(s)
    BY <1>1, <2>1 DEF TombstoneReturns
  <2>5. state'[s] = "Evicted" /\ \A x \in Slot \ {s} : state'[x] = state[x]
    BY <1>1, <2>1 DEF ResidencyInv, TypeOK, SlotTypeOK
  <2> QED BY <1>1, <2>1, <2>2, <2>3, <2>4, <2>5, EmptyingStep DEF Bare
<1>5. CASE ResetStores
  <2>1. /\ UNCHANGED <<workspaces, published, memory>>
        /\ state' = [state EXCEPT ![s] = "Unloaded"]
        /\ tombstone' = NoTombstone /\ tombstone.next = "reset"
    BY <1>5 DEF ResetStores
  <2>2. Bare(s) /\ ReadLockFree'
    BY <1>1, <2>1 DEF ReadLockFree
  <2>3. state'[s] = "Unloaded" /\ \A x \in Slot \ {s} : state'[x] = state[x]
    BY <1>1, <2>1 DEF ResidencyInv, TypeOK, SlotTypeOK
  <2> QED BY <1>1, <2>1, <2>2, <2>3, EmptyingStep DEF Bare
<1> QED BY <1>2, <1>3, <1>4, <1>5 DEF WriteTombstone

\* Every step but the unwinding of a commit keeps residency.
LEMMA ResidencyStep ==
  ASSUME ResidencyInv, [Next]_managerVars,
         \A l \in Loader : PublishUnwind(l) => Residency'
  PROVE  Residency'
<1> USE DEF Task, Goto, managerVars, mapVars, slotVars, ledgerVars, taskVars, localVars
<1>1. ASSUME NEW l \in Loader, ObserveCancel(l) PROVE Residency'
  <2>1. Quiet(l)
    BY <1>1
       DEF ObserveCancel, Quiet, OnlyMoves, PublishPC, ResidencyInv, TypeOK, SlotTypeOK,
           TaskTypeOK
  <2> QED BY <2>1, QuietStep
<1>2. ASSUME NEW l \in Loader, HonorConsumes(l) PROVE Residency'
  <2>1. Quiet(l)
    BY <1>2
       DEF HonorConsumes, Quiet, OnlyMoves, PublishPC, ResidencyInv, TypeOK, SlotTypeOK,
           TaskTypeOK
  <2> QED BY <2>1, QuietStep
<1>3. ASSUME NEW l \in Loader, Prepare(l) PROVE Residency'
  <2>1. Quiet(l)
    BY <1>3
       DEF Prepare, Quiet, OnlyMoves, PublishPC, ResidencyInv, TypeOK, SlotTypeOK, TaskTypeOK
  <2> QED BY <2>1, QuietStep
<1>4. ASSUME NEW l \in Loader, Build(l) PROVE Residency'
  <2>1. Quiet(l)
    BY <1>4 DEF Build, Quiet, OnlyMoves, PublishPC, ResidencyInv, TypeOK, SlotTypeOK, TaskTypeOK
  <2> QED BY <2>1, QuietStep
<1>5. ASSUME NEW l \in Loader, ReservePlan(l) PROVE Residency'
  <2>1. Quiet(l)
    BY <1>5
       DEF ReservePlan, Quiet, OnlyMoves, PublishPC, ResidencyInv, TypeOK, SlotTypeOK,
           TaskTypeOK, OnEvicted
  <2> QED BY <2>1, QuietStep
<1>6. ASSUME NEW l \in Loader, ReserveReap(l) PROVE Residency'
  <2>1. Quiet(l)
    BY <1>6
       DEF ReserveReap, Quiet, OnlyMoves, PublishPC, ResidencyInv, TypeOK, SlotTypeOK,
           TaskTypeOK
  <2> QED BY <2>1, QuietStep
<1>7. ASSUME NEW l \in Loader, ReserveAdmit(l) PROVE Residency'
  <2>1. Quiet(l)
    BY <1>7
       DEF ReserveAdmit, Quiet, OnlyMoves, PublishPC, ResidencyInv, TypeOK, SlotTypeOK,
           TaskTypeOK, OnBudget
  <2> QED BY <2>1, QuietStep
<1>8. ASSUME NEW l \in Loader, HonorFails(l) PROVE Residency'
  <2>1. Quiet(l)
    BY <1>8
       DEF HonorFails, Quiet, OnlyMoves, PublishPC, ResidencyInv, TypeOK, SlotTypeOK,
           TaskTypeOK, TransitionState, Finish
  <2> QED BY <2>1, QuietStep
<1>9. ASSUME NEW l \in Loader, FailLoad(l) PROVE Residency'
  <2>1. Quiet(l)
    BY <1>9
       DEF FailLoad, Quiet, OnlyMoves, PublishPC, ResidencyInv, TypeOK, SlotTypeOK, TaskTypeOK,
           TransitionState, Finish
  <2> QED BY <2>1, QuietStep
<1>10. ASSUME NEW l \in Loader, EnterLoading(l) PROVE Residency'
  <2>1. Quiet(l)
    BY <1>10
       DEF EnterLoading, Quiet, OnlyMoves, PublishPC, ResidencyInv, TypeOK, SlotTypeOK,
           TaskTypeOK, Finish
  <2> QED BY <2>1, QuietStep
<1>11. ASSUME NEW l \in Loader, LoadRecheck(l) PROVE Residency'
  <2>1. /\ UNCHANGED <<workspaces, tombstone, state, published, memory, at>>
        /\ pc[l] = "publish" /\ OnlyMoves(l) /\ ReadLockFree
        /\ pc'[l] = "fail" \/ (pc'[l] = "swap" /\ Registers(at[l]))
    <3> DEFINE admitted == ~cancelled[at[l]] /\ Registers(at[l]) /\ ~Oversize(l)
    <3>1. /\ pc[l] = "publish" /\ ReadLockFree
          /\ UNCHANGED <<workspaces, tombstone, state, published, memory, at>>
          /\ pc' = [pc EXCEPT ![l] = IF admitted THEN "swap" ELSE "fail"]
      BY <1>11, Zenon DEF LoadRecheck
    <3>2. admitted => Registers(at[l])
      OBVIOUS
    <3>3. CASE admitted
      BY <3>1, <3>2, <3>3 DEF OnlyMoves, ResidencyInv, TypeOK, TaskTypeOK
    <3>4. CASE ~admitted
      BY <3>1, <3>4 DEF OnlyMoves, ResidencyInv, TypeOK, TaskTypeOK
    <3> HIDE DEF admitted
    <3> QED BY <3>3, <3>4
  <2>2. CASE pc'[l] = "fail"
    BY <2>1, <2>2, QuietStep DEF Quiet, PublishPC
  <2>3. CASE pc'[l] = "swap" /\ Registers(at[l])
    <3>1. \A s \in Slot : PastSwap(s)' <=> PastSwap(s)
      BY <2>1, <2>3 DEF PastSwap, OnlyMoves, PublishPC
    <3>2. PublishesIntoMap'
      BY <2>1, <2>3 DEF ResidencyInv, Residency, PublishesIntoMap, OnlyMoves, Registers
    <3>3. TombstoneIsAlone'
      BY <2>1, FreeIsAlone
    <3> QED BY <2>1, <3>1, <3>2, <3>3 DEF ResidencyInv, Residency, SwapIsVisible, Bare,
          OnlyLoadedHolds, LoadedIsRegistered, LoadedStands, Registers
  <2> QED BY <2>1, <2>2, <2>3
<1>12. ASSUME NEW l \in Loader, AbandonLoad(l) PROVE Residency'
  <2> DEFINE s == at[l]
  <2>1. /\ s \in Slot /\ pc[l] = "abandon" /\ WriteLockFree
        /\ OnlyMoves(l) /\ pc'[l] = "idle" /\ UNCHANGED <<tombstone, published, memory>>
    BY <1>12 DEF AbandonLoad, Finish, OnlyMoves, ResidencyInv, TypeOK, TaskTypeOK, TaskHasSlot
  <2>2. /\ state'[s] = state[s] \/ (state[s] = "Loading" /\ state'[s] # "Loaded")
        /\ \A x \in Slot \ {s} : state'[x] = state[x]
    <3>1. state' = [state EXCEPT ![s] = IF @ = "Loading" THEN entry[l].prior ELSE @]
      BY <1>12 DEF AbandonLoad, TransitionState
    <3>2. entry[l].prior # "Loaded"
      BY DEF ResidencyInv, EntryIsLoadable
    <3>3. state'[s] = IF state[s] = "Loading" THEN entry[l].prior ELSE state[s]
      BY <2>1, <3>1 DEF ResidencyInv, TypeOK, SlotTypeOK
    <3>4. \A x \in Slot \ {s} : state'[x] = state[x]
      BY <2>1, <3>1 DEF ResidencyInv, TypeOK, SlotTypeOK
    <3> QED BY <3>2, <3>3, <3>4
  <2>3. workspaces' = workspaces
          \/ /\ workspaces' = [workspaces EXCEPT ![KeyOf[s]] = NoSlot]
             /\ Registers(s) /\ state[s] = "Loading" /\ state'[s] # "Loaded"
    BY <1>12, <2>1, <2>2 DEF AbandonLoad, TransitionState, ResidencyInv, TypeOK, SlotTypeOK
  <2> HIDE DEF s
  <2>4. CASE workspaces' = workspaces
    BY <2>1, <2>2, <2>4, QuietStep DEF Quiet, PublishPC
  <2>5. CASE /\ workspaces' = [workspaces EXCEPT ![KeyOf[s]] = NoSlot]
             /\ Registers(s) /\ state[s] = "Loading" /\ state'[s] # "Loaded"
    <3>1. published[s] = Placeholder /\ memory[s] = 0
      BY <2>1, <2>5 DEF ResidencyInv, Residency, OnlyLoadedHolds, Bare, PastSwap, WriteLockFree
    <3>2. /\ \A t \in Task : pc[t] \notin PublishPC /\ pc'[t] \notin PublishPC
          /\ ReadLockFree /\ ReadLockFree'
      BY <2>1 DEF OnlyMoves, WriteLockFree, ReadLockFree, PublishPC
    <3> QED BY <2>1, <2>2, <2>5, <3>1, <3>2, EmptyingStep
  <2> QED BY <2>3, <2>4, <2>5
<1>13. ASSUME NEW l \in Loader, StoreLoaded(l) PROVE Residency'
  <2> DEFINE s == at[l]
  <2>1. /\ s \in Slot /\ pc[l] = "store" /\ OnlyMoves(l) /\ pc'[l] = "idle"
        /\ UNCHANGED <<workspaces, tombstone, published, memory>>
        /\ state' = [state EXCEPT ![s] = "Loaded"]
    BY <1>13 DEF StoreLoaded, Finish, OnlyMoves, ResidencyInv, TypeOK, TaskTypeOK, TaskHasSlot
  <2>2. Registers(s) /\ published[s] # Placeholder
    BY <2>1 DEF ResidencyInv, Residency, PublishesIntoMap, SwapIsVisible, PastSwap, PublishPC
  <2>3. \A x \in Slot : /\ PastSwap(x)' => PastSwap(x)
                        /\ x # s /\ PastSwap(x) => PastSwap(x)'
    BY <2>1 DEF PastSwap, OnlyMoves, PublishPC
  <2>4. PublishesIntoMap'
    BY <2>1 DEF ResidencyInv, Residency, PublishesIntoMap, OnlyMoves, Registers, PublishPC
  <2> HIDE DEF s
  <2>5. SwapIsVisible' /\ OnlyLoadedHolds' /\ LoadedIsRegistered' /\ LoadedStands'
    BY <2>1, <2>2, <2>3 DEF ResidencyInv, Residency, TypeOK, SlotTypeOK, SwapIsVisible,
       OnlyLoadedHolds, LoadedIsRegistered, LoadedStands, Bare, Registers
  <2>6. TombstoneIsAlone'
    BY <2>1, PublisherAlone, FreeIsAlone DEF PublishPC
  <2> QED BY <2>4, <2>5, <2>6 DEF Residency
<1>14. ASSUME NEW l \in Loader, ReserveEvict(l) PROVE Residency'
  <2>1. PICK k \in victims[l] :
          /\ ExecuteEviction(k, l)
          /\ Goto(l, IF victims[l] = {k} THEN "reap" ELSE "evict")
    BY <1>14 DEF ReserveEvict
  <2>2. k \in Key
    BY <1>14, <2>1 DEF ReserveEvict, ResidencyInv, TypeOK, TaskTypeOK
  <2>3. \A t \in Task : pc'[t] \notin PublishPC
    BY <2>1 DEF ExecuteEviction, WriteLockFree, PublishPC, ResidencyInv, TypeOK, TaskTypeOK
  <2> QED BY <2>1, <2>2, <2>3, EvictionStep
<1>15. ASSUME NEW l \in Loader, PublishSwap(l) PROVE Residency'
  <2> DEFINE s == at[l]
  <2>1. /\ s \in Slot /\ pc[l] = "swap" /\ OnlyMoves(l) /\ pc'[l] = "memory"
        /\ UNCHANGED <<workspaces, tombstone, state, memory, at>>
        /\ published' = [published EXCEPT ![s] = new[l].graph]
    BY <1>15 DEF PublishSwap, OnlyMoves, ResidencyInv, TypeOK, TaskTypeOK, TaskHasSlot
  <2>2. new[l].graph # Placeholder
    BY <2>1, SlotAssumption DEF ResidencyInv, GraphIsBuilt
  <2>3. \A x \in Slot : PastSwap(x)' <=> PastSwap(x) \/ x = s
    BY <2>1 DEF PastSwap, OnlyMoves, PublishPC
  <2>4. PublishesIntoMap'
    BY <2>1 DEF ResidencyInv, Residency, PublishesIntoMap, OnlyMoves, Registers, PublishPC
  <2> HIDE DEF s
  <2>5. SwapIsVisible'
    BY <2>1, <2>2, <2>3 DEF ResidencyInv, Residency, TypeOK, SlotTypeOK, SwapIsVisible
  <2>6. OnlyLoadedHolds'
    <3> SUFFICES ASSUME NEW x \in Slot, state[x] # "Loaded", ~PastSwap(x)' PROVE Bare(x)'
      BY <2>1 DEF OnlyLoadedHolds
    <3>1. x # s /\ Bare(x)
      BY <2>3 DEF ResidencyInv, Residency, OnlyLoadedHolds
    <3> QED BY <2>1, <3>1 DEF Bare, ResidencyInv, TypeOK, SlotTypeOK
  <2>7. LoadedIsRegistered' /\ LoadedStands'
    BY <2>1, <2>2 DEF ResidencyInv, Residency, TypeOK, SlotTypeOK, LoadedIsRegistered,
       LoadedStands, Registers
  <2>8. TombstoneIsAlone'
    BY <2>1, PublisherAlone, FreeIsAlone DEF PublishPC
  <2> QED BY <2>4, <2>5, <2>6, <2>7, <2>8 DEF Residency
<1>16. ASSUME NEW l \in Loader, PublishMemory(l) PROVE Residency'
  <2> DEFINE s == at[l]
  <2>1. /\ s \in Slot /\ pc[l] = "memory" /\ OnlyMoves(l) /\ pc'[l] = "commit"
        /\ UNCHANGED <<workspaces, tombstone, state, published, at>>
        /\ memory' = [memory EXCEPT ![s] = new[l].bytes]
    BY <1>16 DEF PublishMemory, OnlyMoves, ResidencyInv, TypeOK, TaskTypeOK, TaskHasSlot
  <2>2. \A x \in Slot : (PastSwap(x)' <=> PastSwap(x)) /\ (x = s => PastSwap(x))
    BY <2>1 DEF PastSwap, OnlyMoves, PublishPC
  <2>3. PublishesIntoMap'
    BY <2>1 DEF ResidencyInv, Residency, PublishesIntoMap, OnlyMoves, Registers, PublishPC
  <2> HIDE DEF s
  <2>4. SwapIsVisible' /\ LoadedIsRegistered' /\ LoadedStands'
    BY <2>1, <2>2 DEF ResidencyInv, Residency, SwapIsVisible, LoadedIsRegistered,
       LoadedStands, Registers
  <2>5. OnlyLoadedHolds'
    <3> SUFFICES ASSUME NEW x \in Slot, state[x] # "Loaded", ~PastSwap(x)' PROVE Bare(x)'
      BY <2>1 DEF OnlyLoadedHolds
    <3>1. x # s /\ Bare(x)
      BY <2>2 DEF ResidencyInv, Residency, OnlyLoadedHolds
    <3> QED BY <2>1, <3>1 DEF Bare, ResidencyInv, TypeOK, SlotTypeOK
  <2>6. TombstoneIsAlone'
    BY <2>1, PublisherAlone, FreeIsAlone DEF PublishPC
  <2> QED BY <2>3, <2>4, <2>5, <2>6 DEF Residency
<1>17. ASSUME NEW l \in Loader, PublishCommit(l) PROVE Residency'
  <2>1. /\ pc[l] = "commit" /\ OnlyMoves(l) /\ pc'[l] = "store"
        /\ UNCHANGED <<workspaces, tombstone, state, published, memory, at>>
    BY <1>17 DEF PublishCommit, OnlyMoves, ResidencyInv, TypeOK, TaskTypeOK
  <2>2. \A x \in Slot : PastSwap(x)' <=> PastSwap(x)
    BY <2>1 DEF PastSwap, OnlyMoves, PublishPC
  <2>3. PublishesIntoMap'
    BY <2>1 DEF ResidencyInv, Residency, PublishesIntoMap, OnlyMoves, Registers, PublishPC
  <2>4. TombstoneIsAlone'
    BY <2>1, PublisherAlone, FreeIsAlone DEF PublishPC
  <2> QED BY <2>1, <2>2, <2>3, <2>4 DEF ResidencyInv, Residency, SwapIsVisible,
        OnlyLoadedHolds, LoadedIsRegistered, LoadedStands, Bare, Registers
<1>18. ASSUME NEW l \in Loader, PublishUnwind(l) PROVE Residency'
  BY <1>18
<1>19. ASSUME NEW l \in Loader, GetOrInsert(l) PROVE Residency'
  <2>1. pc[l] = "idle" /\ pc'[l] = "gate" /\ OnlyMoves(l) /\ tombstone' = tombstone
    BY <1>19 DEF GetOrInsert, OnlyMoves, ResidencyInv, TypeOK, TaskTypeOK
  <2>2. CASE UNCHANGED <<workspaces, slotVars>>
    BY <2>1, <2>2, QuietStep DEF Quiet, PublishPC
  <2>3. CASE workspaces[LoaderKey[l]] = NoSlot
    <3>1. PICK s \in FreshSlots(LoaderKey[l]) :
            /\ workspaces' = [workspaces EXCEPT ![LoaderKey[l]] = s]
            /\ state' = [state EXCEPT ![s] = "Unloaded"]
            /\ published' = [published EXCEPT ![s] = Placeholder]
            /\ memory' = [memory EXCEPT ![s] = 0]
      BY <1>19, <2>3, SlotAssumption DEF GetOrInsert
    <3>2. s \in Slot /\ KeyOf[s] = LoaderKey[l] /\ LoaderKey[l] \in Key
      BY LoaderAssumption DEF FreshSlots
    <3>3. WriteLockFree
      BY <1>19, <2>3, SlotAssumption DEF GetOrInsert
    <3>4. \A x \in Slot : ~PastSwap(x) /\ ~PastSwap(x)'
      BY <2>1, <3>3 DEF PastSwap, WriteLockFree, OnlyMoves, PublishPC
    <3>5. PublishesIntoMap' /\ SwapIsVisible'
      BY <2>1, <3>3, <3>4
         DEF PublishesIntoMap, SwapIsVisible, WriteLockFree, OnlyMoves, PublishPC
    <3>6. OnlyLoadedHolds' /\ LoadedStands'
      BY <2>1, <3>1, <3>2, <3>4 DEF ResidencyInv, Residency, TypeOK, SlotTypeOK,
         OnlyLoadedHolds, LoadedStands, Bare
    <3>7. LoadedIsRegistered'
      BY <2>3, <3>1, <3>2, SlotAssumption DEF ResidencyInv, Residency, TypeOK, MapTypeOK,
         SlotTypeOK, LoadedIsRegistered, Registers
    <3>8. TombstoneIsAlone'
      BY <2>1, <3>3, FreeIsAlone DEF WriteLockFree
    <3> QED BY <3>5, <3>6, <3>7, <3>8 DEF Residency
  <2> QED BY <1>19, <2>2, <2>3 DEF GetOrInsert
<1>20. ASSUME NEW k \in Key, EvictLruPick(k) PROVE Residency'
  BY <1>20, ResidencyKept DEF EvictLruPick, ResidencyInv
<1>21. ASSUME NEW k \in Key, EvictLruExecute(k) PROVE Residency'
  <2>1. \A t \in Task : pc'[t] \notin PublishPC
    BY <1>21 DEF EvictLruExecute, ExecuteEviction, WriteLockFree
  <2> QED BY <1>21, <2>1, EvictionStep DEF EvictLruExecute
<1>22. ASSUME NEW k \in Key, Unload(k) PROVE Residency'
  <2>1. \A t \in Task : pc'[t] \notin PublishPC
    BY <1>22 DEF Unload, ExecuteEviction, WriteLockFree
  <2> QED BY <1>22, <2>1, EvictionStep DEF Unload
<1>23. ASSUME NEW k \in Key, ResetEmpties(k) PROVE Residency'
  <2>1. /\ workspaces[k] \in Slot /\ WriteLockFree
        /\ UNCHANGED <<workspaces, state, published, memory, pc, at>>
        /\ tombstone' = [slot |-> workspaces[k], next |-> "release", by |-> "reset"]
    BY <1>23 DEF ResetEmpties
  <2>2. TombstoneIsAlone'
    BY <2>1 DEF TombstoneIsAlone, WriteLockFree, Registers, ResidencyInv, TypeOK, MapTypeOK
  <2>3. LoadedStands'
    BY <2>1, SlotAssumption
       DEF WriteLockFree, ReadLockFree, NoTombstone, ResidencyInv, Residency, LoadedStands
  <2> QED BY <2>1, <2>2, <2>3 DEF ResidencyInv, Residency, PublishesIntoMap, SwapIsVisible,
        OnlyLoadedHolds, LoadedIsRegistered, Bare, Registers, PastSwap
<1>24. ASSUME NEW r \in Reader, ReleaseReader(r) PROVE Residency'
  BY <1>24, ResidencyKept DEF ReleaseReader, ResidencyInv
<1>25. ASSUME NEW r \in Reader, NEW k \in Key, ServeGraph(r, k) PROVE Residency'
  BY <1>25, ResidencyKept DEF ServeGraph, ResidencyInv
<1>26. ASSUME RetentionReaper PROVE Residency'
  BY <1>26, ResidencyKept DEF RetentionReaper, ResidencyInv
<1>27. ASSUME UNCHANGED managerVars PROVE Residency'
  BY <1>27, ResidencyKept DEF ResidencyInv
<1>28. ASSUME WriteTombstone PROVE Residency'
  BY <1>28, TombstoneStepResidency
<1> QED
  BY <1>1, <1>2, <1>3, <1>4, <1>5, <1>6, <1>7, <1>8, <1>9, <1>10, <1>11, <1>12, <1>13, <1>14,
         <1>15, <1>16, <1>17, <1>18, <1>19, <1>20, <1>21, <1>22, <1>23, <1>24, <1>25, <1>26,
         <1>27, <1>28
     DEF Next, Environment, LoadStep, Reserve, PublishAndRetain

(***************************************************************************)
(* Charging.  A graph that leaves its slot is retained with the bytes the  *)
(* slot was charged for it, so what has to be shown is that a slot with a  *)
(* generation is charged: memory_bytes lags behind the swap of the graph   *)
(* while a publication is between the two.  This is where two publications *)
(* of one slot would go wrong: the second would replace the first's graph  *)
(* before the slot is charged for it.                                      *)
(***************************************************************************)

\* One task at a time publishes into a slot.
SinglePublisher ==
  \A t, u \in Task :
    pc[t] \in PublishPC /\ pc[u] \in PublishPC /\ at[t] = at[u] => t = u

\* Task t has swapped the graph of s and not yet updated its bytes.
Swapped(t, s) == at[t] = s /\ pc[t] = "memory"

BuiltIsSized ==
  \A t \in Task : pc[t] \in {"publish", "swap", "memory", "commit"} => new[t].bytes > 0

GenerationIsCharged ==
  \A s \in Slot :
    published[s] # Placeholder /\ (\A t \in Task : ~Swapped(t, s)) => memory[s] > 0

ReplacedIsCharged ==
  \A t \in Task : old[t].graph # Placeholder =>
    /\ pc[t] = "memory" => memory[at[t]] > 0
    /\ pc[t] = "commit" => old[t].prev > 0

ChargeInv ==
  BuiltIsSized /\ GenerationIsCharged /\ ReplacedIsCharged /\ HeldGraphsAreCharged

\* Task t moves outside its publication's two critical steps, and keeps a
\* size with what it built.
Uncharging(t) ==
  /\ OnlyMoves(t)
  /\ \A u \in Task \ {t} : new'[u] = new[u] /\ old'[u] = old[u]
  /\ pc[t] \notin {"memory", "commit"} /\ pc'[t] \notin {"memory", "commit"}
  /\ pc'[t] \in {"publish", "swap"} => new'[t].bytes > 0

\* Such a task leaves the charges of every slot and of the other tasks alone.
LEMMA UnchargingStep ==
  ASSUME ChargeInv, NEW t \in Task, Uncharging(t), UNCHANGED <<published, memory>>
  PROVE  BuiltIsSized' /\ GenerationIsCharged' /\ ReplacedIsCharged'
<1>1. BuiltIsSized'
  BY DEF ChargeInv, BuiltIsSized, Uncharging, OnlyMoves
<1>2. GenerationIsCharged'
  BY DEF ChargeInv, GenerationIsCharged, Swapped, Uncharging, OnlyMoves
<1>3. ReplacedIsCharged'
  BY DEF ChargeInv, ReplacedIsCharged, Uncharging, OnlyMoves
<1> QED BY <1>1, <1>2, <1>3

\* The charges of readers' graphs outlive a step that drops nothing they
\* hold.
LEMMA ReadersStep ==
  ASSUME HeldGraphsAreCharged, NEW t \in Task, Uncharging(t),
         UNCHANGED <<published, held>>,
         \A e \in retained :
           e \in retained' \/ e.graph = Placeholder \/ \A r \in Reader : held[r] # e.graph
  PROVE  HeldGraphsAreCharged'
<1> SUFFICES ASSUME NEW r \in Reader, held[r] # Placeholder
             PROVE  \/ \E s \in Slot : published[s] = held[r]
                    \/ \E e \in retained' : e.graph = held[r] /\ e.bytes > 0
                    \/ \E u \in Task : pc'[u] \in {"memory", "commit"} /\ old'[u].graph = held[r]
  BY DEF HeldGraphsAreCharged
<1>1. CASE \E e \in retained : e.graph = held[r] /\ e.bytes > 0
  BY <1>1
<1>2. CASE \E u \in Task : pc[u] \in {"memory", "commit"} /\ old[u].graph = held[r]
  BY <1>2 DEF Uncharging, OnlyMoves
<1> QED BY <1>1, <1>2 DEF HeldGraphsAreCharged

\* The two together.
LEMMA ChargeKept ==
  ASSUME ChargeInv, NEW t \in Task, Uncharging(t), UNCHANGED <<published, memory, held>>,
         \A e \in retained :
           e \in retained' \/ e.graph = Placeholder \/ \A r \in Reader : held[r] # e.graph
  PROVE  ChargeInv'
<1>1. HeldGraphsAreCharged'
  BY ReadersStep DEF ChargeInv
<1> QED BY <1>1, UnchargingStep DEF ChargeInv

\* A step under the write lock that moves the generation of one slot, if it
\* has any, to the retained entries.
LEMMA ReleasingStep ==
  ASSUME ResidencyInv, ChargeInv, NEW s \in Slot, ReleaseGraph(s),
         \A t \in Task : pc[t] \notin PublishPC /\ pc'[t] \notin PublishPC,
         \A t \in Task : pc'[t] = "publish" => new'[t].bytes > 0,
         held' = held
  PROVE  ChargeInv'
<1> USE DEF ChargeInv
<1>1. /\ published' = [published EXCEPT ![s] = Placeholder]
      /\ memory' = [memory EXCEPT ![s] = 0]
      /\ retained' = Retain(published[s], memory[s])
  BY DEF ReleaseGraph
<1>2. published[s] # Placeholder => memory[s] > 0
  BY DEF GenerationIsCharged, Swapped, PublishPC
<1>3. BuiltIsSized' /\ ReplacedIsCharged'
  BY DEF BuiltIsSized, ReplacedIsCharged, PublishPC
<1>4. GenerationIsCharged'
  <2> SUFFICES ASSUME NEW x \in Slot, published'[x] # Placeholder PROVE memory'[x] > 0
    BY DEF GenerationIsCharged
  <2>1. x # s /\ published'[x] = published[x] /\ memory'[x] = memory[x]
    BY <1>1 DEF ResidencyInv, TypeOK, SlotTypeOK
  <2> QED BY <2>1 DEF GenerationIsCharged, Swapped, PublishPC
<1>5. HeldGraphsAreCharged'
  <2> SUFFICES ASSUME NEW r \in Reader, held[r] # Placeholder
               PROVE  \/ \E x \in Slot : published'[x] = held[r]
                      \/ \E e \in retained' : e.graph = held[r] /\ e.bytes > 0
    BY DEF HeldGraphsAreCharged
  <2>1. \/ \E x \in Slot : published[x] = held[r]
        \/ \E e \in retained : e.graph = held[r] /\ e.bytes > 0
    BY DEF HeldGraphsAreCharged, PublishPC
  <2>2. retained \subseteq retained'
    BY <1>1 DEF Retain
  <2>3. CASE published[s] = held[r]
    <3>1. [graph |-> published[s], bytes |-> memory[s]] \in retained'
      BY <1>1, <2>3 DEF Retain
    <3> QED BY <1>2, <2>3, <3>1
  <2>4. ASSUME NEW x \in Slot, x # s, published[x] = held[r]
        PROVE  \E y \in Slot : published'[y] = held[r]
    BY <1>1, <2>4 DEF ResidencyInv, TypeOK, SlotTypeOK
  <2> QED BY <2>1, <2>2, <2>3, <2>4
<1> QED BY <1>3, <1>4, <1>5

\* Under the write lock, a step that leaves slots and ledger alone.
LEMMA LockedStep ==
  ASSUME ChargeInv,
         \A t \in Task : pc[t] \notin PublishPC /\ pc'[t] \notin PublishPC,
         \A t \in Task : pc'[t] = "publish" => new'[t].bytes > 0,
         UNCHANGED <<published, memory, retained, held>>
  PROVE  ChargeInv'
<1> USE DEF ChargeInv
<1>1. BuiltIsSized' /\ ReplacedIsCharged'
  BY DEF BuiltIsSized, ReplacedIsCharged, PublishPC
<1>2. GenerationIsCharged'
  BY DEF GenerationIsCharged, Swapped, PublishPC
<1>3. HeldGraphsAreCharged'
  BY DEF HeldGraphsAreCharged, PublishPC
<1> QED BY <1>1, <1>2, <1>3

\* An eviction, by whatever path.
LEMMA TombstoneCharges ==
  ASSUME ResidencyInv, ChargeInv, NEW s \in Slot, NEW c, EvictToTombstone(s, c),
         \A t \in Task : pc[t] \notin PublishPC /\ pc'[t] \notin PublishPC,
         \A t \in Task : pc'[t] = "publish" => new'[t].bytes > 0,
         held' = held
  PROVE  ChargeInv'
<1>1. CASE state[s] = "Evicted"
  BY <1>1, LockedStep DEF EvictToTombstone
<1>2. CASE state[s] # "Evicted"
  BY <1>2, ReleasingStep DEF EvictToTombstone
<1> QED BY <1>1, <1>2

LEMMA EvictionCharges ==
  ASSUME ResidencyInv, ChargeInv, NEW k \in Key, NEW c, ExecuteEviction(k, c),
         \A t \in Task : pc'[t] \notin PublishPC,
         \A t \in Task : pc'[t] = "publish" => new'[t].bytes > 0,
         held' = held
  PROVE  ChargeInv'
<1>1. \A t \in Task : pc[t] \notin PublishPC
  BY DEF ExecuteEviction, WriteLockFree
<1>2. CASE workspaces[k] \notin Slot
  BY <1>1, <1>2, LockedStep DEF ExecuteEviction, slotVars, ledgerVars
<1>3. CASE workspaces[k] \in Slot
  BY <1>1, <1>3, TombstoneCharges DEF ExecuteEviction
<1> QED BY <1>2, <1>3

\* The steps of a tombstone after the first.
LEMMA WriteTombstoneCharges ==
  ASSUME ResidencyInv, ChargeInv, WriteTombstone
  PROVE  ChargeInv'
<1>0. tombstone.next \in TombstoneStep /\ UNCHANGED <<pc, new, held>>
  BY WriteTombstoneLocals
     DEF WriteTombstone, TombstoneSamples, TombstoneCancels, TombstoneStores, ResetReleases,
     ResetClears, ResetStores, TombstoneStep
<1>1. /\ tombstone.slot \in Slot
      /\ \A t \in Task : pc[t] \notin PublishPC /\ pc'[t] \notin PublishPC
      /\ \A t \in Task : pc'[t] = "publish" => new'[t].bytes > 0
  BY <1>0, TombstoneSlot
     DEF ResidencyInv, TypeOK, Residency, TombstoneIsAlone, ChargeInv, BuiltIsSized
<1>2. CASE ResetReleases
  BY <1>0, <1>1, <1>2, TombstoneCharges DEF ResetReleases
<1>3. CASE TombstoneSamples \/ TombstoneCancels \/ TombstoneStores \/ ResetClears \/ ResetStores
  <2>1. UNCHANGED <<published, memory, retained, held>>
    BY <1>3 DEF TombstoneSamples, TombstoneCancels, TombstoneStores, ResetClears, ResetStores, ledgerVars
  <2> QED BY <1>1, <2>1, LockedStep
<1> QED BY <1>2, <1>3 DEF WriteTombstone

LEMMA ChargeStep ==
  ASSUME ~MayUnwind, ResidencyInv, ChargeInv, SinglePublisher, [Next]_managerVars
  PROVE  ChargeInv'
<1> USE DEF Task, Goto, managerVars, mapVars, slotVars, ledgerVars, taskVars, localVars
<1>1. ASSUME NEW l \in Loader, EnterLoading(l) PROVE ChargeInv'
  <2>1. Uncharging(l) /\ UNCHANGED <<published, memory, retained, held>>
    BY <1>1 DEF EnterLoading, Uncharging, OnlyMoves, ResidencyInv, TypeOK, TaskTypeOK, Finish
  <2> QED BY <2>1, ChargeKept
<1>2. ASSUME NEW l \in Loader, ObserveCancel(l) PROVE ChargeInv'
  <2>1. Uncharging(l) /\ UNCHANGED <<published, memory, retained, held>>
    BY <1>2 DEF ObserveCancel, Uncharging, OnlyMoves, ResidencyInv, TypeOK, TaskTypeOK
  <2> QED BY <2>1, ChargeKept
<1>3. ASSUME NEW l \in Loader, HonorConsumes(l) PROVE ChargeInv'
  <2>1. Uncharging(l) /\ UNCHANGED <<published, memory, retained, held>>
    BY <1>3 DEF HonorConsumes, Uncharging, OnlyMoves, ResidencyInv, TypeOK, TaskTypeOK
  <2> QED BY <2>1, ChargeKept
<1>4. ASSUME NEW l \in Loader, HonorFails(l) PROVE ChargeInv'
  <2>1. Uncharging(l) /\ UNCHANGED <<published, memory, retained, held>>
    BY <1>4 DEF HonorFails, Uncharging, OnlyMoves, ResidencyInv, TypeOK, TaskTypeOK, Finish
  <2> QED BY <2>1, ChargeKept
<1>5. ASSUME NEW l \in Loader, Prepare(l) PROVE ChargeInv'
  <2>1. Uncharging(l) /\ UNCHANGED <<published, memory, retained, held>>
    BY <1>5 DEF Prepare, Uncharging, OnlyMoves, ResidencyInv, TypeOK, TaskTypeOK
  <2> QED BY <2>1, ChargeKept
<1>6. ASSUME NEW l \in Loader, AbandonLoad(l) PROVE ChargeInv'
  <2>1. Uncharging(l) /\ UNCHANGED <<published, memory, retained, held>>
    BY <1>6 DEF AbandonLoad, Uncharging, OnlyMoves, ResidencyInv, TypeOK, TaskTypeOK, Finish
  <2> QED BY <2>1, ChargeKept
<1>7. ASSUME NEW l \in Loader, FailLoad(l) PROVE ChargeInv'
  <2>1. Uncharging(l) /\ UNCHANGED <<published, memory, retained, held>>
    BY <1>7 DEF FailLoad, Uncharging, OnlyMoves, ResidencyInv, TypeOK, TaskTypeOK, Finish
  <2> QED BY <2>1, ChargeKept
<1>8. ASSUME NEW l \in Loader, ReservePlan(l) PROVE ChargeInv'
  <2>1. Uncharging(l) /\ UNCHANGED <<published, memory, retained, held>>
    BY <1>8 DEF ReservePlan, Uncharging, OnlyMoves, ResidencyInv, TypeOK, TaskTypeOK, OnEvicted
  <2> QED BY <2>1, ChargeKept
<1>9. ASSUME NEW l \in Loader, ReserveAdmit(l) PROVE ChargeInv'
  <2>1. Uncharging(l) /\ UNCHANGED <<published, memory, retained, held>>
    BY <1>9 DEF ReserveAdmit, Uncharging, OnlyMoves, ResidencyInv, TypeOK, TaskTypeOK, OnBudget
  <2> QED BY <2>1, ChargeKept
<1>10. ASSUME NEW l \in Loader, StoreLoaded(l) PROVE ChargeInv'
  <2>1. Uncharging(l) /\ UNCHANGED <<published, memory, retained, held>>
    BY <1>10 DEF StoreLoaded, Uncharging, OnlyMoves, ResidencyInv, TypeOK, TaskTypeOK, Finish
  <2> QED BY <2>1, ChargeKept
<1>11. ASSUME NEW l \in Loader, Build(l) PROVE ChargeInv'
  <2>1. UNCHANGED <<published, memory, retained, held, at, old>> /\ pc[l] = "build"
    BY <1>11 DEF Build
  <2>2. CASE \E p \in {"abandon", "fail"} : Goto(l, p) /\ new' = new
    BY <2>1, <2>2, ChargeKept DEF Uncharging, OnlyMoves, ResidencyInv, TypeOK, TaskTypeOK
  <2>3. ASSUME NEW g \in FreshGraphs, NEW b \in Sizes, Goto(l, "publish"),
               new' = [new EXCEPT ![l] = [graph |-> g, bytes |-> b]]
        PROVE  ChargeInv'
    BY <2>1, <2>3, ChargeKept, BytesAssumption
       DEF Uncharging, OnlyMoves, ResidencyInv, TypeOK, TaskTypeOK
  <2> QED BY <1>11, <2>2, <2>3 DEF Build
<1>12. ASSUME NEW l \in Loader, LoadRecheck(l) PROVE ChargeInv'
  <2>1. /\ UNCHANGED <<published, memory, retained, held, at, old>> /\ pc[l] = "publish"
        /\ \/ pc' = [pc EXCEPT ![l] = "swap"] /\ new' = new
           \/ pc' = [pc EXCEPT ![l] = "fail"] /\ new' = [new EXCEPT ![l] = NoNew]
    BY <1>12 DEF LoadRecheck
  <2>2. Uncharging(l)
    BY <2>1 DEF Uncharging, OnlyMoves, ResidencyInv, TypeOK, TaskTypeOK, ChargeInv, BuiltIsSized
  <2> QED BY <2>1, <2>2, ChargeKept
<1>13. ASSUME NEW l \in Loader, ReserveReap(l) PROVE ChargeInv'
  <2>1. Uncharging(l) /\ UNCHANGED <<published, memory, held>>
    BY <1>13 DEF ReserveReap, Uncharging, OnlyMoves, ResidencyInv, TypeOK, TaskTypeOK
  <2>2. \A e \in retained :
          e \in retained' \/ e.graph = Placeholder \/ \A r \in Reader : held[r] # e.graph
    BY <1>13 DEF ReserveReap, ReapOnce, HeldElsewhere
  <2> QED BY <2>1, <2>2, ChargeKept
<1>14. ASSUME NEW l \in Loader, ReserveEvict(l) PROVE ChargeInv'
  <2>1. PICK k \in victims[l] :
          /\ ExecuteEviction(k, l)
          /\ Goto(l, IF victims[l] = {k} THEN "reap" ELSE "evict")
    BY <1>14 DEF ReserveEvict
  <2>2. k \in Key /\ held' = held /\ new' = new
    BY <1>14, <2>1 DEF ReserveEvict, ResidencyInv, TypeOK, TaskTypeOK
  <2>3. /\ \A t \in Task : pc'[t] \notin PublishPC
        /\ \A t \in Task : pc'[t] = "publish" => new'[t].bytes > 0
    BY <2>1, <2>2
       DEF ExecuteEviction, WriteLockFree, PublishPC, ResidencyInv, TypeOK, TaskTypeOK,
       ChargeInv, BuiltIsSized
  <2> QED BY <2>1, <2>2, <2>3, EvictionCharges
<1>15. ASSUME NEW k \in Key, EvictLruExecute(k) PROVE ChargeInv'
  <2>1. ExecuteEviction(k, "evict_lru") /\ held' = held /\ UNCHANGED <<pc, new>>
    BY <1>15 DEF EvictLruExecute
  <2>2. /\ \A t \in Task : pc'[t] \notin PublishPC
        /\ \A t \in Task : pc'[t] = "publish" => new'[t].bytes > 0
    BY <2>1 DEF ExecuteEviction, WriteLockFree, ChargeInv, BuiltIsSized
  <2> QED BY <2>1, <2>2, EvictionCharges
<1>16. ASSUME NEW k \in Key, Unload(k) PROVE ChargeInv'
  <2>1. ExecuteEviction(k, "unload") /\ held' = held /\ UNCHANGED <<pc, new>>
    BY <1>16 DEF Unload
  <2>2. /\ \A t \in Task : pc'[t] \notin PublishPC
        /\ \A t \in Task : pc'[t] = "publish" => new'[t].bytes > 0
    BY <2>1 DEF ExecuteEviction, WriteLockFree, ChargeInv, BuiltIsSized
  <2> QED BY <2>1, <2>2, EvictionCharges
<1>17. ASSUME NEW k \in Key, ResetEmpties(k) PROVE ChargeInv'
  BY <1>17
     DEF ResetEmpties, ChargeInv, BuiltIsSized, GenerationIsCharged, ReplacedIsCharged, Swapped,
         HeldGraphsAreCharged
<1>28. ASSUME WriteTombstone PROVE ChargeInv'
  BY <1>28, WriteTombstoneCharges
<1>18. ASSUME NEW l \in Loader, PublishSwap(l) PROVE ChargeInv'
  <2> DEFINE s == at[l]
  <2>1. /\ s \in Slot /\ pc[l] = "swap" /\ OnlyMoves(l) /\ pc'[l] = "memory"
        /\ UNCHANGED <<memory, at, new, retained, held>>
        /\ published' = [published EXCEPT ![s] = new[l].graph]
        /\ old'[l].graph = published[s]
        /\ \A u \in Task \ {l} : old'[u] = old[u]
    BY <1>18 DEF PublishSwap, OnlyMoves, ResidencyInv, TypeOK, TaskTypeOK, TaskHasSlot
  <2>2. \A u \in Task : ~Swapped(u, s)
    BY <2>1 DEF Swapped, SinglePublisher, PublishPC
  <2>3. \A x \in Slot \ {s} : published'[x] = published[x]
    BY <2>1 DEF ResidencyInv, TypeOK, SlotTypeOK
  <2>4. BuiltIsSized'
    BY <2>1 DEF ChargeInv, BuiltIsSized, OnlyMoves
  <2>5. GenerationIsCharged'
    <3> SUFFICES ASSUME NEW x \in Slot, published'[x] # Placeholder,
                        \A t \in Task : ~Swapped(t, x)'
                 PROVE  memory'[x] > 0
      BY DEF GenerationIsCharged
    <3>1. x # s /\ \A t \in Task : ~Swapped(t, x)
      BY <2>1 DEF Swapped, OnlyMoves
    <3> QED BY <2>1, <2>3, <3>1 DEF ChargeInv, GenerationIsCharged
  <2>6. ReplacedIsCharged'
    BY <2>1, <2>2 DEF ChargeInv, GenerationIsCharged, ReplacedIsCharged, OnlyMoves
  <2> HIDE DEF s
  <2>7. HeldGraphsAreCharged'
    <3> SUFFICES ASSUME NEW r \in Reader, held[r] # Placeholder
                 PROVE  \/ \E x \in Slot : published'[x] = held[r]
                        \/ \E e \in retained : e.graph = held[r] /\ e.bytes > 0
                        \/ \E u \in Task : pc'[u] \in {"memory", "commit"} /\ old'[u].graph = held[r]
      BY <2>1 DEF HeldGraphsAreCharged
    <3>1. ASSUME NEW x \in Slot, published[x] = held[r]
          PROVE  \/ \E y \in Slot : published'[y] = held[r]
                 \/ \E u \in Task : pc'[u] \in {"memory", "commit"} /\ old'[u].graph = held[r]
      BY <2>1, <2>3, <3>1
    <3>2. ASSUME NEW u \in Task, pc[u] \in {"memory", "commit"}, old[u].graph = held[r]
          PROVE  pc'[u] \in {"memory", "commit"} /\ old'[u].graph = held[r]
      BY <2>1, <3>2 DEF OnlyMoves
    <3> QED BY <3>1, <3>2 DEF ChargeInv, HeldGraphsAreCharged
  <2> QED BY <2>4, <2>5, <2>6, <2>7 DEF ChargeInv
<1>19. ASSUME NEW l \in Loader, PublishMemory(l) PROVE ChargeInv'
  <2> DEFINE s == at[l]
  <2>1. /\ s \in Slot /\ pc[l] = "memory" /\ OnlyMoves(l) /\ pc'[l] = "commit"
        /\ UNCHANGED <<published, at, new, retained, held>>
        /\ memory' = [memory EXCEPT ![s] = new[l].bytes]
        /\ old'[l].graph = old[l].graph /\ old'[l].prev = memory[s]
        /\ \A u \in Task \ {l} : old'[u] = old[u]
    BY <1>19 DEF PublishMemory, OnlyMoves, ResidencyInv, TypeOK, TaskTypeOK, TaskHasSlot
  <2>2. \A x \in Slot : memory'[x] = IF x = s THEN new[l].bytes ELSE memory[x]
    BY <2>1 DEF ResidencyInv, TypeOK, SlotTypeOK
  <2>3. new[l].bytes > 0
    BY <2>1 DEF ChargeInv, BuiltIsSized
  <2>4. BuiltIsSized'
    BY <2>1 DEF ChargeInv, BuiltIsSized, OnlyMoves
  <2>5. GenerationIsCharged'
    <3> SUFFICES ASSUME NEW x \in Slot, x # s, published[x] # Placeholder,
                        \A t \in Task : ~Swapped(t, x)'
                 PROVE  memory[x] > 0
      BY <2>1, <2>2, <2>3 DEF GenerationIsCharged
    <3>1. \A t \in Task : ~Swapped(t, x)
      BY <2>1 DEF Swapped, OnlyMoves
    <3> QED BY <3>1 DEF ChargeInv, GenerationIsCharged
  <2>6. ReplacedIsCharged'
    <3> SUFFICES ASSUME NEW t \in Task, old'[t].graph # Placeholder
                 PROVE  /\ pc'[t] = "memory" => memory'[at[t]] > 0
                        /\ pc'[t] = "commit" => old'[t].prev > 0
      BY <2>1 DEF ReplacedIsCharged
    <3>1. CASE t = l
      BY <2>1, <3>1 DEF ChargeInv, ReplacedIsCharged
    <3>2. CASE t # l
      <4>1. pc'[t] = pc[t] /\ old'[t] = old[t] /\ (pc[t] = "memory" => at[t] \in Slot)
        BY <2>1, <3>2 DEF OnlyMoves, ResidencyInv, TaskHasSlot
      <4> QED BY <2>2, <2>3, <4>1 DEF ChargeInv, ReplacedIsCharged
    <3> QED BY <3>1, <3>2
  <2> HIDE DEF s
  <2>7. HeldGraphsAreCharged'
    <3>1. \A u \in Task : pc[u] \in {"memory", "commit"} =>
            pc'[u] \in {"memory", "commit"} /\ old'[u].graph = old[u].graph
      BY <2>1 DEF OnlyMoves
    <3> QED BY <2>1, <3>1 DEF ChargeInv, HeldGraphsAreCharged
  <2> QED BY <2>4, <2>5, <2>6, <2>7 DEF ChargeInv
<1>20. ASSUME NEW l \in Loader, PublishCommit(l) PROVE ChargeInv'
  <2>1. /\ pc[l] = "commit" /\ OnlyMoves(l) /\ pc'[l] = "store"
        /\ UNCHANGED <<published, memory, at, new, old, held>>
        /\ retained' = Retain(old[l].graph, old[l].prev)
    BY <1>20 DEF PublishCommit, OnlyMoves, ResidencyInv, TypeOK, TaskTypeOK
  <2>2. BuiltIsSized'
    BY <2>1 DEF ChargeInv, BuiltIsSized, OnlyMoves
  <2>3. GenerationIsCharged'
    BY <2>1 DEF ChargeInv, GenerationIsCharged, Swapped, OnlyMoves
  <2>4. ReplacedIsCharged'
    BY <2>1 DEF ChargeInv, ReplacedIsCharged, OnlyMoves
  <2>5. HeldGraphsAreCharged'
    <3> SUFFICES ASSUME NEW r \in Reader, held[r] # Placeholder
                 PROVE  \/ \E x \in Slot : published[x] = held[r]
                        \/ \E e \in retained' : e.graph = held[r] /\ e.bytes > 0
                        \/ \E u \in Task : pc'[u] \in {"memory", "commit"} /\ old[u].graph = held[r]
      BY <2>1 DEF HeldGraphsAreCharged
    <3>1. retained \subseteq retained'
      BY <2>1 DEF Retain
    <3>2. CASE old[l].graph = held[r]
      <4>1. [graph |-> old[l].graph, bytes |-> old[l].prev] \in retained'
        BY <2>1, <3>2 DEF Retain
      <4>2. old[l].prev > 0
        BY <2>1, <3>2 DEF ChargeInv, ReplacedIsCharged
      <4> QED BY <3>2, <4>1, <4>2
    <3>3. ASSUME NEW u \in Task, u # l, pc[u] \in {"memory", "commit"}, old[u].graph = held[r]
          PROVE  pc'[u] \in {"memory", "commit"} /\ old[u].graph = held[r]
      BY <2>1, <3>3 DEF OnlyMoves
    <3> QED BY <3>1, <3>2, <3>3 DEF ChargeInv, HeldGraphsAreCharged
  <2> QED BY <2>2, <2>3, <2>4, <2>5 DEF ChargeInv
<1>21. ASSUME NEW l \in Loader, PublishUnwind(l) PROVE ChargeInv'
  BY <1>21 DEF PublishUnwind
<1>22. ASSUME NEW l \in Loader, GetOrInsert(l) PROVE ChargeInv'
  <2>1. Uncharging(l) /\ UNCHANGED <<retained, held>>
    BY <1>22 DEF GetOrInsert, Uncharging, OnlyMoves, ResidencyInv, TypeOK, TaskTypeOK
  <2>2. published' = published /\ memory' = memory
    <3>1. CASE workspaces[LoaderKey[l]] \in Slot
      BY <1>22, <3>1, SlotAssumption DEF GetOrInsert
    <3>2. CASE workspaces[LoaderKey[l]] = NoSlot
      <4>1. PICK s \in FreshSlots(LoaderKey[l]) :
              /\ published' = [published EXCEPT ![s] = Placeholder]
              /\ memory' = [memory EXCEPT ![s] = 0]
        BY <1>22, <3>2, SlotAssumption DEF GetOrInsert
      <4>2. s \in Slot /\ ~Registers(s)
        BY SlotAssumption DEF FreshSlots, Registered, Registers
      <4>3. Bare(s)
        BY <4>2 DEF ResidencyInv, Residency, OnlyLoadedHolds, LoadedIsRegistered, PastSwap,
           PublishesIntoMap
      <4> QED BY <4>1, <4>2, <4>3 DEF Bare, ResidencyInv, TypeOK, SlotTypeOK
    <3> QED BY <1>22, <3>1, <3>2 DEF GetOrInsert
  <2> QED BY <2>1, <2>2, ChargeKept
<1>23. ASSUME NEW k \in Key, EvictLruPick(k) PROVE ChargeInv'
  BY <1>23
     DEF EvictLruPick, ChargeInv, BuiltIsSized, GenerationIsCharged, ReplacedIsCharged, Swapped,
         HeldGraphsAreCharged
<1>24. ASSUME NEW r \in Reader, ReleaseReader(r) PROVE ChargeInv'
  <2>1. UNCHANGED <<pc, at, new, old, published, memory, retained>>
        /\ held' = [held EXCEPT ![r] = Placeholder]
    BY <1>24 DEF ReleaseReader
  <2>2. HeldGraphsAreCharged'
    BY <2>1 DEF ChargeInv, HeldGraphsAreCharged, ResidencyInv, TypeOK
  <2> QED BY <2>1, <2>2
             DEF ChargeInv, BuiltIsSized, GenerationIsCharged, ReplacedIsCharged, Swapped
<1>25. ASSUME NEW r \in Reader, NEW k \in Key, ServeGraph(r, k) PROVE ChargeInv'
  <2>1. UNCHANGED <<pc, at, new, old, published, memory, retained>> /\ workspaces[k] \in Slot
        /\ held' = [held EXCEPT ![r] = published[workspaces[k]]]
    BY <1>25 DEF ServeGraph
  <2>2. HeldGraphsAreCharged'
    BY <2>1 DEF ChargeInv, HeldGraphsAreCharged, ResidencyInv, TypeOK
  <2> QED BY <2>1, <2>2
             DEF ChargeInv, BuiltIsSized, GenerationIsCharged, ReplacedIsCharged, Swapped
<1>26. ASSUME RetentionReaper PROVE ChargeInv'
  <2>1. UNCHANGED <<pc, at, new, old, published, memory, held>>
        /\ \A e \in retained, r \in Reader :
             held[r] = e.graph /\ held[r] # Placeholder => e \in retained'
    BY <1>26 DEF RetentionReaper, ReapOnce, HeldElsewhere
  <2>2. HeldGraphsAreCharged'
    BY <2>1 DEF ChargeInv, HeldGraphsAreCharged
  <2> QED BY <2>1, <2>2
             DEF ChargeInv, BuiltIsSized, GenerationIsCharged, ReplacedIsCharged, Swapped
<1>27. ASSUME UNCHANGED managerVars PROVE ChargeInv'
  BY <1>27
     DEF ChargeInv, BuiltIsSized, GenerationIsCharged, ReplacedIsCharged, Swapped,
         HeldGraphsAreCharged
<1> QED
  BY <1>1, <1>2, <1>3, <1>4, <1>5, <1>6, <1>7, <1>8, <1>9, <1>10, <1>11, <1>12, <1>13, <1>14,
         <1>15, <1>16, <1>17, <1>18, <1>19, <1>20, <1>21, <1>22, <1>23, <1>24, <1>25, <1>26,
         <1>27, <1>28
     DEF Next, Environment, LoadStep, Reserve, PublishAndRetain

(***************************************************************************)
(* Theorems.                                                               *)
(***************************************************************************)
LEMMA InitResidency == Init => ResidencyInv
<1> SUFFICES ASSUME Init PROVE ResidencyInv
  OBVIOUS
<1>1. TypeOK /\ TaskHasSlot
  BY InitType
<1>2. EntryIsLoadable /\ GraphIsBuilt
  BY DEF Init, EntryIsLoadable, GraphIsBuilt, NoEntry
<1>3. Residency
  BY DEF Init, Residency, TombstoneIsAlone, ReadLockFree, PublishesIntoMap, SwapIsVisible,
     OnlyLoadedHolds,
     LoadedIsRegistered, LoadedStands, Bare, PastSwap, PublishPC
<1> QED BY <1>1, <1>2, <1>3 DEF ResidencyInv

\* Type correctness of the manager: the ledger's counters stay natural
\* numbers whatever saturates, and no task past its gate loses its slot,
\* commits that unwind included.
THEOREM TypeCorrect == Spec => []TypeOK
<1>1. Init => TypeOK /\ TaskHasSlot
  BY InitType
<1>2. TypeOK /\ TaskHasSlot /\ [Next]_managerVars => (TypeOK /\ TaskHasSlot)'
  BY TypeStep
<1> QED BY <1>1, <1>2, PTL DEF Spec

\* The inductive invariant of the residency results (publish_and_retain
\* against evict_to_tombstone_locked, unload, reset and abandon_load), for
\* commits that do not unwind.
THEOREM ResidencyInvariance ==
  ASSUME ~MayUnwind PROVE Spec => []ResidencyInv
<1>1. Init => ResidencyInv
  BY InitResidency
<1>2. ResidencyInv /\ [Next]_managerVars => ResidencyInv'
  <2> SUFFICES ASSUME ResidencyInv, [Next]_managerVars PROVE ResidencyInv'
    OBVIOUS
  <2>1. TypeOK' /\ TaskHasSlot'
    BY TypeStep DEF ResidencyInv
  <2>2. EntryIsLoadable' /\ GraphIsBuilt'
    BY LocalsStep
  <2>3. Residency'
    BY ResidencyStep DEF PublishUnwind
  <2> QED BY <2>1, <2>2, <2>3 DEF ResidencyInv
<1> QED BY <1>1, <1>2, PTL DEF Spec

\* A slot that says Loaded has a generation, however many loads, evictions,
\* unloads and resets race on it: resident_generation never meets
\* (Loaded, placeholder).
THEOREM LoadedServes ==
  ASSUME ~MayUnwind PROVE Spec => []LoadedHasGeneration
<1>1. ResidencyInv => LoadedHasGeneration
  BY SlotAssumption DEF ResidencyInv, Residency, LoadedStands, LoadedHasGeneration,
     ReadLockFree, NoTombstone
<1> QED BY <1>1, ResidencyInvariance, PTL

\* An evicted slot holds no graph and is charged no bytes outside a
\* publication in progress.
THEOREM TombstonesAreBare ==
  ASSUME ~MayUnwind PROVE Spec => []TombstoneIsBare
<1>1. ResidencyInv => TombstoneIsBare
  BY DEF ResidencyInv, Residency, OnlyLoadedHolds, TombstoneIsBare, Bare, PastSwap, PublishPC
<1> QED BY <1>1, ResidencyInvariance, PTL

\* A slot that unload or an abandoned load took out of the map holds no
\* graph: no generation is left where no eviction could find it.
THEOREM RemovedSlotsAreBare ==
  ASSUME ~MayUnwind PROVE Spec => []UnregisteredIsBare
<1>1. ResidencyInv => UnregisteredIsBare
  <2> SUFFICES ASSUME ResidencyInv, NEW s \in Slot \ Registered PROVE Bare(s)
    BY DEF UnregisteredIsBare, Bare
  <2>1. ~Registers(s)
    BY SlotAssumption DEF Registers, Registered
  <2>2. state[s] # "Loaded"
    BY <2>1 DEF ResidencyInv, Residency, LoadedIsRegistered
  <2>3. ~PastSwap(s)
    BY <2>1 DEF PastSwap, ResidencyInv, Residency, PublishesIntoMap
  <2> QED BY <2>2, <2>3 DEF ResidencyInv, Residency, OnlyLoadedHolds
<1> QED BY <1>1, ResidencyInvariance, PTL

\* The books keep a graph for as long as a query holds it: while one task at a
\* time publishes into a slot, a graph that left its slot by a publication, an
\* eviction, an unload or a reset is retained with the bytes the slot was
\* charged for it, and no reaper drops it (publish_and_retain,
\* evict_to_tombstone_locked, reap_once).
THEOREM HeldGraphsStayCharged ==
  ASSUME ~MayUnwind PROVE Spec /\ []SinglePublisher => []HeldGraphsAreCharged
<1>1. Init => ChargeInv
  BY DEF Init, ChargeInv, BuiltIsSized, GenerationIsCharged, ReplacedIsCharged,
     HeldGraphsAreCharged, NoOld
<1>2. ResidencyInv /\ SinglePublisher /\ ChargeInv /\ [Next]_managerVars => ChargeInv'
  BY ChargeStep
<1>3. ChargeInv => HeldGraphsAreCharged
  BY DEF ChargeInv
<1> QED BY <1>1, <1>2, <1>3, ResidencyInvariance, PTL DEF Spec

\* Each task works on an object made for the key it was asked for.
OwnKey == \A l \in Loader : at[l] \in Slot => KeyOf[at[l]] = LoaderKey[l]

LEMMA OwnKeyStep ==
  ASSUME TypeOK, OwnKey, [Next]_managerVars
  PROVE  OwnKey'
<1>1. ASSUME NEW l \in Loader, GetOrInsert(l) PROVE OwnKey'
  <2>1. PICK s \in Slot : at' = [at EXCEPT ![l] = s] /\ KeyOf[s] = LoaderKey[l]
    BY <1>1, LoaderAssumption DEF GetOrInsert, FreshSlots, TypeOK, MapTypeOK
  <2> QED BY <2>1, LoaderAssumption DEF OwnKey, TypeOK, TaskTypeOK, Task
<1>2. CASE at' = at
  BY <1>2 DEF OwnKey
<1>3. ASSUME NEW l \in Loader, at' = [at EXCEPT ![l] = NoSlot] PROVE OwnKey'
  BY <1>3, SlotAssumption DEF OwnKey, TypeOK, TaskTypeOK, Task
<1>4. \A l \in Loader : LoadStep(l) => at' = at \/ at' = [at EXCEPT ![l] = NoSlot]
  BY DEF LoadStep, EnterLoading, ObserveCancel, HonorConsumes, HonorFails, Prepare,
     AbandonLoad, FailLoad, Build, LoadRecheck, StoreLoaded, Reserve, ReservePlan,
     ReserveEvict, ReserveReap, ReserveAdmit, PublishAndRetain, PublishSwap, PublishMemory,
     PublishCommit, PublishUnwind, Finish, localVars
<1>5. ASSUME \/ \E k \in Key : \/ EvictLruExecute(k) \/ EvictLruPick(k) \/ Unload(k)
                               \/ ResetEmpties(k)
             \/ \E r \in Reader : ReleaseReader(r)
             \/ \E r \in Reader, k \in Key : ServeGraph(r, k)
             \/ RetentionReaper \/ WriteTombstone
             \/ UNCHANGED managerVars
      PROVE  at' = at
  BY <1>5, WriteTombstoneLocals DEF EvictLruExecute, EvictLruPick, Unload, ResetEmpties, ReleaseReader, ServeGraph,
     RetentionReaper, managerVars, taskVars, localVars
<1> QED BY <1>1, <1>2, <1>3, <1>4, <1>5 DEF Next, Environment

\* In particular, when no two loads of one workspace are under way at a time,
\* no schedule of loads, evictions, unloads and resets takes a graph that a
\* query holds off the books.
THEOREM HeldGraphsAreChargedAlone ==
  ASSUME ~MayUnwind, \A l, m \in Loader : LoaderKey[l] = LoaderKey[m] => l = m
  PROVE  Spec => []HeldGraphsAreCharged
<1>1. Init => OwnKey
  BY SlotAssumption DEF Init, OwnKey, Task
<1>2. ResidencyInv /\ OwnKey /\ [Next]_managerVars => OwnKey'
  BY OwnKeyStep DEF ResidencyInv
<1>3. ResidencyInv /\ OwnKey => SinglePublisher
  <2> SUFFICES ASSUME ResidencyInv, OwnKey, NEW t \in Task, NEW u \in Task,
                      pc[t] \in PublishPC, pc[u] \in PublishPC, at[t] = at[u]
               PROVE  t = u
    BY DEF SinglePublisher
  <2>1. t \in Loader /\ u \in Loader /\ at[t] \in Slot
    BY DEF ResidencyInv, TaskHasSlot, Task, PublishPC
  <2> QED BY <2>1 DEF OwnKey
<1> QED BY <1>1, <1>2, <1>3, ResidencyInvariance, HeldGraphsStayCharged, PTL DEF Spec
=============================================================================
