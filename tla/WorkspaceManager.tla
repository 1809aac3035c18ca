-------------------------- MODULE WorkspaceManager --------------------------
(***************************************************************************)
(* The registry of the daemon's workspaces: sqry-daemon's WorkspaceManager *)
(* (src/sqry-daemon/src/workspace/manager.rs), the LoadedWorkspace slots   *)
(* it holds (loaded.rs) and its memory ledger (admission.rs).              *)
(*                                                                         *)
(* A slot is a LoadedWorkspace object.  Loaders (daemon/load, the pinned   *)
(* preload, rebuild_index, the read-only reload of a query) bring a slot   *)
(* to Loaded; a reservation under memory pressure, daemon/unload and       *)
(* daemon/reset take its graph away; readers hold the graph they were      *)
(* served past any of that.  Runners are the rebuild tasks of module       *)
(* RebuildDispatcher, which reserve and publish through the steps defined  *)
(* here.                                                                   *)
(*                                                                         *)
(* Granularity.  One action is one critical section of the workspaces      *)
(* lock, of the admission mutex, or one atomic operation on a slot.  Two   *)
(* sections of the workspaces lock contain operations that others see      *)
(* without the lock, and are one action for each: the publication, which   *)
(* holds workspaces.read() from "swap" to "store", and the tombstone, whose *)
(* writer holds workspaces.write() while `tombstone` is set.               *)
(* ReadLockFree and WriteLockFree are the guards of the actions that take  *)
(* the lock.                                                               *)
(*                                                                         *)
(* Abstractions.  A key is the identity a lookup resolves to (anonymous    *)
(* keys are coalesced by source root).  A graph is its identity; its size  *)
(* is chosen when it is built.  last_accessed is left out, so an eviction  *)
(* plan follows some LRU order, not a given one.  The diagnostic fields    *)
(* (last_error, last_good_at, retry_count, high-water marks) are left out. *)
(***************************************************************************)
EXTENDS Integers, FiniteSets, FiniteSetsExt

CONSTANTS
  Key,           \* workspace keys
  Slot,          \* LoadedWorkspace objects
  NoSlot,        \* no entry in the map
  KeyOf,         \* the `key` field of each LoadedWorkspace
  Loader,        \* callers of load_published / reload_from_disk_read_only
  LoaderKey,     \* the key each loader asks for
  Runner,        \* tasks that may run rebuilds (module RebuildDispatcher)
  Calls,         \* the control operations called in this instance, among
                 \* "evict_lru", "unload", "reset", "cancel" and "watch"
  Reader,        \* queries that hold the graph they were served
  Graph,         \* CodeGraph identities
  Placeholder,   \* the empty graph with no roster record
  PinnedInConfig,\* keys the configuration declares `pinned = true`
  Limit,         \* memory_limit_bytes
  Estimates,     \* working set estimates a caller may reserve
  MayUnwind,     \* whether the commit's one fallible insertion may unwind
  Sizes          \* heap_bytes of a graph a build may produce

Task == Loader \cup Runner

ASSUME SlotAssumption ==
  /\ KeyOf \in [Slot -> Key]
  /\ NoSlot \notin Slot
  /\ Placeholder \notin Graph

ASSUME LoaderAssumption ==
  /\ LoaderKey \in [Loader -> Key]
  /\ Loader \cap Runner = {}

ASSUME UnwindAssumption == MayUnwind \in BOOLEAN

ASSUME BytesAssumption ==
  /\ Limit \in Nat
  /\ Estimates \subseteq Nat
  /\ Sizes \subseteq Nat \ {0}

ASSUME FiniteAssumption ==
  IsFiniteSet(Slot) /\ IsFiniteSet(Loader) /\ IsFiniteSet(Runner)

VARIABLES
  workspaces,    \* the map: Key -> the registered slot, or NoSlot
  state,         \* lifecycle state of each slot
  published,     \* the generation each slot serves, or Placeholder
  memory,        \* memory_bytes
  pinned,        \* the pinned bit
  cancelled,     \* rebuild_cancelled
  midIteration,  \* evicted_mid_iteration
  inFlight,      \* rebuild_in_flight: a runner holds the runner role
  watching,      \* the slot's watcher stop signal is clear
  loaded,        \* AdmissionState.loaded_bytes
  reserved,      \* AdmissionState.reserved_bytes
  retained,      \* AdmissionState.retained_old
  doomed,        \* keys evict_lru has picked and not yet evicted
  tombstone,     \* evict_to_tombstone_locked in progress: its slot, its next
                 \* step and its caller, who holds workspaces.write()
  held,          \* the graph each reader holds, or Placeholder
  pc,            \* where each task is
  at,            \* the slot each task works on
  entry,         \* GateEntry of a loader; entry state of an iteration
  est,           \* the reservation a task asks for
  victims,       \* keys the reservation planned to evict
  new,           \* the built graph and its size
  old            \* what the publication replaced

mapVars    == <<workspaces, doomed, tombstone>>
slotVars   == <<state, published, memory, pinned, cancelled, midIteration,
                inFlight, watching>>
ledgerVars == <<loaded, reserved, retained>>
localVars  == <<at, entry, est, victims, new, old>>
taskVars   == <<pc, localVars>>
managerVars == <<mapVars, slotVars, ledgerVars, taskVars, held>>

State == {"Unloaded", "Loading", "Loaded", "Rebuilding", "Evicted", "Failed"}

LoaderPC == {"idle", "gate", "entered", "observed", "rearm", "prepare",
             "abandon", "fail"}
ReservePC == {"reserve", "evict", "reap", "admit"}
PublishPC == {"swap", "memory", "commit", "store"}
RunnerPC == {"acquire", "park", "drain", "consumed", "release", "enter",
             "inputs", "refuse", "cancelled", "failed", "unwound", "leaving",
             "deliver", "next"}
PC == LoaderPC \cup ReservePC \cup {"build", "publish"} \cup PublishPC
        \cup RunnerPC

TombstoneStep == {"release", "sample", "cancel", "store", "clear", "reset"}
TombstoneCall == {"none", "evict_lru", "unload", "reset"}

ASSUME CallerAssumption == Task \cap TombstoneCall = {}

NoTombstone == [slot |-> NoSlot, next |-> "none", by |-> "none"]
NoEntry == [prior |-> "Unloaded", inserted |-> FALSE, cancelled |-> FALSE]
NoNew   == [graph |-> Placeholder, bytes |-> 0]
NoOld   == [graph |-> Placeholder, prior |-> 0, prev |-> 0]

(***************************************************************************)
(* Derived state.                                                          *)
(***************************************************************************)
\* Mutant of SatSub: the bytes are never given back.
RefundForgotten(a, b) == a

SatSub(a, b) == IF a > b THEN a - b ELSE 0

Registered == {workspaces[k] : k \in Key} \ {NoSlot}

\* The slot is the object registered under its own key.
Registers(s) == workspaces[KeyOf[s]] = s

\* Mutant of WriteLockFree: the publisher drops the lock first.
ReadLockDropped == TRUE

\* The writer of a tombstone holds workspaces.write() to its last step.
ReadLockFree == tombstone = NoTombstone

\* A publisher holds workspaces.read() across these steps.
WriteLockFree == ReadLockFree /\ \A t \in Task : pc[t] \notin PublishPC

RetainedTotal == MapThenSumSet(LAMBDA e : e.bytes, retained)

TotalCommitted == loaded + reserved + RetainedTotal

\* Someone besides the admission map holds the graph's Arc.
HeldElsewhere(g) ==
  \/ \E s \in Slot : published[s] = g
  \/ \E r \in Reader : held[r] = g
  \/ \E t \in Task : new[t].graph = g \/ old[t].graph = g

\* Mutant of Retain: a replaced generation leaves the books at once.
RetainNothing(g, bytes) == retained

\* A retained entry for a replaced generation.  The entry for a bare
\* placeholder of no bytes is not kept.
Retain(g, bytes) ==
  IF g = Placeholder /\ bytes = 0
  THEN retained
  ELSE retained \cup {[graph |-> g, bytes |-> bytes]}

FreshGraphs ==
  {g \in Graph : ~HeldElsewhere(g) /\ \A e \in retained : e.graph # g}

\* Mutant of FreshSlots: the object is not made for the key.
SlotsOfAnyKey(k) == {s \in Slot : s \notin Registered /\ \A t \in Task : at[t] # s}

FreshSlots(k) ==
  {s \in Slot : KeyOf[s] = k /\ s \notin Registered /\ \A t \in Task : at[t] # s}

HoldsEvictableGraph(s) ==
  CASE state[s] = "Evicted"  -> FALSE
    [] state[s] = "Unloaded" -> memory[s] > 0
    [] OTHER                 -> TRUE

(***************************************************************************)
(* Compare-and-exchange on a slot's state (transition_state): a lost       *)
(* exchange leaves the state to the writer that installed it.              *)
(***************************************************************************)
TransitionState(s, from, to) ==
  state' = [state EXCEPT ![s] = IF @ = from THEN to ELSE @]

Goto(t, p) == pc' = [pc EXCEPT ![t] = p]

\* The task returns to its caller; its locals are dropped.
Finish(t) ==
  /\ Goto(t, "idle")
  /\ at' = [at EXCEPT ![t] = NoSlot]
  /\ entry' = [entry EXCEPT ![t] = NoEntry]
  /\ est' = [est EXCEPT ![t] = 0]
  /\ victims' = [victims EXCEPT ![t] = {}]
  /\ new' = [new EXCEPT ![t] = NoNew]
  /\ old' = [old EXCEPT ![t] = NoOld]

(***************************************************************************)
(* Taking a graph away.                                                    *)
(***************************************************************************)

\* Mutant of ReleaseGraph: the slot keeps its byte count.
ReleaseKeepsBytes(s) ==
  /\ published' = [published EXCEPT ![s] = Placeholder]
  /\ loaded' = SatSub(loaded, memory[s])
  /\ retained' = Retain(published[s], memory[s])
  /\ UNCHANGED memory

\* The first half of evict_to_tombstone_locked: the placeholder replaces
\* the generation, and its bytes move from loaded to retained.
ReleaseGraph(s) ==
  /\ published' = [published EXCEPT ![s] = Placeholder]
  /\ memory' = [memory EXCEPT ![s] = 0]
  /\ loaded' = SatSub(loaded, memory[s])
  /\ retained' = Retain(published[s], memory[s])

\* evict_to_tombstone_locked returns to its caller: an eviction is over, an
\* unload removes the entry, a reset goes on.
TombstoneReturns(s, caller) ==
  /\ workspaces' = IF caller = "unload"
                   THEN [workspaces EXCEPT ![KeyOf[s]] = NoSlot]
                   ELSE workspaces
  /\ tombstone' = IF caller = "reset"
                  THEN [slot |-> s, next |-> "clear", by |-> caller]
                  ELSE NoTombstone

\* evict_to_tombstone_locked up to its stores on the slot's flags; of a
\* tombstone already there only the watcher is stopped.
EvictToTombstone(s, caller) ==
  /\ IF state[s] = "Evicted"
     THEN /\ watching' = [watching EXCEPT ![s] = FALSE]
          /\ TombstoneReturns(s, caller)
          /\ UNCHANGED <<published, memory, loaded, retained>>
     ELSE /\ ReleaseGraph(s)
          /\ tombstone' = [slot |-> s, next |-> "sample", by |-> caller]
          /\ UNCHANGED <<workspaces, watching>>
  /\ UNCHANGED <<state, pinned, cancelled, midIteration, inFlight, reserved>>

\* The rest of it.  What reads or writes the slot without workspaces.read()
\* can land between any two of these steps.
TombstoneSamples ==
  LET s == tombstone.slot IN
  /\ tombstone.next = "sample"
  /\ midIteration' = [midIteration EXCEPT ![s] = state[s] = "Rebuilding"]
  /\ tombstone' = [tombstone EXCEPT !.next = "cancel"]
  /\ UNCHANGED <<workspaces, doomed, state, published, memory, pinned, cancelled,
                 inFlight, watching, ledgerVars, taskVars, held>>

TombstoneCancels ==
  /\ tombstone.next = "cancel"
  /\ cancelled' = [cancelled EXCEPT ![tombstone.slot] = TRUE]
  /\ tombstone' = [tombstone EXCEPT !.next = "store"]
  /\ UNCHANGED <<workspaces, doomed, state, published, memory, pinned,
                 midIteration, inFlight, watching, ledgerVars, taskVars, held>>

\* stop_watcher_and_store_state(Evicted), whatever the state has become.
TombstoneStores ==
  LET s == tombstone.slot IN
  /\ tombstone.next = "store"
  /\ watching' = [watching EXCEPT ![s] = FALSE]
  /\ state' = [state EXCEPT ![s] = "Evicted"]
  /\ TombstoneReturns(s, tombstone.by)
  /\ UNCHANGED <<doomed, published, memory, pinned, cancelled, midIteration,
                 inFlight, ledgerVars, taskVars, held>>

\* A reset's call of evict_to_tombstone_locked, and its own two stores after
\* it: it leaves no cancellation behind, and Unloaded.
ResetReleases ==
  /\ tombstone.next = "release"
  /\ EvictToTombstone(tombstone.slot, "reset")
  /\ UNCHANGED <<doomed, taskVars, held>>

ResetClears ==
  /\ tombstone.next = "clear"
  /\ cancelled' = [cancelled EXCEPT ![tombstone.slot] = FALSE]
  /\ tombstone' = [tombstone EXCEPT !.next = "reset"]
  /\ UNCHANGED <<workspaces, doomed, state, published, memory, pinned,
                 midIteration, inFlight, watching, ledgerVars, taskVars, held>>

ResetStores ==
  LET s == tombstone.slot IN
  /\ tombstone.next = "reset"
  /\ watching' = [watching EXCEPT ![s] = FALSE]
  /\ state' = [state EXCEPT ![s] = "Unloaded"]
  /\ tombstone' = NoTombstone
  /\ UNCHANGED <<workspaces, doomed, published, memory, pinned, cancelled,
                 midIteration, inFlight, ledgerVars, taskVars, held>>

WriteTombstone ==
  \/ TombstoneSamples \/ TombstoneCancels \/ TombstoneStores
  \/ ResetReleases \/ ResetClears \/ ResetStores

\* execute_eviction: whatever is registered under the key now.
ExecuteEviction(k, caller) ==
  /\ WriteLockFree
  /\ IF workspaces[k] \in Slot
     THEN EvictToTombstone(workspaces[k], caller)
     ELSE UNCHANGED <<workspaces, tombstone, slotVars, ledgerVars>>

EvictLruPick(k) ==
  /\ "evict_lru" \in Calls
  /\ ReadLockFree
  /\ k \notin doomed
  /\ workspaces[k] \in Slot
  /\ ~pinned[workspaces[k]]
  /\ HoldsEvictableGraph(workspaces[k])
  /\ doomed' = doomed \cup {k}
  /\ UNCHANGED <<workspaces, tombstone, slotVars, ledgerVars, taskVars, held>>

EvictLruExecute(k) ==
  /\ k \in doomed
  /\ ExecuteEviction(k, "evict_lru")
  /\ doomed' = doomed \ {k}
  /\ UNCHANGED <<taskVars, held>>

\* daemon/unload: evict and remove from the map in one write section.
Unload(k) ==
  /\ "unload" \in Calls
  /\ workspaces[k] \in Slot
  /\ ExecuteEviction(k, "unload")
  /\ UNCHANGED <<doomed, taskVars, held>>

\* daemon/reset with a runner holding the role: only the cancellation is
\* dispatched.  With none, the slot is emptied and left Unloaded.
ResetCancels(k) ==
  LET s == workspaces[k] IN
  /\ "reset" \in Calls
  /\ WriteLockFree
  /\ s \in Slot
  /\ state[s] # "Loading"
  /\ inFlight[s]
  /\ cancelled' = [cancelled EXCEPT ![s] = TRUE]
  /\ UNCHANGED <<mapVars, state, published, memory, pinned, midIteration,
                 inFlight, watching, ledgerVars, taskVars, held>>

ResetEmpties(k) ==
  LET s == workspaces[k] IN
  /\ "reset" \in Calls
  /\ WriteLockFree
  /\ s \in Slot
  /\ state[s] # "Loading"
  /\ ~inFlight[s]
  /\ tombstone' = [slot |-> s, next |-> "release", by |-> "reset"]
  /\ UNCHANGED <<workspaces, doomed, slotVars, ledgerVars, taskVars, held>>

\* Mutant of ReapOnce: the holder count is off by one, nothing is dropped.
ReapNever == UNCHANGED retained

\* The retention reaper's tick: drop every entry whose Arc nobody else holds.
ReapOnce ==
  retained' = {e \in retained : e.graph # Placeholder /\ HeldElsewhere(e.graph)}

RetentionReaper ==
  /\ ReapOnce
  /\ UNCHANGED <<mapVars, slotVars, loaded, reserved, taskVars, held>>

(***************************************************************************)
(* The load gate (prepare_load_gate).                                      *)
(***************************************************************************)

\* The cache-hit lookup missed; the slot is found or created.  Every slot
\* is created with the pinned bit clear, whatever the configuration says.
GetOrInsert(l) ==
  LET k == LoaderKey[l] IN
  /\ pc[l] = "idle"
  /\ ReadLockFree
  /\ Goto(l, "gate")
  /\ \/ /\ workspaces[k] \in Slot
        /\ state[workspaces[k]] # "Loaded"
        /\ at' = [at EXCEPT ![l] = workspaces[k]]
        /\ UNCHANGED <<workspaces, slotVars, entry>>
     \/ /\ workspaces[k] = NoSlot
        /\ WriteLockFree
        /\ \E s \in FreshSlots(k) :
             /\ workspaces' = [workspaces EXCEPT ![k] = s]
             /\ at' = [at EXCEPT ![l] = s]
             /\ state' = [state EXCEPT ![s] = "Unloaded"]
             /\ published' = [published EXCEPT ![s] = Placeholder]
             /\ memory' = [memory EXCEPT ![s] = 0]
             /\ pinned' = [pinned EXCEPT ![s] = FALSE]
             /\ cancelled' = [cancelled EXCEPT ![s] = FALSE]
             /\ midIteration' = [midIteration EXCEPT ![s] = FALSE]
             /\ inFlight' = [inFlight EXCEPT ![s] = FALSE]
             /\ watching' = [watching EXCEPT ![s] = FALSE]
        /\ entry' = [entry EXCEPT ![l] = [NoEntry EXCEPT !.inserted = TRUE]]
  /\ UNCHANGED <<doomed, tombstone, ledgerVars, est, victims, new, old, held>>

\* enter_loading_state: win the gate from a state a load may start from, or
\* return without it.
EnterLoading(l) ==
  LET s == at[l] IN
  /\ pc[l] = "gate"
  /\ IF state[s] \in {"Unloaded", "Failed", "Evicted"}
     THEN /\ state' = [state EXCEPT ![s] = "Loading"]
          /\ entry' = [entry EXCEPT ![l] = [prior |-> state[s],
                      inserted |-> @.inserted, cancelled |-> FALSE]]
          /\ Goto(l, "entered")
          /\ UNCHANGED <<at, est, victims, new, old>>
     ELSE /\ Finish(l)
          /\ UNCHANGED state
  /\ UNCHANGED <<mapVars, published, memory, pinned, cancelled, midIteration,
                 inFlight, watching, ledgerVars, held>>

\* GateEntry.prior_cancelled, read after the exchange and before the flag is
\* honoured.
ObserveCancel(l) ==
  /\ pc[l] = "entered"
  /\ entry' = [entry EXCEPT ![l] = [prior |-> @.prior,
               inserted |-> @.inserted, cancelled |-> cancelled[at[l]]]]
  /\ Goto(l, "observed")
  /\ UNCHANGED <<mapVars, slotVars, ledgerVars, at, est, victims, new, old, held>>

\* The eviction's runner has not read its cancellation yet.
EvictedRebuildStillRunning(l) ==
  LET s == at[l] IN
  entry[l].prior = "Evicted" /\ inFlight[s] /\ midIteration[s] /\ cancelled[s]

\* honor_preexisting_cancel, first arm: put the tombstone back and refuse.
\* It takes a runner in flight, so it is a step of RebuildDispatcher.
HonorRefuses(l) ==
  /\ pc[l] = "observed"
  /\ EvictedRebuildStillRunning(l)
  /\ TransitionState(at[l], "Loading", "Evicted")
  /\ Finish(l)
  /\ UNCHANGED <<mapVars, published, memory, pinned, cancelled, midIteration,
                 inFlight, watching, ledgerVars, held>>

\* Second arm: swap the flag away.  From a tombstone it is the completed
\* eviction's and the load goes on; from any other state it fails the load.
HonorConsumes(l) ==
  LET s == at[l] IN
  /\ pc[l] = "observed"
  /\ ~EvictedRebuildStillRunning(l)
  /\ cancelled' = [cancelled EXCEPT ![s] = FALSE]
  /\ Goto(l, IF ~cancelled[s] \/ entry[l].prior = "Evicted"
             THEN "prepare" ELSE "rearm")
  /\ UNCHANGED <<mapVars, state, published, memory, pinned, midIteration,
                 inFlight, watching, ledgerVars, localVars, held>>

\* Third arm: the flag goes back and the gate is released to Failed.
HonorFails(l) ==
  /\ pc[l] = "rearm"
  /\ cancelled' = [cancelled EXCEPT ![at[l]] = TRUE]
  /\ TransitionState(at[l], "Loading", "Failed")
  /\ Finish(l)
  /\ UNCHANGED <<mapVars, published, memory, pinned, midIteration, inFlight,
                 watching, ledgerVars, held>>

(***************************************************************************)
(* The rest of a load (load_published, reload_from_disk_read_only).        *)
(***************************************************************************)

\* prepare_build resolves the inputs, or refuses: the caller's own request
\* is abandoned, a bad on-disk index fails the load.
Prepare(l) ==
  /\ pc[l] = "prepare"
  /\ \E p \in {"reserve", "abandon", "fail"} : Goto(l, p)
  /\ UNCHANGED <<mapVars, slotVars, ledgerVars, localVars, held>>

\* abandon_load: leave the slot as the gate found it, if this load still
\* owns the gate.
AbandonLoad(l) ==
  LET s == at[l]
      e == entry[l]
      owns == state[s] = "Loading" IN
  /\ pc[l] = "abandon"
  /\ WriteLockFree
  /\ TransitionState(s, "Loading", e.prior)
  /\ cancelled' = [cancelled EXCEPT
                     ![s] = @ \/ (owns /\ e.prior = "Evicted" /\ e.cancelled)]
  /\ workspaces' =
       IF owns /\ e.inserted /\ e.prior = "Unloaded" /\ Registers(s)
       THEN [workspaces EXCEPT ![KeyOf[s]] = NoSlot]
       ELSE workspaces
  /\ Finish(l)
  /\ UNCHANGED <<doomed, tombstone, published, memory, pinned, midIteration,
                 inFlight, watching, ledgerVars, held>>

\* Mutant of FailLoad: no guard releases the gate.
FailLoadKeepsGate(l) ==
  /\ pc[l] = "fail"
  /\ Finish(l)
  /\ UNCHANGED <<mapVars, slotVars, ledgerVars, held>>

\* record_failure and the exchange to Failed; the LoadingGuard does the same
\* for a load that unwinds or returns early.
FailLoad(l) ==
  /\ pc[l] = "fail"
  /\ TransitionState(at[l], "Loading", "Failed")
  /\ Finish(l)
  /\ UNCHANGED <<mapVars, published, memory, pinned, cancelled, midIteration,
                 inFlight, watching, ledgerVars, held>>

\* The prepared build and the compaction of its edges.  On an error or a
\* panic the reservation is refunded.
Build(l) ==
  /\ pc[l] = "build"
  /\ \/ /\ \E g \in FreshGraphs, b \in Sizes :
             new' = [new EXCEPT ![l] = [graph |-> g, bytes |-> b]]
        /\ Goto(l, "publish")
        /\ UNCHANGED reserved
     \/ /\ \E p \in {"abandon", "fail"} : Goto(l, p)
        /\ reserved' = SatSub(reserved, est[l])
        /\ UNCHANGED new
  /\ UNCHANGED <<mapVars, slotVars, loaded, retained, at, entry, est, victims,
                 old, held>>

\* The post-build oversize gate of publish_and_retain: the replaced bytes do
\* not count, other workspaces' reservations neither.
Oversize(t) ==
  SatSub(loaded, memory[at[t]]) + RetainedTotal + new[t].bytes > Limit

\* The re-check under workspaces.read(): publish, or refund and fail.
LoadRecheck(l) ==
  LET s == at[l]
      admitted == ~cancelled[s] /\ Registers(s) /\ ~Oversize(l) IN
  /\ pc[l] = "publish"
  /\ ReadLockFree
  /\ Goto(l, IF admitted THEN "swap" ELSE "fail")
  /\ reserved' = IF admitted THEN reserved ELSE SatSub(reserved, est[l])
  /\ new' = IF admitted THEN new ELSE [new EXCEPT ![l] = NoNew]
  /\ UNCHANGED <<mapVars, slotVars, loaded, retained, at, entry, est, victims,
                 old, held>>

\* record_success, the unconditional store of Loaded, and the release of
\* workspaces.read().
StoreLoaded(l) ==
  /\ l \in Loader
  /\ pc[l] = "store"
  /\ state' = [state EXCEPT ![at[l]] = "Loaded"]
  /\ Finish(l)
  /\ UNCHANGED <<mapVars, published, memory, pinned, cancelled, midIteration,
                 inFlight, watching, ledgerVars, held>>

(***************************************************************************)
(* reserve_rebuild, shared by loaders and runners.                         *)
(***************************************************************************)

\* Where a task goes when the reservation reports the workspace evicted, or
\* the budget exceeded.
OnEvicted(t) == IF t \in Loader THEN {"fail", "abandon"} ELSE {"cancelled"}
OnBudget(t)  == IF t \in Loader THEN "abandon" ELSE "refuse"

EvictionCandidates(k) ==
  {v \in Key \ {k} : /\ workspaces[v] \in Slot
                     /\ ~pinned[workspaces[v]]
                     /\ HoldsEvictableGraph(workspaces[v])}

\* plan_eviction: a shortest prefix, in some LRU order, of the candidates
\* that reclaims what is needed, or all of them when they are not enough.
EvictionPlans(k, need) ==
  LET bytes(V) == MapThenSumSet(LAMBDA v : memory[workspaces[v]], V) IN
  {V \in SUBSET EvictionCandidates(k) :
     /\ bytes(V) >= need \/ V = EvictionCandidates(k)
     /\ V # {} => \E last \in V : bytes(V \ {last}) < need}

\* Phase 1, under workspaces.read() and admission.  The membership and
\* cancellation checks are of the slot registered under the key.
ReservePlan(t) ==
  LET k == KeyOf[at[t]] IN
  /\ pc[t] = "reserve"
  /\ ReadLockFree
  /\ IF workspaces[k] = NoSlot \/ (workspaces[k] \in Slot /\ cancelled[workspaces[k]])
     THEN /\ \E p \in OnEvicted(t) : Goto(t, p)
          /\ UNCHANGED <<est, victims>>
     ELSE \E e \in Estimates :
            LET projected == TotalCommitted + e IN
            /\ est' = [est EXCEPT ![t] = e]
            /\ IF projected <= Limit
               THEN Goto(t, "admit") /\ UNCHANGED victims
               ELSE \E V \in EvictionPlans(k, projected - Limit) :
                      /\ victims' = [victims EXCEPT ![t] = V]
                      /\ Goto(t, IF V = {} THEN "admit" ELSE "evict")
  /\ UNCHANGED <<mapVars, slotVars, ledgerVars, at, entry, new, old, held>>

\* Phase 2: one victim at a time, no lock held in between.
ReserveEvict(t) ==
  /\ pc[t] = "evict"
  /\ \E k \in victims[t] :
       /\ ExecuteEviction(k, t)
       /\ victims' = [victims EXCEPT ![t] = @ \ {k}]
       /\ Goto(t, IF victims[t] = {k} THEN "reap" ELSE "evict")
  /\ UNCHANGED <<doomed, at, entry, est, new, old, held>>

\* Phase 2.5: the opportunistic reap, when its last eviction is over.
ReserveReap(t) ==
  /\ pc[t] = "reap"
  /\ tombstone.by # t
  /\ ReapOnce
  /\ Goto(t, "admit")
  /\ UNCHANGED <<mapVars, slotVars, loaded, reserved, localVars, held>>

\* Phase 3: the authoritative commit, under admission alone.
ReserveAdmit(t) ==
  /\ pc[t] = "admit"
  /\ IF TotalCommitted + est[t] > Limit
     THEN /\ Goto(t, OnBudget(t))
          /\ UNCHANGED reserved
     ELSE /\ Goto(t, "build")
          /\ reserved' = reserved + est[t]
  /\ UNCHANGED <<mapVars, slotVars, loaded, retained, localVars, held>>

Reserve(t) ==
  ReservePlan(t) \/ ReserveEvict(t) \/ ReserveReap(t) \/ ReserveAdmit(t)

(***************************************************************************)
(* publish_and_retain after its oversize gate, shared by both kinds of     *)
(* task.  The task holds workspaces.read() throughout.                     *)
(***************************************************************************)
PublishSwap(t) ==
  LET s == at[t] IN
  /\ pc[t] = "swap"
  /\ old' = [old EXCEPT ![t] = [graph |-> published[s],
                                prior |-> memory[s], prev |-> 0]]
  /\ published' = [published EXCEPT ![s] = new[t].graph]
  /\ Goto(t, "memory")
  /\ UNCHANGED <<mapVars, state, memory, pinned, cancelled, midIteration,
                 inFlight, watching, ledgerVars, at, entry, est, victims, new,
                 held>>

PublishMemory(t) ==
  LET s == at[t] IN
  /\ pc[t] = "memory"
  /\ old' = [old EXCEPT ![t] = [graph |-> @.graph, prior |-> @.prior,
                                prev |-> memory[s]]]
  /\ memory' = [memory EXCEPT ![s] = new[t].bytes]
  /\ Goto(t, "commit")
  /\ UNCHANGED <<mapVars, state, published, pinned, cancelled, midIteration,
                 inFlight, watching, ledgerVars, at, entry, est, victims, new,
                 held>>

PublishCommit(t) ==
  /\ pc[t] = "commit"
  /\ retained' = Retain(old[t].graph, old[t].prev)
  /\ reserved' = SatSub(reserved, est[t])
  /\ loaded' = SatSub(loaded, old[t].prev) + new[t].bytes
  /\ Goto(t, "store")
  /\ UNCHANGED <<mapVars, slotVars, localVars, held>>

\* The one fallible operation of the commit, the insertion of the retained
\* entry, unwinds: RollbackGuard restores the slot, the reservation refunds.
PublishUnwind(t) ==
  LET s == at[t] IN
  /\ MayUnwind
  /\ pc[t] = "commit"
  /\ published' = [published EXCEPT ![s] = old[t].graph]
  /\ memory' = [memory EXCEPT ![s] = old[t].prior]
  /\ reserved' = SatSub(reserved, est[t])
  /\ Goto(t, IF t \in Loader THEN "fail" ELSE "unwound")
  /\ new' = [new EXCEPT ![t] = NoNew]
  /\ old' = [old EXCEPT ![t] = NoOld]
  /\ UNCHANGED <<mapVars, state, pinned, cancelled, midIteration, inFlight,
                 watching, loaded, retained, at, entry, est, victims, held>>

PublishAndRetain(t) ==
  PublishSwap(t) \/ PublishMemory(t) \/ PublishCommit(t) \/ PublishUnwind(t)

(***************************************************************************)
(* Queries: classify_for_serve answers with the published graph, which the *)
(* query then holds for as long as it runs.                                *)
(***************************************************************************)
Served(s) ==
  \/ state[s] \in {"Loaded", "Rebuilding"}
  \/ state[s] = "Failed" /\ published[s] # Placeholder

ServeGraph(r, k) ==
  /\ held[r] = Placeholder
  /\ ReadLockFree
  /\ workspaces[k] \in Slot
  /\ Served(workspaces[k])
  /\ published[workspaces[k]] # Placeholder
  /\ held' = [held EXCEPT ![r] = published[workspaces[k]]]
  /\ UNCHANGED <<mapVars, slotVars, ledgerVars, taskVars>>

ReleaseReader(r) ==
  /\ held[r] # Placeholder
  /\ held' = [held EXCEPT ![r] = Placeholder]
  /\ UNCHANGED <<mapVars, slotVars, ledgerVars, taskVars>>

-----------------------------------------------------------------------------
Init ==
  /\ workspaces = [k \in Key |-> NoSlot]
  /\ state = [s \in Slot |-> "Unloaded"]
  /\ published = [s \in Slot |-> Placeholder]
  /\ memory = [s \in Slot |-> 0]
  /\ pinned = [s \in Slot |-> FALSE]
  /\ cancelled = [s \in Slot |-> FALSE]
  /\ midIteration = [s \in Slot |-> FALSE]
  /\ inFlight = [s \in Slot |-> FALSE]
  /\ watching = [s \in Slot |-> FALSE]
  /\ loaded = 0
  /\ reserved = 0
  /\ retained = {}
  /\ doomed = {}
  /\ tombstone = NoTombstone
  /\ held = [r \in Reader |-> Placeholder]
  /\ pc = [t \in Task |-> "idle"]
  /\ at = [t \in Task |-> NoSlot]
  /\ entry = [t \in Task |-> NoEntry]
  /\ est = [t \in Task |-> 0]
  /\ victims = [t \in Task |-> {}]
  /\ new = [t \in Task |-> NoNew]
  /\ old = [t \in Task |-> NoOld]

LoadStep(l) ==
  \/ EnterLoading(l) \/ ObserveCancel(l)
  \/ HonorConsumes(l) \/ HonorFails(l)
  \/ Prepare(l) \/ AbandonLoad(l) \/ FailLoad(l) \/ Build(l)
  \/ LoadRecheck(l) \/ StoreLoaded(l)
  \/ Reserve(l) \/ PublishAndRetain(l)

Environment ==
  \/ \E l \in Loader : GetOrInsert(l)
  \/ \E k \in Key : EvictLruPick(k) \/ Unload(k) \/ ResetEmpties(k)
  \/ \E r \in Reader, k \in Key : ServeGraph(r, k)

Next ==
  \/ \E l \in Loader : LoadStep(l)
  \/ \E k \in Key : EvictLruExecute(k)
  \/ WriteTombstone
  \/ \E r \in Reader : ReleaseReader(r)
  \/ RetentionReaper
  \/ Environment

Spec == Init /\ [][Next]_managerVars

\* A load runs on its own thread, an eviction call runs to its end, a query
\* returns, and the reaper ticks every 25 ms.  Nothing obliges anyone to ask
\* for a load, an eviction, a reset or a query.
Fairness ==
  /\ \A l \in Loader : WF_managerVars(LoadStep(l))
  /\ \A k \in Key : WF_managerVars(EvictLruExecute(k))
  /\ WF_managerVars(WriteTombstone)
  /\ \A r \in Reader : WF_managerVars(ReleaseReader(r))
  /\ WF_managerVars(RetentionReaper)

FairSpec == Spec /\ Fairness

-----------------------------------------------------------------------------
(***************************************************************************)
(* Properties.                                                             *)
(***************************************************************************)
Bytes == Nat

MapTypeOK ==
  /\ workspaces \in [Key -> Slot \cup {NoSlot}]
  /\ \A k \in Key : workspaces[k] \in Slot => KeyOf[workspaces[k]] = k
  /\ doomed \subseteq Key
  /\ \/ tombstone = NoTombstone
     \/ tombstone \in [slot : Slot, next : TombstoneStep,
                       by : TombstoneCall \cup Task]

SlotTypeOK ==
  /\ state \in [Slot -> State]
  /\ published \in [Slot -> Graph \cup {Placeholder}]
  /\ memory \in [Slot -> Bytes]
  /\ pinned \in [Slot -> BOOLEAN]
  /\ cancelled \in [Slot -> BOOLEAN]
  /\ midIteration \in [Slot -> BOOLEAN]
  /\ inFlight \in [Slot -> BOOLEAN]
  /\ watching \in [Slot -> BOOLEAN]

LedgerTypeOK ==
  /\ loaded \in Bytes
  /\ reserved \in Bytes
  /\ retained \subseteq [graph : Graph \cup {Placeholder}, bytes : Bytes]

TaskTypeOK ==
  /\ pc \in [Task -> PC]
  /\ at \in [Task -> Slot \cup {NoSlot}]
  /\ entry \in [Task -> [prior : State, inserted : BOOLEAN, cancelled : BOOLEAN]]
  /\ est \in [Task -> Bytes]
  /\ victims \in [Task -> SUBSET Key]
  /\ new \in [Task -> [graph : Graph \cup {Placeholder}, bytes : Bytes]]
  /\ old \in [Task -> [graph : Graph \cup {Placeholder}, prior : Bytes, prev : Bytes]]

TypeOK ==
  /\ MapTypeOK /\ SlotTypeOK /\ LedgerTypeOK /\ TaskTypeOK
  /\ held \in [Reader -> Graph \cup {Placeholder}]

\* What classify_for_serve snapshots under workspaces.read(): a slot says
\* Loaded only over a generation, so no query is answered from the empty
\* graph an eviction leaves, nor with the internal error for it.  It is about
\* commits that do not unwind: an unwound runner gives up its role before its
\* state (DispatcherUnwound.cfg).
LoadedHasGeneration ==
  \A s \in Slot :
    ReadLockFree /\ state[s] = "Loaded" => published[s] # Placeholder

\* A tombstone holds nothing: outside a publication in progress, an Evicted
\* slot serves the placeholder and is charged no bytes, whoever raced it.
TombstoneIsBare ==
  \A s \in Slot :
    /\ state[s] = "Evicted"
    /\ \A t \in Task : at[t] = s => pc[t] \notin PublishPC
    => published[s] = Placeholder /\ memory[s] = 0

\* A slot out of the map holds nothing either: what daemon/unload or an
\* abandoned load removed can hold no graph nobody could evict any more.
UnregisteredIsBare ==
  \A s \in Slot \ Registered : published[s] = Placeholder /\ memory[s] = 0

\* The inductive invariant behind the last three, when no commit unwinds: a
\* task knows its slot, carries a built graph to its publication, publishes
\* into a registered slot, and nothing but Loaded or a publication past its
\* swap stands over a generation.
TaskHasSlot ==
  /\ \A t \in Task : pc[t] # "idle" => at[t] \in Slot
  /\ \A r \in Runner : pc[r] = "idle"

EntryIsLoadable ==
  \A t \in Task : entry[t].prior \in {"Unloaded", "Failed", "Evicted"}

GraphIsBuilt ==
  \A t \in Task : pc[t] \in {"publish", "swap"} => new[t].graph \in Graph

Bare(s) == published[s] = Placeholder /\ memory[s] = 0

\* A tombstone is written for a registered slot, with no publication in
\* progress, and the slot is bare from the first step on.
TombstoneIsAlone ==
  ~ReadLockFree =>
    /\ Registers(tombstone.slot)
    /\ \A t \in Task : pc[t] \notin PublishPC
    /\ tombstone.next # "release" => Bare(tombstone.slot)

PublishesIntoMap == \A t \in Task : pc[t] \in PublishPC => Registers(at[t])

PastSwap(s) == \E t \in Task : at[t] = s /\ pc[t] \in PublishPC \ {"swap"}

SwapIsVisible == \A s \in Slot : PastSwap(s) => published[s] # Placeholder

OnlyLoadedHolds == \A s \in Slot : state[s] # "Loaded" /\ ~PastSwap(s) => Bare(s)

LoadedIsRegistered == \A s \in Slot : state[s] = "Loaded" => Registers(s)

LoadedStands ==
  \A s \in Slot :
    state[s] = "Loaded" /\ tombstone.slot # s => published[s] # Placeholder

Residency ==
  /\ TombstoneIsAlone
  /\ PublishesIntoMap
  /\ SwapIsVisible
  /\ OnlyLoadedHolds
  /\ LoadedIsRegistered
  /\ LoadedStands

ResidencyInv ==
  TypeOK /\ TaskHasSlot /\ EntryIsLoadable /\ GraphIsBuilt /\ Residency

\* A task whose reservation is live: taken by phase 3, given back by the
\* commit or by the reservation's Drop.
HoldsReservation(t) == pc[t] \in {"build", "publish", "swap", "memory", "commit"}

Reserving  == {t \in Task : HoldsReservation(t)}
Committing == {t \in Task : pc[t] = "commit"}

SumOf(f, S) == MapThenSumSet(LAMBDA x : f[x], S)

\* The ledger (admission.rs, G.5): reserved_bytes is the sum of the live
\* reservations, and loaded_bytes the sum of memory_bytes over the slots, up
\* to the publications between their memory update and their commit.  The
\* second holds while one task at a time publishes into a slot.
ReservedExact == reserved = SumOf(est, Reserving)

LoadedExact ==
  loaded + SumOf([t \in Task |-> new[t].bytes], Committing)
    = SumOf(memory, Slot) + SumOf([t \in Task |-> old[t].prev], Committing)

LedgerExact == ReservedExact /\ LoadedExact

\* A graph a query still holds stays on the books: it is some slot's current
\* generation, or a retained entry that is charged bytes, or on its way there.
HeldGraphsAreCharged ==
  \A r \in Reader :
    held[r] # Placeholder =>
      \/ \E s \in Slot : published[s] = held[r]
      \/ \E e \in retained : e.graph = held[r] /\ e.bytes > 0
      \/ \E t \in Task : pc[t] \in {"memory", "commit"} /\ old[t].graph = held[r]

\* The gate is never left shut: a slot in Loading has a loader that will
\* open it.
LoadingHasOwner ==
  \A s \in Slot :
    state[s] = "Loading" =>
      \E l \in Loader : at[l] = s /\ pc[l] \notin {"idle", "gate"}

\* The configuration's promise: a workspace declared pinned is LRU exempt,
\* so no reservation plans its eviction.
PinnedIsExempt ==
  \A t \in Task : victims[t] \cap PinnedInConfig = {}

\* Every load ends: no slot stays in Loading.
LoadingEnds ==
  \A s \in Slot : state[s] = "Loading" ~> state[s] # "Loading"

\* Retained bytes come back: an entry does not stay on the books forever
\* once queries let go.
RetainedDrains == \A g \in Graph :
  (\E e \in retained : e.graph = g) ~> (\A e \in retained : e.graph # g)
=============================================================================
