------------------------- MODULE RebuildDispatcher -------------------------
(***************************************************************************)
(* The rebuild dispatcher (src/sqry-daemon/src/rebuild.rs) over the        *)
(* registry of module WorkspaceManager.                                    *)
(*                                                                         *)
(* A request (a watcher's change set, daemon/rebuild, rebuild_index) finds *)
(* its slot, locks the slot's rebuild lane, and either takes the runner    *)
(* role or parks its entry for the runner that holds it.  The runner       *)
(* drains: cancellation gate, one iteration, answer the callers, next      *)
(* entry, until it releases the role under the lane.                       *)
(*                                                                         *)
(* A Runner is a request and, when it takes the role, the task that        *)
(* drains.  An explicit caller waits for `answer`, on its own; a watcher   *)
(* waits for nothing.                                                      *)
(*                                                                         *)
(* Granularity.  One action is one critical section of the lane, one       *)
(* atomic operation on the slot, or one step of reserve_rebuild and        *)
(* publish_and_retain.  A request that parks keeps the lane between its    *)
(* failed exchange and its store (LaneFree).                               *)
(*                                                                         *)
(* Abstractions.  Change sets, git baselines and the requester's refusal   *)
(* policy are left out: they choose what is built.  Macro build options    *)
(* are kept, since they decide which requests may share an iteration.  The *)
(* second reservation a persist may take under its lock is left out.       *)
(***************************************************************************)
EXTENDS WorkspaceManager, PendingRebuild

VARIABLES
  lane,          \* rebuild_lane: the parked entry of each slot
  current,       \* the entry each draining runner is about to run or runs
  asked,         \* what each request asked for
  answer,        \* what each explicit caller's RebuildOutcome resolved to
  outcome,       \* last_result of each draining runner
  watchDue       \* keys whose load was answered: start_watching comes next

dispatcherVars == <<lane, current, asked, answer, outcome, watchDue>>
vars == <<managerVars, dispatcherVars>>

Pending == [waiters : SUBSET Runner, opts : Options \cup {NoOptions}]
Outcome == {"published", "refused", "failed", "evicted", "internal"}
Answer  == Outcome \cup {"none", "pending"}

ASSUME LaneAssumption == NoPending \notin Pending

\* Mutant of LaneFree: nobody waits for the lane.
LaneIgnored(s) == TRUE

\* A caller of handle_changes or handle_changes_for holds the lane from its
\* failed exchange to its store, and a reset to the end of its tombstone.
LaneFree(s) ==
  /\ \A r \in Runner : pc[r] = "park" => at[r] # s
  /\ ~(tombstone.by = "reset" /\ tombstone.slot = s)

Incoming(r) == EntryOf(r, asked[r])

\* Mutant of Deliver: the waiters are dropped unanswered.
DeliverToNobody(W, o) == UNCHANGED answer

\* RebuildWaiters::deliver to every caller merged into an entry.
Deliver(W, o) == answer' = [q \in Runner |-> IF q \in W THEN o ELSE answer[q]]

IsServing(s) == state[s] \in {"Loaded", "Rebuilding", "Failed"}

(***************************************************************************)
(* Phase A: acquire_or_park_unless_stopped.                                *)
(***************************************************************************)

\* The lookup, which resolves the slot the request then works on.  A change
\* set comes from a watcher whose stop signal was clear.
Lookup(r, k) ==
  /\ pc[r] = "idle"
  /\ answer[r] # "pending"
  /\ ReadLockFree
  /\ workspaces[k] \in Slot
  /\ \E q \in Request :
       /\ ~q.explicit => q.opts = NoOptions /\ watching[workspaces[k]]
       /\ asked' = [asked EXCEPT ![r] = q]
       /\ answer' = [answer EXCEPT ![r] = IF q.explicit THEN "pending" ELSE "none"]
  /\ at' = [at EXCEPT ![r] = workspaces[k]]
  /\ Goto(r, "acquire")
  /\ UNCHANGED <<mapVars, slotVars, ledgerVars, entry, est, victims, new, old,
                 held, lane, current, outcome, watchDue>>

\* Refused under the lane, before anything parks: a stopped watcher, a
\* workspace an explicit caller may not rebuild, options that do not merge.
Refused(r) ==
  LET s == at[r] IN
  \/ ~asked[r].explicit /\ ~watching[s]
  \/ asked[r].explicit /\ ~IsServing(s)
  \/ lane[s] # NoPending /\ ~MergesWith(lane[s], Incoming(r))

RefuseRequest(r) ==
  /\ pc[r] = "acquire"
  /\ LaneFree(at[r])
  /\ Refused(r)
  /\ Deliver(Incoming(r).waiters, "refused")
  /\ Finish(r)
  /\ UNCHANGED <<mapVars, slotVars, ledgerVars, held, lane, current, asked,
                 outcome, watchDue>>

\* The exchange of rebuild_in_flight: the runner role, or the lane is kept
\* for Park.
Acquire(r) ==
  LET s == at[r] IN
  /\ pc[r] = "acquire"
  /\ LaneFree(s)
  /\ ~Refused(r)
  /\ IF inFlight[s]
     THEN /\ Goto(r, "park")
          /\ UNCHANGED <<inFlight, current, lane>>
     ELSE /\ Goto(r, "drain")
          /\ inFlight' = [inFlight EXCEPT ![s] = TRUE]
          /\ current' = [current EXCEPT ![r] = AddTo(lane[s], Incoming(r))]
          /\ lane' = [lane EXCEPT ![s] = NoPending]
  /\ UNCHANGED <<mapVars, state, published, memory, pinned, cancelled,
                 midIteration, watching, ledgerVars, localVars, held, asked,
                 answer, outcome, watchDue>>

Park(r) ==
  /\ pc[r] = "park"
  /\ lane' = [lane EXCEPT ![at[r]] = AddTo(@, Incoming(r))]
  /\ Finish(r)
  /\ UNCHANGED <<mapVars, slotVars, ledgerVars, held, current, asked, answer,
                 outcome, watchDue>>

(***************************************************************************)
(* Phase B: drain.                                                         *)
(***************************************************************************)

\* take_cancellation: after a completed eviction the flag is reported and
\* left set; any other is consumed.
Gate(r) ==
  LET s == at[r] IN
  /\ pc[r] = "drain"
  /\ Goto(r, IF cancelled[s] THEN "consumed"
             ELSE IF current[r] = NoPending THEN "release" ELSE "enter")
  /\ cancelled' = [cancelled EXCEPT ![s] = @ /\ state[s] = "Evicted"]
  /\ UNCHANGED <<mapVars, state, published, memory, pinned, midIteration,
                 inFlight, watching, ledgerVars, localVars, held,
                 dispatcherVars>>

\* The runner leaves: its locals are dropped.
EndDrain(r) ==
  /\ Finish(r)
  /\ current' = [current EXCEPT ![r] = NoPending]
  /\ outcome' = [outcome EXCEPT ![r] = "internal"]

\* A cancellation was pending.  Under the lane: tell everyone, release the
\* role, leave Rebuilding.
CancelDrain(r) ==
  LET s == at[r] IN
  /\ pc[r] = "consumed"
  /\ LaneFree(s)
  /\ Deliver(Waiters(current[r]) \cup Waiters(lane[s]), "evicted")
  /\ lane' = [lane EXCEPT ![s] = NoPending]
  /\ inFlight' = [inFlight EXCEPT ![s] = FALSE]
  /\ TransitionState(s, "Rebuilding", "Unloaded")
  /\ EndDrain(r)
  /\ UNCHANGED <<mapVars, published, memory, pinned, cancelled, midIteration,
                 watching, ledgerVars, held, asked, watchDue>>

\* Release the role under the lane, unless a request parked or a
\* cancellation arrived since the gate.
Release(r) ==
  LET s == at[r] IN
  /\ pc[r] = "release"
  /\ LaneFree(s)
  /\ IF lane[s] # NoPending \/ cancelled[s]
     THEN /\ current' = [current EXCEPT ![r] = lane[s]]
          /\ lane' = [lane EXCEPT ![s] = NoPending]
          /\ Goto(r, "drain")
          /\ UNCHANGED <<inFlight, localVars, outcome>>
     ELSE /\ inFlight' = [inFlight EXCEPT ![s] = FALSE]
          /\ EndDrain(r)
          /\ UNCHANGED lane
  /\ UNCHANGED <<mapVars, state, published, memory, pinned, cancelled,
                 midIteration, watching, ledgerVars, held, asked, answer,
                 watchDue>>

\* The iteration is over: its callers are answered, then the next entry is
\* taken under the lane.
DeliverOutcome(r) ==
  /\ pc[r] = "deliver"
  /\ Deliver(Waiters(current[r]), outcome[r])
  /\ current' = [current EXCEPT ![r] = NoPending]
  /\ Goto(r, "next")
  /\ UNCHANGED <<mapVars, slotVars, ledgerVars, localVars, held, lane, asked,
                 outcome, watchDue>>

TakeNext(r) ==
  LET s == at[r] IN
  /\ pc[r] = "next"
  /\ LaneFree(s)
  /\ current' = [current EXCEPT ![r] = lane[s]]
  /\ lane' = [lane EXCEPT ![s] = NoPending]
  /\ Goto(r, "drain")
  /\ UNCHANGED <<mapVars, slotVars, ledgerVars, localVars, held, asked, answer,
                 outcome, watchDue>>

(***************************************************************************)
(* One iteration: execute_one_rebuild.                                     *)
(***************************************************************************)

\* The iteration returns `o` to the drain loop; its locals are dropped.
EndIteration(r, o) ==
  /\ Goto(r, "deliver")
  /\ outcome' = [outcome EXCEPT ![r] = o]
  /\ entry' = [entry EXCEPT ![r] = NoEntry]
  /\ est' = [est EXCEPT ![r] = 0]
  /\ victims' = [victims EXCEPT ![r] = {}]
  /\ new' = [new EXCEPT ![r] = NoNew]
  /\ old' = [old EXCEPT ![r] = NoOld]
  /\ UNCHANGED <<at, lane, current, asked, answer, watchDue>>

\* transition_state_from_any: Rebuilding, from any state but a tombstone and
\* the load gate's.  The iteration holds the generation it started from.
EnterRebuilding(r) ==
  LET s == at[r] IN
  /\ pc[r] = "enter"
  /\ \/ /\ state[s] \notin {"Evicted", "Loading"}
        /\ state' = [state EXCEPT ![s] = "Rebuilding"]
        /\ entry' = [entry EXCEPT ![r] = [@ EXCEPT !.prior = state[s]]]
        /\ old' = [old EXCEPT ![r] = [@ EXCEPT !.graph = published[s]]]
        /\ Goto(r, "inputs")
        /\ UNCHANGED <<at, est, victims, new, dispatcherVars>>
     \/ /\ state[s] \in {"Evicted", "Loading"}
        /\ EndIteration(r, IF state[s] = "Evicted" THEN "evicted" ELSE "failed")
        /\ UNCHANGED state
  /\ UNCHANGED <<mapVars, published, memory, pinned, cancelled, midIteration,
                 inFlight, watching, ledgerVars, held>>

\* Mutant of EnteredResetWorkspace: the roster is not looked at.
RosterIgnored(r) == FALSE

\* Unloaded over the placeholder is a reset workspace, which only a load
\* makes resident again.
EnteredResetWorkspace(r) ==
  entry[r].prior = "Unloaded" /\ published[at[r]] = Placeholder

RefuseReset(r) ==
  /\ pc[r] = "inputs"
  /\ EnteredResetWorkspace(r)
  /\ TransitionState(at[r], "Rebuilding", "Unloaded")
  /\ EndIteration(r, "refused")
  /\ UNCHANGED <<mapVars, published, memory, pinned, cancelled, midIteration,
                 inFlight, watching, ledgerVars, held>>

\* resolve_rebuild_inputs, before anything is reserved.
ResolveInputs(r) ==
  /\ pc[r] = "inputs"
  /\ ~EnteredResetWorkspace(r)
  /\ \E p \in {"reserve", "refuse"} : Goto(r, p)
  /\ UNCHANGED <<mapVars, slotVars, ledgerVars, localVars, held, dispatcherVars>>

\* Mutant of RefusedState: a refusal always says Loaded.
AlwaysLoaded(entered) == "Loaded"

RefusedState(entered) == IF entered = "Rebuilding" THEN "Loaded" ELSE entered

\* Mutant of RecordRefusal: the refused iteration leaves Rebuilding behind.
RefusalKeepsState(r) ==
  /\ pc[r] = "refuse"
  /\ EndIteration(r, "refused")
  /\ UNCHANGED <<mapVars, slotVars, ledgerVars, held>>

\* record_refusal: back to the state the iteration entered from.
RecordRefusal(r) ==
  /\ pc[r] = "refuse"
  /\ TransitionState(at[r], "Rebuilding", RefusedState(entry[r].prior))
  /\ EndIteration(r, "refused")
  /\ UNCHANGED <<mapVars, published, memory, pinned, cancelled, midIteration,
                 inFlight, watching, ledgerVars, held>>

\* record_and_transition_on_err: a cancellation the reservation or a pass
\* boundary observed, and any other error.
RecordCancelled(r) ==
  /\ pc[r] = "cancelled"
  /\ TransitionState(at[r], "Rebuilding", "Unloaded")
  /\ EndIteration(r, "evicted")
  /\ UNCHANGED <<mapVars, published, memory, pinned, cancelled, midIteration,
                 inFlight, watching, ledgerVars, held>>

RecordFailed(r) ==
  /\ pc[r] = "failed"
  /\ TransitionState(at[r], "Rebuilding", "Failed")
  /\ EndIteration(r, "failed")
  /\ UNCHANGED <<mapVars, published, memory, pinned, cancelled, midIteration,
                 inFlight, watching, ledgerVars, held>>

\* execute_rebuild: the complete graph is built and persisted, or the
\* reservation is refunded: refused before the persist, failed, or cancelled
\* at a pass boundary by the forwarder that polls the flag.
ExecuteRebuild(r) ==
  /\ pc[r] = "build"
  /\ \/ /\ \E g \in FreshGraphs, b \in Sizes :
             new' = [new EXCEPT ![r] = [graph |-> g, bytes |-> b]]
        /\ Goto(r, "publish")
        /\ UNCHANGED reserved
     \/ /\ \/ Goto(r, "refuse")
           \/ Goto(r, "failed")
           \/ cancelled[at[r]] /\ Goto(r, "cancelled")
        /\ reserved' = SatSub(reserved, est[r])
        /\ UNCHANGED new
  /\ UNCHANGED <<mapVars, slotVars, loaded, retained, at, entry, est, victims,
                 old, held, dispatcherVars>>

\* The re-check under workspaces.read().  A cancellation leaves Rebuilding
\* to the gate; a slot out of the map leaves it, and its flag, here.
RecheckCancelled(r) ==
  /\ pc[r] = "publish"
  /\ ReadLockFree
  /\ cancelled[at[r]]
  /\ reserved' = SatSub(reserved, est[r])
  /\ EndIteration(r, "evicted")
  /\ UNCHANGED <<mapVars, slotVars, loaded, retained, held>>

RecheckUnregistered(r) ==
  LET s == at[r] IN
  /\ pc[r] = "publish"
  /\ ReadLockFree
  /\ ~cancelled[s]
  /\ ~Registers(s)
  /\ reserved' = SatSub(reserved, est[r])
  /\ cancelled' = [cancelled EXCEPT ![s] = FALSE]
  /\ TransitionState(s, "Rebuilding", "Unloaded")
  /\ EndIteration(r, "evicted")
  /\ UNCHANGED <<mapVars, published, memory, pinned, midIteration, inFlight,
                 watching, loaded, retained, held>>

RecheckOversize(r) ==
  LET s == at[r] IN
  /\ pc[r] = "publish"
  /\ ReadLockFree
  /\ ~cancelled[s]
  /\ Registers(s)
  /\ Oversize(r)
  /\ reserved' = SatSub(reserved, est[r])
  /\ TransitionState(s, "Rebuilding", "Failed")
  /\ EndIteration(r, "failed")
  /\ UNCHANGED <<mapVars, published, memory, pinned, cancelled, midIteration,
                 inFlight, watching, loaded, retained, held>>

\* Mutant of RecheckPublishes: no re-check before the publication.
PublishUnchecked(r) ==
  /\ pc[r] = "publish"
  /\ Goto(r, "swap")
  /\ UNCHANGED <<mapVars, slotVars, ledgerVars, localVars, held,
                 dispatcherVars>>

RecheckPublishes(r) ==
  LET s == at[r] IN
  /\ pc[r] = "publish"
  /\ ReadLockFree
  /\ ~cancelled[s]
  /\ Registers(s)
  /\ ~Oversize(r)
  /\ Goto(r, "swap")
  /\ UNCHANGED <<mapVars, slotVars, ledgerVars, localVars, held,
                 dispatcherVars>>

\* The bookkeeping under the publisher's read lock: Rebuilding -> Loaded.
StoreRebuilt(r) ==
  /\ r \in Runner
  /\ pc[r] = "store"
  /\ TransitionState(at[r], "Rebuilding", "Loaded")
  /\ EndIteration(r, "published")
  /\ UNCHANGED <<mapVars, published, memory, pinned, cancelled, midIteration,
                 inFlight, watching, ledgerVars, held>>

\* DrainLoopSentinel: the drain loop unwound.  The callers of its entry see
\* their channel close; the parked ones are told, if the lane can be had.
\* The role is given up before the state is: the next runner may be in.
SentinelDrop(r) ==
  LET s == at[r]
      told == Waiters(current[r])
                \cup (IF LaneFree(s) THEN Waiters(lane[s]) ELSE {}) IN
  /\ pc[r] = "unwound"
  /\ Deliver(told, "internal")
  /\ lane' = IF LaneFree(s) THEN [lane EXCEPT ![s] = NoPending] ELSE lane
  /\ inFlight' = [inFlight EXCEPT ![s] = FALSE]
  /\ current' = [current EXCEPT ![r] = NoPending]
  /\ Goto(r, "leaving")
  /\ UNCHANGED <<mapVars, state, published, memory, pinned, cancelled,
                 midIteration, watching, ledgerVars, localVars, held, asked,
                 outcome, watchDue>>

\* Mutant of SentinelLeaves: the sentinel only gives up the role.
SentinelKeepsState(r) ==
  /\ pc[r] = "leaving"
  /\ EndDrain(r)
  /\ UNCHANGED <<mapVars, slotVars, ledgerVars, held, lane, asked, answer,
                 watchDue>>

SentinelLeaves(r) ==
  /\ pc[r] = "leaving"
  /\ TransitionState(at[r], "Rebuilding", "Failed")
  /\ EndDrain(r)
  /\ UNCHANGED <<mapVars, published, memory, pinned, cancelled, midIteration,
                 inFlight, watching, ledgerVars, held, lane, asked, answer,
                 watchDue>>

(***************************************************************************)
(* What else reaches a slot.                                               *)
(***************************************************************************)

\* daemon/cancel_rebuild: under the lane, only while a runner holds the role.
CancelRebuild(k) ==
  LET s == workspaces[k] IN
  /\ "cancel" \in Calls
  /\ s \in Slot
  /\ LaneFree(s)
  /\ inFlight[s]
  /\ cancelled' = [cancelled EXCEPT ![s] = TRUE]
  /\ UNCHANGED <<mapVars, state, published, memory, pinned, midIteration,
                 inFlight, watching, ledgerVars, taskVars, held, dispatcherVars>>

\* daemon/reset takes the lane too.
Reset(k) ==
  /\ workspaces[k] \in Slot => LaneFree(workspaces[k])
  /\ ResetCancels(k) \/ ResetEmpties(k)
  /\ UNCHANGED dispatcherVars

\* A load was answered with a resident generation; the handler's call of
\* start_watching follows, however late.
LoadAnswered(k) ==
  /\ "watch" \in Calls
  /\ workspaces[k] \in Slot
  /\ state[workspaces[k]] = "Loaded"
  /\ k \notin watchDue
  /\ watchDue' = watchDue \cup {k}
  /\ UNCHANGED <<managerVars, lane, current, asked, answer, outcome>>

\* start_watching and ensure_watching: a watcher already watching is kept,
\* and arm_watcher_stop refuses a tombstone.
StartWatching(k) ==
  LET s == workspaces[k] IN
  /\ k \in watchDue
  /\ watchDue' = watchDue \ {k}
  /\ watching' =
       IF s \in Slot
       THEN [watching EXCEPT
               ![s] = @ \/ state[s] \notin {"Evicted", "Unloaded"}]
       ELSE watching
  /\ UNCHANGED <<mapVars, state, published, memory, pinned, cancelled,
                 midIteration, inFlight, ledgerVars, taskVars, held, lane,
                 current, asked, answer, outcome>>

\* A slot object created by a load has an empty lane of its own.
LoadRequest(l) ==
  /\ GetOrInsert(l)
  /\ workspaces' # workspaces => lane[at'[l]] = NoPending
  /\ UNCHANGED dispatcherVars

-----------------------------------------------------------------------------
DispatcherInit ==
  /\ Init
  /\ lane = [s \in Slot |-> NoPending]
  /\ current = [r \in Runner |-> NoPending]
  /\ asked = [r \in Runner |-> WatcherRequest]
  /\ answer = [r \in Runner |-> "none"]
  /\ outcome = [r \in Runner |-> "internal"]
  /\ watchDue = {}

ManagerStep(t) == UNCHANGED dispatcherVars /\ (Reserve(t) \/ PublishAndRetain(t))

\* The steps that wait for the lane, the places they leave, and the others.
AtLane == {"acquire", "consumed", "release", "next"}

LaneStep(r) ==
  RefuseRequest(r) \/ Acquire(r) \/ CancelDrain(r) \/ Release(r) \/ TakeNext(r)

IterationStep(r) ==
  \/ Park(r) \/ Gate(r)
  \/ EnterRebuilding(r) \/ RefuseReset(r) \/ ResolveInputs(r)
  \/ RecordRefusal(r) \/ RecordCancelled(r) \/ RecordFailed(r)
  \/ ExecuteRebuild(r)
  \/ RecheckCancelled(r) \/ RecheckUnregistered(r) \/ RecheckOversize(r)
  \/ RecheckPublishes(r)
  \/ StoreRebuilt(r) \/ SentinelDrop(r) \/ SentinelLeaves(r)
  \/ DeliverOutcome(r)
  \/ ManagerStep(r)

\* A load finds the runner of the evicted iteration still running.
LoadMeetsRunner(l) == HonorRefuses(l) /\ UNCHANGED dispatcherVars

LoaderStep(l) == LoadMeetsRunner(l) \/ (LoadStep(l) /\ UNCHANGED dispatcherVars)

DispatcherNext ==
  \/ \E r \in Runner : LaneStep(r) \/ IterationStep(r)
  \/ \E l \in Loader : LoaderStep(l)
  \/ \E l \in Loader : LoadRequest(l)
  \/ \E r \in Runner, k \in Key : Lookup(r, k)
  \/ \E k \in Key :
       \/ CancelRebuild(k) \/ Reset(k) \/ LoadAnswered(k) \/ StartWatching(k)
       \/ (EvictLruPick(k) \/ EvictLruExecute(k) \/ Unload(k))
            /\ UNCHANGED dispatcherVars
  \/ (WriteTombstone \/ RetentionReaper) /\ UNCHANGED dispatcherVars

DispatcherSpec == DispatcherInit /\ [][DispatcherNext]_vars

\* A runner's steps run on the runtime's threads to their end; the lane is a
\* FIFO mutex, so a task that waits for it gets it.  The writer of a
\* tombstone does not wait for anything.  Nothing obliges anyone
\* to ask for a rebuild, a cancellation or a load.
DispatcherFairness ==
  /\ \A r \in Runner :
       /\ WF_vars(pc[r] \notin {"idle"} \cup AtLane /\ IterationStep(r))
       /\ SF_vars(pc[r] \in AtLane /\ LaneStep(r))
  /\ \A l \in Loader : WF_vars(pc[l] # "idle" /\ LoaderStep(l))
  /\ WF_vars(WriteTombstone /\ UNCHANGED dispatcherVars)

FairDispatcherSpec == DispatcherSpec /\ DispatcherFairness

-----------------------------------------------------------------------------
(***************************************************************************)
(* Properties.                                                             *)
(***************************************************************************)
DispatcherTypeOK ==
  /\ TypeOK
  /\ lane \in [Slot -> Pending \cup {NoPending}]
  /\ current \in [Runner -> Pending \cup {NoPending}]
  /\ asked \in [Runner -> Request]
  /\ answer \in [Runner -> Answer]
  /\ outcome \in [Runner -> Outcome]
  /\ watchDue \subseteq Key

\* What a request is to the lane: the drain loop, iterations included, is
\* one phase, and a request whose role was given up is out.
PhaseOf(r) == CASE pc[r] \in {"idle", "leaving"} -> "out"
                [] pc[r] = "acquire" -> "asking"
                [] pc[r] = "park"    -> "parking"
                [] OTHER             -> "running"

\* The dispatcher implements the lane its callers were promised: one runner
\* per workspace, no parked entry stranded, no caller answered twice, never
\* or with the outcome of options it did not ask for.
Lane == INSTANCE RebuildLane WITH
  Caller <- Runner, Workspace <- Slot, NoWorkspace <- NoSlot,
  role <- inFlight,
  where <- [r \in Runner |-> IF pc[r] = "leaving" THEN NoSlot ELSE at[r]],
  phase <- [r \in Runner |-> PhaseOf(r)]

ImplementsLane == Lane!Spec

\* No workspace is left Rebuilding with nobody to end it: some runner holds
\* the role, or an unwound one has given it up and is about to leave the
\* state.
RebuildingHasRunner ==
  \A s \in Slot :
    state[s] = "Rebuilding" =>
      inFlight[s] \/ \E r \in Runner : pc[r] = "leaving" /\ at[r] = s

\* A reset workspace is made resident by a load alone: a runner that found
\* its workspace Unloaded publishes only over a generation, whatever other
\* requests, loads and resets did before it entered.  A commit that unwinds is
\* excluded: the unwound runner's late exchange of the state takes Rebuilding
\* from the runner that has entered since, and a load its slot.
ResetStaysReset ==
  \A r \in Runner :
    pc[r] = "swap" /\ entry[r].prior = "Unloaded"
      => published[at[r]] # Placeholder

\* What evict_to_tombstone_locked's comment says of evicted_mid_iteration
\* (manager.rs:1721): a runner publishes only into the Rebuilding it entered,
\* never into a tombstone or into a slot a load has taken since.  The code does
\* not keep it, with one eviction and one load (DispatcherEvicted.cfg).
EvictionStopsIteration ==
  \A r \in Runner : pc[r] \in PublishPC => state[at[r]] = "Rebuilding"

\* Every explicit caller is answered.
CallersAreAnswered ==
  \A r \in Runner : answer[r] = "pending" ~> answer[r] # "pending"

\* No workspace stays Rebuilding.
RebuildingEnds ==
  \A s \in Slot : state[s] = "Rebuilding" ~> state[s] # "Rebuilding"

\* classify_for_serve's table: a Loaded or Rebuilding workspace has a
\* generation to serve.
ServingHasGeneration ==
  \A s \in Slot :
    state[s] \in {"Loaded", "Rebuilding"} => published[s] # Placeholder
=============================================================================
