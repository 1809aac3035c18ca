---------------------- MODULE RebuildDispatcher_proofs ----------------------
(***************************************************************************)
(* Proofs about RebuildDispatcher, for any number of workspaces, requests  *)
(* and loads, any options, and drain loops that may unwind.                *)
(*                                                                         *)
(* On every schedule the dispatcher implements RebuildLane and leaves no   *)
(* load gate shut.  While no two loads stand past the gate of one slot, no *)
(* workspace is left Rebuilding with nobody to end it; when moreover no    *)
(* commit unwinds, Loaded stands over a generation whenever the map can be *)
(* read.  One load at a time for each workspace is enough for the first    *)
(* premise.                                                                *)
(***************************************************************************)
EXTENDS RebuildDispatcher, TLAPS

(***************************************************************************)
(* The inductive invariant.                                                *)
(***************************************************************************)

\* A request in one of these places does not hold the runner role.
Away == {"idle", "acquire", "park", "leaving"}

\* A gate's or an iteration's entry remembers any state but Loading.
Entries == [prior : State \ {"Loading"}, inserted : BOOLEAN, cancelled : BOOLEAN]

TypesKept ==
  /\ pc \in [Task -> PC]
  /\ at \in [Task -> Slot \cup {NoSlot}]
  /\ state \in [Slot -> State]
  /\ cancelled \in [Slot -> BOOLEAN]
  /\ inFlight \in [Slot -> BOOLEAN]
  /\ entry \in [Task -> Entries]
  /\ lane \in [Slot -> Pending \cup {NoPending}]
  /\ current \in [Runner -> Pending \cup {NoPending}]
  /\ asked \in [Runner -> Request]
  /\ answer \in [Runner -> Answer]
  /\ outcome \in [Runner -> Outcome]

\* Whoever is past its lookup has a slot.
TaskIsPlaced == \A t \in Task : pc[t] # "idle" => at[t] \in Slot

\* Between two iterations a runner holds no entry.
HandIsEmpty ==
  \A r \in Runner : pc[r] \in {"release", "next", "leaving"} => current[r] = NoPending

\* Only a commit unwinds a drain loop.
UnwoundMay == \A r \in Runner : pc[r] \in {"unwound", "leaving"} => MayUnwind

\* The role flag of a slot is set by a runner that is still draining it: an
\* object no task works on, which a load may register anew, has it clear.
RoleIsHeld ==
  \A s \in Slot :
    inFlight[s] => \E r \in Runner : at[r] = s /\ pc[r] \notin Away

\* Conversely, whoever drains has the role of its slot, alone.
OneDrains ==
  \A r \in Runner :
    pc[r] \notin Away =>
      /\ inFlight[at[r]]
      /\ \A q \in Runner : pc[q] \notin Away /\ at[q] = at[r] => q = r

\* A reset holds the lane of the slot it empties, where no runner drains.
ResetHoldsLane ==
  /\ tombstone.next \in {"release", "clear", "reset"} => tombstone.by = "reset"
  /\ tombstone.by = "reset" => tombstone.slot \in Slot /\ ~inFlight[tombstone.slot]

DispatcherInv ==
  /\ TypesKept /\ TaskIsPlaced /\ HandIsEmpty /\ UnwoundMay /\ RoleIsHeld
  /\ OneDrains /\ LoadingHasOwner /\ ResetHoldsLane

(***************************************************************************)
(* Facts about places and entries.                                         *)
(***************************************************************************)
LEMMA Labels ==
  /\ "idle" \in PC /\ "gate" \in PC /\ "acquire" \in PC /\ "park" \in PC
  /\ "leaving" \in PC
  /\ \A p \in {"entered", "observed", "rearm", "prepare", "abandon", "fail",
               "reserve", "evict", "reap", "admit", "build", "publish", "swap",
               "memory", "commit", "store", "drain", "consumed", "release",
               "enter", "inputs", "refuse", "cancelled", "failed", "unwound",
               "deliver", "next"} : p \in PC \ Away
BY DEF PC, LoaderPC, ReservePC, PublishPC, RunnerPC, Away

LEMMA NoEntryType == NoEntry \in Entries
BY DEF NoEntry, Entries, State

\* A request's entry is an entry, and merging gives an entry.
LEMMA IncomingType ==
  ASSUME asked \in [Runner -> Request], NEW r \in Runner
  PROVE  Incoming(r) \in Pending
BY DEF Incoming, EntryOf, Request, Pending

LEMMA AddToType ==
  ASSUME NEW p \in Pending \cup {NoPending}, NEW e \in Pending
  PROVE  AddTo(p, e) \in Pending
BY DEF AddTo, CoalesceWith, Pending

\* What a request is to the lane.
LEMMA Phases ==
  ASSUME NEW r
  PROVE  /\ PhaseOf(r) = "out" <=> pc[r] \in {"idle", "leaving"}
         /\ PhaseOf(r) = "asking" <=> pc[r] = "acquire"
         /\ PhaseOf(r) = "parking" <=> pc[r] = "park"
         /\ PhaseOf(r) = "running" <=> pc[r] \notin Away
BY DEF PhaseOf, Away

(***************************************************************************)
(* The three shapes of step the lane does not see.                         *)
(***************************************************************************)

\* No slot enters Loading.
NoNewGate ==
  /\ state' \in [Slot -> State] /\ cancelled' \in [Slot -> BOOLEAN]
  /\ \A s \in Slot : state'[s] = "Loading" => state[s] = "Loading"

\* No reset begins.
NoNewReset ==
  /\ tombstone'.next \in {"release", "clear", "reset"} =>
       tombstone' = tombstone \/ tombstone'.by = "reset"
  /\ tombstone'.by = "reset" => tombstone.by = "reset" /\ tombstone'.slot = tombstone.slot

\* A runner moves inside its drain loop.
InnerStep(r) ==
  /\ UNCHANGED <<at, inFlight, lane, current, asked, answer>>
  /\ pc[r] \notin Away
  /\ \E p \in PC \ Away :
       /\ pc' = [pc EXCEPT ![r] = p]
       /\ p \in {"release", "next"} => current[r] = NoPending
       /\ p = "unwound" => MayUnwind
  /\ NoNewGate
  /\ NoNewReset
  /\ entry' \in [Task -> Entries]
  /\ outcome' \in [Runner -> Outcome]

\* A loader moves: a gate that stays or becomes shut is its own.
LoadMoves(l) ==
  /\ UNCHANGED <<inFlight, lane, current, asked, answer, outcome>>
  /\ \E p \in PC, x \in Slot \cup {NoSlot} :
       /\ pc' = [pc EXCEPT ![l] = p]
       /\ at' = [at EXCEPT ![l] = x]
       /\ p # "idle" => x \in Slot
       /\ \A s \in Slot : state'[s] = "Loading" =>
            \/ s = x /\ p \notin {"idle", "gate"}
            \/ state[s] = "Loading" /\ (at[l] # s \/ pc[l] \in {"idle", "gate"})
  /\ state' \in [Slot -> State] /\ cancelled' \in [Slot -> BOOLEAN]
  /\ entry' \in [Task -> Entries]
  /\ NoNewReset

\* Nobody moves.
OutsideStep ==
  /\ UNCHANGED <<pc, at, entry, inFlight, lane, current, asked, answer, outcome>>
  /\ NoNewGate
  /\ ResetHoldsLane'

LEMMA InnerKeeps ==
  ASSUME DispatcherInv, NEW r \in Runner, InnerStep(r)
  PROVE  DispatcherInv'
<1> USE DEF DispatcherInv
<1>1. PICK p \in PC \ Away :
        /\ pc' = [pc EXCEPT ![r] = p]
        /\ p \in {"release", "next"} => current[r] = NoPending
        /\ p = "unwound" => MayUnwind
  BY DEF InnerStep
<1>2. /\ UNCHANGED <<at, inFlight, lane, current, asked, answer>>
      /\ pc[r] \notin Away /\ NoNewGate /\ NoNewReset
      /\ entry' \in [Task -> Entries] /\ outcome' \in [Runner -> Outcome]
  BY DEF InnerStep
<1>3. r \in Task /\ r \notin Loader
  BY LoaderAssumption DEF Task
<1>4. \A t \in Task : pc'[t] = IF t = r THEN p ELSE pc[t]
  BY <1>1, <1>3 DEF TypesKept
<1>5. TypesKept'
  BY <1>1, <1>2, <1>3 DEF TypesKept, NoNewGate
<1>6. TaskIsPlaced'
  BY <1>2, <1>3, <1>4 DEF TaskIsPlaced, Away
<1>7. HandIsEmpty' /\ UnwoundMay'
  BY <1>1, <1>2, <1>4 DEF HandIsEmpty, UnwoundMay, Task, Away
<1>8. RoleIsHeld'
  BY <1>1, <1>2, <1>4 DEF RoleIsHeld, Task
<1>9. LoadingHasOwner'
  BY <1>2, <1>3, <1>4 DEF LoadingHasOwner, NoNewGate, Task
<1>10. OneDrains'
  BY <1>1, <1>2, <1>4 DEF OneDrains, Task
<1>11. ResetHoldsLane'
  BY <1>2 DEF ResetHoldsLane, NoNewReset
<1> QED BY <1>5, <1>6, <1>7, <1>8, <1>9, <1>10, <1>11

LEMMA LoadKeeps ==
  ASSUME DispatcherInv, NEW l \in Loader, LoadMoves(l)
  PROVE  DispatcherInv'
<1> USE DEF DispatcherInv
<1>1. PICK p \in PC, x \in Slot \cup {NoSlot} :
        /\ pc' = [pc EXCEPT ![l] = p]
        /\ at' = [at EXCEPT ![l] = x]
        /\ p # "idle" => x \in Slot
        /\ \A s \in Slot : state'[s] = "Loading" =>
             \/ s = x /\ p \notin {"idle", "gate"}
             \/ state[s] = "Loading" /\ (at[l] # s \/ pc[l] \in {"idle", "gate"})
  BY DEF LoadMoves
<1>2. /\ UNCHANGED <<inFlight, lane, current, asked, answer, outcome>>
      /\ state' \in [Slot -> State] /\ cancelled' \in [Slot -> BOOLEAN]
      /\ entry' \in [Task -> Entries] /\ NoNewReset
  BY DEF LoadMoves
<1>3. l \in Task /\ l \notin Runner
  BY LoaderAssumption DEF Task
<1>4. \A t \in Task : /\ pc'[t] = IF t = l THEN p ELSE pc[t]
                      /\ at'[t] = IF t = l THEN x ELSE at[t]
  BY <1>1, <1>3 DEF TypesKept
<1>5. TypesKept'
  BY <1>1, <1>2, <1>3 DEF TypesKept
<1>6. TaskIsPlaced'
  BY <1>1, <1>4 DEF TaskIsPlaced
<1>7. HandIsEmpty' /\ UnwoundMay'
  BY <1>2, <1>3, <1>4 DEF HandIsEmpty, UnwoundMay, Task
<1>8. RoleIsHeld'
  BY <1>2, <1>3, <1>4 DEF RoleIsHeld, Task
<1>9. LoadingHasOwner'
  BY <1>1, <1>4 DEF LoadingHasOwner, Task
<1>10. OneDrains'
  BY <1>2, <1>3, <1>4 DEF OneDrains, Task
<1>11. ResetHoldsLane'
  BY <1>2 DEF ResetHoldsLane, NoNewReset
<1> QED BY <1>5, <1>6, <1>7, <1>8, <1>9, <1>10, <1>11

LEMMA OutsideKeeps ==
  ASSUME DispatcherInv, OutsideStep
  PROVE  DispatcherInv'
BY DEF DispatcherInv, OutsideStep, NoNewGate, TypesKept, TaskIsPlaced, HandIsEmpty,
   UnwoundMay, RoleIsHeld, OneDrains, LoadingHasOwner

\* None of the three is a step of the lane.
LaneStutters == UNCHANGED Lane!laneVars

LEMMA InnerStutters ==
  ASSUME DispatcherInv, NEW r \in Runner, InnerStep(r)
  PROVE  LaneStutters
<1>1. PICK p \in PC \ Away : pc' = [pc EXCEPT ![r] = p]
  BY DEF InnerStep
<1>2. \A q \in Runner : pc'[q] = IF q = r THEN p ELSE pc[q]
  BY <1>1 DEF DispatcherInv, TypesKept, Task
<1>3. \A q \in Runner : PhaseOf(q)' = PhaseOf(q)
  BY <1>2 DEF InnerStep, PhaseOf, Away
<1>4. \A q \in Runner : at'[q] = at[q] /\ (pc'[q] = "leaving" <=> pc[q] = "leaving")
  BY <1>2 DEF InnerStep, Away
<1> QED BY <1>3, <1>4 DEF InnerStep, LaneStutters, Lane!laneVars

LEMMA LoadStutters ==
  ASSUME DispatcherInv, NEW l \in Loader, LoadMoves(l)
  PROVE  LaneStutters
<1>1. PICK p \in PC, x \in Slot \cup {NoSlot} :
        pc' = [pc EXCEPT ![l] = p] /\ at' = [at EXCEPT ![l] = x]
  BY DEF LoadMoves
<1>2. \A q \in Runner : pc'[q] = pc[q] /\ at'[q] = at[q]
  BY <1>1, LoaderAssumption DEF DispatcherInv, TypesKept, Task
<1>3. \A q \in Runner : PhaseOf(q)' = PhaseOf(q)
  BY <1>2 DEF PhaseOf
<1> QED BY <1>2, <1>3 DEF LoadMoves, LaneStutters, Lane!laneVars

LEMMA OutsideStutters ==
  ASSUME OutsideStep
  PROVE  LaneStutters
<1>1. \A q \in Runner : PhaseOf(q)' = PhaseOf(q)
  BY DEF OutsideStep, PhaseOf
<1> QED BY <1>1 DEF OutsideStep, LaneStutters, Lane!laneVars

(***************************************************************************)
(* Which actions have which shape.                                         *)
(***************************************************************************)
LEMMA UnchangedOpensNothing ==
  ASSUME DispatcherInv, UNCHANGED <<state, cancelled>>
  PROVE  NoNewGate
BY DEF DispatcherInv, TypesKept, NoNewGate

LEMMA TransitionOpens ==
  ASSUME DispatcherInv, NEW s, NEW from, NEW to \in State \ {"Loading"},
         TransitionState(s, from, to), cancelled' \in [Slot -> BOOLEAN]
  PROVE  NoNewGate
BY DEF DispatcherInv, TypesKept, NoNewGate, TransitionState

\* An eviction begins with the graph; the flag and the state come later.
LEMMA EvictionOpens ==
  ASSUME NEW k, NEW c, c # "reset", ExecuteEviction(k, c)
  PROVE  UNCHANGED <<state, cancelled, inFlight>> /\ NoNewReset
<1>1. UNCHANGED <<state, cancelled, inFlight>>
  BY DEF ExecuteEviction, EvictToTombstone, slotVars
<1>2. \/ tombstone' = tombstone
      \/ tombstone' = NoTombstone
      \/ tombstone' = [slot |-> workspaces[k], next |-> "sample", by |-> c]
  BY DEF ExecuteEviction, EvictToTombstone, TombstoneReturns
<1> QED BY <1>1, <1>2 DEF NoNewReset, NoTombstone

\* The end of an iteration, whatever its outcome.
LEMMA IterationEnds ==
  ASSUME DispatcherInv, NEW r \in Runner, NEW o \in Outcome, EndIteration(r, o),
         pc[r] \notin Away, NoNewGate, UNCHANGED <<inFlight, tombstone>>
  PROVE  InnerStep(r)
<1>1. entry' \in [Task -> Entries] /\ outcome' \in [Runner -> Outcome]
  BY NoEntryType DEF EndIteration, DispatcherInv, TypesKept, Task
<1>2. /\ UNCHANGED <<at, lane, current, asked, answer>>
      /\ pc' = [pc EXCEPT ![r] = "deliver"]
  BY DEF EndIteration, Goto
<1> QED BY <1>1, <1>2, Labels DEF InnerStep, NoNewReset

\* A step of reserve_rebuild or publish_and_retain, taken by either kind of
\* task: it opens and shuts no gate and leaves its task at work.
LEMMA ManagerMoves ==
  ASSUME DispatcherInv, NEW t \in Task, ManagerStep(t)
  PROVE  /\ UNCHANGED <<at, entry, inFlight, dispatcherVars>>
         /\ NoNewGate /\ NoNewReset
         /\ pc[t] \notin Away \cup {"gate"}
         /\ \E p \in PC \ (Away \cup {"gate", "release", "next"}) :
              pc' = [pc EXCEPT ![t] = p] /\ (p = "unwound" => MayUnwind)
<1> USE DEF ManagerStep, Goto, mapVars, slotVars, localVars, Away
<1>1. CASE ReservePlan(t)
  <2>1. UNCHANGED <<at, entry, inFlight, state, cancelled, tombstone, dispatcherVars>> /\ pc[t] = "reserve"
    BY <1>1 DEF ReservePlan
  <2>2. \E p \in {"fail", "abandon", "cancelled", "admit", "evict"} :
          pc' = [pc EXCEPT ![t] = p]
    BY <1>1 DEF ReservePlan, OnEvicted
  <2> QED BY <2>1, <2>2, UnchangedOpensNothing, Labels DEF NoNewReset
<1>2. CASE ReserveEvict(t)
  <2>1. PICK k \in victims[t] :
          /\ ExecuteEviction(k, t)
          /\ Goto(t, IF victims[t] = {k} THEN "reap" ELSE "evict")
    BY <1>2 DEF ReserveEvict
  <2>2. UNCHANGED <<at, entry, dispatcherVars>> /\ pc[t] = "evict"
    BY <1>2 DEF ReserveEvict
  <2>3. \E p \in {"reap", "evict"} : pc' = [pc EXCEPT ![t] = p]
    BY <2>1
  <2>4. t # "reset"
    BY CallerAssumption DEF TombstoneCall
  <2>5. UNCHANGED <<state, cancelled, inFlight>> /\ NoNewReset
    BY <2>1, <2>4, EvictionOpens
  <2> QED BY <2>2, <2>3, <2>5, UnchangedOpensNothing, Labels
<1>3. CASE ReserveReap(t)
  <2>1. /\ UNCHANGED <<at, entry, inFlight, state, cancelled, tombstone, dispatcherVars>>
        /\ pc[t] = "reap" /\ \E p \in {"admit"} : pc' = [pc EXCEPT ![t] = p]
    BY <1>3 DEF ReserveReap
  <2> QED BY <2>1, UnchangedOpensNothing, Labels DEF NoNewReset
<1>4. CASE ReserveAdmit(t)
  <2>1. UNCHANGED <<at, entry, inFlight, state, cancelled, tombstone, dispatcherVars>> /\ pc[t] = "admit"
    BY <1>4 DEF ReserveAdmit
  <2>2. \E p \in {"abandon", "refuse", "build"} : pc' = [pc EXCEPT ![t] = p]
    BY <1>4 DEF ReserveAdmit, OnBudget
  <2> QED BY <2>1, <2>2, UnchangedOpensNothing, Labels DEF NoNewReset
<1>5. CASE PublishSwap(t)
  <2>1. /\ UNCHANGED <<at, entry, inFlight, state, cancelled, tombstone, dispatcherVars>>
        /\ pc[t] = "swap" /\ \E p \in {"memory"} : pc' = [pc EXCEPT ![t] = p]
    BY <1>5 DEF PublishSwap
  <2> QED BY <2>1, UnchangedOpensNothing, Labels DEF NoNewReset
<1>6. CASE PublishMemory(t)
  <2>1. /\ UNCHANGED <<at, entry, inFlight, state, cancelled, tombstone, dispatcherVars>>
        /\ pc[t] = "memory" /\ \E p \in {"commit"} : pc' = [pc EXCEPT ![t] = p]
    BY <1>6 DEF PublishMemory
  <2> QED BY <2>1, UnchangedOpensNothing, Labels DEF NoNewReset
<1>7. CASE PublishCommit(t)
  <2>1. /\ UNCHANGED <<at, entry, inFlight, state, cancelled, tombstone, dispatcherVars>>
        /\ pc[t] = "commit" /\ \E p \in {"store"} : pc' = [pc EXCEPT ![t] = p]
    BY <1>7 DEF PublishCommit
  <2> QED BY <2>1, UnchangedOpensNothing, Labels DEF NoNewReset
<1>8. CASE PublishUnwind(t)
  <2>1. /\ UNCHANGED <<at, entry, inFlight, state, cancelled, tombstone, dispatcherVars>>
        /\ pc[t] = "commit" /\ MayUnwind
    BY <1>8 DEF PublishUnwind
  <2>2. \E p \in {"fail", "unwound"} : pc' = [pc EXCEPT ![t] = p]
    BY <1>8 DEF PublishUnwind
  <2> QED BY <2>1, <2>2, UnchangedOpensNothing, Labels DEF NoNewReset
<1> QED BY <1>1, <1>2, <1>3, <1>4, <1>5, <1>6, <1>7, <1>8 DEF Reserve, PublishAndRetain

\* The steps of a runner between two visits to the lane.
InnerAction(r) ==
  \/ Gate(r) \/ EnterRebuilding(r) \/ RefuseReset(r) \/ ResolveInputs(r)
  \/ RecordRefusal(r) \/ RecordCancelled(r) \/ RecordFailed(r)
  \/ ExecuteRebuild(r)
  \/ RecheckCancelled(r) \/ RecheckUnregistered(r) \/ RecheckOversize(r)
  \/ RecheckPublishes(r)
  \/ StoreRebuilt(r) \/ ManagerStep(r)

LEMMA InnerShape ==
  ASSUME DispatcherInv, NEW r \in Runner, InnerAction(r)
  PROVE  InnerStep(r)
<1>0. r \in Task
  BY DEF Task
<1> USE DEF Goto, mapVars, slotVars, localVars, dispatcherVars, NoNewReset
<1>1. CASE Gate(r)
  <2>1. /\ UNCHANGED <<at, entry, state, inFlight, tombstone, lane, current, asked, answer, outcome>>
        /\ pc[r] = "drain"
    BY <1>1 DEF Gate
  <2>3. cancelled' \in [Slot -> BOOLEAN]
    BY <1>1 DEF Gate, DispatcherInv, TypesKept
  <2>2. \E p \in {"consumed", "release", "enter"} :
          /\ pc' = [pc EXCEPT ![r] = p]
          /\ p = "release" => current[r] = NoPending
    BY <1>1 DEF Gate
  <2> QED BY <2>1, <2>2, <2>3, Labels
          DEF InnerStep, NoNewGate, DispatcherInv, TypesKept, Away
<1>2. CASE EnterRebuilding(r)
  <2>1. CASE state[at[r]] \notin {"Evicted", "Loading"}
    <3>1. /\ UNCHANGED <<at, cancelled, inFlight, tombstone, lane, current, asked, answer, outcome>>
          /\ pc[r] = "enter" /\ pc' = [pc EXCEPT ![r] = "inputs"]
          /\ state' = [state EXCEPT ![at[r]] = "Rebuilding"]
          /\ entry' = [entry EXCEPT ![r] = [@ EXCEPT !.prior = state[at[r]]]]
      BY <1>2, <2>1 DEF EnterRebuilding, EndIteration
    <3>2. NoNewGate
      BY <3>1 DEF NoNewGate, DispatcherInv, TypesKept, State
    <3>3. at[r] \in Slot /\ state[at[r]] \in State \ {"Loading"}
      BY <1>0, <2>1, <3>1 DEF DispatcherInv, TaskIsPlaced, TypesKept
    <3>4. entry' \in [Task -> Entries]
      <4>1. entry[r] \in Entries
        BY <1>0 DEF DispatcherInv, TypesKept
      <4>2. [entry[r] EXCEPT !.prior = state[at[r]]] \in Entries
        BY <3>3, <4>1 DEF Entries
      <4> QED BY <1>0, <3>1, <4>2 DEF DispatcherInv, TypesKept
    <3> QED BY <3>1, <3>2, <3>4, Labels DEF InnerStep, DispatcherInv, TypesKept, Away
  <2>2. CASE state[at[r]] \in {"Evicted", "Loading"}
    <3>1. /\ UNCHANGED <<state, cancelled, inFlight, tombstone>> /\ pc[r] = "enter"
          /\ EndIteration(r, "evicted") \/ EndIteration(r, "failed")
      BY <1>2, <2>2 DEF EnterRebuilding
    <3> QED BY <3>1, IterationEnds, UnchangedOpensNothing DEF Outcome, Away
  <2> QED BY <2>1, <2>2
<1>3. CASE RefuseReset(r)
  <2>1. cancelled' \in [Slot -> BOOLEAN]
    BY <1>3 DEF RefuseReset, DispatcherInv, TypesKept
  <2> QED BY <1>3, <2>1, IterationEnds, TransitionOpens DEF RefuseReset, Outcome, State, Away
<1>4. CASE ResolveInputs(r)
  <2>1. /\ UNCHANGED <<at, entry, state, cancelled, inFlight, tombstone, lane, current, asked, answer, outcome>>
        /\ pc[r] = "inputs"
    BY <1>4 DEF ResolveInputs
  <2>2. \E p \in {"reserve", "refuse"} : pc' = [pc EXCEPT ![r] = p]
    BY <1>4 DEF ResolveInputs
  <2> QED BY <2>1, <2>2, UnchangedOpensNothing, Labels
          DEF InnerStep, DispatcherInv, TypesKept, Away
<1>5. CASE RecordRefusal(r)
  <2>1. entry[r].prior \in State \ {"Loading"}
    BY <1>0 DEF DispatcherInv, TypesKept, Entries
  <2>2. RefusedState(entry[r].prior) \in State \ {"Loading"}
    BY <2>1 DEF RefusedState, State
  <2>3. NoNewGate
    BY <1>5, <2>2, TransitionOpens DEF RecordRefusal, DispatcherInv, TypesKept
  <2> QED BY <1>5, <2>3, IterationEnds DEF RecordRefusal, Outcome, Away
<1>6. CASE RecordCancelled(r)
  <2>1. cancelled' \in [Slot -> BOOLEAN]
    BY <1>6 DEF RecordCancelled, DispatcherInv, TypesKept
  <2> QED BY <1>6, <2>1, IterationEnds, TransitionOpens
             DEF RecordCancelled, Outcome, State, Away
<1>7. CASE RecordFailed(r)
  <2>1. cancelled' \in [Slot -> BOOLEAN]
    BY <1>7 DEF RecordFailed, DispatcherInv, TypesKept
  <2> QED BY <1>7, <2>1, IterationEnds, TransitionOpens DEF RecordFailed, Outcome, State, Away
<1>8. CASE ExecuteRebuild(r)
  <2>1. /\ UNCHANGED <<at, entry, state, cancelled, inFlight, tombstone, lane, current, asked, answer, outcome>>
        /\ pc[r] = "build"
    BY <1>8 DEF ExecuteRebuild
  <2>2. \E p \in {"publish", "refuse", "failed", "cancelled"} : pc' = [pc EXCEPT ![r] = p]
    BY <1>8 DEF ExecuteRebuild
  <2> QED BY <2>1, <2>2, UnchangedOpensNothing, Labels
          DEF InnerStep, DispatcherInv, TypesKept, Away
<1>9. CASE RecheckCancelled(r)
  BY <1>9, IterationEnds, UnchangedOpensNothing DEF RecheckCancelled, Outcome, Away
<1>10. CASE RecheckUnregistered(r)
  <2>1. cancelled' \in [Slot -> BOOLEAN]
    BY <1>10 DEF RecheckUnregistered, DispatcherInv, TypesKept
  <2> QED BY <1>10, <2>1, IterationEnds, TransitionOpens
             DEF RecheckUnregistered, Outcome, State, Away
<1>11. CASE RecheckOversize(r)
  <2>1. cancelled' \in [Slot -> BOOLEAN]
    BY <1>11 DEF RecheckOversize, DispatcherInv, TypesKept
  <2> QED BY <1>11, <2>1, IterationEnds, TransitionOpens
             DEF RecheckOversize, Outcome, State, Away
<1>12. CASE RecheckPublishes(r)
  BY <1>12, UnchangedOpensNothing, Labels
     DEF RecheckPublishes, InnerStep, DispatcherInv, TypesKept, Away
<1>13. CASE StoreRebuilt(r)
  <2>1. cancelled' \in [Slot -> BOOLEAN]
    BY <1>13 DEF StoreRebuilt, DispatcherInv, TypesKept
  <2> QED BY <1>13, <2>1, IterationEnds, TransitionOpens DEF StoreRebuilt, Outcome, State, Away
<1>14. CASE ManagerStep(r)
  BY <1>0, <1>14, ManagerMoves DEF InnerStep, DispatcherInv, TypesKept
<1> QED BY <1>1, <1>2, <1>3, <1>4, <1>5, <1>6, <1>7, <1>8, <1>9, <1>10, <1>11,
          <1>12, <1>13, <1>14 DEF InnerAction

\* A loader that stops: its gate is open again.
LEMMA LoadStops ==
  ASSUME DispatcherInv, NEW l \in Loader, Finish(l),
         UNCHANGED <<inFlight, tombstone, dispatcherVars>>, NoNewGate,
         pc[l] # "gate" => state'[at[l]] # "Loading"
  PROVE  LoadMoves(l)
<1>1. /\ pc' = [pc EXCEPT ![l] = "idle"]
      /\ at' = [at EXCEPT ![l] = NoSlot]
      /\ entry' = [entry EXCEPT ![l] = NoEntry]
  BY DEF Finish, Goto
<1>2. entry' \in [Task -> Entries]
  BY <1>1, NoEntryType DEF DispatcherInv, TypesKept, Task
<1>3. \A s \in Slot : state'[s] = "Loading" =>
        state[s] = "Loading" /\ (at[l] # s \/ pc[l] \in {"idle", "gate"})
  BY DEF NoNewGate
<1> QED BY <1>1, <1>2, <1>3, Labels DEF LoadMoves, NoNewGate, NoNewReset, dispatcherVars

\* A loader that goes on, past its gate, with the slot it has.
LEMMA LoadGoesOn ==
  ASSUME DispatcherInv, NEW l \in Loader, NEW p \in PC \ (Away \cup {"gate"}),
         pc' = [pc EXCEPT ![l] = p],
         UNCHANGED <<at, inFlight, dispatcherVars>>, NoNewGate, NoNewReset,
         entry' \in [Task -> Entries], pc[l] \notin {"idle"}
  PROVE  LoadMoves(l)
<1>1. l \in Task /\ at[l] \in Slot
  BY DEF DispatcherInv, TaskIsPlaced, Task
<1>2. at' = [at EXCEPT ![l] = at[l]]
  BY <1>1 DEF DispatcherInv, TypesKept
<1>3. \A s \in Slot : state'[s] = "Loading" =>
        \/ s = at[l] /\ p \notin {"idle", "gate"}
        \/ state[s] = "Loading" /\ (at[l] # s \/ pc[l] \in {"idle", "gate"})
  BY DEF NoNewGate, Away
<1> QED BY <1>1, <1>2, <1>3 DEF LoadMoves, NoNewGate, dispatcherVars

LEMMA LoadShape ==
  ASSUME DispatcherInv, NEW l \in Loader, LoaderStep(l)
  PROVE  LoadMoves(l)
<1>0. l \in Task /\ entry[l] \in Entries
  BY DEF Task, DispatcherInv, TypesKept
<1> USE DEF Goto, mapVars, slotVars, localVars, NoNewReset
<1>1. CASE LoadMeetsRunner(l)
  <2>1. /\ Finish(l) /\ UNCHANGED <<cancelled, inFlight, tombstone, dispatcherVars>>
        /\ pc[l] = "observed" /\ TransitionState(at[l], "Loading", "Evicted")
    BY <1>1 DEF LoadMeetsRunner, HonorRefuses
  <2>2. NoNewGate
    BY <2>1, TransitionOpens DEF State, DispatcherInv, TypesKept
  <2>3. state'[at[l]] # "Loading"
    BY <1>0, <2>1 DEF TransitionState, DispatcherInv, TypesKept, TaskIsPlaced
  <2> QED BY <2>1, <2>2, <2>3, LoadStops
<1> SUFFICES ASSUME LoadStep(l), UNCHANGED dispatcherVars PROVE LoadMoves(l)
  BY <1>1 DEF LoaderStep
<1>2. CASE EnterLoading(l)
  <2>1. pc[l] = "gate" /\ at[l] \in Slot /\ UNCHANGED <<inFlight, tombstone, dispatcherVars>>
    BY <1>0, <1>2 DEF EnterLoading, DispatcherInv, TaskIsPlaced
  <2>2. CASE state[at[l]] \in {"Unloaded", "Failed", "Evicted"}
    <3>1. /\ state' = [state EXCEPT ![at[l]] = "Loading"]
          /\ entry' = [entry EXCEPT ![l] = [prior |-> state[at[l]],
                      inserted |-> @.inserted, cancelled |-> FALSE]]
          /\ pc' = [pc EXCEPT ![l] = "entered"] /\ at' = at
      BY <1>2, <2>2 DEF EnterLoading
    <3>2. [prior |-> state[at[l]], inserted |-> entry[l].inserted, cancelled |-> FALSE]
            \in Entries
      BY <1>0, <2>2 DEF Entries, State
    <3>3. entry' \in [Task -> Entries]
      BY <1>0, <3>1, <3>2 DEF DispatcherInv, TypesKept
    <3>4. /\ state' \in [Slot -> State] /\ cancelled' \in [Slot -> BOOLEAN]
          /\ \A s \in Slot \ {at[l]} : state'[s] = state[s]
      BY <1>2, <2>1, <3>1 DEF EnterLoading, DispatcherInv, TypesKept, State
    <3>5. at' = [at EXCEPT ![l] = at[l]]
      BY <1>0, <3>1 DEF DispatcherInv, TypesKept
    <3>6. "entered" \in PC /\ "entered" \notin {"idle", "gate"}
      BY Labels
    <3>7. \A s \in Slot : state'[s] = "Loading" =>
            \/ s = at[l] /\ "entered" \notin {"idle", "gate"}
            \/ state[s] = "Loading" /\ (at[l] # s \/ pc[l] \in {"idle", "gate"})
      BY <3>4, <3>6
    <3> QED BY <2>1, <3>1, <3>3, <3>4, <3>5, <3>6, <3>7 DEF LoadMoves, NoNewReset, dispatcherVars
  <2>3. CASE state[at[l]] \notin {"Unloaded", "Failed", "Evicted"}
    BY <1>2, <2>1, <2>3, UnchangedOpensNothing, LoadStops DEF EnterLoading
  <2> QED BY <2>2, <2>3
<1>3. CASE ObserveCancel(l)
  <2>1. /\ UNCHANGED <<at, state, cancelled, inFlight, tombstone, dispatcherVars>>
        /\ pc[l] = "entered" /\ \E p \in {"observed"} : pc' = [pc EXCEPT ![l] = p]
        /\ entry' = [entry EXCEPT ![l] = [prior |-> @.prior,
               inserted |-> @.inserted, cancelled |-> cancelled[at[l]]]]
    BY <1>3 DEF ObserveCancel
  <2>2. at[l] \in Slot
    BY <1>0, <2>1 DEF DispatcherInv, TaskIsPlaced
  <2>3. cancelled[at[l]] \in BOOLEAN
    BY <2>2 DEF DispatcherInv, TypesKept
  <2>4. [prior |-> entry[l].prior, inserted |-> entry[l].inserted,
         cancelled |-> cancelled[at[l]]] \in Entries
    BY <1>0, <2>3 DEF Entries
  <2>5. entry' \in [Task -> Entries]
    BY <1>0, <2>1, <2>4 DEF DispatcherInv, TypesKept
  <2> QED BY <2>1, <2>5, UnchangedOpensNothing, LoadGoesOn, Labels DEF Away
<1>4. CASE HonorConsumes(l)
  <2>1. /\ UNCHANGED <<at, state, entry, inFlight, tombstone, dispatcherVars>> /\ pc[l] = "observed"
        /\ \E p \in {"prepare", "rearm"} : pc' = [pc EXCEPT ![l] = p]
    BY <1>4 DEF HonorConsumes
  <2>2. cancelled' \in [Slot -> BOOLEAN]
    BY <1>4 DEF HonorConsumes, DispatcherInv, TypesKept
  <2>3. NoNewGate /\ entry' \in [Task -> Entries]
    BY <2>1, <2>2 DEF NoNewGate, DispatcherInv, TypesKept
  <2> QED BY <2>1, <2>3, LoadGoesOn, Labels DEF Away
<1>5. CASE HonorFails(l)
  <2>1. /\ Finish(l) /\ UNCHANGED <<inFlight, tombstone, dispatcherVars>>
        /\ pc[l] = "rearm" /\ TransitionState(at[l], "Loading", "Failed")
    BY <1>5 DEF HonorFails
  <2>2. NoNewGate
    <3>1. cancelled' \in [Slot -> BOOLEAN]
      BY <1>5 DEF HonorFails, DispatcherInv, TypesKept
    <3> QED BY <2>1, <3>1, TransitionOpens DEF State
  <2>3. state'[at[l]] # "Loading"
    BY <1>0, <2>1 DEF TransitionState, DispatcherInv, TypesKept, TaskIsPlaced
  <2> QED BY <2>1, <2>2, <2>3, LoadStops
<1>6. CASE Prepare(l)
  <2>1. /\ UNCHANGED <<at, state, cancelled, entry, inFlight, tombstone, dispatcherVars>>
        /\ pc[l] = "prepare"
        /\ \E p \in {"reserve", "abandon", "fail"} : pc' = [pc EXCEPT ![l] = p]
    BY <1>6 DEF Prepare
  <2>2. NoNewGate /\ entry' \in [Task -> Entries]
    BY <2>1 DEF NoNewGate, DispatcherInv, TypesKept
  <2> QED BY <2>1, <2>2, LoadGoesOn, Labels DEF Away
<1>7. CASE AbandonLoad(l)
  <2>1. /\ Finish(l) /\ UNCHANGED <<inFlight, tombstone, dispatcherVars>>
        /\ pc[l] = "abandon" /\ TransitionState(at[l], "Loading", entry[l].prior)
    BY <1>7 DEF AbandonLoad
  <2>2. entry[l].prior \in State \ {"Loading"}
    BY <1>0 DEF Entries
  <2>3. cancelled' \in [Slot -> BOOLEAN]
    BY <1>7 DEF AbandonLoad, DispatcherInv, TypesKept
  <2>4. NoNewGate
    BY <2>1, <2>2, <2>3, TransitionOpens
  <2>5. state'[at[l]] # "Loading"
    BY <1>0, <2>1, <2>2 DEF TransitionState, DispatcherInv, TypesKept, TaskIsPlaced
  <2> QED BY <2>1, <2>4, <2>5, LoadStops
<1>8. CASE FailLoad(l)
  <2>1. /\ Finish(l) /\ UNCHANGED <<cancelled, inFlight, tombstone, dispatcherVars>>
        /\ pc[l] = "fail" /\ TransitionState(at[l], "Loading", "Failed")
    BY <1>8 DEF FailLoad
  <2>2. NoNewGate
    BY <2>1, TransitionOpens DEF State, DispatcherInv, TypesKept
  <2>3. state'[at[l]] # "Loading"
    BY <1>0, <2>1 DEF TransitionState, DispatcherInv, TypesKept, TaskIsPlaced
  <2> QED BY <2>1, <2>2, <2>3, LoadStops
<1>9. CASE Build(l)
  <2>1. /\ UNCHANGED <<at, state, cancelled, entry, inFlight, tombstone, dispatcherVars>>
        /\ pc[l] = "build"
        /\ \E p \in {"publish", "abandon", "fail"} : pc' = [pc EXCEPT ![l] = p]
    BY <1>9 DEF Build
  <2>2. NoNewGate /\ entry' \in [Task -> Entries]
    BY <2>1 DEF NoNewGate, DispatcherInv, TypesKept
  <2> QED BY <2>1, <2>2, LoadGoesOn, Labels DEF Away
<1>10. CASE LoadRecheck(l)
  <2>1. /\ UNCHANGED <<at, state, cancelled, entry, inFlight, tombstone, dispatcherVars>>
        /\ pc[l] = "publish"
        /\ \E p \in {"swap", "fail"} : pc' = [pc EXCEPT ![l] = p]
    BY <1>10 DEF LoadRecheck
  <2>2. NoNewGate /\ entry' \in [Task -> Entries]
    BY <2>1 DEF NoNewGate, DispatcherInv, TypesKept
  <2> QED BY <2>1, <2>2, LoadGoesOn, Labels DEF Away
<1>11. CASE StoreLoaded(l)
  <2>1. /\ Finish(l) /\ UNCHANGED <<cancelled, inFlight, tombstone, dispatcherVars>>
        /\ pc[l] = "store" /\ state' = [state EXCEPT ![at[l]] = "Loaded"]
    BY <1>11 DEF StoreLoaded
  <2>2. NoNewGate
    BY <2>1 DEF NoNewGate, DispatcherInv, TypesKept, State
  <2>3. state'[at[l]] # "Loading"
    BY <1>0, <2>1 DEF DispatcherInv, TypesKept, TaskIsPlaced
  <2> QED BY <2>1, <2>2, <2>3, LoadStops
<1>12. CASE Reserve(l) \/ PublishAndRetain(l)
  <2>1. ManagerStep(l)
    BY <1>12 DEF ManagerStep
  <2>2. PICK p \in PC \ (Away \cup {"gate", "release", "next"}) : pc' = [pc EXCEPT ![l] = p]
    BY <1>0, <2>1, ManagerMoves
  <2>3. /\ UNCHANGED <<at, entry, inFlight, dispatcherVars>>
        /\ NoNewGate /\ NoNewReset /\ pc[l] \notin Away \cup {"gate"}
    BY <1>0, <2>1, ManagerMoves
  <2>4. p \in PC \ (Away \cup {"gate"}) /\ pc[l] \notin {"idle"}
    BY <2>2, <2>3 DEF Away
  <2>5. entry' \in [Task -> Entries]
    BY <2>3 DEF DispatcherInv, TypesKept
  <2> QED BY <2>2, <2>3, <2>4, <2>5, LoadGoesOn
<1> QED BY <1>2, <1>3, <1>4, <1>5, <1>6, <1>7, <1>8, <1>9, <1>10, <1>11, <1>12 DEF LoadStep

\* A load finds or creates its slot.  A new object has the role flag clear
\* already: no runner works on it.
LEMMA LoadRequestShape ==
  ASSUME DispatcherInv, NEW l \in Loader, LoadRequest(l)
  PROVE  LoadMoves(l)
<1> DEFINE k == LoaderKey[l]
<1>0. l \in Task /\ entry[l] \in Entries
  BY DEF Task, DispatcherInv, TypesKept
<1>1. /\ UNCHANGED dispatcherVars
      /\ pc[l] = "idle" /\ pc' = [pc EXCEPT ![l] = "gate"] /\ NoNewReset
  BY DEF LoadRequest, GetOrInsert, Goto, NoNewReset
<1>2. CASE /\ workspaces[k] \in Slot
           /\ at' = [at EXCEPT ![l] = workspaces[k]]
           /\ UNCHANGED <<workspaces, slotVars, entry>>
  <2>1. NoNewGate /\ entry' \in [Task -> Entries] /\ inFlight' = inFlight
    BY <1>2 DEF NoNewGate, DispatcherInv, TypesKept, slotVars
  <2>2. \A s \in Slot : state'[s] = "Loading" => state[s] = "Loading" /\ pc[l] \in {"idle", "gate"}
    BY <1>1, <2>1 DEF NoNewGate
  <2> HIDE DEF k
  <2> QED BY <1>1, <1>2, <2>1, <2>2, Labels DEF LoadMoves, NoNewGate, dispatcherVars
<1>3. ASSUME NEW s \in FreshSlots(k),
             at' = [at EXCEPT ![l] = s],
             state' = [state EXCEPT ![s] = "Unloaded"],
             cancelled' = [cancelled EXCEPT ![s] = FALSE],
             inFlight' = [inFlight EXCEPT ![s] = FALSE],
             entry' = [entry EXCEPT ![l] = [NoEntry EXCEPT !.inserted = TRUE]]
      PROVE  LoadMoves(l)
  <2>1. s \in Slot /\ \A t \in Task : at[t] # s
    BY DEF FreshSlots
  <2>2. ~inFlight[s]
    BY <2>1 DEF DispatcherInv, RoleIsHeld, Task
  <2>3. inFlight' = inFlight
    BY <1>3, <2>1, <2>2 DEF DispatcherInv, TypesKept
  <2>4. NoNewGate
    BY <1>3, <2>1 DEF NoNewGate, DispatcherInv, TypesKept, State
  <2>5. entry' \in [Task -> Entries]
    <3>1. [NoEntry EXCEPT !.inserted = TRUE] \in Entries
      BY DEF NoEntry, Entries, State
    <3> QED BY <1>0, <1>3, <3>1 DEF DispatcherInv, TypesKept
  <2>6. \A x \in Slot : state'[x] = "Loading" => state[x] = "Loading" /\ pc[l] \in {"idle", "gate"}
    BY <1>1, <2>4 DEF NoNewGate
  <2> QED BY <1>1, <1>3, <2>1, <2>3, <2>4, <2>5, <2>6, Labels
          DEF LoadMoves, NoNewGate, dispatcherVars
<1> QED BY <1>2, <1>3 DEF LoadRequest, GetOrInsert

\* What nobody's program counter sees.
OutsideAction ==
  \/ \E k \in Key :
       \/ CancelRebuild(k) \/ Reset(k) \/ LoadAnswered(k) \/ StartWatching(k)
       \/ (EvictLruPick(k) \/ EvictLruExecute(k) \/ Unload(k))
            /\ UNCHANGED dispatcherVars
  \/ (WriteTombstone \/ RetentionReaper) /\ UNCHANGED dispatcherVars
  \/ UNCHANGED vars

\* The steps of a tombstone open no gate and begin no reset.
LEMMA TombstoneOpens ==
  ASSUME DispatcherInv, WriteTombstone
  PROVE  NoNewGate /\ NoNewReset /\ UNCHANGED <<taskVars, inFlight>>
<1> USE DEF mapVars, slotVars
<1>0. CASE TombstoneSamples
  <2>1. /\ tombstone' = [tombstone EXCEPT !.next = "cancel"]
        /\ UNCHANGED <<state, cancelled, inFlight, taskVars>>
    BY <1>0 DEF TombstoneSamples
  <2>2. NoNewReset
    BY <2>1 DEF NoNewReset
  <2> QED BY <2>1, <2>2, UnchangedOpensNothing
<1>1. CASE TombstoneCancels
  <2>1. /\ cancelled' = [cancelled EXCEPT ![tombstone.slot] = TRUE]
        /\ tombstone' = [tombstone EXCEPT !.next = "store"]
        /\ UNCHANGED <<state, inFlight, taskVars>>
    BY <1>1 DEF TombstoneCancels
  <2>2. NoNewReset
    BY <2>1 DEF NoNewReset
  <2> QED BY <2>1, <2>2 DEF NoNewGate, DispatcherInv, TypesKept
<1>2. CASE TombstoneStores
  <2>1. /\ state' = [state EXCEPT ![tombstone.slot] = "Evicted"]
        /\ TombstoneReturns(tombstone.slot, tombstone.by)
        /\ UNCHANGED <<cancelled, inFlight, taskVars>>
    BY <1>2 DEF TombstoneStores
  <2>2. NoNewReset
    <3>1. CASE tombstone.by = "reset"
      BY <2>1, <3>1 DEF TombstoneReturns, NoNewReset
    <3>2. CASE tombstone.by # "reset"
      BY <2>1, <3>2 DEF TombstoneReturns, NoNewReset, NoTombstone
    <3> QED BY <3>1, <3>2
  <2> QED BY <2>1, <2>2 DEF NoNewGate, DispatcherInv, TypesKept, State
<1>3. CASE ResetReleases
  <2>1. NoNewReset /\ UNCHANGED <<state, cancelled, inFlight, taskVars>>
    BY <1>3 DEF ResetReleases, EvictToTombstone, TombstoneReturns, NoNewReset,
       DispatcherInv, ResetHoldsLane
  <2> QED BY <2>1, UnchangedOpensNothing
<1>4. CASE ResetClears
  <2>1. /\ cancelled' = [cancelled EXCEPT ![tombstone.slot] = FALSE]
        /\ tombstone' = [tombstone EXCEPT !.next = "reset"]
        /\ tombstone.by = "reset"
        /\ UNCHANGED <<state, inFlight, taskVars>>
    BY <1>4 DEF ResetClears, DispatcherInv, ResetHoldsLane
  <2>2. NoNewReset
    BY <2>1 DEF NoNewReset
  <2> QED BY <2>1, <2>2 DEF NoNewGate, DispatcherInv, TypesKept
<1>5. CASE ResetStores
  <2>1. /\ state' = [state EXCEPT ![tombstone.slot] = "Unloaded"]
        /\ tombstone' = NoTombstone
        /\ UNCHANGED <<cancelled, inFlight, taskVars>>
    BY <1>5 DEF ResetStores
  <2> QED BY <2>1 DEF NoNewGate, NoNewReset, NoTombstone, DispatcherInv, TypesKept, State
<1> QED BY <1>0, <1>1, <1>2, <1>3, <1>4, <1>5 DEF WriteTombstone

LEMMA OutsideShape ==
  ASSUME DispatcherInv, OutsideAction
  PROVE  OutsideStep
<1> USE DEF mapVars, slotVars, ledgerVars, localVars, taskVars, dispatcherVars
<1>a. ASSUME UNCHANGED <<pc, at, entry, inFlight, lane, current, asked, answer, outcome>>,
             NoNewGate, NoNewReset
      PROVE  OutsideStep
  BY <1>a DEF OutsideStep, DispatcherInv, ResetHoldsLane, NoNewReset
<1>b. ASSUME tombstone' = tombstone PROVE NoNewReset
  BY <1>b DEF NoNewReset
<1>1. ASSUME NEW k \in Key, CancelRebuild(k) PROVE OutsideStep
  BY <1>1, <1>a, <1>b DEF CancelRebuild, NoNewGate, DispatcherInv, TypesKept
<1>2. ASSUME NEW k \in Key, ResetCancels(k), UNCHANGED dispatcherVars PROVE OutsideStep
  BY <1>2, <1>a, <1>b DEF ResetCancels, NoNewGate, DispatcherInv, TypesKept
<1>3. ASSUME NEW k \in Key, ResetEmpties(k), UNCHANGED dispatcherVars PROVE OutsideStep
  <2>1. /\ workspaces[k] \in Slot /\ ~inFlight[workspaces[k]]
        /\ tombstone' = [slot |-> workspaces[k], next |-> "release", by |-> "reset"]
        /\ UNCHANGED <<slotVars, taskVars>>
    BY <1>3 DEF ResetEmpties
  <2>2. ResetHoldsLane' /\ NoNewGate
    BY <2>1, UnchangedOpensNothing DEF ResetHoldsLane
  <2> QED BY <1>3, <2>1, <2>2 DEF OutsideStep
<1>4. ASSUME NEW k \in Key, LoadAnswered(k) PROVE OutsideStep
  BY <1>4, <1>a, <1>b, UnchangedOpensNothing DEF LoadAnswered, managerVars
<1>5. ASSUME NEW k \in Key, StartWatching(k) PROVE OutsideStep
  BY <1>5, <1>a, <1>b, UnchangedOpensNothing DEF StartWatching
<1>6. ASSUME NEW k \in Key, EvictLruPick(k), UNCHANGED dispatcherVars PROVE OutsideStep
  BY <1>6, <1>a, <1>b, UnchangedOpensNothing DEF EvictLruPick
<1>7. ASSUME NEW k \in Key, EvictLruExecute(k), UNCHANGED dispatcherVars PROVE OutsideStep
  <2>1. ExecuteEviction(k, "evict_lru") /\ UNCHANGED taskVars
    BY <1>7 DEF EvictLruExecute
  <2> QED BY <1>7, <1>a, <2>1, EvictionOpens, UnchangedOpensNothing
<1>8. ASSUME NEW k \in Key, Unload(k), UNCHANGED dispatcherVars PROVE OutsideStep
  <2>1. ExecuteEviction(k, "unload") /\ UNCHANGED taskVars
    BY <1>8 DEF Unload
  <2> QED BY <1>8, <1>a, <2>1, EvictionOpens, UnchangedOpensNothing
<1>9. ASSUME RetentionReaper, UNCHANGED dispatcherVars PROVE OutsideStep
  BY <1>9, <1>a, <1>b, UnchangedOpensNothing DEF RetentionReaper
<1>10. ASSUME UNCHANGED vars PROVE OutsideStep
  BY <1>10, <1>a, <1>b, UnchangedOpensNothing DEF vars, managerVars
<1>11. ASSUME WriteTombstone, UNCHANGED dispatcherVars PROVE OutsideStep
  BY <1>11, <1>a, TombstoneOpens
<1> QED BY <1>1, <1>2, <1>3, <1>4, <1>5, <1>6, <1>7, <1>8, <1>9, <1>10, <1>11
        DEF OutsideAction, Reset

(***************************************************************************)
(* The visits to the lane.  Each keeps the invariant and is the lane step  *)
(* of the same name, or changes nothing the lane speaks of.                *)
(***************************************************************************)

\* The lane's operators on entries are the dispatcher's.
LEMMA SameEntries ==
  /\ \A r : Lane!Incoming(r) = Incoming(r)
  /\ \A p, e : Lane!AddTo(p, e) = AddTo(p, e)
  /\ \A p, e : Lane!MergesWith(p, e) = MergesWith(p, e)
  /\ \A p : Lane!Waiters(p) = Waiters(p)
  /\ Lane!Request = Request /\ Lane!WatcherRequest = WatcherRequest
  /\ Lane!Outcome = Outcome
BY DEF Lane!Incoming, Incoming, Lane!EntryOf, EntryOf, Lane!AddTo, AddTo,
   Lane!CoalesceWith, CoalesceWith, Lane!MergesWith, MergesWith,
   Lane!IsWatcherEnqueue, IsWatcherEnqueue, Lane!Waiters, Waiters, Lane!Request,
   Request, Lane!WatcherRequest, WatcherRequest, Lane!Outcome, Outcome

\* The lane knows of no resets: where no reset has it, and in particular
\* where a runner drains, the two agree on whether it is free.
LEMMA SameLane ==
  ASSUME NEW s
  PROVE  LaneFree(s) => Lane!LaneFree(s)
BY Phases DEF Lane!LaneFree, LaneFree

LEMMA SameLaneOfRunner ==
  ASSUME DispatcherInv, NEW s, inFlight[s]
  PROVE  LaneFree(s) <=> Lane!LaneFree(s)
BY Phases DEF Lane!LaneFree, LaneFree, DispatcherInv, ResetHoldsLane

\* How the lane sees one request move.
LEMMA PhaseMoves ==
  ASSUME DispatcherInv, NEW r \in Runner, NEW p \in PC,
         pc' = [pc EXCEPT ![r] = p]
  PROVE  /\ p \in {"idle", "leaving"} => [q \in Runner |-> PhaseOf(q)]'
               = [[q \in Runner |-> PhaseOf(q)] EXCEPT ![r] = "out"]
         /\ p = "acquire" => [q \in Runner |-> PhaseOf(q)]'
               = [[q \in Runner |-> PhaseOf(q)] EXCEPT ![r] = "asking"]
         /\ p = "park" => [q \in Runner |-> PhaseOf(q)]'
               = [[q \in Runner |-> PhaseOf(q)] EXCEPT ![r] = "parking"]
         /\ p \notin Away => [q \in Runner |-> PhaseOf(q)]'
               = [[q \in Runner |-> PhaseOf(q)] EXCEPT ![r] = "running"]
         /\ p \notin Away /\ pc[r] \notin Away =>
              [q \in Runner |-> PhaseOf(q)]' = [q \in Runner |-> PhaseOf(q)]
<1>1. \A q \in Runner : pc'[q] = IF q = r THEN p ELSE pc[q]
  BY DEF DispatcherInv, TypesKept, Task
<1>2. \A q \in Runner : q # r => PhaseOf(q)' = PhaseOf(q)
  BY <1>1 DEF PhaseOf
<1>3. /\ p \in {"idle", "leaving"} => PhaseOf(r)' = "out"
      /\ p = "acquire" => PhaseOf(r)' = "asking"
      /\ p = "park" => PhaseOf(r)' = "parking"
      /\ p \notin Away => PhaseOf(r)' = "running"
      /\ pc[r] \notin Away => PhaseOf(r) = "running"
  BY <1>1 DEF PhaseOf, Away
<1> QED BY <1>2, <1>3

LEMMA WhereMoves ==
  ASSUME DispatcherInv, NEW r \in Runner, NEW p, NEW x,
         pc' = [pc EXCEPT ![r] = p], at' = [at EXCEPT ![r] = x]
  PROVE  [q \in Runner |-> IF pc[q] = "leaving" THEN NoSlot ELSE at[q]]'
           = [[q \in Runner |-> IF pc[q] = "leaving" THEN NoSlot ELSE at[q]]
                EXCEPT ![r] = IF p = "leaving" THEN NoSlot ELSE x]
<1>1. \A q \in Runner : /\ pc'[q] = IF q = r THEN p ELSE pc[q]
                        /\ at'[q] = IF q = r THEN x ELSE at[q]
  BY DEF DispatcherInv, TypesKept, Task
<1> QED BY <1>1

LEMMA WhereStays ==
  ASSUME DispatcherInv, NEW r \in Runner, NEW p, pc' = [pc EXCEPT ![r] = p],
         pc[r] # "leaving", p # "leaving", at' = at
  PROVE  UNCHANGED [q \in Runner |-> IF pc[q] = "leaving" THEN NoSlot ELSE at[q]]
<1>1. \A q \in Runner : pc'[q] = IF q = r THEN p ELSE pc[q]
  BY DEF DispatcherInv, TypesKept, Task
<1> QED BY <1>1

\* A request leaves, or an unwound runner whose role is given up.
LEMMA LeavesLane ==
  ASSUME DispatcherInv, NEW r \in Runner,
         Finish(r) \/ (Goto(r, "leaving") /\ at' = at)
  PROVE  Lane!Leave(r)
<1>1. CASE Finish(r)
  <2>1. pc' = [pc EXCEPT ![r] = "idle"] /\ at' = [at EXCEPT ![r] = NoSlot]
    BY <1>1 DEF Finish, Goto
  <2> QED BY <2>1, PhaseMoves, WhereMoves, Labels DEF Lane!Leave
<1>2. CASE Goto(r, "leaving") /\ at' = at
  <2>1. pc' = [pc EXCEPT ![r] = "leaving"] /\ at' = [at EXCEPT ![r] = at[r]]
    BY <1>2 DEF Goto, DispatcherInv, TypesKept
  <2> QED BY <2>1, PhaseMoves, WhereMoves, Labels DEF Lane!Leave
<1> QED BY <1>1, <1>2

LEMMA LookupAsks ==
  ASSUME DispatcherInv, NEW r \in Runner, NEW k \in Key, Lookup(r, k)
  PROVE  \E s \in Slot : Lane!Ask(r, s)
<1>0. PICK s \in Slot : s = workspaces[k]
  BY DEF Lookup
<1>1. /\ pc[r] = "idle" /\ answer[r] # "pending"
      /\ at' = [at EXCEPT ![r] = s]
      /\ pc' = [pc EXCEPT ![r] = "acquire"]
      /\ UNCHANGED <<lane, inFlight, current>>
  BY <1>0 DEF Lookup, Goto, slotVars
<1>2. PICK q \in Request :
        /\ ~q.explicit => q.opts = NoOptions
        /\ asked' = [asked EXCEPT ![r] = q]
        /\ answer' = [answer EXCEPT ![r] = IF q.explicit THEN "pending" ELSE "none"]
  BY DEF Lookup
<1>3. q.explicit \/ q = WatcherRequest
  BY <1>2 DEF Request, WatcherRequest
<1>4. Lane!Ask(r, s)
  BY <1>1, <1>2, <1>3, SameEntries, Phases, PhaseMoves, WhereMoves, Labels DEF Lane!Ask
<1> QED BY <1>4

LEMMA RefusalRefuses ==
  ASSUME DispatcherInv, NEW r \in Runner, RefuseRequest(r)
  PROVE  Lane!Refuse(r)
<1>1. /\ pc[r] = "acquire" /\ LaneFree(at[r]) /\ Finish(r)
      /\ answer' = [q \in Runner |-> IF q \in Incoming(r).waiters THEN "refused" ELSE answer[q]]
      /\ UNCHANGED <<lane, inFlight, current, asked>>
  BY DEF RefuseRequest, Deliver, slotVars
<1> QED BY <1>1, SameEntries, SameLane, Phases, LeavesLane DEF Lane!Refuse, Lane!Tell

LEMMA AcquireTakesOrLoses ==
  ASSUME DispatcherInv, NEW r \in Runner, Acquire(r)
  PROVE  Lane!Take(r) \/ Lane!Lose(r)
<1>1. /\ pc[r] = "acquire" /\ LaneFree(at[r]) /\ ~Refused(r)
      /\ UNCHANGED <<at, asked, answer>>
  BY DEF Acquire, localVars
<1>2. Lane!Mergeable(r)
  BY <1>1, SameEntries DEF Lane!Mergeable, Refused
<1>3. CASE inFlight[at[r]]
  <2>1. pc' = [pc EXCEPT ![r] = "park"] /\ UNCHANGED <<inFlight, current, lane>>
    BY <1>3 DEF Acquire, Goto
  <2> QED BY <1>1, <1>2, <1>3, <2>1, SameLane, Phases, PhaseMoves, WhereStays, Labels
          DEF Lane!Lose
<1>4. CASE ~inFlight[at[r]]
  <2>1. /\ pc' = [pc EXCEPT ![r] = "drain"]
        /\ inFlight' = [inFlight EXCEPT ![at[r]] = TRUE]
        /\ current' = [current EXCEPT ![r] = AddTo(lane[at[r]], Incoming(r))]
        /\ lane' = [lane EXCEPT ![at[r]] = NoPending]
    BY <1>4 DEF Acquire, Goto
  <2> QED BY <1>1, <1>2, <1>4, <2>1, SameEntries, SameLane, Phases, PhaseMoves,
             WhereStays, Labels DEF Lane!Take
<1> QED BY <1>3, <1>4

LEMMA ParkParks ==
  ASSUME DispatcherInv, NEW r \in Runner, Park(r)
  PROVE  Lane!Park(r)
<1>1. /\ pc[r] = "park" /\ Finish(r)
      /\ lane' = [lane EXCEPT ![at[r]] = AddTo(@, Incoming(r))]
      /\ UNCHANGED <<inFlight, current, asked, answer>>
  BY DEF Park, slotVars
<1> QED BY <1>1, SameEntries, Phases, LeavesLane DEF Lane!Park

LEMMA CancelCancels ==
  ASSUME DispatcherInv, NEW r \in Runner, CancelDrain(r)
  PROVE  Lane!Cancel(r)
<1>1. /\ pc[r] \notin Away /\ LaneFree(at[r]) /\ Finish(r)
      /\ answer' = [q \in Runner |->
           IF q \in Waiters(current[r]) \cup Waiters(lane[at[r]])
           THEN "evicted" ELSE answer[q]]
      /\ lane' = [lane EXCEPT ![at[r]] = NoPending]
      /\ inFlight' = [inFlight EXCEPT ![at[r]] = FALSE]
      /\ current' = [current EXCEPT ![r] = NoPending]
      /\ asked' = asked
  BY DEF CancelDrain, EndDrain, Deliver, Away
<1> QED BY <1>1, SameEntries, SameLane, Phases, LeavesLane DEF Lane!Cancel, Lane!Tell

\* A runner that finds a request parked takes it, with or without a
\* cancellation; one that finds only a cancellation goes round again.
LEMMA ReleaseReleases ==
  ASSUME DispatcherInv, NEW r \in Runner, Release(r)
  PROVE  Lane!TakeParked(r) \/ Lane!Release(r) \/ LaneStutters
<1>1. /\ pc[r] = "release" /\ LaneFree(at[r]) /\ current[r] = NoPending
      /\ at[r] \in Slot /\ UNCHANGED <<asked, answer>>
  BY DEF Release, DispatcherInv, HandIsEmpty, TaskIsPlaced, Task
<1>2. CASE lane[at[r]] # NoPending \/ cancelled[at[r]]
  <2>1. /\ current' = [current EXCEPT ![r] = lane[at[r]]]
        /\ lane' = [lane EXCEPT ![at[r]] = NoPending]
        /\ pc' = [pc EXCEPT ![r] = "drain"] /\ UNCHANGED <<inFlight, at>>
    BY <1>2 DEF Release, Goto, localVars
  <2>2. /\ UNCHANGED [q \in Runner |-> PhaseOf(q)]
        /\ UNCHANGED [q \in Runner |-> IF pc[q] = "leaving" THEN NoSlot ELSE at[q]]
    BY <1>1, <2>1, PhaseMoves, WhereStays, Labels DEF Away
  <2>3. CASE lane[at[r]] # NoPending
    BY <1>1, <2>1, <2>2, <2>3, SameLane, Phases DEF Lane!TakeParked, Away
  <2>4. CASE lane[at[r]] = NoPending
    <3>1. lane' = lane /\ current' = current
      BY <1>1, <2>1, <2>4 DEF DispatcherInv, TypesKept
    <3> QED BY <1>1, <2>1, <2>2, <3>1 DEF LaneStutters, Lane!laneVars
  <2> QED BY <2>3, <2>4
<1>3. CASE lane[at[r]] = NoPending /\ ~cancelled[at[r]]
  <2>1. /\ inFlight' = [inFlight EXCEPT ![at[r]] = FALSE]
        /\ Finish(r) /\ current' = [current EXCEPT ![r] = NoPending] /\ lane' = lane
    BY <1>3 DEF Release, EndDrain
  <2>2. current' = current
    BY <1>1, <2>1 DEF DispatcherInv, TypesKept
  <2> QED BY <1>1, <1>3, <2>1, <2>2, SameLane, Phases, LeavesLane DEF Lane!Release, Away
<1> QED BY <1>2, <1>3

LEMMA DeliverServes ==
  ASSUME DispatcherInv, NEW r \in Runner, DeliverOutcome(r)
  PROVE  (\E o \in Lane!Outcome : Lane!Serve(r, o)) \/ LaneStutters
<1>0. PICK o \in Lane!Outcome : o = outcome[r]
  BY SameEntries DEF DispatcherInv, TypesKept
<1>1. /\ pc[r] = "deliver" /\ pc' = [pc EXCEPT ![r] = "next"]
      /\ answer' = [q \in Runner |-> IF q \in Waiters(current[r]) THEN o ELSE answer[q]]
      /\ current' = [current EXCEPT ![r] = NoPending]
      /\ UNCHANGED <<at, lane, inFlight, asked>>
  BY <1>0 DEF DeliverOutcome, Deliver, Goto, slotVars, localVars
<1>2. /\ UNCHANGED [q \in Runner |-> PhaseOf(q)]
      /\ UNCHANGED [q \in Runner |-> IF pc[q] = "leaving" THEN NoSlot ELSE at[q]]
  BY <1>1, PhaseMoves, WhereStays, Labels DEF Away
<1>3. CASE current[r] # NoPending
  <2>1. Lane!Serve(r, o)
    BY <1>1, <1>2, <1>3, SameEntries, Phases DEF Lane!Serve, Lane!Tell, Away
  <2> QED BY <2>1
<1>4. CASE current[r] = NoPending
  <2>1. current' = current /\ answer' = answer
    BY <1>1, <1>4 DEF DispatcherInv, TypesKept, Waiters
  <2> QED BY <1>1, <1>2, <2>1 DEF LaneStutters, Lane!laneVars
<1> QED BY <1>3, <1>4

LEMMA TakeNextTakes ==
  ASSUME DispatcherInv, NEW r \in Runner, TakeNext(r)
  PROVE  Lane!TakeParked(r) \/ LaneStutters
<1>1. /\ pc[r] = "next" /\ LaneFree(at[r]) /\ current[r] = NoPending
      /\ at[r] \in Slot
      /\ current' = [current EXCEPT ![r] = lane[at[r]]]
      /\ lane' = [lane EXCEPT ![at[r]] = NoPending]
      /\ pc' = [pc EXCEPT ![r] = "drain"]
      /\ UNCHANGED <<inFlight, at, asked, answer>>
  BY DEF TakeNext, Goto, slotVars, localVars, DispatcherInv, HandIsEmpty, TaskIsPlaced, Task
<1>2. /\ UNCHANGED [q \in Runner |-> PhaseOf(q)]
      /\ UNCHANGED [q \in Runner |-> IF pc[q] = "leaving" THEN NoSlot ELSE at[q]]
  BY <1>1, PhaseMoves, WhereStays, Labels DEF Away
<1>3. CASE lane[at[r]] # NoPending
  BY <1>1, <1>2, <1>3, SameLane, Phases DEF Lane!TakeParked, Away
<1>4. CASE lane[at[r]] = NoPending
  <2>1. lane' = lane /\ current' = current
    BY <1>1, <1>4 DEF DispatcherInv, TypesKept
  <2> QED BY <1>1, <1>2, <2>1 DEF LaneStutters, Lane!laneVars
<1> QED BY <1>3, <1>4

LEMMA SentinelUnwinds ==
  ASSUME DispatcherInv, NEW r \in Runner, SentinelDrop(r)
  PROVE  Lane!Unwind(r)
<1>1. /\ pc[r] = "unwound" /\ MayUnwind /\ Goto(r, "leaving") /\ at' = at
      /\ answer' = [q \in Runner |->
           IF q \in Waiters(current[r])
                      \cup (IF LaneFree(at[r]) THEN Waiters(lane[at[r]]) ELSE {})
           THEN "internal" ELSE answer[q]]
      /\ lane' = IF LaneFree(at[r]) THEN [lane EXCEPT ![at[r]] = NoPending] ELSE lane
      /\ inFlight' = [inFlight EXCEPT ![at[r]] = FALSE]
      /\ current' = [current EXCEPT ![r] = NoPending]
      /\ asked' = asked
  BY DEF SentinelDrop, Deliver, localVars, DispatcherInv, UnwoundMay
<1>2. LaneFree(at[r]) <=> Lane!LaneFree(at[r])
  BY <1>1, SameLaneOfRunner DEF DispatcherInv, OneDrains, Away
<1> QED BY <1>1, <1>2, SameEntries, Phases, LeavesLane
        DEF Lane!Unwind, Lane!Tell, Away

\* It has left the lane already when it leaves the state.
LEMMA LeavingStutters ==
  ASSUME DispatcherInv, NEW r \in Runner, SentinelLeaves(r)
  PROVE  LaneStutters
<1>1. /\ pc[r] = "leaving" /\ pc' = [pc EXCEPT ![r] = "idle"]
      /\ at' = [at EXCEPT ![r] = NoSlot]
      /\ current' = [current EXCEPT ![r] = NoPending]
      /\ UNCHANGED <<lane, inFlight, asked, answer>>
  BY DEF SentinelLeaves, EndDrain, Finish, Goto
<1>2. current' = current
  BY <1>1 DEF DispatcherInv, TypesKept, HandIsEmpty
<1>3. \A q \in Runner : /\ pc'[q] = IF q = r THEN "idle" ELSE pc[q]
                        /\ at'[q] = IF q = r THEN NoSlot ELSE at[q]
  BY <1>1 DEF DispatcherInv, TypesKept, Task
<1>4. \A q \in Runner : PhaseOf(q)' = PhaseOf(q)
  BY <1>1, <1>3 DEF PhaseOf
<1> QED BY <1>1, <1>2, <1>3, <1>4 DEF LaneStutters, Lane!laneVars

\* A visit to the lane by runner r: the role of a slot is its own afterwards,
\* or was, and is, somebody else's.
VisitStep(r) ==
  /\ \E p \in PC \ {"unwound"}, x \in Slot \cup {NoSlot} :
       /\ pc' = [pc EXCEPT ![r] = p]
       /\ at' = [at EXCEPT ![r] = x]
       /\ p # "idle" => x \in Slot
       /\ p \in {"release", "next", "leaving"} => current'[r] = NoPending
       /\ p = "leaving" => MayUnwind
       /\ \A s \in Slot : inFlight'[s] =>
            \/ s = x /\ p \notin Away
            \/ inFlight[s] /\ (at[r] # s \/ pc[r] \in Away)
       /\ p \notin Away =>
            inFlight'[x] /\ ((pc[r] \notin Away /\ at[r] = x) \/ ~inFlight[x])
  /\ \A s \in Slot :
       inFlight[s] /\ ~inFlight'[s] => at[r] = s /\ pc[r] \notin Away
  /\ \A s \in Slot : inFlight'[s] /\ ~inFlight[s] => LaneFree(s)
  /\ tombstone' = tombstone
  /\ \A q \in Runner \ {r} : current'[q] = current[q]
  /\ NoNewGate
  /\ inFlight' \in [Slot -> BOOLEAN]
  /\ entry' \in [Task -> Entries]
  /\ lane' \in [Slot -> Pending \cup {NoPending}]
  /\ current' \in [Runner -> Pending \cup {NoPending}]
  /\ asked' \in [Runner -> Request]
  /\ answer' \in [Runner -> Answer]
  /\ outcome' \in [Runner -> Outcome]

LEMMA VisitKeeps ==
  ASSUME DispatcherInv, NEW r \in Runner, VisitStep(r)
  PROVE  DispatcherInv'
<1> USE DEF DispatcherInv
<1>1. PICK p \in PC \ {"unwound"}, x \in Slot \cup {NoSlot} :
       /\ pc' = [pc EXCEPT ![r] = p]
       /\ at' = [at EXCEPT ![r] = x]
       /\ p # "idle" => x \in Slot
       /\ p \in {"release", "next", "leaving"} => current'[r] = NoPending
       /\ p = "leaving" => MayUnwind
       /\ \A s \in Slot : inFlight'[s] =>
            \/ s = x /\ p \notin Away
            \/ inFlight[s] /\ (at[r] # s \/ pc[r] \in Away)
       /\ p \notin Away =>
            inFlight'[x] /\ ((pc[r] \notin Away /\ at[r] = x) \/ ~inFlight[x])
  BY DEF VisitStep
<1>2. /\ \A s \in Slot :
           inFlight[s] /\ ~inFlight'[s] => at[r] = s /\ pc[r] \notin Away
      /\ \A s \in Slot : inFlight'[s] /\ ~inFlight[s] => LaneFree(s)
      /\ tombstone' = tombstone
      /\ \A q \in Runner \ {r} : current'[q] = current[q]
      /\ NoNewGate
  BY DEF VisitStep
<1>3. r \in Task /\ r \notin Loader
  BY LoaderAssumption DEF Task
<1>4. \A t \in Task : /\ pc'[t] = IF t = r THEN p ELSE pc[t]
                      /\ at'[t] = IF t = r THEN x ELSE at[t]
  BY <1>1, <1>3 DEF TypesKept
<1>5. TypesKept'
  <2>1. pc' \in [Task -> PC] /\ at' \in [Task -> Slot \cup {NoSlot}]
    BY <1>1, <1>3 DEF TypesKept
  <2> QED BY <2>1 DEF TypesKept, VisitStep, NoNewGate
<1>6. TaskIsPlaced'
  BY <1>1, <1>4 DEF TaskIsPlaced
<1>7. HandIsEmpty' /\ UnwoundMay'
  BY <1>1, <1>2, <1>4 DEF HandIsEmpty, UnwoundMay, Task
<1>8. RoleIsHeld'
  <2> SUFFICES ASSUME NEW s \in Slot, inFlight'[s]
               PROVE  \E q \in Runner : at'[q] = s /\ pc'[q] \notin Away
    BY DEF RoleIsHeld
  <2>1. CASE s = x /\ p \notin Away
    BY <1>3, <1>4, <2>1
  <2>2. CASE inFlight[s] /\ (at[r] # s \/ pc[r] \in Away)
    <3>1. PICK q \in Runner : at[q] = s /\ pc[q] \notin Away
      BY <2>2 DEF RoleIsHeld
    <3>2. q # r
      BY <2>2, <3>1
    <3> QED BY <1>4, <3>1, <3>2 DEF Task
  <2> QED BY <1>1, <2>1, <2>2
<1>9. LoadingHasOwner'
  BY <1>2, <1>3, <1>4 DEF LoadingHasOwner, NoNewGate, Task
<1>10. OneDrains'
  <2> SUFFICES ASSUME NEW u \in Runner, pc'[u] \notin Away
               PROVE  /\ inFlight'[at'[u]]
                      /\ \A q \in Runner : pc'[q] \notin Away /\ at'[q] = at'[u] => q = u
    BY DEF OneDrains
  <2>1. \A q \in Runner \ {r} : /\ pc'[q] = pc[q] /\ at'[q] = at[q]
                                /\ pc[q] \notin Away => at[q] \in Slot
    BY <1>4 DEF Task, TaskIsPlaced, Away
  <2>2. ASSUME NEW q \in Runner \ {r}, pc'[q] \notin Away PROVE inFlight'[at'[q]]
    <3>1. pc[q] \notin Away /\ at'[q] = at[q] /\ at[q] \in Slot
      BY <2>1, <2>2
    <3>2. inFlight[at[q]] /\ ~(pc[r] \notin Away /\ at[r] = at[q])
      BY <3>1 DEF OneDrains
    <3> QED BY <1>2, <3>1, <3>2
  <2>3. pc'[r] = p /\ at'[r] = x
    BY <1>3, <1>4
  <2>4. \A q \in Runner \ {r} : pc'[q] \notin Away /\ p \notin Away => at'[q] # x
    BY <1>1, <2>1 DEF OneDrains
  <2>5. CASE u = r
    BY <1>1, <2>3, <2>4, <2>5
  <2>6. CASE u # r
    <3>1. inFlight'[at'[u]]
      BY <2>2, <2>6
    <3>2. ASSUME NEW q \in Runner, pc'[q] \notin Away, at'[q] = at'[u] PROVE q = u
      <4>1. q # r
        BY <2>3, <2>4, <2>6, <3>2
      <4> QED BY <2>1, <2>6, <3>2, <4>1 DEF OneDrains
    <3> QED BY <3>1, <3>2
  <2> QED BY <2>5, <2>6
<1>11. ResetHoldsLane'
  <2>1. tombstone.by = "reset" => tombstone.slot \in Slot /\ ~LaneFree(tombstone.slot)
    BY DEF ResetHoldsLane, LaneFree
  <2> QED BY <1>2, <2>1 DEF ResetHoldsLane
<1> QED BY <1>5, <1>6, <1>7, <1>8, <1>9, <1>10, <1>11

\* What is delivered is an answer.
LEMMA DeliverType ==
  ASSUME DispatcherInv, NEW W, NEW o \in Answer, Deliver(W, o)
  PROVE  answer' \in [Runner -> Answer]
BY DEF DispatcherInv, TypesKept, Deliver

\* What leaving does to the places.
LEMMA FinishPlaces ==
  ASSUME DispatcherInv, NEW r \in Runner, Finish(r)
  PROVE  /\ pc' = [pc EXCEPT ![r] = "idle"]
         /\ at' = [at EXCEPT ![r] = NoSlot]
         /\ entry' \in [Task -> Entries]
BY NoEntryType DEF Finish, Goto, DispatcherInv, TypesKept, Task

VisitAction(r) ==
  \/ RefuseRequest(r) \/ Acquire(r) \/ Park(r) \/ CancelDrain(r) \/ Release(r)
  \/ DeliverOutcome(r) \/ TakeNext(r) \/ SentinelDrop(r) \/ SentinelLeaves(r)

LEMMA LookupKeeps ==
  ASSUME DispatcherInv, NEW r \in Runner, NEW k \in Key, Lookup(r, k)
  PROVE  DispatcherInv'
<1>1. PICK q \in Request :
        /\ asked' = [asked EXCEPT ![r] = q]
        /\ answer' = [answer EXCEPT ![r] = IF q.explicit THEN "pending" ELSE "none"]
  BY DEF Lookup
<1>2. /\ pc[r] = "idle" /\ pc' = [pc EXCEPT ![r] = "acquire"]
      /\ workspaces[k] \in Slot /\ at' = [at EXCEPT ![r] = workspaces[k]]
      /\ UNCHANGED <<state, cancelled, inFlight, tombstone, entry, lane, current, outcome>>
  BY DEF Lookup, Goto, mapVars, slotVars
<1>3. asked' \in [Runner -> Request] /\ answer' \in [Runner -> Answer]
  BY <1>1 DEF DispatcherInv, TypesKept, Answer
<1>4. NoNewGate
  BY <1>2, UnchangedOpensNothing
<1>5. /\ "acquire" \in PC \ {"unwound"} /\ "acquire" \notin {"release", "next", "leaving"}
      /\ "acquire" \in Away
  BY Labels DEF Away
<1>6. \A s \in Slot : (inFlight'[s] <=> inFlight[s]) /\ pc[r] \in Away
  BY <1>2 DEF Away
<1>7. VisitStep(r)
  BY <1>2, <1>3, <1>4, <1>5, <1>6 DEF VisitStep, DispatcherInv, TypesKept
<1> QED BY <1>7, VisitKeeps

LEMMA VisitShape ==
  ASSUME DispatcherInv, NEW r \in Runner, VisitAction(r)
  PROVE  VisitStep(r)
<1>0. r \in Task
  BY DEF Task
<1>a. /\ "idle" \in PC \ {"unwound"} /\ "idle" \notin {"release", "next", "leaving"}
      /\ "idle" \in Away
  BY Labels DEF Away
<1> USE DEF mapVars, slotVars, localVars
<1>1. CASE RefuseRequest(r)
  <2>1. /\ pc[r] = "acquire" /\ Finish(r) /\ Deliver(Incoming(r).waiters, "refused")
        /\ UNCHANGED <<state, cancelled, inFlight, tombstone, lane, current, asked, outcome>>
    BY <1>1 DEF RefuseRequest
  <2>2. answer' \in [Runner -> Answer]
    BY <2>1, DeliverType DEF Answer, Outcome
  <2>3. \A s \in Slot : (inFlight'[s] <=> inFlight[s]) /\ pc[r] \in Away
    BY <2>1 DEF Away
  <2> QED BY <1>a, <2>1, <2>2, <2>3, FinishPlaces, UnchangedOpensNothing
          DEF VisitStep, DispatcherInv, TypesKept
<1>2. CASE Acquire(r)
  <2>1. /\ pc[r] = "acquire" /\ at[r] \in Slot /\ LaneFree(at[r])
        /\ UNCHANGED <<at, state, cancelled, tombstone, entry, asked, answer, outcome>>
    BY <1>0, <1>2 DEF Acquire, DispatcherInv, TaskIsPlaced
  <2>2. at' = [at EXCEPT ![r] = at[r]] /\ NoNewGate
    BY <1>0, <2>1, UnchangedOpensNothing DEF DispatcherInv, TypesKept
  <2>3. CASE inFlight[at[r]]
    <3>1. pc' = [pc EXCEPT ![r] = "park"] /\ UNCHANGED <<inFlight, current, lane>>
      BY <1>2, <2>3 DEF Acquire, Goto
    <3>2. /\ "park" \in PC \ {"unwound"} /\ "park" \notin {"release", "next", "leaving"}
          /\ "park" \in Away
      BY Labels DEF Away
    <3>3. \A s \in Slot : (inFlight'[s] <=> inFlight[s]) /\ pc[r] \in Away
      BY <2>1, <3>1 DEF Away
    <3> QED BY <2>1, <2>2, <3>1, <3>2, <3>3 DEF VisitStep, DispatcherInv, TypesKept
  <2>4. CASE ~inFlight[at[r]]
    <3>1. /\ pc' = [pc EXCEPT ![r] = "drain"]
          /\ inFlight' = [inFlight EXCEPT ![at[r]] = TRUE]
          /\ current' = [current EXCEPT ![r] = AddTo(lane[at[r]], Incoming(r))]
          /\ lane' = [lane EXCEPT ![at[r]] = NoPending]
      BY <1>2, <2>4 DEF Acquire, Goto
    <3>2. /\ "drain" \in PC \ {"unwound"} /\ "drain" \notin {"release", "next", "leaving"}
          /\ "drain" \notin Away
      BY Labels
    <3>3. lane[at[r]] \in Pending \cup {NoPending} /\ Incoming(r) \in Pending
      BY <2>1, IncomingType DEF DispatcherInv, TypesKept
    <3>4. AddTo(lane[at[r]], Incoming(r)) \in Pending
      BY <3>3, AddToType
    <3>5. /\ inFlight' \in [Slot -> BOOLEAN]
          /\ lane' \in [Slot -> Pending \cup {NoPending}]
          /\ current' \in [Runner -> Pending \cup {NoPending}]
          /\ \A q \in Runner \ {r} : current'[q] = current[q]
      BY <3>1, <3>4 DEF DispatcherInv, TypesKept
    <3>6. /\ \A s \in Slot : inFlight'[s] <=> s = at[r] \/ inFlight[s]
          /\ inFlight'[at[r]] /\ pc[r] \in Away
          /\ \A s \in Slot : inFlight'[s] /\ ~inFlight[s] => LaneFree(s)
      BY <2>1, <3>1 DEF Away, DispatcherInv, TypesKept
    <3> QED BY <2>1, <2>2, <2>4, <3>1, <3>2, <3>5, <3>6
            DEF VisitStep, DispatcherInv, TypesKept
  <2> QED BY <2>3, <2>4
<1>3. CASE Park(r)
  <2>1. /\ pc[r] = "park" /\ Finish(r)
        /\ lane' = [lane EXCEPT ![at[r]] = AddTo(@, Incoming(r))]
        /\ UNCHANGED <<state, cancelled, inFlight, tombstone, current, asked, answer, outcome>>
    BY <1>3 DEF Park
  <2>2. at[r] \in Slot
    BY <1>0, <2>1 DEF DispatcherInv, TaskIsPlaced
  <2>3. AddTo(lane[at[r]], Incoming(r)) \in Pending
    BY <2>2, IncomingType, AddToType DEF DispatcherInv, TypesKept
  <2>4. lane' \in [Slot -> Pending \cup {NoPending}]
    BY <2>1, <2>3 DEF DispatcherInv, TypesKept
  <2>5. \A s \in Slot : (inFlight'[s] <=> inFlight[s]) /\ pc[r] \in Away
    BY <2>1 DEF Away
  <2> QED BY <1>a, <2>1, <2>4, <2>5, FinishPlaces, UnchangedOpensNothing
          DEF VisitStep, DispatcherInv, TypesKept
<1>4. ASSUME EndDrain(r), inFlight' = [inFlight EXCEPT ![at[r]] = FALSE],
             NoNewGate, UNCHANGED <<asked, tombstone>>, answer' \in [Runner -> Answer],
             lane' \in [Slot -> Pending \cup {NoPending}], at[r] \in Slot,
             pc[r] \notin Away
      PROVE  VisitStep(r)
  <2>1. /\ Finish(r) /\ current' = [current EXCEPT ![r] = NoPending]
        /\ outcome' = [outcome EXCEPT ![r] = "internal"]
    BY <1>4 DEF EndDrain
  <2>2. /\ inFlight' \in [Slot -> BOOLEAN] /\ asked' \in [Runner -> Request]
        /\ current' \in [Runner -> Pending \cup {NoPending}]
        /\ \A q \in Runner \ {r} : current'[q] = current[q]
    BY <1>4, <2>1 DEF DispatcherInv, TypesKept
  <2>3. outcome' \in [Runner -> Outcome]
    BY <2>1 DEF DispatcherInv, TypesKept, Outcome
  <2>4. \A s \in Slot : inFlight'[s] <=> inFlight[s] /\ at[r] # s
    BY <1>4 DEF DispatcherInv, TypesKept
  <2> QED BY <1>4, <1>a, <2>1, <2>2, <2>3, <2>4, FinishPlaces DEF VisitStep
<1>5. CASE CancelDrain(r)
  <2>1. /\ pc[r] = "consumed" /\ EndDrain(r)
        /\ inFlight' = [inFlight EXCEPT ![at[r]] = FALSE]
        /\ Deliver(Waiters(current[r]) \cup Waiters(lane[at[r]]), "evicted")
        /\ lane' = [lane EXCEPT ![at[r]] = NoPending]
        /\ TransitionState(at[r], "Rebuilding", "Unloaded")
        /\ UNCHANGED <<cancelled, asked, tombstone>>
    BY <1>5 DEF CancelDrain
  <2>2. at[r] \in Slot
    BY <1>0, <2>1 DEF DispatcherInv, TaskIsPlaced
  <2>3. answer' \in [Runner -> Answer]
    BY <2>1, DeliverType DEF Answer, Outcome
  <2>4. NoNewGate
    BY <2>1, TransitionOpens DEF State, DispatcherInv, TypesKept
  <2>5. lane' \in [Slot -> Pending \cup {NoPending}]
    BY <2>1 DEF DispatcherInv, TypesKept
  <2> QED BY <1>4, <2>1, <2>2, <2>3, <2>4, <2>5 DEF Away
<1>6. CASE SentinelDrop(r)
  <2>1. /\ pc[r] = "unwound" /\ pc' = [pc EXCEPT ![r] = "leaving"]
        /\ inFlight' = [inFlight EXCEPT ![at[r]] = FALSE]
        /\ \E W : Deliver(W, "internal")
        /\ lane' = lane \/ lane' = [lane EXCEPT ![at[r]] = NoPending]
        /\ current' = [current EXCEPT ![r] = NoPending]
        /\ UNCHANGED <<at, state, cancelled, entry, asked, outcome, tombstone>>
    BY <1>6 DEF SentinelDrop, Goto
  <2>2. at[r] \in Slot /\ MayUnwind
    BY <1>0, <2>1 DEF DispatcherInv, TaskIsPlaced, UnwoundMay
  <2>3. answer' \in [Runner -> Answer]
    BY <2>1, DeliverType DEF Answer, Outcome
  <2>4. NoNewGate /\ at' = [at EXCEPT ![r] = at[r]]
    BY <1>0, <2>1, UnchangedOpensNothing DEF DispatcherInv, TypesKept
  <2>5. /\ lane' \in [Slot -> Pending \cup {NoPending}]
        /\ inFlight' \in [Slot -> BOOLEAN]
        /\ current' \in [Runner -> Pending \cup {NoPending}]
        /\ \A q \in Runner \ {r} : current'[q] = current[q]
        /\ current'[r] = NoPending
    BY <2>1 DEF DispatcherInv, TypesKept
  <2>6. \A s \in Slot : inFlight'[s] <=> inFlight[s] /\ at[r] # s
    BY <2>1 DEF DispatcherInv, TypesKept
  <2>7. "leaving" \in PC \ {"unwound"} /\ "leaving" \in Away /\ pc[r] \notin Away
    BY <2>1, Labels DEF Away
  <2> QED BY <2>1, <2>2, <2>3, <2>4, <2>5, <2>6, <2>7
          DEF VisitStep, DispatcherInv, TypesKept
<1>b. CASE SentinelLeaves(r)
  <2>1. /\ pc[r] = "leaving" /\ Finish(r)
        /\ current' = [current EXCEPT ![r] = NoPending]
        /\ outcome' = [outcome EXCEPT ![r] = "internal"]
        /\ TransitionState(at[r], "Rebuilding", "Failed")
        /\ UNCHANGED <<cancelled, inFlight, lane, asked, answer, tombstone>>
    BY <1>b DEF SentinelLeaves, EndDrain
  <2>2. NoNewGate
    BY <2>1, TransitionOpens DEF State, DispatcherInv, TypesKept
  <2>3. /\ current' \in [Runner -> Pending \cup {NoPending}]
        /\ \A q \in Runner \ {r} : current'[q] = current[q]
    BY <2>1 DEF DispatcherInv, TypesKept
  <2>4. outcome' \in [Runner -> Outcome]
    BY <2>1 DEF DispatcherInv, TypesKept, Outcome
  <2>5. \A s \in Slot : (inFlight'[s] <=> inFlight[s]) /\ pc[r] \in Away
    BY <2>1 DEF Away
  <2> QED BY <1>a, <2>1, <2>2, <2>3, <2>4, <2>5, FinishPlaces
          DEF VisitStep, DispatcherInv, TypesKept
<1>7. ASSUME pc[r] \notin Away,
             \E p \in {"drain", "next"} :
               pc' = [pc EXCEPT ![r] = p] /\ (p = "next" => current'[r] = NoPending),
             UNCHANGED <<at, state, cancelled, tombstone, entry, inFlight, asked, outcome>>,
             NEW c \in Pending \cup {NoPending}, current' = [current EXCEPT ![r] = c],
             answer' \in [Runner -> Answer],
             lane' \in [Slot -> Pending \cup {NoPending}]
      PROVE  VisitStep(r)
  <2>1. at[r] \in Slot
    BY <1>0, <1>7 DEF DispatcherInv, TaskIsPlaced, Away
  <2>2. at' = [at EXCEPT ![r] = at[r]] /\ NoNewGate
    BY <1>0, <1>7, UnchangedOpensNothing DEF DispatcherInv, TypesKept
  <2>3. PICK p \in {"drain", "next"} :
          pc' = [pc EXCEPT ![r] = p] /\ (p = "next" => current'[r] = NoPending)
    BY <1>7
  <2>4. /\ p \in PC \ {"unwound"} /\ p \notin Away
        /\ p \in {"release", "next", "leaving"} => p = "next"
    BY <2>3, Labels
  <2>5. /\ current' \in [Runner -> Pending \cup {NoPending}]
        /\ \A q \in Runner \ {r} : current'[q] = current[q]
    BY <1>7 DEF DispatcherInv, TypesKept
  <2>6. /\ \A s \in Slot : inFlight'[s] <=> inFlight[s]
        /\ inFlight'[at[r]]
    BY <1>7 DEF DispatcherInv, OneDrains
  <2> QED BY <1>7, <2>1, <2>2, <2>3, <2>4, <2>5, <2>6 DEF VisitStep, DispatcherInv, TypesKept
<1>8. CASE Release(r)
  <2>1. /\ pc[r] = "release" /\ at[r] \in Slot
        /\ UNCHANGED <<state, cancelled, tombstone, asked, answer>>
    BY <1>0, <1>8 DEF Release, DispatcherInv, TaskIsPlaced
  <2>2. lane[at[r]] \in Pending \cup {NoPending} /\ answer' \in [Runner -> Answer]
    BY <2>1 DEF DispatcherInv, TypesKept
  <2>3. CASE lane[at[r]] # NoPending \/ cancelled[at[r]]
    <3>1. /\ current' = [current EXCEPT ![r] = lane[at[r]]]
          /\ lane' = [lane EXCEPT ![at[r]] = NoPending]
          /\ pc' = [pc EXCEPT ![r] = "drain"]
          /\ UNCHANGED <<inFlight, at, entry, outcome>>
      BY <1>8, <2>3 DEF Release, Goto
    <3>2. lane' \in [Slot -> Pending \cup {NoPending}]
      BY <3>1 DEF DispatcherInv, TypesKept
    <3> QED BY <1>7, <2>1, <2>2, <3>1, <3>2 DEF Away
  <2>4. CASE lane[at[r]] = NoPending /\ ~cancelled[at[r]]
    <3>1. /\ inFlight' = [inFlight EXCEPT ![at[r]] = FALSE] /\ EndDrain(r) /\ lane' = lane
      BY <1>8, <2>4 DEF Release
    <3>2. lane' \in [Slot -> Pending \cup {NoPending}]
      BY <3>1 DEF DispatcherInv, TypesKept
    <3> QED BY <1>4, <2>1, <2>2, <3>1, <3>2, UnchangedOpensNothing DEF Away
  <2> QED BY <2>3, <2>4
<1>9. CASE DeliverOutcome(r)
  <2>1. /\ pc[r] = "deliver" /\ pc' = [pc EXCEPT ![r] = "next"]
        /\ Deliver(Waiters(current[r]), outcome[r])
        /\ current' = [current EXCEPT ![r] = NoPending]
        /\ UNCHANGED <<at, state, cancelled, tombstone, entry, inFlight, lane, asked, outcome>>
    BY <1>9 DEF DeliverOutcome, Goto
  <2>2. outcome[r] \in Answer
    BY DEF DispatcherInv, TypesKept, Answer
  <2>3. answer' \in [Runner -> Answer]
    BY <2>1, <2>2, DeliverType
  <2>4. lane' \in [Slot -> Pending \cup {NoPending}] /\ current'[r] = NoPending
    BY <2>1 DEF DispatcherInv, TypesKept
  <2> QED BY <1>7, <2>1, <2>3, <2>4 DEF Away
<1>10. CASE TakeNext(r)
  <2>1. /\ pc[r] = "next" /\ pc' = [pc EXCEPT ![r] = "drain"]
        /\ current' = [current EXCEPT ![r] = lane[at[r]]]
        /\ lane' = [lane EXCEPT ![at[r]] = NoPending]
        /\ UNCHANGED <<at, state, cancelled, tombstone, entry, inFlight, asked, answer, outcome>>
    BY <1>10 DEF TakeNext, Goto
  <2>2. at[r] \in Slot
    BY <1>0, <2>1 DEF DispatcherInv, TaskIsPlaced
  <2>3. /\ lane[at[r]] \in Pending \cup {NoPending} /\ answer' \in [Runner -> Answer]
        /\ lane' \in [Slot -> Pending \cup {NoPending}]
    BY <2>1, <2>2 DEF DispatcherInv, TypesKept
  <2> QED BY <1>7, <2>1, <2>2, <2>3 DEF Away
<1> QED BY <1>1, <1>2, <1>3, <1>5, <1>6, <1>8, <1>9, <1>10, <1>b DEF VisitAction

(***************************************************************************)
(* Theorems.                                                               *)
(***************************************************************************)

\* Every step has one of the shapes above.
LEMMA StepShapes ==
  ASSUME [DispatcherNext]_vars
  PROVE  \/ \E r \in Runner : InnerAction(r) \/ VisitAction(r)
         \/ \E r \in Runner, k \in Key : Lookup(r, k)
         \/ \E l \in Loader : LoaderStep(l) \/ LoadRequest(l)
         \/ OutsideAction
BY DEF DispatcherNext, LaneStep, IterationStep, InnerAction, VisitAction, OutsideAction

LEMMA InitKeeps == DispatcherInit => DispatcherInv
<1> SUFFICES ASSUME DispatcherInit PROVE DispatcherInv
  OBVIOUS
<1>1. TypesKept
  BY Labels, NoEntryType
     DEF DispatcherInit, Init, TypesKept, State, Request, WatcherRequest, Answer, Outcome
<1>2. TaskIsPlaced /\ HandIsEmpty /\ UnwoundMay /\ RoleIsHeld /\ OneDrains
        /\ LoadingHasOwner /\ ResetHoldsLane
  BY DEF DispatcherInit, Init, TaskIsPlaced, HandIsEmpty, UnwoundMay, RoleIsHeld,
     OneDrains, LoadingHasOwner, ResetHoldsLane, NoTombstone, Task, Away
<1> QED BY <1>1, <1>2 DEF DispatcherInv

LEMMA NextKeeps ==
  ASSUME DispatcherInv, [DispatcherNext]_vars
  PROVE  DispatcherInv'
BY StepShapes, InnerShape, InnerKeeps, VisitShape, VisitKeeps, LookupKeeps, LoadShape,
   LoadRequestShape, LoadKeeps, OutsideShape, OutsideKeeps

\* The inductive invariant of the dispatcher over the registry: loads,
\* evictions, unloads, resets and cancellations included, the role flag of a
\* slot is set by a runner that drains it, and nobody in the drain loop or
\* past the load gate has lost its slot.
THEOREM DispatcherInvariance == DispatcherSpec => []DispatcherInv
<1>1. DispatcherInit => DispatcherInv
  BY InitKeeps
<1>2. DispatcherInv /\ [DispatcherNext]_vars => DispatcherInv'
  BY NextKeeps
<1> QED BY <1>1, <1>2, PTL DEF DispatcherSpec

\* prepare_load_gate's promise: however evictions, resets, refusals and
\* rebuilds change the slot meanwhile, a slot in Loading has a load past the
\* gate that will open it (the LoadingGuard, abandon_load or the publication).
THEOREM GatesAreOwned == DispatcherSpec => []LoadingHasOwner
<1>1. DispatcherInv => LoadingHasOwner
  BY DEF DispatcherInv
<1> QED BY <1>1, DispatcherInvariance, PTL

\* Every step of the dispatcher is a step of the lane or none.
LEMMA StepIsLaneStep ==
  ASSUME DispatcherInv, [DispatcherNext]_vars
  PROVE  [Lane!Next]_(Lane!laneVars)
<1>1. ASSUME NEW r \in Runner, VisitAction(r) PROVE Lane!Step(r) \/ LaneStutters
  BY <1>1, RefusalRefuses, AcquireTakesOrLoses, ParkParks, CancelCancels, ReleaseReleases,
     DeliverServes, TakeNextTakes, SentinelUnwinds, LeavingStutters DEF VisitAction, Lane!Step
<1>2. ASSUME NEW r \in Runner, InnerAction(r) PROVE LaneStutters
  BY <1>2, InnerShape, InnerStutters
<1>3. ASSUME NEW l \in Loader, LoaderStep(l) \/ LoadRequest(l) PROVE LaneStutters
  BY <1>3, LoadShape, LoadRequestShape, LoadStutters
<1>4. ASSUME OutsideAction PROVE LaneStutters
  BY <1>4, OutsideShape, OutsideStutters
<1>5. ASSUME NEW r \in Runner, NEW k \in Key, Lookup(r, k)
      PROVE  \E s \in Slot : Lane!Ask(r, s)
  BY <1>5, LookupAsks
<1> QED BY <1>1, <1>2, <1>3, <1>4, <1>5, StepShapes DEF LaneStutters, Lane!Next

\* The dispatcher implements the lane: over the whole registry, with slots
\* evicted, removed and replaced under a runner, requests still see one lane
\* per slot whose role is taken, handed over and given up as RebuildLane says.
THEOREM DispatcherRefinesLane == DispatcherSpec => ImplementsLane
<1>1. DispatcherInit => Lane!Init
  <2> SUFFICES ASSUME DispatcherInit PROVE Lane!Init
    OBVIOUS
  <2>1. \A r \in Runner : PhaseOf(r) = "out" /\ at[r] = NoSlot /\ pc[r] # "leaving"
    BY DEF DispatcherInit, Init, PhaseOf, Task
  <2> QED BY <2>1, SameEntries DEF DispatcherInit, Init, Lane!Init
<1>2. DispatcherInv /\ [DispatcherNext]_vars => [Lane!Next]_(Lane!laneVars)
  BY StepIsLaneStep
<1> QED BY <1>1, <1>2, DispatcherInvariance, PTL
        DEF DispatcherSpec, ImplementsLane, Lane!Spec

\* The same in the lane's terms, of the registry's own flag: two tasks never
\* drain one slot, and rebuild_in_flight says whether one does, whatever load,
\* eviction or reset happens to the slot meanwhile.
THEOREM DispatcherHasOneRunner == DispatcherSpec => []Lane!OneRunner
<1>1. DispatcherInv => Lane!OneRunner
  <2> SUFFICES ASSUME DispatcherInv PROVE Lane!OneRunner
    OBVIOUS
  <2>0. ASSUME NEW c \in Runner, PhaseOf(c) = "running" PROVE pc[c] # "leaving"
    BY <2>0, Phases DEF Away
  <2>1. ASSUME NEW c \in Runner, NEW d \in Runner, PhaseOf(c) = "running",
               PhaseOf(d) = "running", at[c] = at[d]
        PROVE  c = d
    BY <2>1, Phases DEF DispatcherInv, OneDrains
  <2>2. ASSUME NEW s \in Slot
        PROVE  inFlight[s] <=> \E c \in Runner : PhaseOf(c) = "running" /\ at[c] = s
    BY Phases DEF DispatcherInv, OneDrains, RoleIsHeld
  <2> QED BY <2>0, <2>1, <2>2 DEF Lane!OneRunner
<1> QED BY <1>1, DispatcherInvariance, PTL

(***************************************************************************)
(* Nobody is left Rebuilding.                                              *)
(*                                                                         *)
(* The state says Rebuilding from EnterRebuilding to the end of the        *)
(* iteration, and past it when the re-check found a cancellation, which    *)
(* leaves it to the gate.  So the flag must survive until the gate reads   *)
(* it, and no load may give the slot of a running iteration away.  Only    *)
(* where an unwound runner has given up the role and not yet the state may *)
(* the next one find Rebuilding when it enters.                            *)
(***************************************************************************)

\* A load that passed its gate.
PastGate(l) == pc[l] \notin {"idle", "gate"}

\* No two loads are past the gate of one slot.  A second one gets in only
\* when an eviction took the gate of the first.
OneLoadPerSlot ==
  \A l, m \in Loader : PastGate(l) /\ PastGate(m) /\ at[l] = at[m] => l = m

\* No runner can enter the slot: it is gated, a tombstone, or reset with its
\* watcher stopped, where every request is refused.
Shut(s) ==
  \/ state[s] \in {"Loading", "Evicted"}
  \/ state[s] = "Unloaded" /\ ~inFlight[s] /\ ~watching[s]

LoadHolds ==
  \A l \in Loader :
    PastGate(l) =>
      entry[l].prior \in {"Unloaded", "Failed", "Evicted"} /\ Shut(at[l])

\* The places of a runner between two iterations, its gate still ahead.
Quiet == {"deliver", "next", "drain"}

\* An unwound runner is about to take the slot out of Rebuilding.
LeftBehind(s) == \E r \in Runner : pc[r] = "leaving" /\ at[r] = s

\* A runner whose slot says Rebuilding is in its iteration, or has a
\* cancellation ahead of it that the gate will read.
IterationOpen(r) ==
  pc[r] \notin Away /\ state[at[r]] = "Rebuilding" /\ ~LeftBehind(at[r]) =>
    /\ pc[r] \notin {"release", "enter"}
    /\ pc[r] \in Quiet => cancelled[at[r]]

RoleInv ==
  /\ watching \in [Slot -> BOOLEAN]
  /\ LoadHolds
  /\ \A r \in Runner : IterationOpen(r)
  /\ RebuildingHasRunner

\* What a step leaves of a slot it does not work on.
ShutKept(s) == Shut(s) => Shut(s)'

RunKept(s) ==
  state'[s] = "Rebuilding" =>
    /\ state[s] = "Rebuilding"
    /\ inFlight[s] => inFlight'[s] /\ (cancelled[s] => cancelled'[s])

\* Nobody but t moves.
OnlyMoves(t) ==
  \A u \in Task \ {t} : pc'[u] = pc[u] /\ at'[u] = at[u] /\ entry'[u] = entry[u]

\* A step of a runner keeps the invariant if it shuts no slot up and takes
\* Rebuilding only to its own.
LEMMA RunnerKeepsRole ==
  ASSUME DispatcherInv, RoleInv, NEW r \in Runner, OnlyMoves(r),
         watching' \in [Slot -> BOOLEAN],
         \A s \in Slot : ShutKept(s),
         \A s \in Slot :
           s # at[r] \/ pc[r] \in {"idle", "acquire", "park"} => RunKept(s),
         pc[r] \notin {"idle", "acquire", "park"} /\ state'[at[r]] = "Rebuilding" =>
           /\ pc[r] # "leaving"
           /\ \/ inFlight'[at[r]]
              \/ pc'[r] = "leaving" /\ at'[r] = at[r]
              \/ \E q \in Runner \ {r} : pc[q] = "leaving" /\ at[q] = at[r],
         IterationOpen(r)'
  PROVE  RoleInv'
<1>1. r \in Task /\ r \notin Loader
  BY LoaderAssumption DEF Task
<1>2. LoadHolds'
  <2> SUFFICES ASSUME NEW l \in Loader, PastGate(l)'
               PROVE  entry'[l].prior \in {"Unloaded", "Failed", "Evicted"} /\ Shut(at[l])'
    BY DEF LoadHolds
  <2>1. pc'[l] = pc[l] /\ at'[l] = at[l] /\ entry'[l] = entry[l] /\ at[l] \in Slot
    BY <1>1 DEF OnlyMoves, Task, PastGate, DispatcherInv, TaskIsPlaced
  <2>2. entry[l].prior \in {"Unloaded", "Failed", "Evicted"} /\ Shut(at[l])
    BY <2>1 DEF RoleInv, LoadHolds, PastGate
  <2>3. \A s \in Slot : Shut(s) => Shut(s)'
    BY DEF ShutKept
  <2> QED BY <2>1, <2>2, <2>3 DEF Shut
<1>5. ASSUME NEW s \in Slot, LeftBehind(s),
             s # at[r] \/ pc[r] \in {"idle", "acquire", "park"}
      PROVE  LeftBehind(s)'
  <2>1. PICK q \in Runner : pc[q] = "leaving" /\ at[q] = s
    BY <1>5 DEF LeftBehind
  <2>2. q # r
    BY <1>5, <2>1
  <2>3. pc'[q] = "leaving" /\ at'[q] = s
    BY <2>1, <2>2 DEF OnlyMoves, Task
  <2> QED BY <2>3 DEF LeftBehind
<1>3. ASSUME NEW q \in Runner PROVE IterationOpen(q)'
  <2>1. CASE q = r
    BY <2>1
  <2>2. CASE q # r
    <3>1. pc'[q] = pc[q] /\ at'[q] = at[q]
      BY <2>2 DEF OnlyMoves, Task
    <3>2. CASE pc[q] \in Away
      BY <3>1, <3>2 DEF IterationOpen
    <3>3. CASE pc[q] \notin Away
      <4>1. at[q] \in Slot
        BY <3>3 DEF DispatcherInv, TaskIsPlaced, Task, Away
      <4>2. inFlight[at[q]] /\ (pc[r] \in Away \/ at[q] # at[r])
        BY <2>2, <3>3 DEF DispatcherInv, OneDrains
      <4>3. CASE at[q] = at[r] /\ pc[r] = "leaving"
        BY <3>1, <4>3 DEF IterationOpen
      <4>4. CASE at[q] # at[r] \/ pc[r] \in {"idle", "acquire", "park"}
        <5>1. RunKept(at[q])
          BY <4>1, <4>4
        <5>3. LeftBehind(at[q]) => LeftBehind(at[q])'
          <6>1. \A s \in Slot : s = at[q] /\ LeftBehind(s) => LeftBehind(s)'
            BY <1>5, <4>4
          <6> QED BY <3>1, <4>1, <6>1 DEF LeftBehind
        <5>2. ASSUME state'[at[q]] = "Rebuilding", ~LeftBehind(at[q])'
              PROVE  /\ pc[q] \notin {"release", "enter"}
                     /\ pc[q] \in Quiet => cancelled'[at[q]]
          BY <3>3, <4>2, <5>1, <5>2, <5>3 DEF RunKept, RoleInv, IterationOpen
        <5> QED BY <3>1, <5>2 DEF IterationOpen
      <4> QED BY <4>2, <4>3, <4>4 DEF Away
    <3> QED BY <3>2, <3>3
  <2> QED BY <2>1, <2>2
<1>4. ASSUME NEW s \in Slot, state'[s] = "Rebuilding"
      PROVE  inFlight'[s] \/ LeftBehind(s)'
  <2>1. CASE s # at[r] \/ pc[r] \in {"idle", "acquire", "park"}
    <3>1. RunKept(s) /\ (LeftBehind(s) => LeftBehind(s)')
      BY <1>5, <2>1
    <3>2. inFlight[s] \/ LeftBehind(s)
      BY <1>4, <3>1 DEF RoleInv, RebuildingHasRunner, RunKept, LeftBehind
    <3> QED BY <1>4, <3>1, <3>2 DEF RunKept
  <2>2. CASE s = at[r] /\ pc[r] \notin {"idle", "acquire", "park"}
    BY <1>4, <2>2 DEF LeftBehind, OnlyMoves, Task
  <2> QED BY <2>1, <2>2
<1>6. RebuildingHasRunner'
  BY <1>4 DEF RebuildingHasRunner, LeftBehind
<1> QED BY <1>2, <1>3, <1>6 DEF RoleInv

\* A step of a loader, if it touches no Rebuilding and shuts its own slot.
LEMMA LoaderKeepsRole ==
  ASSUME DispatcherInv, RoleInv, OneLoadPerSlot, NEW l \in Loader, OnlyMoves(l),
         watching' \in [Slot -> BOOLEAN],
         \A s \in Slot : RunKept(s),
         \A s \in Slot : s # at[l] \/ ~PastGate(l) => ShutKept(s),
         PastGate(l)' =>
           entry'[l].prior \in {"Unloaded", "Failed", "Evicted"} /\ Shut(at[l])'
  PROVE  RoleInv'
<1>1. l \in Task /\ l \notin Runner
  BY LoaderAssumption DEF Task
<1>2. LoadHolds'
  <2> SUFFICES ASSUME NEW m \in Loader, PastGate(m)'
               PROVE  entry'[m].prior \in {"Unloaded", "Failed", "Evicted"} /\ Shut(at[m])'
    BY DEF LoadHolds
  <2>1. CASE m = l
    BY <2>1
  <2>2. CASE m # l
    <3>1. pc'[m] = pc[m] /\ at'[m] = at[m] /\ entry'[m] = entry[m] /\ at[m] \in Slot
      BY <2>2 DEF OnlyMoves, Task, PastGate, DispatcherInv, TaskIsPlaced
    <3>2. /\ entry[m].prior \in {"Unloaded", "Failed", "Evicted"}
          /\ Shut(at[m]) /\ PastGate(m)
      BY <3>1 DEF RoleInv, LoadHolds, PastGate
    <3>3. at[m] # at[l] \/ ~PastGate(l)
      BY <2>2, <3>2 DEF OneLoadPerSlot
    <3>4. ShutKept(at[m])
      BY <3>1, <3>3
    <3> QED BY <3>1, <3>2, <3>4 DEF ShutKept, Shut
  <2> QED BY <2>1, <2>2
<1>3. ASSUME NEW q \in Runner PROVE IterationOpen(q)'
  <2>1. pc'[q] = pc[q] /\ at'[q] = at[q]
    BY <1>1 DEF OnlyMoves, Task
  <2>2. CASE pc[q] \in Away
    BY <2>1, <2>2 DEF IterationOpen
  <2>3. CASE pc[q] \notin Away
    <3>1. RunKept(at[q]) /\ inFlight[at[q]]
      BY <2>3 DEF DispatcherInv, TaskIsPlaced, OneDrains, Task, Away
    <3>2. LeftBehind(at[q]) => LeftBehind(at[q])'
      BY <1>1, <2>1 DEF LeftBehind, OnlyMoves, Task
    <3> QED BY <2>1, <3>1, <3>2 DEF RunKept, RoleInv, IterationOpen
  <2> QED BY <2>2, <2>3
<1>4. RebuildingHasRunner'
  <2>1. \A q \in Runner : pc'[q] = pc[q] /\ at'[q] = at[q]
    BY <1>1 DEF OnlyMoves, Task
  <2> QED BY <2>1 DEF RebuildingHasRunner, RunKept, RoleInv
<1> QED BY <1>2, <1>3, <1>4 DEF RoleInv

LEMMA OutsideKeepsRole ==
  ASSUME DispatcherInv, RoleInv, UNCHANGED <<pc, at, entry>>,
         watching' \in [Slot -> BOOLEAN],
         \A s \in Slot : ShutKept(s) /\ RunKept(s)
  PROVE  RoleInv'
<1>1. LoadHolds'
  <2> SUFFICES ASSUME NEW l \in Loader, PastGate(l)'
               PROVE  entry'[l].prior \in {"Unloaded", "Failed", "Evicted"} /\ Shut(at[l])'
    BY DEF LoadHolds
  <2>1. at[l] \in Slot /\ PastGate(l)
    BY DEF Task, PastGate, DispatcherInv, TaskIsPlaced
  <2>2. entry[l].prior \in {"Unloaded", "Failed", "Evicted"} /\ Shut(at[l])
    BY <2>1 DEF RoleInv, LoadHolds
  <2> QED BY <2>1, <2>2 DEF ShutKept, Shut
<1>2. ASSUME NEW q \in Runner PROVE IterationOpen(q)'
  <2>1. CASE pc[q] \in Away
    BY <2>1 DEF IterationOpen
  <2>2. CASE pc[q] \notin Away
    <3>1. RunKept(at[q]) /\ inFlight[at[q]]
      BY <2>2 DEF DispatcherInv, TaskIsPlaced, OneDrains, Task, Away
    <3>2. LeftBehind(at[q]) => LeftBehind(at[q])'
      BY DEF LeftBehind
    <3> QED BY <3>1, <3>2 DEF RunKept, RoleInv, IterationOpen
  <2> QED BY <2>1, <2>2
<1>3. RebuildingHasRunner'
  BY DEF RebuildingHasRunner, RunKept, RoleInv
<1> QED BY <1>1, <1>2, <1>3 DEF RoleInv

(***************************************************************************)
(* What the steps do to the slots.                                         *)
(***************************************************************************)
SlotsKept == /\ watching' \in [Slot -> BOOLEAN]
             /\ \A s \in Slot : ShutKept(s) /\ RunKept(s)

LEMMA SameSlots ==
  ASSUME RoleInv, UNCHANGED <<state, cancelled, inFlight, watching>>
  PROVE  SlotsKept
BY DEF SlotsKept, RoleInv, RebuildingHasRunner, ShutKept, RunKept, Shut

LEMMA EvictionShuts ==
  ASSUME RoleInv, NEW k, NEW c, ExecuteEviction(k, c)
  PROVE  SlotsKept
<1>1. /\ UNCHANGED <<state, cancelled, inFlight>>
      /\ watching' = watching \/ watching' = [watching EXCEPT ![workspaces[k]] = FALSE]
  BY DEF ExecuteEviction, EvictToTombstone, slotVars
<1>2. watching' \in [Slot -> BOOLEAN] /\ \A s \in Slot : watching'[s] => watching[s]
  BY <1>1 DEF RoleInv
<1> QED BY <1>1, <1>2 DEF SlotsKept, ShutKept, RunKept, Shut

\* The steps of a tombstone leave a slot shut; those of a reset are taken
\* where no runner drains.
LEMMA TombstoneShuts ==
  ASSUME DispatcherInv, RoleInv, WriteTombstone
  PROVE  SlotsKept
<1> USE DEF slotVars
<1>a. ASSUME NEW s \in Slot, watching'[s] => watching[s], inFlight'[s] = inFlight[s],
             state'[s] = state[s] \/ state'[s] = "Evicted"
                \/ (state'[s] = "Unloaded" /\ ~inFlight[s] /\ ~watching'[s]),
             inFlight[s] /\ cancelled[s] => cancelled'[s]
      PROVE  ShutKept(s) /\ RunKept(s)
  BY <1>a DEF ShutKept, RunKept, Shut
<1>0. CASE TombstoneSamples
  <2>1. UNCHANGED <<state, cancelled, inFlight, watching>>
    BY <1>0 DEF TombstoneSamples
  <2> QED BY <1>a, <2>1 DEF SlotsKept, RoleInv
<1>1. CASE TombstoneCancels
  <2>1. /\ cancelled' = [cancelled EXCEPT ![tombstone.slot] = TRUE]
        /\ UNCHANGED <<state, inFlight, watching>>
    BY <1>1 DEF TombstoneCancels
  <2>2. \A s \in Slot : cancelled[s] => cancelled'[s]
    BY <2>1 DEF DispatcherInv, TypesKept
  <2> QED BY <1>a, <2>1, <2>2 DEF SlotsKept, RoleInv
<1>2. CASE TombstoneStores
  <2>1. /\ watching' = [watching EXCEPT ![tombstone.slot] = FALSE]
        /\ state' = [state EXCEPT ![tombstone.slot] = "Evicted"]
        /\ UNCHANGED <<cancelled, inFlight>>
    BY <1>2 DEF TombstoneStores
  <2>2. \A s \in Slot : /\ watching'[s] => watching[s]
                        /\ state'[s] = state[s] \/ state'[s] = "Evicted"
    BY <2>1 DEF DispatcherInv, TypesKept, RoleInv
  <2>3. watching' \in [Slot -> BOOLEAN]
    BY <2>1 DEF RoleInv
  <2> QED BY <1>a, <2>1, <2>2, <2>3 DEF SlotsKept
<1>3. CASE ResetReleases
  <2>1. /\ UNCHANGED <<state, cancelled, inFlight>>
        /\ watching' = watching \/ watching' = [watching EXCEPT ![tombstone.slot] = FALSE]
    BY <1>3 DEF ResetReleases, EvictToTombstone
  <2>2. watching' \in [Slot -> BOOLEAN] /\ \A s \in Slot : watching'[s] => watching[s]
    BY <2>1 DEF RoleInv
  <2> QED BY <1>a, <2>1, <2>2 DEF SlotsKept
<1>4. CASE ResetClears
  <2>1. /\ cancelled' = [cancelled EXCEPT ![tombstone.slot] = FALSE]
        /\ UNCHANGED <<state, inFlight, watching>> /\ tombstone.next = "clear"
    BY <1>4 DEF ResetClears
  <2>2. \A s \in Slot : inFlight[s] /\ cancelled[s] => cancelled'[s]
    BY <2>1 DEF DispatcherInv, TypesKept, ResetHoldsLane
  <2> QED BY <1>a, <2>1, <2>2 DEF SlotsKept, RoleInv
<1>5. CASE ResetStores
  <2>1. /\ watching' = [watching EXCEPT ![tombstone.slot] = FALSE]
        /\ state' = [state EXCEPT ![tombstone.slot] = "Unloaded"]
        /\ UNCHANGED <<cancelled, inFlight>> /\ tombstone.next = "reset"
    BY <1>5 DEF ResetStores
  <2>2. tombstone.slot \in Slot /\ ~inFlight[tombstone.slot]
    BY <2>1 DEF DispatcherInv, ResetHoldsLane
  <2>3. /\ ~watching'[tombstone.slot]
        /\ \A s \in Slot : /\ watching'[s] => watching[s]
                           /\ s # tombstone.slot => state'[s] = state[s]
                           /\ s = tombstone.slot => state'[s] = "Unloaded"
    BY <2>1, <2>2 DEF DispatcherInv, TypesKept, RoleInv
  <2>4. watching' \in [Slot -> BOOLEAN]
    BY <2>1 DEF RoleInv
  <2> QED BY <1>a, <2>1, <2>2, <2>3, <2>4 DEF SlotsKept
<1> QED BY <1>0, <1>1, <1>2, <1>3, <1>4, <1>5 DEF WriteTombstone

\* An iteration or a drain loop that gives up Rebuilding, and maybe the role.
LEMMA LeavingShuts ==
  ASSUME DispatcherInv, RoleInv, NEW r \in Runner, at[r] \in Slot, watching' = watching,
         NEW to, to # "Rebuilding", TransitionState(at[r], "Rebuilding", to),
         \A s \in Slot : s # at[r] => cancelled'[s] = cancelled[s],
         inFlight' = inFlight \/ inFlight' = [inFlight EXCEPT ![at[r]] = FALSE]
  PROVE  /\ watching' \in [Slot -> BOOLEAN]
         /\ \A s \in Slot : ShutKept(s)
         /\ \A s \in Slot : s # at[r] => RunKept(s)
         /\ state'[at[r]] # "Rebuilding"
<1>1. \A s \in Slot : state'[s] = IF s = at[r] /\ state[s] = "Rebuilding" THEN to ELSE state[s]
  BY DEF TransitionState, DispatcherInv, TypesKept
<1>2. \A s \in Slot : /\ inFlight'[s] => inFlight[s]
                      /\ s # at[r] => inFlight'[s] = inFlight[s]
  BY DEF DispatcherInv, TypesKept
<1> QED BY <1>1, <1>2 DEF ShutKept, RunKept, Shut, RoleInv, RebuildingHasRunner

\* One task's place changes, and nothing else of anyone's.
LEMMA GotoMoves ==
  ASSUME DispatcherInv, NEW t \in Task, NEW p, Goto(t, p), UNCHANGED <<at, entry>>
  PROVE  OnlyMoves(t) /\ pc'[t] = p
BY DEF Goto, OnlyMoves, DispatcherInv, TypesKept

LEMMA FinishMoves ==
  ASSUME DispatcherInv, NEW t \in Task, Finish(t)
  PROVE  OnlyMoves(t) /\ pc'[t] = "idle" /\ at'[t] = NoSlot
BY DEF Finish, Goto, OnlyMoves, DispatcherInv, TypesKept

LEMMA EndMoves ==
  ASSUME DispatcherInv, NEW r \in Runner, NEW o, EndIteration(r, o)
  PROVE  OnlyMoves(r) /\ pc'[r] = "deliver" /\ at'[r] = at[r]
BY DEF EndIteration, Goto, OnlyMoves, DispatcherInv, TypesKept, Task

\* reserve_rebuild and publish_and_retain leave the slots' states alone, but
\* for the evictions of the plan.
LEMMA ManagerSlots ==
  ASSUME DispatcherInv, NEW t \in Task, ManagerStep(t)
  PROVE  /\ UNCHANGED <<at, entry>>
         /\ \/ UNCHANGED <<state, cancelled, inFlight, watching>>
            \/ \E k, c : ExecuteEviction(k, c)
         /\ pc[t] \in ReservePC \cup PublishPC
         /\ \E p \in {"fail", "abandon", "cancelled", "admit", "evict", "reap",
                      "refuse", "build", "memory", "commit", "store", "unwound"} :
              Goto(t, p)
<1> USE DEF ManagerStep, slotVars, localVars, ReservePC, PublishPC
<1>1. CASE ReservePlan(t)
  <2>1. \E p \in {"fail", "abandon", "cancelled", "admit", "evict"} : Goto(t, p)
    BY <1>1 DEF ReservePlan, OnEvicted
  <2> QED BY <1>1, <2>1 DEF ReservePlan
<1>2. CASE ReserveEvict(t)
  <2>1. \E p \in {"reap", "evict"} : Goto(t, p)
    BY <1>2 DEF ReserveEvict
  <2> QED BY <1>2, <2>1 DEF ReserveEvict
<1>3. CASE ReserveReap(t)
  BY <1>3 DEF ReserveReap
<1>4. CASE ReserveAdmit(t)
  <2>1. \E p \in {"abandon", "refuse", "build"} : Goto(t, p)
    BY <1>4 DEF ReserveAdmit, OnBudget
  <2> QED BY <1>4, <2>1 DEF ReserveAdmit
<1>5. CASE PublishSwap(t)
  BY <1>5 DEF PublishSwap
<1>6. CASE PublishMemory(t)
  BY <1>6 DEF PublishMemory
<1>7. CASE PublishCommit(t)
  BY <1>7 DEF PublishCommit
<1>8. CASE PublishUnwind(t)
  <2>1. \E p \in {"fail", "unwound"} : Goto(t, p)
    BY <1>8 DEF PublishUnwind
  <2> QED BY <1>8, <2>1 DEF PublishUnwind
<1> QED BY <1>1, <1>2, <1>3, <1>4, <1>5, <1>6, <1>7, <1>8 DEF Reserve, PublishAndRetain

LEMMA InnerKeepsRole ==
  ASSUME DispatcherInv, RoleInv, NEW r \in Runner, InnerAction(r)
  PROVE  RoleInv'
<1>0. r \in Task
  BY DEF Task
<1>00. ASSUME pc[r] \notin Away
       PROVE  /\ at[r] \in Slot /\ inFlight[at[r]]
              /\ state[at[r]] = "Rebuilding" /\ ~LeftBehind(at[r]) =>
                   /\ pc[r] \notin {"release", "enter"}
                   /\ pc[r] \in Quiet => cancelled[at[r]]
  BY <1>0, <1>00 DEF DispatcherInv, TaskIsPlaced, OneDrains, Away, RoleInv, IterationOpen
<1> USE DEF slotVars, localVars, dispatcherVars
\* An iteration that ends in another state.
<1>a. ASSUME pc[r] \notin Away, NEW to, to # "Rebuilding", NEW o, EndIteration(r, o),
             TransitionState(at[r], "Rebuilding", to), UNCHANGED <<inFlight, watching>>,
             \A s \in Slot : s # at[r] => cancelled'[s] = cancelled[s]
      PROVE  RoleInv'
  <2>1. /\ watching' \in [Slot -> BOOLEAN]
        /\ \A s \in Slot : ShutKept(s)
        /\ \A s \in Slot : s # at[r] => RunKept(s)
        /\ state'[at[r]] # "Rebuilding"
    BY <1>a, <1>00, LeavingShuts
  <2>2. OnlyMoves(r) /\ at'[r] = at[r]
    BY <1>a, EndMoves
  <2>3. IterationOpen(r)'
    BY <2>1, <2>2 DEF IterationOpen
  <2> QED BY <1>a, <2>1, <2>2, <2>3, RunnerKeepsRole DEF Away
\* A step that goes on with the slots as they are.
<1>b. ASSUME SlotsKept, pc[r] \notin Away, OnlyMoves(r), at'[r] = at[r],
             pc'[r] \notin {"release", "enter"} \cup Quiet
      PROVE  RoleInv'
  <2>1. IterationOpen(r)'
    BY <1>b DEF IterationOpen
  <2>2. state'[at[r]] = "Rebuilding" => inFlight'[at[r]]
    BY <1>b, <1>00 DEF SlotsKept, RunKept
  <2> QED BY <1>b, <2>1, <2>2, RunnerKeepsRole DEF SlotsKept, Away
<1>1. CASE Gate(r)
  <2>1. /\ pc[r] = "drain" /\ UNCHANGED <<at, entry, state, inFlight, watching>>
        /\ cancelled' = [cancelled EXCEPT ![at[r]] = @ /\ state[at[r]] = "Evicted"]
    BY <1>1 DEF Gate
  <2>2. at[r] \in Slot /\ inFlight[at[r]]
    BY <1>00, <2>1 DEF Away
  <2>3. \A s \in Slot : ShutKept(s) /\ (s # at[r] => RunKept(s))
    BY <2>1 DEF ShutKept, RunKept, Shut, RoleInv, RebuildingHasRunner, DispatcherInv, TypesKept
  <2>4. OnlyMoves(r)
    BY <1>0, <1>1, <2>1, GotoMoves DEF Gate
  <2>5. IterationOpen(r)'
    <3>0. LeftBehind(at[r]) => LeftBehind(at[r])'
      BY <2>1, <2>4 DEF LeftBehind, OnlyMoves, Task
    <3>1. CASE state[at[r]] = "Rebuilding" /\ ~LeftBehind(at[r])
      <4>1. cancelled[at[r]]
        BY <1>00, <2>1, <3>1 DEF Away, Quiet
      <4>2. pc'[r] = "consumed"
        BY <1>0, <1>1, <4>1 DEF Gate, Goto, DispatcherInv, TypesKept
      <4> QED BY <4>2 DEF IterationOpen, Quiet
    <3>2. CASE state[at[r]] # "Rebuilding" \/ LeftBehind(at[r])
      BY <2>1, <3>0, <3>2 DEF IterationOpen
    <3> QED BY <3>1, <3>2
  <2>6. watching' \in [Slot -> BOOLEAN]
    BY <2>1 DEF RoleInv
  <2> QED BY <2>1, <2>2, <2>3, <2>4, <2>5, <2>6, RunnerKeepsRole DEF Away
<1>2. CASE EnterRebuilding(r)
  <2>1. pc[r] = "enter" /\ UNCHANGED <<cancelled, inFlight, watching>>
    BY <1>2 DEF EnterRebuilding
  <2>2. at[r] \in Slot /\ inFlight[at[r]]
    BY <1>00, <2>1 DEF Away
  <2>3. watching' \in [Slot -> BOOLEAN]
    BY <2>1 DEF RoleInv
  <2>4. CASE state[at[r]] \notin {"Evicted", "Loading"}
    <3>1. /\ state' = [state EXCEPT ![at[r]] = "Rebuilding"]
          /\ entry' = [entry EXCEPT ![r] = [@ EXCEPT !.prior = state[at[r]]]]
          /\ Goto(r, "inputs") /\ at' = at
      BY <1>2, <2>4 DEF EnterRebuilding
    <3>2. \A s \in Slot : ShutKept(s) /\ (s # at[r] => RunKept(s))
      <4>1. ~Shut(at[r])
        BY <2>2, <2>4 DEF Shut
      <4>2. \A s \in Slot : s # at[r] => state'[s] = state[s]
        BY <3>1 DEF DispatcherInv, TypesKept
      <4> QED BY <2>1, <4>1, <4>2 DEF ShutKept, RunKept, Shut, RoleInv, RebuildingHasRunner
    <3>3. OnlyMoves(r) /\ pc'[r] = "inputs"
      BY <1>0, <3>1 DEF OnlyMoves, Goto, DispatcherInv, TypesKept
    <3>4. IterationOpen(r)'
      BY <3>3 DEF IterationOpen, Quiet
    <3> QED BY <2>1, <2>2, <2>3, <3>2, <3>3, <3>4, RunnerKeepsRole DEF Away
  <2>5. CASE state[at[r]] \in {"Evicted", "Loading"}
    <3>1. /\ state' = state
          /\ EndIteration(r, IF state[at[r]] = "Evicted" THEN "evicted" ELSE "failed")
      BY <1>2, <2>5 DEF EnterRebuilding
    <3>2. SlotsKept
      BY <2>1, <3>1, SameSlots
    <3>3. OnlyMoves(r) /\ at'[r] = at[r]
      BY <3>1, EndMoves
    <3>4. IterationOpen(r)'
      BY <2>5, <3>1, <3>3 DEF IterationOpen
    <3> QED BY <2>1, <2>2, <3>2, <3>3, <3>4, RunnerKeepsRole DEF SlotsKept
  <2> QED BY <2>4, <2>5
<1>3. CASE RefuseReset(r)
  BY <1>3, <1>a DEF RefuseReset, Away
<1>4. CASE ResolveInputs(r)
  <2>1. PICK p \in {"reserve", "refuse"} : Goto(r, p)
    BY <1>4 DEF ResolveInputs
  <2>2. /\ UNCHANGED <<at, entry, state, cancelled, inFlight, watching>>
        /\ pc[r] = "inputs"
    BY <1>4 DEF ResolveInputs
  <2> QED BY <1>0, <1>b, <2>1, <2>2, GotoMoves, SameSlots DEF Away, Quiet
<1>5. CASE RecordRefusal(r)
  <2>1. RefusedState(entry[r].prior) # "Rebuilding"
    BY DEF RefusedState
  <2> QED BY <1>5, <1>a, <2>1 DEF RecordRefusal, Away
<1>6. CASE RecordCancelled(r)
  BY <1>6, <1>a DEF RecordCancelled, Away
<1>7. CASE RecordFailed(r)
  BY <1>7, <1>a DEF RecordFailed, Away
<1>8. CASE ExecuteRebuild(r)
  <2>1. PICK p \in {"publish", "refuse", "failed", "cancelled"} : Goto(r, p)
    BY <1>8 DEF ExecuteRebuild
  <2>2. /\ UNCHANGED <<at, entry, state, cancelled, inFlight, watching>>
        /\ pc[r] = "build"
    BY <1>8 DEF ExecuteRebuild
  <2> QED BY <1>0, <1>b, <2>1, <2>2, GotoMoves, SameSlots DEF Away, Quiet
<1>9. CASE RecheckCancelled(r)
  <2>1. /\ UNCHANGED <<state, cancelled, inFlight, watching>>
        /\ pc[r] = "publish" /\ cancelled[at[r]] /\ EndIteration(r, "evicted")
    BY <1>9 DEF RecheckCancelled
  <2>2. SlotsKept /\ OnlyMoves(r) /\ pc'[r] = "deliver" /\ at'[r] = at[r]
    BY <2>1, SameSlots, EndMoves
  <2>3. IterationOpen(r)'
    BY <2>1, <2>2 DEF IterationOpen
  <2>4. inFlight'[at[r]]
    BY <1>00, <2>1 DEF Away
  <2> QED BY <2>1, <2>2, <2>3, <2>4, RunnerKeepsRole DEF SlotsKept
<1>10. CASE RecheckUnregistered(r)
  <2>1. \A s \in Slot : s # at[r] => cancelled'[s] = cancelled[s]
    BY <1>10 DEF RecheckUnregistered, DispatcherInv, TypesKept
  <2> QED BY <1>10, <1>a, <2>1 DEF RecheckUnregistered, Away
<1>11. CASE RecheckOversize(r)
  BY <1>11, <1>a DEF RecheckOversize, Away
<1>12. CASE RecheckPublishes(r)
  <2>1. /\ UNCHANGED <<at, entry, state, cancelled, inFlight, watching>>
        /\ pc[r] = "publish" /\ Goto(r, "swap")
    BY <1>12 DEF RecheckPublishes
  <2> QED BY <1>0, <1>b, <2>1, GotoMoves, SameSlots DEF Away, Quiet
<1>13. CASE StoreRebuilt(r)
  BY <1>13, <1>a DEF StoreRebuilt, Away
<1>14. CASE ManagerStep(r)
  <2>1. /\ UNCHANGED <<at, entry>>
        /\ \/ UNCHANGED <<state, cancelled, inFlight, watching>>
           \/ \E k, c : ExecuteEviction(k, c)
        /\ pc[r] \in ReservePC \cup PublishPC
        /\ \E p \in {"fail", "abandon", "cancelled", "admit", "evict", "reap",
                     "refuse", "build", "memory", "commit", "store", "unwound"} :
             Goto(r, p)
    BY <1>0, <1>14, ManagerSlots
  <2>2. SlotsKept
    BY <2>1, SameSlots, EvictionShuts
  <2>3. OnlyMoves(r) /\ pc'[r] \notin {"release", "enter"} \cup Quiet
    BY <1>0, <2>1, GotoMoves DEF Quiet
  <2> QED BY <1>b, <2>1, <2>2, <2>3 DEF ReservePC, PublishPC, Away
<1> QED BY <1>1, <1>2, <1>3, <1>4, <1>5, <1>6, <1>7, <1>8, <1>9, <1>10, <1>11,
          <1>12, <1>13, <1>14 DEF InnerAction

LEMMA VisitKeepsRole ==
  ASSUME DispatcherInv, RoleInv, NEW r \in Runner, VisitAction(r)
  PROVE  RoleInv'
<1>0. r \in Task
  BY DEF Task
<1>00. ASSUME pc[r] # "idle" PROVE at[r] \in Slot
  BY <1>0, <1>00 DEF DispatcherInv, TaskIsPlaced
<1> USE DEF slotVars, localVars
\* Who leaves, with the slots as they are.
<1>a. ASSUME Finish(r), SlotsKept, pc[r] \in {"acquire", "park"} PROVE RoleInv'
  <2>1. OnlyMoves(r) /\ IterationOpen(r)'
    BY <1>0, <1>a, FinishMoves DEF IterationOpen, Away
  <2> QED BY <1>a, <2>1, RunnerKeepsRole DEF SlotsKept
\* Who moves between iterations, with the slots as they are.
<1>b. ASSUME pc[r] \in {"deliver", "next", "release"}, NEW p \in Quiet, Goto(r, p),
             UNCHANGED <<at, entry, state, cancelled, inFlight, watching>>
      PROVE  RoleInv'
  <2>1. OnlyMoves(r) /\ pc'[r] = p /\ SlotsKept
    BY <1>0, <1>b, GotoMoves, SameSlots
  <2>2. IterationOpen(r) /\ pc[r] \notin Away
    BY <1>b DEF RoleInv, Away
  <2>3. IterationOpen(r)'
    <3>1. LeftBehind(at[r]) => LeftBehind(at[r])'
      BY <1>b, <2>1, <2>2 DEF LeftBehind, OnlyMoves, Task, Away
    <3> QED BY <1>b, <2>1, <2>2, <3>1 DEF IterationOpen, Quiet
  <2>4. inFlight'[at[r]]
    BY <1>b, <2>2 DEF DispatcherInv, OneDrains
  <2> QED BY <2>1, <2>2, <2>3, <2>4, RunnerKeepsRole DEF SlotsKept, Away
\* Who gives the role up.
<1>c. ASSUME pc[r] \notin {"idle", "acquire", "park"}, Finish(r), NEW to, to # "Rebuilding",
             TransitionState(at[r], "Rebuilding", to), UNCHANGED <<cancelled, watching>>,
             \/ inFlight' = [inFlight EXCEPT ![at[r]] = FALSE]
             \/ inFlight' = inFlight
      PROVE  RoleInv'
  <2>1. at[r] \in Slot
    BY <1>c, <1>00
  <2>2. /\ watching' \in [Slot -> BOOLEAN]
        /\ \A s \in Slot : ShutKept(s)
        /\ \A s \in Slot : s # at[r] => RunKept(s)
        /\ state'[at[r]] # "Rebuilding"
    BY <1>c, <2>1, LeavingShuts
  <2>3. OnlyMoves(r) /\ IterationOpen(r)'
    BY <1>0, <1>c, FinishMoves DEF IterationOpen, Away
  <2> QED BY <1>c, <2>2, <2>3, RunnerKeepsRole
<1>1. CASE RefuseRequest(r)
  BY <1>1, <1>a, SameSlots DEF RefuseRequest, Away
<1>2. CASE Acquire(r)
  <2>1. /\ pc[r] = "acquire" /\ ~Refused(r)
        /\ UNCHANGED <<at, entry, state, cancelled, watching>>
    BY <1>2 DEF Acquire
  <2>2. CASE inFlight[at[r]]
    <3>1. Goto(r, "park") /\ inFlight' = inFlight
      BY <1>2, <2>2 DEF Acquire
    <3>2. OnlyMoves(r) /\ pc'[r] = "park" /\ SlotsKept
      BY <1>0, <2>1, <3>1, GotoMoves, SameSlots
    <3>3. IterationOpen(r)'
      BY <3>2 DEF IterationOpen, Away
    <3> QED BY <2>1, <3>2, <3>3, RunnerKeepsRole DEF SlotsKept, Away
  <2>3. CASE ~inFlight[at[r]]
    <3>1. Goto(r, "drain") /\ inFlight' = [inFlight EXCEPT ![at[r]] = TRUE]
      BY <1>2, <2>3 DEF Acquire
    <3>2. at[r] \in Slot /\ ~(state[at[r]] = "Unloaded" /\ ~watching[at[r]])
      BY <1>00, <2>1 DEF Refused, IsServing
    <3>3. \A s \in Slot : ShutKept(s)
      <4>1. \A s \in Slot : s # at[r] => inFlight'[s] = inFlight[s]
        BY <3>1 DEF DispatcherInv, TypesKept
      <4> QED BY <2>1, <3>2, <4>1 DEF ShutKept, Shut
    <3>4. \A s \in Slot : RunKept(s)
      <4>1. \A s \in Slot : inFlight[s] => inFlight'[s]
        BY <3>1 DEF DispatcherInv, TypesKept
      <4> QED BY <2>1, <4>1 DEF RunKept
    <3>5. OnlyMoves(r)
      BY <1>0, <2>1, <3>1, GotoMoves
    <3>6. IterationOpen(r)'
      <4>1. state[at[r]] = "Rebuilding" => LeftBehind(at[r])
        BY <2>3, <3>2 DEF RoleInv, RebuildingHasRunner, LeftBehind
      <4>2. LeftBehind(at[r]) => LeftBehind(at[r])'
        BY <2>1, <3>5 DEF LeftBehind, OnlyMoves, Task
      <4> QED BY <2>1, <4>1, <4>2 DEF IterationOpen
    <3>7. watching' \in [Slot -> BOOLEAN]
      BY <2>1 DEF RoleInv
    <3> QED BY <2>1, <3>3, <3>4, <3>5, <3>6, <3>7, RunnerKeepsRole DEF Away
  <2> QED BY <2>2, <2>3
<1>3. CASE Park(r)
  BY <1>3, <1>a, SameSlots DEF Park, Away
<1>4. CASE CancelDrain(r)
  BY <1>4, <1>c DEF CancelDrain, EndDrain, Away
<1>5. CASE SentinelDrop(r)
  <2>1. /\ pc[r] = "unwound" /\ Goto(r, "leaving")
        /\ inFlight' = [inFlight EXCEPT ![at[r]] = FALSE]
        /\ UNCHANGED <<at, entry, state, cancelled, watching>>
    BY <1>5 DEF SentinelDrop
  <2>2. OnlyMoves(r) /\ pc'[r] = "leaving"
    BY <1>0, <2>1, GotoMoves
  <2>3. \A s \in Slot : /\ inFlight'[s] => inFlight[s]
                        /\ s # at[r] => inFlight'[s] = inFlight[s]
    BY <2>1 DEF DispatcherInv, TypesKept
  <2>4. \A s \in Slot : ShutKept(s) /\ (s # at[r] => RunKept(s))
    BY <2>1, <2>3 DEF ShutKept, RunKept, Shut
  <2>5. IterationOpen(r)' /\ watching' \in [Slot -> BOOLEAN]
    BY <2>1, <2>2 DEF IterationOpen, Away, RoleInv
  <2> QED BY <2>1, <2>2, <2>4, <2>5, RunnerKeepsRole
<1>9. CASE SentinelLeaves(r)
  BY <1>9, <1>c DEF SentinelLeaves, EndDrain
<1>6. CASE Release(r)
  <2>1. pc[r] = "release" /\ UNCHANGED <<state, cancelled, watching>>
    BY <1>6 DEF Release
  <2>2. CASE lane[at[r]] # NoPending \/ cancelled[at[r]]
    <3>1. Goto(r, "drain") /\ UNCHANGED <<inFlight, at, entry>>
      BY <1>6, <2>2 DEF Release
    <3> QED BY <1>b, <2>1, <3>1 DEF Quiet
  <2>3. CASE ~(lane[at[r]] # NoPending \/ cancelled[at[r]])
    <3>1. inFlight' = [inFlight EXCEPT ![at[r]] = FALSE] /\ Finish(r)
      BY <1>6, <2>3 DEF Release, EndDrain
    <3>2. CASE state[at[r]] # "Rebuilding"
      <4>1. TransitionState(at[r], "Rebuilding", "Failed")
        BY <1>00, <2>1, <3>2 DEF TransitionState, DispatcherInv, TypesKept
      <4> QED BY <1>c, <2>1, <3>1, <4>1
    <3>3. CASE LeftBehind(at[r])
      <4>1. OnlyMoves(r) /\ IterationOpen(r)' /\ at[r] \in Slot
        BY <1>0, <1>00, <2>1, <3>1, FinishMoves DEF IterationOpen, Away
      <4>2. PICK q \in Runner : pc[q] = "leaving" /\ at[q] = at[r]
        BY <3>3 DEF LeftBehind
      <4>3. q # r
        BY <2>1, <4>2
      <4>4. \A s \in Slot : /\ inFlight'[s] => inFlight[s]
                            /\ s # at[r] => inFlight'[s] = inFlight[s]
        BY <3>1 DEF DispatcherInv, TypesKept
      <4>5. \A s \in Slot : ShutKept(s) /\ (s # at[r] => RunKept(s))
        BY <2>1, <4>4 DEF ShutKept, RunKept, Shut
      <4>6. watching' \in [Slot -> BOOLEAN]
        BY <2>1 DEF RoleInv
      <4> QED BY <2>1, <4>1, <4>2, <4>3, <4>5, <4>6, RunnerKeepsRole
    <3> QED BY <2>1, <3>2, <3>3 DEF RoleInv, IterationOpen, Away
  <2> QED BY <2>2, <2>3
<1>7. CASE DeliverOutcome(r)
  BY <1>7, <1>b DEF DeliverOutcome, Quiet
<1>8. CASE TakeNext(r)
  BY <1>8, <1>b DEF TakeNext, Quiet
<1> QED BY <1>1, <1>2, <1>3, <1>4, <1>5, <1>6, <1>7, <1>8, <1>9 DEF VisitAction

LEMMA LookupKeepsRole ==
  ASSUME DispatcherInv, RoleInv, NEW r \in Runner, NEW k \in Key, Lookup(r, k)
  PROVE  RoleInv'
<1>1. /\ pc[r] = "idle" /\ pc' = [pc EXCEPT ![r] = "acquire"]
      /\ at' = [at EXCEPT ![r] = workspaces[k]]
      /\ UNCHANGED <<state, cancelled, inFlight, watching, entry>>
  BY DEF Lookup, Goto, slotVars
<1>2. OnlyMoves(r) /\ pc'[r] = "acquire"
  BY <1>1 DEF OnlyMoves, DispatcherInv, TypesKept, Task
<1>3. IterationOpen(r)'
  BY <1>2 DEF IterationOpen, Away
<1> QED BY <1>1, <1>2, <1>3, SameSlots, RunnerKeepsRole DEF SlotsKept, Away

LEMMA LoadKeepsRole ==
  ASSUME DispatcherInv, RoleInv, OneLoadPerSlot, NEW l \in Loader, LoaderStep(l)
  PROVE  RoleInv'
<1>0. l \in Task /\ entry[l] \in Entries
  BY DEF Task, DispatcherInv, TypesKept
<1>00. ASSUME pc[l] # "idle" PROVE at[l] \in Slot
  BY <1>0, <1>00 DEF DispatcherInv, TaskIsPlaced
<1>01. ASSUME PastGate(l)
       PROVE  /\ entry[l].prior \in {"Unloaded", "Failed", "Evicted"}
              /\ Shut(at[l])
  BY <1>01 DEF RoleInv, LoadHolds
<1> USE DEF slotVars, localVars
\* A load that goes on past its gate, the slots' states as they are.
<1>a. ASSUME SlotsKept, NEW p, Goto(l, p), PastGate(l), UNCHANGED <<at, entry>>
      PROVE  RoleInv'
  <2>1. OnlyMoves(l)
    BY <1>0, <1>a, GotoMoves
  <2>2. entry'[l].prior \in {"Unloaded", "Failed", "Evicted"} /\ Shut(at[l])'
    <3>1. Shut(at[l]) /\ at[l] \in Slot
      BY <1>a, <1>00, <1>01 DEF PastGate
    <3>2. ShutKept(at[l])
      BY <1>a, <3>1 DEF SlotsKept
    <3> QED BY <1>a, <1>01, <3>1, <3>2 DEF ShutKept, Shut
  <2> QED BY <1>a, <2>1, <2>2, LoaderKeepsRole DEF SlotsKept
\* A load that ends and takes its slot out of Loading, or leaves it.
<1>b. ASSUME Finish(l), PastGate(l), NEW to, to # "Rebuilding",
             \/ TransitionState(at[l], "Loading", to)
             \/ state' = [state EXCEPT ![at[l]] = to],
             UNCHANGED <<inFlight, watching>>,
             \A s \in Slot : cancelled[s] => cancelled'[s]
      PROVE  RoleInv'
  <2>1. OnlyMoves(l) /\ ~PastGate(l)'
    BY <1>0, <1>b, FinishMoves DEF PastGate
  <2>2. \A s \in Slot : /\ s # at[l] => state'[s] = state[s]
                        /\ state'[s] # state[s] => state'[s] = to
    BY <1>b DEF TransitionState, DispatcherInv, TypesKept
  <2>3. \A s \in Slot : RunKept(s)
    BY <1>b, <2>2 DEF RunKept, RoleInv, RebuildingHasRunner
  <2>4. \A s \in Slot : s # at[l] => ShutKept(s)
    BY <1>b, <2>2 DEF ShutKept, Shut
  <2>5. watching' \in [Slot -> BOOLEAN]
    BY <1>b DEF RoleInv
  <2> QED BY <1>b, <2>1, <2>3, <2>4, <2>5, LoaderKeepsRole
<1>1. CASE LoadMeetsRunner(l)
  BY <1>1, <1>b DEF LoadMeetsRunner, HonorRefuses, PastGate
<1> SUFFICES ASSUME LoadStep(l), UNCHANGED dispatcherVars PROVE RoleInv'
  BY <1>1 DEF LoaderStep
<1>2. CASE EnterLoading(l)
  <2>1. pc[l] = "gate" /\ UNCHANGED <<cancelled, inFlight, watching>> /\ at[l] \in Slot
    BY <1>2, <1>00 DEF EnterLoading
  <2>2. CASE state[at[l]] \in {"Unloaded", "Failed", "Evicted"}
    <3>1. /\ state' = [state EXCEPT ![at[l]] = "Loading"]
          /\ entry' = [entry EXCEPT ![l] = [prior |-> state[at[l]],
                      inserted |-> @.inserted, cancelled |-> FALSE]]
          /\ Goto(l, "entered") /\ at' = at
      BY <1>2, <2>2 DEF EnterLoading
    <3>2. OnlyMoves(l) /\ entry'[l].prior = state[at[l]]
      BY <1>0, <3>1 DEF OnlyMoves, Goto, DispatcherInv, TypesKept
    <3>3. \A s \in Slot : state'[s] = IF s = at[l] THEN "Loading" ELSE state[s]
      BY <3>1 DEF DispatcherInv, TypesKept
    <3>4. \A s \in Slot : ShutKept(s) /\ RunKept(s)
      BY <2>1, <3>3 DEF ShutKept, RunKept, Shut, RoleInv, RebuildingHasRunner
    <3>5. Shut(at[l])' /\ watching' \in [Slot -> BOOLEAN]
      BY <2>1, <3>1, <3>3 DEF Shut, RoleInv
    <3> QED BY <2>2, <3>2, <3>4, <3>5, LoaderKeepsRole
  <2>3. CASE state[at[l]] \notin {"Unloaded", "Failed", "Evicted"}
    <3>1. Finish(l) /\ state' = state
      BY <1>2, <2>3 DEF EnterLoading
    <3>2. OnlyMoves(l) /\ ~PastGate(l)' /\ SlotsKept
      BY <1>0, <2>1, <3>1, FinishMoves, SameSlots DEF PastGate
    <3> QED BY <3>2, LoaderKeepsRole DEF SlotsKept
  <2> QED BY <2>2, <2>3
<1>3. CASE ObserveCancel(l)
  <2>1. /\ pc[l] = "entered" /\ Goto(l, "observed")
        /\ entry' = [entry EXCEPT ![l] = [prior |-> @.prior,
                    inserted |-> @.inserted, cancelled |-> cancelled[at[l]]]]
        /\ UNCHANGED <<at, state, cancelled, inFlight, watching>>
    BY <1>3 DEF ObserveCancel
  <2>2. OnlyMoves(l) /\ entry'[l].prior = entry[l].prior
    BY <1>0, <2>1 DEF OnlyMoves, Goto, DispatcherInv, TypesKept
  <2>3. SlotsKept /\ PastGate(l)
    BY <2>1, SameSlots DEF PastGate
  <2>4. entry'[l].prior \in {"Unloaded", "Failed", "Evicted"} /\ Shut(at[l])'
    BY <1>01, <2>1, <2>2, <2>3 DEF Shut
  <2> QED BY <2>2, <2>3, <2>4, LoaderKeepsRole DEF SlotsKept
<1>4. CASE HonorConsumes(l)
  <2>1. /\ pc[l] = "observed"
        /\ cancelled' = [cancelled EXCEPT ![at[l]] = FALSE]
        /\ \E p \in {"prepare", "rearm"} : Goto(l, p)
        /\ UNCHANGED <<at, entry, state, inFlight, watching>>
    BY <1>4 DEF HonorConsumes
  <2>2. at[l] \in Slot /\ state[at[l]] # "Rebuilding" /\ PastGate(l)
    BY <1>00, <1>01, <2>1 DEF PastGate, Shut
  <2>3. SlotsKept
    <3>1. \A s \in Slot : s # at[l] => cancelled'[s] = cancelled[s]
      BY <2>1 DEF DispatcherInv, TypesKept
    <3> QED BY <2>1, <2>2, <3>1
            DEF SlotsKept, ShutKept, RunKept, Shut, RoleInv, RebuildingHasRunner
  <2> QED BY <1>a, <2>1, <2>2, <2>3
<1>5. CASE HonorFails(l)
  <2>1. \A s \in Slot : cancelled[s] => cancelled'[s]
    BY <1>5 DEF HonorFails, DispatcherInv, TypesKept
  <2> QED BY <1>5, <1>b, <2>1 DEF HonorFails, PastGate
<1>6. CASE Prepare(l)
  BY <1>6, <1>a, SameSlots DEF Prepare, PastGate
<1>7. CASE AbandonLoad(l)
  <2>1. \A s \in Slot : cancelled[s] => cancelled'[s]
    BY <1>7 DEF AbandonLoad, DispatcherInv, TypesKept
  <2>2. pc[l] = "abandon" /\ PastGate(l)
    BY <1>7 DEF AbandonLoad, PastGate
  <2>3. entry[l].prior # "Rebuilding"
    BY <1>01, <2>2
  <2> QED BY <1>7, <1>b, <2>1, <2>2, <2>3 DEF AbandonLoad
<1>8. CASE FailLoad(l)
  BY <1>8, <1>b DEF FailLoad, PastGate
<1>9. CASE Build(l)
  <2>1. PICK p \in {"publish", "abandon", "fail"} : Goto(l, p)
    BY <1>9 DEF Build
  <2> QED BY <1>9, <1>a, <2>1, SameSlots DEF Build, PastGate
<1>10. CASE LoadRecheck(l)
  <2>1. PICK p \in {"swap", "fail"} : Goto(l, p)
    BY <1>10 DEF LoadRecheck
  <2> QED BY <1>10, <1>a, <2>1, SameSlots DEF LoadRecheck, PastGate
<1>11. CASE StoreLoaded(l)
  BY <1>11, <1>b DEF StoreLoaded, PastGate
<1>12. CASE ManagerStep(l)
  <2>1. /\ UNCHANGED <<at, entry>>
        /\ \/ UNCHANGED <<state, cancelled, inFlight, watching>>
           \/ \E k, c : ExecuteEviction(k, c)
        /\ pc[l] \in ReservePC \cup PublishPC
        /\ \E p : Goto(l, p)
    BY <1>0, <1>12, ManagerSlots
  <2>2. SlotsKept /\ PastGate(l)
    BY <2>1, SameSlots, EvictionShuts DEF PastGate, ReservePC, PublishPC
  <2> QED BY <1>a, <2>1, <2>2
<1> QED BY <1>2, <1>3, <1>4, <1>5, <1>6, <1>7, <1>8, <1>9, <1>10, <1>11, <1>12
        DEF LoadStep, ManagerStep

LEMMA RequestKeepsRole ==
  ASSUME DispatcherInv, RoleInv, OneLoadPerSlot, NEW l \in Loader, LoadRequest(l)
  PROVE  RoleInv'
<1> DEFINE k == LoaderKey[l]
<1>0. l \in Task
  BY DEF Task
<1>1. pc[l] = "idle" /\ pc' = [pc EXCEPT ![l] = "gate"]
  BY DEF LoadRequest, GetOrInsert, Goto
<1>2. pc'[l] = "gate" /\ ~PastGate(l) /\ ~PastGate(l)'
  BY <1>0, <1>1 DEF PastGate, DispatcherInv, TypesKept
<1>3. CASE /\ workspaces[k] \in Slot
           /\ at' = [at EXCEPT ![l] = workspaces[k]]
           /\ UNCHANGED <<workspaces, slotVars, entry>>
  <2>1. OnlyMoves(l)
    BY <1>0, <1>1, <1>3 DEF OnlyMoves, DispatcherInv, TypesKept
  <2>2. SlotsKept
    BY <1>3, SameSlots DEF slotVars
  <2> QED BY <1>2, <2>1, <2>2, LoaderKeepsRole DEF SlotsKept
<1>4. ASSUME NEW s \in FreshSlots(k),
             at' = [at EXCEPT ![l] = s],
             state' = [state EXCEPT ![s] = "Unloaded"],
             cancelled' = [cancelled EXCEPT ![s] = FALSE],
             inFlight' = [inFlight EXCEPT ![s] = FALSE],
             watching' = [watching EXCEPT ![s] = FALSE],
             entry' = [entry EXCEPT ![l] = [NoEntry EXCEPT !.inserted = TRUE]]
      PROVE  RoleInv'
  <2>1. s \in Slot
    BY DEF FreshSlots
  <2>2. OnlyMoves(l)
    BY <1>0, <1>1, <1>4 DEF OnlyMoves, DispatcherInv, TypesKept
  <2>3. /\ state'[s] = "Unloaded" /\ ~inFlight'[s] /\ ~watching'[s]
        /\ \A x \in Slot : x # s => /\ state'[x] = state[x] /\ cancelled'[x] = cancelled[x]
                                    /\ inFlight'[x] = inFlight[x]
                                    /\ watching'[x] = watching[x]
    BY <1>4, <2>1 DEF DispatcherInv, TypesKept, RoleInv
  <2>4. \A x \in Slot : ShutKept(x) /\ RunKept(x)
    BY <2>3 DEF ShutKept, RunKept, Shut, RoleInv, RebuildingHasRunner
  <2>5. watching' \in [Slot -> BOOLEAN]
    BY <1>4 DEF RoleInv
  <2> QED BY <1>2, <2>2, <2>4, <2>5, LoaderKeepsRole
<1> QED BY <1>3, <1>4 DEF LoadRequest, GetOrInsert

LEMMA OutsideActionKeepsRole ==
  ASSUME DispatcherInv, RoleInv, OutsideAction
  PROVE  RoleInv'
<1> USE DEF mapVars, slotVars, ledgerVars, localVars, taskVars, dispatcherVars
<1>a. ASSUME UNCHANGED <<pc, at, entry>>, SlotsKept PROVE RoleInv'
  BY <1>a, OutsideKeepsRole DEF SlotsKept
\* A cancellation arrives.
<1>b. ASSUME UNCHANGED <<pc, at, entry, state, inFlight, watching>>, NEW s,
             cancelled' = [cancelled EXCEPT ![s] = TRUE]
      PROVE  RoleInv'
  <2>1. \A x \in Slot : cancelled[x] => cancelled'[x]
    BY <1>b DEF DispatcherInv, TypesKept
  <2>2. SlotsKept
    BY <1>b, <2>1 DEF SlotsKept, ShutKept, RunKept, Shut, RoleInv, RebuildingHasRunner
  <2> QED BY <1>a, <1>b, <2>2
<1>1. ASSUME NEW k \in Key, CancelRebuild(k) PROVE RoleInv'
  BY <1>1, <1>b DEF CancelRebuild
<1>2. ASSUME NEW k \in Key, ResetCancels(k) PROVE RoleInv'
  BY <1>2, <1>b DEF ResetCancels
<1>3. ASSUME NEW k \in Key, ResetEmpties(k) PROVE RoleInv'
  BY <1>3, <1>a, SameSlots DEF ResetEmpties
<1>4. ASSUME NEW k \in Key, LoadAnswered(k) PROVE RoleInv'
  BY <1>4, <1>a, SameSlots DEF LoadAnswered, managerVars
<1>5. ASSUME NEW k \in Key, StartWatching(k) PROVE RoleInv'
  <2> DEFINE v == workspaces[k]
  <2>1. /\ \/ watching' = watching
           \/ watching' = [watching EXCEPT ![v] = @ \/ state[v] \notin {"Evicted", "Unloaded"}]
        /\ UNCHANGED <<pc, at, entry, state, cancelled, inFlight>>
    BY <1>5 DEF StartWatching
  <2> HIDE DEF v
  <2>2. watching' \in [Slot -> BOOLEAN]
    BY <2>1 DEF RoleInv
  <2>3. \A x \in Slot : state[x] = "Unloaded" /\ watching'[x] => watching[x]
    BY <2>1 DEF RoleInv
  <2>4. \A x \in Slot : ShutKept(x) /\ RunKept(x)
    BY <2>1, <2>3 DEF ShutKept, RunKept, Shut, RoleInv, RebuildingHasRunner
  <2> QED BY <1>a, <2>1, <2>2, <2>4 DEF SlotsKept
<1>6. ASSUME NEW k \in Key, EvictLruPick(k) PROVE RoleInv'
  BY <1>6, <1>a, SameSlots DEF EvictLruPick
<1>7. ASSUME NEW k \in Key, EvictLruExecute(k) PROVE RoleInv'
  <2>1. ExecuteEviction(k, "evict_lru") /\ UNCHANGED <<pc, at, entry>>
    BY <1>7 DEF EvictLruExecute
  <2> QED BY <1>a, <2>1, EvictionShuts
<1>8. ASSUME NEW k \in Key, Unload(k) PROVE RoleInv'
  <2>1. ExecuteEviction(k, "unload") /\ UNCHANGED <<pc, at, entry>>
    BY <1>8 DEF Unload
  <2> QED BY <1>a, <2>1, EvictionShuts
<1>9. ASSUME RetentionReaper PROVE RoleInv'
  BY <1>9, <1>a, SameSlots DEF RetentionReaper
<1>10. ASSUME UNCHANGED vars PROVE RoleInv'
  BY <1>10, <1>a, SameSlots DEF vars, managerVars
<1>11. ASSUME WriteTombstone PROVE RoleInv'
  <2>1. SlotsKept
    BY <1>11, TombstoneShuts
  <2>2. UNCHANGED <<pc, at, entry>>
    BY <1>11, TombstoneOpens
  <2> QED BY <1>a, <2>1, <2>2
<1> QED BY <1>1, <1>2, <1>3, <1>4, <1>5, <1>6, <1>7, <1>8, <1>9, <1>10, <1>11
        DEF OutsideAction, Reset

LEMMA NextKeepsRole ==
  ASSUME DispatcherInv, RoleInv, OneLoadPerSlot, [DispatcherNext]_vars
  PROVE  RoleInv'
BY StepShapes, InnerKeepsRole, VisitKeepsRole, LookupKeepsRole, LoadKeepsRole,
   RequestKeepsRole, OutsideActionKeepsRole

LEMMA InitKeepsRole == DispatcherInit => RoleInv
BY DEF DispatcherInit, Init, RoleInv, LoadHolds, PastGate, IterationOpen, Away,
   RebuildingHasRunner, Task

\* The inductive invariant, while no two loads are past the gate of a slot:
\* a load past its gate keeps runners out of its slot, and a runner whose
\* slot says Rebuilding is at work on it or will read its cancellation.
THEOREM RoleInvariance == DispatcherSpec /\ []OneLoadPerSlot => []RoleInv
<1>1. DispatcherInit => RoleInv
  BY InitKeepsRole
<1>2. DispatcherInv /\ OneLoadPerSlot /\ RoleInv /\ [DispatcherNext]_vars => RoleInv'
  BY NextKeepsRole
<1> QED BY <1>1, <1>2, DispatcherInvariance, PTL DEF DispatcherSpec

\* daemon/reset never finds a workspace Rebuilding that no runner will take
\* out of it, however many requests, cancellations, evictions and unwound
\* drain loops there were before.
THEOREM RebuildingIsRun ==
  DispatcherSpec /\ []OneLoadPerSlot => []RebuildingHasRunner
<1>1. RoleInv => RebuildingHasRunner
  BY DEF RoleInv
<1> QED BY <1>1, RoleInvariance, PTL

(***************************************************************************)
(* Loaded stands over a generation.                                        *)
(*                                                                         *)
(* While no commit unwinds, a slot loses its generation to the writer of a *)
(* tombstone alone, which ends by taking the slot out of Loaded and        *)
(* Rebuilding.  So a slot that says Loaded, and one under an iteration     *)
(* that a refusal takes back to Loaded, has a generation, or a tombstone   *)
(* in the making: what a task does between two of its steps is undone by   *)
(* the last.                                                               *)
(***************************************************************************)

\* The slot has a generation, or is about to be a tombstone.
Stands(s) == published[s] # Placeholder \/ tombstone.slot = s

\* A task carries a built graph to its swap, and its slot has one past it.
HasGraph(t) ==
  /\ pc[t] \in {"publish", "swap"} => new[t].graph # Placeholder
  /\ pc[t] \in {"memory", "commit", "store"} => published[at[t]] # Placeholder

\* So has the slot of an iteration whose refusal says Loaded.
RunStands(r) ==
  pc[r] \notin Away /\ state[at[r]] = "Rebuilding"
      /\ entry[r].prior \in {"Loaded", "Rebuilding"} => Stands(at[r])

GraphsShaped ==
  published = [s \in Slot |-> published[s]] /\ new = [t \in Task |-> new[t]]

GenInv ==
  /\ GraphsShaped
  /\ ReadLockFree \/ \A t \in Task : pc[t] \notin PublishPC
  /\ \A t \in Task : HasGraph(t)
  /\ \A s \in Slot : state[s] = "Loaded" => Stands(s)
  /\ \A r \in Runner : RunStands(r)

Kept == DispatcherInv /\ RoleInv /\ ~MayUnwind

\* What a step must leave of the slots and of the other tasks.
LEMMA OthersHaveGraphs ==
  ASSUME Kept, GenInv, NEW T \in SUBSET Task,
         \A u \in Task \ T : /\ pc'[u] = pc[u] /\ at'[u] = at[u] /\ entry'[u] = entry[u]
                             /\ new'[u] = new[u],
         GraphsShaped', ReadLockFree' \/ \A t \in Task : pc'[t] \notin PublishPC,
         \A s \in Slot : state'[s] \in {"Loaded", "Rebuilding"} /\ Stands(s) => Stands(s)',
         \A s \in Slot : state'[s] = "Loaded" => state[s] = "Loaded" \/ Stands(s),
         \A u \in Task \ T :
           pc[u] \in {"memory", "commit", "store"} => published'[at[u]] # Placeholder,
         \A q \in Runner \ T :
           pc[q] \notin Away /\ state'[at[q]] = "Rebuilding" => state[at[q]] = "Rebuilding",
         \A t \in T : HasGraph(t)' /\ (t \in Runner => RunStands(t)')
  PROVE  GenInv'
<1>1. ASSUME NEW u \in Task \ T PROVE HasGraph(u)'
  BY DEF GenInv, HasGraph
<1>2. ASSUME NEW q \in Runner \ T PROVE RunStands(q)'
  <2>1. pc'[q] = pc[q] /\ at'[q] = at[q] /\ entry'[q] = entry[q]
    BY DEF Task
  <2>2. CASE pc[q] \in Away
    BY <2>1, <2>2 DEF RunStands
  <2>3. CASE pc[q] \notin Away
    <3>1. at[q] \in Slot
      BY <2>3 DEF Kept, DispatcherInv, TaskIsPlaced, Task, Away
    <3>2. ASSUME state'[at[q]] = "Rebuilding", entry[q].prior \in {"Loaded", "Rebuilding"}
          PROVE  Stands(at[q])
      BY <2>3, <3>2 DEF GenInv, RunStands
    <3>3. PICK s \in Slot : s = at[q]
      BY <3>1
    <3>4. state'[s] = "Rebuilding" /\ Stands(s) => Stands(s)'
      OBVIOUS
    <3> QED BY <2>1, <3>2, <3>3, <3>4 DEF RunStands, Stands
  <2> QED BY <2>2, <2>3
<1>3. \A s \in Slot : state'[s] = "Loaded" => Stands(s)'
  BY DEF GenInv
<1> QED BY <1>1, <1>2, <1>3 DEF GenInv

\* A step of a task that takes no graph away.
LEMMA PlainStep ==
  ASSUME Kept, GenInv, NEW t \in Task, OnlyMoves(t), tombstone' = tombstone,
         \/ published' = published
         \/ \E g : g # Placeholder /\ published' = [published EXCEPT ![at[t]] = g],
         new' = new \/ \E x : new' = [new EXCEPT ![t] = x],
         pc'[t] \in PublishPC => ReadLockFree \/ pc[t] \in PublishPC,
         \A s \in Slot : state'[s] = "Loaded" => state[s] = "Loaded" \/ Stands(s),
         \A s \in Slot :
           (s # at[t] \/ t \notin Runner \/ pc[t] \in Away) /\ state'[s] = "Rebuilding"
             => state[s] = "Rebuilding",
         HasGraph(t)', t \in Runner => RunStands(t)'
  PROVE  GenInv'
<1>1. GraphsShaped' /\ \A u \in Task \ {t} : new'[u] = new[u]
  BY DEF GenInv, GraphsShaped
<1>2. \A s \in Slot : published[s] # Placeholder => published'[s] # Placeholder
  BY DEF GenInv, GraphsShaped
<1>3. \A s \in Slot : Stands(s) => Stands(s)'
  BY <1>2 DEF Stands
<1>4. \A u \in Task \ {t} : pc[u] \in {"memory", "commit", "store"} => published'[at[u]] # Placeholder
  <2> SUFFICES ASSUME NEW u \in Task \ {t}, pc[u] \in {"memory", "commit", "store"}
               PROVE  published'[at[u]] # Placeholder
    OBVIOUS
  <2>1. at[u] \in Slot
    BY DEF Kept, DispatcherInv, TaskIsPlaced
  <2> QED BY <1>2, <2>1 DEF GenInv, HasGraph
<1>5. ASSUME NEW q \in Runner \ {t}, pc[q] \notin Away, state'[at[q]] = "Rebuilding"
      PROVE  state[at[q]] = "Rebuilding"
  <2>1. at[q] \in Slot
    BY <1>5 DEF Kept, DispatcherInv, TaskIsPlaced, Task, Away
  <2>2. at[q] # at[t] \/ t \notin Runner \/ pc[t] \in Away
    BY <1>5 DEF Kept, DispatcherInv, OneDrains
  <2> QED BY <1>5, <2>1, <2>2
<1>6. \A u \in Task \ {t} : /\ pc'[u] = pc[u] /\ at'[u] = at[u] /\ entry'[u] = entry[u]
                            /\ new'[u] = new[u]
  BY <1>1 DEF OnlyMoves
<1>7. ReadLockFree' \/ \A u \in Task : pc'[u] \notin PublishPC
  BY <1>6 DEF GenInv, ReadLockFree
<1>8. {t} \in SUBSET Task /\ \A x \in {t} : HasGraph(x)' /\ (x \in Runner => RunStands(x)')
  OBVIOUS
<1> QED BY <1>1, <1>3, <1>4, <1>5, <1>6, <1>7, <1>8, OthersHaveGraphs

\* A step under workspaces.write(), or of the writer of a tombstone: nobody
\* publishes, and a slot that loses its graph has a tombstone in the making,
\* which ends with the slot out of Loaded and Rebuilding.
TakesAway ==
  /\ \A t \in Task : pc[t] \notin PublishPC
  /\ GraphsShaped'
  /\ \A s \in Slot :
       \/ state'[s] = state[s] /\ (Stands(s) => Stands(s)')
       \/ state'[s] \in {"Evicted", "Unloaded"}

LEMMA TakingKeepsGraphs ==
  ASSUME Kept, GenInv, TakesAway, new' = new, NEW T \in SUBSET Task,
         \A u \in Task \ T : pc'[u] = pc[u] /\ at'[u] = at[u] /\ entry'[u] = entry[u],
         \A t \in T : /\ HasGraph(t)' /\ (t \in Runner => RunStands(t)')
                      /\ pc'[t] \notin PublishPC
  PROVE  GenInv'
<1>1. /\ GraphsShaped' /\ \A u \in Task : pc[u] \notin PublishPC
      /\ \A s \in Slot :
           \/ state'[s] = state[s] /\ (Stands(s) => Stands(s)')
           \/ state'[s] \in {"Evicted", "Unloaded"}
  BY DEF TakesAway
<1>2. \A u \in Task : pc'[u] \notin PublishPC
  BY <1>1
<1>3. \A s \in Slot : state'[s] \in {"Loaded", "Rebuilding"} /\ Stands(s) => Stands(s)'
  BY <1>1
<1>4. \A s \in Slot : state'[s] = "Loaded" => state[s] = "Loaded" \/ Stands(s)
  BY <1>1
<1>5. \A u \in Task : pc[u] \notin {"memory", "commit", "store"}
  BY <1>1 DEF PublishPC
<1>6. ASSUME NEW q \in Runner, pc[q] \notin Away, state'[at[q]] = "Rebuilding"
      PROVE  state[at[q]] = "Rebuilding"
  <2>1. at[q] \in Slot
    BY <1>6 DEF Kept, DispatcherInv, TaskIsPlaced, Task, Away
  <2> QED BY <1>1, <1>6, <2>1
<1> QED BY <1>1, <1>2, <1>3, <1>4, <1>5, <1>6, OthersHaveGraphs

\* evict_to_tombstone_locked up to its sample.
LEMMA TombstoneBegins ==
  ASSUME GenInv, NEW s \in Slot, NEW c, EvictToTombstone(s, c),
         ReadLockFree \/ (c = "reset" /\ tombstone.slot = s),
         \A t \in Task : pc[t] \notin PublishPC, new' = new
  PROVE  TakesAway /\ state' = state
<1>1. state' = state
  BY DEF EvictToTombstone
<1>2. CASE state[s] = "Evicted"
  <2>1. published' = published /\ TombstoneReturns(s, c)
    BY <1>2 DEF EvictToTombstone
  <2>2. ASSUME NEW x \in Slot, Stands(x) PROVE Stands(x)'
    <3>1. CASE c = "reset"
      <4>1. tombstone'.slot = s
        BY <2>1, <3>1 DEF TombstoneReturns
      <4>2. tombstone.slot = s \/ tombstone.slot = NoSlot
        BY DEF ReadLockFree, NoTombstone
      <4> QED BY <2>1, <2>2, <4>1, <4>2, SlotAssumption DEF Stands
    <3>2. CASE c # "reset"
      <4>1. tombstone.slot = NoSlot
        BY <3>2 DEF ReadLockFree, NoTombstone
      <4> QED BY <2>1, <2>2, <4>1, SlotAssumption DEF Stands
    <3> QED BY <3>1, <3>2
  <2> QED BY <1>1, <2>1, <2>2 DEF TakesAway, GenInv, GraphsShaped
<1>3. CASE state[s] # "Evicted"
  <2>1. /\ published' = [published EXCEPT ![s] = Placeholder]
        /\ tombstone' = [slot |-> s, next |-> "sample", by |-> c]
    BY <1>3 DEF EvictToTombstone, ReleaseGraph
  <2>2. tombstone'.slot = s /\ (tombstone.slot = s \/ tombstone.slot = NoSlot)
    BY <2>1 DEF ReadLockFree, NoTombstone
  <2>3. \A x \in Slot : x # s => published'[x] = published[x]
    BY <2>1 DEF GenInv, GraphsShaped
  <2>4. \A x \in Slot : Stands(x) => Stands(x)'
    BY <2>2, <2>3, SlotAssumption DEF Stands
  <2> QED BY <1>1, <2>1, <2>4 DEF TakesAway, GenInv, GraphsShaped
<1> QED BY <1>2, <1>3

LEMMA EvictionTakes ==
  ASSUME GenInv, NEW k, NEW c, ExecuteEviction(k, c), new' = new
  PROVE  TakesAway /\ state' = state
<1>1. ReadLockFree /\ \A t \in Task : pc[t] \notin PublishPC
  BY DEF ExecuteEviction, WriteLockFree
<1>2. CASE workspaces[k] \in Slot
  BY <1>1, <1>2, TombstoneBegins DEF ExecuteEviction
<1>3. CASE workspaces[k] \notin Slot
  <2>1. UNCHANGED <<state, published, tombstone>>
    BY <1>3 DEF ExecuteEviction, slotVars
  <2> QED BY <1>1, <2>1 DEF TakesAway, Stands, GenInv, GraphsShaped
<1> QED BY <1>2, <1>3

\* The rest of it, and the stores of a reset.
LEMMA TombstoneTakes ==
  ASSUME Kept, GenInv, WriteTombstone
  PROVE  TakesAway
<1>0. \A t \in Task : pc[t] \notin PublishPC
  <2>1. ~ReadLockFree
    BY DEF WriteTombstone, TombstoneSamples, TombstoneCancels, TombstoneStores, ResetReleases, ResetClears,
       ResetStores, ReadLockFree, NoTombstone
  <2> QED BY <2>1 DEF GenInv
<1>00. new' = new
  BY TombstoneOpens DEF Kept, taskVars, localVars
<1>a. ASSUME UNCHANGED <<state, published>>, tombstone'.slot = tombstone.slot
      PROVE  TakesAway
  BY <1>0, <1>00, <1>a DEF TakesAway, Stands, GenInv, GraphsShaped
<1>b. ASSUME published' = published, NEW to \in {"Evicted", "Unloaded"},
             state' = [state EXCEPT ![tombstone.slot] = to]
      PROVE  TakesAway
  <2>1. \A s \in Slot : IF s = tombstone.slot THEN state'[s] = to ELSE state'[s] = state[s]
    BY <1>b DEF Kept, DispatcherInv, TypesKept
  <2>2. \A s \in Slot : s # tombstone.slot /\ Stands(s) => Stands(s)'
    BY <1>b DEF Stands
  <2> QED BY <1>0, <1>00, <1>b, <2>1, <2>2 DEF TakesAway, GenInv, GraphsShaped
<1>6. CASE TombstoneSamples
  <2>1. UNCHANGED <<state, published>> /\ tombstone' = [tombstone EXCEPT !.next = "cancel"]
    BY <1>6 DEF TombstoneSamples
  <2> QED BY <2>1, <1>a
<1>1. CASE TombstoneCancels
  BY <1>1, <1>a DEF TombstoneCancels
<1>2. CASE TombstoneStores
  BY <1>2, <1>b DEF TombstoneStores
<1>3. CASE ResetReleases
  <2>1. EvictToTombstone(tombstone.slot, "reset") /\ tombstone.slot \in Slot
    BY <1>3 DEF ResetReleases, Kept, DispatcherInv, ResetHoldsLane
  <2>2. PICK s \in Slot : s = tombstone.slot
    BY <2>1
  <2> QED BY <1>0, <1>00, <2>1, <2>2, TombstoneBegins
<1>4. CASE ResetClears
  BY <1>4, <1>a DEF ResetClears
<1>5. CASE ResetStores
  BY <1>5, <1>b DEF ResetStores
<1> QED BY <1>1, <1>2, <1>3, <1>4, <1>5, <1>6 DEF WriteTombstone

\* A runner that moves without a publication, an entry or a graph.
LEMMA RunGoesOn ==
  ASSUME GenInv, NEW r \in Runner, at'[r] = at[r], entry'[r] = entry[r],
         pc[r] \notin Away \/ pc'[r] \in Away,
         state'[at[r]] = "Rebuilding" => state[at[r]] = "Rebuilding",
         Stands(at[r]) => published'[at[r]] # Placeholder \/ tombstone'.slot = at[r]
  PROVE  RunStands(r)'
<1>1. RunStands(r)
  BY DEF GenInv
<1> QED BY <1>1 DEF RunStands, Stands

LEMMA ManagerKeepsGraphs ==
  ASSUME Kept, GenInv, NEW t \in Task, ManagerStep(t)
  PROVE  GenInv'
<1>0. ASSUME NEW p, Goto(t, p), UNCHANGED <<at, entry>> PROVE OnlyMoves(t) /\ pc'[t] = p
  BY <1>0, GotoMoves DEF Kept
<1>00. HasGraph(t) /\ pc[t] \notin Away
  BY ManagerMoves DEF GenInv, Kept
<1> USE DEF ManagerStep, mapVars, slotVars, localVars
\* A step of the reservation that evicts nobody, or of the bookkeeping.
<1>a. ASSUME UNCHANGED <<at, entry, state, published, new, tombstone>>, NEW p, Goto(t, p),
             \/ p \notin PublishPC \cup {"publish"}
             \/ pc[t] \in {"memory", "commit"} /\ p \in {"commit", "store"}
      PROVE  GenInv'
  <2>1. OnlyMoves(t) /\ pc'[t] = p
    BY <1>0, <1>a
  <2>2. HasGraph(t)'
    BY <1>00, <1>a, <2>1 DEF HasGraph, PublishPC
  <2>3. t \in Runner => RunStands(t)'
    BY <1>00, <1>a, RunGoesOn DEF Stands
  <2>4. pc'[t] \in PublishPC => pc[t] \in PublishPC
    BY <1>a, <2>1 DEF PublishPC
  <2> QED BY <1>a, <2>1, <2>2, <2>3, <2>4, PlainStep
<1>1. CASE ReservePlan(t)
  <2>1. \E p \in {"fail", "abandon", "cancelled", "admit", "evict"} : Goto(t, p)
    BY <1>1 DEF ReservePlan, OnEvicted
  <2> QED BY <1>1, <1>a, <2>1 DEF ReservePlan, PublishPC
<1>2. CASE ReserveEvict(t)
  <2>1. PICK k \in victims[t] :
          ExecuteEviction(k, t) /\ Goto(t, IF victims[t] = {k} THEN "reap" ELSE "evict")
    BY <1>2 DEF ReserveEvict
  <2>2. pc[t] = "evict" /\ UNCHANGED <<at, entry, new>>
    BY <1>2 DEF ReserveEvict
  <2>3. OnlyMoves(t) /\ pc'[t] \in {"reap", "evict"}
    BY <1>0, <2>1, <2>2
  <2>4. TakesAway /\ state' = state
    BY <2>1, <2>2, EvictionTakes
  <2>5. HasGraph(t)' /\ pc'[t] \notin PublishPC
    BY <2>3 DEF HasGraph, PublishPC
  <2>6. t \in Runner => RunStands(t)'
    <3>1. at[t] \in Slot
      BY <2>2 DEF Kept, DispatcherInv, TaskIsPlaced
    <3>2. PICK s \in Slot : s = at[t]
      BY <3>1
    <3>3. state[s] = "Rebuilding" /\ Stands(s) => Stands(s)'
      BY <2>4 DEF TakesAway
    <3>4. RunStands(t) \/ t \notin Runner
      BY DEF GenInv
    <3> QED BY <1>00, <2>2, <2>4, <3>2, <3>3, <3>4 DEF RunStands, Stands
  <2>7. {t} \in SUBSET Task /\ \A x \in {t} : /\ HasGraph(x)' /\ (x \in Runner => RunStands(x)')
                                              /\ pc'[x] \notin PublishPC
    BY <2>5, <2>6
  <2>8. \A u \in Task \ {t} : pc'[u] = pc[u] /\ at'[u] = at[u] /\ entry'[u] = entry[u]
    BY <2>3 DEF OnlyMoves
  <2> QED BY <2>2, <2>4, <2>7, <2>8, TakingKeepsGraphs
<1>3. CASE ReserveReap(t)
  BY <1>3, <1>a DEF ReserveReap, PublishPC
<1>4. CASE ReserveAdmit(t)
  <2>1. \E p \in {"abandon", "refuse", "build"} : Goto(t, p)
    BY <1>4 DEF ReserveAdmit, OnBudget
  <2> QED BY <1>4, <1>a, <2>1 DEF ReserveAdmit, PublishPC
<1>5. CASE PublishSwap(t)
  <2>1. /\ pc[t] = "swap" /\ published' = [published EXCEPT ![at[t]] = new[t].graph]
        /\ Goto(t, "memory") /\ UNCHANGED <<at, entry, state, new, tombstone>>
    BY <1>5 DEF PublishSwap
  <2>2. new[t].graph # Placeholder /\ at[t] \in Slot
    BY <1>00, <2>1 DEF HasGraph, Kept, DispatcherInv, TaskIsPlaced
  <2>3. OnlyMoves(t) /\ pc'[t] = "memory" /\ published'[at[t]] # Placeholder
    BY <1>0, <2>1, <2>2 DEF GenInv, GraphsShaped
  <2>4. HasGraph(t)'
    BY <2>1, <2>3 DEF HasGraph
  <2>5. t \in Runner => RunStands(t)'
    BY <2>1, <2>3 DEF RunStands, Stands
  <2>6. pc[t] \in PublishPC
    BY <2>1 DEF PublishPC
  <2> QED BY <2>1, <2>2, <2>3, <2>4, <2>5, <2>6, PlainStep
<1>6. CASE PublishMemory(t)
  BY <1>6, <1>a DEF PublishMemory
<1>7. CASE PublishCommit(t)
  BY <1>7, <1>a DEF PublishCommit
<1>8. CASE PublishUnwind(t)
  BY <1>8 DEF PublishUnwind, Kept
<1> QED BY <1>1, <1>2, <1>3, <1>4, <1>5, <1>6, <1>7, <1>8 DEF Reserve, PublishAndRetain

LEMMA InnerKeepsGraphs ==
  ASSUME Kept, GenInv, NEW r \in Runner, InnerAction(r)
  PROVE  GenInv'
<1>0. r \in Task /\ HasGraph(r) /\ RunStands(r)
  BY DEF Task, GenInv
<1>00. ASSUME pc[r] \notin Away PROVE at[r] \in Slot
  BY <1>0, <1>00 DEF Kept, DispatcherInv, TaskIsPlaced, Away
<1> USE DEF mapVars, slotVars, localVars, dispatcherVars
\* The iteration ends.
<1>a. ASSUME pc[r] \notin Away, NEW to, NEW o, EndIteration(r, o),
             TransitionState(at[r], "Rebuilding", to), UNCHANGED <<published, tombstone>>,
             to # "Rebuilding",
             to = "Loaded" /\ state[at[r]] = "Rebuilding" => Stands(at[r])
      PROVE  GenInv'
  <2>1. \A s \in Slot : state'[s] = IF s = at[r] /\ state[s] = "Rebuilding" THEN to ELSE state[s]
    BY <1>a DEF TransitionState, Kept, DispatcherInv, TypesKept
  <2>2. OnlyMoves(r) /\ pc'[r] = "deliver" /\ at'[r] = at[r] /\ new' = [new EXCEPT ![r] = NoNew]
    BY <1>a, EndMoves DEF Kept, EndIteration
  <2>3. HasGraph(r)' /\ pc'[r] \notin PublishPC
    BY <2>2 DEF HasGraph, PublishPC
  <2>4. RunStands(r)'
    BY <1>00, <1>a, <2>1, <2>2 DEF RunStands
  <2>5. \A s \in Slot : state'[s] = "Loaded" => state[s] = "Loaded" \/ Stands(s)
    BY <1>a, <2>1
  <2> QED BY <1>0, <1>a, <2>1, <2>2, <2>3, <2>4, <2>5, PlainStep
\* It goes on with the slots as they are.
<1>b. ASSUME pc[r] \notin Away, NEW p, Goto(r, p),
             UNCHANGED <<at, entry, state, published, tombstone>>,
             new' = new \/ \E x : new' = [new EXCEPT ![r] = x],
             p \in PublishPC => ReadLockFree, HasGraph(r)'
      PROVE  GenInv'
  <2>1. OnlyMoves(r) /\ pc'[r] = p
    BY <1>0, <1>b, GotoMoves DEF Kept
  <2>2. RunStands(r)'
    BY <1>b, RunGoesOn DEF Stands
  <2> QED BY <1>0, <1>b, <2>1, <2>2, PlainStep
<1>c. ASSUME NEW p, Goto(r, p), p \notin PublishPC \cup {"publish"} PROVE HasGraph(r)'
  <2>1. pc'[r] = p
    BY <1>0, <1>c DEF Goto, Kept, DispatcherInv, TypesKept
  <2> QED BY <1>c, <2>1 DEF HasGraph, PublishPC
<1>1. CASE Gate(r)
  <2>1. /\ UNCHANGED <<at, entry, state, published, new, tombstone>> /\ pc[r] = "drain"
        /\ \E p \in {"consumed", "release", "enter"} : Goto(r, p)
    BY <1>1 DEF Gate
  <2> QED BY <1>b, <1>c, <2>1 DEF PublishPC, Away
<1>2. CASE EnterRebuilding(r)
  <2>1. pc[r] = "enter" /\ UNCHANGED <<published, tombstone>>
    BY <1>2 DEF EnterRebuilding
  <2>2. at[r] \in Slot /\ pc[r] \notin Away
    BY <1>00, <2>1 DEF Away
  <2>3. CASE state[at[r]] \notin {"Evicted", "Loading"}
    <3>1. /\ state' = [state EXCEPT ![at[r]] = "Rebuilding"]
          /\ entry' = [entry EXCEPT ![r] = [@ EXCEPT !.prior = state[at[r]]]]
          /\ Goto(r, "inputs") /\ UNCHANGED <<at, new>>
      BY <1>2, <2>3 DEF EnterRebuilding
    <3>2. \A s \in Slot : state'[s] = IF s = at[r] THEN "Rebuilding" ELSE state[s]
      BY <3>1 DEF Kept, DispatcherInv, TypesKept
    <3>3. OnlyMoves(r) /\ pc'[r] = "inputs"
      BY <1>0, <3>1 DEF OnlyMoves, Goto, Kept, DispatcherInv, TypesKept
    <3>4. entry'[r].prior = state[at[r]]
      <4>1. entry[r] \in Entries /\ entry'[r] = [entry[r] EXCEPT !.prior = state[at[r]]]
        BY <1>0, <3>1 DEF Kept, DispatcherInv, TypesKept
      <4> QED BY <4>1 DEF Entries
    <3>5. state[at[r]] # "Rebuilding"
      <4>1. ~LeftBehind(at[r])
        BY DEF LeftBehind, Kept, DispatcherInv, UnwoundMay
      <4> QED BY <2>1, <2>2, <4>1 DEF Kept, RoleInv, IterationOpen
    <3>6. state[at[r]] = "Loaded" => Stands(at[r])
      BY <2>2 DEF GenInv
    <3>7. HasGraph(r)' /\ RunStands(r)' /\ pc'[r] \notin PublishPC
      BY <2>1, <3>1, <3>3, <3>4, <3>5, <3>6 DEF HasGraph, RunStands, Stands, PublishPC
    <3> QED BY <1>0, <2>1, <2>2, <3>1, <3>2, <3>3, <3>7, PlainStep
  <2>4. CASE state[at[r]] \in {"Evicted", "Loading"}
    <3>1. /\ state' = state
          /\ EndIteration(r, IF state[at[r]] = "Evicted" THEN "evicted" ELSE "failed")
      BY <1>2, <2>4 DEF EnterRebuilding
    <3>2. TransitionState(at[r], "Rebuilding", "Failed")
      BY <2>2, <2>4, <3>1 DEF TransitionState, Kept, DispatcherInv, TypesKept
    <3> QED BY <1>a, <2>1, <2>2, <3>1, <3>2
  <2> QED BY <2>3, <2>4
<1>3. CASE RefuseReset(r)
  BY <1>3, <1>a DEF RefuseReset, Away
<1>4. CASE ResolveInputs(r)
  <2>1. /\ UNCHANGED <<at, entry, state, published, new, tombstone>> /\ pc[r] = "inputs"
        /\ \E p \in {"reserve", "refuse"} : Goto(r, p)
    BY <1>4 DEF ResolveInputs
  <2> QED BY <1>b, <1>c, <2>1 DEF PublishPC, Away
<1>5. CASE RecordRefusal(r)
  <2>1. pc[r] = "refuse" /\ pc[r] \notin Away
    BY <1>5 DEF RecordRefusal, Away
  <2>2. RefusedState(entry[r].prior) = "Loaded" /\ state[at[r]] = "Rebuilding"
          => Stands(at[r])
    BY <1>0, <2>1 DEF RunStands, RefusedState
  <2>3. RefusedState(entry[r].prior) # "Rebuilding"
    BY DEF RefusedState
  <2> QED BY <1>5, <1>a, <2>1, <2>2, <2>3 DEF RecordRefusal
<1>6. CASE RecordCancelled(r)
  BY <1>6, <1>a DEF RecordCancelled, Away
<1>7. CASE RecordFailed(r)
  BY <1>7, <1>a DEF RecordFailed, Away
<1>8. CASE ExecuteRebuild(r)
  <2>1. /\ UNCHANGED <<at, entry, state, published, tombstone>> /\ pc[r] = "build"
        /\ \/ /\ \E g \in FreshGraphs, b \in Sizes :
                   new' = [new EXCEPT ![r] = [graph |-> g, bytes |-> b]]
              /\ Goto(r, "publish")
           \/ new' = new /\ \E p \in {"refuse", "failed", "cancelled"} : Goto(r, p)
    BY <1>8 DEF ExecuteRebuild
  <2>2. CASE new' = new /\ \E p \in {"refuse", "failed", "cancelled"} : Goto(r, p)
    BY <1>b, <1>c, <2>1, <2>2 DEF PublishPC, Away
  <2>3. ASSUME NEW g \in FreshGraphs, NEW b \in Sizes, Goto(r, "publish"),
               new' = [new EXCEPT ![r] = [graph |-> g, bytes |-> b]]
        PROVE  GenInv'
    <3>1. g # Placeholder
      BY SlotAssumption DEF FreshGraphs
    <3>2. new'[r].graph # Placeholder
      BY <1>0, <2>3, <3>1 DEF GenInv, GraphsShaped
    <3>3. pc'[r] = "publish"
      BY <1>0, <2>3 DEF Goto, Kept, DispatcherInv, TypesKept
    <3>4. HasGraph(r)'
      BY <3>2, <3>3 DEF HasGraph
    <3> QED BY <1>b, <2>1, <2>3, <3>4 DEF PublishPC, Away
  <2> QED BY <2>1, <2>2, <2>3
<1>9. CASE RecheckCancelled(r)
  <2>1. /\ UNCHANGED <<state, published, tombstone>> /\ pc[r] = "publish"
        /\ EndIteration(r, "evicted")
    BY <1>9 DEF RecheckCancelled
  <2>2. /\ OnlyMoves(r) /\ pc'[r] = "deliver" /\ at'[r] = at[r] /\ new' = [new EXCEPT ![r] = NoNew]
        /\ entry'[r] = NoEntry
    BY <1>0, <2>1, EndMoves DEF Kept, EndIteration, DispatcherInv, TypesKept
  <2>3. HasGraph(r)' /\ RunStands(r)' /\ pc'[r] \notin PublishPC
    BY <2>2 DEF HasGraph, RunStands, NoEntry, PublishPC
  <2> QED BY <1>0, <2>1, <2>2, <2>3, PlainStep
<1>10. CASE RecheckUnregistered(r)
  BY <1>10, <1>a DEF RecheckUnregistered, Away
<1>11. CASE RecheckOversize(r)
  BY <1>11, <1>a DEF RecheckOversize, Away
<1>12. CASE RecheckPublishes(r)
  <2>1. /\ UNCHANGED <<at, entry, state, published, new, tombstone>> /\ ReadLockFree
        /\ pc[r] = "publish" /\ Goto(r, "swap")
    BY <1>12 DEF RecheckPublishes
  <2>2. pc'[r] = "swap"
    BY <1>0, <2>1, GotoMoves DEF Kept
  <2>3. HasGraph(r)'
    BY <1>0, <2>1, <2>2 DEF HasGraph
  <2> QED BY <1>b, <2>1, <2>3 DEF Away
<1>13. CASE StoreRebuilt(r)
  <2>1. pc[r] = "store" /\ Stands(at[r])
    BY <1>0, <1>13 DEF StoreRebuilt, HasGraph, Stands
  <2> QED BY <1>13, <1>a, <2>1 DEF StoreRebuilt, Away
<1>14. CASE ManagerStep(r)
  BY <1>0, <1>14, ManagerKeepsGraphs
<1> QED BY <1>1, <1>2, <1>3, <1>4, <1>5, <1>6, <1>7, <1>8, <1>9, <1>10, <1>11,
          <1>12, <1>13, <1>14 DEF InnerAction

LEMMA VisitKeepsGraphs ==
  ASSUME Kept, GenInv, NEW r \in Runner, VisitAction(r)
  PROVE  GenInv'
<1>0. r \in Task /\ RunStands(r)
  BY DEF Task, GenInv
<1> USE DEF mapVars, slotVars, localVars
<1>a. ASSUME Finish(r), UNCHANGED <<published, tombstone>>,
             state' = state \/ \E to \in {"Unloaded", "Failed"} :
                                 TransitionState(at[r], "Rebuilding", to)
      PROVE  GenInv'
  <2>1. OnlyMoves(r) /\ pc'[r] = "idle" /\ new' = [new EXCEPT ![r] = NoNew]
    BY <1>0, <1>a, FinishMoves DEF Kept, Finish
  <2>2. HasGraph(r)' /\ RunStands(r)' /\ pc'[r] \notin PublishPC
    BY <2>1 DEF HasGraph, RunStands, Away, PublishPC
  <2>3. \A s \in Slot : state'[s] = state[s] \/ state'[s] \in {"Unloaded", "Failed"}
    BY <1>a DEF TransitionState, Kept, DispatcherInv, TypesKept
  <2> QED BY <1>0, <1>a, <2>1, <2>2, <2>3, PlainStep
<1>b. ASSUME NEW p \in {"park", "drain", "next", "leaving"}, Goto(r, p),
             UNCHANGED <<at, entry, state, published, new, tombstone>>,
             pc[r] \notin Away \/ p = "park" \/ state[at[r]] # "Rebuilding"
      PROVE  GenInv'
  <2>1. OnlyMoves(r) /\ pc'[r] = p
    BY <1>0, <1>b, GotoMoves DEF Kept
  <2>2. HasGraph(r)' /\ pc'[r] \notin PublishPC
    BY <2>1 DEF HasGraph, PublishPC
  <2>3. RunStands(r)'
    BY <1>0, <1>b, <2>1 DEF RunStands, Stands, Away
  <2> QED BY <1>0, <1>b, <2>1, <2>2, <2>3, PlainStep
<1>1. CASE RefuseRequest(r)
  BY <1>1, <1>a DEF RefuseRequest
<1>2. CASE Acquire(r)
  <2>1. \E p \in {"park", "drain"} : Goto(r, p)
    BY <1>2 DEF Acquire
  <2>2. CASE inFlight[at[r]]
    BY <1>2, <1>b, <2>2 DEF Acquire
  <2>3. CASE ~inFlight[at[r]]
    <3>1. at[r] \in Slot
      BY <1>0, <1>2 DEF Acquire, Kept, DispatcherInv, TaskIsPlaced
    <3>2. \A q \in Runner : pc[q] # "leaving"
      BY DEF Kept, DispatcherInv, UnwoundMay
    <3>3. state[at[r]] # "Rebuilding"
      BY <2>3, <3>1, <3>2 DEF Kept, RoleInv, RebuildingHasRunner
    <3> QED BY <1>2, <1>b, <2>1, <3>3 DEF Acquire
  <2> QED BY <2>2, <2>3
<1>3. CASE Park(r)
  BY <1>3, <1>a DEF Park
<1>4. CASE CancelDrain(r)
  BY <1>4, <1>a DEF CancelDrain, EndDrain
<1>5. CASE SentinelDrop(r)
  BY <1>5, <1>b DEF SentinelDrop, Away
<1>9. CASE SentinelLeaves(r)
  BY <1>9, <1>a DEF SentinelLeaves, EndDrain
<1>6. CASE Release(r)
  <2>1. UNCHANGED <<state, published, tombstone>> /\ pc[r] = "release"
    BY <1>6 DEF Release
  <2>2. Finish(r) \/ (Goto(r, "drain") /\ UNCHANGED <<at, entry, new>>)
    BY <1>6 DEF Release, EndDrain
  <2> QED BY <1>a, <1>b, <2>1, <2>2 DEF Away
<1>7. CASE DeliverOutcome(r)
  BY <1>7, <1>b DEF DeliverOutcome, Away
<1>8. CASE TakeNext(r)
  BY <1>8, <1>b DEF TakeNext, Away
<1> QED BY <1>1, <1>2, <1>3, <1>4, <1>5, <1>6, <1>7, <1>8, <1>9 DEF VisitAction

LEMMA LookupKeepsGraphs ==
  ASSUME Kept, GenInv, NEW r \in Runner, NEW k \in Key, Lookup(r, k)
  PROVE  GenInv'
<1>1. /\ pc' = [pc EXCEPT ![r] = "acquire"]
      /\ at' = [at EXCEPT ![r] = workspaces[k]]
      /\ UNCHANGED <<state, published, new, entry, tombstone>>
  BY DEF Lookup, Goto, slotVars, mapVars
<1>2. OnlyMoves(r) /\ pc'[r] = "acquire" /\ r \in Task
  BY <1>1 DEF OnlyMoves, Kept, DispatcherInv, TypesKept, Task
<1>3. HasGraph(r)' /\ RunStands(r)' /\ pc'[r] \notin PublishPC
  BY <1>2 DEF HasGraph, RunStands, Away, PublishPC
<1> QED BY <1>1, <1>2, <1>3, PlainStep

LEMMA LoadKeepsGraphs ==
  ASSUME Kept, GenInv, NEW l \in Loader, LoaderStep(l)
  PROVE  GenInv'
<1>0. l \in Task /\ l \notin Runner /\ HasGraph(l)
  BY LoaderAssumption DEF Task, GenInv
<1>00. ASSUME PastGate(l)
       PROVE  entry[l].prior \in {"Unloaded", "Failed", "Evicted"}
  BY <1>00 DEF Kept, RoleInv, LoadHolds
<1> USE DEF mapVars, slotVars, localVars
\* A load that goes on with no graph yet.
<1>a. ASSUME UNCHANGED <<at, entry, state, published, new, tombstone>>, NEW p, Goto(l, p),
             p \notin PublishPC \cup {"publish"}
      PROVE  GenInv'
  <2>1. OnlyMoves(l) /\ pc'[l] = p
    BY <1>0, <1>a, GotoMoves DEF Kept
  <2>2. HasGraph(l)'
    BY <1>a, <2>1 DEF HasGraph, PublishPC
  <2> QED BY <1>0, <1>a, <2>1, <2>2, PlainStep
\* A load that ends.
<1>b. ASSUME Finish(l), UNCHANGED <<published, tombstone>>,
             \A s \in Slot : \/ state'[s] = state[s]
                             \/ state'[s] \in {"Unloaded", "Failed", "Evicted"}
                             \/ state'[s] = "Loaded" /\ Stands(s)
      PROVE  GenInv'
  <2>1. OnlyMoves(l) /\ pc'[l] = "idle" /\ new' = [new EXCEPT ![l] = NoNew]
    BY <1>0, <1>b, FinishMoves DEF Kept, Finish
  <2>2. HasGraph(l)' /\ pc'[l] \notin PublishPC
    BY <2>1 DEF HasGraph, PublishPC
  <2>3. \A s \in Slot : state'[s] = "Loaded" => state[s] = "Loaded" \/ Stands(s)
    BY <1>b
  <2>4. \A s \in Slot : state'[s] = "Rebuilding" => state[s] = "Rebuilding"
    BY <1>b
  <2> QED BY <1>0, <1>b, <2>1, <2>2, <2>3, <2>4, PlainStep
<1>c. ASSUME NEW to \in {"Unloaded", "Failed", "Evicted"},
             TransitionState(at[l], "Loading", to)
      PROVE  \A s \in Slot : \/ state'[s] = state[s]
                             \/ state'[s] \in {"Unloaded", "Failed", "Evicted"}
  BY <1>c DEF TransitionState, Kept, DispatcherInv, TypesKept
<1>1. CASE LoadMeetsRunner(l)
  <2>1. /\ Finish(l) /\ UNCHANGED <<published, tombstone>>
        /\ TransitionState(at[l], "Loading", "Evicted")
    BY <1>1 DEF LoadMeetsRunner, HonorRefuses
  <2> QED BY <1>b, <1>c, <2>1
<1> SUFFICES ASSUME LoadStep(l), UNCHANGED dispatcherVars PROVE GenInv'
  BY <1>1 DEF LoaderStep
<1>2. CASE EnterLoading(l)
  <2>1. UNCHANGED <<published, tombstone>>
    BY <1>2 DEF EnterLoading
  <2>2. CASE state[at[l]] \in {"Unloaded", "Failed", "Evicted"}
    <3>1. /\ state' = [state EXCEPT ![at[l]] = "Loading"]
          /\ entry' = [entry EXCEPT ![l] = [prior |-> state[at[l]],
                      inserted |-> @.inserted, cancelled |-> FALSE]]
          /\ Goto(l, "entered") /\ UNCHANGED <<at, new>>
      BY <1>2, <2>2 DEF EnterLoading
    <3>2. OnlyMoves(l) /\ pc'[l] = "entered"
      BY <1>0, <3>1 DEF OnlyMoves, Goto, Kept, DispatcherInv, TypesKept
    <3>3. \A s \in Slot : state'[s] = state[s] \/ state'[s] = "Loading"
      BY <3>1 DEF Kept, DispatcherInv, TypesKept
    <3>4. HasGraph(l)' /\ pc'[l] \notin PublishPC
      BY <3>2 DEF HasGraph, PublishPC
    <3> QED BY <1>0, <2>1, <3>1, <3>2, <3>3, <3>4, PlainStep
  <2>3. CASE state[at[l]] \notin {"Unloaded", "Failed", "Evicted"}
    BY <1>2, <1>b, <2>1, <2>3 DEF EnterLoading
  <2> QED BY <2>2, <2>3
<1>3. CASE ObserveCancel(l)
  <2>1. /\ Goto(l, "observed")
        /\ \E e : entry' = [entry EXCEPT ![l] = e]
        /\ UNCHANGED <<at, state, published, new, tombstone>>
    BY <1>3 DEF ObserveCancel
  <2>2. OnlyMoves(l) /\ pc'[l] = "observed"
    BY <1>0, <2>1 DEF OnlyMoves, Goto, Kept, DispatcherInv, TypesKept
  <2>3. HasGraph(l)' /\ pc'[l] \notin PublishPC
    BY <2>2 DEF HasGraph, PublishPC
  <2> QED BY <1>0, <2>1, <2>2, <2>3, PlainStep
<1>4. CASE HonorConsumes(l)
  <2>1. /\ \E p \in {"prepare", "rearm"} : Goto(l, p)
        /\ UNCHANGED <<at, entry, state, published, new, tombstone>>
    BY <1>4 DEF HonorConsumes
  <2> QED BY <1>a, <2>1 DEF PublishPC
<1>5. CASE HonorFails(l)
  <2>1. /\ Finish(l) /\ UNCHANGED <<published, tombstone>>
        /\ TransitionState(at[l], "Loading", "Failed")
    BY <1>5 DEF HonorFails
  <2> QED BY <1>b, <1>c, <2>1
<1>6. CASE Prepare(l)
  <2>1. /\ \E p \in {"reserve", "abandon", "fail"} : Goto(l, p)
        /\ UNCHANGED <<at, entry, state, published, new, tombstone>>
    BY <1>6 DEF Prepare
  <2> QED BY <1>a, <2>1 DEF PublishPC
<1>7. CASE AbandonLoad(l)
  <2>1. /\ Finish(l) /\ UNCHANGED <<published, tombstone>> /\ pc[l] = "abandon"
        /\ TransitionState(at[l], "Loading", entry[l].prior)
    BY <1>7 DEF AbandonLoad
  <2>2. entry[l].prior \in {"Unloaded", "Failed", "Evicted"}
    BY <1>00, <2>1 DEF PastGate
  <2> QED BY <1>b, <1>c, <2>1, <2>2
<1>8. CASE FailLoad(l)
  <2>1. /\ Finish(l) /\ UNCHANGED <<published, tombstone>>
        /\ TransitionState(at[l], "Loading", "Failed")
    BY <1>8 DEF FailLoad
  <2> QED BY <1>b, <1>c, <2>1
<1>9. CASE Build(l)
  <2>1. /\ UNCHANGED <<at, entry, state, published, tombstone>>
        /\ \/ /\ \E g \in FreshGraphs, b \in Sizes :
                   new' = [new EXCEPT ![l] = [graph |-> g, bytes |-> b]]
              /\ Goto(l, "publish")
           \/ new' = new /\ \E p \in {"abandon", "fail"} : Goto(l, p)
    BY <1>9 DEF Build
  <2>2. CASE new' = new /\ \E p \in {"abandon", "fail"} : Goto(l, p)
    BY <1>a, <2>1, <2>2 DEF PublishPC
  <2>3. ASSUME NEW g \in FreshGraphs, NEW b \in Sizes, Goto(l, "publish"),
               new' = [new EXCEPT ![l] = [graph |-> g, bytes |-> b]]
        PROVE  GenInv'
    <3>1. OnlyMoves(l) /\ pc'[l] = "publish"
      BY <1>0, <2>1, <2>3, GotoMoves DEF Kept
    <3>2. new'[l].graph # Placeholder
      <4>1. g # Placeholder
        BY SlotAssumption DEF FreshGraphs
      <4> QED BY <1>0, <2>3, <4>1 DEF GenInv, GraphsShaped
    <3>3. HasGraph(l)' /\ pc'[l] \notin PublishPC
      BY <3>1, <3>2 DEF HasGraph, PublishPC
    <3> QED BY <1>0, <2>1, <2>3, <3>1, <3>3, PlainStep
  <2> QED BY <2>1, <2>2, <2>3
<1>10. CASE LoadRecheck(l)
  <2>1. /\ UNCHANGED <<at, entry, state, published, tombstone>> /\ pc[l] = "publish"
        /\ ReadLockFree
        /\ \/ new' = new /\ Goto(l, "swap")
           \/ new' = [new EXCEPT ![l] = NoNew] /\ Goto(l, "fail")
    BY <1>10 DEF LoadRecheck
  <2>2. OnlyMoves(l) /\ (pc'[l] = "fail" \/ (pc'[l] = "swap" /\ new' = new))
    BY <1>0, <2>1, GotoMoves DEF Kept
  <2>3. HasGraph(l)'
    BY <1>0, <2>1, <2>2 DEF HasGraph
  <2> QED BY <1>0, <2>1, <2>2, <2>3, PlainStep
<1>11. CASE StoreLoaded(l)
  <2>1. /\ Finish(l) /\ UNCHANGED <<published, tombstone>> /\ pc[l] = "store"
        /\ state' = [state EXCEPT ![at[l]] = "Loaded"]
    BY <1>11 DEF StoreLoaded
  <2>2. \A s \in Slot : state'[s] = state[s] \/ (state'[s] = "Loaded" /\ Stands(s))
    BY <1>0, <2>1 DEF HasGraph, Stands, Kept, DispatcherInv, TypesKept
  <2> QED BY <1>b, <2>1, <2>2
<1>12. CASE ManagerStep(l)
  BY <1>0, <1>12, ManagerKeepsGraphs
<1> QED BY <1>2, <1>3, <1>4, <1>5, <1>6, <1>7, <1>8, <1>9, <1>10, <1>11, <1>12
        DEF LoadStep, ManagerStep

LEMMA RequestKeepsGraphs ==
  ASSUME Kept, GenInv, NEW l \in Loader, LoadRequest(l)
  PROVE  GenInv'
<1> DEFINE k == LoaderKey[l]
<1>0. l \in Task /\ l \notin Runner
  BY LoaderAssumption DEF Task
<1>1. pc' = [pc EXCEPT ![l] = "gate"] /\ UNCHANGED <<new, tombstone>>
  BY DEF LoadRequest, GetOrInsert, Goto
<1>2. pc'[l] = "gate"
  BY <1>0, <1>1 DEF Kept, DispatcherInv, TypesKept
<1>3. HasGraph(l)' /\ pc'[l] \notin PublishPC
  BY <1>2 DEF HasGraph, PublishPC
<1>4. CASE /\ workspaces[k] \in Slot
           /\ at' = [at EXCEPT ![l] = workspaces[k]]
           /\ UNCHANGED <<workspaces, slotVars, entry>>
  <2>1. OnlyMoves(l)
    BY <1>0, <1>1, <1>4 DEF OnlyMoves, Kept, DispatcherInv, TypesKept
  <2> QED BY <1>0, <1>1, <1>3, <1>4, <2>1, PlainStep DEF slotVars
<1>5. ASSUME NEW s \in FreshSlots(k),
             at' = [at EXCEPT ![l] = s], WriteLockFree,
             state' = [state EXCEPT ![s] = "Unloaded"],
             published' = [published EXCEPT ![s] = Placeholder],
             entry' = [entry EXCEPT ![l] = [NoEntry EXCEPT !.inserted = TRUE]]
      PROVE  GenInv'
  <2>1. OnlyMoves(l)
    BY <1>0, <1>1, <1>5 DEF OnlyMoves, Kept, DispatcherInv, TypesKept
  <2>2. GraphsShaped'
    BY <1>1, <1>5 DEF GenInv, GraphsShaped
  <2>3. \A x \in Slot : \/ state'[x] = state[x] /\ published'[x] = published[x]
                        \/ state'[x] \in {"Evicted", "Unloaded"}
    BY <1>5 DEF Kept, DispatcherInv, TypesKept, GenInv, GraphsShaped
  <2>4. TakesAway
    BY <1>1, <1>5, <2>2, <2>3 DEF TakesAway, WriteLockFree, Stands
  <2>5. {l} \in SUBSET Task /\ \A x \in {l} : /\ HasGraph(x)' /\ (x \in Runner => RunStands(x)')
                                              /\ pc'[x] \notin PublishPC
    BY <1>0, <1>3
  <2>6. \A u \in Task \ {l} : pc'[u] = pc[u] /\ at'[u] = at[u] /\ entry'[u] = entry[u]
    BY <2>1 DEF OnlyMoves
  <2> QED BY <1>1, <2>4, <2>5, <2>6, TakingKeepsGraphs
<1> QED BY <1>4, <1>5 DEF LoadRequest, GetOrInsert

LEMMA OutsideKeepsGraphs ==
  ASSUME Kept, GenInv, OutsideAction
  PROVE  GenInv'
<1> USE DEF mapVars, slotVars, ledgerVars, localVars, taskVars, dispatcherVars
<1>b. ASSUME UNCHANGED <<pc, at, entry, new>>, TakesAway PROVE GenInv'
  <2>1. {} \in SUBSET Task /\ \A x \in {} : /\ HasGraph(x)' /\ (x \in Runner => RunStands(x)')
                                            /\ pc'[x] \notin PublishPC
    OBVIOUS
  <2>2. \A u \in Task \ {} : pc'[u] = pc[u] /\ at'[u] = at[u] /\ entry'[u] = entry[u]
    BY <1>b
  <2> QED BY <1>b, <2>1, <2>2, TakingKeepsGraphs
<1>a. ASSUME UNCHANGED <<pc, at, entry, new, state, published, tombstone>> PROVE GenInv'
  BY <1>a DEF GenInv, GraphsShaped, HasGraph, RunStands, Stands, ReadLockFree
<1>1. ASSUME NEW k \in Key, CancelRebuild(k) PROVE GenInv'
  BY <1>1, <1>a DEF CancelRebuild
<1>2. ASSUME NEW k \in Key, ResetCancels(k) PROVE GenInv'
  BY <1>2, <1>a DEF ResetCancels
<1>3. ASSUME NEW k \in Key, ResetEmpties(k) PROVE GenInv'
  <2>1. /\ WriteLockFree /\ UNCHANGED <<pc, at, entry, new, state, published>>
    BY <1>3 DEF ResetEmpties
  <2>2. tombstone.slot = NoSlot
    BY <2>1 DEF WriteLockFree, ReadLockFree, NoTombstone
  <2>3. \A s \in Slot : Stands(s) => Stands(s)'
    BY <2>1, <2>2, SlotAssumption DEF Stands
  <2>4. TakesAway
    BY <2>1, <2>3 DEF TakesAway, WriteLockFree, GenInv, GraphsShaped
  <2> QED BY <1>b, <2>1, <2>4
<1>4. ASSUME NEW k \in Key, LoadAnswered(k) PROVE GenInv'
  BY <1>4, <1>a DEF LoadAnswered, managerVars
<1>5. ASSUME NEW k \in Key, StartWatching(k) PROVE GenInv'
  BY <1>5, <1>a DEF StartWatching
<1>6. ASSUME NEW k \in Key, EvictLruPick(k) PROVE GenInv'
  BY <1>6, <1>a DEF EvictLruPick
<1>7. ASSUME NEW k \in Key, EvictLruExecute(k) PROVE GenInv'
  <2>1. ExecuteEviction(k, "evict_lru") /\ UNCHANGED <<pc, at, entry, new>>
    BY <1>7 DEF EvictLruExecute
  <2> QED BY <1>b, <2>1, EvictionTakes
<1>8. ASSUME NEW k \in Key, Unload(k) PROVE GenInv'
  <2>1. ExecuteEviction(k, "unload") /\ UNCHANGED <<pc, at, entry, new>>
    BY <1>8 DEF Unload
  <2> QED BY <1>b, <2>1, EvictionTakes
<1>9. ASSUME RetentionReaper PROVE GenInv'
  BY <1>9, <1>a DEF RetentionReaper
<1>10. ASSUME UNCHANGED vars PROVE GenInv'
  BY <1>10, <1>a DEF vars, managerVars
<1>11. ASSUME WriteTombstone PROVE GenInv'
  <2>1. UNCHANGED <<pc, at, entry, new>>
    BY <1>11, TombstoneOpens DEF Kept
  <2> QED BY <1>11, <1>b, <2>1, TombstoneTakes
<1> QED BY <1>1, <1>2, <1>3, <1>4, <1>5, <1>6, <1>7, <1>8, <1>9, <1>10, <1>11
        DEF OutsideAction, Reset

LEMMA NextKeepsGraphs ==
  ASSUME Kept, GenInv, [DispatcherNext]_vars
  PROVE  GenInv'
BY StepShapes, InnerKeepsGraphs, VisitKeepsGraphs, LookupKeepsGraphs, LoadKeepsGraphs,
   RequestKeepsGraphs, OutsideKeepsGraphs

LEMMA InitKeepsGraphs == DispatcherInit => GenInv
BY DEF DispatcherInit, Init, GenInv, GraphsShaped, HasGraph, RunStands, ReadLockFree,
   Away, Task

\* The inductive invariant, with no unwinding commit and no two loads past
\* the gate of a slot: whoever publishes carries a graph, nobody publishes
\* while a tombstone is written, and a slot that says Loaded, or whose
\* iteration goes back to Loaded when it is refused, has a generation or a
\* tombstone in the making.
THEOREM GenerationInvariance ==
  ASSUME ~MayUnwind
  PROVE  DispatcherSpec /\ []OneLoadPerSlot => []GenInv
<1>1. DispatcherInit => GenInv
  BY InitKeepsGraphs
<1>2. DispatcherInv /\ RoleInv /\ GenInv /\ [DispatcherNext]_vars => GenInv'
  BY NextKeepsGraphs DEF Kept
<1> QED BY <1>1, <1>2, DispatcherInvariance, RoleInvariance, PTL DEF DispatcherSpec

\* classify_for_serve, under workspaces.read(), never answers an internal
\* error for a Loaded slot: with runners at work and every call that evicts,
\* unloads or resets landing between any two of their steps, Loaded stands
\* over a generation, the state a refused iteration went back to included.
\* A commit that unwinds is excluded: its sentinel gives the role up before
\* the state, and the runner that enters in between is refused to Loaded.
THEOREM LoadedIsServed ==
  ASSUME ~MayUnwind
  PROVE  DispatcherSpec /\ []OneLoadPerSlot => []LoadedHasGeneration
<1>1. GenInv => LoadedHasGeneration
  <2> SUFFICES ASSUME GenInv, NEW s \in Slot, ReadLockFree, state[s] = "Loaded"
               PROVE  published[s] # Placeholder
    BY DEF LoadedHasGeneration
  <2>1. tombstone.slot = NoSlot
    BY DEF ReadLockFree, NoTombstone
  <2> QED BY <2>1, SlotAssumption DEF GenInv, Stands
<1> QED BY <1>1, GenerationInvariance, PTL


(***************************************************************************)
(* One load at a time for each workspace is enough for OneLoadPerSlot.     *)
(***************************************************************************)

MapTyped == workspaces \in [Key -> Slot \cup {NoSlot}]

\* A slot is registered, and loaded, under its own key.
OwnKeys ==
  /\ MapTyped
  /\ \A k \in Key : workspaces[k] \in Slot => KeyOf[workspaces[k]] = k
  /\ \A l \in Loader : at[l] \in Slot => KeyOf[at[l]] = LoaderKey[l]

\* Nothing is registered, and no loader finds a slot.
KeysStay ==
  /\ workspaces' = workspaces \/ \E k : workspaces' = [workspaces EXCEPT ![k] = NoSlot]
  /\ \A l \in Loader : at'[l] = at[l] \/ at'[l] = NoSlot

LEMMA StayingKeepsKeys ==
  ASSUME OwnKeys, KeysStay
  PROVE  OwnKeys'
BY SlotAssumption DEF OwnKeys, KeysStay, MapTyped

LEMMA FinishStays ==
  ASSUME DispatcherInv, NEW t \in Task, Finish(t)
  PROVE  \A l \in Loader : at'[l] = at[l] \/ at'[l] = NoSlot
BY DEF Finish, DispatcherInv, TypesKept, Task

LEMMA ManagerStays ==
  ASSUME NEW t \in Task, ManagerStep(t)
  PROVE  UNCHANGED <<workspaces, at>>
<1> USE DEF ManagerStep, mapVars, localVars
<1>1. CASE ReservePlan(t)
  BY <1>1 DEF ReservePlan
<1>2. CASE ReserveEvict(t)
  <2>1. PICK k : ExecuteEviction(k, t)
    BY <1>2 DEF ReserveEvict
  <2>2. t # "unload"
    BY CallerAssumption DEF TombstoneCall
  <2>3. workspaces' = workspaces
    BY <2>1, <2>2 DEF ExecuteEviction, EvictToTombstone, TombstoneReturns
  <2> QED BY <1>2, <2>3 DEF ReserveEvict
<1>3. CASE ReserveReap(t)
  BY <1>3 DEF ReserveReap
<1>4. CASE ReserveAdmit(t)
  BY <1>4 DEF ReserveAdmit
<1>5. CASE PublishSwap(t)
  BY <1>5 DEF PublishSwap
<1>6. CASE PublishMemory(t)
  BY <1>6 DEF PublishMemory
<1>7. CASE PublishCommit(t)
  BY <1>7 DEF PublishCommit
<1>8. CASE PublishUnwind(t)
  BY <1>8 DEF PublishUnwind
<1> QED BY <1>1, <1>2, <1>3, <1>4, <1>5, <1>6, <1>7, <1>8 DEF Reserve, PublishAndRetain

LEMMA RunnerStays ==
  ASSUME DispatcherInv, NEW r \in Runner, InnerAction(r) \/ VisitAction(r)
  PROVE  KeysStay
<1>0. r \in Task /\ r \notin Loader
  BY LoaderAssumption DEF Task
<1> USE DEF mapVars, localVars, EndIteration, EndDrain
<1>1. CASE Gate(r)
  BY <1>1 DEF Gate, KeysStay
<1>2. CASE EnterRebuilding(r)
  BY <1>2 DEF EnterRebuilding, KeysStay
<1>3. CASE RefuseReset(r)
  BY <1>3 DEF RefuseReset, KeysStay
<1>4. CASE ResolveInputs(r)
  BY <1>4 DEF ResolveInputs, KeysStay
<1>5. CASE RecordRefusal(r)
  BY <1>5 DEF RecordRefusal, KeysStay
<1>6. CASE RecordCancelled(r)
  BY <1>6 DEF RecordCancelled, KeysStay
<1>7. CASE RecordFailed(r)
  BY <1>7 DEF RecordFailed, KeysStay
<1>8. CASE ExecuteRebuild(r)
  BY <1>8 DEF ExecuteRebuild, KeysStay
<1>9. CASE RecheckCancelled(r)
  BY <1>9 DEF RecheckCancelled, KeysStay
<1>10. CASE RecheckUnregistered(r)
  BY <1>10 DEF RecheckUnregistered, KeysStay
<1>11. CASE RecheckOversize(r)
  BY <1>11 DEF RecheckOversize, KeysStay
<1>12. CASE RecheckPublishes(r)
  BY <1>12 DEF RecheckPublishes, KeysStay
<1>13. CASE StoreRebuilt(r)
  BY <1>13 DEF StoreRebuilt, KeysStay
<1>14. CASE ManagerStep(r)
  BY <1>0, <1>14, ManagerStays DEF KeysStay
<1>15. CASE RefuseRequest(r)
  BY <1>0, <1>15, FinishStays DEF RefuseRequest, KeysStay
<1>16. CASE Acquire(r)
  BY <1>16 DEF Acquire, KeysStay
<1>17. CASE Park(r)
  BY <1>0, <1>17, FinishStays DEF Park, KeysStay
<1>18. CASE CancelDrain(r)
  BY <1>0, <1>18, FinishStays DEF CancelDrain, KeysStay
<1>19. CASE Release(r)
  <2>1. workspaces' = workspaces /\ (at' = at \/ Finish(r))
    BY <1>19 DEF Release
  <2> QED BY <1>0, <2>1, FinishStays DEF KeysStay
<1>20. CASE DeliverOutcome(r)
  BY <1>20 DEF DeliverOutcome, KeysStay
<1>21. CASE TakeNext(r)
  BY <1>21 DEF TakeNext, KeysStay
<1>22. CASE SentinelDrop(r)
  BY <1>22 DEF SentinelDrop, KeysStay
<1>23. CASE SentinelLeaves(r)
  BY <1>0, <1>23, FinishStays DEF SentinelLeaves, KeysStay
<1> QED BY <1>1, <1>2, <1>3, <1>4, <1>5, <1>6, <1>7, <1>8, <1>9, <1>10, <1>11, <1>12,
           <1>13, <1>14, <1>15, <1>16, <1>17, <1>18, <1>19, <1>20, <1>21, <1>22, <1>23
        DEF InnerAction, VisitAction

LEMMA LookupStays ==
  ASSUME DispatcherInv, NEW r \in Runner, NEW k \in Key, Lookup(r, k)
  PROVE  KeysStay
BY LoaderAssumption DEF Lookup, KeysStay, mapVars, DispatcherInv, TypesKept, Task

LEMMA LoaderStays ==
  ASSUME DispatcherInv, NEW l \in Loader, LoaderStep(l)
  PROVE  KeysStay
<1>0. l \in Task
  BY DEF Task
<1> USE DEF mapVars, localVars
<1>1. CASE HonorRefuses(l)
  BY <1>0, <1>1, FinishStays DEF HonorRefuses, KeysStay
<1>2. CASE EnterLoading(l)
  <2>1. workspaces' = workspaces /\ (at' = at \/ Finish(l))
    BY <1>2 DEF EnterLoading
  <2> QED BY <1>0, <2>1, FinishStays DEF KeysStay
<1>3. CASE ObserveCancel(l)
  BY <1>3 DEF ObserveCancel, KeysStay
<1>4. CASE HonorConsumes(l)
  BY <1>4 DEF HonorConsumes, KeysStay
<1>5. CASE HonorFails(l)
  BY <1>0, <1>5, FinishStays DEF HonorFails, KeysStay
<1>6. CASE Prepare(l)
  BY <1>6 DEF Prepare, KeysStay
<1>7. CASE AbandonLoad(l)
  <2>1. pc[l] = "abandon" /\ Finish(l)
    BY <1>7 DEF AbandonLoad
  <2>2. at[l] \in Slot
    BY <1>0, <2>1 DEF DispatcherInv, TaskIsPlaced
  <2>3. KeyOf[at[l]] \in Key
    BY <2>2, SlotAssumption
  <2>4. workspaces' = workspaces \/ workspaces' = [workspaces EXCEPT ![KeyOf[at[l]]] = NoSlot]
    BY <1>7 DEF AbandonLoad
  <2> QED BY <1>0, <2>1, <2>3, <2>4, FinishStays DEF KeysStay
<1>8. CASE FailLoad(l)
  BY <1>0, <1>8, FinishStays DEF FailLoad, KeysStay
<1>9. CASE Build(l)
  BY <1>9 DEF Build, KeysStay
<1>10. CASE LoadRecheck(l)
  BY <1>10 DEF LoadRecheck, KeysStay
<1>11. CASE StoreLoaded(l)
  BY <1>0, <1>11, FinishStays DEF StoreLoaded, KeysStay
<1>12. CASE ManagerStep(l)
  BY <1>0, <1>12, ManagerStays DEF KeysStay
<1> QED BY <1>1, <1>2, <1>3, <1>4, <1>5, <1>6, <1>7, <1>8, <1>9, <1>10, <1>11, <1>12
        DEF LoaderStep, LoadMeetsRunner, LoadStep, ManagerStep

LEMMA RequestKeepsKeys ==
  ASSUME DispatcherInv, OwnKeys, NEW l \in Loader, LoadRequest(l)
  PROVE  OwnKeys'
<1> DEFINE k == LoaderKey[l]
<1>0. k \in Key /\ l \in Task
  BY LoaderAssumption DEF Task
<1>1. PICK s \in Slot :
        /\ KeyOf[s] = k
        /\ at' = [at EXCEPT ![l] = s]
        /\ workspaces' = workspaces \/ workspaces' = [workspaces EXCEPT ![k] = s]
  BY <1>0 DEF LoadRequest, GetOrInsert, FreshSlots, OwnKeys
<1>2. \A m \in Loader : at'[m] = IF m = l THEN s ELSE at[m]
  BY <1>0, <1>1 DEF DispatcherInv, TypesKept, Task
<1> HIDE DEF k
<1>3. MapTyped' /\ \A q \in Key : workspaces'[q] \in Slot => KeyOf[workspaces'[q]] = q
  BY <1>0, <1>1 DEF OwnKeys, MapTyped
<1>4. \A m \in Loader : at'[m] \in Slot => KeyOf[at'[m]] = LoaderKey[m]
  BY <1>1, <1>2 DEF OwnKeys, k
<1> QED BY <1>3, <1>4 DEF OwnKeys

LEMMA OutsideStays ==
  ASSUME DispatcherInv, OutsideAction
  PROVE  KeysStay
<1>1. at' = at
  BY OutsideShape DEF OutsideStep
<1> DEFINE Stays == workspaces' = workspaces \/ \E k : workspaces' = [workspaces EXCEPT ![k] = NoSlot]
<1>2. Stays
  <2> USE DEF mapVars, managerVars
  <2>1. ASSUME NEW k \in Key, CancelRebuild(k) PROVE workspaces' = workspaces
    BY <2>1 DEF CancelRebuild
  <2>2. ASSUME NEW k \in Key, ResetCancels(k) PROVE workspaces' = workspaces
    BY <2>2 DEF ResetCancels
  <2>3. ASSUME NEW k \in Key, ResetEmpties(k) PROVE workspaces' = workspaces
    BY <2>3 DEF ResetEmpties
  <2>4. ASSUME NEW k \in Key, LoadAnswered(k) PROVE workspaces' = workspaces
    BY <2>4 DEF LoadAnswered
  <2>5. ASSUME NEW k \in Key, StartWatching(k) PROVE workspaces' = workspaces
    BY <2>5 DEF StartWatching
  <2>6. ASSUME NEW k \in Key, EvictLruPick(k) PROVE workspaces' = workspaces
    BY <2>6 DEF EvictLruPick
  <2>0. ASSUME NEW s, NEW c, TombstoneReturns(s, c) PROVE Stays
    BY <2>0 DEF TombstoneReturns
  <2>00. ASSUME NEW s, NEW c, EvictToTombstone(s, c) PROVE Stays
    BY <2>0, <2>00 DEF EvictToTombstone
  <2>7. ASSUME NEW k \in Key, EvictLruExecute(k) PROVE Stays
    BY <2>00, <2>7 DEF EvictLruExecute, ExecuteEviction
  <2>8. ASSUME NEW k \in Key, Unload(k) PROVE Stays
    BY <2>00, <2>8 DEF Unload, ExecuteEviction
  <2>11. ASSUME WriteTombstone PROVE Stays
    <3>1. CASE TombstoneStores
      BY <2>0, <3>1 DEF TombstoneStores
    <3>2. CASE ResetReleases
      BY <2>00, <3>2 DEF ResetReleases
    <3>3. CASE TombstoneSamples \/ TombstoneCancels \/ ResetClears \/ ResetStores
      BY <3>3 DEF TombstoneSamples, TombstoneCancels, ResetClears, ResetStores
    <3> QED BY <2>11, <3>1, <3>2, <3>3 DEF WriteTombstone
  <2>9. ASSUME RetentionReaper PROVE workspaces' = workspaces
    BY <2>9 DEF RetentionReaper
  <2>10. ASSUME UNCHANGED vars PROVE workspaces' = workspaces
    BY <2>10 DEF vars
  <2> QED BY <2>1, <2>2, <2>3, <2>4, <2>5, <2>6, <2>7, <2>8, <2>9, <2>10, <2>11
          DEF OutsideAction, Reset
<1> QED BY <1>1, <1>2 DEF KeysStay

LEMMA NextKeepsKeys ==
  ASSUME DispatcherInv, OwnKeys, [DispatcherNext]_vars
  PROVE  OwnKeys'
BY StepShapes, RunnerStays, LookupStays, LoaderStays, RequestKeepsKeys, OutsideStays,
   StayingKeepsKeys

LEMMA KeysAreOwned == DispatcherSpec => []OwnKeys
<1>1. DispatcherInit => OwnKeys
  BY SlotAssumption DEF DispatcherInit, Init, OwnKeys, MapTyped, Task
<1>2. DispatcherInv /\ OwnKeys /\ [DispatcherNext]_vars => OwnKeys'
  BY NextKeepsKeys
<1> QED BY <1>1, <1>2, DispatcherInvariance, PTL DEF DispatcherSpec

LEMMA OneLoaderPerKey ==
  ASSUME \A l, m \in Loader : LoaderKey[l] = LoaderKey[m] => l = m
  PROVE  DispatcherSpec => []OneLoadPerSlot
<1>1. DispatcherInv /\ OwnKeys => OneLoadPerSlot
  <2> SUFFICES ASSUME DispatcherInv, OwnKeys, NEW l \in Loader, NEW m \in Loader,
                      PastGate(l), PastGate(m), at[l] = at[m]
               PROVE  l = m
    BY DEF OneLoadPerSlot
  <2>1. at[l] \in Slot
    BY DEF PastGate, DispatcherInv, TaskIsPlaced, Task
  <2> QED BY <2>1 DEF OwnKeys
<1> QED BY <1>1, DispatcherInvariance, KeysAreOwned, PTL

\* In particular, with one load of each workspace at a time, and whatever
\* evicts, unloads, resets, cancels or unwinds in between: no workspace is
\* left Rebuilding with nobody to end it.
THEOREM RebuildingIsRunAlone ==
  ASSUME \A l, m \in Loader : LoaderKey[l] = LoaderKey[m] => l = m
  PROVE  DispatcherSpec => []RebuildingHasRunner
BY OneLoaderPerKey, RebuildingIsRun, PTL

\* And a query is never answered from the placeholder of a Loaded slot.
THEOREM LoadedIsServedAlone ==
  ASSUME ~MayUnwind, \A l, m \in Loader : LoaderKey[l] = LoaderKey[m] => l = m
  PROVE  DispatcherSpec => []LoadedHasGeneration
BY OneLoaderPerKey, LoadedIsServed, PTL
=============================================================================
