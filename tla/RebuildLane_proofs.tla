------------------------- MODULE RebuildLane_proofs -------------------------
(***************************************************************************)
(* Proofs about RebuildLane, for any number of callers and workspaces.     *)
(***************************************************************************)
EXTENDS RebuildLane, TLAPS

(***************************************************************************)
(* What merging does to an entry.                                          *)
(***************************************************************************)

\* A request's entry is an entry.
LEMMA EntryOfType ==
  ASSUME NEW c \in Caller, NEW q \in Request
  PROVE  EntryOf(c, q) \in Entry
BY DEF EntryOf, Entry, Request

\* Adding an entry to a lane gives an entry, and loses no caller.
LEMMA AddToType ==
  ASSUME NEW p \in Entry \cup {NoPending}, NEW e \in Entry
  PROVE  /\ AddTo(p, e) \in Entry
         /\ AddTo(p, e) # NoPending
         /\ Waiters(AddTo(p, e)) = Waiters(p) \cup e.waiters
<1>1. AddTo(p, e) \in Entry
  BY DEF AddTo, CoalesceWith, Entry
<1>2. AddTo(p, e) # NoPending
  BY <1>1, PendingAssumption DEF Entry
<1>3. Waiters(AddTo(p, e)) = Waiters(p) \cup e.waiters
  BY <1>2 DEF AddTo, CoalesceWith, Entry, Waiters
<1> QED BY <1>1, <1>2, <1>3

\* A merge that merges_with accepts keeps the options of every caller.
LEMMA AddToOptions ==
  ASSUME NEW p \in Entry \cup {NoPending}, NEW e \in Entry,
         p # NoPending => MergesWith(p, e)
  PROVE  /\ Waiters(p) # {} => AddTo(p, e).opts = p.opts
         /\ e.waiters # {} => AddTo(p, e).opts = e.opts
BY DEF AddTo, CoalesceWith, MergesWith, IsWatcherEnqueue, Waiters, Entry

(***************************************************************************)
(* The invariant is inductive: one lemma per conjunct.                     *)
(***************************************************************************)
LEMMA InitInv == Init => LaneInv
<1> SUFFICES ASSUME Init PROVE LaneInv
  OBVIOUS
<1>1. LaneTypeOK
  BY CallerAssumption DEF Init, LaneTypeOK, Phase, Request, WatcherRequest, Answer, Outcome
<1>2. OneRunner /\ LaneMutex /\ ParkerMerges /\ OnlyRunnersHold
  BY DEF Init, OneRunner, LaneMutex, ParkerMerges, OnlyRunnersHold
<1>3. \A c \in Caller : ParkedIn(c) = {} /\ RunningIn(c) = {} /\ ~OnTheWay(c)
  BY DEF Init, ParkedIn, RunningIn, OnTheWay, Waiters
<1>4. PendingIsOwned
  BY <1>3 DEF PendingIsOwned, Init
<1>5. WaitersShareOptions
  BY DEF WaitersShareOptions, Init, Waiters
<1> QED BY <1>1, <1>2, <1>4, <1>5 DEF LaneInv

\* Type correctness of a step.
LEMMA TypeStep == LaneTypeOK /\ [Next]_laneVars => LaneTypeOK'
<1> SUFFICES ASSUME LaneTypeOK, [Next]_laneVars PROVE LaneTypeOK'
  OBVIOUS
<1> USE DEF LaneTypeOK
<1>1. ASSUME NEW c \in Caller, NEW w \in Workspace, Ask(c, w) PROVE LaneTypeOK'
  BY <1>1 DEF Ask, Phase, Answer, Outcome
<1>2. ASSUME NEW c \in Caller, Refuse(c) PROVE LaneTypeOK'
  BY <1>2 DEF Refuse, Tell, Leave, Phase, Answer, Outcome
<1>3. ASSUME NEW c \in Caller, phase[c] # "out"
      PROVE  /\ where[c] \in Workspace
             /\ Incoming(c) \in Entry
             /\ AddTo(lane[where[c]], Incoming(c)) \in Entry
  <2>1. where[c] \in Workspace
    BY <1>3
  <2>2. Incoming(c) \in Entry
    BY EntryOfType DEF Incoming
  <2> QED BY <2>1, <2>2, AddToType
<1>4. ASSUME NEW c \in Caller, Take(c) PROVE LaneTypeOK'
  BY <1>3, <1>4 DEF Take, Phase
<1>5. ASSUME NEW c \in Caller, Lose(c) PROVE LaneTypeOK'
  BY <1>5 DEF Lose, Phase
<1>6. ASSUME NEW c \in Caller, Park(c) PROVE LaneTypeOK'
  BY <1>3, <1>6 DEF Park, Leave, Phase
<1>7. ASSUME NEW c \in Caller, NEW o \in Outcome, Serve(c, o) PROVE LaneTypeOK'
  BY <1>7 DEF Serve, Tell, Answer
<1>8. ASSUME NEW c \in Caller, TakeParked(c) PROVE LaneTypeOK'
  BY <1>8 DEF TakeParked
<1>9. ASSUME NEW c \in Caller, Release(c) PROVE LaneTypeOK'
  BY <1>9 DEF Release, Leave, Phase
<1>10. ASSUME NEW c \in Caller, Cancel(c) PROVE LaneTypeOK'
  BY <1>10 DEF Cancel, Tell, Leave, Phase, Answer, Outcome
<1>11. ASSUME NEW c \in Caller, Unwind(c) PROVE LaneTypeOK'
  BY <1>11 DEF Unwind, Tell, Leave, Phase, Answer, Outcome
<1>12. CASE UNCHANGED laneVars
  BY <1>12 DEF laneVars
<1> QED
  BY <1>1, <1>2, <1>4, <1>5, <1>6, <1>7, <1>8, <1>9, <1>10, <1>11, <1>12
     DEF Next, Step

\* One holder per role: the role is taken only under the lane while nobody
\* holds it, and the holder alone gives it up.
LEMMA OneRunnerStep == LaneInv /\ [Next]_laneVars => OneRunner'
<1> SUFFICES ASSUME LaneInv, [Next]_laneVars PROVE OneRunner'
  OBVIOUS
<1> USE DEF LaneInv, LaneTypeOK, OneRunner
<1>1. ASSUME NEW c \in Caller, NEW w \in Workspace, Ask(c, w) PROVE OneRunner'
  BY <1>1 DEF Ask
<1>2. ASSUME NEW c \in Caller, Refuse(c) PROVE OneRunner'
  BY <1>2 DEF Refuse, Leave
<1>3. ASSUME NEW c \in Caller, Take(c) PROVE OneRunner'
  BY <1>3 DEF Take
<1>4. ASSUME NEW c \in Caller, Lose(c) PROVE OneRunner'
  BY <1>4 DEF Lose
<1>5. ASSUME NEW c \in Caller, Park(c) PROVE OneRunner'
  BY <1>5 DEF Park, Leave
<1>6. ASSUME NEW c \in Caller, NEW o \in Outcome, Serve(c, o) PROVE OneRunner'
  BY <1>6 DEF Serve
<1>7. ASSUME NEW c \in Caller, TakeParked(c) PROVE OneRunner'
  BY <1>7 DEF TakeParked
<1>8. ASSUME NEW c \in Caller, Release(c) PROVE OneRunner'
  BY <1>8 DEF Release, Leave
<1>9. ASSUME NEW c \in Caller, Cancel(c) PROVE OneRunner'
  BY <1>9 DEF Cancel, Leave
<1>10. ASSUME NEW c \in Caller, Unwind(c) PROVE OneRunner'
  BY <1>10 DEF Unwind, Leave
<1>11. CASE UNCHANGED laneVars
  BY <1>11 DEF laneVars
<1> QED
  BY <1>1, <1>2, <1>3, <1>4, <1>5, <1>6, <1>7, <1>8, <1>9, <1>10, <1>11
     DEF Next, Step

\* The lane is a mutex: nobody begins to park while it is held.
LEMMA LaneMutexStep == LaneInv /\ [Next]_laneVars => LaneMutex'
<1> SUFFICES ASSUME LaneInv, [Next]_laneVars PROVE LaneMutex'
  OBVIOUS
<1> USE DEF LaneInv, LaneTypeOK, LaneMutex
<1>1. ASSUME NEW c \in Caller, Lose(c) PROVE LaneMutex'
  BY <1>1 DEF Lose, LaneFree
<1>2. ASSUME NEW c \in Caller, NEW w \in Workspace, Ask(c, w) PROVE LaneMutex'
  BY <1>2 DEF Ask
<1>3. ASSUME NEW c \in Caller, Step(c), ~Lose(c) PROVE LaneMutex'
  <2>1. CASE Leave(c)
    BY <2>1 DEF Leave
  <2>2. CASE Take(c)
    BY <2>2 DEF Take
  <2>3. CASE UNCHANGED <<phase, where>>
    BY <2>3
  <2> QED
    BY <1>3, <2>1, <2>2, <2>3
       DEF Step, Refuse, Park, Serve, TakeParked, Release, Cancel, Unwind
<1>4. CASE UNCHANGED laneVars
  BY <1>4 DEF laneVars
<1> QED BY <1>1, <1>2, <1>3, <1>4 DEF Next

\* Nobody writes the lane of a workspace but the caller that holds it, nor
\* what that caller asked for, so its merge stays accepted until it parks.
LEMMA ParkerMergesStep == LaneInv /\ [Next]_laneVars => ParkerMerges'
<1> SUFFICES ASSUME LaneInv, [Next]_laneVars,
                    NEW d \in Caller, phase'[d] = "parking"
             PROVE  Mergeable(d)'
  BY DEF ParkerMerges
<1> USE DEF LaneInv, LaneTypeOK
<1>1. ASSUME phase[d] = "parking", where'[d] = where[d],
             lane'[where[d]] = lane[where[d]], asked'[d] = asked[d]
      PROVE  Mergeable(d)'
  BY <1>1 DEF ParkerMerges, Mergeable, Incoming
<1>2. ASSUME NEW c \in Caller, NEW w \in Workspace, Ask(c, w) PROVE Mergeable(d)'
  <2>1. c # d
    BY <1>2 DEF Ask
  <2> QED BY <1>1, <1>2, <2>1 DEF Ask
<1>3. ASSUME NEW c \in Caller, Lose(c) PROVE Mergeable(d)'
  <2>1. CASE c = d
    BY <1>3, <2>1 DEF Lose, Mergeable, Incoming
  <2>2. CASE c # d
    BY <1>1, <1>3, <2>2 DEF Lose
  <2> QED BY <2>1, <2>2
<1>4. ASSUME NEW c \in Caller, Take(c) PROVE Mergeable(d)'
  BY <1>1, <1>4 DEF Take, LaneFree
<1>5. ASSUME NEW c \in Caller, Park(c) PROVE Mergeable(d)'
  <2>1. c # d /\ phase[d] = "parking"
    BY <1>5 DEF Park, Leave
  <2>2. where[c] # where[d]
    BY <1>5, <2>1 DEF Park, LaneMutex
  <2> QED BY <1>1, <1>5, <2>1, <2>2 DEF Park, Leave
<1>6. ASSUME NEW c \in Caller, Refuse(c) PROVE Mergeable(d)'
  BY <1>1, <1>6 DEF Refuse, Leave
<1>7. ASSUME NEW c \in Caller, NEW o \in Outcome, Serve(c, o) PROVE Mergeable(d)'
  BY <1>1, <1>7 DEF Serve, LaneFree
<1>8. ASSUME NEW c \in Caller, TakeParked(c) PROVE Mergeable(d)'
  BY <1>1, <1>8 DEF TakeParked, LaneFree
<1>9. ASSUME NEW c \in Caller, Release(c) PROVE Mergeable(d)'
  BY <1>1, <1>9 DEF Release, Leave
<1>10. ASSUME NEW c \in Caller, Cancel(c) PROVE Mergeable(d)'
  BY <1>1, <1>10 DEF Cancel, Leave, LaneFree
<1>11. ASSUME NEW c \in Caller, Unwind(c) PROVE Mergeable(d)'
  BY <1>1, <1>11 DEF Unwind, Leave, LaneFree
<1>12. CASE UNCHANGED laneVars
  BY <1>1, <1>12 DEF laneVars
<1> QED
  BY <1>2, <1>3, <1>4, <1>5, <1>6, <1>7, <1>8, <1>9, <1>10, <1>11, <1>12
     DEF Next, Step

\* A caller that leaves the role drops its entry.
LEMMA OnlyRunnersHoldStep == LaneInv /\ [Next]_laneVars => OnlyRunnersHold'
<1> SUFFICES ASSUME LaneInv, [Next]_laneVars PROVE OnlyRunnersHold'
  OBVIOUS
<1> USE DEF LaneInv, LaneTypeOK, OnlyRunnersHold
<1>1. ASSUME NEW c \in Caller, NEW w \in Workspace, Ask(c, w) PROVE OnlyRunnersHold'
  BY <1>1 DEF Ask
<1>2. ASSUME NEW c \in Caller, Step(c) PROVE OnlyRunnersHold'
  <2>1. CASE Refuse(c) \/ Take(c) \/ Lose(c) \/ Park(c)
    BY <2>1 DEF Refuse, Take, Lose, Park, Leave
  <2>2. CASE (\E o \in Outcome : Serve(c, o)) \/ TakeParked(c)
    BY <2>2 DEF Serve, TakeParked
  <2>3. CASE Release(c) \/ Cancel(c) \/ Unwind(c)
    BY <2>3 DEF Release, Cancel, Unwind, Leave
  <2> QED BY <1>2, <2>1, <2>2, <2>3 DEF Step
<1>3. CASE UNCHANGED laneVars
  BY <1>3 DEF laneVars
<1> QED BY <1>1, <1>2, <1>3 DEF Next

\* Every caller is in one place, and pending exactly while it is in one: a
\* take or a parking moves it, and what drops an entry tells its callers.
LEMMA PendingIsOwnedStep == LaneInv /\ [Next]_laneVars => PendingIsOwned'
<1> SUFFICES ASSUME LaneInv, [Next]_laneVars PROVE PendingIsOwned'
  OBVIOUS
<1> USE DEF LaneInv, LaneTypeOK
<1> DEFINE Parked(x, w)  == x \in Waiters(lane[w])
           Running(x, d) == x \in Waiters(current[d])
           Place(x) ==
             /\ answer[x] = "pending" <=>
                  \/ OnTheWay(x)
                  \/ \E w \in Workspace : Parked(x, w)
                  \/ \E d \in Caller : Running(x, d)
             /\ OnTheWay(x) => /\ \A w \in Workspace : ~Parked(x, w)
                               /\ \A d \in Caller : ~Running(x, d)
             /\ \A v, w \in Workspace : Parked(x, v) /\ Parked(x, w) => v = w
             /\ \A d, e \in Caller : Running(x, d) /\ Running(x, e) => d = e
             /\ \A w \in Workspace, d \in Caller : ~(Parked(x, w) /\ Running(x, d))
<1>1. PendingIsOwned <=> \A x \in Caller : Place(x)
  BY DEF PendingIsOwned, ParkedIn, RunningIn
<1>2. PendingIsOwned' <=> \A x \in Caller : Place(x)'
  BY DEF PendingIsOwned, ParkedIn, RunningIn
<1>3. SUFFICES ASSUME NEW x \in Caller PROVE Place(x)'
  BY <1>2
<1>4. Place(x)
  BY <1>1
<1>5. Waiters(NoPending) = {}
  BY DEF Waiters
<1>6. ASSUME NEW c \in Caller, phase[c] \in {"asking", "parking"}
      PROVE  /\ where[c] \in Workspace
             /\ Incoming(c).waiters = IF OnTheWay(c) THEN {c} ELSE {}
             /\ Waiters(AddTo(lane[where[c]], Incoming(c)))
                  = Waiters(lane[where[c]]) \cup Incoming(c).waiters
  <2>1. where[c] \in Workspace
    BY <1>6
  <2>2. Incoming(c) \in Entry
    BY EntryOfType DEF Incoming
  <2>3. Incoming(c).waiters = IF OnTheWay(c) THEN {c} ELSE {}
    BY <1>6 DEF Incoming, EntryOf, OnTheWay
  <2> QED BY <2>1, <2>2, <2>3, AddToType
<1> HIDE DEF Place
<1>7. ASSUME NEW c \in Caller, NEW w \in Workspace, Ask(c, w) PROVE Place(x)'
  BY <1>4, <1>7 DEF Place, Ask, OnTheWay, Request
<1>8. ASSUME NEW c \in Caller, Refuse(c) PROVE Place(x)'
  <2>1. Incoming(c).waiters = IF OnTheWay(c) THEN {c} ELSE {}
    BY <1>6, <1>8 DEF Refuse
  <2> QED BY <1>4, <1>8, <2>1 DEF Place, Refuse, Tell, Leave, OnTheWay
<1>9. ASSUME NEW c \in Caller, Take(c) PROVE Place(x)'
  <2>1. /\ where[c] \in Workspace
        /\ Waiters(current'[c]) = Waiters(lane[where[c]])
                                    \cup IF OnTheWay(c) THEN {c} ELSE {}
    BY <1>6, <1>9 DEF Take
  <2>2. current[c] = NoPending
    BY <1>9 DEF Take, OnlyRunnersHold
  <2> QED BY <1>4, <1>5, <1>9, <2>1, <2>2 DEF Place, Take, OnTheWay
<1>10. ASSUME NEW c \in Caller, Lose(c) PROVE Place(x)'
  BY <1>4, <1>10 DEF Place, Lose, OnTheWay
<1>11. ASSUME NEW c \in Caller, Park(c) PROVE Place(x)'
  <2>1. /\ where[c] \in Workspace
        /\ Waiters(lane'[where[c]]) = Waiters(lane[where[c]])
                                        \cup IF OnTheWay(c) THEN {c} ELSE {}
    BY <1>6, <1>11 DEF Park
  <2> QED BY <1>4, <1>11, <2>1 DEF Place, Park, Leave, OnTheWay
<1>12. ASSUME NEW c \in Caller, NEW o \in Outcome, Serve(c, o) PROVE Place(x)'
  <2>1. o # "pending"
    BY DEF Outcome
  <2>2. where[c] \in Workspace
    BY <1>12 DEF Serve
  <2>3. OnTheWay(x)' <=> OnTheWay(x)
    BY <1>12 DEF Serve, OnTheWay
  <2>4. lane' = lane
    BY <1>12 DEF Serve
  <2>5. \A d \in Caller :
          Waiters(current'[d]) = IF d = c THEN {} ELSE Waiters(current[d])
    BY <1>5, <1>12 DEF Serve
  <2>6. answer'[x] = IF x \in Waiters(current[c]) THEN o ELSE answer[x]
    BY <1>12 DEF Serve, Tell
  <2> QED BY <1>4, <2>1, <2>2, <2>3, <2>4, <2>5, <2>6 DEF Place
<1>13. ASSUME NEW c \in Caller, TakeParked(c) PROVE Place(x)'
  BY <1>4, <1>5, <1>13 DEF Place, TakeParked, OnTheWay
<1>14. ASSUME NEW c \in Caller, Release(c) PROVE Place(x)'
  BY <1>4, <1>14 DEF Place, Release, Leave, OnTheWay
<1>15. ASSUME NEW c \in Caller, Cancel(c) PROVE Place(x)'
  <2>1. where[c] \in Workspace
    BY <1>15 DEF Cancel
  <2>2. OnTheWay(x)' <=> OnTheWay(x)
    BY <1>15 DEF Cancel, Leave, OnTheWay
  <2>3. \A w \in Workspace :
          Waiters(lane'[w]) = IF w = where[c] THEN {} ELSE Waiters(lane[w])
    BY <1>5, <1>15 DEF Cancel
  <2>4. \A d \in Caller :
          Waiters(current'[d]) = IF d = c THEN {} ELSE Waiters(current[d])
    BY <1>5, <1>15 DEF Cancel
  <2>5. answer'[x] = IF x \in Waiters(current[c]) \cup Waiters(lane[where[c]])
                       THEN "evicted" ELSE answer[x]
    BY <1>15 DEF Cancel, Tell
  <2> QED BY <1>4, <2>1, <2>2, <2>3, <2>4, <2>5 DEF Place
<1>16. ASSUME NEW c \in Caller, Unwind(c) PROVE Place(x)'
  <2>1. where[c] \in Workspace
    BY <1>16 DEF Unwind
  <2>2. OnTheWay(x)' <=> OnTheWay(x)
    BY <1>16 DEF Unwind, Leave, OnTheWay
  <2> DEFINE told == IF LaneFree(where[c]) THEN Waiters(lane[where[c]]) ELSE {}
  <2>3. \A w \in Workspace :
          Waiters(lane'[w]) = IF w = where[c] THEN Waiters(lane[w]) \ told
                                              ELSE Waiters(lane[w])
    BY <1>5, <1>16 DEF Unwind
  <2>4. \A d \in Caller :
          Waiters(current'[d]) = IF d = c THEN {} ELSE Waiters(current[d])
    BY <1>5, <1>16 DEF Unwind
  <2>5. answer'[x] = IF x \in Waiters(current[c]) \cup told
                       THEN "internal" ELSE answer[x]
    BY <1>16 DEF Unwind, Tell
  <2>6. told = {} \/ told = Waiters(lane[where[c]])
    OBVIOUS
  <2> HIDE DEF told
  <2> QED BY <1>4, <2>1, <2>2, <2>3, <2>4, <2>5, <2>6 DEF Place
<1>17. CASE UNCHANGED laneVars
  BY <1>4, <1>17 DEF Place, laneVars, OnTheWay
<1> QED
  BY <1>7, <1>8, <1>9, <1>10, <1>11, <1>12, <1>13, <1>14, <1>15, <1>16, <1>17
     DEF Next, Step

\* A caller keeps its options while it waits (it cannot ask again), and a
\* merge keeps them.
LEMMA WaitersShareOptionsStep == LaneInv /\ [Next]_laneVars => WaitersShareOptions'
<1> SUFFICES ASSUME LaneInv, [Next]_laneVars PROVE WaitersShareOptions'
  OBVIOUS
<1> USE DEF LaneInv, LaneTypeOK
<1> DEFINE Agrees(p) == \A x \in Waiters(p) : asked[x].opts = p.opts
           Share == /\ \A w \in Workspace : Agrees(lane[w])
                    /\ \A d \in Caller : Agrees(current[d])
<1>1. Share
  BY DEF WaitersShareOptions
<1>2. SUFFICES Share'
  BY DEF WaitersShareOptions
<1>3. Waiters(NoPending) = {}
  BY DEF Waiters
<1>4. ASSUME NEW c \in Caller, phase[c] \in {"asking", "parking"}, Mergeable(c)
      PROVE  /\ where[c] \in Workspace
             /\ Agrees(AddTo(lane[where[c]], Incoming(c)))
  <2>1. where[c] \in Workspace
    BY <1>4
  <2>2. Incoming(c) \in Entry /\ Agrees(Incoming(c))
        /\ \A x \in Incoming(c).waiters : asked[x].opts = Incoming(c).opts
    BY EntryOfType DEF Incoming, EntryOf, Waiters
  <2>3. /\ Waiters(AddTo(lane[where[c]], Incoming(c)))
             = Waiters(lane[where[c]]) \cup Incoming(c).waiters
        /\ Waiters(lane[where[c]]) # {} =>
             AddTo(lane[where[c]], Incoming(c)).opts = lane[where[c]].opts
        /\ Incoming(c).waiters # {} =>
             AddTo(lane[where[c]], Incoming(c)).opts = Incoming(c).opts
    BY <1>4, <2>1, <2>2, AddToType, AddToOptions DEF Mergeable
  <2> QED BY <1>1, <2>1, <2>2, <2>3
<1>5. ASSUME NEW c \in Caller, NEW w \in Workspace, Ask(c, w) PROVE Share'
  <2>1. /\ \A v \in Workspace : c \notin Waiters(lane[v])
        /\ \A d \in Caller : c \notin Waiters(current[d])
    BY <1>5 DEF Ask, PendingIsOwned, ParkedIn, RunningIn
  <2>2. \A x : x # c => asked'[x] = asked[x]
    BY <1>5 DEF Ask
  <2> QED BY <1>1, <1>5, <2>1, <2>2 DEF Ask
<1>6. ASSUME NEW c \in Caller, Take(c) PROVE Share'
  BY <1>1, <1>3, <1>4, <1>6 DEF Take
<1>7. ASSUME NEW c \in Caller, Park(c) PROVE Share'
  <2>1. Mergeable(c)
    BY <1>7 DEF Park, ParkerMerges
  <2> QED BY <1>1, <1>4, <1>7, <2>1 DEF Park
<1>8. ASSUME NEW c \in Caller, Refuse(c) \/ Lose(c) \/ Release(c) PROVE Share'
  BY <1>1, <1>8 DEF Refuse, Lose, Release
<1>9. ASSUME NEW c \in Caller, NEW o \in Outcome, Serve(c, o) PROVE Share'
  BY <1>1, <1>3, <1>9 DEF Serve
<1>10. ASSUME NEW c \in Caller, TakeParked(c) PROVE Share'
  BY <1>1, <1>3, <1>10 DEF TakeParked
<1>11. ASSUME NEW c \in Caller, Cancel(c) \/ Unwind(c) PROVE Share'
  BY <1>1, <1>3, <1>11 DEF Cancel, Unwind
<1>12. CASE UNCHANGED laneVars
  BY <1>1, <1>12 DEF laneVars
<1> QED
  BY <1>5, <1>6, <1>7, <1>8, <1>9, <1>10, <1>11, <1>12 DEF Next, Step

\* Without an unwinding drain loop, whoever parks finds the runner that saw
\* it coming: the role is released only with the lane free and empty.
LEMMA ParkedHasRunnerStep ==
  ASSUME ~MayUnwind
  PROVE  LaneInv /\ ParkedHasRunner /\ [Next]_laneVars => ParkedHasRunner'
<1> SUFFICES ASSUME LaneInv, ParkedHasRunner, [Next]_laneVars,
                    NEW v \in Workspace, lane'[v] # NoPending \/ ~LaneFree(v)'
             PROVE  role'[v]
  BY DEF ParkedHasRunner
<1> USE DEF LaneInv, LaneTypeOK, ParkedHasRunner
<1>1. ASSUME NEW c \in Caller, NEW w \in Workspace, Ask(c, w) PROVE role'[v]
  BY <1>1 DEF Ask, LaneFree
<1>2. ASSUME NEW c \in Caller, Refuse(c) PROVE role'[v]
  BY <1>2 DEF Refuse, Leave, LaneFree
<1>3. ASSUME NEW c \in Caller, Take(c) PROVE role'[v]
  BY <1>3 DEF Take, LaneFree
<1>4. ASSUME NEW c \in Caller, Lose(c) PROVE role'[v]
  BY <1>4 DEF Lose, LaneFree
<1>5. ASSUME NEW c \in Caller, Park(c) PROVE role'[v]
  BY <1>5 DEF Park, Leave, LaneFree
<1>6. ASSUME NEW c \in Caller, NEW o \in Outcome, Serve(c, o) PROVE role'[v]
  BY <1>6 DEF Serve, LaneFree
<1>7. ASSUME NEW c \in Caller, TakeParked(c) PROVE role'[v]
  BY <1>7 DEF TakeParked, LaneFree
<1>8. ASSUME NEW c \in Caller, Release(c) PROVE role'[v]
  BY <1>8 DEF Release, Leave, LaneFree
<1>9. ASSUME NEW c \in Caller, Cancel(c) PROVE role'[v]
  BY <1>9 DEF Cancel, Leave, LaneFree
<1>10. CASE UNCHANGED laneVars
  BY <1>10 DEF laneVars, LaneFree
<1> QED
  BY <1>1, <1>2, <1>3, <1>4, <1>5, <1>6, <1>7, <1>8, <1>9, <1>10
     DEF Next, Step, Unwind

(***************************************************************************)
(* The theorems.                                                           *)
(***************************************************************************)

\* The invariant holds in every reachable state of the lane.
THEOREM LaneInvariance == Spec => []LaneInv
<1>1. LaneInv /\ [Next]_laneVars => LaneInv'
  BY TypeStep, OneRunnerStep, LaneMutexStep, ParkerMergesStep,
     OnlyRunnersHoldStep, PendingIsOwnedStep, WaitersShareOptionsStep DEF LaneInv
<1> QED BY InitInv, <1>1, PTL DEF Spec

\* drain and acquire_or_park: the runner role of a workspace has one holder,
\* and rebuild_in_flight says whether it has one.
THEOREM OneRunnerAlways == Spec => []OneRunner
<1>1. LaneInv => OneRunner
  BY DEF LaneInv
<1> QED BY LaneInvariance, <1>1, PTL

\* merges_with and coalesce_with: a caller is never told the outcome of a
\* rebuild with other macro options than its own.
THEOREM WaitersAgree == Spec => []WaitersShareOptions
<1>1. LaneInv => WaitersShareOptions
  BY DEF LaneInv
<1> QED BY LaneInvariance, <1>1, PTL

\* RebuildWaiters: a caller is in one entry at most, and pending exactly
\* while it is in one or on its way to one.
THEOREM CallersAreOwned == Spec => []PendingIsOwned
<1>1. LaneInv => PendingIsOwned
  BY DEF LaneInv
<1> QED BY LaneInvariance, <1>1, PTL

\* Releasing rebuild_in_flight under the lane strands no parked request,
\* when no drain loop unwinds.
THEOREM NoStrandedRequest ==
  ASSUME ~MayUnwind
  PROVE  Spec => []ParkedHasRunner
<1>1. Init => ParkedHasRunner
  BY DEF Init, ParkedHasRunner, LaneFree
<1>2. LaneInv /\ ParkedHasRunner /\ [Next]_laneVars => ParkedHasRunner'
  BY ParkedHasRunnerStep
<1> QED BY LaneInvariance, <1>1, <1>2, PTL DEF Spec
=============================================================================
