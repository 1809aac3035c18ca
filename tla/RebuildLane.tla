---------------------------- MODULE RebuildLane ----------------------------
(***************************************************************************)
(* What the rebuild dispatcher promises its callers, without the registry: *)
(* the abstract specification that RebuildDispatcher implements.           *)
(*                                                                         *)
(* A caller takes the runner role of a workspace or parks; the holder of   *)
(* the role runs one entry after another, answers each entry's callers,    *)
(* and gives the role up under the lane.  Why an entry succeeds, fails or  *)
(* is cancelled is left open.                                              *)
(***************************************************************************)
EXTENDS Naturals, FiniteSets, PendingRebuild

CONSTANTS
  Caller,        \* requests, and the tasks that run them
  Workspace,     \* workspaces, each with its lane
  NoWorkspace,   \* where a caller is when it is out
  MayUnwind      \* whether a drain loop may unwind

ASSUME CallerAssumption == NoWorkspace \notin Workspace
ASSUME PendingAssumption ==
  NoPending \notin [waiters : SUBSET Caller, opts : Options \cup {NoOptions}]
ASSUME MayUnwindAssumption == MayUnwind \in BOOLEAN

VARIABLES
  phase,         \* "out", "asking", "parking" (it holds the lane), "running"
  where,         \* the workspace each caller works on
  lane,          \* the parked entry of each workspace
  role,          \* whether the runner role of each workspace is taken
  current,       \* the entry each runner runs
  asked,         \* what each caller asked for
  answer         \* what each explicit caller was told

laneVars == <<phase, where, lane, role, current, asked, answer>>

Phase   == {"out", "asking", "parking", "running"}
Entry   == [waiters : SUBSET Caller, opts : Options \cup {NoOptions}]
Outcome == {"published", "refused", "failed", "evicted", "internal"}
Answer  == Outcome \cup {"none", "pending"}

\* Mutant of LaneFree: nobody waits for the lane.
LaneIgnored(w) == TRUE

LaneFree(w) == \A c \in Caller : phase[c] = "parking" => where[c] # w

Incoming(c) == EntryOf(c, asked[c])

Tell(W, o) == answer' = [c \in Caller |-> IF c \in W THEN o ELSE answer[c]]

Leave(c) ==
  /\ phase' = [phase EXCEPT ![c] = "out"]
  /\ where' = [where EXCEPT ![c] = NoWorkspace]

\* handle_changes*, and the lookup of its workspace.
Ask(c, w) ==
  /\ phase[c] = "out"
  /\ answer[c] # "pending"
  /\ \E q \in Request :
       /\ q.explicit \/ q = WatcherRequest
       /\ asked' = [asked EXCEPT ![c] = q]
       /\ answer' = [answer EXCEPT ![c] = IF q.explicit THEN "pending" ELSE "none"]
  /\ phase' = [phase EXCEPT ![c] = "asking"]
  /\ where' = [where EXCEPT ![c] = w]
  /\ UNCHANGED <<lane, role, current>>

\* Refused under the lane, for options or for the workspace's state.
Refuse(c) ==
  /\ phase[c] = "asking"
  /\ LaneFree(where[c])
  /\ Tell(Incoming(c).waiters, "refused")
  /\ Leave(c)
  /\ UNCHANGED <<lane, role, current, asked>>

Mergeable(c) ==
  lane[where[c]] # NoPending => MergesWith(lane[where[c]], Incoming(c))

\* The exchange won: this task is the runner.
Take(c) ==
  LET w == where[c] IN
  /\ phase[c] = "asking"
  /\ LaneFree(w)
  /\ Mergeable(c)
  /\ ~role[w]
  /\ role' = [role EXCEPT ![w] = TRUE]
  /\ current' = [current EXCEPT ![c] = AddTo(lane[w], Incoming(c))]
  /\ lane' = [lane EXCEPT ![w] = NoPending]
  /\ phase' = [phase EXCEPT ![c] = "running"]
  /\ UNCHANGED <<where, asked, answer>>

\* The exchange lost: the caller keeps the lane until it has parked.
Lose(c) ==
  LET w == where[c] IN
  /\ phase[c] = "asking"
  /\ LaneFree(w)
  /\ Mergeable(c)
  /\ role[w]
  /\ phase' = [phase EXCEPT ![c] = "parking"]
  /\ UNCHANGED <<where, lane, role, current, asked, answer>>

Park(c) ==
  /\ phase[c] = "parking"
  /\ lane' = [lane EXCEPT ![where[c]] = AddTo(@, Incoming(c))]
  /\ Leave(c)
  /\ UNCHANGED <<role, current, asked, answer>>

\* Mutant of Serve: the role is given up between two iterations.
ServeReleases(c, o) ==
  /\ phase[c] = "running"
  /\ current[c] # NoPending
  /\ Tell(Waiters(current[c]), o)
  /\ current' = [current EXCEPT ![c] = NoPending]
  /\ role' = [role EXCEPT ![where[c]] = FALSE]
  /\ UNCHANGED <<phase, where, lane, asked>>

\* An iteration ended with outcome o, and its callers are told.
Serve(c, o) ==
  /\ phase[c] = "running"
  /\ current[c] # NoPending
  /\ Tell(Waiters(current[c]), o)
  /\ current' = [current EXCEPT ![c] = NoPending]
  /\ UNCHANGED <<phase, where, lane, role, asked>>

\* A request has parked behind the last iteration: the runner takes it.
TakeParked(c) ==
  LET w == where[c] IN
  /\ phase[c] = "running"
  /\ LaneFree(w)
  /\ current[c] = NoPending
  /\ lane[w] # NoPending
  /\ current' = [current EXCEPT ![c] = lane[w]]
  /\ lane' = [lane EXCEPT ![w] = NoPending]
  /\ UNCHANGED <<phase, where, role, asked, answer>>

\* The role is released with the lane seen empty.
Release(c) ==
  LET w == where[c] IN
  /\ phase[c] = "running"
  /\ LaneFree(w)
  /\ current[c] = NoPending
  /\ lane[w] = NoPending
  /\ role' = [role EXCEPT ![w] = FALSE]
  /\ Leave(c)
  /\ UNCHANGED <<lane, current, asked, answer>>

\* A cancellation: everyone is told and the role released.
Cancel(c) ==
  LET w == where[c] IN
  /\ phase[c] = "running"
  /\ LaneFree(w)
  /\ Tell(Waiters(current[c]) \cup Waiters(lane[w]), "evicted")
  /\ lane' = [lane EXCEPT ![w] = NoPending]
  /\ role' = [role EXCEPT ![w] = FALSE]
  /\ current' = [current EXCEPT ![c] = NoPending]
  /\ Leave(c)
  /\ UNCHANGED asked

\* The drain loop unwinds: the sentinel tells the parked callers only when
\* it can have the lane, and releases the role either way.
Unwind(c) ==
  LET w == where[c]
      parked == IF LaneFree(w) THEN Waiters(lane[w]) ELSE {} IN
  /\ MayUnwind
  /\ phase[c] = "running"
  /\ Tell(Waiters(current[c]) \cup parked, "internal")
  /\ lane' = IF LaneFree(w) THEN [lane EXCEPT ![w] = NoPending] ELSE lane
  /\ role' = [role EXCEPT ![w] = FALSE]
  /\ current' = [current EXCEPT ![c] = NoPending]
  /\ Leave(c)
  /\ UNCHANGED asked

-----------------------------------------------------------------------------
Init ==
  /\ phase = [c \in Caller |-> "out"]
  /\ where = [c \in Caller |-> NoWorkspace]
  /\ lane = [w \in Workspace |-> NoPending]
  /\ role = [w \in Workspace |-> FALSE]
  /\ current = [c \in Caller |-> NoPending]
  /\ asked = [c \in Caller |-> WatcherRequest]
  /\ answer = [c \in Caller |-> "none"]

Step(c) ==
  \/ Refuse(c) \/ Take(c) \/ Lose(c) \/ Park(c)
  \/ \E o \in Outcome : Serve(c, o)
  \/ TakeParked(c) \/ Release(c) \/ Cancel(c) \/ Unwind(c)

Next ==
  \/ \E c \in Caller, w \in Workspace : Ask(c, w)
  \/ \E c \in Caller : Step(c)

Spec == Init /\ [][Next]_laneVars

\* The lane is a FIFO mutex and a runner runs to its end.
Fairness == \A c \in Caller : SF_laneVars(Step(c))

FairSpec == Spec /\ Fairness

-----------------------------------------------------------------------------
(***************************************************************************)
(* Properties.                                                             *)
(***************************************************************************)
LaneTypeOK ==
  /\ phase \in [Caller -> Phase]
  /\ where \in [Caller -> Workspace \cup {NoWorkspace}]
  /\ \A c \in Caller : phase[c] # "out" => where[c] \in Workspace
  /\ lane \in [Workspace -> Entry \cup {NoPending}]
  /\ role \in [Workspace -> BOOLEAN]
  /\ current \in [Caller -> Entry \cup {NoPending}]
  /\ asked \in [Caller -> Request]
  /\ answer \in [Caller -> Answer]

\* Two tasks never hold the runner role of one workspace, and the flag says
\* whether one does.
OneRunner ==
  /\ \A c, d \in Caller :
       phase[c] = "running" /\ phase[d] = "running" /\ where[c] = where[d] => c = d
  /\ \A w \in Workspace :
       role[w] <=> \E c \in Caller : phase[c] = "running" /\ where[c] = w

\* No parked entry is stranded: whoever parks, or is about to, has a runner.
\* (Only an unwound drain loop whose sentinel misses the lane breaks this.)
ParkedHasRunner ==
  \A w \in Workspace :
    lane[w] # NoPending \/ ~LaneFree(w) => role[w]

\* No caller is told the outcome of a rebuild that ran with macro options it
\* did not ask for (merges_with), however requests merge.
WaitersShareOptions ==
  \A p \in {lane[w] : w \in Workspace} \cup {current[c] : c \in Caller} :
    \A c \in Waiters(p) : asked[c].opts = p.opts

\* Nobody is answered twice, or forgotten: a caller is pending exactly while
\* one entry holds it or it is still on its way to the lane, never two.
OnTheWay(c)   == phase[c] \in {"asking", "parking"} /\ asked[c].explicit
ParkedIn(c)   == {w \in Workspace : c \in Waiters(lane[w])}
RunningIn(c)  == {d \in Caller : c \in Waiters(current[d])}

PendingIsOwned ==
  \A c \in Caller :
    /\ answer[c] = "pending" <=>
         OnTheWay(c) \/ ParkedIn(c) # {} \/ RunningIn(c) # {}
    /\ OnTheWay(c) => ParkedIn(c) = {} /\ RunningIn(c) = {}
    /\ \A v, w \in ParkedIn(c) : v = w
    /\ \A d, e \in RunningIn(c) : d = e
    /\ ParkedIn(c) = {} \/ RunningIn(c) = {}

\* The rest of the inductive invariant: the lane is a mutex, a caller that
\* holds it may merge into what is parked there, and only a runner holds an
\* entry.
LaneMutex ==
  \A c, d \in Caller :
    phase[c] = "parking" /\ phase[d] = "parking" /\ where[c] = where[d] => c = d

ParkerMerges == \A c \in Caller : phase[c] = "parking" => Mergeable(c)

OnlyRunnersHold ==
  \A c \in Caller : current[c] # NoPending => phase[c] = "running"

LaneInv ==
  LaneTypeOK /\ OneRunner /\ LaneMutex /\ ParkerMerges /\ OnlyRunnersHold
    /\ PendingIsOwned /\ WaitersShareOptions

\* Every explicit caller is answered.
CallersAreAnswered ==
  \A c \in Caller : answer[c] = "pending" ~> answer[c] # "pending"
=============================================================================
