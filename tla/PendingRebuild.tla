--------------------------- MODULE PendingRebuild ---------------------------
(***************************************************************************)
(* The entry of a rebuild lane (PendingRebuild of                          *)
(* src/sqry-daemon/src/rebuild.rs), abstracted to the callers who wait on  *)
(* it and the macro build options it runs with.                            *)
(***************************************************************************)
CONSTANTS
  Options,       \* non-empty macro build options requests, up to agreement
  NoOptions,     \* the empty request: reuse the manifest's record
  NoPending      \* an empty lane

ASSUME OptionsAssumption == NoOptions \notin Options

Request == [explicit : BOOLEAN, opts : Options \cup {NoOptions}]

\* A watcher's change set: nobody waits, nothing is asked for.
WatcherRequest == [explicit |-> FALSE, opts |-> NoOptions]

\* The entry of request q of caller r: an explicit caller waits on it.
EntryOf(r, q) == [waiters |-> IF q.explicit THEN {r} ELSE {}, opts |-> q.opts]

IsWatcherEnqueue(p) == p.waiters = {} /\ p.opts = NoOptions

\* Mutant of MergesWith: any two requests share an iteration.
MergesAlways(prior, later) == TRUE

MergesWith(prior, later) ==
  \/ prior.opts = later.opts
  \/ IsWatcherEnqueue(prior)
  \/ IsWatcherEnqueue(later)

\* Mutant of CoalesceWith: the later entry replaces the parked one.
LaterReplaces(prior, later) == later

\* The waiters are united; a later non-empty request wins.
CoalesceWith(prior, later) ==
  [waiters |-> prior.waiters \cup later.waiters,
   opts    |-> IF later.opts = NoOptions THEN prior.opts ELSE later.opts]

\* The lane's content once `later` has been added to it.
AddTo(parked, later) ==
  IF parked = NoPending THEN later ELSE CoalesceWith(parked, later)

Waiters(p) == IF p = NoPending THEN {} ELSE p.waiters
=============================================================================
