---------------------------- MODULE WatcherBridge ----------------------------
(***************************************************************************)
(* The daemon's file watchers, for one workspace key.  A watcher is a pair *)
(* of tasks, a blocking thread that collects changes and an async task     *)
(* that dispatches them to rebuilds, with a bounded channel between; the   *)
(* dispatcher's map names at most one pair for the key, and the workspace  *)
(* object it serves holds its stop signal.  Nothing joins a pair: it ends  *)
(* by itself when its signal is set, and removes its own entry.            *)
(*                                                                         *)
(* The states of a workspace object are those of WorkspaceManager, as far  *)
(* as arming tells them apart; what becomes of a dispatched change is the  *)
(* matter of RebuildDispatcher.                                            *)
(***************************************************************************)
EXTENDS Naturals, Sequences

CONSTANTS
  Slot,         \* LoadedWorkspace objects of the key
  Caller,       \* tasks that call start_watching, again and again
  MaxPairs,     \* watcher generations
  MaxEdits,     \* source changes
  Cap,          \* the capacity of a pair's channel
  MayDisconnect \* whether a watcher's event source may break

ASSUME PairAssumption == MaxPairs \in Nat
ASSUME EditAssumption == MaxEdits \in Nat
ASSUME CapAssumption == Cap \in Nat \ {0}
ASSUME DisconnectAssumption == MayDisconnect \in BOOLEAN

Pair == 1 .. MaxPairs
None == 0

VARIABLES
  phase,       \* each object: "unused", "Loading", "Resident" (Loaded,
               \* Rebuilding or Failed), "Tombstone" (stored by a tombstone
               \* writer), "PutBack" (a tombstone that an abandoned load put
               \* back, or Unloaded after a cancelled rebuild), "Removed"
  prior,       \* what its load goes back to when it is abandoned
  workspaces,  \* the object registered under the key, {} or {s}
  signal,      \* the pair whose stop signal each object holds
  entry,       \* the pair in the dispatcher's map
  pair,        \* the pairs, below
  next,        \* next_watcher_generation
  call,        \* each caller: where it is, its object and its pair
  shutdown,    \* "up", "flagged", "collected", "stopped", "done"
  collected,   \* the signals shutdown has collected
  edits,       \* source changes so far
  watched      \* history: the objects a watcher was armed for, or found
               \* watching, since a tombstone last stopped or refused one

slots == <<phase, prior, workspaces>>
control == <<call, shutdown, collected>>
vars == <<slots, signal, entry, pair, next, control, edits, watched>>

\* A pair: its object, stop and live, where its two tasks are, the changes its
\* watcher has seen, those the blocking thread has collected, the channel,
\* the change in the async task's hands, and the changes dispatched.
NoPair == [slot |-> None, stop |-> FALSE, live |-> FALSE, blocking |-> "off",
           async |-> "off", seen |-> 0, taken |-> 0, chan |-> <<>>, item |-> 0, sent |-> 0]

PairState ==
  [slot : Slot \cup {None}, stop : BOOLEAN, live : BOOLEAN,
   blocking : {"off", "new", "wait", "send", "exited"},
   async : {"off", "recv", "dispatch", "building", "leaving", "reap", "gone"},
   seen : Nat, taken : Nat, chan : Seq(Nat), item : Nat, sent : Nat]

TypeOK ==
  /\ phase \in [Slot -> {"unused", "Loading", "Resident", "Tombstone", "PutBack", "Removed"}]
  /\ prior \in [Slot -> {"Resident", "PutBack", "Removed"}]
  /\ workspaces \subseteq Slot
  /\ signal \in [Slot -> Pair \cup {None}]
  /\ entry \in Pair \cup {None}
  /\ pair \in [Pair -> PairState]
  /\ \A p \in Pair :
       /\ Len(pair[p].chan) <= Cap
       /\ pair[p].sent <= pair[p].taken /\ pair[p].taken <= pair[p].seen
       /\ pair[p].seen <= edits
  /\ next \in 1 .. MaxPairs + 1
  /\ call \in [Caller -> [at : {"idle", "found", "arm", "insert"},
                          slot : Slot \cup {None}, pair : Pair \cup {None}]]
  /\ shutdown \in {"up", "flagged", "collected", "stopped", "done"}
  /\ collected \subseteq Pair
  /\ edits \in 0 .. MaxEdits
  /\ watched \subseteq Slot

Init ==
  /\ phase = [s \in Slot |-> "unused"]
  /\ prior = [s \in Slot |-> "Removed"]
  /\ workspaces = {}
  /\ signal = [s \in Slot |-> None]
  /\ entry = None
  /\ pair = [p \in Pair |-> NoPair]
  /\ next = 1
  /\ call = [c \in Caller |-> [at |-> "idle", slot |-> None, pair |-> None]]
  /\ shutdown = "up"
  /\ collected = {}
  /\ edits = 0
  /\ watched = {}

\* Evicted, or Unloaded: after a reset, or where an abandoned load or a
\* cancelled rebuild left it.
Tombstone(s) == phase[s] \in {"Tombstone", "PutBack", "Removed"}

\* The pairs with their stop set, if p is one.
Stopped(P) == [p \in Pair |-> [pair[p] EXCEPT !.stop = @ \/ p \in P]]

-----------------------------------------------------------------------------
(* The workspace objects, as WorkspaceManager moves them.                   *)

\* A load registers an object, or takes the gate of one that is a tombstone
\* or Failed.
LoadBegins ==
  /\ \/ /\ workspaces = {}
        /\ \E s \in Slot :
             /\ phase[s] = "unused"
             /\ workspaces' = {s}
             /\ phase' = [phase EXCEPT ![s] = "Loading"]
             /\ prior' = [prior EXCEPT ![s] = "Removed"]
     \/ \E s \in workspaces :
          /\ Tombstone(s) \/ phase[s] = "Resident"
          /\ phase' = [phase EXCEPT ![s] = "Loading"]
          /\ prior' = [prior EXCEPT ![s] = IF Tombstone(s) THEN "PutBack" ELSE "Resident"]
          /\ UNCHANGED workspaces
  /\ UNCHANGED <<signal, entry, pair, next, control, edits, watched>>

\* The load stores Loaded, or Failed.
LoadPublishes(s) ==
  /\ phase[s] = "Loading"
  /\ phase' = [phase EXCEPT ![s] = "Resident"]
  /\ UNCHANGED <<prior, workspaces, signal, entry, pair, next, control, edits, watched>>

\* An abandoned load puts the state back, and removes the object it
\* registered; neither is a tombstone writer.
LoadAbandoned(s) ==
  /\ phase[s] = "Loading"
  /\ phase' = [phase EXCEPT ![s] = prior[s]]
  /\ workspaces' = IF prior[s] = "Removed" THEN workspaces \ {s} ELSE workspaces
  /\ UNCHANGED <<prior, signal, entry, pair, next, control, edits, watched>>

\* A rebuild enters from Unloaded, and a cancelled one, or one that finds the
\* workspace reset, goes back to it.  An object that left the map is Evicted,
\* which no rebuild enters.
RebuildMoves(s) ==
  /\ s \in workspaces
  /\ \/ phase[s] \in {"Tombstone", "PutBack"} /\ phase' = [phase EXCEPT ![s] = "Resident"]
     \/ phase[s] = "Resident" /\ phase' = [phase EXCEPT ![s] = "PutBack"]
  /\ UNCHANGED <<prior, workspaces, signal, entry, pair, next, control, edits, watched>>

\* A tombstone writer: the signal and the state are stored under one lock.
StopAndStore(s) ==
  /\ phase' = [phase EXCEPT ![s] = "Tombstone"]
  /\ pair' = Stopped({signal[s]})
  /\ watched' = watched \ {s}

Evict(s) ==
  /\ s \in workspaces
  /\ StopAndStore(s)
  /\ UNCHANGED <<prior, workspaces, signal, entry, next, control, edits>>

\* unload: the tombstone leaves the map too.
Unload(s) ==
  /\ s \in workspaces
  /\ StopAndStore(s)
  /\ workspaces' = {}
  /\ UNCHANGED <<prior, signal, entry, next, control, edits>>

-----------------------------------------------------------------------------
(* start_watching and ensure_watching.                                      *)

\* The map's lock is held from the check to the insertion.
MapFree == \A c \in Caller : call[c].at \notin {"arm", "insert"}

Call(c, at, s, p) == call' = [call EXCEPT ![c] = [at |-> at, slot |-> s, pair |-> p]]
Return(c) == Call(c, "idle", None, None)

Lookup(c) ==
  /\ call[c].at = "idle"
  /\ \E s \in workspaces : Call(c, "found", s, None)
  /\ UNCHANGED <<slots, signal, entry, pair, next, shutdown, collected, edits, watched>>

\* Mutant of IsWatching: only the liveness flag is read.
IsLive(p) == p # None /\ pair[p].live

\* WatcherEntry::is_watching
IsWatching(p) == p # None /\ pair[p].live /\ ~pair[p].stop

\* Mutant of ShuttingDown: the flag is not looked at.
NeverShuttingDown == FALSE

\* shutting_down, as step 0 reads it under the map's lock.
ShuttingDown == shutdown # "up"

Refuse(c) ==
  /\ call[c].at = "found" /\ MapFree
  /\ ShuttingDown
  /\ Return(c)
  /\ UNCHANGED <<slots, signal, entry, pair, next, shutdown, collected, edits, watched>>

\* A pair that is watching for this very object is kept.
Keeps(s) == IsWatching(entry) /\ signal[s] = entry

Keep(c) ==
  /\ call[c].at = "found" /\ MapFree
  /\ ~ShuttingDown
  /\ Keeps(call[c].slot)
  /\ watched' = watched \cup {call[c].slot}
  /\ Return(c)
  /\ UNCHANGED <<slots, signal, entry, pair, next, shutdown, collected, edits>>

\* Otherwise a generation is taken and a watcher subscribes, which may fail.
Subscribe(c) ==
  /\ call[c].at = "found" /\ MapFree
  /\ ~ShuttingDown
  /\ ~Keeps(call[c].slot)
  /\ next <= MaxPairs
  /\ next' = next + 1
  /\ \/ Return(c) /\ UNCHANGED pair
     \/ /\ pair' = [pair EXCEPT ![next] = [NoPair EXCEPT
             !.slot = call[c].slot, !.blocking = "new", !.seen = edits, !.taken = edits,
             !.sent = edits]]
        /\ Call(c, "arm", call[c].slot, next)
  /\ UNCHANGED <<slots, signal, entry, shutdown, collected, edits, watched>>

\* Mutant of Arm: the state is not read under the signal's lock.
ArmAny(c) ==
  LET s == call[c].slot
      p == call[c].pair
  IN
  /\ call[c].at = "arm"
  /\ pair' = [Stopped({signal[s]}) EXCEPT
       ![p].live = TRUE, ![p].blocking = "wait", ![p].async = "recv"]
  /\ signal' = [signal EXCEPT ![s] = p]
  /\ watched' = watched \cup {s}
  /\ Call(c, "insert", s, p)
  /\ UNCHANGED <<slots, entry, next, shutdown, collected, edits>>

\* arm_watcher_stop: the object's old signal is set; a tombstone is refused;
\* otherwise the pair has a signal of its own and its tasks start.
Arm(c) ==
  LET s == call[c].slot
      p == call[c].pair
  IN
  /\ call[c].at = "arm"
  /\ IF Tombstone(s)
       THEN /\ pair' = [Stopped({signal[s]}) EXCEPT ![p] = NoPair]
            /\ watched' = watched \ {s}
            /\ Return(c)
            /\ UNCHANGED signal
       ELSE /\ pair' = [Stopped({signal[s]}) EXCEPT
                 ![p].live = TRUE, ![p].blocking = "wait", ![p].async = "recv"]
            /\ signal' = [signal EXCEPT ![s] = p]
            /\ watched' = watched \cup {s}
            /\ Call(c, "insert", s, p)
  /\ UNCHANGED <<slots, entry, next, shutdown, collected, edits>>

Insert(c) ==
  /\ call[c].at = "insert"
  /\ pair' = Stopped({entry})
  /\ entry' = call[c].pair
  /\ Return(c)
  /\ UNCHANGED <<slots, signal, next, shutdown, collected, edits, watched>>

-----------------------------------------------------------------------------
(* watch_loop_blocking, over wait_for_changes_cancellable.                  *)

\* A source file changes; every watcher subscribed sees it.
Edit ==
  /\ edits < MaxEdits
  /\ edits' = edits + 1
  /\ pair' = [p \in Pair |->
       IF pair[p].blocking \in {"new", "wait", "send"} THEN [pair[p] EXCEPT !.seen = edits']
       ELSE pair[p]]
  /\ UNCHANGED <<slots, signal, entry, next, control, watched>>

Step(p, q) ==
  /\ pair' = [pair EXCEPT ![p] = q]
  /\ UNCHANGED <<slots, signal, entry, next, control, edits, watched>>

\* What was seen is one change set after the debounce.
Collect(p) ==
  LET q == pair[p] IN
  /\ q.blocking = "wait" /\ q.seen > q.taken
  /\ ~q.stop
  /\ Step(p, [q EXCEPT !.taken = q.seen, !.blocking = "send"])

ObserveStop(p) ==
  LET q == pair[p] IN
  /\ q.blocking = "wait" /\ q.stop
  /\ Step(p, [q EXCEPT !.blocking = "exited"])

\* blocking_send waits for room, and fails once the receiver is dropped.
Receiver(q) == q.async \in {"recv", "dispatch", "building"}

\* Mutant of Send: the channel is not bounded.
SendUnbounded(p) ==
  LET q == pair[p] IN
  /\ q.blocking = "send" /\ Receiver(q)
  /\ Step(p, [q EXCEPT !.chan = Append(@, q.taken), !.blocking = "wait"])

Send(p) ==
  LET q == pair[p] IN
  /\ q.blocking = "send" /\ Receiver(q)
  /\ Len(q.chan) < Cap
  /\ Step(p, [q EXCEPT !.chan = Append(@, q.taken), !.blocking = "wait"])

\* Mutant of SendFails: nothing tells the thread that the receiver is gone.
SendHangs(p) ==
  /\ pair[p].blocking = "send" /\ ~Receiver(pair[p])
  /\ Step(p, pair[p])

SendFails(p) ==
  LET q == pair[p] IN
  /\ q.blocking = "send" /\ ~Receiver(q)
  /\ Step(p, [q EXCEPT !.blocking = "exited"])

\* The event source breaks; what it had delivered is collected first.
Disconnect(p) ==
  /\ MayDisconnect
  /\ pair[p].blocking = "wait" /\ pair[p].seen = pair[p].taken
  /\ Step(p, [pair[p] EXCEPT !.blocking = "exited"])

-----------------------------------------------------------------------------
(* dispatch_loop_async and the end of its task.                             *)

Recv(p) ==
  LET q == pair[p] IN
  /\ q.async = "recv" /\ q.chan # <<>>
  /\ Step(p, [q EXCEPT !.item = Head(q.chan), !.chan = Tail(@), !.async = "dispatch"])

ChannelClosed(p) ==
  LET q == pair[p] IN
  /\ q.async = "recv" /\ q.chan = <<>> /\ q.blocking = "exited"
  /\ Step(p, [q EXCEPT !.async = "leaving"])

\* handle_changes_with_git_state refuses an unregistered workspace, and a
\* stopped watcher under the lane; a refusal with the signal set ends the
\* loop.
DispatchRefused(p) ==
  LET q == pair[p] IN
  /\ q.async = "dispatch"
  /\ workspaces = {} \/ q.stop
  /\ Step(p, [q EXCEPT !.sent = q.item, !.item = 0,
                       !.async = IF q.stop THEN "leaving" ELSE "recv"])

\* The change is dispatched: it runs, or is parked with a runner.
Dispatch(p) ==
  LET q == pair[p] IN
  /\ q.async = "dispatch"
  /\ workspaces # {} /\ ~q.stop
  /\ Step(p, [q EXCEPT !.sent = q.item, !.item = 0, !.async = "building"])

\* Mutant of DispatchReturns: every cancelled rebuild ends the loop.
DispatchReturnsOnce(p) ==
  LET q == pair[p] IN
  /\ q.async = "building"
  /\ \E evicted \in BOOLEAN :
       Step(p, [q EXCEPT !.async = IF evicted THEN "leaving" ELSE "recv"])

\* It returns.  A cancelled rebuild ends the loop only with the signal set.
DispatchReturns(p) ==
  LET q == pair[p] IN
  /\ q.async = "building"
  /\ \E evicted \in BOOLEAN :
       Step(p, [q EXCEPT !.async = IF evicted /\ q.stop THEN "leaving" ELSE "recv"])

\* live is cleared before the entry is reaped.
Leave(p) ==
  /\ pair[p].async = "leaving"
  /\ Step(p, [pair[p] EXCEPT !.live = FALSE, !.chan = <<>>, !.async = "reap"])

\* Mutant of Reap: whatever entry is there is removed.
ReapAny(p) ==
  /\ pair[p].async = "reap" /\ MapFree
  /\ entry' = None
  /\ pair' = [pair EXCEPT ![p].async = "gone"]
  /\ UNCHANGED <<slots, signal, next, control, edits, watched>>

\* reap_watcher: compare and remove.
Reap(p) ==
  /\ pair[p].async = "reap" /\ MapFree
  /\ entry' = IF entry = p THEN None ELSE entry
  /\ pair' = [pair EXCEPT ![p].async = "gone"]
  /\ UNCHANGED <<slots, signal, next, control, edits, watched>>

-----------------------------------------------------------------------------
(* RebuildDispatcher::shutdown.                                             *)

Shutdown ==
  /\ shutdown = "up"
  /\ shutdown' = "flagged"
  /\ UNCHANGED <<slots, signal, entry, pair, next, call, collected, edits, watched>>

CollectStops ==
  /\ shutdown = "flagged" /\ MapFree
  /\ shutdown' = "collected"
  /\ collected' = {entry} \ {None}
  /\ UNCHANGED <<slots, signal, entry, pair, next, call, edits, watched>>

SetStops ==
  /\ shutdown = "collected"
  /\ shutdown' = "stopped"
  /\ pair' = Stopped(collected)
  /\ UNCHANGED <<slots, signal, entry, next, call, collected, edits, watched>>

\* The signal each registered object holds, too.
StopWorkspaces ==
  /\ shutdown = "stopped"
  /\ shutdown' = "done"
  /\ pair' = Stopped({signal[s] : s \in workspaces})
  /\ UNCHANGED <<slots, signal, entry, next, call, collected, edits, watched>>

-----------------------------------------------------------------------------
PairStep(p) ==
  \/ Collect(p) \/ ObserveStop(p) \/ Send(p) \/ SendFails(p)
  \/ Recv(p) \/ ChannelClosed(p) \/ DispatchRefused(p) \/ Dispatch(p) \/ DispatchReturns(p)
  \/ Leave(p) \/ Reap(p)

CallStep(c) == Refuse(c) \/ Keep(c) \/ Subscribe(c) \/ Arm(c) \/ Insert(c)
ShutdownStep == CollectStops \/ SetStops \/ StopWorkspaces

Next ==
  \/ LoadBegins
  \/ \E s \in Slot : LoadPublishes(s) \/ LoadAbandoned(s) \/ RebuildMoves(s)
                      \/ Evict(s) \/ Unload(s)
  \/ \E c \in Caller : Lookup(c) \/ CallStep(c)
  \/ \E p \in Pair : PairStep(p) \/ Disconnect(p)
  \/ Edit \/ Shutdown \/ ShutdownStep

Spec == Init /\ [][Next]_vars

\* Every task that can run does: both tasks of a pair, a caller that has the
\* map's lock, and a shutdown that has begun.  A dispatched rebuild returns
\* (RebuildingEnds).  Nobody has to load, evict or edit.
FairSpec ==
  /\ Spec
  /\ \A p \in Pair :
       /\ WF_vars(Collect(p) \/ ObserveStop(p) \/ Send(p) \/ SendFails(p))
       /\ WF_vars(Recv(p) \/ ChannelClosed(p) \/ DispatchRefused(p) \/ Dispatch(p)
                    \/ DispatchReturns(p) \/ Leave(p))
       /\ SF_vars(Reap(p))
  /\ \A c \in Caller : WF_vars(Arm(c) \/ Insert(c))
  /\ SF_vars(ShutdownStep)

-----------------------------------------------------------------------------
(* Properties.                                                              *)

Running(p) == pair[p].async \notin {"off", "gone"}

\* A pair that runs with a clear signal is the one the map names, so an
\* unload's successor replaces it, status reports it and shutdown reaches
\* it: a late reap never takes the entry of the pair that came after.
WatcherIsRegistered ==
  MapFree => \A p \in Pair :
    Running(p) /\ ~pair[p].stop => entry = p

\* No pair is left with a clear signal on a tombstone that its writer stored,
\* however its arming raced that writer.
TombstoneIsUnwatched ==
  \A p \in Pair :
    Running(p) /\ ~pair[p].stop => phase[pair[p].slot] # "Tombstone"

\* A resident workspace that a watcher was armed for, or found watching, is
\* watched by the pair whose signal it holds, until that pair's event source
\* breaks: a reload in the time a stopped pair takes to leave does not count
\* that pair.
ResidentIsWatched ==
  MapFree /\ shutdown = "up" =>
    \A s \in watched : phase[s] = "Resident" =>
      LET p == signal[s] IN
      /\ p # None /\ ~pair[p].stop
      /\ pair[p].blocking # "exited" => entry = p /\ IsWatching(p)

\* Shutdown reaches every watcher, and none starts after it.
ShutdownStopsAll ==
  shutdown \in {"stopped", "done"} => \A p \in Pair : Running(p) => pair[p].stop

\* Every pair whose signal is set ends, with both of its tasks, even if its
\* thread waits for room in the channel.
StoppedPairsEnd ==
  \A p \in Pair : Running(p) /\ pair[p].stop
    ~> pair[p].async = "gone" /\ pair[p].blocking = "exited"

\* A change that a watcher has seen is dispatched, unless the watcher is
\* stopped first: cancelled and failed rebuilds do not end the pair, and a
\* broken event source does not lose what it had delivered.
ChangesAreDispatched ==
  \A p \in Pair : pair[p].sent < pair[p].seen ~> pair[p].sent = pair[p].seen \/ pair[p].stop
=============================================================================
