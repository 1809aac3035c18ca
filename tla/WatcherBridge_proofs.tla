------------------------ MODULE WatcherBridge_proofs ------------------------
(***************************************************************************)
(* Proofs about WatcherBridge, for any objects of the key, callers, watcher *)
(* generations, edits and channel capacity.                                *)
(***************************************************************************)
EXTENDS WatcherBridge, TLAPS

(***************************************************************************)
(* The inductive invariant.                                                *)
(***************************************************************************)

\* What is true of each pair: the counts are in order and the channel is within
\* its bound;
CountsOK(q) ==
  /\ Len(q.chan) <= Cap
  /\ q.sent <= q.taken /\ q.taken <= q.seen
  /\ q.item <= q.taken
  /\ \A i \in 1 .. Len(q.chan) : q.chan[i] <= q.taken

\* live is set as long as the loop runs, and a loop that ends with a clear
\* signal ends after its thread.
TasksOK(q) ==
  /\ q.live <=> q.async \in {"recv", "dispatch", "building", "leaving"}
  /\ q.async = "off" => q.blocking \in {"off", "new"}
  /\ q.async \in {"leaving", "reap", "gone"} /\ ~q.stop => q.blocking = "exited"

PairsAgree == \A p \in Pair : CountsOK(pair[p]) /\ TasksOK(pair[p])

\* The generations not taken yet have no tasks.
FreshPairs ==
  \A p \in Pair : p >= next => pair[p].async = "off" /\ pair[p].blocking = "off"

\* The key names one object, and never one that was removed.
OneObject ==
  /\ \A s, t \in workspaces : s = t
  /\ \A s \in workspaces : phase[s] \notin {"unused", "Removed"}
  /\ \A s \in Slot :
       /\ phase[s] \in {"Loading", "Resident", "PutBack"} => s \in workspaces
       /\ phase[s] = "unused" => signal[s] = None /\ s \notin watched

\* A signal, and the entry of the map, are those of pairs whose tasks were
\* started; the map never names a pair that has reaped itself.
SignalsAreArmed ==
  /\ \A s \in Slot : signal[s] # None =>
       pair[signal[s]].async # "off" /\ pair[signal[s]].slot = s
  /\ entry # None => Running(entry)

\* The callers: one has the map's lock at a time; a pair it has yet to arm
\* has a clear signal nobody holds; one it has yet to insert is running, and
\* the pair that it will replace serves an object that is no longer the key's.
CallersAgree ==
  /\ \A c, d \in Caller :
       call[c].at \in {"arm", "insert"} /\ call[d].at \in {"arm", "insert"} => c = d
  /\ \A c \in Caller :
       /\ call[c].at # "idle" => call[c].slot \in Slot /\ phase[call[c].slot] # "unused"
       /\ call[c].at = "arm" =>
            /\ call[c].pair \in Pair
            /\ pair[call[c].pair].async = "off"
            /\ pair[call[c].pair].blocking = "new"
            /\ ~pair[call[c].pair].stop
            /\ pair[call[c].pair].slot = call[c].slot
            /\ call[c].pair < next
       /\ call[c].at = "insert" =>
            /\ call[c].pair \in Pair
            /\ Running(call[c].pair)
            /\ entry # None /\ ~pair[entry].stop => pair[entry].slot \notin workspaces

Inserting(p) == \E c \in Caller : call[c].at = "insert" /\ call[c].pair = p

\* A pair that runs with a clear signal is in the map, or about to be.
Registered ==
  \A p \in Pair : Running(p) /\ ~pair[p].stop => entry = p \/ Inserting(p)

\* Its object holds that signal, and is no tombstone that a writer stored.
SignalIsHeld ==
  \A p \in Pair : Running(p) /\ ~pair[p].stop =>
    /\ pair[p].slot \in Slot
    /\ signal[pair[p].slot] = p
    /\ phase[pair[p].slot] # "Tombstone"

\* The key's object, once watched, holds a signal that is clear.
WatchedIsArmed ==
  shutdown = "up" => \A s \in watched \cap workspaces :
    signal[s] # None /\ ~pair[signal[s]].stop

\* Once shutdown has collected the signals nobody has the map's lock; what
\* runs with a clear signal was collected.
ShutdownReaches ==
  /\ shutdown \in {"collected", "stopped", "done"} => MapFree
  /\ shutdown = "collected" =>
       \A p \in Pair : Running(p) /\ ~pair[p].stop => p \in collected
  /\ ShutdownStopsAll

WatcherInv ==
  /\ TypeOK /\ PairsAgree /\ FreshPairs
  /\ OneObject /\ SignalsAreArmed /\ CallersAgree
  /\ Registered /\ SignalIsHeld /\ WatchedIsArmed /\ ShutdownReaches

(***************************************************************************)
(* Facts about single pairs.                                               *)
(***************************************************************************)

\* The pair of a generation without a watcher.
LEMMA NoPairState == NoPair \in PairState
BY DEF NoPair, PairState

\* Setting signals changes nothing else of a pair.
LEMMA StoppedState ==
  ASSUME pair \in [Pair -> PairState], NEW P
  PROVE  /\ Stopped(P) \in [Pair -> PairState]
         /\ \A p \in Pair :
              /\ Stopped(P)[p].stop <=> pair[p].stop \/ p \in P
              /\ Stopped(P)[p].slot = pair[p].slot
              /\ Stopped(P)[p].live = pair[p].live
              /\ Stopped(P)[p].blocking = pair[p].blocking
              /\ Stopped(P)[p].async = pair[p].async
              /\ Stopped(P)[p].seen = pair[p].seen
              /\ Stopped(P)[p].taken = pair[p].taken
              /\ Stopped(P)[p].chan = pair[p].chan
              /\ Stopped(P)[p].item = pair[p].item
              /\ Stopped(P)[p].sent = pair[p].sent
<1>1. ASSUME NEW p \in Pair
      PROVE  [pair[p] EXCEPT !.stop = @ \/ p \in P] \in PairState
  BY DEF PairState
<1>2. Stopped(P) \in [Pair -> PairState]
  BY <1>1 DEF Stopped
<1> QED BY <1>2 DEF Stopped, PairState

\* The steps of a pair's own two tasks, but for the reap.
TaskStep(p) ==
  \/ Collect(p) \/ ObserveStop(p) \/ Send(p) \/ SendFails(p) \/ Disconnect(p)
  \/ Recv(p) \/ ChannelClosed(p) \/ DispatchRefused(p) \/ Dispatch(p) \/ DispatchReturns(p)
  \/ Leave(p)

\* What a step of its own tasks leaves alone: the pair's object and signal,
\* what it has seen, and whether its tasks were started or have gone.
PairKept(q, r) ==
  /\ r.slot = q.slot /\ r.stop = q.stop /\ r.seen = q.seen
  /\ q.async # "off" /\ r.async # "off"
  /\ q.async = "gone" <=> r.async = "gone"

\* A step of its tasks keeps a pair in order.
LEMMA TaskStepPair ==
  ASSUME pair \in [Pair -> PairState], NEW p \in Pair,
         CountsOK(pair[p]), TasksOK(pair[p]), TaskStep(p)
  PROVE  /\ pair'[p] \in PairState
         /\ CountsOK(pair'[p]) /\ TasksOK(pair'[p])
         /\ PairKept(pair[p], pair'[p])
<1> DEFINE q == pair[p]
           r == pair'[p]
<1> q \in PairState
  OBVIOUS
<1>1. CASE Collect(p)
  <2>0. r = [q EXCEPT !.taken = q.seen, !.blocking = "send"]
    BY <1>1 DEF Collect, Step
  <2>1. r \in PairState
    BY <2>0 DEF PairState
  <2>2. /\ r.slot = q.slot /\ r.stop = q.stop /\ r.live = q.live
        /\ r.blocking = "send" /\ r.async = q.async /\ r.seen = q.seen
        /\ r.taken = q.seen /\ r.chan = q.chan /\ r.item = q.item
        /\ r.sent = q.sent
    BY <2>0 DEF PairState
  <2>3. CountsOK(r)
    BY <1>1, <2>2, CapAssumption DEF CountsOK, PairState, Collect
  <2>4. TasksOK(r)
    BY <1>1, <2>2 DEF TasksOK, PairState, Collect
  <2>5. PairKept(q, r)
    BY <1>1, <2>2 DEF PairKept, TasksOK, Collect
  <2> QED BY <2>1, <2>3, <2>4, <2>5
<1>2. CASE ObserveStop(p)
  <2>0. r = [q EXCEPT !.blocking = "exited"]
    BY <1>2 DEF ObserveStop, Step
  <2>1. r \in PairState
    BY <2>0 DEF PairState
  <2>2. /\ r.slot = q.slot /\ r.stop = q.stop /\ r.live = q.live
        /\ r.blocking = "exited" /\ r.async = q.async /\ r.seen = q.seen
        /\ r.taken = q.taken /\ r.chan = q.chan /\ r.item = q.item
        /\ r.sent = q.sent
    BY <2>0 DEF PairState
  <2>3. CountsOK(r)
    BY <1>2, <2>2, CapAssumption DEF CountsOK, PairState, ObserveStop
  <2>4. TasksOK(r)
    BY <1>2, <2>2 DEF TasksOK, PairState, ObserveStop
  <2>5. PairKept(q, r)
    BY <1>2, <2>2 DEF PairKept, TasksOK, ObserveStop
  <2> QED BY <2>1, <2>3, <2>4, <2>5
<1>3. CASE Send(p)
  <2>0. r = [q EXCEPT !.chan = Append(q.chan, q.taken), !.blocking = "wait"]
    BY <1>3 DEF Send, Step
  <2>a. Append(q.chan, q.taken) \in Seq(Nat)
    BY DEF PairState
  <2>1. r \in PairState
    BY <2>0, <2>a DEF PairState
  <2>2. /\ r.slot = q.slot /\ r.stop = q.stop /\ r.live = q.live
        /\ r.blocking = "wait" /\ r.async = q.async /\ r.seen = q.seen
        /\ r.taken = q.taken /\ r.chan = Append(q.chan, q.taken) /\ r.item = q.item
        /\ r.sent = q.sent
    BY <2>0 DEF PairState
  <2>3. CountsOK(r)
    BY <1>3, <2>2, CapAssumption DEF CountsOK, PairState, Send
  <2>4. TasksOK(r)
    BY <1>3, <2>2 DEF TasksOK, PairState, Send, Receiver
  <2>5. PairKept(q, r)
    BY <1>3, <2>2 DEF PairKept, TasksOK, Send
  <2> QED BY <2>1, <2>3, <2>4, <2>5
<1>4. CASE SendFails(p)
  <2>0. r = [q EXCEPT !.blocking = "exited"]
    BY <1>4 DEF SendFails, Step
  <2>1. r \in PairState
    BY <2>0 DEF PairState
  <2>2. /\ r.slot = q.slot /\ r.stop = q.stop /\ r.live = q.live
        /\ r.blocking = "exited" /\ r.async = q.async /\ r.seen = q.seen
        /\ r.taken = q.taken /\ r.chan = q.chan /\ r.item = q.item
        /\ r.sent = q.sent
    BY <2>0 DEF PairState
  <2>3. CountsOK(r)
    BY <1>4, <2>2, CapAssumption DEF CountsOK, PairState, SendFails
  <2>4. TasksOK(r)
    BY <1>4, <2>2 DEF TasksOK, PairState, SendFails
  <2>5. PairKept(q, r)
    BY <1>4, <2>2 DEF PairKept, TasksOK, SendFails
  <2> QED BY <2>1, <2>3, <2>4, <2>5
<1>5. CASE Disconnect(p)
  <2>0. r = [q EXCEPT !.blocking = "exited"]
    BY <1>5 DEF Disconnect, Step
  <2>1. r \in PairState
    BY <2>0 DEF PairState
  <2>2. /\ r.slot = q.slot /\ r.stop = q.stop /\ r.live = q.live
        /\ r.blocking = "exited" /\ r.async = q.async /\ r.seen = q.seen
        /\ r.taken = q.taken /\ r.chan = q.chan /\ r.item = q.item
        /\ r.sent = q.sent
    BY <2>0 DEF PairState
  <2>3. CountsOK(r)
    BY <1>5, <2>2, CapAssumption DEF CountsOK, PairState, Disconnect
  <2>4. TasksOK(r)
    BY <1>5, <2>2 DEF TasksOK, PairState, Disconnect
  <2>5. PairKept(q, r)
    BY <1>5, <2>2 DEF PairKept, TasksOK, Disconnect
  <2> QED BY <2>1, <2>3, <2>4, <2>5
<1>6. CASE Recv(p)
  <2>0. r = [q EXCEPT !.item = Head(q.chan), !.chan = Tail(q.chan), !.async = "dispatch"]
    BY <1>6 DEF Recv, Step
  <2>a. /\ q.chan \in Seq(Nat) /\ q.chan # <<>>
        /\ Head(q.chan) \in Nat /\ Tail(q.chan) \in Seq(Nat)
    BY <1>6 DEF Recv, PairState
  <2>b. /\ Head(q.chan) = q.chan[1] /\ Len(q.chan) > 0
        /\ Len(Tail(q.chan)) = Len(q.chan) - 1
        /\ \A i \in 1 .. Len(Tail(q.chan)) : Tail(q.chan)[i] = q.chan[i + 1]
    BY <2>a
  <2>1. r \in PairState
    BY <2>0, <2>a DEF PairState
  <2>2. /\ r.slot = q.slot /\ r.stop = q.stop /\ r.live = q.live
        /\ r.blocking = q.blocking /\ r.async = "dispatch" /\ r.seen = q.seen
        /\ r.taken = q.taken /\ r.chan = Tail(q.chan) /\ r.item = Head(q.chan)
        /\ r.sent = q.sent
    BY <2>0 DEF PairState
  <2>c. /\ q.taken \in Nat /\ q.chan[1] <= q.taken
        /\ \A i \in 1 .. Len(Tail(q.chan)) : Tail(q.chan)[i] <= q.taken
    BY <2>a, <2>b DEF CountsOK, PairState
  <2>3. CountsOK(r)
    BY <2>a, <2>b, <2>c, <2>2, CapAssumption DEF CountsOK
  <2>4. TasksOK(r)
    BY <1>6, <2>2 DEF TasksOK, PairState, Recv
  <2>5. PairKept(q, r)
    BY <1>6, <2>2 DEF PairKept, TasksOK, Recv
  <2> QED BY <2>1, <2>3, <2>4, <2>5
<1>7. CASE ChannelClosed(p)
  <2>0. r = [q EXCEPT !.async = "leaving"]
    BY <1>7 DEF ChannelClosed, Step
  <2>1. r \in PairState
    BY <2>0 DEF PairState
  <2>2. /\ r.slot = q.slot /\ r.stop = q.stop /\ r.live = q.live
        /\ r.blocking = q.blocking /\ r.async = "leaving" /\ r.seen = q.seen
        /\ r.taken = q.taken /\ r.chan = q.chan /\ r.item = q.item
        /\ r.sent = q.sent
    BY <2>0 DEF PairState
  <2>3. CountsOK(r)
    BY <1>7, <2>2, CapAssumption DEF CountsOK, PairState, ChannelClosed
  <2>4. TasksOK(r)
    BY <1>7, <2>2 DEF TasksOK, PairState, ChannelClosed
  <2>5. PairKept(q, r)
    BY <1>7, <2>2 DEF PairKept, TasksOK, ChannelClosed
  <2> QED BY <2>1, <2>3, <2>4, <2>5
<1>8. CASE DispatchRefused(p)
  <2>0. PICK l \in {"leaving", "recv"} :
          /\ r = [q EXCEPT !.sent = q.item, !.item = 0, !.async = l]
          /\ l = "leaving" => q.stop
    BY <1>8 DEF DispatchRefused, Step
  <2>a. [q EXCEPT !.sent = q.item] \in PairState
    BY DEF PairState
  <2>b. [q EXCEPT !.sent = q.item, !.item = 0] \in PairState
    BY <2>a DEF PairState
  <2>1. r \in PairState
    BY <2>0, <2>b DEF PairState
  <2>2. /\ r.slot = q.slot /\ r.stop = q.stop /\ r.live = q.live
        /\ r.blocking = q.blocking /\ r.async = l /\ r.seen = q.seen
        /\ r.taken = q.taken /\ r.chan = q.chan /\ r.item = 0
        /\ r.sent = q.item
    BY <2>0 DEF PairState
  <2>3. CountsOK(r)
    BY <1>8, <2>2, CapAssumption DEF CountsOK, PairState, DispatchRefused
  <2>4. TasksOK(r)
    BY <1>8, <2>0, <2>2 DEF TasksOK, PairState, DispatchRefused
  <2>5. PairKept(q, r)
    BY <1>8, <2>2 DEF PairKept, TasksOK, DispatchRefused
  <2> QED BY <2>1, <2>3, <2>4, <2>5
<1>9. CASE Dispatch(p)
  <2>0. r = [q EXCEPT !.sent = q.item, !.item = 0, !.async = "building"]
    BY <1>9 DEF Dispatch, Step
  <2>a. [q EXCEPT !.sent = q.item] \in PairState
    BY DEF PairState
  <2>b. [q EXCEPT !.sent = q.item, !.item = 0] \in PairState
    BY <2>a DEF PairState
  <2>1. r \in PairState
    BY <2>0, <2>b DEF PairState
  <2>2. /\ r.slot = q.slot /\ r.stop = q.stop /\ r.live = q.live
        /\ r.blocking = q.blocking /\ r.async = "building" /\ r.seen = q.seen
        /\ r.taken = q.taken /\ r.chan = q.chan /\ r.item = 0
        /\ r.sent = q.item
    BY <2>0 DEF PairState
  <2>3. CountsOK(r)
    BY <1>9, <2>2, CapAssumption DEF CountsOK, PairState, Dispatch
  <2>4. TasksOK(r)
    BY <1>9, <2>2 DEF TasksOK, PairState, Dispatch
  <2>5. PairKept(q, r)
    BY <1>9, <2>2 DEF PairKept, TasksOK, Dispatch
  <2> QED BY <2>1, <2>3, <2>4, <2>5
<1>10. CASE DispatchReturns(p)
  <2>0. PICK l \in {"leaving", "recv"} :
          r = [q EXCEPT !.async = l] /\ (l = "leaving" => q.stop)
    BY <1>10 DEF DispatchReturns, Step
  <2>1. r \in PairState
    BY <2>0 DEF PairState
  <2>2. /\ r.slot = q.slot /\ r.stop = q.stop /\ r.live = q.live
        /\ r.blocking = q.blocking /\ r.async = l /\ r.seen = q.seen
        /\ r.taken = q.taken /\ r.chan = q.chan /\ r.item = q.item
        /\ r.sent = q.sent
    BY <2>0 DEF PairState
  <2>3. CountsOK(r)
    BY <1>10, <2>2, CapAssumption DEF CountsOK, PairState, DispatchReturns
  <2>4. TasksOK(r)
    BY <1>10, <2>0, <2>2 DEF TasksOK, PairState, DispatchReturns
  <2>5. PairKept(q, r)
    BY <1>10, <2>2 DEF PairKept, TasksOK, DispatchReturns
  <2> QED BY <2>1, <2>3, <2>4, <2>5
<1>11. CASE Leave(p)
  <2>0. r = [q EXCEPT !.live = FALSE, !.chan = <<>>, !.async = "reap"]
    BY <1>11 DEF Leave, Step
  <2>a. <<>> \in Seq(Nat)
    OBVIOUS
  <2>1. r \in PairState
    BY <2>0, <2>a DEF PairState
  <2>2. /\ r.slot = q.slot /\ r.stop = q.stop /\ r.live = FALSE
        /\ r.blocking = q.blocking /\ r.async = "reap" /\ r.seen = q.seen
        /\ r.taken = q.taken /\ r.chan = <<>> /\ r.item = q.item
        /\ r.sent = q.sent
    BY <2>0 DEF PairState
  <2>3. CountsOK(r)
    BY <1>11, <2>2, CapAssumption DEF CountsOK, PairState, Leave
  <2>4. TasksOK(r)
    BY <1>11, <2>2 DEF TasksOK, PairState, Leave
  <2>5. PairKept(q, r)
    BY <1>11, <2>2 DEF PairKept, TasksOK, Leave
  <2> QED BY <2>1, <2>3, <2>4, <2>5
<1> QED
  BY <1>1, <1>2, <1>3, <1>4, <1>5, <1>6, <1>7, <1>8, <1>9, <1>10, <1>11 DEF TaskStep

(***************************************************************************)
(* What each step does to the pairs, as far as the rest of the invariant   *)
(* looks at them.                                                          *)
(***************************************************************************)
SameTasks(p) ==
  /\ pair'[p].slot = pair[p].slot
  /\ pair'[p].async = pair[p].async
  /\ pair'[p].blocking = pair[p].blocking

\* The pairs in P are stopped.
Stops(P) ==
  /\ pair' \in [Pair -> PairState]
  /\ \A p \in Pair :
       /\ SameTasks(p)
       /\ pair'[p].seen = pair[p].seen
       /\ pair'[p].stop <=> pair[p].stop \/ p \in P
  /\ PairsAgree'

\* Setting signals does nothing else.
LEMMA StopEffect ==
  ASSUME TypeOK, PairsAgree, NEW P, pair' = Stopped(P)
  PROVE  Stops(P)
<1> USE StoppedState DEF TypeOK
<1>1. \A p \in Pair : SameTasks(p) /\ pair'[p].seen = pair[p].seen
  BY DEF SameTasks
<1>2. \A p \in Pair : CountsOK(pair'[p])
  BY DEF PairsAgree, CountsOK
<1>3. \A p \in Pair : TasksOK(pair'[p])
  BY DEF PairsAgree, TasksOK
<1> QED BY <1>1, <1>2, <1>3 DEF PairsAgree, Stops

\* An edit moves only what the watching pairs have seen.
LEMMA EditEffect ==
  ASSUME TypeOK, PairsAgree, Edit
  PROVE  /\ pair' \in [Pair -> PairState]
         /\ \A p \in Pair :
              /\ SameTasks(p)
              /\ pair'[p].seen <= edits'
              /\ pair'[p].stop = pair[p].stop
         /\ PairsAgree'
<1> DEFINE S(p) == [pair[p] EXCEPT !.seen = edits']
<1>1. edits \in Nat /\ edits' \in Nat /\ edits' = edits + 1
  BY EditAssumption DEF Edit, TypeOK
<1>2. ASSUME NEW p \in Pair
      PROVE  /\ S(p) \in PairState
             /\ S(p).slot = pair[p].slot /\ S(p).async = pair[p].async
             /\ S(p).blocking = pair[p].blocking /\ S(p).stop = pair[p].stop
             /\ S(p).live = pair[p].live /\ S(p).seen = edits'
             /\ S(p).taken = pair[p].taken /\ S(p).chan = pair[p].chan
             /\ S(p).item = pair[p].item /\ S(p).sent = pair[p].sent
  <2>1. pair[p] \in PairState
    BY DEF TypeOK
  <2> QED BY <1>1, <2>1 DEF PairState
<1> HIDE DEF S
<1>3. \A p \in Pair : pair'[p] = pair[p] \/ pair'[p] = S(p)
  BY DEF Edit, S
<1>4. pair' \in [Pair -> PairState]
  BY <1>2 DEF Edit, S, TypeOK
<1>5. \A p \in Pair : pair[p].seen \in Nat /\ pair[p].seen <= edits /\ pair[p].taken \in Nat
  BY DEF TypeOK, PairState
<1>6. \A p \in Pair : SameTasks(p) /\ pair'[p].seen <= edits' /\ pair'[p].stop = pair[p].stop
  BY <1>1, <1>2, <1>3, <1>5 DEF SameTasks
<1>7. \A p \in Pair : CountsOK(pair'[p])
  BY <1>1, <1>2, <1>3, <1>5 DEF PairsAgree, CountsOK
<1>8. \A p \in Pair : TasksOK(pair'[p])
  BY <1>2, <1>3 DEF PairsAgree, TasksOK
<1> QED BY <1>4, <1>6, <1>7, <1>8 DEF PairsAgree

\* A step of a pair's tasks; the other pairs stay as they are.
LEMMA TaskEffect ==
  ASSUME TypeOK, PairsAgree, NEW p \in Pair, TaskStep(p)
  PROVE  /\ pair' \in [Pair -> PairState]
         /\ PairKept(pair[p], pair'[p])
         /\ \A q \in Pair : q # p => pair'[q] = pair[q]
         /\ PairsAgree'
         /\ UNCHANGED <<slots, signal, entry, next, control, edits, watched>>
<1>1. /\ pair'[p] \in PairState /\ CountsOK(pair'[p]) /\ TasksOK(pair'[p])
      /\ PairKept(pair[p], pair'[p])
  BY TaskStepPair DEF TypeOK, PairsAgree
<1>2. PICK q : Step(p, q)
  <2> USE DEF Collect, ObserveStop, Send, SendFails, Disconnect, Recv, ChannelClosed,
              DispatchRefused, Dispatch, DispatchReturns, Leave
  <2> QED BY Zenon DEF TaskStep
<1>3. pair' \in [Pair -> PairState] /\ \A r \in Pair : r # p => pair'[r] = pair[r]
  BY <1>1, <1>2 DEF TypeOK, Step
<1>4. PairsAgree'
  BY <1>1, <1>3 DEF PairsAgree
<1> QED BY <1>1, <1>2, <1>3, <1>4 DEF Step

\* A reap ends the pair's task.
LEMMA ReapEffect ==
  ASSUME TypeOK, PairsAgree, NEW p \in Pair, Reap(p)
  PROVE  /\ pair' \in [Pair -> PairState]
         /\ \A q \in Pair :
              /\ pair'[q].slot = pair[q].slot
              /\ pair'[q].blocking = pair[q].blocking
              /\ pair'[q].seen = pair[q].seen
              /\ pair'[q].stop = pair[q].stop
              /\ pair'[q].async = IF q = p THEN "gone" ELSE pair[q].async
         /\ PairsAgree'
<1> DEFINE r == [pair[p] EXCEPT !.async = "gone"]
<1>0. pair[p] \in PairState
  BY DEF TypeOK
<1>1. /\ r \in PairState
      /\ r.slot = pair[p].slot /\ r.async = "gone"
      /\ r.blocking = pair[p].blocking /\ r.stop = pair[p].stop
      /\ r.live = pair[p].live /\ r.seen = pair[p].seen
      /\ r.taken = pair[p].taken /\ r.chan = pair[p].chan
      /\ r.item = pair[p].item /\ r.sent = pair[p].sent
  BY <1>0 DEF PairState
<1>2. pair' = [pair EXCEPT ![p] = r]
  BY DEF Reap
<1> HIDE DEF r
<1>3. pair' \in [Pair -> PairState] /\ pair'[p] = r /\ \A q \in Pair : q # p => pair'[q] = pair[q]
  BY <1>1, <1>2 DEF TypeOK
<1>4. CountsOK(r)
  BY <1>1 DEF PairsAgree, CountsOK
<1>5. pair[p].async = "reap"
  BY DEF Reap
<1>6. TasksOK(r)
  BY <1>1, <1>5 DEF PairsAgree, TasksOK
<1> QED BY <1>1, <1>3, <1>4, <1>6 DEF PairsAgree

\* A watcher subscribes under a new generation.
Subscribed(c) ==
  /\ Call(c, "arm", call[c].slot, next)
  /\ \A q \in Pair : q # next => pair'[q] = pair[q]
  /\ pair'[next].slot = call[c].slot
  /\ ~pair'[next].stop
  /\ pair'[next].async = "off" /\ pair'[next].blocking = "new"
  /\ pair'[next].seen = edits

\* Subscribing fails, or makes the pair of the next generation.
LEMMA SubscribeEffect ==
  ASSUME TypeOK, PairsAgree, CallersAgree, NEW c \in Caller, Subscribe(c)
  PROVE  /\ next \in Pair
         /\ pair' \in [Pair -> PairState]
         /\ (Return(c) /\ pair' = pair) \/ Subscribed(c)
         /\ PairsAgree'
<1>1. next \in Pair /\ call[c].slot \in Slot /\ edits \in Nat
  BY PairAssumption, EditAssumption DEF Subscribe, TypeOK, CallersAgree, Pair
<1>2. CASE Return(c) /\ UNCHANGED pair
  BY <1>1, <1>2 DEF TypeOK, PairsAgree
<1> DEFINE r == [NoPair EXCEPT !.slot = call[c].slot, !.blocking = "new", !.seen = edits,
                               !.taken = edits, !.sent = edits]
<1>3. CASE pair' = [pair EXCEPT ![next] = r] /\ Call(c, "arm", call[c].slot, next)
  <2>1. /\ r.slot = call[c].slot /\ r.async = "off" /\ r.blocking = "new" /\ r.stop = FALSE
        /\ r.live = FALSE /\ r.seen = edits /\ r.taken = edits /\ r.sent = edits
        /\ r.chan = <<>> /\ r.item = 0
    BY DEF NoPair
  <2>2. [NoPair EXCEPT !.slot = call[c].slot, !.blocking = "new"] \in PairState
    BY <1>1, NoPairState DEF PairState
  <2>3. r \in PairState
    <3>1. \A q \in PairState : \A n \in Nat : [q EXCEPT !.seen = n] \in PairState
      BY DEF PairState
    <3>2. \A q \in PairState : \A n \in Nat : [q EXCEPT !.taken = n, !.sent = n] \in PairState
      BY DEF PairState
    <3> QED BY <1>1, <2>2, <3>1, <3>2
  <2> HIDE DEF r
  <2>4. pair' \in [Pair -> PairState] /\ pair'[next] = r
        /\ \A q \in Pair : q # next => pair'[q] = pair[q]
    BY <1>1, <1>3, <2>3 DEF TypeOK
  <2>5a. CountsOK(r)
    BY <1>1, <2>1, CapAssumption DEF CountsOK
  <2>5b. TasksOK(r)
    BY <2>1 DEF TasksOK
  <2>6. PairsAgree'
    BY <2>4, <2>5a, <2>5b DEF PairsAgree
  <2> QED BY <1>1, <1>3, <2>1, <2>4, <2>6 DEF Subscribed
<1> QED BY <1>2, <1>3 DEF Subscribe

\* A pair is refused on a tombstone, or armed: the object's old signal is set
\* either way.
Armed(c) ==
  /\ ~Tombstone(call[c].slot)
  /\ signal' = [signal EXCEPT ![call[c].slot] = call[c].pair]
  /\ watched' = watched \cup {call[c].slot}
  /\ Call(c, "insert", call[c].slot, call[c].pair)
  /\ pair'[call[c].pair].async = "recv" /\ pair'[call[c].pair].blocking = "wait"
  /\ pair'[call[c].pair].slot = pair[call[c].pair].slot

Refused(c) ==
  /\ Tombstone(call[c].slot)
  /\ signal' = signal
  /\ watched' = watched \ {call[c].slot}
  /\ Return(c)
  /\ pair'[call[c].pair].async = "off" /\ pair'[call[c].pair].blocking = "off"

\* What arming does to the pairs.
LEMMA ArmEffect ==
  ASSUME TypeOK, PairsAgree, CallersAgree, SignalsAreArmed, NEW c \in Caller, Arm(c)
  PROVE  /\ pair' \in [Pair -> PairState]
         /\ \A q \in Pair : pair'[q].seen <= edits
         /\ \A q \in Pair : q # call[c].pair =>
              /\ SameTasks(q)
              /\ pair'[q].stop <=> pair[q].stop \/ q = signal[call[c].slot]
         /\ ~pair'[call[c].pair].stop
         /\ Refused(c) \/ Armed(c)
         /\ PairsAgree'
<1> DEFINE s == call[c].slot
           p == call[c].pair
           T == Stopped({signal[s]})
<1>1. s \in Slot /\ p \in Pair /\ pair[p].async = "off" /\ ~pair[p].stop /\ edits \in Nat
  BY EditAssumption DEF Arm, CallersAgree, TypeOK
<1>2. signal[s] # p
  BY <1>1, PairAssumption DEF SignalsAreArmed, TypeOK, Pair, None
<1>3. /\ T \in [Pair -> PairState]
      /\ \A q \in Pair :
           /\ T[q].stop <=> pair[q].stop \/ q = signal[s]
           /\ T[q].slot = pair[q].slot /\ T[q].live = pair[q].live
           /\ T[q].blocking = pair[q].blocking /\ T[q].async = pair[q].async
           /\ T[q].seen = pair[q].seen /\ T[q].taken = pair[q].taken
           /\ T[q].chan = pair[q].chan /\ T[q].item = pair[q].item /\ T[q].sent = pair[q].sent
  BY StoppedState DEF TypeOK
<1> HIDE DEF T
<1>4. \A q \in Pair : CountsOK(T[q])
  BY <1>3 DEF PairsAgree, CountsOK
<1>5. \A q \in Pair : TasksOK(T[q])
  BY <1>3 DEF PairsAgree, TasksOK
<1>6. \A q \in Pair : T[q].seen <= edits
  BY <1>3 DEF TypeOK
<1>7. CASE Tombstone(s)
  <2>1. pair' = [T EXCEPT ![p] = NoPair]
    BY <1>7 DEF Arm, T
  <2>2. /\ NoPair.async = "off" /\ NoPair.blocking = "off" /\ NoPair.stop = FALSE
        /\ NoPair.seen = 0
    BY DEF NoPair
  <2>3. CountsOK(NoPair) /\ TasksOK(NoPair)
    BY CapAssumption DEF NoPair, CountsOK, TasksOK
  <2>4. /\ pair' \in [Pair -> PairState] /\ pair'[p] = NoPair
        /\ \A q \in Pair : q # p => pair'[q] = T[q]
    BY <1>1, <1>3, <2>1, NoPairState
  <2>5. PairsAgree'
    BY <1>4, <1>5, <2>3, <2>4 DEF PairsAgree
  <2>6. \A q \in Pair : q # p => SameTasks(q) /\ (pair'[q].stop <=> pair[q].stop \/ q = signal[s])
    BY <1>3, <2>4 DEF SameTasks
  <2>7. \A q \in Pair : pair'[q].seen <= edits
    BY <1>1, <1>6, <2>2, <2>4
  <2>8. Refused(c)
    BY <1>7, <2>2, <2>4 DEF Arm, Refused
  <2> QED BY <2>2, <2>4, <2>5, <2>6, <2>7, <2>8
<1>8. CASE ~Tombstone(s)
  <2> DEFINE r == [T[p] EXCEPT !.live = TRUE, !.blocking = "wait", !.async = "recv"]
  <2>1. pair' = [T EXCEPT ![p] = r]
    <3>1. pair' = [T EXCEPT ![p].live = TRUE, ![p].blocking = "wait", ![p].async = "recv"]
      BY <1>8 DEF Arm, T
    <3> QED BY <1>1, <1>3, <3>1
  <2>2. r \in PairState
    <3>1. T[p] \in PairState
      BY <1>1, <1>3
    <3>2. [T[p] EXCEPT !.live = TRUE] \in PairState
      BY <3>1 DEF PairState
    <3> QED BY <3>2 DEF PairState
  <2>3. /\ r.slot = T[p].slot /\ r.async = "recv" /\ r.blocking = "wait" /\ r.stop = T[p].stop
        /\ r.live = TRUE /\ r.seen = T[p].seen /\ r.taken = T[p].taken
        /\ r.sent = T[p].sent /\ r.chan = T[p].chan /\ r.item = T[p].item
    BY <1>1, <1>3 DEF PairState
  <2> HIDE DEF r
  <2>4. /\ pair' \in [Pair -> PairState] /\ pair'[p] = r
        /\ \A q \in Pair : q # p => pair'[q] = T[q]
    BY <1>1, <1>3, <2>1, <2>2
  <2>5. CountsOK(r)
    BY <1>1, <1>4, <2>3 DEF CountsOK
  <2>6. TasksOK(r)
    BY <2>3 DEF TasksOK
  <2>7. PairsAgree'
    BY <1>4, <1>5, <2>4, <2>5, <2>6 DEF PairsAgree
  <2>8. \A q \in Pair : q # p => SameTasks(q) /\ (pair'[q].stop <=> pair[q].stop \/ q = signal[s])
    BY <1>3, <2>4 DEF SameTasks
  <2>9. \A q \in Pair : pair'[q].seen <= edits
    BY <1>1, <1>6, <2>3, <2>4
  <2>10. ~pair'[p].stop
    BY <1>1, <1>2, <1>3, <2>3, <2>4
  <2>11. Armed(c)
    <3>1. /\ signal' = [signal EXCEPT ![s] = p] /\ watched' = watched \cup {s}
          /\ Call(c, "insert", s, p)
      BY <1>8 DEF Arm
    <3>2. /\ pair'[p].async = "recv" /\ pair'[p].blocking = "wait"
          /\ pair'[p].slot = pair[p].slot
      BY <1>1, <1>3, <2>3, <2>4
    <3> QED BY <1>8, <3>1, <3>2 DEF Armed
  <2> QED BY <2>4, <2>7, <2>8, <2>9, <2>10, <2>11
<1> QED BY <1>7, <1>8

\* The types that the rest of the invariant needs.
Domains ==
  /\ phase \in [Slot -> {"unused", "Loading", "Resident", "Tombstone", "PutBack", "Removed"}]
  /\ workspaces \subseteq Slot
  /\ signal \in [Slot -> Pair \cup {None}]
  /\ entry \in Pair \cup {None}
  /\ call \in [Caller -> [at : {"idle", "found", "arm", "insert"},
                          slot : Slot \cup {None}, pair : Pair \cup {None}]]
  /\ shutdown \in {"up", "flagged", "collected", "stopped", "done"}
  /\ watched \subseteq Slot
  /\ None \notin Pair

LEMMA TypesGiveDomains == TypeOK => Domains
BY PairAssumption DEF TypeOK, Domains, Pair, None

(***************************************************************************)
(* Every step keeps the invariant: a lemma per action, a step per conjunct.*)
(***************************************************************************)

\* A new object was never watched, so nothing it replaces serves it.
LEMMA LoadBeginsKeeps ==
  ASSUME WatcherInv, LoadBegins
  PROVE  WatcherInv'
<1>1. Domains
  BY TypesGiveDomains DEF WatcherInv
<1>2. TypeOK'
  <2>1. /\ phase \in [Slot -> {"unused", "Loading", "Resident", "Tombstone", "PutBack", "Removed"}]
        /\ prior \in [Slot -> {"Resident", "PutBack", "Removed"}] /\ workspaces \subseteq Slot
    BY DEF WatcherInv, TypeOK
  <2>2. PICK s \in Slot, back \in {"Resident", "PutBack", "Removed"} :
          /\ phase' = [phase EXCEPT ![s] = "Loading"] /\ prior' = [prior EXCEPT ![s] = back]
          /\ workspaces' \in {workspaces, {s}}
    BY <2>1 DEF LoadBegins
  <2>3. /\ phase' \in [Slot -> {"unused", "Loading", "Resident", "Tombstone", "PutBack", "Removed"}]
        /\ prior' \in [Slot -> {"Resident", "PutBack", "Removed"}] /\ workspaces' \subseteq Slot
    BY <2>1, <2>2
  <2>4. UNCHANGED <<signal, entry, pair, next, call, shutdown, collected, edits, watched>>
    BY DEF LoadBegins, control
  <2> QED BY <2>3, <2>4 DEF WatcherInv, TypeOK
<1>3. PairsAgree'
  BY DEF WatcherInv, TypeOK, PairsAgree, LoadBegins, Tombstone, slots, control
<1>4. FreshPairs'
  BY <1>1 DEF WatcherInv, Domains, FreshPairs, LoadBegins, Tombstone, slots, control
<1>5. OneObject'
  BY <1>1 DEF WatcherInv, Domains, OneObject, LoadBegins, Tombstone, slots, control
<1>6. SignalsAreArmed'
  BY <1>1
     DEF WatcherInv, Domains, SignalsAreArmed, Running, LoadBegins, Tombstone, slots, control
<1>7. CallersAgree'
  BY <1>1
     DEF WatcherInv, Domains, CallersAgree, Running, SignalsAreArmed, SignalIsHeld, OneObject,
         LoadBegins, Tombstone, slots, control
<1>8. Registered'
  BY <1>1
     DEF WatcherInv, Domains, Registered, Running, Inserting, LoadBegins, Tombstone, slots,
         control
<1>9. SignalIsHeld'
  BY <1>1 DEF WatcherInv, Domains, SignalIsHeld, Running, LoadBegins, Tombstone, slots, control
<1>10. WatchedIsArmed'
  BY <1>1
     DEF WatcherInv, Domains, WatchedIsArmed, OneObject, LoadBegins, Tombstone, slots, control
<1>11. ShutdownReaches'
  BY <1>1
     DEF WatcherInv, Domains, ShutdownReaches, ShutdownStopsAll, MapFree, Running, LoadBegins,
         Tombstone, slots, control
<1> QED BY <1>2, <1>3, <1>4, <1>5, <1>6, <1>7, <1>8, <1>9, <1>10, <1>11 DEF WatcherInv

\* Publishing and abandoning a load move an object that stays, or leaves the
\* key for good.
LEMMA LoadPublishesKeeps ==
  ASSUME WatcherInv, NEW s \in Slot, LoadPublishes(s)
  PROVE  WatcherInv'
<1>1. Domains
  BY TypesGiveDomains DEF WatcherInv
<1>2. TypeOK'
  BY PairAssumption, EditAssumption DEF WatcherInv, TypeOK, LoadPublishes, slots, control
<1>3. PairsAgree'
  BY DEF WatcherInv, TypeOK, PairsAgree, LoadPublishes, slots, control
<1>4. FreshPairs'
  BY <1>1 DEF WatcherInv, Domains, FreshPairs, LoadPublishes, slots, control
<1>5. OneObject'
  BY <1>1 DEF WatcherInv, Domains, OneObject, LoadPublishes, slots, control
<1>6. SignalsAreArmed'
  BY <1>1 DEF WatcherInv, Domains, SignalsAreArmed, Running, LoadPublishes, slots, control
<1>7. CallersAgree'
  BY <1>1 DEF WatcherInv, Domains, CallersAgree, Running, LoadPublishes, slots, control
<1>8. Registered'
  BY <1>1 DEF WatcherInv, Domains, Registered, Running, Inserting, LoadPublishes, slots, control
<1>9. SignalIsHeld'
  BY <1>1 DEF WatcherInv, Domains, SignalIsHeld, Running, LoadPublishes, slots, control
<1>10. WatchedIsArmed'
  BY <1>1 DEF WatcherInv, Domains, WatchedIsArmed, LoadPublishes, slots, control
<1>11. ShutdownReaches'
  BY <1>1
     DEF WatcherInv, Domains, ShutdownReaches, ShutdownStopsAll, MapFree, Running,
         LoadPublishes, slots, control
<1> QED BY <1>2, <1>3, <1>4, <1>5, <1>6, <1>7, <1>8, <1>9, <1>10, <1>11 DEF WatcherInv

\* An abandoned load stops nobody: what it puts back is no writer's tombstone.
LEMMA LoadAbandonedKeeps ==
  ASSUME WatcherInv, NEW s \in Slot, LoadAbandoned(s)
  PROVE  WatcherInv'
<1>1. Domains /\ prior[s] \in {"Resident", "PutBack", "Removed"}
  BY TypesGiveDomains DEF WatcherInv, TypeOK
<1>2. TypeOK'
  BY PairAssumption, EditAssumption DEF WatcherInv, TypeOK, LoadAbandoned, slots, control
<1>3. PairsAgree'
  BY DEF WatcherInv, TypeOK, PairsAgree, LoadAbandoned, slots, control
<1>4. FreshPairs'
  BY <1>1 DEF WatcherInv, Domains, FreshPairs, LoadAbandoned, slots, control
<1>5. OneObject'
  BY <1>1 DEF WatcherInv, Domains, OneObject, LoadAbandoned, slots, control
<1>6. SignalsAreArmed'
  BY <1>1 DEF WatcherInv, Domains, SignalsAreArmed, Running, LoadAbandoned, slots, control
<1>7. CallersAgree'
  BY <1>1 DEF WatcherInv, Domains, CallersAgree, Running, LoadAbandoned, slots, control
<1>8. Registered'
  BY <1>1 DEF WatcherInv, Domains, Registered, Running, Inserting, LoadAbandoned, slots, control
<1>9. SignalIsHeld'
  BY <1>1 DEF WatcherInv, Domains, SignalIsHeld, Running, LoadAbandoned, slots, control
<1>10. WatchedIsArmed'
  BY <1>1 DEF WatcherInv, Domains, WatchedIsArmed, LoadAbandoned, slots, control
<1>11. ShutdownReaches'
  BY <1>1
     DEF WatcherInv, Domains, ShutdownReaches, ShutdownStopsAll, MapFree, Running,
         LoadAbandoned, slots, control
<1> QED BY <1>2, <1>3, <1>4, <1>5, <1>6, <1>7, <1>8, <1>9, <1>10, <1>11 DEF WatcherInv

\* Nor does a rebuild that enters from Unloaded or goes back to it.
LEMMA RebuildMovesKeeps ==
  ASSUME WatcherInv, NEW s \in Slot, RebuildMoves(s)
  PROVE  WatcherInv'
<1>1. Domains
  BY TypesGiveDomains DEF WatcherInv
<1>2. TypeOK'
  BY PairAssumption, EditAssumption DEF WatcherInv, TypeOK, RebuildMoves, slots, control
<1>3. PairsAgree'
  BY DEF WatcherInv, TypeOK, PairsAgree, RebuildMoves, slots, control
<1>4. FreshPairs'
  BY <1>1 DEF WatcherInv, Domains, FreshPairs, RebuildMoves, slots, control
<1>5. OneObject'
  BY <1>1 DEF WatcherInv, Domains, OneObject, RebuildMoves, slots, control
<1>6. SignalsAreArmed'
  BY <1>1 DEF WatcherInv, Domains, SignalsAreArmed, Running, RebuildMoves, slots, control
<1>7. CallersAgree'
  BY <1>1 DEF WatcherInv, Domains, CallersAgree, Running, RebuildMoves, slots, control
<1>8. Registered'
  BY <1>1 DEF WatcherInv, Domains, Registered, Running, Inserting, RebuildMoves, slots, control
<1>9. SignalIsHeld'
  BY <1>1 DEF WatcherInv, Domains, SignalIsHeld, Running, RebuildMoves, slots, control
<1>10. WatchedIsArmed'
  BY <1>1 DEF WatcherInv, Domains, WatchedIsArmed, RebuildMoves, slots, control
<1>11. ShutdownReaches'
  BY <1>1
     DEF WatcherInv, Domains, ShutdownReaches, ShutdownStopsAll, MapFree, Running,
         RebuildMoves, slots, control
<1> QED BY <1>2, <1>3, <1>4, <1>5, <1>6, <1>7, <1>8, <1>9, <1>10, <1>11 DEF WatcherInv

\* The signal and the tombstone are stored in one step.
LEMMA EvictKeeps ==
  ASSUME WatcherInv, NEW s \in Slot, Evict(s)
  PROVE  WatcherInv'
<1>1. Stops({signal[s]})
  BY StopEffect DEF WatcherInv, Evict, StopAndStore
<1>2. \A p \in Pair : SameTasks(p)
  BY <1>1 DEF Stops
<1>3. \A p \in Pair : pair'[p].stop <=> pair[p].stop \/ p = signal[s]
  BY <1>1 DEF Stops
<1>4. Domains
  BY TypesGiveDomains DEF WatcherInv
<1>5. /\ s \in workspaces
      /\ phase' = [phase EXCEPT ![s] = "Tombstone"]
      /\ watched' = watched \ {s}
      /\ UNCHANGED <<prior, workspaces, signal, entry, next, call, shutdown, collected, edits>>
  BY DEF Evict, StopAndStore, slots, control
<1>6. TypeOK'
  BY <1>1, PairAssumption, EditAssumption
     DEF WatcherInv, TypeOK, Evict, StopAndStore, slots, control, Stops, SameTasks, PairsAgree,
         CountsOK
<1>7. PairsAgree'
  BY <1>1
     DEF WatcherInv, TypeOK, PairsAgree, Evict, StopAndStore, slots, control, Stops, SameTasks
<1>8. FreshPairs'
  BY <1>2, <1>3, <1>4, <1>5 DEF WatcherInv, Domains, FreshPairs, SameTasks
<1>9. OneObject'
  BY <1>2, <1>3, <1>4, <1>5 DEF WatcherInv, Domains, OneObject, SameTasks
<1>10. SignalsAreArmed'
  BY <1>2, <1>3, <1>4, <1>5 DEF WatcherInv, Domains, SignalsAreArmed, Running, SameTasks
<1>11. CallersAgree'
  BY <1>2, <1>3, <1>4, <1>5
     DEF WatcherInv, Domains, CallersAgree, Running, SignalsAreArmed, SameTasks
<1>12. Registered'
  BY <1>2, <1>3, <1>4, <1>5 DEF WatcherInv, Domains, Registered, Running, Inserting, SameTasks
<1>13. SignalIsHeld'
  BY <1>2, <1>3, <1>4, <1>5 DEF WatcherInv, Domains, SignalIsHeld, Running, SameTasks
<1>14. WatchedIsArmed'
  BY <1>2, <1>3, <1>4, <1>5 DEF WatcherInv, Domains, WatchedIsArmed, OneObject, SameTasks
<1>15. ShutdownReaches'
  BY <1>2, <1>3, <1>4, <1>5
     DEF WatcherInv, Domains, ShutdownReaches, ShutdownStopsAll, MapFree, Running, SameTasks
<1> QED BY <1>6, <1>7, <1>8, <1>9, <1>10, <1>11, <1>12, <1>13, <1>14, <1>15 DEF WatcherInv

\* As an eviction, and the key has no object any more.
LEMMA UnloadKeeps ==
  ASSUME WatcherInv, NEW s \in Slot, Unload(s)
  PROVE  WatcherInv'
<1>1. Stops({signal[s]})
  BY StopEffect DEF WatcherInv, Unload, StopAndStore
<1>2. \A p \in Pair : SameTasks(p)
  BY <1>1 DEF Stops
<1>3. \A p \in Pair : pair'[p].stop <=> pair[p].stop \/ p = signal[s]
  BY <1>1 DEF Stops
<1>4. Domains
  BY TypesGiveDomains DEF WatcherInv
<1>5. /\ s \in workspaces
      /\ phase' = [phase EXCEPT ![s] = "Tombstone"]
      /\ watched' = watched \ {s} /\ workspaces' = {}
      /\ UNCHANGED <<prior, signal, entry, next, call, shutdown, collected, edits>>
  BY DEF Unload, StopAndStore, slots, control
<1>6. TypeOK'
  BY <1>1, PairAssumption, EditAssumption
     DEF WatcherInv, TypeOK, Unload, StopAndStore, slots, control, Stops, SameTasks, PairsAgree,
         CountsOK
<1>7. PairsAgree'
  BY <1>1
     DEF WatcherInv, TypeOK, PairsAgree, Unload, StopAndStore, slots, control, Stops, SameTasks
<1>8. FreshPairs'
  BY <1>2, <1>3, <1>4, <1>5 DEF WatcherInv, Domains, FreshPairs, SameTasks
<1>9. OneObject'
  BY <1>2, <1>3, <1>4, <1>5 DEF WatcherInv, Domains, OneObject, SameTasks
<1>10. SignalsAreArmed'
  BY <1>2, <1>3, <1>4, <1>5 DEF WatcherInv, Domains, SignalsAreArmed, Running, SameTasks
<1>11. CallersAgree'
  BY <1>2, <1>3, <1>4, <1>5
     DEF WatcherInv, Domains, CallersAgree, Running, SignalsAreArmed, SameTasks
<1>12. Registered'
  BY <1>2, <1>3, <1>4, <1>5 DEF WatcherInv, Domains, Registered, Running, Inserting, SameTasks
<1>13. SignalIsHeld'
  BY <1>2, <1>3, <1>4, <1>5 DEF WatcherInv, Domains, SignalIsHeld, Running, SameTasks
<1>14. WatchedIsArmed'
  BY <1>2, <1>3, <1>4, <1>5 DEF WatcherInv, Domains, WatchedIsArmed, SameTasks
<1>15. ShutdownReaches'
  BY <1>2, <1>3, <1>4, <1>5
     DEF WatcherInv, Domains, ShutdownReaches, ShutdownStopsAll, MapFree, Running, SameTasks
<1> QED BY <1>6, <1>7, <1>8, <1>9, <1>10, <1>11, <1>12, <1>13, <1>14, <1>15 DEF WatcherInv

\* The steps of a caller.  An object found was registered.
LEMMA LookupKeeps ==
  ASSUME WatcherInv, NEW c \in Caller, Lookup(c)
  PROVE  WatcherInv'
<1>1. Domains
  BY TypesGiveDomains DEF WatcherInv
<1>2. TypeOK'
  BY PairAssumption, EditAssumption DEF WatcherInv, TypeOK, Lookup, Call, slots, control
<1>3. PairsAgree'
  BY DEF WatcherInv, TypeOK, PairsAgree, Lookup, Call, slots, control
<1>4. FreshPairs'
  BY <1>1 DEF WatcherInv, Domains, FreshPairs, Lookup, Call, slots, control
<1>5. OneObject'
  BY <1>1 DEF WatcherInv, Domains, OneObject, Lookup, Call, slots, control
<1>6. SignalsAreArmed'
  BY <1>1 DEF WatcherInv, Domains, SignalsAreArmed, Running, Lookup, Call, slots, control
<1>7. CallersAgree'
  BY <1>1
     DEF WatcherInv, Domains, CallersAgree, Running, OneObject, Lookup, Call, slots, control
<1>8. Registered'
  BY <1>1 DEF WatcherInv, Domains, Registered, Running, Inserting, Lookup, Call, slots, control
<1>9. SignalIsHeld'
  BY <1>1 DEF WatcherInv, Domains, SignalIsHeld, Running, Lookup, Call, slots, control
<1>10. WatchedIsArmed'
  BY <1>1 DEF WatcherInv, Domains, WatchedIsArmed, Lookup, Call, slots, control
<1>11. ShutdownReaches'
  BY <1>1
     DEF WatcherInv, Domains, ShutdownReaches, ShutdownStopsAll, MapFree, Running, Lookup, Call,
         slots, control
<1> QED BY <1>2, <1>3, <1>4, <1>5, <1>6, <1>7, <1>8, <1>9, <1>10, <1>11 DEF WatcherInv

\* A refused caller leaves the map as it was.
LEMMA RefuseKeeps ==
  ASSUME WatcherInv, NEW c \in Caller, Refuse(c)
  PROVE  WatcherInv'
<1>1. Domains
  BY TypesGiveDomains DEF WatcherInv
<1>2. TypeOK'
  BY PairAssumption, EditAssumption DEF WatcherInv, TypeOK, Refuse, Return, Call, slots, control
<1>3. PairsAgree'
  BY DEF WatcherInv, TypeOK, PairsAgree, Refuse, Return, Call, slots, control
<1>4. FreshPairs'
  BY <1>1 DEF WatcherInv, Domains, FreshPairs, Refuse, Return, Call, slots, control
<1>5. OneObject'
  BY <1>1 DEF WatcherInv, Domains, OneObject, Refuse, Return, Call, slots, control
<1>6. SignalsAreArmed'
  BY <1>1
     DEF WatcherInv, Domains, SignalsAreArmed, Running, Refuse, Return, Call, slots, control
<1>7. CallersAgree'
  BY <1>1 DEF WatcherInv, Domains, CallersAgree, Running, Refuse, Return, Call, slots, control
<1>8. Registered'
  BY <1>1
     DEF WatcherInv, Domains, Registered, Running, Inserting, Refuse, Return, Call, slots,
         control
<1>9. SignalIsHeld'
  BY <1>1 DEF WatcherInv, Domains, SignalIsHeld, Running, Refuse, Return, Call, slots, control
<1>10. WatchedIsArmed'
  BY <1>1 DEF WatcherInv, Domains, WatchedIsArmed, Refuse, Return, Call, slots, control
<1>11. ShutdownReaches'
  BY <1>1
     DEF WatcherInv, Domains, ShutdownReaches, ShutdownStopsAll, MapFree, Running, Refuse,
         Return, Call, slots, control
<1> QED BY <1>2, <1>3, <1>4, <1>5, <1>6, <1>7, <1>8, <1>9, <1>10, <1>11 DEF WatcherInv

\* A pair is kept only if it is live, clear and this object's.
LEMMA KeepKeeps ==
  ASSUME WatcherInv, NEW c \in Caller, Keep(c)
  PROVE  WatcherInv'
<1>1. Domains
  BY TypesGiveDomains DEF WatcherInv
<1>2. TypeOK'
  BY PairAssumption, EditAssumption
     DEF WatcherInv, TypeOK, Keep, Return, Call, Keeps, IsWatching, ShuttingDown, MapFree,
         slots, control, CallersAgree
<1>3. PairsAgree'
  BY DEF WatcherInv, TypeOK, PairsAgree, Keep, Return, Call, Keeps, IsWatching, ShuttingDown,
         MapFree, slots, control
<1>4. FreshPairs'
  BY <1>1
     DEF WatcherInv, Domains, FreshPairs, Keep, Return, Call, Keeps, IsWatching, ShuttingDown,
         MapFree, slots, control
<1>5. OneObject'
  BY <1>1
     DEF WatcherInv, Domains, OneObject, Keep, Return, Call, Keeps, IsWatching, ShuttingDown,
         MapFree, slots, control
<1>6. SignalsAreArmed'
  BY <1>1
     DEF WatcherInv, Domains, SignalsAreArmed, Running, Keep, Return, Call, Keeps, IsWatching,
         ShuttingDown, MapFree, slots, control
<1>7. CallersAgree'
  BY <1>1
     DEF WatcherInv, Domains, CallersAgree, Running, Keep, Return, Call, Keeps, IsWatching,
         ShuttingDown, MapFree, slots, control
<1>8. Registered'
  BY <1>1
     DEF WatcherInv, Domains, Registered, Running, Inserting, Keep, Return, Call, Keeps,
         IsWatching, ShuttingDown, MapFree, slots, control
<1>9. SignalIsHeld'
  BY <1>1
     DEF WatcherInv, Domains, SignalIsHeld, Running, Keep, Return, Call, Keeps, IsWatching,
         ShuttingDown, MapFree, slots, control
<1>10. WatchedIsArmed'
  BY <1>1
     DEF WatcherInv, Domains, WatchedIsArmed, Keep, Return, Call, Keeps, IsWatching,
         ShuttingDown, MapFree, slots, control
<1>11. ShutdownReaches'
  BY <1>1
     DEF WatcherInv, Domains, ShutdownReaches, ShutdownStopsAll, MapFree, Running, Keep, Return,
         Call, Keeps, IsWatching, ShuttingDown, slots, control
<1> QED BY <1>2, <1>3, <1>4, <1>5, <1>6, <1>7, <1>8, <1>9, <1>10, <1>11 DEF WatcherInv

\* The pair replaced serves an object that is no longer the key's, so no watched
\* object loses its pair.
LEMMA InsertKeeps ==
  ASSUME WatcherInv, NEW c \in Caller, Insert(c)
  PROVE  WatcherInv'
<1>1. Stops({entry})
  BY StopEffect DEF WatcherInv, Insert
<1>2. \A p \in Pair : SameTasks(p)
  BY <1>1 DEF Stops
<1>3. \A p \in Pair : pair'[p].stop <=> pair[p].stop \/ p = entry
  BY <1>1 DEF Stops
<1>4. Domains
  BY TypesGiveDomains DEF WatcherInv
<1>5. /\ call[c].at = "insert"
      /\ call' = [call EXCEPT ![c] = [at |-> "idle", slot |-> None, pair |-> None]]
      /\ entry' = call[c].pair
      /\ UNCHANGED <<phase, prior, workspaces, signal, next, shutdown, collected, edits, watched>>
  BY DEF Insert, Return, Call, slots, control
<1>6. TypeOK'
  BY <1>1, PairAssumption, EditAssumption
     DEF WatcherInv, TypeOK, Insert, Return, Call, slots, control, Stops, SameTasks, PairsAgree,
         CountsOK
<1>7. PairsAgree'
  BY <1>1
     DEF WatcherInv, TypeOK, PairsAgree, Insert, Return, Call, slots, control, Stops, SameTasks
<1>8. FreshPairs'
  BY <1>2, <1>3, <1>4, <1>5 DEF WatcherInv, Domains, FreshPairs, SameTasks
<1>9. OneObject'
  BY <1>2, <1>3, <1>4, <1>5 DEF WatcherInv, Domains, OneObject, SameTasks
<1>10. SignalsAreArmed'
  BY <1>2, <1>3, <1>4, <1>5
     DEF WatcherInv, Domains, SignalsAreArmed, Running, CallersAgree, SameTasks
<1>11. CallersAgree'
  BY <1>2, <1>3, <1>4, <1>5 DEF WatcherInv, Domains, CallersAgree, Running, SameTasks
<1>12. Registered'
  BY <1>2, <1>3, <1>4, <1>5 DEF WatcherInv, Domains, Registered, Running, Inserting, SameTasks
<1>13. SignalIsHeld'
  BY <1>2, <1>3, <1>4, <1>5 DEF WatcherInv, Domains, SignalIsHeld, Running, SameTasks
<1>14. WatchedIsArmed'
  BY <1>2, <1>3, <1>4, <1>5
     DEF WatcherInv, Domains, WatchedIsArmed, CallersAgree, SignalsAreArmed, SameTasks
<1>15. ShutdownReaches'
  BY <1>2, <1>3, <1>4, <1>5
     DEF WatcherInv, Domains, ShutdownReaches, ShutdownStopsAll, MapFree, Running, SameTasks
<1> QED BY <1>6, <1>7, <1>8, <1>9, <1>10, <1>11, <1>12, <1>13, <1>14, <1>15 DEF WatcherInv

\* The steps of a pair's tasks change neither signals nor the map.
LEMMA TaskStepKeeps ==
  ASSUME WatcherInv, NEW p \in Pair, TaskStep(p)
  PROVE  WatcherInv'
<1>1. /\ pair' \in [Pair -> PairState]
      /\ PairKept(pair[p], pair'[p])
      /\ \A q \in Pair : q # p => pair'[q] = pair[q]
      /\ PairsAgree'
      /\ UNCHANGED <<slots, signal, entry, next, control, edits, watched>>
  BY TaskEffect DEF WatcherInv
<1>2. Domains
  BY TypesGiveDomains DEF WatcherInv
<1>3. TypeOK'
  BY <1>1, PairAssumption, EditAssumption
     DEF WatcherInv, TypeOK, slots, control, PairKept, PairsAgree, CountsOK
<1>4. PairsAgree'
  BY <1>1 DEF WatcherInv, TypeOK, PairsAgree, slots, control, PairKept
<1>5. FreshPairs'
  BY <1>1, <1>2 DEF WatcherInv, Domains, FreshPairs, slots, control, PairKept
<1>6. OneObject'
  BY <1>1, <1>2 DEF WatcherInv, Domains, OneObject, slots, control, PairKept
<1>7. SignalsAreArmed'
  BY <1>1, <1>2 DEF WatcherInv, Domains, SignalsAreArmed, Running, slots, control, PairKept
<1>8. CallersAgree'
  BY <1>1, <1>2 DEF WatcherInv, Domains, CallersAgree, Running, slots, control, PairKept
<1>9. Registered'
  BY <1>1, <1>2
     DEF WatcherInv, Domains, Registered, Running, Inserting, slots, control, PairKept
<1>10. SignalIsHeld'
  BY <1>1, <1>2 DEF WatcherInv, Domains, SignalIsHeld, Running, slots, control, PairKept
<1>11. WatchedIsArmed'
  BY <1>1, <1>2 DEF WatcherInv, Domains, WatchedIsArmed, slots, control, PairKept
<1>12. ShutdownReaches'
  BY <1>1, <1>2
     DEF WatcherInv, Domains, ShutdownReaches, ShutdownStopsAll, MapFree, Running, slots,
         control, PairKept
<1> QED BY <1>3, <1>4, <1>5, <1>6, <1>7, <1>8, <1>9, <1>10, <1>11, <1>12 DEF WatcherInv

\* A pair removes its own entry only.
LEMMA ReapKeeps ==
  ASSUME WatcherInv, NEW p \in Pair, Reap(p)
  PROVE  WatcherInv'
<1>1. /\ pair' \in [Pair -> PairState]
      /\ \A q \in Pair :
           /\ pair'[q].slot = pair[q].slot
           /\ pair'[q].blocking = pair[q].blocking
           /\ pair'[q].seen = pair[q].seen
           /\ pair'[q].stop = pair[q].stop
           /\ pair'[q].async = IF q = p THEN "gone" ELSE pair[q].async
      /\ PairsAgree'
  BY ReapEffect DEF WatcherInv
<1>2. Domains
  BY TypesGiveDomains DEF WatcherInv
<1>3. TypeOK'
  BY <1>1, PairAssumption, EditAssumption
     DEF WatcherInv, TypeOK, Reap, MapFree, slots, control, PairsAgree, CountsOK
<1>4. PairsAgree'
  BY <1>1 DEF WatcherInv, TypeOK, PairsAgree, Reap, MapFree, slots, control
<1>5. FreshPairs'
  BY <1>1, <1>2 DEF WatcherInv, Domains, FreshPairs, Reap, MapFree, slots, control
<1>6. OneObject'
  BY <1>1, <1>2 DEF WatcherInv, Domains, OneObject, Reap, MapFree, slots, control
<1>7. SignalsAreArmed'
  BY <1>1, <1>2 DEF WatcherInv, Domains, SignalsAreArmed, Running, Reap, MapFree, slots, control
<1>8. CallersAgree'
  BY <1>1, <1>2 DEF WatcherInv, Domains, CallersAgree, Running, Reap, MapFree, slots, control
<1>9. Registered'
  BY <1>1, <1>2
     DEF WatcherInv, Domains, Registered, Running, Inserting, Reap, MapFree, slots, control
<1>10. SignalIsHeld'
  BY <1>1, <1>2 DEF WatcherInv, Domains, SignalIsHeld, Running, Reap, MapFree, slots, control
<1>11. WatchedIsArmed'
  BY <1>1, <1>2 DEF WatcherInv, Domains, WatchedIsArmed, Reap, MapFree, slots, control
<1>12. ShutdownReaches'
  BY <1>1, <1>2
     DEF WatcherInv, Domains, ShutdownReaches, ShutdownStopsAll, MapFree, Running, Reap, slots,
         control
<1> QED BY <1>3, <1>4, <1>5, <1>6, <1>7, <1>8, <1>9, <1>10, <1>11, <1>12 DEF WatcherInv

\* An edit is seen by the pairs that watch.
LEMMA EditKeeps ==
  ASSUME WatcherInv, Edit
  PROVE  WatcherInv'
<1>1. /\ pair' \in [Pair -> PairState]
      /\ \A p \in Pair :
           /\ SameTasks(p)
           /\ pair'[p].seen <= edits'
           /\ pair'[p].stop = pair[p].stop
      /\ PairsAgree'
  BY EditEffect DEF WatcherInv
<1>2. Domains
  BY TypesGiveDomains DEF WatcherInv
<1>3. TypeOK'
  BY <1>1, PairAssumption, EditAssumption
     DEF WatcherInv, TypeOK, Edit, slots, control, PairsAgree, CountsOK
<1>4. PairsAgree'
  BY <1>1 DEF WatcherInv, TypeOK, PairsAgree, Edit, slots, control
<1>5. FreshPairs'
  BY <1>1, <1>2 DEF WatcherInv, Domains, FreshPairs, Edit, slots, control, SameTasks
<1>6. OneObject'
  BY <1>1, <1>2 DEF WatcherInv, Domains, OneObject, Edit, slots, control, SameTasks
<1>7. SignalsAreArmed'
  BY <1>1, <1>2
     DEF WatcherInv, Domains, SignalsAreArmed, Running, Edit, slots, control, SameTasks
<1>8. CallersAgree'
  BY <1>1, <1>2 DEF WatcherInv, Domains, CallersAgree, Running, Edit, slots, control, SameTasks
<1>9. Registered'
  BY <1>1, <1>2
     DEF WatcherInv, Domains, Registered, Running, Inserting, Edit, slots, control, SameTasks
<1>10. SignalIsHeld'
  BY <1>1, <1>2 DEF WatcherInv, Domains, SignalIsHeld, Running, Edit, slots, control, SameTasks
<1>11. WatchedIsArmed'
  BY <1>1, <1>2 DEF WatcherInv, Domains, WatchedIsArmed, Edit, slots, control, SameTasks
<1>12. ShutdownReaches'
  BY <1>1, <1>2
     DEF WatcherInv, Domains, ShutdownReaches, ShutdownStopsAll, MapFree, Running, Edit, slots,
         control, SameTasks
<1> QED BY <1>3, <1>4, <1>5, <1>6, <1>7, <1>8, <1>9, <1>10, <1>11, <1>12 DEF WatcherInv

\* The steps of shutdown.
LEMMA ShutdownKeeps ==
  ASSUME WatcherInv, Shutdown
  PROVE  WatcherInv'
<1>1. Domains
  BY TypesGiveDomains DEF WatcherInv
<1>2. TypeOK'
  BY PairAssumption, EditAssumption DEF WatcherInv, TypeOK, Shutdown, slots, control
<1>3. PairsAgree'
  BY DEF WatcherInv, TypeOK, PairsAgree, Shutdown, slots, control
<1>4. FreshPairs'
  BY <1>1 DEF WatcherInv, Domains, FreshPairs, Shutdown, slots, control
<1>5. OneObject'
  BY <1>1 DEF WatcherInv, Domains, OneObject, Shutdown, slots, control
<1>6. SignalsAreArmed'
  BY <1>1 DEF WatcherInv, Domains, SignalsAreArmed, Running, Shutdown, slots, control
<1>7. CallersAgree'
  BY <1>1 DEF WatcherInv, Domains, CallersAgree, Running, Shutdown, slots, control
<1>8. Registered'
  BY <1>1 DEF WatcherInv, Domains, Registered, Running, Inserting, Shutdown, slots, control
<1>9. SignalIsHeld'
  BY <1>1 DEF WatcherInv, Domains, SignalIsHeld, Running, Shutdown, slots, control
<1>10. WatchedIsArmed'
  BY <1>1 DEF WatcherInv, Domains, WatchedIsArmed, Shutdown, slots, control
<1>11. ShutdownReaches'
  BY <1>1
     DEF WatcherInv, Domains, ShutdownReaches, ShutdownStopsAll, MapFree, Running, Shutdown,
         slots, control
<1> QED BY <1>2, <1>3, <1>4, <1>5, <1>6, <1>7, <1>8, <1>9, <1>10, <1>11 DEF WatcherInv

\* With the map free, what runs with a clear signal is the entry.
LEMMA CollectStopsKeeps ==
  ASSUME WatcherInv, CollectStops
  PROVE  WatcherInv'
<1>1. Domains
  BY TypesGiveDomains DEF WatcherInv
<1>2. TypeOK'
  BY PairAssumption, EditAssumption
     DEF WatcherInv, TypeOK, CollectStops, MapFree, slots, control
<1>3. PairsAgree'
  BY DEF WatcherInv, TypeOK, PairsAgree, CollectStops, MapFree, slots, control
<1>4. FreshPairs'
  BY <1>1 DEF WatcherInv, Domains, FreshPairs, CollectStops, MapFree, slots, control
<1>5. OneObject'
  BY <1>1 DEF WatcherInv, Domains, OneObject, CollectStops, MapFree, slots, control
<1>6. SignalsAreArmed'
  BY <1>1
     DEF WatcherInv, Domains, SignalsAreArmed, Running, CollectStops, MapFree, slots, control
<1>7. CallersAgree'
  BY <1>1 DEF WatcherInv, Domains, CallersAgree, Running, CollectStops, MapFree, slots, control
<1>8. Registered'
  BY <1>1
     DEF WatcherInv, Domains, Registered, Running, Inserting, CollectStops, MapFree, slots,
         control
<1>9. SignalIsHeld'
  BY <1>1 DEF WatcherInv, Domains, SignalIsHeld, Running, CollectStops, MapFree, slots, control
<1>10. WatchedIsArmed'
  BY <1>1 DEF WatcherInv, Domains, WatchedIsArmed, CollectStops, MapFree, slots, control
<1>11. ShutdownReaches'
  BY <1>1
     DEF WatcherInv, Domains, ShutdownReaches, ShutdownStopsAll, MapFree, Running, Registered,
         Inserting, CollectStops, slots, control
<1> QED BY <1>2, <1>3, <1>4, <1>5, <1>6, <1>7, <1>8, <1>9, <1>10, <1>11 DEF WatcherInv

\* Every pair that runs is stopped once the collected signals are set.
LEMMA SetStopsKeeps ==
  ASSUME WatcherInv, SetStops
  PROVE  WatcherInv'
<1>1. Stops(collected)
  BY StopEffect DEF WatcherInv, SetStops
<1>2. \A p \in Pair : SameTasks(p)
  BY <1>1 DEF Stops
<1>3. \A p \in Pair : pair'[p].stop <=> pair[p].stop \/ p \in collected
  BY <1>1 DEF Stops
<1>4. Domains
  BY TypesGiveDomains DEF WatcherInv
<1>5. /\ shutdown = "collected" /\ shutdown' = "stopped"
      /\ UNCHANGED <<phase, prior, workspaces, signal, entry, next, call, collected, edits, watched>>
  BY DEF SetStops, slots, control
<1>6. TypeOK'
  BY <1>1, PairAssumption, EditAssumption
     DEF WatcherInv, TypeOK, SetStops, slots, control, Stops, SameTasks, PairsAgree, CountsOK
<1>7. PairsAgree'
  BY <1>1 DEF WatcherInv, TypeOK, PairsAgree, SetStops, slots, control, Stops, SameTasks
<1>8. FreshPairs'
  BY <1>2, <1>3, <1>4, <1>5 DEF WatcherInv, Domains, FreshPairs, SameTasks
<1>9. OneObject'
  BY <1>2, <1>3, <1>4, <1>5 DEF WatcherInv, Domains, OneObject, SameTasks
<1>10. SignalsAreArmed'
  BY <1>2, <1>3, <1>4, <1>5 DEF WatcherInv, Domains, SignalsAreArmed, Running, SameTasks
<1>11. CallersAgree'
  BY <1>2, <1>3, <1>4, <1>5
     DEF WatcherInv, Domains, CallersAgree, Running, ShutdownReaches, MapFree, SameTasks
<1>12. Registered'
  BY <1>2, <1>3, <1>4, <1>5 DEF WatcherInv, Domains, Registered, Running, Inserting, SameTasks
<1>13. SignalIsHeld'
  BY <1>2, <1>3, <1>4, <1>5 DEF WatcherInv, Domains, SignalIsHeld, Running, SameTasks
<1>14. WatchedIsArmed'
  BY <1>2, <1>3, <1>4, <1>5 DEF WatcherInv, Domains, WatchedIsArmed, SameTasks
<1>15. ShutdownReaches'
  BY <1>2, <1>3, <1>4, <1>5
     DEF WatcherInv, Domains, ShutdownReaches, ShutdownStopsAll, MapFree, Running, SameTasks
<1> QED BY <1>6, <1>7, <1>8, <1>9, <1>10, <1>11, <1>12, <1>13, <1>14, <1>15 DEF WatcherInv

\* The objects' signals are set too, when nobody arms any more.
LEMMA StopWorkspacesKeeps ==
  ASSUME WatcherInv, StopWorkspaces
  PROVE  WatcherInv'
<1>1. Stops({signal[s] : s \in workspaces})
  BY StopEffect DEF WatcherInv, StopWorkspaces
<1>2. \A p \in Pair : SameTasks(p)
  BY <1>1 DEF Stops
<1>3. \A p \in Pair : pair'[p].stop <=> pair[p].stop \/ p \in {signal[s] : s \in workspaces}
  BY <1>1 DEF Stops
<1>4. Domains
  BY TypesGiveDomains DEF WatcherInv
<1>5. /\ shutdown = "stopped" /\ shutdown' = "done"
      /\ UNCHANGED <<phase, prior, workspaces, signal, entry, next, call, collected, edits, watched>>
  BY DEF StopWorkspaces, slots, control
<1>6. TypeOK'
  BY <1>1, PairAssumption, EditAssumption
     DEF WatcherInv, TypeOK, StopWorkspaces, slots, control, Stops, SameTasks, PairsAgree,
         CountsOK
<1>7. PairsAgree'
  BY <1>1 DEF WatcherInv, TypeOK, PairsAgree, StopWorkspaces, slots, control, Stops, SameTasks
<1>8. FreshPairs'
  BY <1>2, <1>3, <1>4, <1>5 DEF WatcherInv, Domains, FreshPairs, SameTasks
<1>9. OneObject'
  BY <1>2, <1>3, <1>4, <1>5 DEF WatcherInv, Domains, OneObject, SameTasks
<1>10. SignalsAreArmed'
  BY <1>2, <1>3, <1>4, <1>5 DEF WatcherInv, Domains, SignalsAreArmed, Running, SameTasks
<1>11. CallersAgree'
  BY <1>2, <1>3, <1>4, <1>5
     DEF WatcherInv, Domains, CallersAgree, Running, ShutdownReaches, MapFree, SameTasks
<1>12. Registered'
  BY <1>2, <1>3, <1>4, <1>5 DEF WatcherInv, Domains, Registered, Running, Inserting, SameTasks
<1>13. SignalIsHeld'
  BY <1>2, <1>3, <1>4, <1>5 DEF WatcherInv, Domains, SignalIsHeld, Running, SameTasks
<1>14. WatchedIsArmed'
  BY <1>2, <1>3, <1>4, <1>5 DEF WatcherInv, Domains, WatchedIsArmed, SameTasks
<1>15. ShutdownReaches'
  BY <1>2, <1>3, <1>4, <1>5
     DEF WatcherInv, Domains, ShutdownReaches, ShutdownStopsAll, MapFree, Running, SameTasks
<1> QED BY <1>6, <1>7, <1>8, <1>9, <1>10, <1>11, <1>12, <1>13, <1>14, <1>15 DEF WatcherInv

\* A new generation is nobody's signal and nobody's entry.
LEMMA SubscribeKeeps ==
  ASSUME WatcherInv, NEW c \in Caller, Subscribe(c)
  PROVE  WatcherInv'
<1>1. /\ next \in Pair
      /\ pair' \in [Pair -> PairState]
      /\ (Return(c) /\ pair' = pair) \/ Subscribed(c)
      /\ PairsAgree'
  BY SubscribeEffect DEF WatcherInv
<1>2. Domains /\ next \in 1 .. MaxPairs + 1 /\ edits \in 0 .. MaxEdits
  BY TypesGiveDomains DEF WatcherInv, TypeOK
<1>3. /\ call[c].at = "found" /\ MapFree
      /\ shutdown = "up"
      /\ next' = next + 1
      /\ UNCHANGED <<phase, prior, workspaces, signal, entry, shutdown, collected, edits, watched>>
  BY DEF Subscribe, ShuttingDown, slots
<1>4. /\ next \in Nat /\ next + 1 \in 1 .. MaxPairs + 1
      /\ \A q \in Pair : q \in Nat
      /\ pair[next].async = "off"
      /\ call[c].slot \in Slot /\ phase[call[c].slot] # "unused"
  BY <1>1, <1>2, <1>3, PairAssumption DEF WatcherInv, FreshPairs, CallersAgree, Pair
<1>5. \A p \in Pair : CountsOK(pair'[p])
  BY <1>1 DEF PairsAgree
<1>6. CASE Return(c) /\ pair' = pair
  <2>1. call' = [call EXCEPT ![c] = [at |-> "idle", slot |-> None, pair |-> None]]
    BY <1>6 DEF Return, Call
  <2>2. TypeOK'
    BY <1>2, <1>3, <1>4, <1>6, <2>1 DEF WatcherInv, TypeOK
  <2>3. FreshPairs'
    BY <1>3, <1>4, <1>6 DEF WatcherInv, FreshPairs
  <2>4. OneObject' /\ SignalsAreArmed' /\ SignalIsHeld' /\ WatchedIsArmed'
    BY <1>3, <1>6
       DEF WatcherInv, OneObject, SignalsAreArmed, SignalIsHeld, WatchedIsArmed, Running
  <2>5. CallersAgree'
    BY <1>2, <1>3, <1>4, <1>6, <2>1 DEF WatcherInv, CallersAgree, Domains, Running
  <2>6. Registered'
    BY <1>2, <1>3, <1>6, <2>1 DEF WatcherInv, Registered, Inserting, Running, Domains
  <2>7. ShutdownReaches'
    BY <1>3 DEF ShutdownReaches, ShutdownStopsAll
  <2> QED BY <1>1, <2>2, <2>3, <2>4, <2>5, <2>6, <2>7 DEF WatcherInv
<1>7. CASE Subscribed(c)
  <2>1. /\ call' = [call EXCEPT ![c] = [at |-> "arm", slot |-> call[c].slot, pair |-> next]]
        /\ \A q \in Pair : q # next => pair'[q] = pair[q]
        /\ pair'[next].slot = call[c].slot
        /\ ~pair'[next].stop
        /\ pair'[next].async = "off" /\ pair'[next].blocking = "new"
        /\ pair'[next].seen = edits
    BY <1>7 DEF Subscribed, Call
  <2>2. \A p \in Pair : pair'[p].seen <= edits
    BY <1>2, <2>1, EditAssumption DEF WatcherInv, TypeOK
  <2>3. TypeOK'
    BY <1>1, <1>2, <1>3, <1>4, <1>5, <2>1, <2>2 DEF WatcherInv, TypeOK, CountsOK
  <2>4. FreshPairs'
    BY <1>3, <1>4, <2>1 DEF WatcherInv, FreshPairs
  <2>5. OneObject'
    BY <1>3 DEF WatcherInv, OneObject
  <2>6. /\ entry # next /\ \A s \in Slot : signal[s] # next
        /\ \A p \in Pair : Running(p)' <=> Running(p) /\ p # next
    BY <1>1, <1>2, <1>4, <2>1 DEF WatcherInv, SignalsAreArmed, Running, Domains
  <2>7. SignalsAreArmed'
    BY <1>2, <1>3, <2>1, <2>6 DEF WatcherInv, SignalsAreArmed, Running, Domains
  <2>8. SignalIsHeld'
    BY <1>3, <2>1, <2>6 DEF WatcherInv, SignalIsHeld, Domains
  <2>9. WatchedIsArmed'
    BY <1>2, <1>3, <2>1, <2>6 DEF WatcherInv, WatchedIsArmed, Domains
  <2>10. CallersAgree'
    BY <1>1, <1>2, <1>3, <1>4, <2>1, <2>6 DEF WatcherInv, CallersAgree, Domains, MapFree
  <2>11. Registered'
    BY <1>2, <1>3, <2>1, <2>6 DEF WatcherInv, Registered, Inserting, Domains
  <2>12. ShutdownReaches'
    BY <1>3 DEF ShutdownReaches, ShutdownStopsAll
  <2> QED
    BY <1>1, <2>3, <2>4, <2>5, <2>7, <2>8, <2>9, <2>10, <2>11, <2>12 DEF WatcherInv
<1> QED BY <1>1, <1>6, <1>7

\* The object's old signal is set before it holds the new one; an object that is
\* armed is the key's, so the pair the map still names serves it no longer.
LEMMA ArmKeeps ==
  ASSUME WatcherInv, NEW c \in Caller, Arm(c)
  PROVE  WatcherInv'
<1> DEFINE s == call[c].slot
           p == call[c].pair
<1>1. /\ pair' \in [Pair -> PairState]
      /\ \A q \in Pair : pair'[q].seen <= edits
      /\ \A q \in Pair : q # p =>
           /\ SameTasks(q)
           /\ pair'[q].stop <=> pair[q].stop \/ q = signal[s]
      /\ ~pair'[p].stop
      /\ Refused(c) \/ Armed(c)
      /\ PairsAgree'
  BY ArmEffect DEF WatcherInv
<1>2. Domains /\ edits \in 0 .. MaxEdits
  BY TypesGiveDomains DEF WatcherInv, TypeOK
<1>3. /\ call[c].at = "arm"
      /\ UNCHANGED <<phase, prior, workspaces, entry, next, shutdown, collected, edits>>
  BY DEF Arm, slots
<1>4. /\ s \in Slot /\ phase[s] # "unused" /\ p \in Pair
      /\ pair[p].async = "off" /\ pair[p].slot = s /\ p < next
      /\ \A d \in Caller : call[d].at \in {"arm", "insert"} => d = c
  BY <1>3 DEF WatcherInv, CallersAgree
<1>5. entry # p /\ \A t \in Slot : signal[t] # p
  BY <1>2, <1>4 DEF WatcherInv, SignalsAreArmed, Running, Domains
<1>6. /\ \A q \in Pair : q # p =>
           /\ pair'[q].slot = pair[q].slot /\ pair'[q].async = pair[q].async
           /\ pair'[q].blocking = pair[q].blocking
      /\ \A q \in Pair : q # p => (pair'[q].stop <=> pair[q].stop \/ q = signal[s])
      /\ \A q \in Pair : q # p => (Running(q)' <=> Running(q))
  BY <1>1 DEF SameTasks, Running
<1>7. \A q \in Pair : CountsOK(pair'[q])
  BY <1>1 DEF PairsAgree
<1>8. ShutdownReaches'
  BY <1>2, <1>3 DEF WatcherInv, ShutdownReaches, ShutdownStopsAll, MapFree, Domains
<1>9. CASE Refused(c)
  <2>1. /\ Tombstone(s)
        /\ signal' = signal
        /\ watched' = watched \ {s}
        /\ call' = [call EXCEPT ![c] = [at |-> "idle", slot |-> None, pair |-> None]]
        /\ pair'[p].async = "off" /\ pair'[p].blocking = "off"
    BY <1>9 DEF Refused, Return, Call
  <2>2. TypeOK'
    BY <1>1, <1>2, <1>3, <1>7, <2>1 DEF WatcherInv, TypeOK, CountsOK
  <2>3. FreshPairs'
    BY <1>3, <1>6, <2>1 DEF WatcherInv, FreshPairs
  <2>4. OneObject'
    BY <1>3, <2>1 DEF WatcherInv, OneObject
  <2>5. SignalsAreArmed'
    BY <1>2, <1>3, <1>5, <1>6, <2>1 DEF WatcherInv, SignalsAreArmed, Running, Domains
  <2>6. CallersAgree'
    BY <1>2, <1>3, <1>4, <1>5, <1>6, <2>1 DEF WatcherInv, CallersAgree, Domains
  <2>7. \A q \in Pair : Running(q)' => q # p /\ Running(q)
    BY <1>6, <2>1 DEF Running
  <2>8. Registered'
    BY <1>2, <1>3, <1>6, <2>1, <2>7 DEF WatcherInv, Registered, Inserting, Domains
  <2>9. SignalIsHeld'
    BY <1>3, <1>6, <2>1, <2>7 DEF WatcherInv, SignalIsHeld
  <2>10. WatchedIsArmed'
    <3>1. ASSUME NEW t \in watched \cap workspaces, t # s, signal[t] # None
          PROVE  signal[t] # signal[s]
      BY <1>2, <1>4, <3>1 DEF WatcherInv, SignalsAreArmed, Domains
    <3> QED BY <1>2, <1>3, <1>5, <1>6, <2>1, <3>1 DEF WatcherInv, WatchedIsArmed, Domains
  <2> QED BY <1>1, <1>8, <2>2, <2>3, <2>4, <2>5, <2>6, <2>8, <2>9, <2>10 DEF WatcherInv
<1>10. CASE Armed(c)
  <2>1. /\ signal' = [signal EXCEPT ![s] = p]
        /\ watched' = watched \cup {s}
        /\ call' = [call EXCEPT ![c] = [at |-> "insert", slot |-> s, pair |-> p]]
        /\ pair'[p].async = "recv" /\ pair'[p].blocking = "wait" /\ pair'[p].slot = s
    BY <1>4, <1>10 DEF Armed, Call
  <2>2. phase[s] \in {"Loading", "Resident"} /\ s \in workspaces
    BY <1>2, <1>4, <1>10 DEF Armed, Tombstone, WatcherInv, OneObject, Domains
  <2>3. Running(p)'
    BY <2>1 DEF Running
  <2>4. TypeOK'
    BY <1>1, <1>2, <1>3, <1>4, <1>7, <2>1 DEF WatcherInv, TypeOK, CountsOK
  <2>5. FreshPairs'
    <3>1. next \in Nat /\ \A q \in Pair : q \in Nat
      BY PairAssumption DEF WatcherInv, TypeOK, Pair
    <3> QED BY <1>3, <1>4, <1>6, <3>1 DEF WatcherInv, FreshPairs
  <2>6. OneObject'
    BY <1>2, <1>3, <1>4, <2>1 DEF WatcherInv, OneObject, Domains
  <2>7. SignalsAreArmed'
    BY <1>2, <1>3, <1>4, <1>5, <1>6, <2>1 DEF WatcherInv, SignalsAreArmed, Running, Domains
  <2>8. entry # None /\ ~pair'[entry].stop => pair'[entry].slot \notin workspaces
    <3> SUFFICES ASSUME entry # None, ~pair'[entry].stop
                 PROVE  pair[entry].slot \notin workspaces
      BY <1>2, <1>5, <1>6 DEF Domains
    <3>1. entry \in Pair /\ ~pair[entry].stop /\ entry # signal[s] /\ Running(entry)
      BY <1>2, <1>5, <1>6 DEF Domains, WatcherInv, SignalsAreArmed
    <3>2. pair[entry].slot # s
      BY <3>1 DEF WatcherInv, SignalIsHeld
    <3> QED BY <2>2, <3>2 DEF WatcherInv, OneObject
  <2>9. CallersAgree'
    BY <1>2, <1>3, <1>4, <2>1, <2>3, <2>8 DEF WatcherInv, CallersAgree, Domains
  <2>10. Registered'
    BY <1>2, <1>3, <1>4, <1>6, <2>1 DEF WatcherInv, Registered, Inserting, Domains
  <2>11. SignalIsHeld'
    BY <1>2, <1>3, <1>4, <1>6, <2>1, <2>2 DEF WatcherInv, SignalIsHeld, Domains
  <2>12. WatchedIsArmed'
    <3>1. \A t \in workspaces : t = s
      BY <2>2 DEF WatcherInv, OneObject
    <3>2. signal'[s] = p /\ p # None
      BY <1>2, <1>4, <2>1 DEF Domains
    <3> QED BY <1>1, <1>3, <3>1, <3>2 DEF WatchedIsArmed
  <2> QED
    BY <1>1, <1>8, <2>4, <2>5, <2>6, <2>7, <2>9, <2>10, <2>11, <2>12 DEF WatcherInv
<1> QED BY <1>1, <1>9, <1>10

-----------------------------------------------------------------------------
\* No watcher has started at the beginning.
LEMMA InitInv == Init => WatcherInv
<1> SUFFICES ASSUME Init PROVE WatcherInv
  OBVIOUS
<1>1. /\ NoPair.async = "off" /\ NoPair.blocking = "off" /\ NoPair.stop = FALSE
      /\ NoPair.seen = 0 /\ NoPair.taken = 0 /\ NoPair.sent = 0 /\ NoPair.chan = <<>>
  BY DEF NoPair
<1>2. pair \in [Pair -> PairState] /\ \A p \in Pair : pair[p] = NoPair
  BY NoPairState DEF Init
<1>3. CountsOK(NoPair) /\ TasksOK(NoPair)
  BY CapAssumption DEF NoPair, CountsOK, TasksOK
<1>4. TypeOK
  BY <1>1, <1>2, PairAssumption, EditAssumption, CapAssumption DEF Init, TypeOK
<1>5. PairsAgree
  BY <1>2, <1>3 DEF PairsAgree
<1>6. \A p \in Pair : ~Running(p)
  BY <1>1, <1>2 DEF Running
<1>7. FreshPairs /\ OneObject /\ SignalsAreArmed
  BY <1>1, <1>2 DEF Init, FreshPairs, OneObject, SignalsAreArmed
<1>8. CallersAgree
  BY DEF Init, CallersAgree
<1>9. Registered /\ SignalIsHeld
  BY <1>6 DEF Registered, SignalIsHeld
<1>10. WatchedIsArmed /\ ShutdownReaches
  BY <1>6 DEF Init, WatchedIsArmed, ShutdownReaches, ShutdownStopsAll
<1> QED BY <1>4, <1>5, <1>7, <1>8, <1>9, <1>10 DEF WatcherInv

\* The steps of Next, one case each.
LEMMA StepInv == WatcherInv /\ [Next]_vars => WatcherInv'
<1> SUFFICES ASSUME WatcherInv, [Next]_vars PROVE WatcherInv'
  OBVIOUS
<1>1. CASE LoadBegins
  BY <1>1, LoadBeginsKeeps
<1>2. ASSUME NEW s \in Slot,
             LoadPublishes(s) \/ LoadAbandoned(s) \/ RebuildMoves(s) \/ Evict(s) \/ Unload(s)
      PROVE  WatcherInv'
  BY <1>2, LoadPublishesKeeps, LoadAbandonedKeeps, RebuildMovesKeeps, EvictKeeps, UnloadKeeps
<1>3. ASSUME NEW c \in Caller, Lookup(c) \/ CallStep(c)
      PROVE  WatcherInv'
  BY <1>3, LookupKeeps, RefuseKeeps, KeepKeeps, SubscribeKeeps, ArmKeeps, InsertKeeps
     DEF CallStep
<1>4. ASSUME NEW p \in Pair, PairStep(p) \/ Disconnect(p)
      PROVE  WatcherInv'
  BY <1>4, TaskStepKeeps, ReapKeeps DEF PairStep, TaskStep
<1>5. CASE Edit \/ Shutdown \/ ShutdownStep
  BY <1>5, EditKeeps, ShutdownKeeps, CollectStopsKeeps, SetStopsKeeps, StopWorkspacesKeeps
     DEF ShutdownStep
<1>6. CASE UNCHANGED vars
  <2> USE <1>6 DEF vars, slots, control
  <2>1. TypeOK' /\ PairsAgree' /\ FreshPairs' /\ OneObject'
    BY DEF WatcherInv, TypeOK, PairsAgree, FreshPairs, OneObject
  <2>2. SignalsAreArmed' /\ CallersAgree'
    BY DEF WatcherInv, SignalsAreArmed, CallersAgree, Running
  <2>3. Registered' /\ SignalIsHeld' /\ WatchedIsArmed'
    BY DEF WatcherInv, Registered, Inserting, SignalIsHeld, WatchedIsArmed, Running
  <2>4. ShutdownReaches'
    BY DEF WatcherInv, ShutdownReaches, ShutdownStopsAll, MapFree, Running
  <2> QED BY <2>1, <2>2, <2>3, <2>4 DEF WatcherInv
<1> QED BY <1>1, <1>2, <1>3, <1>4, <1>5, <1>6 DEF Next

\* The invariant holds of every behaviour, for any objects, callers,
\* generations, edits and capacity, and whether or not event sources break.
THEOREM WatcherInvariance == Spec => []WatcherInv
BY InitInv, StepInv, PTL DEF Spec

\* Types: a channel stays within its capacity, and a pair dispatches no more
\* than its thread collected, which is no more than it has seen.
THEOREM TypeCorrect == Spec => []TypeOK
<1>1. WatcherInv => TypeOK
  BY DEF WatcherInv
<1> QED BY <1>1, WatcherInvariance, PTL

\* A pair that runs with a clear signal is the one in the map, whoever
\* replaced, reaped or armed in between (start_watching, reap_watcher).
THEOREM RunningIsRegistered == Spec => []WatcherIsRegistered
<1>1. WatcherInv => WatcherIsRegistered
  BY DEF WatcherInv, Registered, Inserting, WatcherIsRegistered, MapFree
<1> QED BY <1>1, WatcherInvariance, PTL

\* An arming that races a tombstone writer leaves no pair with a clear signal
\* on the tombstone (arm_watcher_stop).
THEOREM TombstonesAreUnwatched == Spec => []TombstoneIsUnwatched
<1>1. WatcherInv => TombstoneIsUnwatched
  BY DEF WatcherInv, SignalIsHeld, TombstoneIsUnwatched
<1> QED BY <1>1, WatcherInvariance, PTL

\* A resident workspace once watched stays watched, by the pair whose signal
\* it holds, unless that pair's event source breaks.
THEOREM ResidentsAreWatched == Spec => []ResidentIsWatched
<1>1. WatcherInv => ResidentIsWatched
  <2> SUFFICES ASSUME WatcherInv, MapFree, shutdown = "up",
                      NEW s \in watched, phase[s] = "Resident"
               PROVE  /\ signal[s] # None /\ ~pair[signal[s]].stop
                      /\ pair[signal[s]].blocking # "exited" =>
                           entry = signal[s] /\ IsWatching(signal[s])
    BY DEF ResidentIsWatched
  <2> DEFINE p == signal[s]
  <2>1. Domains
    BY TypesGiveDomains DEF WatcherInv
  <2>2. s \in workspaces
    BY <2>1 DEF WatcherInv, OneObject, Domains
  <2>3. p \in Pair /\ p # None /\ ~pair[p].stop
    BY <2>1, <2>2 DEF WatcherInv, WatchedIsArmed, Domains
  <2>4. pair[p].async # "off"
    BY <2>1, <2>3 DEF WatcherInv, SignalsAreArmed, Domains
  <2>5. pair[p] \in PairState
    BY <2>3 DEF WatcherInv, TypeOK
  <2>6. ASSUME pair[p].blocking # "exited" PROVE entry = p /\ IsWatching(p)
    <3>1. pair[p].async \in {"recv", "dispatch", "building"}
      BY <2>3, <2>4, <2>5, <2>6 DEF WatcherInv, PairsAgree, TasksOK, PairState
    <3>2. pair[p].live
      BY <2>3, <3>1 DEF WatcherInv, PairsAgree, TasksOK
    <3>3. entry = p
      BY <2>3, <3>1 DEF WatcherInv, Registered, Inserting, MapFree, Running
    <3> QED BY <2>3, <3>2, <3>3 DEF IsWatching
  <2> QED BY <2>3, <2>6
<1> QED BY <1>1, WatcherInvariance, PTL

\* Shutdown reaches every pair: it collects what the map names, and no caller
\* arms one afterwards (RebuildDispatcher::shutdown).
THEOREM ShutdownReachesAll == Spec => []ShutdownStopsAll
<1>1. WatcherInv => ShutdownStopsAll
  BY DEF WatcherInv, ShutdownReaches
<1> QED BY <1>1, WatcherInvariance, PTL
=============================================================================
