--------------------------- MODULE IndexWriteLock ---------------------------
(***************************************************************************)
(* Who may run a persist transaction on an index, and when: the persist    *)
(* lock (an flock on the lock file of the index directory), the daemon's   *)
(* cancellable wait for it through one helper thread per lock file, the    *)
(* daemon's persist gate, and the user's removal of the index, which takes *)
(* no lock.  PersistTransaction models what a holder does to the files;    *)
(* here a transaction is its begin and its end.                            *)
(*                                                                         *)
(* Rebuilder is the daemon's rebuild iterations, each persisting once      *)
(* (persist_rebuild_output_blocking); Other is persists of other processes *)
(* (sqry index), which enter their own gates.  A lock file is known by its *)
(* inode number: an unlinked file that is still open stays locked, and a   *)
(* number may be given to a new file only once nobody has the old one open.*)
(***************************************************************************)
EXTENDS Naturals

CONSTANTS
  Rebuilder, Other,
  MaxIdent,      \* the inode numbers are 1 .. MaxIdent
  Reuse,         \* whether a freed inode number names a new file
  MaxRemovals,   \* removals of the index in a behaviour
  MaxFaults,     \* helper threads that fail to start, fail to lock or panic
  MaxHelpers,    \* helper threads at a time
  Retries        \* LOCK_IDENTITY_RETRIES

ASSUME IdentAssumption == MaxIdent \in Nat \ {0}
ASSUME WriterAssumption == Rebuilder \cap Other = {}
ASSUME BoundsAssumption ==
  /\ {MaxRemovals, MaxFaults, MaxHelpers} \subseteq Nat
  /\ Retries \in Nat \ {0}
  /\ Reuse \in BOOLEAN

Writer == Rebuilder \cup Other
Ident  == 1 .. MaxIdent
Helper == 1 .. MaxHelpers
None   == 0

VARIABLES
  dir,         \* whether the index directory exists
  content,     \* what it holds: "none", "leftover" (no previous pair), "index"
  lockFile,    \* the inode its lock file name names, or None
  used,        \* the inodes ever given to a lock file
  gen,         \* the commits recorded on each lock file
  flock,       \* who has each file locked: <<"writer", w>>, <<"helper", h>>
  removing,    \* what a removal under way has still to remove
  removals,    \* removals begun
  unlinks,     \* lock files unlinked
  me,          \* what each writer has in hand, below
  helper,      \* the helper threads
  gate,        \* the persists in flight through the daemon's gate
  closed,      \* the gate is closed
  exited,      \* the daemon has exited
  faults

disk == <<dir, content, lockFile, used, gen>>
removal == <<removing, removals, unlinks>>
daemon == <<closed, exited>>
vars == <<disk, flock, removal, me, helper, gate, daemon, faults>>

NoOne == <<"none", 0>>
Off == [file |-> None, st |-> "off", interested |-> {}, answer |-> "none"]

\* A writer: where it is, the identity it knows its lock file by, whether its
\* iteration found a committed index, the generation its wait opened the file
\* at, saw_committed_index, the helper it waits on, its attempts, whether its
\* iteration was cancelled; and, for the properties, whether an index was
\* there or a commit was recorded on its file since it read the generation,
\* and the unlinks when it opened its file or last found its hold current.
Idle == [at |-> "start", file |-> None, existing |-> FALSE, opened |-> 0, saw |-> FALSE,
         on |-> None, tries |-> 0, cancelled |-> FALSE, seen |-> FALSE, passed |-> 0]

\* Where a writer has its lock file open, and where it has it locked.
Opened == {"look", "gen", "peek", "try", "flock"}
Locked == {"arrived", "named", "held", "built", "checked", "entered", "writing"}
Ended  == {"committed", "removed", "cancelled", "refused", "failed", "unstable", "dead"}
Place  == {"start", "open", "create", "attach", "wait"} \cup Opened \cup Locked \cup Ended

WriterState ==
  [at : Place, file : Ident \cup {None}, existing : BOOLEAN, opened : Nat, saw : BOOLEAN,
   on : Helper \cup {None}, tries : 0 .. Retries, cancelled : BOOLEAN, seen : BOOLEAN,
   passed : 0 .. MaxRemovals]

HelperState ==
  [file : Ident \cup {None}, st : {"off", "blocked", "locked", "error", "panic", "done"},
   interested : SUBSET Rebuilder, answer : {"none", "lock", "error"}]

LockTypeOK ==
  /\ dir \in BOOLEAN
  /\ content \in {"none", "leftover", "index"}
  /\ lockFile \in Ident \cup {None}
  /\ used \subseteq Ident
  /\ gen \in [Ident -> Nat]
  /\ flock \in [Ident -> {NoOne} \cup ({"writer"} \X Writer) \cup ({"helper"} \X Helper)]
  /\ removing \subseteq {"content", "lock", "dir"}
  /\ removals \in 0 .. MaxRemovals
  /\ unlinks \in 0 .. MaxRemovals
  /\ me \in [Writer -> WriterState]
  /\ helper \in [Helper -> HelperState]
  /\ gate \subseteq Rebuilder
  /\ closed \in BOOLEAN
  /\ exited \in BOOLEAN
  /\ faults \in 0 .. MaxFaults

Init ==
  /\ \/ dir = FALSE /\ content = "none" /\ lockFile = None
     \/ dir = TRUE /\ content = "index" /\ lockFile \in {None, 1}
  /\ used = {lockFile} \ {None}
  /\ gen = [i \in Ident |-> 0]
  /\ flock = [i \in Ident |-> NoOne]
  /\ removing = {} /\ removals = 0 /\ unlinks = 0
  /\ me = [w \in Writer |-> Idle]
  /\ helper = [h \in Helper |-> Off]
  /\ gate = {} /\ closed = FALSE /\ exited = FALSE
  /\ faults = 0

-----------------------------------------------------------------------------
At(w, l) == me[w].at = l
Goto(w, l) == me' = [me EXCEPT ![w].at = l]

\* LockFileIdentity::matches
Matches(w) == lockFile = me[w].file

\* The wait's cancel closure.
Cancelled(w) == me[w].cancelled \/ closed

\* The files that someone has open or that have a name.
InUse ==
  ({lockFile} \ {None})
    \cup {me[w].file : w \in {v \in Writer : me[v].at \in Opened \cup Locked}}
    \cup {helper[h].file : h \in {g \in Helper : helper[g].st # "off" /\
                                    (helper[g].st = "done" => helper[g].answer = "lock")}}
Fresh == IF Reuse THEN Ident \ InUse ELSE Ident \ used

\* The lock file is opened under its name, or made; w goes to l.
OpenOrCreate(w, l) ==
  \E i \in IF lockFile = None THEN Fresh ELSE {lockFile} :
    /\ me' = [me EXCEPT ![w].file = i, ![w].passed = unlinks, ![w].at = l]
    /\ lockFile' = i
    /\ used' = used \cup {i}
    /\ gen' = IF lockFile = None THEN [gen EXCEPT ![i] = 0] ELSE gen

\* The writer ends; its lock and its ticket go with it.
Unlock(w) == flock' = [i \in Ident |-> IF flock[i] = <<"writer", w>> THEN NoOne ELSE flock[i]]

\* Mutant of End: the ticket of the gate is kept.
EndWithTicket(w, how) ==
  /\ me' = [me EXCEPT ![w] = [Idle EXCEPT !.at = how]]
  /\ Unlock(w)
  /\ gate' = gate

End(w, how) ==
  /\ me' = [me EXCEPT ![w] = [Idle EXCEPT !.at = how]]
  /\ Unlock(w)
  /\ gate' = gate \ {w}

\* A hold's recovery leaves nothing of a persist that had no previous pair.
Recovered == content' = IF content = "leftover" THEN "none" ELSE content

-----------------------------------------------------------------------------
(* The daemon's wait: wait_unless_cancelled.                                *)

\* The iteration resolves its inputs: whether an index is there selects the
\* wait.
Start(w) ==
  /\ w \in Rebuilder
  /\ At(w, "start")
  /\ me' = [me EXCEPT ![w].existing = (content = "index"), ![w].at = "open"]
  /\ UNCHANGED <<disk, flock, removal, helper, gate, daemon, faults>>

\* The creating wait makes the directory and the lock file.
OpenCreating(w) ==
  /\ At(w, "open") /\ ~me[w].existing
  /\ OpenOrCreate(w, "gen")
  /\ dir' = TRUE
  /\ UNCHANGED <<content, flock, removal, helper, gate, daemon, faults>>

\* open_lock_file_in_index: a present lock file is opened; a missing one is
\* made only into an index that has content.
OpenExisting(w) ==
  /\ At(w, "open") /\ me[w].existing
  /\ CASE lockFile # None ->
            /\ me' = [me EXCEPT ![w].file = lockFile, ![w].passed = unlinks, ![w].at = "look"]
            /\ UNCHANGED <<flock, gate>>
       [] lockFile = None /\ dir /\ content # "none" ->
            Goto(w, "create") /\ UNCHANGED <<flock, gate>>
       [] OTHER -> End(w, "removed")
  /\ UNCHANGED <<disk, removal, helper, daemon, faults>>

\* create_lock_file_in_index, or the file another opener has made since.
CreateExisting(w) ==
  /\ At(w, "create")
  /\ IF dir THEN OpenOrCreate(w, "look") /\ UNCHANGED <<flock, gate>>
     ELSE End(w, "removed") /\ UNCHANGED <<lockFile, used, gen>>
  /\ UNCHANGED <<dir, content, removal, helper, daemon, faults>>

\* The content check runs after the open; the file is left either way.
LookForContent(w) ==
  /\ At(w, "look")
  /\ IF content # "none" THEN Goto(w, "gen") /\ UNCHANGED <<flock, gate>> ELSE End(w, "removed")
  /\ UNCHANGED <<disk, removal, helper, daemon, faults>>

\* The commits recorded so far are read first,
ReadGeneration(w) ==
  /\ At(w, "gen")
  /\ me' = [me EXCEPT ![w].opened = gen[me[w].file], ![w].at = "peek"]
  /\ UNCHANGED <<disk, flock, removal, helper, gate, daemon, faults>>

\* then whether a committed index is in place.
ReadCommitted(w) ==
  /\ At(w, "peek")
  /\ me' = [me EXCEPT ![w].saw = (content = "index"), ![w].seen = @ \/ content = "index",
                      ![w].at = "try"]
  /\ UNCHANGED <<disk, flock, removal, helper, gate, daemon, faults>>

\* The lock is tried once; a busy lock's file is closed.
Try(w) ==
  /\ At(w, "try")
  /\ IF flock[me[w].file] = NoOne
       THEN flock' = [flock EXCEPT ![me[w].file] = <<"writer", w>>] /\ Goto(w, "arrived")
       ELSE Goto(w, "attach") /\ UNCHANGED flock
  /\ UNCHANGED <<disk, removal, helper, gate, daemon, faults>>

Unfinished(h) == helper[h].st \notin {"off", "done"}
Waiting(i) == {h \in Helper : Unfinished(h) /\ helper[h].file = i}

WaitOn(w, h) == me' = [me EXCEPT ![w].on = h, ![w].at = "wait"] /\ UNCHANGED <<flock, gate, faults>>

StartHelper(w, h) ==
  /\ helper[h] = Off
  /\ \A g \in Helper : g < h => helper[g] # Off
  /\ helper' = [helper EXCEPT ![h] =
       [file |-> me[w].file, st |-> "blocked", interested |-> {w}, answer |-> "none"]]
  /\ WaitOn(w, h)

SpawnFails(w) ==
  /\ faults < MaxFaults
  /\ faults' = faults + 1
  /\ End(w, "failed")
  /\ UNCHANGED helper

\* Mutant of Attach: every wait starts a helper of its own.
AttachAlone(w) ==
  /\ At(w, "attach")
  /\ IF ~Matches(w) THEN End(w, "removed") /\ UNCHANGED <<helper, faults>>
     ELSE (\E h \in Helper : StartHelper(w, h)) \/ SpawnFails(w)
  /\ UNCHANGED <<disk, removal, daemon>>

\* SharedLockWait::attach
Attach(w) ==
  /\ At(w, "attach")
  /\ IF Waiting(me[w].file) # {}
       THEN \E h \in Waiting(me[w].file) :
              helper' = [helper EXCEPT ![h].interested = @ \cup {w}] /\ WaitOn(w, h)
     ELSE IF ~Matches(w) THEN End(w, "removed") /\ UNCHANGED <<helper, faults>>
     ELSE (\E h \in Helper : StartHelper(w, h)) \/ SpawnFails(w)
  /\ UNCHANGED <<disk, removal, daemon>>

\* Helper h without w; a finished one is gone with its last waiter.
Detached(h, w) ==
  LET left == helper[h].interested \ {w} IN
  IF left = {} /\ helper[h].st = "done" THEN Off ELSE [helper[h] EXCEPT !.interested = left]

\* The first waiter to find the answer takes it.
TakeAnswer(w) ==
  /\ At(w, "wait")
  /\ LET h == me[w].on IN
     /\ helper[h].answer # "none"
     /\ helper' = [helper EXCEPT ![h] = [Detached(h, w) EXCEPT !.answer = "none"]]
     /\ IF helper[h].answer = "lock"
          THEN /\ flock' = [flock EXCEPT ![helper[h].file] = <<"writer", w>>]
               /\ me' = [me EXCEPT ![w].on = None, ![w].at = "arrived"]
               /\ UNCHANGED gate
          ELSE End(w, "failed")
  /\ UNCHANGED <<disk, removal, daemon, faults>>

\* Mutant of WaitAgain: a waiter goes on waiting on a helper that has died.
WaitOnTheDead(w) ==
  /\ At(w, "wait")
  /\ helper[me[w].on].st = "done" /\ helper[me[w].on].interested # {w}
  /\ helper' = [helper EXCEPT ![me[w].on] = Detached(me[w].on, w)]
  /\ me' = [me EXCEPT ![w].on = None, ![w].at = "attach"]
  /\ UNCHANGED <<disk, flock, removal, gate, daemon, faults>>

\* Another waiter took the answer, or the helper died: wait again.
WaitAgain(w) ==
  /\ At(w, "wait")
  /\ helper[me[w].on].st = "done" /\ helper[me[w].on].answer = "none"
  /\ helper' = [helper EXCEPT ![me[w].on] = Detached(me[w].on, w)]
  /\ me' = [me EXCEPT ![w].on = None, ![w].at = "attach"]
  /\ UNCHANGED <<disk, flock, removal, gate, daemon, faults>>

\* Mutant of GiveUp: the last waiter leaves the answer where it is.
GiveUpOnly(w) ==
  /\ At(w, "wait")
  /\ Cancelled(w) \/ ~Matches(w)
  /\ helper' = [helper EXCEPT ![me[w].on].interested = @ \ {w}]
  /\ End(w, IF Cancelled(w) THEN "cancelled" ELSE "removed")
  /\ UNCHANGED <<disk, removal, daemon, faults>>

\* A poll finds the cancellation, or another file under the name; the last
\* waiter to leave releases a lock that arrived for nobody.
GiveUp(w) ==
  /\ At(w, "wait")
  /\ Cancelled(w) \/ ~Matches(w)
  /\ LET h == me[w].on IN
     /\ helper' = [helper EXCEPT ![h] = Detached(h, w)]
     /\ flock' = IF Detached(h, w) = Off /\ helper[h].answer = "lock"
                   THEN [flock EXCEPT ![helper[h].file] = NoOne] ELSE flock
  /\ me' = [me EXCEPT ![w] =
       [Idle EXCEPT !.at = IF Cancelled(w) THEN "cancelled" ELSE "removed"]]
  /\ UNCHANGED <<disk, removal, gate, daemon, faults>>

\* The hold w has taken, with what it has seen of an index.
Hold(w, committed) ==
  /\ Recovered
  /\ IF Cancelled(w) THEN End(w, "cancelled")
     ELSE /\ me' = [me EXCEPT ![w].saw = @ \/ committed \/ content = "index",
                              ![w].opened = 0,
                              ![w].seen = @ \/ content = "index",
                              ![w].at = "held"]
          /\ UNCHANGED <<flock, gate>>

\* Mutant of Arrived: commits recorded during the wait are not looked at.
ArrivedUncounted(w) ==
  /\ At(w, "arrived")
  /\ IF Matches(w) THEN Hold(w, FALSE) ELSE End(w, "removed") /\ UNCHANGED content
  /\ UNCHANGED <<dir, lockFile, used, gen, removal, helper, daemon, faults>>

\* The closure "arrived": the lock counts only on the file the path names.
Arrived(w) ==
  /\ At(w, "arrived")
  /\ IF Matches(w) THEN Hold(w, gen[me[w].file] > me[w].opened)
     ELSE End(w, "removed") /\ UNCHANGED content
  /\ UNCHANGED <<dir, lockFile, used, gen, removal, helper, daemon, faults>>

-----------------------------------------------------------------------------
(* The helper thread.                                                       *)

HelperLock(h) ==
  /\ helper[h].st = "blocked"
  /\ flock[helper[h].file] = NoOne
  /\ flock' = [flock EXCEPT ![helper[h].file] = <<"helper", h>>]
  /\ helper' = [helper EXCEPT ![h].st = "locked"]
  /\ UNCHANGED <<disk, removal, me, gate, daemon, faults>>

HelperFails(h) ==
  /\ helper[h].st = "blocked"
  /\ faults < MaxFaults
  /\ faults' = faults + 1
  /\ \E st \in {"error", "panic"} : helper' = [helper EXCEPT ![h].st = st]
  /\ UNCHANGED <<disk, flock, removal, me, gate, daemon>>

\* HelperExit::drop: it leaves the registry and hands its answer to a waiter
\* still there, or drops it.
HelperExit(h) ==
  /\ helper[h].st \in {"locked", "error", "panic"}
  /\ IF helper[h].interested = {}
       THEN /\ helper' = [helper EXCEPT ![h] = Off]
            /\ flock' = IF helper[h].st = "locked"
                          THEN [flock EXCEPT ![helper[h].file] = NoOne] ELSE flock
       ELSE /\ helper' = [helper EXCEPT ![h].st = "done",
                 ![h].answer = [locked |-> "lock", error |-> "error", panic |-> "none"]
                                 [helper[h].st]]
            /\ UNCHANGED flock
  /\ UNCHANGED <<disk, removal, me, gate, daemon, faults>>

-----------------------------------------------------------------------------
(* The rebuild's persist under the hold, and the transaction.               *)

\* index_still_there
StillThere(w) == Matches(w) /\ (me[w].existing \/ me[w].saw => content = "index")

Refuse(w) == End(w, IF Cancelled(w) THEN "cancelled" ELSE "removed")

\* Checked before the work under the lock, which may fail,
Check(w) ==
  /\ At(w, "held")
  /\ IF Cancelled(w) \/ ~StillThere(w) THEN Refuse(w)
     ELSE End(w, "failed") \/ (Goto(w, "built") /\ UNCHANGED <<flock, gate>>)
  /\ UNCHANGED <<disk, removal, helper, daemon, faults>>

\* and after it, when nothing of what the wait has seen is looked at again.
CheckAgain(w) ==
  /\ At(w, "built")
  /\ IF Cancelled(w) \/ ~StillThere(w) THEN Refuse(w)
     ELSE /\ me' = [me EXCEPT ![w] = [Idle EXCEPT !.file = me[w].file, !.at = "checked"]]
          /\ UNCHANGED <<flock, gate>>
  /\ UNCHANGED <<disk, removal, helper, daemon, faults>>

\* Mutant of Enter: the gate is asked and no ticket is taken.
EnterUncounted(w) ==
  /\ At(w, "checked")
  /\ CASE ~Matches(w)          -> End(w, "removed")
       [] Matches(w) /\ closed -> End(w, "refused")
       [] OTHER                -> Goto(w, "entered") /\ UNCHANGED <<flock, gate>>
  /\ UNCHANGED <<disk, removal, helper, daemon, faults>>

\* The transaction refuses a stale hold, then enters the gate.
Enter(w) ==
  /\ At(w, "checked")
  /\ CASE ~Matches(w)          -> End(w, "removed")
       [] Matches(w) /\ closed -> End(w, "refused")
       [] OTHER                -> gate' = gate \cup {w} /\ Goto(w, "entered") /\ UNCHANGED flock
  /\ UNCHANGED <<disk, removal, helper, daemon, faults>>

\* A rebuild's hold is entered again, if it is still current; then
\* PersistRollback::begin makes its marker in the directory.
Begin(w) ==
  /\ At(w, "entered")
  /\ LET stale == w \in Rebuilder /\ ~Matches(w) IN
     CASE stale -> End(w, "removed") /\ UNCHANGED content
       [] ~stale /\ ~dir -> End(w, "failed") /\ UNCHANGED content
       [] OTHER ->
            /\ content' = IF content = "none" THEN "leftover" ELSE content
            /\ me' = [me EXCEPT ![w].at = "writing",
                                ![w].passed = IF w \in Rebuilder THEN unlinks ELSE @]
            /\ UNCHANGED <<flock, gate>>
  /\ UNCHANGED <<dir, lockFile, used, gen, removal, helper, daemon, faults>>

\* The commit, recorded on the lock file of the hold.
Commit(w) ==
  /\ At(w, "writing")
  /\ dir
  /\ content' = "index"
  /\ gen' = [gen EXCEPT ![me[w].file] = @ + 1]
  /\ me' = [v \in Writer |->
       IF v = w THEN [Idle EXCEPT !.at = "committed"]
       ELSE IF me[v].file = me[w].file /\ me[v].at \in {"peek", "try", "attach", "wait", "arrived"}
         THEN [me[v] EXCEPT !.seen = TRUE]
       ELSE me[v]]
  /\ Unlock(w)
  /\ gate' = gate \ {w}
  /\ UNCHANGED <<dir, lockFile, used, removal, helper, daemon, faults>>

\* A step of the transaction fails, as it does without the directory.
Fail(w) ==
  /\ At(w, "writing")
  /\ Recovered
  /\ End(w, "failed")
  /\ UNCHANGED <<dir, lockFile, used, gen, removal, helper, daemon, faults>>

-----------------------------------------------------------------------------
(* A persist of another process: IndexWriteLock::acquire, then the same     *)
(* transaction.                                                             *)

OpenOther(w) ==
  /\ w \in Other
  /\ At(w, "start")
  /\ OpenOrCreate(w, "flock")
  /\ dir' = TRUE
  /\ UNCHANGED <<content, flock, removal, helper, gate, daemon, faults>>

FlockOther(w) ==
  /\ At(w, "flock")
  /\ flock[me[w].file] = NoOne
  /\ flock' = [flock EXCEPT ![me[w].file] = <<"writer", w>>]
  /\ Goto(w, "named")
  /\ UNCHANGED <<disk, removal, helper, gate, daemon, faults>>

\* Mutant of NamedOther: the lock is kept whatever file it is on.
NamedUnchecked(w) ==
  /\ At(w, "named")
  /\ Recovered
  /\ me' = [me EXCEPT ![w].passed = unlinks, ![w].at = "entered"]
  /\ UNCHANGED <<dir, lockFile, used, gen, flock, removal, helper, gate, daemon, faults>>

\* A lock won on a file removed meanwhile holds nothing: try the one the
\* path names now.
NamedOther(w) ==
  /\ At(w, "named")
  /\ \/ /\ Matches(w)
        /\ Recovered
        /\ me' = [me EXCEPT ![w].passed = unlinks, ![w].at = "entered"]
        /\ UNCHANGED flock
     \/ /\ ~Matches(w)
        /\ Unlock(w)
        /\ LET n == me[w].tries + 1 IN
           me' = [me EXCEPT ![w] = [Idle EXCEPT
                    !.tries = n, !.at = IF n = Retries THEN "unstable" ELSE "start"]]
        /\ UNCHANGED content
  /\ UNCHANGED <<dir, lockFile, used, gen, removal, helper, gate, daemon, faults>>

\* Another process dies; the system releases its lock.
Die(w) ==
  /\ w \in Other
  /\ me[w].at \in Opened \cup Locked
  /\ End(w, "dead")
  /\ UNCHANGED <<disk, removal, helper, daemon, faults>>

-----------------------------------------------------------------------------
(* The user removes the index directory, without the lock: what is in it,   *)
(* in any order, then the directory if nothing was put in it since.         *)

Remove ==
  /\ removing = {} /\ removals < MaxRemovals
  /\ dir
  /\ removing' = {"content", "lock", "dir"}
  /\ removals' = removals + 1
  /\ UNCHANGED <<disk, flock, unlinks, me, helper, gate, daemon, faults>>

RemoveContent ==
  /\ "content" \in removing
  /\ removing' = removing \ {"content"}
  /\ content' = "none"
  /\ UNCHANGED <<dir, lockFile, used, gen, flock, removals, unlinks, me, helper, gate, daemon,
                 faults>>

RemoveLockFile ==
  /\ "lock" \in removing
  /\ removing' = removing \ {"lock"}
  /\ lockFile' = None
  /\ unlinks' = IF lockFile = None THEN unlinks ELSE unlinks + 1
  /\ UNCHANGED <<dir, content, used, gen, flock, removals, me, helper, gate, daemon, faults>>

RemoveDir ==
  /\ removing = {"dir"}
  /\ removing' = {}
  /\ dir' = (dir /\ (content # "none" \/ lockFile # None))
  /\ UNCHANGED <<content, lockFile, used, gen, flock, removals, unlinks, me, helper, gate,
                 daemon, faults>>

-----------------------------------------------------------------------------
(* The iteration is cancelled; the daemon exits (finish_runtime).           *)

\* Nobody looks at the flag after the last check.
Cancel(w) ==
  /\ w \in Rebuilder
  /\ me[w].at \notin Ended \cup {"checked", "entered", "writing"} /\ ~me[w].cancelled
  /\ me' = [me EXCEPT ![w].cancelled = TRUE]
  /\ UNCHANGED <<disk, flock, removal, helper, gate, daemon, faults>>

\* PersistGate::close_and_wait closes the gate,
Close ==
  /\ ~closed
  /\ closed' = TRUE
  /\ UNCHANGED <<disk, flock, removal, me, helper, gate, exited, faults>>

\* waits for every ticket, and the process ends with all of its threads.
Exit ==
  /\ closed /\ ~exited
  /\ gate = {}
  /\ exited' = TRUE
  /\ me' = [w \in Writer |-> IF w \in Rebuilder THEN [Idle EXCEPT !.at = "dead"] ELSE me[w]]
  /\ flock' = [i \in Ident |->
       IF flock[i][1] = "helper" \/ flock[i][2] \in Rebuilder THEN NoOne ELSE flock[i]]
  /\ helper' = [h \in Helper |-> Off]
  /\ UNCHANGED <<disk, removal, gate, closed, faults>>

-----------------------------------------------------------------------------
Step(w) ==
  \/ Start(w) \/ OpenCreating(w) \/ OpenExisting(w) \/ CreateExisting(w) \/ LookForContent(w)
  \/ ReadGeneration(w) \/ ReadCommitted(w) \/ Try(w) \/ Attach(w)
  \/ TakeAnswer(w) \/ WaitAgain(w) \/ GiveUp(w) \/ Arrived(w)
  \/ Check(w) \/ CheckAgain(w) \/ Enter(w) \/ Begin(w) \/ Commit(w) \/ Fail(w)
  \/ OpenOther(w) \/ FlockOther(w) \/ NamedOther(w)

HelperStep(h) == HelperLock(h) \/ HelperExit(h)

Next ==
  \/ \E w \in Writer : Step(w) \/ Die(w) \/ Cancel(w)
  \/ \E h \in Helper : HelperStep(h) \/ HelperFails(h)
  \/ Remove \/ RemoveContent \/ RemoveLockFile \/ RemoveDir
  \/ Close \/ Exit

Spec == Init /\ [][Next]_vars

\* Threads run, a lock that stays free is given to one that waits for it, and
\* the process waiting for its last persist ends.  Nobody has to cancel, to
\* remove the index or to stop the daemon.
FairSpec ==
  /\ Spec
  /\ \A w \in Writer : WF_vars(Step(w))
  /\ \A h \in Helper : WF_vars(HelperStep(h))
  /\ WF_vars(Exit)

-----------------------------------------------------------------------------
(* Properties.                                                              *)

\* Cancelled waits do not pile up threads: at most one helper waits for a
\* lock file, whoever comes, gives up and waits again.
OneHelperPerFile == \A i \in Ident : \A g, h \in Waiting(i) : g = h

\* No lock is kept for nobody: a lock that a finished helper left in its
\* answer has a waiter that will take it or drop it.
LockIsWanted ==
  \A h \in Helper : helper[h].st = "done" /\ helper[h].answer = "lock" =>
    \E w \in helper[h].interested : At(w, "wait") /\ me[w].on = h

\* Two transactions run at once only if the lock file was unlinked after one
\* of them had last found its hold current, whatever was removed, made again
\* and waited for before that.
TransactionsExclude ==
  \A v, w \in Writer : v # w /\ At(v, "writing") /\ At(w, "writing") =>
    me[v].passed < unlinks \/ me[w].passed < unlinks

\* A rebuild that goes on to its transaction does not write an index back
\* that was removed while it waited: if one was committed on its lock file
\* since it opened it, or was seen then or on arrival, one is there at the
\* last check.  Inode numbers may be used again, as on ext4
\* (write_guard.rs:2577), and the removal may be under way: what is asked is
\* that the lock file was not unlinked since the wait opened it.
RemovalIsSeen ==
  [][\A w \in Rebuilder :
       At(w, "built") /\ At(w, "checked")' /\ me[w].seen /\ me[w].passed = unlinks =>
         content = "index"]_vars

\* The same whatever was unlinked.  False when a number is used again: a wait
\* that found the lock busy has closed its file, so the number it compares may
\* name the lock file of a new index (LockReused.cfg).
RemovalIsAlwaysSeen ==
  [][\A w \in Rebuilder :
       At(w, "built") /\ At(w, "checked")' /\ me[w].seen => content = "index"]_vars

\* The daemon's exit never cuts a transaction of its own short.
NeverCut ==
  [][exited' /\ ~exited => \A w \in Rebuilder : me[w].at \notin {"entered", "writing"}]_vars

\* Every persist ends: whoever cancels or dies, and whatever becomes of the
\* helpers, no wait is left behind.
WaitsEnd == <>[](\A w \in Writer : me[w].at \in Ended)

\* A daemon that closes its gate exits, although other processes may hold
\* the lock.
ExitEnds == closed ~> exited
=============================================================================
