------------------------- MODULE PersistTransaction -------------------------
(***************************************************************************)
(* The durable persist of an index: manifest.json and snapshot.sqry are    *)
(* replaced as a pair by persist_durable_graph_transaction, which sets the *)
(* old pair aside under rollback names, writes the snapshot, and commits   *)
(* by writing the manifest.  Its rollback guard (PersistRollback) puts the *)
(* old pair back when a step fails; when the process dies,                 *)
(* recover_interrupted_persist does so on the next hold of the persist     *)
(* lock.  A reader that finds no manifest waits for that hold              *)
(* (GraphStorage::exists); a wait for the lock asks without it whether a   *)
(* committed index is there (holds_committed_index).                       *)
(*                                                                         *)
(* One step is one file operation: a crash may come between any two.  A    *)
(* crash is the death of the process; what it wrote stays written.         *)
(***************************************************************************)
EXTENDS Naturals

CONSTANTS
  MaxTxn,      \* transactions in a behaviour; each has its tag, in time order
  Faults,      \* what may go wrong, of FaultKind
  Observer,    \* processes that look without the lock, each once: readers
               \* for the manifest, waits for a committed index
  Attempts     \* COMMITTED_READ_ATTEMPTS

\* The names of a rollback set's files, in the order they are removed in.
DiscardOrder == [manifest |-> 1, snapshot |-> 2, partial |-> 3, begun |-> 4, committed |-> 5]
Name == {"manifest", "snapshot", "partial", "begun", "committed"}

\* A crash between two file operations; a transaction's own operation that
\* fails; a put-back of the rollback guard that fails; recovery's put-back
\* of the snapshot, its removal of a new one, or its put-back of the manifest
\* that fails; the removal of the file of that name, which is only logged,
\* that fails.
FaultKind == {"crash", "step", "undo", "put snapshot", "remove new", "put manifest"} \cup Name

ASSUME MaxTxnAssumption == MaxTxn \in Nat
ASSUME FaultsAssumption == Faults \subseteq FaultKind
ASSUME AttemptsAssumption == Attempts \in Nat \ {0}
ASSUME ObserverAssumption == MaxTxn + 1 \notin Observer

Tag  == 1 .. MaxTxn
Ver  == 0 .. MaxTxn            \* 0 is the index found at the start
None == MaxTxn + 1             \* no such file, no such version

\* A snapshot file: whose snapshot it holds, and which transaction copied it
\* (None: it is the file that transaction wrote).  Equal records are one
\* file under two names.
File   == [ver : Ver, by : Tag \cup {None}]
NoFile == [ver |-> None, by |-> None]

\* The files under the rollback names of one tag.  A begun marker says
\* whether there was a snapshot; one cut short says nothing.
Marker == {"none", "empty", "with", "without"}
NoSet  == [manifest |-> None, snapshot |-> NoFile, partial |-> FALSE,
           begun |-> "none", committed |-> FALSE]
RollbackSet == [manifest : Ver \cup {None}, snapshot : File \cup {NoFile},
                partial : BOOLEAN, begun : Marker, committed : BOOLEAN]

VARIABLES
  manifest,    \* manifest.json: the version it describes
  snapshot,    \* snapshot.sqry
  sets,        \* the rollback set of each tag
  pc,          \* what the holder of the persist lock does next; "free": none
  cur,         \* the tag it works on
  existed,     \* PersistRollback.snapshot_existed
  guard,       \* the names the guard holds: manifest_aside, snapshot_aside
  todo,        \* the sets recovery has still to look at
  queue,       \* the names still to remove of the set in hand
  begun,       \* transactions begun so far
  last,        \* the version committed last
  reader,      \* where each reader is, what it found first, and the
               \* transactions begun by then
  hand,        \* the reader the holder recovers for, if any
  probe        \* what each prober has read

files == <<manifest, snapshot, sets>>
held == <<cur, existed, guard, todo, queue>>
history == <<begun, last>>
readers == <<reader, hand>>
vars == <<files, pc, held, history, readers, probe>>

Txn     == {"mark", "aside", "link", "copied", "save", "commit", "committed"}
Undo    == {"undoSnapshot", "undoManifest", "undoMarker"}
Recover == {"recover", "putSnapshot", "putManifest", "discard"}
Pc      == {"free", "held", "clean", "done"} \cup Txn \cup Undo \cup Recover

NoReader == None
ReaderState ==
  [at : {"out", "names", "wait", "look again", "index", "no index", "missed", "gave up", "dead"},
   found : BOOLEAN, came : Ver]

TypeOK ==
  /\ manifest \in Ver \cup {None}
  /\ snapshot \in File \cup {NoFile}
  /\ sets \in [Tag -> RollbackSet]
  /\ pc \in Pc
  /\ cur \in Ver
  /\ existed \in BOOLEAN
  /\ guard \subseteq {"manifest", "snapshot"}
  /\ todo \subseteq Tag
  /\ queue \subseteq Name
  /\ begun \in Ver
  /\ last \in Ver \cup {None}
  /\ reader \in [Observer -> ReaderState]
  /\ hand \in Observer \cup {NoReader}

IdleProbe ==
  [read |-> 0, tries |-> 0, before |-> <<None, NoFile>>, seen |-> [t \in Tag |-> NoSet],
   after |-> <<None, NoFile>>, since |-> None, answer |-> FALSE, sure |-> FALSE]

Init ==
  /\ \/ manifest = None /\ snapshot = NoFile
     \/ manifest = 0 /\ snapshot = [ver |-> 0, by |-> None]
  /\ last = manifest
  /\ sets = [t \in Tag |-> NoSet]
  /\ pc = "free"
  /\ cur = 0
  /\ existed = FALSE
  /\ guard = {}
  /\ todo = {}
  /\ queue = {}
  /\ begun = 0
  /\ reader = [r \in Observer |-> [at |-> "out", found |-> FALSE, came |-> 0]]
  /\ hand = NoReader
  /\ probe = [p \in Observer |-> IdleProbe]

Goto(l) == pc' = l

\* The set in hand without its file n, or with x under that name.
Put(n, x) == sets' = [sets EXCEPT ![cur][n] = x]
Drop(n)   == Put(n, NoSet[n])

\* Whatever the holder kept in memory goes with the hold.
LetGo ==
  /\ Goto("free")
  /\ cur' = 0
  /\ existed' = FALSE
  /\ guard' = {}
  /\ todo' = {}
  /\ queue' = {}

\* A reader goes on once the hold it waited for has recovered the pair; it
\* dies with its process.
Handed(at) ==
  /\ hand' = NoReader
  /\ reader' = IF hand = NoReader THEN reader ELSE [reader EXCEPT ![hand].at = at]

Release ==
  /\ pc \in {"held", "done"}
  /\ LetGo
  /\ Handed("look again")
  /\ UNCHANGED <<files, history, probe>>

\* The process dies.
Crash ==
  /\ "crash" \in Faults
  /\ pc # "free"
  /\ LetGo
  /\ Handed("dead")
  /\ UNCHANGED <<files, history, probe>>

-----------------------------------------------------------------------------
(* Recovery: every fresh hold runs it, and keeps the hold if it fails.      *)

\* Mutant of IsCommitted: the begun marker is taken for the committed one.
IsCommittedByAnyMarker(set, present) == set.begun # "none" \/ present

\* RollbackSet::fate
IsCommitted(set, present) == set.committed \/ present

\* Mutant of SnapshotRestore: what the begun marker says is not read.
SnapshotRestoreUnmarked(set) == IF set.snapshot # NoFile THEN "PutBack" ELSE "Keep"

SnapshotRestore(set) ==
  CASE set.snapshot # NoFile                          -> "PutBack"
    [] set.snapshot = NoFile /\ set.begun = "without" -> "RemoveNew"
    [] OTHER                                          -> "Keep"

\* The lock is taken, by a writer
Take ==
  /\ pc = "free"
  /\ Goto("recover")
  /\ todo' = {t \in Tag : sets[t] # NoSet}
  /\ UNCHANGED <<files, cur, existed, guard, queue, history, readers, probe>>

\* or for a reader, which only recovers.
TakeForReader(r) ==
  /\ pc = "free"
  /\ reader[r].at = "wait"
  /\ Goto("recover")
  /\ todo' = {t \in Tag : sets[t] # NoSet}
  /\ hand' = r
  /\ UNCHANGED <<files, cur, existed, guard, queue, history, reader, probe>>

Names(t) == {n \in Name : sets[t][n] # NoSet[n]}

\* Oldest first.
RecoverNext ==
  /\ pc = "recover"
  /\ \E t \in todo :
       /\ \A u \in todo : t <= u
       /\ cur' = t
       /\ todo' = todo \ {t}
  /\ IF IsCommitted(sets[cur'], manifest # None)
       THEN Goto("discard") /\ queue' = Names(cur')
       ELSE Goto("putSnapshot") /\ UNCHANGED queue
  /\ UNCHANGED <<files, existed, guard, history, readers, probe>>

RecoverEnd ==
  /\ pc = "recover"
  /\ todo = {}
  /\ Goto("held")
  /\ UNCHANGED <<files, held, history, readers, probe>>

\* A rename onto another name of the same file does nothing.
RenameSnapshotBack ==
  /\ snapshot' = sets[cur].snapshot
  /\ IF snapshot = sets[cur].snapshot THEN UNCHANGED sets ELSE Drop("snapshot")

RenameManifestBack ==
  /\ manifest' = sets[cur].manifest
  /\ Drop("manifest")

\* Mutant of PutSnapshot: only the manifest is put back.
PutSnapshotSkipped ==
  /\ pc = "putSnapshot"
  /\ Goto("putManifest")
  /\ UNCHANGED <<files, held, history, readers, probe>>

PutSnapshot ==
  /\ pc = "putSnapshot"
  /\ CASE SnapshotRestore(sets[cur]) = "PutBack"   -> RenameSnapshotBack
       [] SnapshotRestore(sets[cur]) = "RemoveNew" -> snapshot' = NoFile /\ UNCHANGED sets
       [] OTHER                                    -> UNCHANGED <<snapshot, sets>>
  /\ Goto("putManifest")
  /\ UNCHANGED <<manifest, held, history, readers, probe>>

PutManifest ==
  /\ pc = "putManifest"
  /\ IF sets[cur].manifest # None THEN RenameManifestBack ELSE UNCHANGED <<manifest, sets>>
  /\ queue' = {n \in Name : sets'[cur][n] # NoSet[n]}
  /\ Goto(IF queue' = {} THEN "recover" ELSE "discard")
  /\ UNCHANGED <<snapshot, cur, existed, guard, todo, history, readers, probe>>

\* A put-back that fails ends the recovery, not the hold; a reader goes on
\* without an index.
RecoverFails ==
  /\ pc \in {"putSnapshot", "putManifest"}
  /\ (IF pc = "putManifest" THEN "put manifest"
      ELSE IF SnapshotRestore(sets[cur]) = "PutBack" THEN "put snapshot" ELSE "remove new")
       \in Faults
  /\ pc = "putSnapshot" => SnapshotRestore(sets[cur]) # "Keep"
  /\ pc = "putManifest" => sets[cur].manifest # None
  /\ Goto(IF hand = NoReader THEN "held" ELSE "done")
  /\ Handed("gave up")
  /\ UNCHANGED <<files, held, history, probe>>

\* One removal of RollbackSet::discard, of commit or of the guard's Drop.
RemoveNext(next) ==
  /\ \E n \in queue :
       /\ \A m \in queue : DiscardOrder[n] <= DiscardOrder[m]
       /\ Drop(n) \/ (n \in Faults /\ UNCHANGED sets)
       /\ queue' = queue \ {n}
  /\ Goto(IF queue' = {} THEN next ELSE pc)
  /\ UNCHANGED <<manifest, snapshot, cur, existed, guard, todo, history, readers, probe>>

Discard == pc = "discard" /\ RemoveNext("recover")

-----------------------------------------------------------------------------
(* The transaction, under a hold, once per hold.                            *)

\* PersistRollback::begin: the begun marker is created,
Begin ==
  /\ pc = "held"
  /\ hand = NoReader
  /\ begun < MaxTxn
  /\ begun' = begun + 1
  /\ cur' = begun'
  /\ existed' = (snapshot # NoFile)
  /\ guard' = {}
  /\ todo' = {}
  /\ sets' = [sets EXCEPT ![cur'].begun = "empty"]
  /\ Goto("mark")
  /\ UNCHANGED <<manifest, snapshot, queue, last, readers, probe>>

Says == IF existed THEN "with" ELSE "without"

\* written and synced;
WriteMarker ==
  /\ pc = "mark"
  /\ Put("begun", Says)
  /\ Goto("aside")
  /\ UNCHANGED <<manifest, snapshot, held, history, readers, probe>>

\* the guard exists only from here on, so a failure leaves the marker.
MarkerFails ==
  /\ pc = "mark"
  /\ "step" \in Faults
  /\ \E m \in {"empty", Says} : Put("begun", m)
  /\ Goto("done")
  /\ UNCHANGED <<manifest, snapshot, held, history, readers, probe>>

\* The manifest is renamed aside,
SetManifestAside ==
  /\ pc = "aside"
  /\ IF manifest # None
       THEN /\ Put("manifest", manifest)
            /\ manifest' = None
            /\ guard' = guard \cup {"manifest"}
       ELSE UNCHANGED <<manifest, sets, guard>>
  /\ Goto(IF existed THEN "link" ELSE "save")
  /\ UNCHANGED <<snapshot, cur, existed, todo, queue, history, readers, probe>>

\* the snapshot is linked aside,
LinkSnapshot ==
  /\ pc = "link"
  /\ Put("snapshot", snapshot)
  /\ guard' = guard \cup {"snapshot"}
  /\ Goto("save")
  /\ UNCHANGED <<manifest, snapshot, cur, existed, todo, queue, history, readers, probe>>

\* or, where links are not supported, copied under another name first.
CopySnapshot ==
  /\ pc = "link"
  /\ Put("partial", TRUE)
  /\ Goto("copied")
  /\ UNCHANGED <<manifest, snapshot, held, history, readers, probe>>

RenameCopy ==
  /\ pc = "copied"
  /\ sets' = [sets EXCEPT ![cur].partial = FALSE,
                          ![cur].snapshot = [ver |-> snapshot.ver, by |-> cur]]
  /\ guard' = guard \cup {"snapshot"}
  /\ Goto("save")
  /\ UNCHANGED <<manifest, snapshot, cur, existed, todo, queue, history, readers, probe>>

\* save_to_path replaces the snapshot in one rename.
SaveSnapshot ==
  /\ pc = "save"
  /\ snapshot' = [ver |-> cur, by |-> None]
  /\ Goto("commit")
  /\ UNCHANGED <<manifest, sets, held, history, readers, probe>>

\* The commit point: write_manifest_bytes_atomic.
WriteManifest ==
  /\ pc = "commit"
  /\ manifest' = cur
  /\ last' = cur
  /\ Goto("committed")
  /\ UNCHANGED <<snapshot, sets, held, begun, readers, probe>>

\* PersistRollback::commit: the marker is renamed; if it cannot be, it is
\* removed as it is.
MarkCommitted ==
  /\ pc = "committed"
  /\ \/ sets' = [sets EXCEPT ![cur].begun = "none", ![cur].committed = TRUE]
     \/ "step" \in Faults /\ UNCHANGED sets
  /\ queue' = guard \cup {n \in {"begun", "committed"} : sets'[cur][n] # NoSet[n]}
  /\ Goto("clean")
  /\ UNCHANGED <<manifest, snapshot, cur, existed, guard, todo, history, readers, probe>>

Clean == pc = "clean" /\ RemoveNext("done")

-----------------------------------------------------------------------------
(* Drop of the guard before commit: the snapshot, then the manifest, then   *)
(* the marker.                                                              *)

\* A step of the transaction returns an error.  A copy is not left behind.
StepFails ==
  /\ "step" \in Faults
  /\ pc \in {"aside", "link", "copied", "save", "commit"}
  /\ pc = "aside" => manifest # None
  /\ Drop("partial")
  /\ Goto("undoSnapshot")
  /\ UNCHANGED <<manifest, snapshot, held, history, readers, probe>>

UndoSnapshot ==
  /\ pc = "undoSnapshot"
  /\ CASE "snapshot" \in guard -> RenameSnapshotBack
       [] "snapshot" \notin guard /\ ~existed -> snapshot' = NoFile /\ UNCHANGED sets
       [] OTHER -> UNCHANGED <<snapshot, sets>>
  /\ Goto("undoManifest")
  /\ UNCHANGED <<manifest, held, history, readers, probe>>

UndoManifest ==
  /\ pc = "undoManifest"
  /\ IF "manifest" \in guard THEN RenameManifestBack ELSE UNCHANGED <<manifest, sets>>
  /\ queue' = {"begun"}
  /\ Goto("undoMarker")
  /\ UNCHANGED <<snapshot, cur, existed, guard, todo, history, readers, probe>>

UndoMarker == pc = "undoMarker" /\ RemoveNext("done")

\* A put-back that fails leaves the rest aside for recovery.
UndoFails ==
  /\ "undo" \in Faults
  /\ \/ pc = "undoSnapshot" /\ ("snapshot" \in guard \/ ~existed)
     \/ pc = "undoManifest" /\ "manifest" \in guard
  /\ Goto("done")
  /\ UNCHANGED <<files, held, history, readers, probe>>

-----------------------------------------------------------------------------
(* GraphStorage::exists, load_manifest and try_load_manifest.               *)

Move(r, at) == reader' = [reader EXCEPT ![r].at = at]

\* recover_for_reader returns when the manifest is there,
Look(r) ==
  /\ reader[r].at = "out"
  /\ probe[r].read = 0
  /\ reader' = [reader EXCEPT ![r] =
       [at |-> IF manifest # None THEN "look again" ELSE "names",
        found |-> manifest # None, came |-> begun]]
  /\ UNCHANGED <<files, pc, held, history, hand, probe>>

\* Mutant of LookForNames: the rollback names are not looked for.
LookForNothing(r) ==
  /\ reader[r].at = "names"
  /\ Move(r, "look again")
  /\ UNCHANGED <<files, pc, held, history, hand, probe>>

\* or when there is no rollback name, and otherwise takes the lock.
LookForNames(r) ==
  /\ reader[r].at = "names"
  /\ Move(r, IF \E t \in Tag : sets[t] # NoSet THEN "wait" ELSE "look again")
  /\ UNCHANGED <<files, pc, held, history, hand, probe>>

LookAgain(r) ==
  /\ reader[r].at = "look again"
  /\ Move(r, IF manifest # None THEN "index" ELSE
             IF last = None THEN "no index" ELSE "missed")
  /\ UNCHANGED <<files, pc, held, history, hand, probe>>

-----------------------------------------------------------------------------
(* holds_committed_index, without the lock.                                 *)

\* RollbackListing::leaves_an_index: whether a recovery over the sets seen
\* leaves a manifest or a snapshot.
LeavesAnIndex(seen, m, s) ==
  LET after[t \in Ver] ==
        IF t = 0 THEN [m |-> m, s |-> s]
        ELSE LET was == after[t - 1] IN
             IF seen[t] = NoSet \/ IsCommitted(seen[t], was.m) THEN was
             ELSE [m |-> was.m \/ seen[t].manifest # None,
                   s |-> CASE SnapshotRestore(seen[t]) = "PutBack"   -> TRUE
                           [] SnapshotRestore(seen[t]) = "RemoveNew" -> FALSE
                           [] OTHER                                  -> was.s]
  IN  after[MaxTxn].m \/ after[MaxTxn].s

ProbeStart(p) ==
  /\ probe[p].read = 0
  /\ reader[p].at = "out"
  /\ probe' = [probe EXCEPT ![p] = [IdleProbe EXCEPT !.read = 1, !.tries = 1, !.since = last]]
  /\ UNCHANGED <<files, pc, held, history, readers>>

\* The manifest and the snapshot are opened, so that neither can be taken for
\* a file written later; then the names are listed.
ProbeRead(p) ==
  /\ probe[p].read \in {1, 2, 3, 5}
  /\ LET q == [probe[p] EXCEPT !.read = @ + 1] IN
       probe' = [probe EXCEPT ![p] =
         CASE probe[p].read = 1 -> [q EXCEPT !.before[1] = manifest]
           [] probe[p].read = 2 -> [q EXCEPT !.before[2] = snapshot]
           [] probe[p].read = 3 -> [q EXCEPT !.seen = sets]
           [] probe[p].read = 5 -> [q EXCEPT !.after[1] = manifest]]
  /\ UNCHANGED <<files, pc, held, history, readers>>

\* The listing is no single read: it sees some names as they were when it
\* began and the others as they are now.
ProbeList(p) ==
  /\ probe[p].read = 4
  /\ \E K \in SUBSET {"manifest", "snapshot", "begun", "committed"} :
       probe' = [probe EXCEPT
         ![p].seen = [t \in Tag |-> [n \in DOMAIN NoSet |->
                       IF n \in K THEN sets[t][n] ELSE @[t][n]]],
         ![p].read = 5]
  /\ UNCHANGED <<files, pc, held, history, readers>>

\* Mutant of ProbeAnswer: the files are not compared with the first look.
ProbeAnswerUnchecked(p) ==
  LET q == [probe[p] EXCEPT !.after[2] = snapshot] IN
  /\ q.read = 6
  /\ probe' = [probe EXCEPT ![p] =
       [IdleProbe EXCEPT
          !.answer = LeavesAnIndex(q.seen, q.after[1] # None, q.after[2] # NoFile),
          !.sure   = TRUE,
          !.since  = q.since,
          !.read   = 7]]
  /\ UNCHANGED <<files, pc, held, history, readers>>

\* The answer stands when neither file changed; otherwise everything is read
\* again, and the last attempt's answer stands anyway.
ProbeAnswer(p) ==
  LET q    == [probe[p] EXCEPT !.after[2] = snapshot]
      same == q.before = q.after
  IN
  /\ q.read = 6
  /\ probe' = [probe EXCEPT ![p] =
       [IdleProbe EXCEPT
          !.answer = LeavesAnIndex(q.seen, q.after[1] # None, q.after[2] # NoFile),
          !.sure   = same,
          !.since  = q.since,
          !.read   = IF same \/ q.tries = Attempts THEN 7 ELSE 1,
          !.tries  = IF same \/ q.tries = Attempts THEN q.tries ELSE q.tries + 1]]
  /\ UNCHANGED <<files, pc, held, history, readers>>

-----------------------------------------------------------------------------
Next ==
  \/ Take \/ RecoverNext \/ RecoverEnd \/ PutSnapshot \/ PutManifest
  \/ RecoverFails \/ Discard \/ Release \/ Crash
  \/ Begin \/ WriteMarker \/ MarkerFails \/ SetManifestAside \/ LinkSnapshot
  \/ CopySnapshot \/ RenameCopy \/ SaveSnapshot \/ WriteManifest
  \/ MarkCommitted \/ Clean
  \/ StepFails \/ UndoSnapshot \/ UndoManifest \/ UndoMarker \/ UndoFails
  \/ \E r \in Observer : TakeForReader(r) \/ Look(r) \/ LookForNames(r) \/ LookAgain(r)
  \/ \E p \in Observer : ProbeStart(p) \/ ProbeRead(p) \/ ProbeList(p) \/ ProbeAnswer(p)

Spec == Init /\ [][Next]_vars

-----------------------------------------------------------------------------
(* Properties.                                                              *)

\* The pair is never torn: a manifest in place describes the snapshot beside
\* it, in every state of a transaction, its rollback and a recovery.
NeverTorn == manifest # None => snapshot.ver = manifest

\* A recovery that has been through every set leaves the pair committed
\* last, and no index at all when nothing was committed.
RecoveryRestores ==
  pc = "recover" /\ todo = {} => manifest = last /\ snapshot.ver = last

\* While a committed index has its manifest set aside, a rollback name says
\* so: a reader that finds no manifest waits instead of reading no index.
WindowIsMarked ==
  (manifest = None /\ last # None) => \E t \in Tag : sets[t] # NoSet

\* A reader that came into the window of a transaction, cut short or under
\* way, is not told that there is no index: the window is put back or waited
\* out, and it can only miss the index in the window of a later one.
WindowIsWaitedOut ==
  \A r \in Observer :
    reader[r].at = "missed" /\ ~reader[r].found => reader[r].came < begun

\* An answer of holds_committed_index given over an unchanged pair was right
\* at some moment of the read: false only if nothing was committed when it
\* began, true only if something is committed now.
ProbeIsRight ==
  \A p \in Observer : probe[p].read = 7 /\ probe[p].sure =>
    IF probe[p].answer THEN last # None ELSE probe[p].since = None
=============================================================================
