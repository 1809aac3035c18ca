----------------------- MODULE PersistTransaction_proofs -----------------------
(***************************************************************************)
(* Proofs about PersistTransaction, for any number of transactions and any *)
(* observers.                                                              *)
(***************************************************************************)
EXTENDS PersistTransaction, TLAPS

\* What may go wrong: crashes between any two file operations, a failing step of
\* a transaction, a failing put-back of the guard, recovery's put-back of a
\* snapshot, and the removal of a committed marker or of an unfinished copy.
\* The pair is not safe from the others (PersistTorn.cfg has one).
Harmed == {"put manifest", "remove new", "manifest", "snapshot", "begun"}
Bearable == Faults \cap Harmed = {}

(***************************************************************************)
(* The inductive invariant.                                                *)
(***************************************************************************)

\* A set that puts nothing back and removes nothing, whenever it is recovered.
Bare(S)     == S.manifest = None /\ S.snapshot = NoFile /\ S.begun = "none"
Harmless(S) == S.committed \/ Bare(S)

\* A set from which recovery restores the pair committed last.
Restores(S) ==
  /\ ~S.committed
  /\ last # None /\ S.manifest = last
  /\ S.begun # "without"
  /\ S.snapshot # NoFile => S.snapshot.ver = last
  /\ S.snapshot = NoFile => snapshot.ver = last

\* Recovery gets to the set that restores the pair before any that could harm.
Restored(t) ==
  /\ t \in Tag
  /\ Restores(sets[t])
  /\ \A u \in Tag : u < t => Harmless(sets[u])

\* Before the first commit there is nothing to put back.
Void(S) == ~S.committed /\ S.manifest = None /\ S.snapshot = NoFile

\* The files alone say how to get to the pair committed last, whatever the
\* holder of the lock was about to do.
PairIsLast == manifest # None => manifest = last /\ snapshot.ver = last
WindowCloses == manifest = None /\ last # None => \E t \in Tag : Restored(t)
NothingCommitted ==
  last = None => /\ \A t \in Tag : Void(sets[t])
                 /\ snapshot = NoFile \/ \E t \in Tag : sets[t].begun = "without"
Unborn == \A t \in Tag : begun < t => sets[t] = NoSet

\* Recovery: the sets it is through with are harmless, and the one in hand
\* comes before those it has still to look at.
Through ==
  pc \in Recover =>
    \A u \in Tag : u \notin todo /\ (pc # "recover" => u # cur) => Harmless(sets[u])
InHand ==
  pc \in {"putSnapshot", "putManifest", "discard"} =>
    /\ cur \in Tag
    /\ \A u \in todo : cur < u
PuttingBack ==
  pc \in {"putSnapshot", "putManifest"} => manifest = None /\ ~sets[cur].committed
SnapshotIsBack ==
  /\ pc = "putManifest" /\ Restores(sets[cur]) => snapshot.ver = last
  /\ pc \in {"putManifest", "discard"} /\ last = None =>
       snapshot = NoFile \/ \E t \in todo : sets[t].begun = "without"
Discarding ==
  pc = "discard" =>
    /\ \A n \in {"manifest", "snapshot", "begun"} : sets[cur][n] # NoSet[n] => n \in queue
    /\ manifest = None /\ last # None => Harmless(sets[cur])

\* A hold on which a transaction may begin has the pair in place, or a set with
\* both halves of it that an unfinished recovery has left.
Aside == manifest = None /\ \E t \in Tag : t <= begun /\ Restored(t) /\ sets[t].snapshot # NoFile
InPlace == manifest = last /\ snapshot.ver = last /\ \A u \in Tag : Harmless(sets[u])
HeldOK == pc = "held" => InPlace \/ Aside

\* A transaction over a pair still aside leaves that pair alone until its commit.
OverAside ==
  /\ manifest = None /\ "manifest" \notin guard /\ sets[cur].manifest = None
  /\ \E t \in Tag : t < cur /\ Restored(t) /\ sets[t].snapshot # NoFile

\* A transaction over a pair in place: what it has set aside at each step.
OverPair ==
  /\ \A u \in Tag : u # cur => Harmless(sets[u])
  /\ ~sets[cur].committed
  /\ existed = (last # None)
  /\ pc \in {"mark", "aside"} =>
       /\ manifest = last /\ snapshot.ver = last /\ guard = {}
       /\ sets[cur].manifest = None /\ sets[cur].snapshot = NoFile
       /\ pc = "aside" => sets[cur].begun = Says
  /\ pc \in {"link", "copied"} =>
       /\ last # None /\ manifest = None /\ snapshot.ver = last /\ guard = {"manifest"}
       /\ sets[cur].manifest = last /\ sets[cur].snapshot = NoFile /\ sets[cur].begun = "with"
  /\ pc \in {"save", "commit"} =>
       /\ manifest = None
       /\ last # None => /\ guard = {"manifest", "snapshot"} /\ sets[cur].manifest = last
                         /\ sets[cur].snapshot # NoFile /\ sets[cur].snapshot.ver = last
                         /\ sets[cur].begun = "with"
       /\ last = None => guard = {} /\ sets[cur].begun = "without"
  /\ pc = "undoSnapshot" =>
       /\ "manifest" \notin guard => guard = {} /\ manifest = last
       /\ "manifest" \in guard => Restores(sets[cur]) /\ manifest = None
       /\ "snapshot" \in guard <=> sets[cur].snapshot # NoFile
  /\ pc = "undoManifest" =>
       /\ snapshot.ver = last
       /\ "manifest" \notin guard => manifest = last
       /\ "manifest" \in guard => Restores(sets[cur]) /\ manifest = None
  /\ pc = "undoMarker" => manifest = last /\ snapshot.ver = last

TxnOK ==
  /\ pc \in Txn \cup Undo => cur \in Tag /\ cur = begun
  /\ pc \in (Txn \cup Undo) \ {"committed"} => OverAside \/ OverPair
  /\ pc \in {"mark", "aside"} /\ existed => snapshot # NoFile
  /\ pc \in {"link", "copied"} => snapshot # NoFile
  /\ pc = "commit" => snapshot.ver = cur
  /\ pc \in {"committed", "clean"} => manifest # None /\ cur \in Tag /\ cur = begun
  /\ pc = "undoMarker" => queue \subseteq {"begun"}

\* A reader is in hand only for a recovery, and is let go only with the pair.
HandOK ==
  hand # NoReader => /\ pc \in Recover \cup {"held"}
                     /\ pc = "held" => manifest = last
                     /\ reader[hand].at = "wait"

ReaderOK(k) ==
  /\ k.came <= begun
  /\ ~k.found =>
       /\ k.at = "look again" => k.came < begun \/ manifest # None \/ last = None
       /\ k.at \in {"names", "wait", "look again"} /\ k.came = begun /\ pc \in {"mark", "aside"} =>
            manifest = None
       /\ k.at = "missed" => k.came < begun

\* The types of what the holder of the lock works on.
DiskType ==
  /\ manifest \in Ver \cup {None} /\ snapshot \in File \cup {NoFile}
  /\ sets \in [Tag -> RollbackSet]
  /\ pc \in Pc /\ cur \in Ver /\ existed \in BOOLEAN
  /\ guard \subseteq {"manifest", "snapshot"} /\ todo \subseteq Tag /\ queue \subseteq Name
  /\ begun \in Ver /\ last \in Ver \cup {None}

FilesOK == PairIsLast /\ WindowCloses /\ NothingCommitted /\ Unborn
RecoverOK == Through /\ InHand /\ PuttingBack /\ SnapshotIsBack /\ Discarding

DiskInv == DiskType /\ FilesOK /\ RecoverOK /\ HeldOK /\ TxnOK

ReaderInv ==
  /\ reader \in [Observer -> ReaderState] /\ hand \in Observer \cup {NoReader}
  /\ HandOK
  /\ \A r \in Observer : ReaderOK(reader[r])

PersistInv == DiskInv /\ ReaderInv

(***************************************************************************)
(* Versions, files and sets.                                               *)
(***************************************************************************)

LEMMA VersionFacts ==
  /\ None \notin Ver /\ None \notin Tag
  /\ Tag \subseteq Ver /\ Ver \subseteq Nat /\ Tag \subseteq Nat
  /\ 0 \in Ver /\ 0 \notin Tag
BY MaxTxnAssumption DEF Ver, Tag, None

LEMMA VersionOrder == \A v \in Ver : v <= v
BY VersionFacts

\* Only a missing snapshot has no version.
LEMMA FileFacts ==
  /\ NoFile.ver = None
  /\ \A f \in File : f.ver \in Ver /\ f # NoFile
  /\ \A f \in File \cup {NoFile} : f.ver = None <=> f = NoFile
<1>1. NoFile.ver = None
  BY DEF NoFile
<1>2. \A f \in File : f.ver \in Ver
  BY DEF File
<1> QED BY <1>1, <1>2, VersionFacts

LEMMA NoSetFacts ==
  /\ NoSet \in RollbackSet
  /\ NoSet.manifest = None /\ NoSet.snapshot = NoFile /\ NoSet.partial = FALSE
  /\ NoSet.begun = "none" /\ NoSet.committed = FALSE
BY DEF NoSet, RollbackSet, Marker

\* A set with one file changed.
LEMMA SetUpdate ==
  ASSUME NEW S \in RollbackSet
  PROVE  /\ \A v \in Ver \cup {None} : [S EXCEPT !.manifest = v] \in RollbackSet
         /\ \A f \in File \cup {NoFile} : [S EXCEPT !.snapshot = f] \in RollbackSet
         /\ \A b \in BOOLEAN : /\ [S EXCEPT !.partial = b] \in RollbackSet
                               /\ [S EXCEPT !.committed = b] \in RollbackSet
         /\ \A m \in Marker : [S EXCEPT !.begun = m] \in RollbackSet
BY DEF RollbackSet

LEMMA SetType ==
  ASSUME NEW S \in RollbackSet
  PROVE  /\ S.manifest \in Ver \cup {None} /\ S.snapshot \in File \cup {NoFile}
         /\ S.begun \in Marker /\ S.partial \in BOOLEAN /\ S.committed \in BOOLEAN
BY DEF RollbackSet

LEMMA PutFacts ==
  ASSUME sets \in [Tag -> RollbackSet], cur \in Tag, NEW S \in RollbackSet,
         sets' = [sets EXCEPT ![cur] = S]
  PROVE  /\ sets' \in [Tag -> RollbackSet] /\ sets'[cur] = S
         /\ \A u \in Tag : u # cur => sets'[u] = sets[u]
OBVIOUS

(***************************************************************************)
(* What the place of the holder leaves out.                                *)
(***************************************************************************)

LEMMA IdlePlace ==
  ASSUME pc' \in {"free", "done"}
  PROVE  RecoverOK' /\ HeldOK' /\ TxnOK'
<1>1. RecoverOK'
  BY DEF RecoverOK, Through, InHand, PuttingBack, SnapshotIsBack, Discarding, Recover
<1>2. HeldOK' /\ TxnOK'
  BY DEF HeldOK, TxnOK, Txn, Undo
<1> QED BY <1>1, <1>2

LEMMA TxnPlace ==
  ASSUME pc' \in Txn \cup Undo \cup {"clean"}
  PROVE  RecoverOK' /\ HeldOK'
<1>1. RecoverOK'
  BY DEF RecoverOK, Through, InHand, PuttingBack, SnapshotIsBack, Discarding, Recover, Txn, Undo
<1>2. HeldOK'
  BY DEF HeldOK, Txn, Undo
<1> QED BY <1>1, <1>2

LEMMA RecoverPlace ==
  ASSUME pc' \in Recover
  PROVE  HeldOK' /\ TxnOK'
BY DEF HeldOK, TxnOK, Txn, Undo, Recover

\* The files say the same as long as they do not change.
LEMMA FilesKept ==
  ASSUME FilesOK, UNCHANGED <<manifest, snapshot, sets, begun, last>>
  PROVE  FilesOK'
<1>1. PairIsLast' /\ Unborn'
  BY DEF FilesOK, PairIsLast, Unborn
<1>2. WindowCloses'
  BY DEF FilesOK, WindowCloses, Restored, Restores
<1>3. NothingCommitted'
  BY DEF FilesOK, NothingCommitted
<1> QED BY <1>1, <1>2, <1>3 DEF FilesOK

\* A set that restores the pair is not harmless, and neither is one that says
\* that there was no snapshot.
LEMMA NotHarmless ==
  ASSUME NEW S \in RollbackSet
  PROVE  /\ Restores(S) => ~Harmless(S)
         /\ Void(S) /\ S.begun = "without" => ~Harmless(S)
BY DEF Restores, Harmless, Void, Bare

(***************************************************************************)
(* One file put under, or removed from, a rollback name.                   *)
(***************************************************************************)

LEMMA PutAny ==
  ASSUME sets \in [Tag -> RollbackSet], cur \in Tag, NEW n, NEW x, Put(n, x),
         [sets[cur] EXCEPT ![n] = x] \in RollbackSet
  PROVE  /\ sets' \in [Tag -> RollbackSet] /\ sets'[cur] = [sets[cur] EXCEPT ![n] = x]
         /\ \A u \in Tag : u # cur => sets'[u] = sets[u]
BY DEF Put

LEMMA PutBegun ==
  ASSUME sets \in [Tag -> RollbackSet], cur \in Tag, NEW m \in Marker, Put("begun", m)
  PROVE  /\ sets' \in [Tag -> RollbackSet]
         /\ \A u \in Tag : u # cur => sets'[u] = sets[u]
         /\ sets'[cur].begun = m /\ sets'[cur].manifest = sets[cur].manifest
         /\ sets'[cur].snapshot = sets[cur].snapshot /\ sets'[cur].partial = sets[cur].partial
         /\ sets'[cur].committed = sets[cur].committed
<1>1. sets[cur] \in RollbackSet
  OBVIOUS
<1>2. [sets[cur] EXCEPT !.begun = m] \in RollbackSet
  BY <1>1, SetUpdate
<1>3. /\ sets' \in [Tag -> RollbackSet] /\ sets'[cur] = [sets[cur] EXCEPT !.begun = m]
      /\ \A u \in Tag : u # cur => sets'[u] = sets[u]
  BY <1>2, PutAny
<1> QED BY <1>1, <1>3 DEF RollbackSet

LEMMA PutManifestName ==
  ASSUME sets \in [Tag -> RollbackSet], cur \in Tag, NEW v \in Ver \cup {None}, Put("manifest", v)
  PROVE  /\ sets' \in [Tag -> RollbackSet]
         /\ \A u \in Tag : u # cur => sets'[u] = sets[u]
         /\ sets'[cur].manifest = v /\ sets'[cur].begun = sets[cur].begun
         /\ sets'[cur].snapshot = sets[cur].snapshot /\ sets'[cur].partial = sets[cur].partial
         /\ sets'[cur].committed = sets[cur].committed
<1>1. sets[cur] \in RollbackSet
  OBVIOUS
<1>2. [sets[cur] EXCEPT !.manifest = v] \in RollbackSet
  BY <1>1, SetUpdate
<1>3. /\ sets' \in [Tag -> RollbackSet] /\ sets'[cur] = [sets[cur] EXCEPT !.manifest = v]
      /\ \A u \in Tag : u # cur => sets'[u] = sets[u]
  BY <1>2, PutAny
<1> QED BY <1>1, <1>3 DEF RollbackSet

LEMMA PutSnapshotName ==
  ASSUME sets \in [Tag -> RollbackSet], cur \in Tag, NEW f \in File \cup {NoFile},
         Put("snapshot", f)
  PROVE  /\ sets' \in [Tag -> RollbackSet]
         /\ \A u \in Tag : u # cur => sets'[u] = sets[u]
         /\ sets'[cur].snapshot = f /\ sets'[cur].begun = sets[cur].begun
         /\ sets'[cur].manifest = sets[cur].manifest /\ sets'[cur].partial = sets[cur].partial
         /\ sets'[cur].committed = sets[cur].committed
<1>1. sets[cur] \in RollbackSet
  OBVIOUS
<1>2. [sets[cur] EXCEPT !.snapshot = f] \in RollbackSet
  BY <1>1, SetUpdate
<1>3. /\ sets' \in [Tag -> RollbackSet] /\ sets'[cur] = [sets[cur] EXCEPT !.snapshot = f]
      /\ \A u \in Tag : u # cur => sets'[u] = sets[u]
  BY <1>2, PutAny
<1> QED BY <1>1, <1>3 DEF RollbackSet

LEMMA PutPartial ==
  ASSUME sets \in [Tag -> RollbackSet], cur \in Tag, NEW b \in BOOLEAN, Put("partial", b)
  PROVE  /\ sets' \in [Tag -> RollbackSet]
         /\ \A u \in Tag : u # cur => sets'[u] = sets[u]
         /\ sets'[cur].snapshot = sets[cur].snapshot /\ sets'[cur].begun = sets[cur].begun
         /\ sets'[cur].manifest = sets[cur].manifest
         /\ sets'[cur].committed = sets[cur].committed
<1>1. sets[cur] \in RollbackSet
  OBVIOUS
<1>2. [sets[cur] EXCEPT !.partial = b] \in RollbackSet
  BY <1>1, SetUpdate
<1>3. /\ sets' \in [Tag -> RollbackSet] /\ sets'[cur] = [sets[cur] EXCEPT !.partial = b]
      /\ \A u \in Tag : u # cur => sets'[u] = sets[u]
  BY <1>2, PutAny
<1> QED BY <1>1, <1>3 DEF RollbackSet

LEMMA PutCommitted ==
  ASSUME sets \in [Tag -> RollbackSet], cur \in Tag, NEW b \in BOOLEAN, Put("committed", b)
  PROVE  /\ sets' \in [Tag -> RollbackSet]
         /\ \A u \in Tag : u # cur => sets'[u] = sets[u]
         /\ sets'[cur].snapshot = sets[cur].snapshot /\ sets'[cur].begun = sets[cur].begun
         /\ sets'[cur].manifest = sets[cur].manifest
         /\ sets'[cur].committed = b
<1>1. sets[cur] \in RollbackSet
  OBVIOUS
<1>2. [sets[cur] EXCEPT !.committed = b] \in RollbackSet
  BY <1>1, SetUpdate
<1>3. /\ sets' \in [Tag -> RollbackSet] /\ sets'[cur] = [sets[cur] EXCEPT !.committed = b]
      /\ \A u \in Tag : u # cur => sets'[u] = sets[u]
  BY <1>2, PutAny
<1> QED BY <1>1, <1>3 DEF RollbackSet

(***************************************************************************)
(* The steps that change no file.                                          *)
(***************************************************************************)

LEMMA LetGoKeeps ==
  ASSUME DiskInv, Release \/ Crash
  PROVE  DiskInv'
<1>1. UNCHANGED <<manifest, snapshot, sets, begun, last>> /\ LetGo
  BY DEF Release, Crash, files, history
<1>2. FilesOK'
  BY <1>1, FilesKept DEF DiskInv
<1>3. DiskType'
  BY <1>1, VersionFacts DEF DiskInv, DiskType, LetGo, Goto, Pc
<1>4. pc' = "free"
  BY <1>1 DEF LetGo, Goto
<1> QED BY <1>2, <1>3, <1>4, IdlePlace DEF DiskInv

LEMMA UndoFailsKeeps ==
  ASSUME DiskInv, UndoFails
  PROVE  DiskInv'
<1>1. UNCHANGED <<manifest, snapshot, sets, cur, existed, guard, todo, queue, begun, last>>
      /\ pc' = "done"
  BY DEF UndoFails, files, held, history, Goto
<1>2. FilesOK'
  BY <1>1, FilesKept DEF DiskInv
<1>3. DiskType'
  BY <1>1 DEF DiskInv, DiskType, Pc
<1> QED BY <1>1, <1>2, <1>3, IdlePlace DEF DiskInv

\* A set that holds no file is harmless.
LEMMA EmptyIsHarmless == Harmless(NoSet)
BY NoSetFacts DEF Harmless, Bare

LEMMA TakeKeeps ==
  ASSUME DiskInv, Take \/ \E r \in Observer : TakeForReader(r)
  PROVE  DiskInv'
<1>1. /\ UNCHANGED <<manifest, snapshot, sets, cur, existed, guard, queue, begun, last>>
      /\ pc' = "recover" /\ todo' = {t \in Tag : sets[t] # NoSet}
  BY DEF Take, TakeForReader, files, history, Goto
<1>2. FilesOK'
  BY <1>1, FilesKept DEF DiskInv
<1>3. DiskType'
  BY <1>1 DEF DiskInv, DiskType, Pc, Recover
<1>4. Through'
  BY <1>1, EmptyIsHarmless DEF Through
<1>5. RecoverOK'
  BY <1>1, <1>4 DEF RecoverOK, InHand, PuttingBack, SnapshotIsBack, Discarding
<1>6. HeldOK' /\ TxnOK'
  BY <1>1, RecoverPlace DEF Recover
<1> QED BY <1>2, <1>3, <1>5, <1>6 DEF DiskInv

LEMMA RecoverNextKeeps ==
  ASSUME DiskInv, RecoverNext
  PROVE  DiskInv'
<1>1. /\ UNCHANGED <<manifest, snapshot, sets, existed, guard, begun, last>> /\ pc = "recover"
      /\ IF IsCommitted(sets[cur'], manifest # None)
           THEN pc' = "discard" /\ queue' = Names(cur')
           ELSE pc' = "putSnapshot" /\ UNCHANGED queue
  BY DEF RecoverNext, files, history, Goto
<1>2. PICK t \in todo : (\A u \in todo : t <= u) /\ cur' = t /\ todo' = todo \ {t}
  BY DEF RecoverNext
<1>3. /\ t \in Tag /\ todo \subseteq Tag /\ sets \in [Tag -> RollbackSet]
      /\ manifest \in Ver \cup {None} /\ last \in Ver \cup {None}
  BY <1>2 DEF DiskInv, DiskType
<1>4. FilesOK'
  BY <1>1, FilesKept DEF DiskInv
<1>5. DiskType'
  <2>1. Names(cur') \subseteq Name
    BY DEF Names
  <2>2. cur' \in Ver /\ todo' \subseteq Tag
    BY <1>2, <1>3, VersionFacts
  <2>3. queue' \subseteq Name /\ pc' \in Pc
    BY <1>1, <2>1 DEF DiskInv, DiskType, Pc, Recover
  <2> QED BY <1>1, <2>2, <2>3 DEF DiskInv, DiskType
<1>6. Through'
  BY <1>1, <1>2 DEF DiskInv, RecoverOK, Through, Recover
<1>7. InHand'
  BY <1>2, <1>3, VersionFacts DEF InHand
<1>8. CASE IsCommitted(sets[t], manifest # None)
  <2>1. pc' = "discard" /\ queue' = Names(t)
    BY <1>1, <1>2, <1>8
  <2>2. last # None
    <3>1. last = None => manifest = None
      BY DEF DiskInv, FilesOK, PairIsLast
    <3>2. last = None => ~sets[t].committed
      BY <1>3 DEF DiskInv, FilesOK, NothingCommitted, Void
    <3> QED BY <1>8, <3>1, <3>2 DEF IsCommitted
  <2>3. SnapshotIsBack'
    BY <1>1, <2>1, <2>2 DEF SnapshotIsBack
  <2>4. Discarding'
    <3>1. manifest = None => Harmless(sets[t])
      BY <1>8 DEF IsCommitted, Harmless
    <3> QED BY <1>1, <1>2, <2>1, <3>1 DEF Discarding, Names, Name
  <2>5. PuttingBack'
    BY <2>1 DEF PuttingBack
  <2>6. HeldOK' /\ TxnOK'
    BY <2>1, RecoverPlace DEF Recover
  <2> QED BY <1>4, <1>5, <1>6, <1>7, <2>3, <2>4, <2>5, <2>6 DEF DiskInv, RecoverOK
<1>9. CASE ~IsCommitted(sets[t], manifest # None)
  <2>1. pc' = "putSnapshot"
    BY <1>1, <1>2, <1>9
  <2>2. SnapshotIsBack' /\ Discarding'
    BY <2>1 DEF SnapshotIsBack, Discarding
  <2>3. PuttingBack'
    BY <1>1, <1>2, <1>9 DEF PuttingBack, IsCommitted
  <2>4. HeldOK' /\ TxnOK'
    BY <2>1, RecoverPlace DEF Recover
  <2> QED BY <1>4, <1>5, <1>6, <1>7, <2>2, <2>3, <2>4 DEF DiskInv, RecoverOK
<1> QED BY <1>8, <1>9

\* Once every set is harmless the pair committed last is in place.
LEMMA AllHarmless ==
  ASSUME DiskType, FilesOK, \A u \in Tag : Harmless(sets[u])
  PROVE  InPlace
<1>1. \A u \in Tag : sets[u] \in RollbackSet
  BY DEF DiskType
<1>2. ~(manifest = None /\ last # None)
  <2>1. \A t \in Tag : ~Restored(t)
    BY <1>1, NotHarmless DEF Restored
  <2> QED BY <2>1 DEF FilesOK, WindowCloses
<1>3. CASE manifest # None
  BY <1>3 DEF FilesOK, PairIsLast, InPlace
<1>4. CASE manifest = None
  <2>1. last = None
    BY <1>2, <1>4
  <2>2. \A t \in Tag : sets[t].begun # "without"
    BY <1>1, <2>1, NotHarmless DEF FilesOK, NothingCommitted
  <2>3. snapshot = NoFile
    BY <2>1, <2>2 DEF FilesOK, NothingCommitted
  <2> QED BY <1>4, <2>1, <2>3, FileFacts DEF InPlace
<1> QED BY <1>3, <1>4

LEMMA RecoverEndKeeps ==
  ASSUME DiskInv, RecoverEnd
  PROVE  DiskInv'
<1>1. /\ UNCHANGED <<manifest, snapshot, sets, cur, existed, guard, todo, queue, begun, last>>
      /\ pc = "recover" /\ pc' = "held" /\ todo = {}
  BY DEF RecoverEnd, files, held, history, Goto
<1>2. FilesOK'
  BY <1>1, FilesKept DEF DiskInv
<1>3. DiskType'
  BY <1>1 DEF DiskInv, DiskType, Pc
<1>4. \A u \in Tag : Harmless(sets[u])
  BY <1>1 DEF DiskInv, RecoverOK, Through, Recover
<1>5. InPlace
  BY <1>4, AllHarmless DEF DiskInv
<1>6. HeldOK'
  BY <1>1, <1>5 DEF HeldOK, InPlace
<1>7. RecoverOK'
  BY <1>1 DEF RecoverOK, Through, InHand, PuttingBack, SnapshotIsBack, Discarding, Recover
<1>8. TxnOK'
  BY <1>1 DEF TxnOK, Txn, Undo
<1> QED BY <1>2, <1>3, <1>6, <1>7, <1>8 DEF DiskInv

\* The only set with files in hand is the one that restores the pair.
LEMMA InHandRestores ==
  ASSUME DiskInv, pc \in {"putSnapshot", "putManifest"}, ~Harmless(sets[cur]), last # None
  PROVE  Restored(cur) /\ cur \in Tag /\ cur <= begun
<1>1. /\ cur \in Tag /\ (\A u \in todo : cur < u) /\ todo \subseteq Tag
      /\ sets \in [Tag -> RollbackSet] /\ begun \in Ver /\ manifest = None
  BY DEF DiskInv, RecoverOK, InHand, PuttingBack, DiskType
<1>2. \A u \in Tag : u \notin todo /\ u # cur => Harmless(sets[u])
  BY DEF DiskInv, RecoverOK, Through, Recover
<1>3. PICK t \in Tag : Restored(t)
  BY <1>1 DEF DiskInv, FilesOK, WindowCloses
<1>4. ~Harmless(sets[t])
  BY <1>1, <1>3, NotHarmless DEF Restored
<1>5. t = cur
  <2>1. t \in todo => cur < t
    BY <1>1
  <2>2. ~(cur < t)
    BY <1>1, <1>3 DEF Restored
  <2> QED BY <1>2, <1>4, <2>1, <2>2
<1>6. ~(begun < cur)
  BY <1>1, EmptyIsHarmless DEF DiskInv, FilesOK, Unborn
<1> QED BY <1>1, <1>3, <1>5, <1>6, VersionFacts

LEMMA RecoverFailsKeeps ==
  ASSUME DiskInv, Bearable, RecoverFails
  PROVE  DiskInv'
<1>1. /\ UNCHANGED <<manifest, snapshot, sets, cur, existed, guard, todo, queue, begun, last>>
      /\ pc \in {"putSnapshot", "putManifest"} /\ pc' \in {"held", "done"}
  BY DEF RecoverFails, files, held, history, Goto
<1>2. FilesOK'
  BY <1>1, FilesKept DEF DiskInv
<1>3. DiskType'
  BY <1>1 DEF DiskInv, DiskType, Pc
<1>4. pc = "putSnapshot" /\ SnapshotRestore(sets[cur]) = "PutBack"
  BY DEF RecoverFails, Bearable, Harmed
<1>5. sets[cur].snapshot # NoFile
  BY <1>4 DEF SnapshotRestore
<1>6. manifest = None /\ ~sets[cur].committed /\ cur \in Tag
  BY <1>4 DEF DiskInv, RecoverOK, PuttingBack, InHand
<1>7. last # None
  BY <1>5, <1>6 DEF DiskInv, FilesOK, NothingCommitted, Void
<1>8. ~Harmless(sets[cur])
  BY <1>5, <1>6 DEF Harmless, Bare
<1>9. Aside
  BY <1>1, <1>5, <1>6, <1>7, <1>8, InHandRestores DEF Aside
<1>10. CASE pc' = "done"
  BY <1>2, <1>3, <1>10, IdlePlace DEF DiskInv
<1>11. CASE pc' = "held"
  <2>1. HeldOK'
    BY <1>1, <1>9 DEF HeldOK, Aside, Restored, Restores
  <2>2. RecoverOK'
    BY <1>11 DEF RecoverOK, Through, InHand, PuttingBack, SnapshotIsBack, Discarding, Recover
  <2>3. TxnOK'
    BY <1>11 DEF TxnOK, Txn, Undo
  <2> QED BY <1>2, <1>3, <2>1, <2>2, <2>3 DEF DiskInv
<1> QED BY <1>1, <1>10, <1>11

(***************************************************************************)
(* Recovery's put-backs.                                                   *)
(***************************************************************************)

\* The snapshot goes back in place, from a set that holds it.
LEMMA RenameBackFacts ==
  ASSUME sets \in [Tag -> RollbackSet], cur \in Tag, RenameSnapshotBack
  PROVE  /\ sets' \in [Tag -> RollbackSet] /\ snapshot' = sets[cur].snapshot
         /\ \A u \in Tag : u # cur => sets'[u] = sets[u]
         /\ sets'[cur].snapshot \in {sets[cur].snapshot, NoFile}
         /\ sets'[cur].begun = sets[cur].begun /\ sets'[cur].manifest = sets[cur].manifest
         /\ sets'[cur].committed = sets[cur].committed
<1>1. snapshot' = sets[cur].snapshot /\ (UNCHANGED sets \/ Put("snapshot", NoFile))
  BY NoSetFacts DEF RenameSnapshotBack, Drop
<1>2. CASE UNCHANGED sets
  BY <1>1, <1>2
<1>3. CASE Put("snapshot", NoFile)
  BY <1>1, <1>3, PutSnapshotName
<1> QED BY <1>1, <1>2, <1>3

\* A set other than the one in hand keeps to itself.
LEMMA HarmlessKept ==
  ASSUME NEW S, NEW T, Harmless(S), T.committed = S.committed, T.begun = S.begun,
         T.manifest = S.manifest, T.snapshot \in {S.snapshot, NoFile}
  PROVE  Harmless(T)
BY DEF Harmless, Bare

LEMMA PutSnapshotKeeps ==
  ASSUME DiskInv, PutSnapshot
  PROVE  DiskInv'
<1>1. /\ UNCHANGED <<manifest, cur, existed, guard, todo, queue, begun, last>>
      /\ pc = "putSnapshot" /\ pc' = "putManifest"
  BY DEF PutSnapshot, held, history, Goto
<1>2. /\ cur \in Tag /\ (\A u \in todo : cur < u) /\ todo \subseteq Tag
      /\ sets \in [Tag -> RollbackSet] /\ begun \in Ver /\ manifest = None
      /\ snapshot \in File \cup {NoFile} /\ ~sets[cur].committed
  BY <1>1 DEF DiskInv, RecoverOK, InHand, PuttingBack, DiskType
<1>3. \A u \in Tag : u \notin todo /\ u # cur => Harmless(sets[u])
  BY <1>1 DEF DiskInv, RecoverOK, Through, Recover
<1>4. HeldOK' /\ TxnOK'
  BY <1>1, RecoverPlace DEF Recover
<1>5. ASSUME UNCHANGED sets PROVE Through' /\ InHand' /\ PuttingBack' /\ Unborn'
  BY <1>1, <1>2, <1>3, <1>5 DEF Through, InHand, PuttingBack, DiskInv, FilesOK, Unborn
<1>6. PairIsLast' /\ Discarding'
  BY <1>1, <1>2 DEF PairIsLast, Discarding
<1>7. CASE SnapshotRestore(sets[cur]) = "PutBack"
  <2>1. RenameSnapshotBack
    BY <1>7 DEF PutSnapshot
  <2>2. sets[cur].snapshot # NoFile
    BY <1>7 DEF SnapshotRestore
  <2>3. last # None
    BY <1>2, <2>2 DEF DiskInv, FilesOK, NothingCommitted, Void
  <2>4. ~Harmless(sets[cur])
    BY <1>2, <2>2 DEF Harmless, Bare
  <2>5. Restored(cur) /\ cur <= begun
    BY <1>1, <2>3, <2>4, InHandRestores
  <2>6. /\ sets' \in [Tag -> RollbackSet] /\ snapshot' = sets[cur].snapshot
        /\ \A u \in Tag : u # cur => sets'[u] = sets[u]
        /\ sets'[cur].snapshot \in {sets[cur].snapshot, NoFile}
        /\ sets'[cur].begun = sets[cur].begun /\ sets'[cur].manifest = sets[cur].manifest
        /\ sets'[cur].committed = sets[cur].committed
    BY <1>2, <2>1, RenameBackFacts
  <2>7. snapshot'.ver = last
    BY <2>2, <2>5, <2>6 DEF Restored, Restores
  <2>8. snapshot' \in File \cup {NoFile}
    BY <1>2, <2>6, SetType
  <2>9. Restored(cur)'
    <3>1. Restores(sets[cur])'
      BY <1>1, <2>5, <2>6, <2>7 DEF Restored, Restores
    <3>2. \A u \in Tag : u < cur => Harmless(sets'[u])
      BY <1>2, <2>5, <2>6, VersionFacts DEF Restored
    <3> QED BY <1>1, <1>2, <3>1, <3>2 DEF Restored
  <2>10. WindowCloses' /\ NothingCommitted'
    BY <1>1, <1>2, <2>3, <2>9 DEF WindowCloses, NothingCommitted
  <2>11. Unborn'
    BY <1>1, <1>2, <2>5, <2>6, VersionFacts DEF DiskInv, FilesOK, Unborn
  <2>12. Through'
    BY <1>1, <1>3, <2>6 DEF Through
  <2>13. InHand' /\ PuttingBack'
    BY <1>1, <1>2, <2>6 DEF InHand, PuttingBack
  <2>14. SnapshotIsBack'
    BY <1>1, <2>3, <2>7 DEF SnapshotIsBack
  <2>15. DiskType'
    BY <1>1, <2>6, <2>8 DEF DiskInv, DiskType, Pc, Recover
  <2> QED BY <1>4, <1>6, <2>10, <2>11, <2>12, <2>13, <2>14, <2>15
             DEF DiskInv, FilesOK, RecoverOK
<1>8. CASE SnapshotRestore(sets[cur]) = "RemoveNew"
  <2>1. snapshot' = NoFile /\ UNCHANGED sets
    BY <1>8 DEF PutSnapshot
  <2>2. sets[cur].begun = "without"
    BY <1>8 DEF SnapshotRestore
  <2>3. last = None
    <3>1. ~Harmless(sets[cur])
      BY <1>2, <2>2 DEF Harmless, Bare
    <3>2. last # None => Restored(cur)
      BY <1>1, <3>1, InHandRestores
    <3> QED BY <2>2, <3>2 DEF Restored, Restores
  <2>4. WindowCloses' /\ SnapshotIsBack'
    BY <1>1, <2>1, <2>3 DEF WindowCloses, SnapshotIsBack, Restores
  <2>5. NothingCommitted'
    BY <1>1, <2>1, <2>3 DEF DiskInv, FilesOK, NothingCommitted
  <2>6. DiskType'
    BY <1>1, <2>1 DEF DiskInv, DiskType, Pc, Recover
  <2> QED BY <1>4, <1>5, <1>6, <2>1, <2>4, <2>5, <2>6 DEF DiskInv, FilesOK, RecoverOK
<1>9. CASE SnapshotRestore(sets[cur]) \notin {"PutBack", "RemoveNew"}
  <2>1. UNCHANGED <<snapshot, sets>>
    BY <1>9 DEF PutSnapshot
  <2>2. sets[cur].snapshot = NoFile /\ sets[cur].begun # "without"
    BY <1>9 DEF SnapshotRestore
  <2>3. FilesOK'
    BY <1>1, <2>1, FilesKept DEF DiskInv
  <2>4. SnapshotIsBack'
    <3>1. Restores(sets[cur]) => snapshot.ver = last
      BY <2>2 DEF Restores
    <3>2. Restores(sets[cur])' => snapshot'.ver = last'
      BY <1>1, <2>1, <2>2 DEF Restores
    <3>3. ASSUME last = None, snapshot # NoFile
          PROVE  \E t \in todo : sets[t].begun = "without"
      <4>1. PICK t \in Tag : sets[t].begun = "without" /\ Void(sets[t])
        BY <3>3 DEF DiskInv, FilesOK, NothingCommitted
      <4>2. ~Harmless(sets[t]) /\ t # cur
        BY <1>2, <2>2, <4>1, NotHarmless
      <4> QED BY <1>3, <4>1, <4>2
    <3> QED BY <1>1, <2>1, <3>2, <3>3 DEF SnapshotIsBack
  <2>5. DiskType'
    BY <1>1, <2>1 DEF DiskInv, DiskType, Pc, Recover
  <2> QED BY <1>4, <1>5, <1>6, <2>1, <2>3, <2>4, <2>5 DEF DiskInv, RecoverOK
<1> QED BY <1>7, <1>8, <1>9

LEMMA PutManifestKeeps ==
  ASSUME DiskInv, PutManifest
  PROVE  DiskInv'
<1>1. /\ UNCHANGED <<snapshot, cur, existed, guard, todo, begun, last>>
      /\ pc = "putManifest" /\ pc' = IF queue' = {} THEN "recover" ELSE "discard"
      /\ queue' = {n \in Name : sets'[cur][n] # NoSet[n]}
  BY DEF PutManifest, history, Goto
<1>2. /\ cur \in Tag /\ (\A u \in todo : cur < u) /\ todo \subseteq Tag
      /\ sets \in [Tag -> RollbackSet] /\ begun \in Ver /\ manifest = None
      /\ last \in Ver \cup {None} /\ ~sets[cur].committed
  BY <1>1 DEF DiskInv, RecoverOK, InHand, PuttingBack, DiskType
<1>3. \A u \in Tag : u \notin todo /\ u # cur => Harmless(sets[u])
  BY <1>1 DEF DiskInv, RecoverOK, Through, Recover
<1>4. HeldOK' /\ TxnOK'
  BY <1>1, RecoverPlace DEF Recover
<1>5. InHand' /\ PuttingBack'
  BY <1>1, <1>2 DEF InHand, PuttingBack
<1>6. queue' = {} => Harmless(sets'[cur])
  <2>1. queue' = {} => /\ sets'[cur]["manifest"] = NoSet["manifest"]
                       /\ sets'[cur]["snapshot"] = NoSet["snapshot"]
                       /\ sets'[cur]["begun"] = NoSet["begun"]
    BY <1>1 DEF Name
  <2> QED BY <2>1, NoSetFacts DEF Harmless, Bare
<1>7. \A n \in {"manifest", "snapshot", "begun"} : sets'[cur][n] # NoSet[n] => n \in queue'
  BY <1>1 DEF Name
<1>8. ASSUME \A u \in Tag : u # cur => sets'[u] = sets[u] PROVE Through'
  BY <1>1, <1>2, <1>3, <1>6, <1>8 DEF Through
<1>9. queue' \subseteq Name /\ pc' \in Pc
  BY <1>1 DEF Pc, Recover
<1>10. CASE sets[cur].manifest # None
  <2>1. manifest' = sets[cur].manifest /\ Put("manifest", None)
    BY <1>10, NoSetFacts DEF PutManifest, RenameManifestBack, Drop
  <2>2. last # None
    BY <1>2, <1>10 DEF DiskInv, FilesOK, NothingCommitted, Void
  <2>3. ~Harmless(sets[cur])
    BY <1>2, <1>10 DEF Harmless, Bare
  <2>4. Restored(cur) /\ cur <= begun
    BY <1>1, <2>2, <2>3, InHandRestores
  <2>5. /\ sets' \in [Tag -> RollbackSet]
        /\ \A u \in Tag : u # cur => sets'[u] = sets[u]
    BY <1>2, <2>1, PutManifestName
  <2>6. manifest' = last /\ snapshot.ver = last
    BY <1>1, <2>1, <2>4 DEF Restored, Restores, DiskInv, RecoverOK, SnapshotIsBack
  <2>7. PairIsLast' /\ WindowCloses' /\ NothingCommitted'
    BY <1>1, <2>2, <2>6 DEF PairIsLast, WindowCloses, NothingCommitted
  <2>8. Unborn'
    BY <1>1, <1>2, <2>4, <2>5, VersionFacts DEF DiskInv, FilesOK, Unborn
  <2>9. SnapshotIsBack' /\ Discarding'
    BY <1>1, <1>7, <2>2, <2>6 DEF SnapshotIsBack, Discarding
  <2>10. DiskType'
    BY <1>1, <1>2, <1>9, <2>5, <2>6 DEF DiskInv, DiskType
  <2> QED BY <1>4, <1>5, <1>8, <2>5, <2>7, <2>8, <2>9, <2>10 DEF DiskInv, FilesOK, RecoverOK
<1>11. CASE sets[cur].manifest = None
  <2>1. UNCHANGED <<manifest, sets>>
    BY <1>11 DEF PutManifest
  <2>2. FilesOK'
    BY <1>1, <2>1, FilesKept DEF DiskInv
  <2>3. last # None => Harmless(sets[cur])
    <3>1. last # None /\ ~Harmless(sets[cur]) => Restores(sets[cur])
      BY <1>1, InHandRestores DEF Restored
    <3> QED BY <1>11, <3>1 DEF Restores
  <2>4. SnapshotIsBack'
    BY <1>1, <2>1 DEF DiskInv, RecoverOK, SnapshotIsBack
  <2>5. Discarding'
    BY <1>1, <1>7, <2>1, <2>3 DEF Discarding
  <2>6. DiskType'
    BY <1>1, <1>9, <2>1 DEF DiskInv, DiskType
  <2> QED BY <1>4, <1>5, <1>8, <2>1, <2>2, <2>4, <2>5, <2>6 DEF DiskInv, RecoverOK
<1> QED BY <1>10, <1>11

(***************************************************************************)
(* Removals.                                                               *)
(***************************************************************************)

\* The set in hand without its file n.
LEMMA DropFacts ==
  ASSUME sets \in [Tag -> RollbackSet], cur \in Tag, NEW n \in Name, Drop(n)
  PROVE  /\ sets' \in [Tag -> RollbackSet]
         /\ \A u \in Tag : u # cur => sets'[u] = sets[u]
         /\ sets'[cur].manifest = IF n = "manifest" THEN None ELSE sets[cur].manifest
         /\ sets'[cur].snapshot = IF n = "snapshot" THEN NoFile ELSE sets[cur].snapshot
         /\ sets'[cur].begun = IF n = "begun" THEN "none" ELSE sets[cur].begun
         /\ sets'[cur].committed = IF n = "committed" THEN FALSE ELSE sets[cur].committed
<1>1. CASE n = "manifest"
  <2>1. Put("manifest", None)
    BY <1>1, NoSetFacts DEF Drop
  <2> QED BY <1>1, <2>1, PutManifestName
<1>2. CASE n = "snapshot"
  <2>1. Put("snapshot", NoFile)
    BY <1>2, NoSetFacts DEF Drop
  <2> QED BY <1>2, <2>1, PutSnapshotName
<1>3. CASE n = "begun"
  <2>1. Put("begun", "none") /\ "none" \in Marker
    BY <1>3, NoSetFacts DEF Drop, Marker
  <2> QED BY <1>3, <2>1, PutBegun
<1>4. CASE n = "committed"
  <2>1. Put("committed", FALSE)
    BY <1>4, NoSetFacts DEF Drop
  <2> QED BY <1>4, <2>1, PutCommitted
<1>5. CASE n = "partial"
  <2>1. Put("partial", FALSE)
    BY <1>5, NoSetFacts DEF Drop
  <2> QED BY <1>5, <2>1, PutPartial
<1> QED BY <1>1, <1>2, <1>3, <1>4, <1>5 DEF Name

\* What a removal does to the set in hand.  The committed marker goes last, and
\* only that of a committed marker or of an unfinished copy may fail.
Without(S, T, n) ==
  /\ T.manifest = IF n = "manifest" THEN None ELSE S.manifest
  /\ T.snapshot = IF n = "snapshot" THEN NoFile ELSE S.snapshot
  /\ T.begun = IF n = "begun" THEN "none" ELSE S.begun
  /\ n # "committed" => T.committed = S.committed
  /\ n = "committed" => T.committed \in {S.committed, FALSE}

LEMMA RemoveFacts ==
  ASSUME sets \in [Tag -> RollbackSet], cur \in Tag, queue \subseteq Name, Bearable,
         NEW next, RemoveNext(next)
  PROVE  /\ sets' \in [Tag -> RollbackSet]
         /\ \A u \in Tag : u # cur => sets'[u] = sets[u]
         /\ \E n \in queue : /\ queue' = queue \ {n}
                             /\ n = "committed" => queue = {"committed"}
                             /\ Without(sets[cur], sets'[cur], n)
         /\ sets[cur] = NoSet => sets'[cur] = NoSet
<1>1. PICK n \in queue : /\ \A m \in queue : DiscardOrder[n] <= DiscardOrder[m]
                         /\ Drop(n) \/ (n \in Faults /\ UNCHANGED sets)
                         /\ queue' = queue \ {n}
  BY DEF RemoveNext
<1>2. n \in Name
  BY <1>1
<1>3. n = "committed" => queue = {"committed"}
  <2>1. \A m \in Name : m # "committed" => DiscardOrder[m] < 5 /\ DiscardOrder[m] \in Nat
    BY DEF DiscardOrder, Name
  <2>2. DiscardOrder["committed"] = 5
    BY DEF DiscardOrder
  <2>3. n = "committed" => \A m \in queue : m = "committed"
    BY <1>1, <2>1, <2>2
  <2> QED BY <1>1, <2>3
<1>4. CASE Drop(n)
  <2>1. /\ sets' \in [Tag -> RollbackSet]
        /\ \A u \in Tag : u # cur => sets'[u] = sets[u]
        /\ Without(sets[cur], sets'[cur], n)
    BY <1>2, <1>4, DropFacts DEF Without
  <2>2. sets[cur] = NoSet => sets'[cur] = NoSet
    <3>1. sets'[cur] = [sets[cur] EXCEPT ![n] = NoSet[n]]
      BY <1>4 DEF Drop, Put
    <3>2. NoSet = [NoSet EXCEPT ![n] = NoSet[n]]
      BY <1>2 DEF NoSet, Name
    <3> QED BY <3>1, <3>2
  <2> QED BY <1>1, <1>3, <2>1, <2>2
<1>5. CASE n \in Faults /\ UNCHANGED sets
  <2>1. n \in {"partial", "committed"}
    BY <1>2, <1>5 DEF Bearable, Harmed, Name
  <2>2. Without(sets[cur], sets'[cur], n)
    BY <1>5, <2>1 DEF Without
  <2> QED BY <1>1, <1>3, <1>5, <2>2
<1> QED BY <1>1, <1>4, <1>5

LEMMA DiscardKeeps ==
  ASSUME DiskInv, Bearable, Discard
  PROVE  DiskInv'
<1>1. /\ UNCHANGED <<manifest, snapshot, cur, existed, guard, todo, begun, last>>
      /\ pc = "discard" /\ pc' = IF queue' = {} THEN "recover" ELSE "discard"
  BY DEF Discard, RemoveNext, history, Goto
<1>2. /\ cur \in Tag /\ (\A u \in todo : cur < u) /\ todo \subseteq Tag /\ queue \subseteq Name
      /\ sets \in [Tag -> RollbackSet] /\ begun \in Ver
  BY <1>1 DEF DiskInv, RecoverOK, InHand, DiskType
<1>3. \A u \in Tag : u \notin todo /\ u # cur => Harmless(sets[u])
  BY <1>1 DEF DiskInv, RecoverOK, Through, Recover
<1>4. /\ sets' \in [Tag -> RollbackSet]
      /\ \A u \in Tag : u # cur => sets'[u] = sets[u]
      /\ sets[cur] = NoSet => sets'[cur] = NoSet
  BY <1>2, RemoveFacts DEF Discard
<1>5. PICK n \in queue : /\ queue' = queue \ {n}
                         /\ n = "committed" => queue = {"committed"}
                         /\ Without(sets[cur], sets'[cur], n)
  BY <1>2, RemoveFacts DEF Discard
<1>6. /\ sets[cur].manifest # None => "manifest" \in queue
      /\ sets[cur].snapshot # NoFile => "snapshot" \in queue
      /\ sets[cur].begun # "none" => "begun" \in queue
      /\ manifest = None /\ last # None => Harmless(sets[cur])
  BY <1>1, NoSetFacts DEF DiskInv, RecoverOK, Discarding
<1>7. /\ sets'[cur].manifest # None => "manifest" \in queue'
      /\ sets'[cur].snapshot # NoFile => "snapshot" \in queue'
      /\ sets'[cur].begun # "none" => "begun" \in queue'
  BY <1>5, <1>6 DEF Without
<1>8. Harmless(sets[cur]) => Harmless(sets'[cur])
  <2>1. CASE n = "committed"
    BY <1>5, <1>6, <1>7, <2>1 DEF Harmless, Bare
  <2>2. CASE n # "committed"
    BY <1>5, <2>2 DEF Harmless, Bare, Without
  <2> QED BY <2>1, <2>2
<1>9. PairIsLast'
  BY <1>1 DEF DiskInv, FilesOK, PairIsLast
<1>10. WindowCloses'
  <2>1. SUFFICES ASSUME manifest = None, last # None PROVE \E t \in Tag : Restored(t)'
    BY <1>1 DEF WindowCloses
  <2>2. PICK t \in Tag : Restored(t)
    BY <2>1 DEF DiskInv, FilesOK, WindowCloses
  <2>3. t # cur
    BY <1>2, <1>6, <2>1, <2>2, NotHarmless DEF Restored
  <2>4. Restores(sets[t])'
    BY <1>1, <1>4, <2>2, <2>3 DEF Restored, Restores
  <2>5. \A u \in Tag : u < t => Harmless(sets'[u])
    BY <1>4, <1>6, <1>8, <2>1, <2>2 DEF Restored
  <2> QED BY <2>2, <2>4, <2>5 DEF Restored
<1>11. NothingCommitted'
  <2>1. SUFFICES ASSUME last = None
                 PROVE  /\ \A t \in Tag : Void(sets'[t])
                        /\ snapshot = NoFile \/ \E t \in Tag : sets'[t].begun = "without"
    BY <1>1 DEF NothingCommitted
  <2>2. \A t \in Tag : Void(sets[t])
    BY <2>1 DEF DiskInv, FilesOK, NothingCommitted
  <2>3. Void(sets'[cur])
    BY <1>2, <1>5, <2>2 DEF Void, Without
  <2>4. snapshot = NoFile \/ \E t \in todo : sets[t].begun = "without"
    BY <1>1, <2>1 DEF DiskInv, RecoverOK, SnapshotIsBack
  <2>5. \A t \in todo : t \in Tag /\ sets'[t] = sets[t]
    BY <1>2, <1>4, VersionFacts
  <2> QED BY <1>4, <2>2, <2>3, <2>4, <2>5
<1>12. Unborn'
  BY <1>1, <1>4 DEF DiskInv, FilesOK, Unborn
<1>13. Through'
  <2>1. queue' = {} => Harmless(sets'[cur])
    BY <1>7 DEF Harmless, Bare
  <2> QED BY <1>1, <1>3, <1>4, <2>1 DEF Through
<1>14. InHand' /\ PuttingBack'
  BY <1>1, <1>2 DEF InHand, PuttingBack
<1>15. SnapshotIsBack'
  <2>1. \A t \in todo : t \in Tag /\ sets'[t] = sets[t]
    BY <1>2, <1>4, VersionFacts
  <2> QED BY <1>1, <2>1 DEF DiskInv, RecoverOK, SnapshotIsBack
<1>16. Discarding'
  <2>1. \A m \in {"manifest", "snapshot", "begun"} : sets'[cur][m] # NoSet[m] => m \in queue'
    BY <1>7, NoSetFacts
  <2> QED BY <1>1, <1>6, <1>8, <2>1 DEF Discarding
<1>17. DiskType'
  <2>1. queue' \subseteq Name /\ pc' \in Pc
    BY <1>1, <1>2, <1>5 DEF Pc, Recover
  <2> QED BY <1>1, <1>4, <2>1 DEF DiskInv, DiskType
<1>18. HeldOK' /\ TxnOK'
  BY <1>1, RecoverPlace DEF Recover
<1> QED BY <1>9, <1>10, <1>11, <1>12, <1>13, <1>14, <1>15, <1>16, <1>17, <1>18
        DEF DiskInv, FilesOK, RecoverOK

(***************************************************************************)
(* The steps of a transaction and of its rollback: over a pair in place,   *)
(* and over one that an unfinished recovery has left aside.                *)
(***************************************************************************)

LEMMA TxnFacts ==
  ASSUME DiskInv, pc \in (Txn \cup Undo) \ {"committed"}
  PROVE  /\ cur \in Tag /\ cur = begun /\ sets \in [Tag -> RollbackSet]
         /\ snapshot \in File \cup {NoFile}
         /\ OverAside \/ OverPair
BY DEF DiskInv, DiskType, TxnOK

\* A step that leaves the other sets alone leaves the pair aside where it is.
LEMMA AsideStep ==
  ASSUME DiskInv, cur \in Tag, cur = begun, OverAside, UNCHANGED <<cur, begun, last>>,
         manifest' = None, \A u \in Tag : u # cur => sets'[u] = sets[u],
         sets'[cur].manifest = None, "manifest" \notin guard'
  PROVE  FilesOK' /\ OverAside'
<1>1. PICK t \in Tag : t < cur /\ Restored(t) /\ sets[t].snapshot # NoFile
  BY DEF OverAside
<1>2. \A u \in Tag : /\ u <= t => u # cur /\ sets'[u] = sets[u]
                     /\ u < t => u <= t
  BY <1>1, VersionFacts
<1>3. last # None /\ sets'[t] = sets[t]
  BY <1>1, <1>2, VersionFacts DEF Restored, Restores
<1>4. Restored(t)'
  <2>1. Restores(sets[t])'
    BY <1>1, <1>3 DEF Restored, Restores
  <2>2. \A u \in Tag : u < t => sets'[u] = sets[u]
    BY <1>2
  <2>3. \A u \in Tag : u < t => Harmless(sets[u])
    BY <1>1 DEF Restored
  <2>4. \A u \in Tag : u < t => Harmless(sets'[u])
    BY <2>2, <2>3
  <2> QED BY <1>1, <2>1, <2>4 DEF Restored
<1>5. OverAside'
  BY <1>1, <1>3, <1>4 DEF OverAside
<1>6. Unborn'
  <2>1. \A u \in Tag : begun < u => u # cur
    BY VersionFacts
  <2> QED BY <2>1 DEF DiskInv, FilesOK, Unborn
<1>7. PairIsLast' /\ WindowCloses' /\ NothingCommitted'
  BY <1>1, <1>3, <1>4 DEF PairIsLast, WindowCloses, NothingCommitted
<1> QED BY <1>5, <1>6, <1>7 DEF FilesOK

\* Over a pair in place the set in hand is the one that says how to get back.
LEMMA PairStep ==
  ASSUME DiskInv, cur \in Tag, cur = begun, OverPair, UNCHANGED <<cur, begun, last>>,
         \A u \in Tag : u # cur => sets'[u] = sets[u],
         PairIsLast', manifest' = None /\ last # None => Restores(sets[cur])',
         last = None => /\ Void(sets'[cur])
                        /\ snapshot' = NoFile \/ sets'[cur].begun = "without"
  PROVE  FilesOK'
<1>1. \A u \in Tag : u # cur => Harmless(sets'[u])
  BY DEF OverPair
<1>2. WindowCloses'
  <2>1. ASSUME manifest' = None, last # None PROVE Restored(cur)'
    <3>1. \A u \in Tag : u < cur => u # cur
      BY VersionFacts
    <3> QED BY <1>1, <2>1, <3>1 DEF Restored
  <2> QED BY <2>1 DEF WindowCloses
<1>3. NothingCommitted'
  <2>1. last = None => \A u \in Tag : Void(sets'[u])
    BY DEF DiskInv, FilesOK, NothingCommitted
  <2> QED BY <2>1 DEF NothingCommitted
<1>4. Unborn'
  <2>1. \A u \in Tag : begun < u => u # cur
    BY VersionFacts
  <2> QED BY <2>1 DEF DiskInv, FilesOK, Unborn
<1> QED BY <1>2, <1>3, <1>4 DEF FilesOK

LEMMA TxnStays ==
  ASSUME pc' \in (Txn \cup Undo) \ {"committed"}, cur' \in Tag, cur' = begun', DiskType', FilesOK',
         OverAside' \/ OverPair',
         pc' \in {"mark", "aside"} /\ existed' => snapshot' # NoFile,
         pc' \in {"link", "copied"} => snapshot' # NoFile,
         pc' = "commit" => snapshot'.ver = cur',
         pc' = "undoMarker" => queue' \subseteq {"begun"}
  PROVE  DiskInv'
<1>1. RecoverOK' /\ HeldOK'
  BY TxnPlace
<1>2. TxnOK'
  BY DEF TxnOK, Txn, Undo
<1> QED BY <1>1, <1>2 DEF DiskInv

LEMMA BeginKeeps ==
  ASSUME DiskInv, Begin
  PROVE  DiskInv'
<1>1. /\ UNCHANGED <<manifest, snapshot, queue, last>> /\ pc = "held" /\ pc' = "mark"
      /\ begun < MaxTxn /\ begun' = begun + 1 /\ cur' = begun' /\ guard' = {} /\ todo' = {}
      /\ existed' = (snapshot # NoFile) /\ sets' = [sets EXCEPT ![cur'].begun = "empty"]
  BY DEF Begin, Goto
<1>2. /\ sets \in [Tag -> RollbackSet] /\ begun \in Ver /\ snapshot \in File \cup {NoFile}
      /\ last \in Ver \cup {None}
  BY DEF DiskInv, DiskType
<1>3. /\ cur' \in Tag /\ begun' \in Ver /\ begun < cur'
      /\ \A u \in Tag : u <= begun => u < cur' /\ u # cur'
  BY <1>1, <1>2, MaxTxnAssumption DEF Tag, Ver
<1>4. sets[cur'] = NoSet
  BY <1>3 DEF DiskInv, FilesOK, Unborn
<1>5. /\ sets' \in [Tag -> RollbackSet] /\ \A u \in Tag : u # cur' => sets'[u] = sets[u]
      /\ sets'[cur'].manifest = None /\ sets'[cur'].snapshot = NoFile
      /\ sets'[cur'].begun = "empty" /\ ~sets'[cur'].committed
  <2>1. [NoSet EXCEPT !.begun = "empty"] \in RollbackSet
    BY NoSetFacts, SetUpdate DEF Marker
  <2>2. sets' = [sets EXCEPT ![cur'] = [NoSet EXCEPT !.begun = "empty"]]
    BY <1>1, <1>4
  <2>3. /\ sets' \in [Tag -> RollbackSet] /\ sets'[cur'] = [NoSet EXCEPT !.begun = "empty"]
        /\ \A u \in Tag : u # cur' => sets'[u] = sets[u]
    BY <1>2, <1>3, <2>1, <2>2
  <2> QED BY <2>3, NoSetFacts DEF NoSet
<1>6. DiskType'
  BY <1>1, <1>3, <1>5, VersionFacts DEF DiskInv, DiskType, Pc, Txn
<1>7. Unborn'
  <2>1. \A t \in Tag : begun' < t => begun < t /\ t # cur'
    BY <1>1, <1>2, <1>3, VersionFacts
  <2> QED BY <1>5, <2>1 DEF DiskInv, FilesOK, Unborn
<1>8. PairIsLast'
  BY <1>1 DEF DiskInv, FilesOK, PairIsLast
<1>9. InPlace \/ Aside
  BY <1>1 DEF DiskInv, HeldOK
<1>10. CASE InPlace
  <2>1. manifest = last /\ snapshot.ver = last /\ \A u \in Tag : Harmless(sets[u])
    BY <1>10 DEF InPlace
  <2>2. snapshot = NoFile <=> last = None
    BY <1>2, <2>1, FileFacts
  <2>3. WindowCloses'
    BY <1>1, <2>1 DEF WindowCloses
  <2>4. NothingCommitted'
    <3>1. last = None => \A u \in Tag : Void(sets[u])
      BY DEF DiskInv, FilesOK, NothingCommitted
    <3>2. Void(sets'[cur'])
      BY <1>5 DEF Void
    <3> QED BY <1>1, <1>5, <2>2, <3>1, <3>2 DEF NothingCommitted
  <2>5. FilesOK'
    BY <1>7, <1>8, <2>3, <2>4 DEF FilesOK
  <2>6. OverPair'
    BY <1>1, <1>5, <2>1, <2>2 DEF OverPair
  <2> QED BY <1>1, <1>3, <1>6, <2>5, <2>6, TxnStays DEF Txn
<1>11. CASE Aside
  <2>1. PICK t \in Tag : t <= begun /\ Restored(t) /\ sets[t].snapshot # NoFile
    BY <1>11 DEF Aside
  <2>2. \A u \in Tag : u <= t => u # cur' /\ sets'[u] = sets[u]
    BY <1>2, <1>3, <1>5, <2>1, VersionFacts
  <2>3. last # None /\ sets'[t] = sets[t] /\ t < cur'
    BY <1>3, <2>1, <2>2, VersionFacts DEF Restored, Restores
  <2>4. Restored(t)'
    <3>1. Restores(sets[t])'
      BY <1>1, <2>1, <2>3 DEF Restored, Restores
    <3>2. \A u \in Tag : u < t => Harmless(sets'[u])
      BY <2>1, <2>2, VersionFacts DEF Restored
    <3> QED BY <2>1, <3>1, <3>2 DEF Restored
  <2>5. FilesOK'
    BY <1>1, <1>7, <1>8, <2>1, <2>3, <2>4 DEF FilesOK, WindowCloses, NothingCommitted
  <2>6. OverAside'
    BY <1>1, <1>5, <1>11, <2>1, <2>3, <2>4 DEF OverAside, Aside
  <2> QED BY <1>1, <1>3, <1>6, <2>5, <2>6, TxnStays DEF Txn
<1> QED BY <1>9, <1>10, <1>11

LEMMA WriteMarkerKeeps ==
  ASSUME DiskInv, WriteMarker
  PROVE  DiskInv'
<1>1. /\ UNCHANGED <<manifest, snapshot, cur, existed, guard, todo, queue, begun, last>>
      /\ pc = "mark" /\ pc' = "aside" /\ Put("begun", Says)
  BY DEF WriteMarker, held, history, Goto
<1>2. /\ cur \in Tag /\ cur = begun /\ sets \in [Tag -> RollbackSet]
      /\ snapshot \in File \cup {NoFile}
      /\ OverAside \/ OverPair
  BY <1>1, TxnFacts DEF Txn
<1>3. Says \in Marker
  BY DEF Says, Marker
<1>4. /\ sets' \in [Tag -> RollbackSet] /\ \A u \in Tag : u # cur => sets'[u] = sets[u]
      /\ sets'[cur].begun = Says /\ sets'[cur].manifest = sets[cur].manifest
      /\ sets'[cur].snapshot = sets[cur].snapshot /\ sets'[cur].committed = sets[cur].committed
  BY <1>1, <1>2, <1>3, PutBegun
<1>5. DiskType'
  BY <1>1, <1>4 DEF DiskInv, DiskType, Pc, Txn
<1>6. existed => snapshot # NoFile
  BY <1>1 DEF DiskInv, TxnOK
<1>7. CASE OverAside
  <2>1. FilesOK' /\ OverAside'
    BY <1>1, <1>2, <1>4, <1>7, AsideStep DEF OverAside
  <2> QED BY <1>1, <1>2, <1>5, <1>6, <2>1, TxnStays DEF Txn
<1>8. CASE OverPair
  <2>1. /\ \A u \in Tag : u # cur => Harmless(sets[u])
        /\ ~sets[cur].committed /\ existed = (last # None)
        /\ manifest = last /\ snapshot.ver = last /\ guard = {}
        /\ sets[cur].manifest = None /\ sets[cur].snapshot = NoFile
    BY <1>1, <1>8 DEF OverPair
  <2>2. PairIsLast' /\ (last = None => Void(sets'[cur]) /\ snapshot' = NoFile)
    <3>1. PairIsLast'
      BY <1>1, <2>1 DEF PairIsLast
    <3>2. Void(sets'[cur])
      BY <1>4, <2>1 DEF Void
    <3>3. last = None => snapshot = NoFile
      BY <1>2, <2>1, FileFacts
    <3> QED BY <1>1, <3>1, <3>2, <3>3
  <2>3. FilesOK'
    BY <1>1, <1>2, <1>4, <1>8, <2>1, <2>2, PairStep
  <2>4. OverPair'
    BY <1>1, <1>4, <2>1 DEF OverPair, Says
  <2> QED BY <1>1, <1>2, <1>5, <1>6, <2>3, <2>4, TxnStays DEF Txn
<1> QED BY <1>2, <1>7, <1>8

LEMMA MarkerFailsKeeps ==
  ASSUME DiskInv, MarkerFails
  PROVE  DiskInv'
<1>1. /\ UNCHANGED <<manifest, snapshot, cur, existed, guard, todo, queue, begun, last>>
      /\ pc = "mark" /\ pc' = "done" /\ \E m \in {"empty", Says} : Put("begun", m)
  BY DEF MarkerFails, held, history, Goto
<1>2. /\ cur \in Tag /\ cur = begun /\ sets \in [Tag -> RollbackSet]
      /\ snapshot \in File \cup {NoFile}
      /\ OverAside \/ OverPair
  BY <1>1, TxnFacts DEF Txn
<1>3. PICK m \in Marker : Put("begun", m)
  BY <1>1 DEF Says, Marker
<1>4. /\ sets' \in [Tag -> RollbackSet] /\ \A u \in Tag : u # cur => sets'[u] = sets[u]
      /\ sets'[cur].manifest = sets[cur].manifest
      /\ sets'[cur].snapshot = sets[cur].snapshot /\ sets'[cur].committed = sets[cur].committed
  BY <1>2, <1>3, PutBegun
<1>5. DiskType'
  BY <1>1, <1>4 DEF DiskInv, DiskType, Pc
<1>6. CASE OverAside
  <2>1. FilesOK'
    BY <1>1, <1>2, <1>4, <1>6, AsideStep DEF OverAside
  <2> QED BY <1>1, <1>5, <2>1, IdlePlace DEF DiskInv
<1>7. CASE OverPair
  <2>1. /\ ~sets[cur].committed /\ manifest = last /\ snapshot.ver = last
        /\ sets[cur].manifest = None /\ sets[cur].snapshot = NoFile
    BY <1>1, <1>7 DEF OverPair
  <2>2. PairIsLast' /\ (last = None => Void(sets'[cur]) /\ snapshot' = NoFile)
    <3>1. PairIsLast'
      BY <1>1, <2>1 DEF PairIsLast
    <3>2. Void(sets'[cur])
      BY <1>4, <2>1 DEF Void
    <3>3. last = None => snapshot = NoFile
      BY <1>2, <2>1, FileFacts
    <3> QED BY <1>1, <3>1, <3>2, <3>3
  <2>3. FilesOK'
    BY <1>1, <1>2, <1>4, <1>7, <2>1, <2>2, PairStep
  <2> QED BY <1>1, <1>5, <2>3, IdlePlace DEF DiskInv
<1> QED BY <1>2, <1>6, <1>7

LEMMA SetManifestAsideKeeps ==
  ASSUME DiskInv, SetManifestAside
  PROVE  DiskInv'
<1>1. /\ UNCHANGED <<snapshot, cur, existed, todo, queue, begun, last>>
      /\ pc = "aside" /\ pc' = IF existed THEN "link" ELSE "save"
      /\ IF manifest # None
           THEN /\ Put("manifest", manifest) /\ manifest' = None
                /\ guard' = guard \cup {"manifest"}
           ELSE UNCHANGED <<manifest, sets, guard>>
  BY DEF SetManifestAside, history, Goto
<1>2. /\ cur \in Tag /\ cur = begun /\ sets \in [Tag -> RollbackSet]
      /\ snapshot \in File \cup {NoFile}
      /\ OverAside \/ OverPair
  BY <1>1, TxnFacts DEF Txn
<1>3. /\ manifest \in Ver \cup {None} /\ guard \subseteq {"manifest", "snapshot"}
      /\ existed \in BOOLEAN
  BY DEF DiskInv, DiskType
<1>4. pc' \in {"link", "save"} /\ pc' \in (Txn \cup Undo) \ {"committed"} /\ pc' \in Pc
  BY <1>1 DEF Txn, Undo, Pc
<1>5. pc' = "link" => snapshot # NoFile
  BY <1>1 DEF DiskInv, TxnOK
<1>6. CASE OverAside
  <2>1. UNCHANGED <<manifest, sets, guard>> /\ manifest = None
    BY <1>1, <1>6 DEF OverAside
  <2>2. FilesOK' /\ OverAside'
    BY <1>1, <1>2, <1>6, <2>1, AsideStep DEF OverAside
  <2>3. DiskType'
    BY <1>1, <1>4, <2>1 DEF DiskInv, DiskType
  <2> QED BY <1>1, <1>2, <1>4, <1>5, <2>2, <2>3, TxnStays
<1>7. CASE OverPair
  <2>1. /\ \A u \in Tag : u # cur => Harmless(sets[u])
        /\ ~sets[cur].committed /\ existed = (last # None)
        /\ manifest = last /\ snapshot.ver = last /\ guard = {}
        /\ sets[cur].manifest = None /\ sets[cur].snapshot = NoFile
        /\ sets[cur].begun = IF existed THEN "with" ELSE "without"
    BY <1>1, <1>7 DEF OverPair, Says
  <2>2. CASE last = None
    <3>1. UNCHANGED <<manifest, sets, guard>> /\ manifest = None /\ pc' = "save"
      BY <1>1, <2>1, <2>2
    <3>2. FilesOK'
      BY <1>1, <3>1, FilesKept DEF DiskInv
    <3>3. OverPair'
      BY <1>1, <2>1, <2>2, <3>1 DEF OverPair
    <3>4. DiskType'
      BY <1>1, <1>4, <3>1 DEF DiskInv, DiskType
    <3> QED BY <1>1, <1>2, <1>4, <1>5, <3>2, <3>3, <3>4, TxnStays
  <2>3. CASE last # None
    <3>1. /\ Put("manifest", last) /\ manifest' = None /\ guard' = {"manifest"} /\ pc' = "link"
          /\ last \in Ver \cup {None}
      BY <1>1, <1>3, <2>1, <2>3
    <3>2. /\ sets' \in [Tag -> RollbackSet] /\ \A u \in Tag : u # cur => sets'[u] = sets[u]
          /\ sets'[cur].manifest = last /\ sets'[cur].begun = sets[cur].begun
          /\ sets'[cur].snapshot = sets[cur].snapshot
          /\ sets'[cur].committed = sets[cur].committed
      BY <1>2, <3>1, PutManifestName
    <3>3. Restores(sets[cur])' /\ PairIsLast'
      BY <1>1, <2>1, <2>3, <3>1, <3>2 DEF Restores, PairIsLast
    <3>4. FilesOK'
      BY <1>1, <1>2, <1>7, <2>3, <3>2, <3>3, PairStep
    <3>5. OverPair'
      BY <1>1, <2>1, <2>3, <3>1, <3>2 DEF OverPair
    <3>6. DiskType'
      BY <1>1, <1>4, <3>1, <3>2 DEF DiskInv, DiskType
    <3> QED BY <1>1, <1>2, <1>4, <1>5, <3>4, <3>5, <3>6, TxnStays
  <2> QED BY <2>2, <2>3
<1> QED BY <1>2, <1>6, <1>7

LEMMA LinkSnapshotKeeps ==
  ASSUME DiskInv, LinkSnapshot
  PROVE  DiskInv'
<1>1. /\ UNCHANGED <<manifest, snapshot, cur, existed, todo, queue, begun, last>>
      /\ pc = "link" /\ pc' = "save" /\ Put("snapshot", snapshot)
      /\ guard' = guard \cup {"snapshot"}
  BY DEF LinkSnapshot, history, Goto
<1>2. /\ cur \in Tag /\ cur = begun /\ sets \in [Tag -> RollbackSet]
      /\ snapshot \in File \cup {NoFile}
      /\ OverAside \/ OverPair
  BY <1>1, TxnFacts DEF Txn
<1>3. /\ sets' \in [Tag -> RollbackSet] /\ \A u \in Tag : u # cur => sets'[u] = sets[u]
      /\ sets'[cur].snapshot = snapshot /\ sets'[cur].manifest = sets[cur].manifest
      /\ sets'[cur].begun = sets[cur].begun /\ sets'[cur].committed = sets[cur].committed
  BY <1>1, <1>2, PutSnapshotName
<1>4. DiskType'
  BY <1>1, <1>3 DEF DiskInv, DiskType, Pc, Txn
<1>5. snapshot # NoFile
  BY <1>1 DEF DiskInv, TxnOK
<1>6. CASE OverAside
  <2>1. FilesOK' /\ OverAside'
    BY <1>1, <1>2, <1>3, <1>6, AsideStep DEF OverAside
  <2> QED BY <1>1, <1>2, <1>4, <2>1, TxnStays DEF Txn
<1>7. CASE OverPair
  <2>1. /\ \A u \in Tag : u # cur => Harmless(sets[u])
        /\ ~sets[cur].committed /\ existed = (last # None)
        /\ last # None /\ manifest = None /\ snapshot.ver = last /\ guard = {"manifest"}
        /\ sets[cur].manifest = last /\ sets[cur].begun = "with"
    BY <1>1, <1>7 DEF OverPair
  <2>2. Restores(sets[cur])' /\ PairIsLast'
    BY <1>1, <1>3, <2>1 DEF Restores, PairIsLast
  <2>3. FilesOK'
    BY <1>1, <1>2, <1>3, <1>7, <2>1, <2>2, PairStep
  <2>4. OverPair'
    BY <1>1, <1>3, <1>5, <2>1 DEF OverPair
  <2> QED BY <1>1, <1>2, <1>4, <2>3, <2>4, TxnStays DEF Txn
<1> QED BY <1>2, <1>6, <1>7

LEMMA CopySnapshotKeeps ==
  ASSUME DiskInv, CopySnapshot
  PROVE  DiskInv'
<1>1. /\ UNCHANGED <<manifest, snapshot, cur, existed, guard, todo, queue, begun, last>>
      /\ pc = "link" /\ pc' = "copied" /\ Put("partial", TRUE)
  BY DEF CopySnapshot, held, history, Goto
<1>2. /\ cur \in Tag /\ cur = begun /\ sets \in [Tag -> RollbackSet]
      /\ snapshot \in File \cup {NoFile}
      /\ OverAside \/ OverPair
  BY <1>1, TxnFacts DEF Txn
<1>3. /\ sets' \in [Tag -> RollbackSet] /\ \A u \in Tag : u # cur => sets'[u] = sets[u]
      /\ sets'[cur].snapshot = sets[cur].snapshot /\ sets'[cur].manifest = sets[cur].manifest
      /\ sets'[cur].begun = sets[cur].begun /\ sets'[cur].committed = sets[cur].committed
  BY <1>1, <1>2, PutPartial
<1>4. DiskType'
  BY <1>1, <1>3 DEF DiskInv, DiskType, Pc, Txn
<1>5. snapshot # NoFile
  BY <1>1 DEF DiskInv, TxnOK
<1>6. CASE OverAside
  <2>1. FilesOK' /\ OverAside'
    BY <1>1, <1>2, <1>3, <1>6, AsideStep DEF OverAside
  <2> QED BY <1>1, <1>2, <1>4, <1>5, <2>1, TxnStays DEF Txn
<1>7. CASE OverPair
  <2>1. /\ \A u \in Tag : u # cur => Harmless(sets[u])
        /\ ~sets[cur].committed /\ existed = (last # None)
        /\ last # None /\ manifest = None /\ snapshot.ver = last /\ guard = {"manifest"}
        /\ sets[cur].manifest = last /\ sets[cur].snapshot = NoFile /\ sets[cur].begun = "with"
    BY <1>1, <1>7 DEF OverPair
  <2>2. Restores(sets[cur])' /\ PairIsLast'
    BY <1>1, <1>3, <2>1 DEF Restores, PairIsLast
  <2>3. FilesOK'
    BY <1>1, <1>2, <1>3, <1>7, <2>1, <2>2, PairStep
  <2>4. OverPair'
    BY <1>1, <1>3, <2>1 DEF OverPair
  <2> QED BY <1>1, <1>2, <1>4, <1>5, <2>3, <2>4, TxnStays DEF Txn
<1> QED BY <1>2, <1>6, <1>7

LEMMA RenameCopyKeeps ==
  ASSUME DiskInv, RenameCopy
  PROVE  DiskInv'
<1>1. /\ UNCHANGED <<manifest, snapshot, cur, existed, todo, queue, begun, last>>
      /\ pc = "copied" /\ pc' = "save" /\ guard' = guard \cup {"snapshot"}
      /\ sets' = [sets EXCEPT ![cur].partial = FALSE,
                              ![cur].snapshot = [ver |-> snapshot.ver, by |-> cur]]
  BY DEF RenameCopy, history, Goto
<1>2. /\ cur \in Tag /\ cur = begun /\ sets \in [Tag -> RollbackSet]
      /\ snapshot \in File \cup {NoFile}
      /\ OverAside \/ OverPair
  BY <1>1, TxnFacts DEF Txn
<1>3. snapshot # NoFile
  BY <1>1 DEF DiskInv, TxnOK
<1>4. PICK f \in File : f = [ver |-> snapshot.ver, by |-> cur]
  BY <1>2, <1>3, FileFacts DEF File
<1>5. f.ver = snapshot.ver /\ f # NoFile
  BY <1>4, FileFacts
<1>6. /\ sets' \in [Tag -> RollbackSet] /\ \A u \in Tag : u # cur => sets'[u] = sets[u]
      /\ sets'[cur].snapshot = f /\ sets'[cur].manifest = sets[cur].manifest
      /\ sets'[cur].begun = sets[cur].begun /\ sets'[cur].committed = sets[cur].committed
  <2>1. sets[cur] \in RollbackSet
    BY <1>2
  <2>2. PICK S \in RollbackSet : S = [sets[cur] EXCEPT !.partial = FALSE]
    BY <2>1, SetUpdate
  <2>3. PICK T \in RollbackSet : T = [S EXCEPT !.snapshot = f]
    BY <2>2, SetUpdate
  <2>4. sets' = [sets EXCEPT ![cur] = T]
    BY <1>1, <1>2, <1>4, <2>2, <2>3
  <2>5. /\ T.snapshot = f /\ T.manifest = sets[cur].manifest
        /\ T.begun = sets[cur].begun /\ T.committed = sets[cur].committed
    BY <2>1, <2>2, <2>3 DEF RollbackSet
  <2> QED BY <1>2, <2>4, <2>5, PutFacts
<1>7. DiskType'
  BY <1>1, <1>6 DEF DiskInv, DiskType, Pc, Txn
<1>8. CASE OverAside
  <2>1. FilesOK' /\ OverAside'
    BY <1>1, <1>2, <1>6, <1>8, AsideStep DEF OverAside
  <2> QED BY <1>1, <1>2, <1>7, <2>1, TxnStays DEF Txn
<1>9. CASE OverPair
  <2>1. /\ \A u \in Tag : u # cur => Harmless(sets[u])
        /\ ~sets[cur].committed /\ existed = (last # None)
        /\ last # None /\ manifest = None /\ snapshot.ver = last /\ guard = {"manifest"}
        /\ sets[cur].manifest = last /\ sets[cur].begun = "with"
    BY <1>1, <1>9 DEF OverPair
  <2>2. Restores(sets[cur])' /\ PairIsLast'
    BY <1>1, <1>5, <1>6, <2>1 DEF Restores, PairIsLast
  <2>3. FilesOK'
    BY <1>1, <1>2, <1>6, <1>9, <2>1, <2>2, PairStep
  <2>4. OverPair'
    BY <1>1, <1>5, <1>6, <2>1 DEF OverPair
  <2> QED BY <1>1, <1>2, <1>7, <2>3, <2>4, TxnStays DEF Txn
<1> QED BY <1>2, <1>8, <1>9

LEMMA SaveSnapshotKeeps ==
  ASSUME DiskInv, SaveSnapshot
  PROVE  DiskInv'
<1>1. /\ UNCHANGED <<manifest, sets, cur, existed, guard, todo, queue, begun, last>>
      /\ pc = "save" /\ pc' = "commit" /\ snapshot' = [ver |-> cur, by |-> None]
  BY DEF SaveSnapshot, held, history, Goto
<1>2. /\ cur \in Tag /\ cur = begun /\ sets \in [Tag -> RollbackSet]
      /\ OverAside \/ OverPair
  BY <1>1, TxnFacts DEF Txn
<1>3. snapshot' \in File /\ snapshot'.ver = cur
  BY <1>1, <1>2, VersionFacts DEF File
<1>4. DiskType'
  BY <1>1, <1>3 DEF DiskInv, DiskType, Pc, Txn
<1>5. CASE OverAside
  <2>1. FilesOK' /\ OverAside'
    BY <1>1, <1>2, <1>5, AsideStep DEF OverAside
  <2> QED BY <1>1, <1>2, <1>3, <1>4, <2>1, TxnStays DEF Txn
<1>6. CASE OverPair
  <2>1. /\ \A u \in Tag : u # cur => Harmless(sets[u])
        /\ ~sets[cur].committed /\ existed = (last # None) /\ manifest = None
        /\ last # None => /\ guard = {"manifest", "snapshot"} /\ sets[cur].manifest = last
                          /\ sets[cur].snapshot # NoFile /\ sets[cur].snapshot.ver = last
                          /\ sets[cur].begun = "with"
        /\ last = None => guard = {} /\ sets[cur].begun = "without"
    BY <1>1, <1>6 DEF OverPair
  <2>2. PairIsLast' /\ (last # None => Restores(sets[cur])')
    BY <1>1, <2>1 DEF Restores, PairIsLast
  <2>3. last = None => Void(sets[cur])
    BY <1>2 DEF DiskInv, FilesOK, NothingCommitted
  <2>4. FilesOK'
    BY <1>1, <1>2, <1>6, <2>1, <2>2, <2>3, PairStep
  <2>5. OverPair'
    BY <1>1, <2>1 DEF OverPair
  <2> QED BY <1>1, <1>2, <1>3, <1>4, <2>4, <2>5, TxnStays DEF Txn
<1> QED BY <1>2, <1>5, <1>6

\* Once the manifest is written the sets no longer matter.
LEMMA CommittedStep ==
  ASSUME DiskInv, cur \in Tag, cur = begun, manifest # None,
         UNCHANGED <<manifest, snapshot, cur, begun, last>>,
         \A u \in Tag : u # cur => sets'[u] = sets[u]
  PROVE  FilesOK'
<1>1. PairIsLast' /\ last # None
  BY DEF DiskInv, FilesOK, PairIsLast
<1>2. WindowCloses' /\ NothingCommitted'
  BY <1>1 DEF WindowCloses, NothingCommitted
<1>3. Unborn'
  <2>1. \A u \in Tag : begun < u => u # cur
    BY VersionFacts
  <2> QED BY <2>1 DEF DiskInv, FilesOK, Unborn
<1> QED BY <1>1, <1>2, <1>3 DEF FilesOK

LEMMA WriteManifestKeeps ==
  ASSUME DiskInv, WriteManifest
  PROVE  DiskInv'
<1>1. /\ UNCHANGED <<snapshot, sets, cur, existed, guard, todo, queue, begun>>
      /\ pc = "commit" /\ pc' = "committed" /\ manifest' = cur /\ last' = cur
  BY DEF WriteManifest, held, Goto
<1>2. cur \in Tag /\ cur = begun /\ snapshot.ver = cur
  BY <1>1 DEF DiskInv, TxnOK, Txn
<1>3. cur \in Ver /\ cur # None
  BY <1>2, VersionFacts
<1>4. FilesOK'
  BY <1>1, <1>2, <1>3
     DEF DiskInv, FilesOK, PairIsLast, WindowCloses, NothingCommitted, Unborn
<1>5. DiskType'
  BY <1>1, <1>3 DEF DiskInv, DiskType, Pc, Txn
<1>6. TxnOK'
  BY <1>1, <1>2, <1>3 DEF TxnOK, Txn, Undo
<1> QED BY <1>1, <1>4, <1>5, <1>6, TxnPlace DEF DiskInv, Txn

LEMMA MarkCommittedKeeps ==
  ASSUME DiskInv, MarkCommitted
  PROVE  DiskInv'
<1>1. /\ UNCHANGED <<manifest, snapshot, cur, existed, guard, todo, begun, last>>
      /\ pc = "committed" /\ pc' = "clean"
      /\ \/ sets' = [sets EXCEPT ![cur].begun = "none", ![cur].committed = TRUE]
         \/ UNCHANGED sets
      /\ queue' = guard \cup {n \in {"begun", "committed"} : sets'[cur][n] # NoSet[n]}
  BY DEF MarkCommitted, history, Goto
<1>2. /\ cur \in Tag /\ cur = begun /\ manifest # None /\ sets \in [Tag -> RollbackSet]
      /\ guard \subseteq {"manifest", "snapshot"}
  BY <1>1 DEF DiskInv, TxnOK, DiskType
<1>3. sets' \in [Tag -> RollbackSet] /\ \A u \in Tag : u # cur => sets'[u] = sets[u]
  <2>1. CASE sets' = [sets EXCEPT ![cur].begun = "none", ![cur].committed = TRUE]
    <3>1. PICK S \in RollbackSet : S = [sets[cur] EXCEPT !.begun = "none"]
      BY <1>2, SetUpdate DEF Marker
    <3>2. PICK T \in RollbackSet : T = [S EXCEPT !.committed = TRUE]
      BY <3>1, SetUpdate
    <3>3. sets' = [sets EXCEPT ![cur] = T]
      BY <1>2, <2>1, <3>1, <3>2
    <3> QED BY <1>2, <3>3, PutFacts
  <2> QED BY <1>1, <1>2, <2>1
<1>4. FilesOK'
  BY <1>1, <1>2, <1>3, CommittedStep
<1>5. DiskType'
  <2>1. queue' \subseteq Name
    BY <1>1, <1>2 DEF Name
  <2> QED BY <1>1, <1>3, <2>1 DEF DiskInv, DiskType, Pc
<1>6. TxnOK'
  BY <1>1, <1>2 DEF TxnOK, Txn, Undo
<1> QED BY <1>1, <1>4, <1>5, <1>6, TxnPlace DEF DiskInv

LEMMA CleanKeeps ==
  ASSUME DiskInv, Bearable, Clean
  PROVE  DiskInv'
<1>1. /\ UNCHANGED <<manifest, snapshot, cur, existed, guard, todo, begun, last>>
      /\ pc = "clean" /\ pc' \in {"done", "clean"}
  BY DEF Clean, RemoveNext, history, Goto
<1>2. /\ cur \in Tag /\ cur = begun /\ manifest # None /\ sets \in [Tag -> RollbackSet]
      /\ queue \subseteq Name
  BY <1>1 DEF DiskInv, TxnOK, DiskType
<1>3. /\ sets' \in [Tag -> RollbackSet] /\ \A u \in Tag : u # cur => sets'[u] = sets[u]
      /\ queue' \subseteq Name
  BY <1>2, RemoveFacts DEF Clean
<1>4. FilesOK'
  BY <1>1, <1>2, <1>3, CommittedStep
<1>5. DiskType'
  BY <1>1, <1>3 DEF DiskInv, DiskType, Pc
<1>6. TxnOK'
  BY <1>1, <1>2 DEF TxnOK, Txn, Undo
<1>7. CASE pc' = "done"
  BY <1>4, <1>5, <1>7, IdlePlace DEF DiskInv
<1>8. CASE pc' = "clean"
  BY <1>4, <1>5, <1>6, <1>8, TxnPlace DEF DiskInv
<1> QED BY <1>1, <1>7, <1>8

LEMMA StepFailsKeeps ==
  ASSUME DiskInv, StepFails
  PROVE  DiskInv'
<1>1. /\ UNCHANGED <<manifest, snapshot, cur, existed, guard, todo, queue, begun, last>>
      /\ pc \in {"aside", "link", "copied", "save", "commit"} /\ pc' = "undoSnapshot"
      /\ pc = "aside" => manifest # None
      /\ Put("partial", FALSE)
  BY NoSetFacts DEF StepFails, held, history, Goto, Drop
<1>2. /\ cur \in Tag /\ cur = begun /\ sets \in [Tag -> RollbackSet]
      /\ OverAside \/ OverPair
  BY <1>1, TxnFacts DEF Txn
<1>3. /\ sets' \in [Tag -> RollbackSet] /\ \A u \in Tag : u # cur => sets'[u] = sets[u]
      /\ sets'[cur].snapshot = sets[cur].snapshot /\ sets'[cur].manifest = sets[cur].manifest
      /\ sets'[cur].begun = sets[cur].begun /\ sets'[cur].committed = sets[cur].committed
  BY <1>1, <1>2, PutPartial
<1>4. DiskType'
  BY <1>1, <1>3 DEF DiskInv, DiskType, Pc, Undo
<1>5. pc' \in (Txn \cup Undo) \ {"committed"}
  BY <1>1 DEF Txn, Undo
<1>6. CASE OverAside
  <2>1. FilesOK' /\ OverAside'
    BY <1>1, <1>2, <1>3, <1>6, AsideStep DEF OverAside
  <2> QED BY <1>1, <1>2, <1>4, <1>5, <2>1, TxnStays
<1>7. CASE OverPair
  <2>1. /\ \A u \in Tag : u # cur => Harmless(sets[u])
        /\ ~sets[cur].committed /\ existed = (last # None)
    BY <1>7 DEF OverPair
  <2>2. last = None => Void(sets[cur]) /\ (snapshot = NoFile \/ sets[cur].begun = "without")
    <3>1. last = None => \A t \in Tag : Void(sets[t])
      BY DEF DiskInv, FilesOK, NothingCommitted
    <3>2. last = None /\ snapshot # NoFile => \E t \in Tag : sets[t].begun = "without"
      BY DEF DiskInv, FilesOK, NothingCommitted
    <3>3. \A t \in Tag : sets[t].begun = "without" /\ Void(sets[t]) => t = cur
      BY <1>2, <2>1, NotHarmless
    <3> QED BY <1>2, <3>1, <3>2, <3>3
  <2>3. /\ "manifest" \notin guard => guard = {} /\ manifest = last
        /\ "manifest" \in guard => Restores(sets[cur]) /\ manifest = None
        /\ "snapshot" \in guard <=> sets[cur].snapshot # NoFile
    <3>1. CASE pc = "aside"
      BY <1>7, <3>1 DEF OverPair
    <3>2. CASE pc \in {"link", "copied"}
      BY <1>7, <2>1, <3>2 DEF OverPair, Restores
    <3>3. CASE pc \in {"save", "commit"} /\ last # None
      BY <1>7, <2>1, <3>3 DEF OverPair, Restores
    <3>4. CASE pc \in {"save", "commit"} /\ last = None
      BY <1>7, <2>2, <3>4 DEF OverPair, Void
    <3> QED BY <1>1, <3>1, <3>2, <3>3, <3>4
  <2>4. "manifest" \in guard => Restores(sets[cur])'
    BY <1>1, <1>3, <2>3 DEF Restores
  <2>5. PairIsLast'
    BY <1>1 DEF DiskInv, FilesOK, PairIsLast
  <2>6. last = None => Void(sets'[cur])
    BY <1>3, <2>2 DEF Void
  <2>7. FilesOK'
    BY <1>1, <1>2, <1>3, <1>7, <2>2, <2>3, <2>4, <2>5, <2>6, PairStep
  <2>8. OverPair'
    BY <1>1, <1>3, <2>1, <2>3, <2>4 DEF OverPair
  <2> QED BY <1>1, <1>2, <1>4, <1>5, <2>7, <2>8, TxnStays
<1> QED BY <1>2, <1>6, <1>7

LEMMA UndoSnapshotKeeps ==
  ASSUME DiskInv, UndoSnapshot
  PROVE  DiskInv'
<1>1. /\ UNCHANGED <<manifest, cur, existed, guard, todo, queue, begun, last>>
      /\ pc = "undoSnapshot" /\ pc' = "undoManifest"
  BY DEF UndoSnapshot, held, history, Goto
<1>2. /\ cur \in Tag /\ cur = begun /\ sets \in [Tag -> RollbackSet]
      /\ snapshot \in File \cup {NoFile}
      /\ OverAside \/ OverPair
  BY <1>1, TxnFacts DEF Undo
<1>3. /\ "snapshot" \in guard => RenameSnapshotBack
      /\ "snapshot" \notin guard /\ ~existed => snapshot' = NoFile /\ UNCHANGED sets
      /\ "snapshot" \notin guard /\ existed => UNCHANGED <<snapshot, sets>>
  BY DEF UndoSnapshot
<1>4. /\ sets' \in [Tag -> RollbackSet] /\ \A u \in Tag : u # cur => sets'[u] = sets[u]
      /\ sets'[cur].begun = sets[cur].begun /\ sets'[cur].manifest = sets[cur].manifest
      /\ sets'[cur].committed = sets[cur].committed
      /\ "snapshot" \in guard => /\ snapshot' = sets[cur].snapshot
                                 /\ sets'[cur].snapshot \in {sets[cur].snapshot, NoFile}
      /\ "snapshot" \notin guard => sets' = sets
  BY <1>2, <1>3, RenameBackFacts
<1>5. snapshot' \in File \cup {NoFile}
  BY <1>2, <1>3, <1>4, SetType
<1>6. DiskType'
  BY <1>1, <1>4, <1>5 DEF DiskInv, DiskType, Pc, Undo
<1>7. pc' \in (Txn \cup Undo) \ {"committed"}
  BY <1>1 DEF Txn, Undo
<1>8. CASE OverAside
  <2>1. FilesOK' /\ OverAside'
    BY <1>1, <1>2, <1>4, <1>8, AsideStep DEF OverAside
  <2> QED BY <1>1, <1>2, <1>6, <1>7, <2>1, TxnStays
<1>9. CASE OverPair
  <2>1. /\ \A u \in Tag : u # cur => Harmless(sets[u])
        /\ ~sets[cur].committed /\ existed = (last # None)
        /\ "manifest" \notin guard => guard = {} /\ manifest = last
        /\ "manifest" \in guard => Restores(sets[cur]) /\ manifest = None
        /\ "snapshot" \in guard <=> sets[cur].snapshot # NoFile
    BY <1>1, <1>9 DEF OverPair
  <2>2. snapshot'.ver = last
    <3>1. CASE "snapshot" \in guard
      BY <1>4, <2>1, <3>1 DEF Restores
    <3>2. CASE "snapshot" \notin guard /\ last = None
      BY <1>3, <2>1, <3>2, FileFacts
    <3>3. CASE "snapshot" \notin guard /\ last # None /\ "manifest" \in guard
      BY <1>3, <2>1, <3>3 DEF Restores
    <3>4. CASE "snapshot" \notin guard /\ last # None /\ "manifest" \notin guard
      BY <1>3, <2>1, <3>4 DEF DiskInv, FilesOK, PairIsLast
    <3> QED BY <3>1, <3>2, <3>3, <3>4
  <2>3. "manifest" \in guard => Restores(sets[cur])'
    BY <1>1, <1>4, <2>1, <2>2 DEF Restores
  <2>4. PairIsLast'
    BY <1>1, <2>1, <2>2 DEF PairIsLast
  <2>5. last = None => Void(sets'[cur]) /\ snapshot' = NoFile
    <3>1. last = None => Void(sets[cur])
      BY <1>2 DEF DiskInv, FilesOK, NothingCommitted
    <3>2. last = None => snapshot' = NoFile
      BY <1>5, <2>2, FileFacts
    <3> QED BY <1>4, <3>1, <3>2 DEF Void
  <2>6. FilesOK'
    BY <1>1, <1>2, <1>4, <1>9, <2>1, <2>3, <2>4, <2>5, PairStep
  <2>7. OverPair'
    BY <1>1, <1>4, <2>1, <2>2, <2>3 DEF OverPair
  <2> QED BY <1>1, <1>2, <1>6, <1>7, <2>6, <2>7, TxnStays
<1> QED BY <1>2, <1>8, <1>9

LEMMA UndoManifestKeeps ==
  ASSUME DiskInv, UndoManifest
  PROVE  DiskInv'
<1>1. /\ UNCHANGED <<snapshot, cur, existed, guard, todo, begun, last>>
      /\ pc = "undoManifest" /\ pc' = "undoMarker" /\ queue' = {"begun"}
      /\ "manifest" \in guard => manifest' = sets[cur].manifest /\ Put("manifest", None)
      /\ "manifest" \notin guard => UNCHANGED <<manifest, sets>>
  BY NoSetFacts DEF UndoManifest, RenameManifestBack, Drop, history, Goto
<1>2. /\ cur \in Tag /\ cur = begun /\ sets \in [Tag -> RollbackSet]
      /\ snapshot \in File \cup {NoFile}
      /\ OverAside \/ OverPair
  BY <1>1, TxnFacts DEF Undo
<1>3. pc' \in (Txn \cup Undo) \ {"committed"} /\ pc' \in Pc /\ queue' \subseteq Name
  BY <1>1 DEF Txn, Undo, Pc, Name
<1>4. CASE OverAside
  <2>1. UNCHANGED <<manifest, sets>>
    BY <1>1, <1>4 DEF OverAside
  <2>2. FilesOK' /\ OverAside'
    BY <1>1, <1>2, <1>4, <2>1, AsideStep DEF OverAside
  <2>3. DiskType'
    BY <1>1, <1>3, <2>1 DEF DiskInv, DiskType
  <2> QED BY <1>1, <1>2, <1>3, <2>2, <2>3, TxnStays
<1>5. CASE OverPair
  <2>1. /\ \A u \in Tag : u # cur => Harmless(sets[u])
        /\ ~sets[cur].committed /\ existed = (last # None) /\ snapshot.ver = last
        /\ "manifest" \notin guard => manifest = last
        /\ "manifest" \in guard => last # None /\ sets[cur].manifest = last
    BY <1>1, <1>5 DEF OverPair, Restores
  <2>2. manifest' = last
    BY <1>1, <2>1
  <2>3. /\ sets' \in [Tag -> RollbackSet] /\ \A u \in Tag : u # cur => sets'[u] = sets[u]
        /\ sets'[cur].committed = sets[cur].committed
        /\ "manifest" \notin guard => sets' = sets
    BY <1>1, <1>2, PutManifestName
  <2>4. PairIsLast'
    BY <1>1, <2>1, <2>2 DEF PairIsLast
  <2>5. last = None => Void(sets'[cur]) /\ snapshot' = NoFile
    <3>1. last = None => Void(sets[cur])
      BY <1>2 DEF DiskInv, FilesOK, NothingCommitted
    <3>2. last = None => snapshot = NoFile
      BY <1>2, <2>1, FileFacts
    <3> QED BY <1>1, <2>1, <2>3, <3>1, <3>2
  <2>6. FilesOK'
    BY <1>1, <1>2, <1>5, <2>2, <2>3, <2>4, <2>5, PairStep
  <2>7. OverPair'
    BY <1>1, <2>1, <2>2, <2>3 DEF OverPair
  <2>8. DiskType'
    BY <1>1, <1>3, <2>2, <2>3 DEF DiskInv, DiskType
  <2> QED BY <1>1, <1>2, <1>3, <2>6, <2>7, <2>8, TxnStays
<1> QED BY <1>2, <1>4, <1>5

LEMMA UndoMarkerKeeps ==
  ASSUME DiskInv, Bearable, UndoMarker
  PROVE  DiskInv'
<1>1. /\ UNCHANGED <<manifest, snapshot, cur, existed, guard, todo, begun, last>>
      /\ pc = "undoMarker" /\ pc' = IF queue' = {} THEN "done" ELSE pc
  BY DEF UndoMarker, RemoveNext, history, Goto
<1>2. /\ cur \in Tag /\ cur = begun /\ sets \in [Tag -> RollbackSet]
      /\ snapshot \in File \cup {NoFile}
      /\ OverAside \/ OverPair
  BY <1>1, TxnFacts DEF Undo
<1>3. queue \subseteq {"begun"} /\ queue \subseteq Name
  BY <1>1 DEF DiskInv, TxnOK, DiskType
<1>4. sets' \in [Tag -> RollbackSet] /\ \A u \in Tag : u # cur => sets'[u] = sets[u]
  BY <1>2, <1>3, RemoveFacts DEF UndoMarker
<1>5. PICK n \in queue : queue' = queue \ {n} /\ Without(sets[cur], sets'[cur], n)
  BY <1>2, <1>3, RemoveFacts DEF UndoMarker
<1>6. /\ queue' = {} /\ pc' = "done"
      /\ sets'[cur].manifest = sets[cur].manifest /\ sets'[cur].snapshot = sets[cur].snapshot
      /\ sets'[cur].committed = sets[cur].committed
  BY <1>1, <1>3, <1>5 DEF Without
<1>7. DiskType'
  BY <1>1, <1>4, <1>6 DEF DiskInv, DiskType, Pc
<1>8. CASE OverAside
  <2>1. FilesOK'
    BY <1>1, <1>2, <1>4, <1>6, <1>8, AsideStep DEF OverAside
  <2> QED BY <1>6, <1>7, <2>1, IdlePlace DEF DiskInv
<1>9. CASE OverPair
  <2>1. manifest = last /\ snapshot.ver = last
    BY <1>1, <1>9 DEF OverPair
  <2>2. PairIsLast'
    BY <1>1 DEF DiskInv, FilesOK, PairIsLast
  <2>3. last = None => Void(sets'[cur]) /\ snapshot' = NoFile
    <3>1. last = None => Void(sets[cur])
      BY <1>2 DEF DiskInv, FilesOK, NothingCommitted
    <3>2. last = None => snapshot = NoFile
      BY <1>2, <2>1, FileFacts
    <3> QED BY <1>1, <1>6, <3>1, <3>2 DEF Void
  <2>4. FilesOK'
    BY <1>1, <1>2, <1>4, <1>9, <2>1, <2>2, <2>3, PairStep
  <2> QED BY <1>6, <1>7, <2>4, IdlePlace DEF DiskInv
<1> QED BY <1>2, <1>8, <1>9

\* Whoever looks without the lock changes nothing the holder works on.
LEMMA UntouchedKeeps ==
  ASSUME DiskInv, UNCHANGED <<files, pc, held, history>>
  PROVE  DiskInv'
<1>1. UNCHANGED <<manifest, snapshot, sets, pc, cur, existed, guard, todo, queue, begun, last>>
  BY DEF files, held, history
<1>2. FilesOK' /\ DiskType'
  BY <1>1, FilesKept DEF DiskInv, DiskType
<1>3. RecoverOK'
  BY <1>1
     DEF DiskInv, RecoverOK, Through, InHand, PuttingBack, SnapshotIsBack, Discarding, Restores
<1>4. HeldOK'
  BY <1>1 DEF DiskInv, HeldOK, InPlace, Aside, Restored, Restores
<1>5. TxnOK'
  <2>1. OverAside => OverAside'
    BY <1>1 DEF OverAside, Restored, Restores
  <2>2. OverPair => OverPair'
    BY <1>1 DEF OverPair, Restores, Says
  <2> QED BY <1>1, <2>1, <2>2 DEF DiskInv, TxnOK
<1> QED BY <1>2, <1>3, <1>4, <1>5 DEF DiskInv

(***************************************************************************)
(* The readers.                                                            *)
(***************************************************************************)

\* What a step of the holder may do to a reader under way: only the manifest
\* being set aside takes an index from before its eyes.
StepForReaders ==
  /\ begun' \in Ver /\ begun <= begun'
  /\ manifest' = None /\ last' # None => last' = last /\ (manifest = None \/ pc = "aside")
  /\ pc' \in {"mark", "aside"} =>
       begun < begun' \/ (pc \in {"mark", "aside"} /\ manifest' = manifest)

LEMMA ReaderStable ==
  ASSUME begun \in Ver, StepForReaders, NEW k \in ReaderState, ReaderOK(k)
  PROVE  ReaderOK(k)'
<1>1. /\ k.came \in Nat /\ begun \in Nat /\ begun' \in Nat
      /\ k.came <= begun /\ begun <= begun'
  BY VersionFacts DEF ReaderState, StepForReaders, ReaderOK
<1>2. k.came <= begun'
  BY <1>1
<1>3. ASSUME ~k.found, k.at = "look again" PROVE k.came < begun' \/ manifest' # None \/ last' = None
  <2>1. SUFFICES ASSUME k.came = begun, begun' = begun, manifest' = None, last' # None PROVE FALSE
    BY <1>1
  <2>2. last' = last /\ (manifest = None \/ pc = "aside")
    BY <2>1 DEF StepForReaders
  <2>3. ~(k.came < begun)
    BY <1>1, <2>1
  <2>4. pc = "aside" => manifest = None
    BY <1>3, <2>1 DEF ReaderOK
  <2>5. manifest # None \/ last = None
    BY <1>3, <2>3 DEF ReaderOK
  <2> QED BY <2>1, <2>2, <2>4, <2>5
<1>4. ASSUME ~k.found, k.at \in {"names", "wait", "look again"}, k.came = begun',
             pc' \in {"mark", "aside"}
      PROVE  manifest' = None
  <2>1. begun' = begun /\ ~(begun < begun')
    <3>1. k.came = begun' => begun' = begun /\ ~(begun < begun')
      BY <1>1
    <3> QED BY <1>4, <3>1
  <2>2. pc \in {"mark", "aside"} /\ manifest' = manifest
    <3>1. begun < begun' \/ (pc \in {"mark", "aside"} /\ manifest' = manifest)
      BY <1>4 DEF StepForReaders
    <3> QED BY <2>1, <3>1
  <2> QED BY <1>4, <2>1, <2>2 DEF ReaderOK
<1>5. ASSUME ~k.found, k.at = "missed" PROVE k.came < begun'
  <2>1. k.came < begun
    BY <1>5 DEF ReaderOK
  <2> QED BY <1>1, <2>1
<1> QED BY <1>2, <1>3, <1>4, <1>5 DEF ReaderOK

LEMMA SameReaders ==
  ASSUME DiskInv, ReaderInv, UNCHANGED <<reader, hand>>, StepForReaders,
         hand # NoReader => pc' \in Recover \cup {"held"} /\ (pc' = "held" => manifest' = last')
  PROVE  ReaderInv'
<1>1. ASSUME NEW r \in Observer PROVE ReaderOK(reader[r])'
  <2>1. PICK k \in ReaderState : k = reader[r] /\ ReaderOK(k)
    BY <1>1 DEF ReaderInv
  <2>2. ReaderOK(k)'
    BY <2>1, ReaderStable DEF DiskInv, DiskType
  <2>3. k = reader'[r]
    BY <2>1
  <2> QED BY <2>2, <2>3
<1>2. HandOK'
  BY DEF ReaderInv, HandOK
<1> QED BY <1>1, <1>2 DEF ReaderInv

\* A reader in hand goes on, without harm from where it was.
LEMMA HandedReaders ==
  ASSUME DiskInv, ReaderInv, NEW place \in {"look again", "gave up", "dead"}, Handed(place),
         UNCHANGED <<manifest, begun, last>>, pc' \notin {"mark", "aside"},
         place = "look again" /\ hand # NoReader => manifest = last
  PROVE  ReaderInv'
<1>1. /\ hand' = NoReader
      /\ reader' = IF hand = NoReader THEN reader ELSE [reader EXCEPT ![hand].at = place]
  BY DEF Handed
<1>2. reader \in [Observer -> ReaderState] /\ hand \in Observer \cup {NoReader}
  BY DEF ReaderInv
<1>3. begun \in Ver /\ StepForReaders
  <2>1. begun \in Ver /\ begun' = begun
    BY DEF DiskInv, DiskType
  <2> QED BY <2>1, VersionOrder DEF StepForReaders
<1>4. ASSUME NEW r \in Observer PROVE reader'[r] \in ReaderState /\ ReaderOK(reader[r])'
  <2>1. PICK k \in ReaderState : k = reader[r] /\ ReaderOK(k)
    BY <1>4 DEF ReaderInv
  <2>2. ReaderOK(k)'
    BY <1>3, <2>1, ReaderStable
  <2>3. CASE r # hand \/ hand = NoReader
    <3>1. k = reader'[r]
      BY <1>1, <1>2, <2>1, <2>3
    <3> QED BY <2>2, <3>1
  <2>4. CASE r = hand /\ hand # NoReader
    <3>1. PICK l \in ReaderState : l = [k EXCEPT !.at = place]
      BY <2>1 DEF ReaderState
    <3>2. l = reader'[r]
      BY <1>1, <1>2, <2>1, <2>4, <3>1
    <3>3. l.at = place /\ l.found = k.found /\ l.came = k.came
      BY <2>1, <3>1 DEF ReaderState
    <3>4. place = "look again" => manifest' = last'
      BY <2>4
    <3>5. ReaderOK(l)'
      BY <2>2, <3>3, <3>4 DEF ReaderOK
    <3> QED BY <3>2, <3>5
  <2> QED BY <2>3, <2>4
<1>5. reader' \in [Observer -> ReaderState]
  <2>1. CASE hand = NoReader
    BY <1>1, <1>2, <2>1
  <2>2. CASE hand # NoReader
    <3>1. reader' = [reader EXCEPT ![hand].at = place]
      BY <1>1, <2>2
    <3>2. DOMAIN reader' = Observer /\ reader' = [r \in Observer |-> reader'[r]]
      BY <1>2, <3>1
    <3> QED BY <1>4, <3>2
  <2> QED BY <2>1, <2>2
<1>6. HandOK'
  BY <1>1 DEF HandOK
<1> QED BY <1>1, <1>4, <1>5, <1>6 DEF ReaderInv

LEMMA NoHand ==
  ASSUME ReaderInv, pc \notin Recover \cup {"held"}
  PROVE  hand = NoReader
BY DEF ReaderInv, HandOK

LEMMA HolderReaders ==
  ASSUME DiskInv, ReaderInv,
         Take \/ RecoverNext \/ RecoverEnd \/ PutSnapshot \/ PutManifest \/ Discard
  PROVE  ReaderInv'
<1>1. begun \in Ver
  BY DEF DiskInv, DiskType
<1>2. UNCHANGED <<reader, hand, begun, last>>
  BY DEF Take, RecoverNext, RecoverEnd, PutSnapshot, PutManifest, Discard, RemoveNext, readers,
         history
<1>3. pc' \in Recover \cup {"held"} /\ pc' \notin {"mark", "aside"}
  BY DEF Take, RecoverNext, RecoverEnd, PutSnapshot, PutManifest, Discard, RemoveNext, Goto,
         Recover
<1>4. UNCHANGED manifest \/ manifest = None
  <2>1. PutManifest => manifest = None
    BY DEF PutManifest, DiskInv, RecoverOK, PuttingBack
  <2>2. ~PutManifest => UNCHANGED manifest
    BY DEF Take, RecoverNext, RecoverEnd, PutSnapshot, Discard, RemoveNext, files
  <2> QED BY <2>1, <2>2
<1>5. StepForReaders
  BY <1>1, <1>2, <1>3, <1>4, VersionFacts DEF StepForReaders
<1>6. pc' = "held" => manifest' = last'
  <2>1. SUFFICES ASSUME RecoverEnd PROVE manifest' = last'
    BY DEF Take, RecoverNext, PutSnapshot, PutManifest, Discard, RemoveNext, Goto
  <2>2. \A u \in Tag : Harmless(sets[u])
    BY <2>1 DEF RecoverEnd, DiskInv, RecoverOK, Through, Recover
  <2>3. manifest = last
    BY <2>2, AllHarmless DEF InPlace, DiskInv
  <2> QED BY <1>2, <2>1, <2>3 DEF RecoverEnd, files
<1> QED BY <1>2, <1>3, <1>5, <1>6, SameReaders

LEMMA BeginReaders ==
  ASSUME DiskInv, DiskInv', ReaderInv, Begin
  PROVE  ReaderInv'
<1>1. /\ UNCHANGED <<reader, hand, manifest, last>> /\ hand = NoReader
      /\ begun' = begun + 1
  BY DEF Begin, readers
<1>2. begun \in Ver /\ begun' \in Ver
  BY DEF DiskInv, DiskType
<1>3. StepForReaders
  BY <1>1, <1>2, VersionFacts DEF StepForReaders
<1> QED BY <1>1, <1>3, SameReaders

LEMMA TxnReaders ==
  ASSUME DiskInv, ReaderInv,
         \/ WriteMarker \/ MarkerFails \/ SetManifestAside \/ LinkSnapshot
         \/ CopySnapshot \/ RenameCopy \/ SaveSnapshot \/ WriteManifest
         \/ MarkCommitted \/ Clean
         \/ StepFails \/ UndoSnapshot \/ UndoManifest \/ UndoMarker \/ UndoFails
  PROVE  ReaderInv'
<1>1. begun \in Ver
  BY DEF DiskInv, DiskType
<1>2. pc \notin Recover \cup {"held"}
  BY DEF WriteMarker, MarkerFails, SetManifestAside, LinkSnapshot, CopySnapshot, RenameCopy,
         SaveSnapshot, WriteManifest, MarkCommitted, Clean, StepFails, UndoSnapshot, UndoManifest,
         UndoMarker, UndoFails, Recover
<1>3. UNCHANGED <<reader, hand, begun>>
  BY DEF WriteMarker, MarkerFails, SetManifestAside, LinkSnapshot, CopySnapshot, RenameCopy,
         SaveSnapshot, WriteManifest, MarkCommitted, Clean, StepFails, UndoSnapshot, UndoManifest,
         UndoMarker, UndoFails, RemoveNext, readers, history
<1>4. pc' \in {"mark", "aside"} => pc = "mark" /\ manifest' = manifest
  BY DEF WriteMarker, MarkerFails, SetManifestAside, LinkSnapshot, CopySnapshot, RenameCopy,
         SaveSnapshot, WriteManifest, MarkCommitted, Clean, StepFails, UndoSnapshot, UndoManifest,
         UndoMarker, UndoFails, RemoveNext, Goto
<1>5. CASE WriteManifest
  <2>1. manifest' # None
    BY <1>5, VersionFacts DEF WriteManifest, DiskInv, TxnOK, Txn
  <2>2. StepForReaders
    BY <1>1, <1>3, <1>4, <2>1, VersionFacts DEF StepForReaders
  <2> QED BY <1>2, <1>3, <2>2, NoHand, SameReaders
<1>6. CASE ~WriteManifest
  <2>1. UNCHANGED last
    BY <1>6
       DEF WriteMarker, MarkerFails, SetManifestAside, LinkSnapshot, CopySnapshot, RenameCopy,
         SaveSnapshot, MarkCommitted, Clean, StepFails, UndoSnapshot, UndoManifest,
         UndoMarker, UndoFails, RemoveNext, history
  <2>2. UndoManifest => manifest = None \/ UNCHANGED manifest
    <3>1. UndoManifest /\ "manifest" \notin guard => UNCHANGED manifest
      BY DEF UndoManifest
    <3>2. UndoManifest /\ "manifest" \in guard => manifest = None
      BY DEF UndoManifest, DiskInv, TxnOK, OverAside, OverPair, Undo
    <3> QED BY <3>1, <3>2
  <2>3. ~UndoManifest => UNCHANGED manifest \/ pc = "aside"
    BY <1>6
       DEF WriteMarker, MarkerFails, SetManifestAside, LinkSnapshot, CopySnapshot, RenameCopy,
         SaveSnapshot, MarkCommitted, Clean, StepFails, UndoSnapshot,
         UndoMarker, UndoFails, RemoveNext, files
  <2>4. manifest' = None => manifest = None \/ pc = "aside"
    BY <2>2, <2>3
  <2>5. StepForReaders
    BY <1>1, <1>3, <1>4, <2>1, <2>4, VersionFacts DEF StepForReaders
  <2> QED BY <1>2, <1>3, <2>5, NoHand, SameReaders
<1> QED BY <1>5, <1>6

LEMMA LetGoReaders ==
  ASSUME DiskInv, ReaderInv, Release \/ Crash \/ RecoverFails
  PROVE  ReaderInv'
<1>1. UNCHANGED <<manifest, begun, last>>
  BY DEF Release, Crash, RecoverFails, files, history
<1>2. pc' \notin {"mark", "aside"}
  BY DEF Release, Crash, RecoverFails, LetGo, Goto
<1>3. CASE Release
  <2>1. hand # NoReader => manifest = last
    BY <1>3 DEF Release, ReaderInv, HandOK, Recover
  <2> QED BY <1>1, <1>2, <1>3, <2>1, HandedReaders DEF Release
<1>4. CASE Crash
  BY <1>1, <1>2, <1>4, HandedReaders DEF Crash
<1>5. CASE RecoverFails
  BY <1>1, <1>2, <1>5, HandedReaders DEF RecoverFails
<1> QED BY <1>3, <1>4, <1>5

LEMMA TakeForReaderReaders ==
  ASSUME DiskInv, ReaderInv, NEW r \in Observer, TakeForReader(r)
  PROVE  ReaderInv'
<1>1. /\ UNCHANGED <<reader, manifest, begun, last>> /\ hand' = r /\ pc' = "recover"
      /\ reader[r].at = "wait"
  BY DEF TakeForReader, files, history, Goto
<1>2. begun \in Ver /\ begun <= begun
  BY VersionFacts DEF DiskInv, DiskType
<1>3. StepForReaders
  BY <1>1, <1>2 DEF StepForReaders
<1>4. ASSUME NEW q \in Observer PROVE ReaderOK(reader[q])'
  <2>1. PICK k \in ReaderState : k = reader[q] /\ ReaderOK(k)
    BY <1>4 DEF ReaderInv
  <2>2. ReaderOK(k)'
    BY <1>2, <1>3, <2>1, ReaderStable
  <2>3. k = reader'[q]
    BY <1>1, <2>1
  <2> QED BY <2>2, <2>3
<1>5. HandOK'
  BY <1>1 DEF HandOK, Recover
<1> QED BY <1>1, <1>4, <1>5 DEF ReaderInv

\* A reader that moves on its own is in nobody's hand.
LEMMA MovedReader ==
  ASSUME ReaderInv, NEW r \in Observer, reader[r].at # "wait", NEW l \in ReaderState,
         reader' = [reader EXCEPT ![r] = l], ReaderOK(l),
         UNCHANGED <<manifest, last, begun, pc, hand>>
  PROVE  ReaderInv'
<1>1. /\ reader \in [Observer -> ReaderState]
      /\ \A q \in Observer : ReaderOK(reader[q])
      /\ hand # NoReader => reader[hand].at = "wait" /\ hand \in Observer
  BY DEF ReaderInv, HandOK
<1>2. reader' \in [Observer -> ReaderState] /\ reader'[r] = l
  BY <1>1
<1>3. \A q \in Observer : q # r => reader'[q] = reader[q]
  BY <1>1
<1>4. ASSUME NEW q \in Observer PROVE ReaderOK(reader[q])'
  <2>1. PICK k \in ReaderState : k = reader'[q]
    BY <1>2
  <2>2. ReaderOK(k)
    <3>1. CASE q = r
      BY <1>2, <2>1, <3>1
    <3>2. CASE q # r
      BY <1>1, <1>3, <2>1, <3>2
    <3> QED BY <3>1, <3>2
  <2>3. ReaderOK(k)'
    BY <2>2 DEF ReaderOK
  <2> QED BY <2>1, <2>3
<1>5. HandOK'
  <2>1. hand # NoReader => reader'[hand] = reader[hand]
    BY <1>1, <1>3
  <2> QED BY <2>1 DEF ReaderInv, HandOK
<1> QED BY <1>2, <1>4, <1>5 DEF ReaderInv

LEMMA LookReaders ==
  ASSUME DiskInv, ReaderInv, NEW r \in Observer, Look(r)
  PROVE  ReaderInv'
<1>1. /\ UNCHANGED <<manifest, last, begun, pc, hand>> /\ reader[r].at = "out"
      /\ reader' = [reader EXCEPT ![r] =
           [at |-> IF manifest # None THEN "look again" ELSE "names",
            found |-> manifest # None, came |-> begun]]
  BY DEF Look, files, history
<1>2. begun \in Ver /\ begun <= begun
  BY VersionFacts DEF DiskInv, DiskType
<1>3. CASE manifest # None
  <2>1. PICK l \in ReaderState : l = [at |-> "look again", found |-> TRUE, came |-> begun]
    BY <1>2 DEF ReaderState
  <2>2. l.at = "look again" /\ l.found = TRUE /\ l.came = begun
    BY <2>1
  <2>3. reader' = [reader EXCEPT ![r] = l]
    BY <1>1, <1>3, <2>1
  <2>4. ReaderOK(l)
    BY <1>2, <2>2 DEF ReaderOK
  <2> QED BY <1>1, <2>3, <2>4, MovedReader
<1>4. CASE manifest = None
  <2>1. PICK l \in ReaderState : l = [at |-> "names", found |-> FALSE, came |-> begun]
    BY <1>2 DEF ReaderState
  <2>2. l.at = "names" /\ l.found = FALSE /\ l.came = begun
    BY <2>1
  <2>3. reader' = [reader EXCEPT ![r] = l]
    BY <1>1, <1>4, <2>1
  <2>4. ReaderOK(l)
    BY <1>2, <1>4, <2>2 DEF ReaderOK
  <2> QED BY <1>1, <2>3, <2>4, MovedReader
<1> QED BY <1>3, <1>4

LEMMA LookForNamesReaders ==
  ASSUME DiskInv, ReaderInv, NEW r \in Observer, LookForNames(r)
  PROVE  ReaderInv'
<1>1. UNCHANGED <<manifest, last, begun, pc, hand>> /\ reader[r].at = "names"
  BY DEF LookForNames, files, history
<1>2. PICK place \in {"wait", "look again"} :
        Move(r, place) /\ (place = "look again" => \A t \in Tag : sets[t] = NoSet)
  BY DEF LookForNames
<1>3. place = "look again" => manifest # None \/ last = None
  <2>1. SUFFICES ASSUME \A t \in Tag : sets[t] = NoSet PROVE manifest # None \/ last = None
    BY <1>2
  <2>2. \A u \in Tag : Harmless(sets[u])
    BY <2>1, EmptyIsHarmless
  <2>3. manifest = last
    BY <2>2, AllHarmless DEF InPlace, DiskInv
  <2> QED BY <2>3
<1>4. PICK k \in ReaderState : k = reader[r] /\ ReaderOK(k)
  BY DEF ReaderInv
<1>5. PICK l \in ReaderState : l = [k EXCEPT !.at = place]
  BY <1>2, <1>4 DEF ReaderState
<1>6. /\ l.at = place /\ l.found = k.found /\ l.came = k.came
      /\ reader' = [reader EXCEPT ![r] = l]
  BY <1>2, <1>4, <1>5 DEF ReaderState, Move
<1>7. ReaderOK(l)
  BY <1>1, <1>2, <1>3, <1>4, <1>6 DEF ReaderOK
<1> QED BY <1>1, <1>6, <1>7, MovedReader

LEMMA LookAgainReaders ==
  ASSUME DiskInv, ReaderInv, NEW r \in Observer, LookAgain(r)
  PROVE  ReaderInv'
<1>1. UNCHANGED <<manifest, last, begun, pc, hand>> /\ reader[r].at = "look again"
  BY DEF LookAgain, files, history
<1>2. PICK place \in {"index", "no index", "missed"} :
        Move(r, place) /\ (place = "missed" => manifest = None /\ last # None)
  BY DEF LookAgain
<1>3. PICK k \in ReaderState : k = reader[r] /\ ReaderOK(k)
  BY DEF ReaderInv
<1>4. PICK l \in ReaderState : l = [k EXCEPT !.at = place]
  BY <1>2, <1>3 DEF ReaderState
<1>5. /\ l.at = place /\ l.found = k.found /\ l.came = k.came
      /\ reader' = [reader EXCEPT ![r] = l]
  BY <1>2, <1>3, <1>4 DEF ReaderState, Move
<1>6. ReaderOK(l)
  BY <1>1, <1>2, <1>3, <1>5 DEF ReaderOK
<1> QED BY <1>1, <1>5, <1>6, MovedReader

LEMMA UntouchedReaders ==
  ASSUME ReaderInv, UNCHANGED <<reader, hand, manifest, last, begun, pc>>
  PROVE  ReaderInv'
<1>1. HandOK'
  BY DEF ReaderInv, HandOK
<1>2. \A r \in Observer : ReaderOK(reader[r])'
  BY DEF ReaderInv, ReaderOK
<1> QED BY <1>1, <1>2 DEF ReaderInv

(***************************************************************************)
(* The invariant, and what follows from it.                                *)
(***************************************************************************)

LEMMA InitInv ==
  ASSUME Init
  PROVE  PersistInv
<1>1. /\ sets = [t \in Tag |-> NoSet] /\ pc = "free" /\ cur = 0 /\ existed = FALSE /\ guard = {}
      /\ todo = {} /\ queue = {} /\ begun = 0 /\ last = manifest /\ hand = NoReader
      /\ reader = [r \in Observer |-> [at |-> "out", found |-> FALSE, came |-> 0]]
  BY DEF Init
<1>2. /\ manifest \in Ver \cup {None} /\ snapshot \in File \cup {NoFile}
      /\ snapshot.ver = manifest
  BY VersionFacts, FileFacts DEF Init, File
<1>3. DiskType
  BY <1>1, <1>2, VersionFacts, NoSetFacts DEF DiskType, Pc
<1>4. FilesOK
  <2>1. last = None => snapshot = NoFile
    BY <1>1, <1>2, FileFacts
  <2>2. \A t \in Tag : Void(sets[t])
    BY <1>1, NoSetFacts DEF Void
  <2>3. PairIsLast /\ WindowCloses /\ Unborn
    BY <1>1, <1>2 DEF PairIsLast, WindowCloses, Unborn
  <2> QED BY <2>1, <2>2, <2>3 DEF FilesOK, NothingCommitted
<1>5. RecoverOK /\ HeldOK /\ TxnOK
  BY <1>1 DEF RecoverOK, Through, InHand, PuttingBack, SnapshotIsBack, Discarding, Recover,
              HeldOK, TxnOK, Txn, Undo
<1>6. ReaderInv
  <2>1. reader \in [Observer -> ReaderState]
    BY <1>1, VersionFacts DEF ReaderState
  <2>2. \A r \in Observer : /\ reader[r].at = "out" /\ reader[r].came = 0
                            /\ ReaderOK(reader[r])
    <3>1. ASSUME NEW r \in Observer PROVE reader[r].at = "out" /\ reader[r].came = 0
      BY <1>1
    <3>2. 0 <= begun
      BY <1>1
    <3> QED BY <3>1, <3>2 DEF ReaderOK
  <2> QED BY <1>1, <2>1, <2>2 DEF ReaderInv, HandOK
<1> QED BY <1>3, <1>4, <1>5, <1>6 DEF PersistInv, DiskInv

LEMMA StepDisk ==
  ASSUME DiskInv, Bearable, Next
  PROVE  DiskInv'
<1>1. CASE Take \/ \E r \in Observer : TakeForReader(r)
  BY <1>1, TakeKeeps
<1>2. CASE RecoverNext
  BY <1>2, RecoverNextKeeps
<1>3. CASE RecoverEnd
  BY <1>3, RecoverEndKeeps
<1>4. CASE PutSnapshot
  BY <1>4, PutSnapshotKeeps
<1>5. CASE PutManifest
  BY <1>5, PutManifestKeeps
<1>6. CASE RecoverFails
  BY <1>6, RecoverFailsKeeps
<1>7. CASE Discard
  BY <1>7, DiscardKeeps
<1>8. CASE Release \/ Crash
  BY <1>8, LetGoKeeps
<1>9. CASE Begin
  BY <1>9, BeginKeeps
<1>10. CASE WriteMarker
  BY <1>10, WriteMarkerKeeps
<1>11. CASE MarkerFails
  BY <1>11, MarkerFailsKeeps
<1>12. CASE SetManifestAside
  BY <1>12, SetManifestAsideKeeps
<1>13. CASE LinkSnapshot
  BY <1>13, LinkSnapshotKeeps
<1>14. CASE CopySnapshot
  BY <1>14, CopySnapshotKeeps
<1>15. CASE RenameCopy
  BY <1>15, RenameCopyKeeps
<1>16. CASE SaveSnapshot
  BY <1>16, SaveSnapshotKeeps
<1>17. CASE WriteManifest
  BY <1>17, WriteManifestKeeps
<1>18. CASE MarkCommitted
  BY <1>18, MarkCommittedKeeps
<1>19. CASE Clean
  BY <1>19, CleanKeeps
<1>20. CASE StepFails
  BY <1>20, StepFailsKeeps
<1>21. CASE UndoSnapshot
  BY <1>21, UndoSnapshotKeeps
<1>22. CASE UndoManifest
  BY <1>22, UndoManifestKeeps
<1>23. CASE UndoMarker
  BY <1>23, UndoMarkerKeeps
<1>24. CASE UndoFails
  BY <1>24, UndoFailsKeeps
<1>25. CASE \E r \in Observer : Look(r) \/ LookForNames(r) \/ LookAgain(r)
  BY <1>25, UntouchedKeeps DEF Look, LookForNames, LookAgain
<1>26. CASE \E p \in Observer : ProbeStart(p) \/ ProbeRead(p) \/ ProbeList(p) \/ ProbeAnswer(p)
  BY <1>26, UntouchedKeeps DEF ProbeStart, ProbeRead, ProbeList, ProbeAnswer
<1> QED BY <1>1, <1>2, <1>3, <1>4, <1>5, <1>6, <1>7, <1>8, <1>9, <1>10, <1>11, <1>12, <1>13,
           <1>14, <1>15, <1>16, <1>17, <1>18, <1>19, <1>20, <1>21, <1>22, <1>23, <1>24, <1>25,
           <1>26 DEF Next

LEMMA StepInv ==
  ASSUME PersistInv, Bearable, [Next]_vars
  PROVE  PersistInv'
<1>1. DiskInv /\ ReaderInv
  BY DEF PersistInv
<1>2. CASE UNCHANGED vars
  <2>1. UNCHANGED <<files, pc, held, history, reader, hand, manifest, last, begun>>
    BY <1>2 DEF vars, files, history, readers
  <2>2. DiskInv'
    BY <1>1, <2>1, UntouchedKeeps
  <2>3. ReaderInv'
    BY <1>1, <2>1, UntouchedReaders
  <2> QED BY <2>2, <2>3 DEF PersistInv
<1>3. CASE Next
  <2>1. DiskInv'
    BY <1>1, <1>3, StepDisk
  <2>2. ReaderInv'
    <3>1. CASE Take \/ RecoverNext \/ RecoverEnd \/ PutSnapshot \/ PutManifest \/ Discard
      BY <1>1, <3>1, HolderReaders
    <3>2. CASE Begin
      BY <1>1, <2>1, <3>2, BeginReaders
    <3>3. CASE \/ WriteMarker \/ MarkerFails \/ SetManifestAside \/ LinkSnapshot
               \/ CopySnapshot \/ RenameCopy \/ SaveSnapshot \/ WriteManifest
               \/ MarkCommitted \/ Clean
               \/ StepFails \/ UndoSnapshot \/ UndoManifest \/ UndoMarker \/ UndoFails
      BY <1>1, <3>3, TxnReaders
    <3>4. CASE Release \/ Crash \/ RecoverFails
      BY <1>1, <3>4, LetGoReaders
    <3>5. CASE \E r \in Observer : TakeForReader(r)
      BY <1>1, <3>5, TakeForReaderReaders
    <3>6. CASE \E r \in Observer : Look(r) \/ LookForNames(r) \/ LookAgain(r)
      BY <1>1, <3>6, LookReaders, LookForNamesReaders, LookAgainReaders
    <3>7. CASE \E p \in Observer : ProbeStart(p) \/ ProbeRead(p) \/ ProbeList(p) \/ ProbeAnswer(p)
      <4>1. UNCHANGED <<files, history, readers, pc>>
        BY <3>7 DEF ProbeStart, ProbeRead, ProbeList, ProbeAnswer
      <4> QED BY <1>1, <4>1, UntouchedReaders DEF files, history, readers
    <3> QED BY <1>3, <3>1, <3>2, <3>3, <3>4, <3>5, <3>6, <3>7 DEF Next
  <2> QED BY <2>1, <2>2 DEF PersistInv
<1> QED BY <1>2, <1>3

\* Whatever crashes, failing steps and failing put-backs of the guard or of a
\* snapshot there are, the files always say how to get back to the pair
\* committed last, and every holder and reader knows where it is on the way.
THEOREM PersistInvariance ==
  ASSUME Bearable
  PROVE  Spec => []PersistInv
<1>1. Init => PersistInv
  BY InitInv
<1>2. PersistInv /\ [Next]_vars => PersistInv'
  BY StepInv
<1> QED BY <1>1, <1>2, PTL DEF Spec

\* Each variable of the lock's holder and of the readers keeps its type.
THEOREM TypeCorrect ==
  ASSUME Bearable
  PROVE  Spec => []TypeOK
<1>1. PersistInv => TypeOK
  BY DEF PersistInv, DiskInv, DiskType, ReaderInv, TypeOK
<1> QED BY <1>1, PersistInvariance, PTL

\* No transaction, rollback or recovery leaves a manifest beside the snapshot
\* of another one, at any file operation.
THEOREM PairIsNeverTorn ==
  ASSUME Bearable
  PROVE  Spec => []NeverTorn
<1>1. PersistInv => NeverTorn
  BY DEF PersistInv, DiskInv, FilesOK, PairIsLast, NeverTorn
<1> QED BY <1>1, PersistInvariance, PTL

\* A recovery through all the sets, however many transactions were cut short
\* and in whichever order they began, leaves the pair committed last.
THEOREM RecoveryIsRight ==
  ASSUME Bearable
  PROVE  Spec => []RecoveryRestores
<1>1. PersistInv => RecoveryRestores
  <2>1. SUFFICES ASSUME DiskInv, pc = "recover", todo = {}
                 PROVE  manifest = last /\ snapshot.ver = last
    BY DEF PersistInv, RecoveryRestores
  <2>2. \A u \in Tag : Harmless(sets[u])
    BY <2>1 DEF DiskInv, RecoverOK, Through, Recover
  <2> QED BY <2>1, <2>2, AllHarmless DEF DiskInv, InPlace
<1> QED BY <1>1, PersistInvariance, PTL

\* As long as the manifest of a committed index is aside a rollback name is
\* there for a reader to find.
THEOREM WindowsAreMarked ==
  ASSUME Bearable
  PROVE  Spec => []WindowIsMarked
<1>1. PersistInv => WindowIsMarked
  <2>1. SUFFICES ASSUME DiskInv, manifest = None, last # None
                 PROVE  \E t \in Tag : sets[t] # NoSet
    BY DEF PersistInv, WindowIsMarked
  <2>2. PICK t \in Tag : Restored(t)
    BY <2>1 DEF DiskInv, FilesOK, WindowCloses
  <2>3. sets[t] # NoSet
    BY <2>2, NoSetFacts DEF Restored, Restores
  <2> QED BY <2>3
<1> QED BY <1>1, PersistInvariance, PTL

\* A reader is told that there is no index only when there is none, or in the
\* window of a transaction that began after it came.
THEOREM WindowsAreWaitedOut ==
  ASSUME Bearable
  PROVE  Spec => []WindowIsWaitedOut
<1>1. PersistInv => WindowIsWaitedOut
  BY DEF PersistInv, ReaderInv, ReaderOK, WindowIsWaitedOut
<1> QED BY <1>1, PersistInvariance, PTL
=============================================================================
