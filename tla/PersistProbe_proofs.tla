------------------------ MODULE PersistProbe_proofs ------------------------
(***************************************************************************)
(* Proofs about holds_committed_index, the look without the lock: what it  *)
(* answers over an unchanged pair was right at some moment of its reads.   *)
(***************************************************************************)
EXTENDS PersistTransaction_proofs, WellFoundedInduction

(***************************************************************************)
(* leaves_an_index: what its recovery over the sets seen computes.         *)
(***************************************************************************)

\* One set of the recovery.
AfterSet(S, was) ==
  IF S = NoSet \/ IsCommitted(S, was.m) THEN was
  ELSE [m |-> was.m \/ S.manifest # None,
        s |-> CASE SnapshotRestore(S) = "PutBack"   -> TRUE
                [] SnapshotRestore(S) = "RemoveNew" -> FALSE
                [] OTHER                            -> was.s]

AfterAt(seen, m, s, h, t) ==
  IF t = 0 THEN [m |-> m, s |-> s] ELSE AfterSet(seen[t], h[t - 1])

After(seen, m, s, h) == h = [t \in Ver |-> AfterAt(seen, m, s, h, t)]

LEMMA LeavesReads ==
  ASSUME NEW seen, NEW m, NEW s
  PROVE  LeavesAnIndex(seen, m, s) =
           LET h == CHOOSE h : After(seen, m, s, h) IN h[MaxTxn].m \/ h[MaxTxn].s
BY Zenon DEF LeavesAnIndex, After, AfterAt, AfterSet

LEMMA Least ==
  ASSUME NEW T, T \subseteq Nat, T # {}
  PROVE  \E x \in T : \A y \in T : x <= y
<1>1. PICK x \in T : \A y \in T : ~(<<y, x>> \in OpToRel(<, Nat))
  BY WFMin, NatLessThanWellFounded
<1>2. \A y \in T : ~(y < x)
  BY <1>1 DEF OpToRel
<1> QED BY <1>2

\* The recovery over the first n sets,
AfterTo(seen, m, s, n, h) == h = [t \in 0 .. n |-> AfterAt(seen, m, s, h, t)]

LEMMA AfterToExists ==
  ASSUME NEW seen, NEW m, NEW s
  PROVE  \A n \in Nat : \E h : AfterTo(seen, m, s, n, h)
<1> DEFINE T == {n \in Nat : ~ \E h : AfterTo(seen, m, s, n, h)}
<1> SUFFICES ASSUME T # {} PROVE FALSE
  OBVIOUS
<1>1. PICK n \in T : \A k \in T : n <= k
  <2>1. T \subseteq Nat
    OBVIOUS
  <2> HIDE DEF T
  <2> QED BY <2>1, Least
<1>2. CASE n = 0
  <2> DEFINE g == [t \in 0 .. 0 |-> [m |-> m, s |-> s]]
  <2>1. \A t \in 0 .. 0 : AfterAt(seen, m, s, g, t) = [m |-> m, s |-> s]
    BY DEF AfterAt
  <2>2. g = [t \in 0 .. 0 |-> AfterAt(seen, m, s, g, t)]
    BY <2>1
  <2> HIDE DEF g
  <2> QED BY <1>2, <2>2 DEF AfterTo
<1>3. CASE n # 0
  <2>1. n \in Nat /\ n - 1 \in Nat /\ n - 1 \notin T
    BY <1>1, <1>3
  <2>2. PICK h : AfterTo(seen, m, s, n - 1, h)
    BY <2>1
  <2> DEFINE g == [t \in 0 .. n |-> IF t < n THEN h[t] ELSE AfterAt(seen, m, s, h, t)]
  <2>3. \A t \in 0 .. n - 1 : g[t] = h[t] /\ h[t] = AfterAt(seen, m, s, h, t)
    BY <2>1, <2>2 DEF AfterTo
  <2>4. \A t \in 0 .. n : g[t] = AfterAt(seen, m, s, g, t)
    <3> SUFFICES ASSUME NEW t \in 0 .. n PROVE g[t] = AfterAt(seen, m, s, g, t)
      OBVIOUS
    <3>1. g[t] = AfterAt(seen, m, s, h, t)
      <4>1. CASE t < n
        <5>1. t \in 0 .. n - 1
          BY <2>1, <4>1
        <5> HIDE DEF g
        <5> QED BY <2>3, <5>1
      <4>2. CASE ~(t < n)
        BY <4>2
      <4> QED BY <4>1, <4>2
    <3>2. t # 0 => g[t - 1] = h[t - 1]
      BY <2>1, <2>3
    <3> HIDE DEF g
    <3> QED BY <3>1, <3>2 DEF AfterAt
  <2>5. g = [t \in 0 .. n |-> AfterAt(seen, m, s, g, t)]
    BY <2>4
  <2> HIDE DEF g
  <2> QED BY <2>1, <2>5 DEF AfterTo
<1> QED BY <1>2, <1>3

LEMMA AfterExists ==
  ASSUME NEW seen, NEW m, NEW s
  PROVE  \E h : After(seen, m, s, h)
<1>1. PICK h : AfterTo(seen, m, s, MaxTxn, h)
  BY AfterToExists, MaxTxnAssumption
<1> QED BY <1>1 DEF AfterTo, After, Ver

\* Where the recovery stays once it is there.
LEMMA AfterStays ==
  ASSUME NEW seen, NEW m, NEW s, NEW h, After(seen, m, s, h), NEW Q, NEW v \in Ver, h[v] \in Q,
         \A t \in Tag : v < t => \A r \in Q : AfterSet(seen[t], r) \in Q
  PROVE  \A t \in Ver : v <= t => h[t] \in Q
<1> DEFINE T == {t \in Ver : v <= t /\ h[t] \notin Q}
<1>1. T = {}
  <2> SUFFICES ASSUME T # {} PROVE FALSE
    OBVIOUS
  <2>1. PICK n \in T : \A k \in T : n <= k
    <3>1. T \subseteq Nat
      BY VersionFacts
    <3> HIDE DEF T
    <3> QED BY <3>1, Least
  <2>2. n \in Ver /\ n \in Tag /\ n - 1 \in Ver /\ v < n /\ v <= n - 1 /\ n # 0 /\ n \in Nat
    BY <2>1, MaxTxnAssumption DEF Ver, Tag
  <2>3. n - 1 \notin T
    <3> HIDE DEF T
    <3> QED BY <2>1, <2>2
  <2>4. h[n - 1] \in Q
    BY <2>2, <2>3
  <2>5. h[n] = AfterSet(seen[n], h[n - 1])
    BY <2>2 DEF After, AfterAt
  <2>6. h[n] \in Q
    <3> HIDE DEF T
    <3> QED BY <2>2, <2>4, <2>5
  <2> QED BY <2>1, <2>6
<1> QED BY <1>1

LEMMA LastSet == 0 \in Ver /\ MaxTxn \in Ver /\ \A v \in Ver : 0 <= v /\ v <= MaxTxn
BY MaxTxnAssumption DEF Ver

Fate == [m : BOOLEAN, s : BOOLEAN]

\* A manifest in place, or a snapshot that no set removes, is left.
LEMMA LeavesOne ==
  ASSUME NEW seen, NEW m \in BOOLEAN, NEW s \in BOOLEAN,
         m \/ (s /\ \A t \in Tag : seen[t].begun # "without")
  PROVE  LeavesAnIndex(seen, m, s)
<1> DEFINE h == CHOOSE h : After(seen, m, s, h)
           Q == {r \in Fate : IF m THEN r.m ELSE r.m \/ r.s}
<1>1. After(seen, m, s, h)
  BY AfterExists
<1>2. LeavesAnIndex(seen, m, s) = (h[MaxTxn].m \/ h[MaxTxn].s)
  BY LeavesReads
<1> HIDE DEF h
<1>3. 0 \in Ver /\ h[0] = [m |-> m, s |-> s]
  BY <1>1, VersionFacts DEF After, AfterAt
<1>4. h[0] \in Q
  BY <1>3 DEF Fate
<1>5. ASSUME NEW t \in Tag, NEW r \in Q PROVE AfterSet(seen[t], r) \in Q
  <2>1. CASE AfterSet(seen[t], r) = r
    BY <2>1
  <2>2. ASSUME NEW a \in BOOLEAN, NEW b \in BOOLEAN, AfterSet(seen[t], r) = [m |-> a, s |-> b],
               a = (r.m \/ seen[t].manifest # None),
               b = CASE SnapshotRestore(seen[t]) = "PutBack"   -> TRUE
                     [] SnapshotRestore(seen[t]) = "RemoveNew" -> FALSE
                     [] OTHER                                  -> r.s
        PROVE  AfterSet(seen[t], r) \in Q
    <3>1. r.m => a
      BY <2>2
    <3>2. ~m /\ r.s => b
      BY <2>2 DEF SnapshotRestore
    <3>3. IF m THEN a ELSE a \/ b
      BY <3>1, <3>2
    <3>4. [m |-> a, s |-> b] \in Fate /\ [m |-> a, s |-> b].m = a /\ [m |-> a, s |-> b].s = b
      BY DEF Fate
    <3> QED BY <2>2, <3>3, <3>4
  <2> QED BY <2>1, <2>2 DEF AfterSet, Fate
<1>6. h[MaxTxn] \in Q
  <2> HIDE DEF Q
  <2> QED BY <1>1, <1>3, <1>4, <1>5, AfterStays, LastSet
<1> QED BY <1>2, <1>6 DEF Fate

\* Where nothing was set aside, nothing is left of no manifest and no snapshot,
\* or of no manifest and a snapshot that a set removes.
LEMMA LeavesNone ==
  ASSUME NEW seen, NEW s \in BOOLEAN, \A t \in Tag : Void(seen[t]),
         s => \E t \in Tag : seen[t].begun = "without"
  PROVE  ~LeavesAnIndex(seen, FALSE, s)
<1> DEFINE h == CHOOSE h : After(seen, FALSE, s, h)
           Q == {r \in Fate : ~r.m}
           P == {r \in Fate : ~r.m /\ ~r.s}
<1>1. After(seen, FALSE, s, h)
  BY AfterExists
<1>2. LeavesAnIndex(seen, FALSE, s) = (h[MaxTxn].m \/ h[MaxTxn].s)
  BY LeavesReads
<1> HIDE DEF h
<1>3. 0 \in Ver /\ h[0] = [m |-> FALSE, s |-> s]
  BY <1>1, VersionFacts DEF After, AfterAt
<1>4. ASSUME NEW t \in Tag, NEW r \in Q
      PROVE  /\ AfterSet(seen[t], r) \in Q
             /\ r \in P \/ seen[t].begun = "without" => AfterSet(seen[t], r) \in P
  <2>1. ~seen[t].committed /\ seen[t].manifest = None /\ seen[t].snapshot = NoFile
    BY DEF Void
  <2>2. r \in Fate /\ ~r.m
    OBVIOUS
  <2>3. CASE seen[t] = NoSet
    BY <2>2, <2>3, NoSetFacts DEF AfterSet
  <2>4. CASE seen[t] # NoSet
    <3>1. AfterSet(seen[t], r) =
            [m |-> FALSE, s |-> IF seen[t].begun = "without" THEN FALSE ELSE r.s]
      BY <2>1, <2>2, <2>4 DEF AfterSet, IsCommitted, SnapshotRestore
    <3>2. \A b \in BOOLEAN : [m |-> FALSE, s |-> b] \in Q /\ [m |-> FALSE, s |-> FALSE] \in P
      BY DEF Fate
    <3>3. r.s \in BOOLEAN /\ (r \in P => r.s = FALSE)
      BY <2>2 DEF Fate
    <3> QED BY <3>1, <3>2, <3>3
  <2> QED BY <2>3, <2>4
<1>5. \A t \in Tag : \A r \in P : AfterSet(seen[t], r) \in P
  BY <1>4
<1>6. CASE ~s
  <2>1. h[0] \in P
    BY <1>3, <1>6 DEF Fate
  <2>2. h[MaxTxn] \in P
    <3> HIDE DEF P, Q
    <3> QED BY <1>1, <1>3, <1>5, <2>1, AfterStays, LastSet
  <2> QED BY <1>2, <2>2
<1>7. CASE s
  <2>1. PICK t \in Tag : seen[t].begun = "without"
    BY <1>7
  <2>2. t \in Ver /\ t - 1 \in Ver /\ t # 0
    BY MaxTxnAssumption DEF Ver, Tag
  <2>3. h[t] \in P
    <3>1. h[0] \in Q
      BY <1>3 DEF Fate
    <3>2. h[t - 1] \in Q
      <4> HIDE DEF P, Q
      <4> QED BY <1>1, <1>3, <1>4, <2>2, <3>1, AfterStays, LastSet
    <3>3. h[t] = AfterSet(seen[t], h[t - 1])
      BY <1>1, <2>2 DEF After, AfterAt
    <3> QED BY <1>4, <2>1, <3>2, <3>3
  <2>4. h[MaxTxn] \in P
    <3> HIDE DEF P, Q
    <3> QED BY <1>1, <1>5, <2>2, <2>3, AfterStays, LastSet
  <2> QED BY <1>2, <2>4
<1> QED BY <1>6, <1>7

(***************************************************************************)
(* The snapshot and the markers.  Once an index is committed there always  *)
(* is a snapshot, and a marker that says there was none is gone before the *)
(* manifest next leaves its place.  Before that, a snapshot in place is    *)
(* that of a transaction whose marker says so.                             *)
(***************************************************************************)

\* The steps of a transaction before its save.
PreSave == {"mark", "aside", "link", "copied", "save"}

\* The steps at which the guard would undo the transaction.
Guarded == (Txn \cup Undo) \ {"committed"}

NoneWithout == \A t \in Tag : sets[t].begun # "without"

SnapshotStays ==
  last # None => /\ snapshot # NoFile
                 /\ manifest = None => NoneWithout
                 /\ pc \in Guarded => existed

SnapshotIsMarked ==
  last = None => /\ snapshot # NoFile => /\ snapshot.ver \in Tag
                                         /\ sets[snapshot.ver].begun = "without"
                 /\ pc \in PreSave => snapshot = NoFile
                 /\ pc \in {"putManifest", "discard"} => snapshot.ver # cur

CommittedSaysNothing == \A t \in Tag : sets[t].committed => sets[t].begun # "without"

GuardHasSnapshot ==
  pc \in Guarded /\ pc \notin {"undoManifest", "undoMarker"} /\ "snapshot" \in guard =>
    sets[cur].snapshot # NoFile

SnapshotInv ==
  SnapshotStays /\ SnapshotIsMarked /\ CommittedSaysNothing /\ GuardHasSnapshot

\* What any step leaves to a look without the lock.
Goes ==
  /\ begun' \in Ver /\ begun <= begun'
  /\ last # None => last' # None /\ \A t \in Tag : sets'[t].begun = "without" =>
                                                     sets[t].begun = "without"
  /\ last' = None => snapshot' \in {snapshot, NoFile} \/ (pc = "save" /\ snapshot'.ver = cur)
  /\ pc' \in PreSave => (pc \in PreSave /\ cur' = cur) \/ cur' = begun + 1

\* A step that leaves the snapshot and the markers alone, and stays where it is
\* as far as they are concerned.
Steady ==
  /\ snapshot' = snapshot /\ last' = last /\ begun' = begun
  /\ manifest' = None => manifest = None
  /\ \A t \in Tag : /\ sets'[t].begun = sets[t].begun
                    /\ sets'[t].committed => sets[t].committed
  /\ pc' \in Guarded => pc \in Guarded /\ existed' = existed
  /\ pc' \in PreSave => pc \in PreSave /\ cur' = cur
  /\ pc' \in {"putManifest", "discard"} /\ last = None =>
       pc \in {"putManifest", "discard"} /\ cur' = cur

LEMMA SteadyStep ==
  ASSUME DiskInv, SnapshotInv, Steady, GuardHasSnapshot'
  PROVE  SnapshotInv' /\ Goes
<1>1. begun \in Ver /\ begun <= begun
  BY VersionOrder DEF DiskInv, DiskType
<1>2. SnapshotStays'
  BY DEF SnapshotInv, SnapshotStays, NoneWithout, Steady
<1>3. SnapshotIsMarked'
  BY DEF SnapshotInv, SnapshotIsMarked, Steady
<1>4. CommittedSaysNothing'
  BY DEF SnapshotInv, CommittedSaysNothing, Steady
<1>5. Goes
  BY <1>1 DEF Goes, Steady
<1> QED BY <1>2, <1>3, <1>4, <1>5 DEF SnapshotInv

\* The steps that do nothing to the files, and those of a guard and of a
\* recovery that put the manifest back.
LEMMA IdleSnapshot ==
  ASSUME DiskInv, SnapshotInv,
         Take \/ RecoverEnd \/ RecoverFails \/ Release \/ Crash \/ UndoFails
           \/ (\E r \in Observer : TakeForReader(r))
  PROVE  SnapshotInv' /\ Goes
<1>1. /\ UNCHANGED <<manifest, snapshot, sets, begun, last>>
      /\ pc' \in {"recover", "held", "done", "free"}
  BY DEF Take, RecoverEnd, RecoverFails, Release, Crash, UndoFails, TakeForReader, LetGo, Goto,
     files, history
<1>2. Steady /\ GuardHasSnapshot'
  BY <1>1 DEF Steady, GuardHasSnapshot, Guarded, PreSave, Txn, Undo
<1> QED BY <1>2, SteadyStep

LEMMA ObserverSnapshot ==
  ASSUME DiskInv, SnapshotInv, UNCHANGED <<manifest, snapshot, sets, pc, cur, existed, guard,
                                           begun, last>>
  PROVE  SnapshotInv' /\ Goes
<1>1. Steady /\ GuardHasSnapshot'
  BY DEF Steady, SnapshotInv, GuardHasSnapshot
<1> QED BY <1>1, SteadyStep

LEMMA RecoverNextSnapshot ==
  ASSUME DiskInv, SnapshotInv, RecoverNext
  PROVE  SnapshotInv' /\ Goes
<1>1. /\ UNCHANGED <<manifest, snapshot, sets, begun, last>> /\ cur' \in todo
      /\ pc' = IF IsCommitted(sets[cur'], manifest # None) THEN "discard" ELSE "putSnapshot"
  BY DEF RecoverNext, Goto, files, history
<1>2. cur' \in Tag
  BY <1>1 DEF DiskInv, DiskType
<1>3. last = None => ~IsCommitted(sets[cur'], manifest # None)
  BY <1>2 DEF DiskInv, FilesOK, NothingCommitted, PairIsLast, Void, IsCommitted
<1>4. Steady /\ GuardHasSnapshot'
  BY <1>1, <1>3 DEF Steady, GuardHasSnapshot, Guarded, PreSave, Txn, Undo
<1> QED BY <1>4, SteadyStep

LEMMA PutManifestSnapshot ==
  ASSUME DiskInv, SnapshotInv, PutManifest \/ UndoManifest
  PROVE  SnapshotInv' /\ Goes
<1>1. /\ UNCHANGED <<snapshot, begun, last, cur, existed>> /\ cur \in Tag
      /\ \/ pc = "putManifest" /\ pc' \in {"recover", "discard"}
         \/ pc = "undoManifest" /\ pc' = "undoMarker"
      /\ UNCHANGED <<manifest, sets>> \/ RenameManifestBack
  BY DEF PutManifest, UndoManifest, Goto, history, DiskInv, RecoverOK, InHand, TxnOK, Undo
<1>2. sets \in [Tag -> RollbackSet]
  BY DEF DiskInv, DiskType
<1>3. \A t \in Tag : sets'[t].begun = sets[t].begun /\ sets'[t].committed = sets[t].committed
  <2>1. CASE UNCHANGED sets
    BY <2>1
  <2>2. CASE Drop("manifest")
    BY <1>1, <1>2, <2>2, DropFacts DEF Name
  <2> QED BY <1>1, <2>1, <2>2 DEF RenameManifestBack
<1>4. manifest' = None => manifest = None
  <2> SUFFICES ASSUME manifest # None, manifest' = None PROVE FALSE
    OBVIOUS
  <2>1. RenameManifestBack /\ sets[cur].manifest = None
    BY <1>1 DEF RenameManifestBack
  <2>2. pc = "undoManifest" /\ "manifest" \in guard
    BY <1>1, <2>1 DEF PutManifest, UndoManifest
  <2>3. OverPair
    BY <2>2, TxnFacts DEF OverAside, Undo
  <2> QED BY <2>2, <2>3 DEF OverPair
<1>5. Steady /\ GuardHasSnapshot'
  BY <1>1, <1>3, <1>4 DEF Steady, GuardHasSnapshot, Guarded, PreSave, Txn, Undo
<1> QED BY <1>5, SteadyStep

\* The steps that set the snapshot aside, and a failing step.
LEMMA AsideSnapshot ==
  ASSUME DiskInv, SnapshotInv, LinkSnapshot \/ CopySnapshot \/ RenameCopy \/ StepFails
  PROVE  SnapshotInv' /\ Goes
<1>1. /\ UNCHANGED <<manifest, snapshot, begun, last, cur, existed>> /\ pc \in Guarded
      /\ pc' \in {"save", "copied", "undoSnapshot"}
      /\ pc' \in {"save", "copied"} => pc \in {"link", "copied"}
      /\ pc \notin {"undoManifest", "undoMarker"}
  BY DEF LinkSnapshot, CopySnapshot, RenameCopy, StepFails, Goto, history, held, Guarded, Txn,
         Undo
<1>2. sets \in [Tag -> RollbackSet] /\ snapshot \in File \cup {NoFile} /\ cur \in Tag
  BY <1>1, TxnFacts DEF Guarded
<1>3. pc \in {"link", "copied"} => snapshot # NoFile
  BY DEF DiskInv, TxnOK
<1>4. /\ \A t \in Tag : sets'[t].begun = sets[t].begun /\ sets'[t].committed = sets[t].committed
      /\ sets'[cur].snapshot # NoFile \/ (sets'[cur].snapshot = sets[cur].snapshot /\ guard' = guard)
  <2>1. CASE LinkSnapshot
    BY <1>2, <1>3, <2>1, PutSnapshotName DEF LinkSnapshot
  <2>2. CASE CopySnapshot
    BY <1>2, <2>2, PutPartial DEF CopySnapshot, held
  <2>3. CASE RenameCopy
    <3> DEFINE f == [ver |-> snapshot.ver, by |-> cur]
               S == [[sets[cur] EXCEPT !.partial = FALSE] EXCEPT !.snapshot = f]
    <3>1. f \in File
      BY <1>2, <1>3, <2>3, FileFacts DEF RenameCopy, File
    <3>2. S \in RollbackSet
      BY <1>2, <3>1, SetUpdate
    <3>3. sets' = [sets EXCEPT ![cur] = S]
      BY <1>2, <2>3 DEF RenameCopy, RollbackSet
    <3>4. sets'[cur] = S /\ \A u \in Tag : u # cur => sets'[u] = sets[u]
      <4> HIDE DEF S
      <4> QED BY <1>2, <3>2, <3>3, PutFacts
    <3>5. S.begun = sets[cur].begun /\ S.committed = sets[cur].committed /\ S.snapshot = f
      <4> HIDE DEF f
      <4> QED BY <1>2 DEF RollbackSet
    <3>6. f # NoFile
      BY <3>1, FileFacts
    <3> HIDE DEF f, S
    <3> QED BY <3>4, <3>5, <3>6
  <2>4. CASE StepFails
    BY <1>2, <2>4, DropFacts DEF StepFails, Name, held
  <2> QED BY <2>1, <2>2, <2>3, <2>4
<1>5. GuardHasSnapshot'
  BY <1>1, <1>4 DEF SnapshotInv, GuardHasSnapshot
<1>6. Steady
  BY <1>1, <1>4 DEF Steady, Guarded, PreSave, Txn, Undo
<1> QED BY <1>5, <1>6, SteadyStep

LEMMA SetManifestAsideSnapshot ==
  ASSUME DiskInv, SnapshotInv, SetManifestAside
  PROVE  SnapshotInv' /\ Goes
<1>1. /\ UNCHANGED <<snapshot, cur, existed, begun, last>> /\ pc = "aside"
      /\ pc' \in {"link", "save"}
      /\ \/ manifest = None /\ UNCHANGED <<manifest, sets, guard>>
         \/ /\ manifest # None /\ manifest' = None /\ Put("manifest", manifest)
            /\ guard' = guard \cup {"manifest"}
  BY DEF SetManifestAside, Goto, history
<1>2. /\ sets \in [Tag -> RollbackSet] /\ cur \in Tag /\ (OverAside \/ OverPair)
      /\ manifest \in Ver \cup {None} /\ begun \in Ver
  BY <1>1, TxnFacts DEF Txn, DiskInv, DiskType
<1>3. /\ \A t \in Tag : sets'[t].begun = sets[t].begun /\ sets'[t].committed = sets[t].committed
      /\ sets'[cur].snapshot = sets[cur].snapshot
  <2>1. CASE UNCHANGED sets
    BY <2>1
  <2>2. CASE Put("manifest", manifest)
    BY <1>2, <2>2, PutManifestName
  <2> QED BY <1>1, <2>1, <2>2
<1>4. last # None => NoneWithout
  <2>1. CASE manifest = None
    BY <2>1 DEF SnapshotInv, SnapshotStays
  <2>2. CASE manifest # None /\ last # None
    <3>1. OverPair
      BY <1>2, <2>2 DEF OverAside
    <3>2. sets[cur].begun # "without"
      BY <1>1, <2>2, <3>1 DEF OverPair, Says
    <3>3. \A u \in Tag : u # cur => sets[u].begun # "without"
      BY <3>1 DEF OverPair, Harmless, Bare, SnapshotInv, CommittedSaysNothing
    <3> QED BY <3>2, <3>3 DEF NoneWithout
  <2> QED BY <2>1, <2>2
<1>5. SnapshotStays'
  BY <1>1, <1>3, <1>4 DEF SnapshotInv, SnapshotStays, NoneWithout, Guarded, Txn
<1>6. SnapshotIsMarked'
  BY <1>1, <1>3 DEF SnapshotInv, SnapshotIsMarked, PreSave
<1>7. CommittedSaysNothing'
  BY <1>3 DEF SnapshotInv, CommittedSaysNothing
<1>8. GuardHasSnapshot'
  BY <1>1, <1>3 DEF SnapshotInv, GuardHasSnapshot, Guarded, Txn
<1>9. Goes
  BY <1>1, <1>2, <1>3, VersionOrder DEF Goes, PreSave
<1> QED BY <1>5, <1>6, <1>7, <1>8, <1>9 DEF SnapshotInv

LEMMA BeginSnapshot ==
  ASSUME DiskInv, DiskInv', SnapshotInv, Begin
  PROVE  SnapshotInv' /\ Goes
<1>1. /\ UNCHANGED <<manifest, snapshot, last>> /\ pc = "held" /\ pc' = "mark"
      /\ begun < MaxTxn /\ begun' = begun + 1 /\ cur' = begun' /\ guard' = {}
      /\ existed' = (snapshot # NoFile) /\ sets' = [sets EXCEPT ![cur'].begun = "empty"]
  BY DEF Begin, Goto
<1>2. /\ sets \in [Tag -> RollbackSet] /\ begun \in Ver /\ begun' \in Ver
      /\ snapshot \in File \cup {NoFile}
  BY DEF DiskInv, DiskType
<1>3. cur' \in Tag /\ begun <= begun' /\ begun < cur'
  BY <1>1, <1>2, MaxTxnAssumption DEF Tag, Ver
<1>4. \A t \in Tag : /\ sets'[t].begun \in {sets[t].begun, "empty"}
                     /\ t # cur' => sets'[t] = sets[t]
  BY <1>1, <1>2, <1>3 DEF RollbackSet
<1>5. last = None => snapshot = NoFile
  <2>1. InPlace \/ Aside
    BY <1>1 DEF DiskInv, HeldOK
  <2>2. Aside => last # None
    BY DEF Aside, Restored, Restores
  <2> QED BY <1>2, <2>1, <2>2, FileFacts DEF InPlace
<1>6. SnapshotStays'
  BY <1>1, <1>4 DEF SnapshotInv, SnapshotStays, NoneWithout
<1>7. SnapshotIsMarked'
  BY <1>1, <1>5 DEF SnapshotIsMarked
<1>8. CommittedSaysNothing'
  <2>1. sets'[cur'].begun = "empty"
    BY <1>1, <1>2, <1>3 DEF RollbackSet
  <2> QED BY <1>4, <2>1 DEF SnapshotInv, CommittedSaysNothing
<1>9. GuardHasSnapshot' /\ Goes
  BY <1>1, <1>2, <1>3, <1>4 DEF GuardHasSnapshot, Goes
<1> QED BY <1>6, <1>7, <1>8, <1>9 DEF SnapshotInv

LEMMA MarkerSnapshot ==
  ASSUME DiskInv, SnapshotInv, WriteMarker \/ MarkerFails
  PROVE  SnapshotInv' /\ Goes
<1>1. /\ UNCHANGED <<manifest, snapshot, cur, existed, guard, begun, last>>
      /\ pc = "mark" /\ pc' \in {"aside", "done"} /\ \E m \in {"empty", Says} : Put("begun", m)
  BY DEF WriteMarker, MarkerFails, held, history, Goto
<1>2. cur \in Tag /\ sets \in [Tag -> RollbackSet] /\ begun \in Ver
  BY <1>1, TxnFacts DEF Txn, DiskInv, DiskType
<1>3. PICK m \in {"empty", Says} : Put("begun", m)
  BY <1>1
<1>4. m \in Marker
  BY DEF Says, Marker
<1>5. /\ \A u \in Tag : u # cur => sets'[u] = sets[u]
      /\ sets'[cur].begun = m /\ sets'[cur].snapshot = sets[cur].snapshot
      /\ sets'[cur].committed = sets[cur].committed
  BY <1>2, <1>3, <1>4, PutBegun
<1>6. last # None => existed /\ m # "without"
  BY <1>1 DEF SnapshotInv, SnapshotStays, Guarded, Txn, Says
<1>7. last = None => snapshot = NoFile /\ ~sets[cur].committed
  BY <1>1, <1>2
     DEF SnapshotInv, SnapshotIsMarked, PreSave, DiskInv, FilesOK, NothingCommitted, Void
<1>8. SnapshotStays'
  BY <1>1, <1>5, <1>6 DEF SnapshotInv, SnapshotStays, NoneWithout
<1>9. SnapshotIsMarked'
  BY <1>1, <1>7 DEF SnapshotIsMarked
<1>10. CommittedSaysNothing'
  BY <1>5, <1>6, <1>7 DEF SnapshotInv, CommittedSaysNothing
<1>11. GuardHasSnapshot'
  BY <1>1, <1>5 DEF SnapshotInv, GuardHasSnapshot, Guarded, Txn
<1>12. Goes
  BY <1>1, <1>2, <1>5, <1>6, VersionOrder DEF Goes, PreSave
<1> QED BY <1>8, <1>9, <1>10, <1>11, <1>12 DEF SnapshotInv

LEMMA SaveSnapshotSnapshot ==
  ASSUME DiskInv, SnapshotInv, SaveSnapshot
  PROVE  SnapshotInv' /\ Goes
<1>1. /\ UNCHANGED <<manifest, sets, cur, existed, guard, begun, last>>
      /\ pc = "save" /\ pc' = "commit" /\ snapshot' = [ver |-> cur, by |-> None]
  BY DEF SaveSnapshot, held, history, Goto
<1>2. cur \in Tag /\ begun \in Ver /\ (OverAside \/ OverPair)
  BY <1>1, TxnFacts DEF Txn, DiskInv, DiskType
<1>3. snapshot' # NoFile /\ snapshot'.ver = cur
  BY <1>1, <1>2, VersionFacts DEF NoFile
<1>4. last = None => sets[cur].begun = "without"
  BY <1>1, <1>2 DEF OverPair, OverAside, Restored, Restores
<1>5. SnapshotStays'
  BY <1>1, <1>3 DEF SnapshotInv, SnapshotStays, NoneWithout, Guarded, Txn
<1>6. SnapshotIsMarked'
  BY <1>1, <1>2, <1>3, <1>4 DEF SnapshotIsMarked, PreSave
<1>7. CommittedSaysNothing' /\ GuardHasSnapshot'
  BY <1>1 DEF SnapshotInv, CommittedSaysNothing, GuardHasSnapshot, Guarded, Txn
<1>8. Goes
  BY <1>1, <1>2, <1>3, VersionOrder DEF Goes, PreSave
<1> QED BY <1>5, <1>6, <1>7, <1>8 DEF SnapshotInv

LEMMA CommitSnapshot ==
  ASSUME DiskInv, SnapshotInv, WriteManifest \/ MarkCommitted
  PROVE  SnapshotInv' /\ Goes
<1>1. /\ UNCHANGED <<snapshot, begun>> /\ pc' \in {"committed", "clean"}
      /\ manifest' # None /\ last' # None /\ cur \in Tag /\ begun \in Ver
      /\ \/ pc = "commit" /\ sets' = sets
         \/ pc = "committed" /\ last # None
  <2>1. CASE WriteManifest
    BY <2>1, TxnFacts, VersionFacts
       DEF WriteManifest, Goto, Txn, DiskInv, DiskType
  <2>2. CASE MarkCommitted
    BY <2>2 DEF MarkCommitted, Goto, Txn, DiskInv, DiskType, TxnOK, FilesOK, PairIsLast, history
  <2> QED BY <2>1, <2>2
<1>2. \A t \in Tag : \/ sets'[t] = sets[t]
                     \/ sets'[t].begun = "none"
  <2>1. sets \in [Tag -> RollbackSet]
    BY DEF DiskInv, DiskType
  <2>2. CASE sets' = sets
    BY <2>2
  <2>3. CASE sets' = [sets EXCEPT ![cur].begun = "none", ![cur].committed = TRUE]
    BY <1>1, <2>1, <2>3 DEF RollbackSet
  <2> QED BY <2>2, <2>3 DEF WriteManifest, MarkCommitted
<1>3. snapshot # NoFile
  <2>1. pc = "commit" => snapshot.ver = cur
    BY DEF DiskInv, TxnOK
  <2> QED BY <1>1, <2>1, FileFacts, VersionFacts DEF SnapshotInv, SnapshotStays
<1>4. SnapshotStays' /\ SnapshotIsMarked'
  BY <1>1, <1>3 DEF SnapshotStays, SnapshotIsMarked, Guarded, Txn, Undo
<1>5. CommittedSaysNothing'
  BY <1>2 DEF SnapshotInv, CommittedSaysNothing
<1>6. GuardHasSnapshot'
  BY <1>1 DEF GuardHasSnapshot, Guarded, Txn, Undo
<1>7. Goes
  BY <1>1, <1>2, VersionOrder DEF Goes, PreSave
<1> QED BY <1>4, <1>5, <1>6, <1>7 DEF SnapshotInv

LEMMA PutSnapshotSnapshot ==
  ASSUME DiskInv, SnapshotInv, PutSnapshot
  PROVE  SnapshotInv' /\ Goes
<1>1. /\ UNCHANGED <<manifest, cur, begun, last>> /\ pc = "putSnapshot" /\ pc' = "putManifest"
      /\ \/ SnapshotRestore(sets[cur]) = "PutBack" /\ RenameSnapshotBack
         \/ /\ SnapshotRestore(sets[cur]) = "RemoveNew" /\ snapshot' = NoFile /\ sets' = sets
         \/ /\ SnapshotRestore(sets[cur]) \notin {"PutBack", "RemoveNew"}
            /\ UNCHANGED <<snapshot, sets>>
  BY DEF PutSnapshot, Goto, held, history
<1>2. /\ sets \in [Tag -> RollbackSet] /\ cur \in Tag /\ manifest = None /\ begun \in Ver
      /\ ~sets[cur].committed /\ snapshot \in File \cup {NoFile}
  BY <1>1 DEF DiskInv, DiskType, RecoverOK, InHand, PuttingBack
<1>3. /\ SnapshotRestore(sets[cur]) = "PutBack" <=> sets[cur].snapshot # NoFile
      /\ SnapshotRestore(sets[cur]) = "RemoveNew" <=>
           sets[cur].snapshot = NoFile /\ sets[cur].begun = "without"
  BY DEF SnapshotRestore
<1>4. \A t \in Tag : sets'[t].begun = sets[t].begun /\ sets'[t].committed = sets[t].committed
  BY <1>1, <1>2, RenameBackFacts
<1>5. last # None => snapshot' # NoFile
  <2> SUFFICES ASSUME last # None PROVE snapshot' # NoFile
    OBVIOUS
  <2>1. snapshot # NoFile /\ NoneWithout
    BY <1>2 DEF SnapshotInv, SnapshotStays
  <2>2. SnapshotRestore(sets[cur]) # "RemoveNew"
    BY <1>2, <1>3, <2>1 DEF NoneWithout
  <2> QED BY <1>1, <1>2, <1>3, <2>1, <2>2, RenameBackFacts
<1>6. last = None => snapshot' = NoFile \/ (snapshot' = snapshot /\ sets[cur].begun # "without")
  <2> SUFFICES ASSUME last = None
               PROVE  snapshot' = NoFile \/ (snapshot' = snapshot /\ sets[cur].begun # "without")
    OBVIOUS
  <2>1. sets[cur].snapshot = NoFile
    BY <1>2 DEF DiskInv, FilesOK, NothingCommitted, Void
  <2> QED BY <1>1, <1>3, <2>1
<1>7. SnapshotStays'
  BY <1>1, <1>4, <1>5 DEF SnapshotInv, SnapshotStays, NoneWithout, Guarded, Txn, Undo
<1>8. SnapshotIsMarked'
  <2>1. NoFile.ver # cur
    BY <1>2, FileFacts, VersionFacts
  <2> QED BY <1>1, <1>4, <1>6, <2>1 DEF SnapshotInv, SnapshotIsMarked, PreSave
<1>9. CommittedSaysNothing' /\ GuardHasSnapshot'
  BY <1>1, <1>4 DEF SnapshotInv, CommittedSaysNothing, GuardHasSnapshot, Guarded, Txn, Undo
<1>10. Goes
  BY <1>1, <1>2, <1>4, <1>6, VersionOrder DEF Goes, PreSave
<1> QED BY <1>7, <1>8, <1>9, <1>10 DEF SnapshotInv

LEMMA UndoSnapshotSnapshot ==
  ASSUME DiskInv, SnapshotInv, UndoSnapshot
  PROVE  SnapshotInv' /\ Goes
<1>1. /\ UNCHANGED <<manifest, cur, existed, begun, last>>
      /\ pc = "undoSnapshot" /\ pc' = "undoManifest"
      /\ \/ "snapshot" \in guard /\ RenameSnapshotBack
         \/ ~existed /\ snapshot' = NoFile /\ sets' = sets
         \/ UNCHANGED <<snapshot, sets>>
  BY DEF UndoSnapshot, Goto, held, history
<1>2. /\ sets \in [Tag -> RollbackSet] /\ cur \in Tag /\ begun \in Ver
      /\ snapshot \in File \cup {NoFile}
  BY <1>1, TxnFacts DEF Undo, DiskInv, DiskType
<1>3. \A t \in Tag : sets'[t].begun = sets[t].begun /\ sets'[t].committed = sets[t].committed
  BY <1>1, <1>2, RenameBackFacts
<1>4. last # None => snapshot' # NoFile
  <2> SUFFICES ASSUME last # None PROVE snapshot' # NoFile
    OBVIOUS
  <2>1. snapshot # NoFile /\ existed
    BY <1>1 DEF SnapshotInv, SnapshotStays, Guarded, Undo
  <2>2. "snapshot" \in guard => sets[cur].snapshot # NoFile
    BY <1>1 DEF SnapshotInv, GuardHasSnapshot, Guarded, Undo
  <2> QED BY <1>1, <1>2, <2>1, <2>2, RenameBackFacts
<1>5. last = None => snapshot' \in {snapshot, NoFile}
  <2>1. last = None => sets[cur].snapshot = NoFile
    BY <1>2 DEF DiskInv, FilesOK, NothingCommitted, Void
  <2> QED BY <1>1, <1>2, <2>1, RenameBackFacts
<1>6. SnapshotStays'
  BY <1>1, <1>3, <1>4 DEF SnapshotInv, SnapshotStays, NoneWithout, Guarded, Undo
<1>7. SnapshotIsMarked'
  BY <1>1, <1>3, <1>5 DEF SnapshotInv, SnapshotIsMarked, PreSave
<1>8. CommittedSaysNothing' /\ GuardHasSnapshot'
  BY <1>1, <1>3 DEF SnapshotInv, CommittedSaysNothing, GuardHasSnapshot
<1>9. Goes
  BY <1>1, <1>2, <1>3, <1>5, VersionOrder DEF Goes, PreSave
<1> QED BY <1>6, <1>7, <1>8, <1>9 DEF SnapshotInv

\* The removals of a recovery, of a commit and of the guard.
LEMMA RemoveSnapshot ==
  ASSUME DiskInv, Bearable, SnapshotInv, Discard \/ Clean \/ UndoMarker
  PROVE  SnapshotInv' /\ Goes
<1>1. /\ UNCHANGED <<manifest, snapshot, cur, existed, begun, last>> /\ cur \in Tag
      /\ pc \in {"discard", "clean", "undoMarker"} /\ pc' \in {pc, "recover", "done"}
      /\ \E next \in {"recover", "done"} : RemoveNext(next)
  BY DEF Discard, Clean, UndoMarker, RemoveNext, Goto, history, DiskInv, RecoverOK, InHand,
         TxnOK,
     Undo
<1>2. /\ sets \in [Tag -> RollbackSet] /\ queue \subseteq Name /\ begun \in Ver
      /\ snapshot \in File \cup {NoFile}
  BY DEF DiskInv, DiskType
<1>3. /\ \A u \in Tag : u # cur => sets'[u] = sets[u]
      /\ sets'[cur].begun \in {sets[cur].begun, "none"}
      /\ sets'[cur].committed => sets[cur].committed
  <2>1. PICK next \in {"recover", "done"} : RemoveNext(next)
    BY <1>1
  <2>2. /\ \A u \in Tag : u # cur => sets'[u] = sets[u]
        /\ \E n \in queue : Without(sets[cur], sets'[cur], n)
    BY <1>1, <1>2, <2>1, RemoveFacts
  <2> QED BY <2>2 DEF Without
<1>4. last = None => pc # "clean" /\ (snapshot = NoFile \/ snapshot.ver # cur)
  <2>1. pc = "clean" => last # None
    BY DEF DiskInv, TxnOK, FilesOK, PairIsLast
  <2>2. pc = "discard" /\ last = None => snapshot.ver # cur
    BY DEF SnapshotInv, SnapshotIsMarked
  <2>3. pc = "undoMarker" /\ last = None => snapshot = NoFile
    <3> SUFFICES ASSUME pc = "undoMarker", last = None PROVE snapshot = NoFile
      OBVIOUS
    <3>1. OverPair
      BY TxnFacts DEF Undo, OverAside, Restored, Restores
    <3> QED BY <1>2, <3>1, FileFacts DEF OverPair
  <2> QED BY <1>1, <2>1, <2>2, <2>3
<1>5. SnapshotStays'
  BY <1>1, <1>3 DEF SnapshotInv, SnapshotStays, NoneWithout, Guarded, Txn, Undo
<1>6. SnapshotIsMarked'
  BY <1>1, <1>3, <1>4 DEF SnapshotInv, SnapshotIsMarked, PreSave
<1>7. CommittedSaysNothing' /\ GuardHasSnapshot'
  BY <1>1, <1>3 DEF SnapshotInv, CommittedSaysNothing, GuardHasSnapshot, Guarded, Txn, Undo
<1>8. Goes
  BY <1>1, <1>2, <1>3, VersionOrder DEF Goes, PreSave
<1> QED BY <1>5, <1>6, <1>7, <1>8 DEF SnapshotInv

LEMMA SnapshotStep ==
  ASSUME DiskInv, DiskInv', Bearable, SnapshotInv, [Next]_vars
  PROVE  SnapshotInv' /\ Goes
<1>1. CASE \/ Take \/ RecoverEnd \/ RecoverFails \/ Release \/ Crash \/ UndoFails
           \/ \E r \in Observer : TakeForReader(r)
  BY <1>1, IdleSnapshot
<1>2. CASE RecoverNext
  BY <1>2, RecoverNextSnapshot
<1>3. CASE PutManifest \/ UndoManifest
  BY <1>3, PutManifestSnapshot
<1>4. CASE LinkSnapshot \/ CopySnapshot \/ RenameCopy \/ StepFails
  BY <1>4, AsideSnapshot
<1>5. CASE SetManifestAside
  BY <1>5, SetManifestAsideSnapshot
<1>6. CASE Begin
  BY <1>6, BeginSnapshot
<1>7. CASE WriteMarker \/ MarkerFails
  BY <1>7, MarkerSnapshot
<1>8. CASE SaveSnapshot
  BY <1>8, SaveSnapshotSnapshot
<1>9. CASE WriteManifest \/ MarkCommitted
  BY <1>9, CommitSnapshot
<1>10. CASE PutSnapshot
  BY <1>10, PutSnapshotSnapshot
<1>11. CASE UndoSnapshot
  BY <1>11, UndoSnapshotSnapshot
<1>12. CASE Discard \/ Clean \/ UndoMarker
  BY <1>12, RemoveSnapshot
<1>13. CASE \/ UNCHANGED vars
            \/ \E r \in Observer : Look(r) \/ LookForNames(r) \/ LookAgain(r)
            \/ \E p \in Observer : ProbeStart(p) \/ ProbeRead(p) \/ ProbeList(p) \/ ProbeAnswer(p)
  <2>1. UNCHANGED <<manifest, snapshot, sets, pc, cur, existed, guard, begun, last>>
    BY <1>13
       DEF vars, files, held, history, Look, LookForNames, LookAgain, ProbeStart, ProbeRead,
       ProbeList, ProbeAnswer
  <2> QED BY <2>1, ObserverSnapshot
<1> QED BY <1>1, <1>2, <1>3, <1>4, <1>5, <1>6, <1>7, <1>8, <1>9, <1>10, <1>11, <1>12, <1>13
        DEF Next

(***************************************************************************)
(* What a look without the lock has read, against what is on the disk now. *)
(***************************************************************************)

Pair    == (Ver \cup {None}) \X (File \cup {NoFile})
Listing == [Tag -> RollbackSet]
Version == Ver \cup {None}
ProbeRecord ==
  [read : 0 .. 7, tries : Nat, before : Pair, seen : Listing, after : Pair,
   since : Version, answer : BOOLEAN, sure : BOOLEAN]

\* A look that began over a committed index and has found no manifest cannot
\* see a set that would remove the snapshot,
SawCommitted(q) ==
  q.since # None =>
    /\ last # None
    /\ q.read \in 2 .. 6 /\ q.before[1] = None =>
         NoneWithout /\ (q.read >= 4 => \A t \in Tag : q.seen[t].begun # "without")

\* as long as nothing is committed, one sees nothing to put back,
SawNothing(q) ==
  last = None => /\ q.read \in 4 .. 6 => \A t \in Tag : Void(q.seen[t])
                 /\ q.read = 6 => q.after[1] = None

\* and the set that removes the snapshot it has opened, if that is still there:
\* no transaction that has still to save writes that snapshot again.
SawMarker(q) ==
  last = None /\ q.read \in 3 .. 6 /\ q.before[2] # NoFile =>
    /\ q.before[2].ver \in Tag /\ q.before[2].ver <= begun
    /\ pc \in PreSave => cur # q.before[2].ver
    /\ q.before[2] = snapshot /\ q.read >= 4 => q.seen[snapshot.ver].begun = "without"

Answered(q) == q.read = 7 /\ q.sure => IF q.answer THEN last # None ELSE q.since = None

ProbeOK(q) == SawCommitted(q) /\ SawNothing(q) /\ SawMarker(q) /\ Answered(q)

ProbeInv == \A p \in Observer : probe[p] \in ProbeRecord /\ ProbeOK(probe[p])
ProbesInv == probe \in [Observer -> ProbeRecord] /\ ProbeInv

\* What a look has read stays right, whatever the holder of the lock does.
LEMMA ProbeStable ==
  ASSUME DiskInv, Goes, NEW CONSTANT q, q \in ProbeRecord, ProbeOK(q)
  PROVE  ProbeOK(q)'
<1>1. last' = None => last = None
  BY DEF Goes
<1>2. SawCommitted(q)'
  BY DEF ProbeOK, SawCommitted, NoneWithout, Goes
<1>3. SawNothing(q)'
  BY <1>1 DEF ProbeOK, SawNothing
<1>4. SawMarker(q)'
  <2> SUFFICES ASSUME last' = None, q.read \in 3 .. 6, q.before[2] # NoFile
               PROVE  /\ q.before[2].ver \in Tag /\ q.before[2].ver <= begun'
                      /\ pc' \in PreSave => cur' # q.before[2].ver
                      /\ q.before[2] = snapshot' /\ q.read >= 4 =>
                           q.seen[snapshot'.ver].begun = "without"
    BY DEF SawMarker
  <2>1. /\ q.before[2].ver \in Tag /\ q.before[2].ver <= begun
        /\ pc \in PreSave => cur # q.before[2].ver
        /\ q.before[2] = snapshot /\ q.read >= 4 => q.seen[snapshot.ver].begun = "without"
    BY <1>1 DEF ProbeOK, SawMarker
  <2>2. begun \in Nat /\ begun' \in Nat /\ begun <= begun' /\ q.before[2].ver \in Nat
    BY <2>1, VersionFacts DEF Goes, DiskInv, DiskType
  <2>3. q.before[2].ver <= begun' /\ q.before[2].ver # begun + 1
    BY <2>1, <2>2
  <2>4. pc' \in PreSave => cur' # q.before[2].ver
    BY <2>1, <2>3 DEF Goes
  <2>5. q.before[2] = snapshot' => q.before[2] = snapshot
    BY <2>1 DEF Goes, PreSave
  <2> QED BY <2>1, <2>3, <2>4, <2>5
<1>5. Answered(q)'
  BY <1>1 DEF ProbeOK, Answered
<1> QED BY <1>2, <1>3, <1>4, <1>5 DEF ProbeOK

\* A pair with one file read again.
LEMMA PairUpdate ==
  ASSUME NEW x \in Pair
  PROVE  /\ \A v \in Ver \cup {None} : LET y == [x EXCEPT ![1] = v] IN
               y \in Pair /\ y[1] = v /\ y[2] = x[2]
         /\ \A f \in File \cup {NoFile} : LET y == [x EXCEPT ![2] = f] IN
               y \in Pair /\ y[1] = x[1] /\ y[2] = f
BY DEF Pair

LEMMA IdleProbeFacts ==
  /\ IdleProbe \in ProbeRecord
  /\ IdleProbe.read = 0 /\ IdleProbe.since = None
BY VersionFacts, NoSetFacts DEF IdleProbe, ProbeRecord, Pair, Listing, Version

Same(k, q) == k.before = q.before /\ k.seen = q.seen /\ k.after = q.after /\ k.since = q.since

\* Four reads, in their order.
LEMMA ReadsManifest ==
  ASSUME DiskInv, SnapshotInv, NEW q \in ProbeRecord, ProbeOK(q), q.read = 1,
         NEW k, k = [[q EXCEPT !.read = @ + 1] EXCEPT !.before[1] = manifest]
  PROVE  k \in ProbeRecord /\ ProbeOK(k)
<1> DEFINE l == [q EXCEPT !.read = 2]
<1>0. l \in ProbeRecord /\ l.read = 2 /\ Same(l, q)
  BY DEF ProbeRecord, Same
<1>1. manifest \in Ver \cup {None}
  BY DEF DiskInv, DiskType
<1>2. /\ k = [l EXCEPT !.before = [q.before EXCEPT ![1] = manifest]]
      /\ q.before \in Pair
  BY <1>0 DEF ProbeRecord, Same
<1>3. [q.before EXCEPT ![1] = manifest] \in Pair /\ [q.before EXCEPT ![1] = manifest][1] = manifest
  BY <1>1, <1>2, PairUpdate
<1>4. k \in ProbeRecord /\ k.read = 2 /\ k.before[1] = manifest /\ k.since = q.since
  <2> HIDE DEF l
  <2> QED BY <1>0, <1>2, <1>3 DEF ProbeRecord, Same
<1>5. SawCommitted(k)
  BY <1>4 DEF ProbeOK, SawCommitted, SnapshotInv, SnapshotStays
<1>6. SawNothing(k) /\ SawMarker(k) /\ Answered(k)
  BY <1>4 DEF SawNothing, SawMarker, Answered
<1> QED BY <1>4, <1>5, <1>6 DEF ProbeOK

LEMMA ReadsSnapshot ==
  ASSUME DiskInv, SnapshotInv, NEW q \in ProbeRecord, ProbeOK(q), q.read = 2,
         NEW k, k = [[q EXCEPT !.read = @ + 1] EXCEPT !.before[2] = snapshot]
  PROVE  k \in ProbeRecord /\ ProbeOK(k)
<1> DEFINE l == [q EXCEPT !.read = 3]
<1>0. l \in ProbeRecord /\ l.read = 3 /\ Same(l, q)
  BY DEF ProbeRecord, Same
<1>1. snapshot \in File \cup {NoFile}
  BY DEF DiskInv, DiskType
<1>2. /\ k = [l EXCEPT !.before = [q.before EXCEPT ![2] = snapshot]]
      /\ q.before \in Pair
  BY <1>0 DEF ProbeRecord, Same
<1>3. /\ [q.before EXCEPT ![2] = snapshot] \in Pair
      /\ [q.before EXCEPT ![2] = snapshot][1] = q.before[1]
      /\ [q.before EXCEPT ![2] = snapshot][2] = snapshot
  BY <1>1, <1>2, PairUpdate
<1>4. /\ k \in ProbeRecord /\ k.read = 3 /\ k.since = q.since
      /\ k.before[1] = q.before[1] /\ k.before[2] = snapshot
  <2> HIDE DEF l
  <2> QED BY <1>0, <1>2, <1>3 DEF ProbeRecord, Same
<1>5. SawCommitted(k)
  BY <1>4 DEF ProbeOK, SawCommitted
<1>6. SawMarker(k)
  <2> SUFFICES ASSUME last = None, snapshot # NoFile
               PROVE  snapshot.ver \in Tag /\ snapshot.ver <= begun /\ pc \notin PreSave
    BY <1>4 DEF SawMarker
  <2>1. /\ snapshot.ver \in Tag /\ sets[snapshot.ver].begun = "without"
        /\ pc \notin PreSave
    BY DEF SnapshotInv, SnapshotIsMarked
  <2>2. sets[snapshot.ver] # NoSet
    BY <2>1, NoSetFacts
  <2>3. ~(begun < snapshot.ver)
    BY <2>1, <2>2 DEF DiskInv, FilesOK, Unborn
  <2>4. begun \in Nat /\ snapshot.ver \in Nat
    BY <2>1, VersionFacts DEF DiskInv, DiskType
  <2> QED BY <2>1, <2>3, <2>4
<1>7. SawNothing(k) /\ Answered(k)
  BY <1>4 DEF SawNothing, Answered
<1> QED BY <1>4, <1>5, <1>6, <1>7 DEF ProbeOK

LEMMA ReadsSets ==
  ASSUME DiskInv, SnapshotInv, NEW q \in ProbeRecord, ProbeOK(q), q.read = 3,
         NEW k, k = [[q EXCEPT !.read = @ + 1] EXCEPT !.seen = sets]
  PROVE  k \in ProbeRecord /\ ProbeOK(k)
<1> DEFINE l == [q EXCEPT !.read = 4]
<1>0. l \in ProbeRecord /\ l.read = 4 /\ Same(l, q)
  BY DEF ProbeRecord, Same
<1>1. sets \in Listing /\ k = [l EXCEPT !.seen = sets]
  BY DEF DiskInv, DiskType, Listing, ProbeRecord
<1>2. /\ k \in ProbeRecord /\ k.read = 4 /\ k.since = q.since
      /\ k.before = q.before /\ k.seen = sets
  <2> HIDE DEF l
  <2> QED BY <1>0, <1>1 DEF ProbeRecord, Same
<1>3. SawCommitted(k)
  BY <1>2 DEF ProbeOK, SawCommitted, NoneWithout
<1>4. SawNothing(k)
  BY <1>2 DEF SawNothing, DiskInv, FilesOK, NothingCommitted
<1>5. SawMarker(k)
  BY <1>2 DEF ProbeOK, SawMarker, SnapshotInv, SnapshotIsMarked
<1>6. Answered(k)
  BY <1>2 DEF Answered
<1> QED BY <1>2, <1>3, <1>4, <1>5, <1>6 DEF ProbeOK

LEMMA ReadsManifestAgain ==
  ASSUME DiskInv, NEW q \in ProbeRecord, ProbeOK(q), q.read = 5,
         NEW k, k = [[q EXCEPT !.read = @ + 1] EXCEPT !.after[1] = manifest]
  PROVE  k \in ProbeRecord /\ ProbeOK(k)
<1> DEFINE l == [q EXCEPT !.read = 6]
<1>0. l \in ProbeRecord /\ l.read = 6 /\ Same(l, q)
  BY DEF ProbeRecord, Same
<1>1. manifest \in Ver \cup {None}
  BY DEF DiskInv, DiskType
<1>2. /\ k = [l EXCEPT !.after = [q.after EXCEPT ![1] = manifest]]
      /\ q.after \in Pair
  BY <1>0 DEF ProbeRecord, Same
<1>3. [q.after EXCEPT ![1] = manifest] \in Pair /\ [q.after EXCEPT ![1] = manifest][1] = manifest
  BY <1>1, <1>2, PairUpdate
<1>4. /\ k \in ProbeRecord /\ k.read = 6 /\ k.since = q.since
      /\ k.before = q.before /\ k.seen = q.seen /\ k.after[1] = manifest
  <2> HIDE DEF l
  <2> QED BY <1>0, <1>2, <1>3 DEF ProbeRecord, Same
<1>5. SawCommitted(k) /\ SawMarker(k)
  BY <1>4 DEF ProbeOK, SawCommitted, SawMarker
<1>6. SawNothing(k)
  BY <1>4 DEF ProbeOK, SawNothing, DiskInv, FilesOK, PairIsLast
<1>7. Answered(k)
  BY <1>4 DEF Answered
<1> QED BY <1>4, <1>5, <1>6, <1>7 DEF ProbeOK

\* A listing that mixes two moments.
Mixed(seen, K) ==
  [t \in Tag |-> [n \in DOMAIN NoSet |-> IF n \in K THEN sets[t][n] ELSE seen[t][n]]]

LEMMA Lists ==
  ASSUME DiskInv, SnapshotInv, NEW q \in ProbeRecord, ProbeOK(q), q.read = 4, NEW K,
         NEW k, k = [[q EXCEPT !.seen = Mixed(q.seen, K)] EXCEPT !.read = 5]
  PROVE  k \in ProbeRecord /\ ProbeOK(k)
<1> DEFINE F == Mixed(q.seen, K)
<1>1. sets \in [Tag -> RollbackSet] /\ q.seen \in [Tag -> RollbackSet]
  BY DEF DiskInv, DiskType, ProbeRecord, Listing
<1>2. ASSUME NEW t \in Tag
      PROVE  /\ F[t] \in RollbackSet
             /\ F[t].begun \in {sets[t].begun, q.seen[t].begun}
             /\ F[t].manifest \in {sets[t].manifest, q.seen[t].manifest}
             /\ F[t].snapshot \in {sets[t].snapshot, q.seen[t].snapshot}
             /\ F[t].committed \in {sets[t].committed, q.seen[t].committed}
  <2>1. F[t] = [n \in DOMAIN NoSet |-> IF n \in K THEN sets[t][n] ELSE q.seen[t][n]]
    BY DEF Mixed
  <2>2. sets[t] \in RollbackSet /\ q.seen[t] \in RollbackSet
    BY <1>1
  <2> DEFINE S == sets[t]
             T == q.seen[t]
             G == [n \in DOMAIN NoSet |-> IF n \in K THEN S[n] ELSE T[n]]
  <2>3. F[t] = G
    BY <2>1
  <2>4. /\ G \in RollbackSet
        /\ G.begun \in {S.begun, T.begun} /\ G.manifest \in {S.manifest, T.manifest}
        /\ G.snapshot \in {S.snapshot, T.snapshot} /\ G.committed \in {S.committed, T.committed}
    <3> HIDE DEF S, T
    <3>1. S \in RollbackSet /\ T \in RollbackSet
      BY <2>2 DEF S, T
    <3>2. DOMAIN NoSet = {"manifest", "snapshot", "partial", "begun", "committed"}
      BY DEF NoSet
    <3>3. /\ G.begun \in {S.begun, T.begun} /\ G.manifest \in {S.manifest, T.manifest}
          /\ G.snapshot \in {S.snapshot, T.snapshot}
      BY <3>2
    <3>4. G.committed \in {S.committed, T.committed} /\ G.partial \in {S.partial, T.partial}
      BY <3>2
    <3>5. G \in RollbackSet
      BY <3>1, <3>2, <3>3, <3>4 DEF RollbackSet
    <3> QED BY <3>3, <3>4, <3>5
  <2> HIDE DEF G
  <2> QED BY <2>3, <2>4
<1>3. F \in Listing
  BY <1>2 DEF Listing, Mixed
<1> HIDE DEF F
<1>4. /\ k \in ProbeRecord /\ k.read = 5 /\ k.since = q.since
      /\ k.before = q.before /\ k.seen = F
  <2> DEFINE l == [q EXCEPT !.seen = F]
  <2>1. l \in ProbeRecord /\ l.since = q.since /\ l.before = q.before /\ l.seen = F
    BY <1>3 DEF ProbeRecord
  <2> HIDE DEF l
  <2>2. k = [l EXCEPT !.read = 5]
    BY DEF l, F
  <2>3. ASSUME NEW m \in ProbeRecord, NEW n, n = [m EXCEPT !.read = 5]
        PROVE  n \in ProbeRecord /\ n.read = 5 /\ Same(n, m)
    BY <2>3 DEF ProbeRecord, Same
  <2>4. k \in ProbeRecord /\ k.read = 5 /\ Same(k, l)
    BY <2>1, <2>2, <2>3
  <2> QED BY <2>1, <2>4 DEF Same
<1>5. SawCommitted(k)
  BY <1>2, <1>4 DEF ProbeOK, SawCommitted, NoneWithout
<1>6. SawNothing(k)
  <2> SUFFICES ASSUME last = None, NEW t \in Tag PROVE Void(F[t])
    BY <1>4 DEF SawNothing
  <2>1. Void(sets[t]) /\ Void(q.seen[t])
    BY DEF DiskInv, FilesOK, NothingCommitted, ProbeOK, SawNothing
  <2> QED BY <1>2, <2>1 DEF Void
<1>7. SawMarker(k)
  <2> SUFFICES ASSUME last = None, q.before[2] # NoFile
               PROVE  /\ q.before[2].ver \in Tag /\ q.before[2].ver <= begun
                      /\ pc \in PreSave => cur # q.before[2].ver
                      /\ q.before[2] = snapshot => F[snapshot.ver].begun = "without"
    BY <1>4 DEF SawMarker
  <2>1. /\ q.before[2].ver \in Tag /\ q.before[2].ver <= begun
        /\ pc \in PreSave => cur # q.before[2].ver
        /\ q.before[2] = snapshot => q.seen[snapshot.ver].begun = "without"
    BY DEF ProbeOK, SawMarker
  <2>2. q.before[2] = snapshot => sets[snapshot.ver].begun = "without"
    BY DEF SnapshotInv, SnapshotIsMarked
  <2> QED BY <1>2, <2>1, <2>2
<1>8. Answered(k)
  BY <1>4 DEF Answered
<1> QED BY <1>4, <1>5, <1>6, <1>7, <1>8 DEF ProbeOK

\* The answer over an unchanged pair.
LEMMA Answers ==
  ASSUME DiskInv, SnapshotInv, NEW q \in ProbeRecord, ProbeOK(q), q.read = 6,
         q.before[1] = q.after[1], q.before[2] = snapshot
  PROVE  IF LeavesAnIndex(q.seen, q.after[1] # None, snapshot # NoFile)
           THEN last # None ELSE q.since = None
<1> DEFINE m == q.after[1] # None
           s == snapshot # NoFile
<1>1. m \in BOOLEAN /\ s \in BOOLEAN
  OBVIOUS
<1>2. ASSUME q.since # None PROVE LeavesAnIndex(q.seen, m, s)
  <2>1. last # None /\ (q.before[1] = None => \A t \in Tag : q.seen[t].begun # "without")
    BY <1>2 DEF ProbeOK, SawCommitted
  <2>2. s
    BY <2>1 DEF SnapshotInv, SnapshotStays
  <2>3. m \/ (s /\ \A t \in Tag : q.seen[t].begun # "without")
    BY <2>1, <2>2
  <2> HIDE DEF m, s
  <2> QED BY <1>1, <2>3, LeavesOne
<1>3. ASSUME last = None PROVE ~LeavesAnIndex(q.seen, m, s)
  <2>1. (\A t \in Tag : Void(q.seen[t])) /\ m = FALSE
    BY <1>3 DEF ProbeOK, SawNothing
  <2>2. s => \E t \in Tag : q.seen[t].begun = "without"
    BY <1>3 DEF ProbeOK, SawMarker
  <2> HIDE DEF m, s
  <2>3. ~LeavesAnIndex(q.seen, FALSE, s)
    BY <1>1, <2>1, <2>2, LeavesNone
  <2> QED BY <2>1, <2>3
<1> HIDE DEF m, s
<1>4. IF LeavesAnIndex(q.seen, m, s) THEN last # None ELSE q.since = None
  BY <1>2, <1>3
<1> QED BY <1>4 DEF m, s

LEMMA AnswerIsBoolean ==
  ASSUME NEW seen, NEW m, NEW s
  PROVE  LeavesAnIndex(seen, m, s) \in BOOLEAN
<1> DEFINE h == CHOOSE h : After(seen, m, s, h)
<1>1. LeavesAnIndex(seen, m, s) = (h[MaxTxn].m \/ h[MaxTxn].s)
  BY LeavesReads
<1> HIDE DEF h
<1> QED BY <1>1

\* The end of an attempt, and the start of a look.
LEMMA Ends ==
  ASSUME NEW x \in Version, NEW n \in {1, 7}, NEW a \in BOOLEAN, NEW b \in BOOLEAN, NEW c \in Nat,
         x # None => last # None, n = 7 /\ b => IF a THEN last # None ELSE x = None,
         NEW k, k = [IdleProbe EXCEPT !.answer = a, !.sure = b, !.since = x, !.read = n, !.tries = c]
  PROVE  k \in ProbeRecord /\ ProbeOK(k)
<1>0. /\ k = [read |-> n, tries |-> c, before |-> IdleProbe.before, seen |-> IdleProbe.seen,
              after |-> IdleProbe.after, since |-> x, answer |-> a, sure |-> b]
      /\ IdleProbe.before \in Pair /\ IdleProbe.after \in Pair /\ IdleProbe.seen \in Listing
  <2>1. IdleProbe.before \in Pair /\ IdleProbe.after \in Pair /\ IdleProbe.seen \in Listing
    BY IdleProbeFacts DEF ProbeRecord
  <2> QED BY <2>1 DEF IdleProbe
<1>1. k \in ProbeRecord /\ k.read = n /\ k.since = x
  BY <1>0 DEF ProbeRecord
<1>2. k.answer = a /\ k.sure = b
  BY <1>0
<1>3. SawCommitted(k) /\ SawNothing(k) /\ SawMarker(k)
  BY <1>1 DEF SawCommitted, SawNothing, SawMarker
<1>4. Answered(k)
  BY <1>1, <1>2 DEF Answered
<1> QED BY <1>1, <1>3, <1>4 DEF ProbeOK

\* One step of a look, as one change of its record.
ProbeMoves(p) == \E k \in ProbeRecord : ProbeOK(k) /\ probe' = [probe EXCEPT ![p] = k]

LEMMA StartMoves ==
  ASSUME DiskInv, NEW p \in Observer, ProbeStart(p)
  PROVE  ProbeMoves(p)
<1> DEFINE k == [IdleProbe EXCEPT !.read = 1, !.tries = 1, !.since = last]
<1>1. last \in Version
  BY DEF DiskInv, DiskType, Version
<1>2. k \in ProbeRecord /\ k.read = 1 /\ k.since = last
  <2> DEFINE e == [IdleProbe EXCEPT !.read = 1]
             f == [e EXCEPT !.tries = 1]
  <2>1. e \in ProbeRecord /\ e.read = 1
    BY IdleProbeFacts DEF ProbeRecord
  <2>2. f \in ProbeRecord /\ f.read = 1
    <3> HIDE DEF e
    <3> QED BY <2>1 DEF ProbeRecord
  <2>3. k = [f EXCEPT !.since = last]
    OBVIOUS
  <2> HIDE DEF f, k
  <2> QED BY <1>1, <2>2, <2>3 DEF ProbeRecord
<1>3. probe' = [probe EXCEPT ![p] = k]
  BY DEF ProbeStart
<1> HIDE DEF k
<1>4. ProbeOK(k)
  BY <1>2 DEF ProbeOK, SawCommitted, SawNothing, SawMarker, Answered
<1> QED BY <1>2, <1>3, <1>4 DEF ProbeMoves

LEMMA ReadMoves ==
  ASSUME DiskInv, SnapshotInv, ProbesInv, NEW p \in Observer, ProbeRead(p)
  PROVE  ProbeMoves(p)
<1>1. PICK q \in ProbeRecord : q = probe[p] /\ ProbeOK(q)
  BY DEF ProbesInv, ProbeInv
<1>2. CASE q.read = 1
  <2> DEFINE k == [[q EXCEPT !.read = @ + 1] EXCEPT !.before[1] = manifest]
  <2>1. probe' = [probe EXCEPT ![p] = k]
    BY <1>1, <1>2 DEF ProbeRead
  <2> HIDE DEF k
  <2>2. k \in ProbeRecord /\ ProbeOK(k)
    BY <1>1, <1>2, ReadsManifest DEF k
  <2> QED BY <2>1, <2>2 DEF ProbeMoves
<1>3. CASE q.read = 2
  <2> DEFINE k == [[q EXCEPT !.read = @ + 1] EXCEPT !.before[2] = snapshot]
  <2>1. probe' = [probe EXCEPT ![p] = k]
    BY <1>1, <1>3 DEF ProbeRead
  <2> HIDE DEF k
  <2>2. k \in ProbeRecord /\ ProbeOK(k)
    BY <1>1, <1>3, ReadsSnapshot DEF k
  <2> QED BY <2>1, <2>2 DEF ProbeMoves
<1>4. CASE q.read = 3
  <2> DEFINE k == [[q EXCEPT !.read = @ + 1] EXCEPT !.seen = sets]
  <2>1. probe' = [probe EXCEPT ![p] = k]
    BY <1>1, <1>4 DEF ProbeRead
  <2> HIDE DEF k
  <2>2. k \in ProbeRecord /\ ProbeOK(k)
    BY <1>1, <1>4, ReadsSets DEF k
  <2> QED BY <2>1, <2>2 DEF ProbeMoves
<1>5. CASE q.read = 5
  <2> DEFINE k == [[q EXCEPT !.read = @ + 1] EXCEPT !.after[1] = manifest]
  <2>1. probe' = [probe EXCEPT ![p] = k]
    BY <1>1, <1>5 DEF ProbeRead
  <2> HIDE DEF k
  <2>2. k \in ProbeRecord /\ ProbeOK(k)
    BY <1>1, <1>5, ReadsManifestAgain DEF k
  <2> QED BY <2>1, <2>2 DEF ProbeMoves
<1> QED BY <1>1, <1>2, <1>3, <1>4, <1>5 DEF ProbeRead

LEMMA ListMoves ==
  ASSUME DiskInv, SnapshotInv, ProbesInv, NEW p \in Observer, ProbeList(p)
  PROVE  ProbeMoves(p)
<1>1. PICK q \in ProbeRecord : q = probe[p] /\ ProbeOK(q)
  BY DEF ProbesInv, ProbeInv
<1>2. PICK K \in SUBSET {"manifest", "snapshot", "begun", "committed"} :
        probe' = [probe EXCEPT
          ![p].seen = [t \in Tag |-> [n \in DOMAIN NoSet |->
                        IF n \in K THEN sets[t][n] ELSE @[t][n]]],
          ![p].read = 5]
  BY DEF ProbeList
<1> DEFINE k == [[q EXCEPT !.seen = Mixed(q.seen, K)] EXCEPT !.read = 5]
<1>3. probe' = [probe EXCEPT ![p] = k]
  <2>1. probe \in [Observer -> ProbeRecord]
    BY DEF ProbesInv
  <2> QED BY <1>1, <1>2, <2>1 DEF Mixed
<1>4. q.read = 4
  BY <1>1 DEF ProbeList
<1> HIDE DEF k
<1>5. k \in ProbeRecord /\ ProbeOK(k)
  BY <1>1, <1>4, Lists DEF k
<1> QED BY <1>3, <1>5 DEF ProbeMoves

LEMMA AnswerMoves ==
  ASSUME DiskInv, SnapshotInv, ProbesInv, NEW p \in Observer, ProbeAnswer(p)
  PROVE  ProbeMoves(p)
<1>1. PICK q \in ProbeRecord : q = probe[p] /\ ProbeOK(q)
  BY DEF ProbesInv, ProbeInv
<1> DEFINE l == [q EXCEPT !.after[2] = snapshot]
           same == l.before = l.after
           a == LeavesAnIndex(l.seen, l.after[1] # None, l.after[2] # NoFile)
           n == IF same \/ l.tries = Attempts THEN 7 ELSE 1
           c == IF same \/ l.tries = Attempts THEN l.tries ELSE l.tries + 1
           k == [IdleProbe EXCEPT !.answer = a, !.sure = same, !.since = l.since, !.read = n,
                                  !.tries = c]
<1>2. l.read = 6 /\ probe' = [probe EXCEPT ![p] = k]
  BY <1>1 DEF ProbeAnswer
<1>3. /\ l.seen = q.seen /\ l.before = q.before /\ l.since = q.since /\ l.read = q.read
      /\ l.tries = q.tries /\ l.after[1] = q.after[1] /\ l.after[2] = snapshot
  <2>1. /\ q.after \in Pair /\ l = [q EXCEPT !.after = [q.after EXCEPT ![2] = snapshot]]
        /\ snapshot \in File \cup {NoFile}
    BY DEF ProbeRecord, DiskInv, DiskType
  <2>2. [q.after EXCEPT ![2] = snapshot][1] = q.after[1] /\ [q.after EXCEPT ![2] = snapshot][2] = snapshot
    BY <2>1, PairUpdate
  <2> HIDE DEF l
  <2> QED BY <2>1, <2>2 DEF ProbeRecord
<1>4. q.tries \in Nat /\ q.since \in Version /\ (q.since # None => last # None)
  BY <1>1 DEF ProbeRecord, ProbeOK, SawCommitted
<1> HIDE DEF l
<1>5. a \in BOOLEAN /\ same \in BOOLEAN
  BY AnswerIsBoolean
<1>6. same => IF a THEN last # None ELSE q.since = None
  <2> SUFFICES ASSUME same PROVE IF a THEN last # None ELSE q.since = None
    OBVIOUS
  <2>1. q.before[1] = q.after[1] /\ q.before[2] = snapshot /\ q.read = 6
    BY <1>2, <1>3
  <2>2. a = LeavesAnIndex(q.seen, q.after[1] # None, snapshot # NoFile)
    BY <1>3
  <2> HIDE DEF a
  <2> QED BY <1>1, <2>1, <2>2, Answers
<1> HIDE DEF same, a
<1>7. n \in {1, 7} /\ c \in Nat
  BY <1>3, <1>4
<1> HIDE DEF n, c, k
<1>8. k \in ProbeRecord /\ ProbeOK(k)
  BY <1>3, <1>4, <1>5, <1>6, <1>7, Ends DEF k
<1> QED BY <1>2, <1>8 DEF ProbeMoves

LEMMA MovedProbe ==
  ASSUME DiskInv, ProbesInv, Goes, NEW p \in Observer, ProbeMoves(p)
  PROVE  ProbesInv'
<1>1. PICK k \in ProbeRecord : ProbeOK(k) /\ probe' = [probe EXCEPT ![p] = k]
  BY DEF ProbeMoves
<1>2. probe' \in [Observer -> ProbeRecord]
  BY <1>1 DEF ProbesInv
<1>3. ASSUME NEW r \in Observer PROVE probe'[r] \in ProbeRecord /\ ProbeOK(probe[r])'
  <2>1. PICK q \in ProbeRecord : q = probe'[r] /\ ProbeOK(q)
    BY <1>1 DEF ProbesInv, ProbeInv
  <2>2. ProbeOK(q)'
    BY <2>1, ProbeStable
  <2> QED BY <2>1, <2>2
<1> QED BY <1>2, <1>3 DEF ProbesInv, ProbeInv

LEMMA SameProbes ==
  ASSUME DiskInv, ProbesInv, Goes, UNCHANGED probe
  PROVE  ProbesInv'
<1>1. probe' \in [Observer -> ProbeRecord]
  BY DEF ProbesInv
<1>2. ASSUME NEW r \in Observer PROVE probe'[r] \in ProbeRecord /\ ProbeOK(probe[r])'
  <2>1. PICK q \in ProbeRecord : q = probe'[r] /\ ProbeOK(q)
    BY DEF ProbesInv, ProbeInv
  <2>2. ProbeOK(q)'
    BY <2>1, ProbeStable
  <2> QED BY <2>1, <2>2
<1> QED BY <1>1, <1>2 DEF ProbesInv, ProbeInv

LEMMA ProbesStep ==
  ASSUME DiskInv, SnapshotInv, ProbesInv, Goes, [Next]_vars
  PROVE  ProbesInv'
<1>1. CASE \E p \in Observer : ProbeStart(p) \/ ProbeRead(p) \/ ProbeList(p) \/ ProbeAnswer(p)
  BY <1>1, StartMoves, ReadMoves, ListMoves, AnswerMoves, MovedProbe
<1>2. CASE UNCHANGED probe
  BY <1>2, SameProbes
<1>3. UNCHANGED vars => UNCHANGED probe
  BY DEF vars
<1>4. CASE \/ Take \/ RecoverNext \/ RecoverEnd \/ PutSnapshot \/ PutManifest
           \/ RecoverFails \/ Discard \/ Release \/ Crash
           \/ Begin \/ WriteMarker \/ MarkerFails \/ SetManifestAside \/ LinkSnapshot
           \/ CopySnapshot \/ RenameCopy \/ SaveSnapshot
  <2>1. UNCHANGED probe
    BY <1>4 DEF Take, RecoverNext, RecoverEnd, PutSnapshot, PutManifest, RecoverFails, Discard,
       RemoveNext, Release, Crash, Begin, WriteMarker, MarkerFails, SetManifestAside, LinkSnapshot,
       CopySnapshot, RenameCopy, SaveSnapshot
  <2> QED BY <1>2, <2>1
<1>5. CASE \/ WriteManifest \/ MarkCommitted \/ Clean
           \/ StepFails \/ UndoSnapshot \/ UndoManifest \/ UndoMarker \/ UndoFails
           \/ \E r \in Observer : TakeForReader(r) \/ Look(r) \/ LookForNames(r) \/ LookAgain(r)
  <2>1. UNCHANGED probe
    BY <1>5 DEF WriteManifest, MarkCommitted, Clean, RemoveNext, StepFails, UndoSnapshot,
       UndoManifest, UndoMarker, UndoFails, TakeForReader, Look, LookForNames, LookAgain
  <2> QED BY <1>2, <2>1
<1> QED BY <1>1, <1>2, <1>3, <1>4, <1>5 DEF Next

LEMMA InitProbes ==
  ASSUME Init
  PROVE  SnapshotInv /\ ProbesInv
<1>1. /\ sets = [t \in Tag |-> NoSet] /\ pc = "free" /\ last = manifest
      /\ probe = [p \in Observer |-> IdleProbe]
      /\ manifest = None => snapshot = NoFile
      /\ manifest # None => snapshot = [ver |-> 0, by |-> None]
  BY VersionFacts DEF Init
<1>2. [ver |-> 0, by |-> None] # NoFile
  BY VersionFacts DEF NoFile
<1>3. SnapshotStays /\ SnapshotIsMarked
  BY <1>1, <1>2 DEF SnapshotStays, SnapshotIsMarked, Guarded, Txn, Undo, PreSave
<1>4. CommittedSaysNothing /\ GuardHasSnapshot
  BY <1>1, NoSetFacts DEF CommittedSaysNothing, GuardHasSnapshot, Guarded, Txn, Undo
<1>5. ProbeOK(IdleProbe)
  BY IdleProbeFacts DEF ProbeOK, SawCommitted, SawNothing, SawMarker, Answered
<1>6. ProbesInv
  BY <1>1, <1>5, IdleProbeFacts DEF ProbesInv, ProbeInv
<1> QED BY <1>3, <1>4, <1>6 DEF SnapshotInv

\* Whatever transactions, rollbacks, recoveries and crashes go on between the
\* reads of a look without the lock, what it has read is never ahead of nor at
\* odds with the pair on the disk.
THEOREM ProbeInvariance ==
  ASSUME Bearable
  PROVE  Spec => [](SnapshotInv /\ ProbesInv)
<1>1. Init => SnapshotInv /\ ProbesInv
  BY InitProbes
<1>2. PersistInv /\ PersistInv' /\ SnapshotInv /\ ProbesInv /\ [Next]_vars =>
        (SnapshotInv /\ ProbesInv)'
  BY SnapshotStep, ProbesStep DEF PersistInv
<1> QED BY <1>1, <1>2, PersistInvariance, PTL DEF Spec

\* holds_committed_index over an unchanged pair: it says that there is none only
\* if nothing was committed when it began, and that there is one only if
\* something is committed, for any number of transactions and of looks, however
\* the listing of the rollback names is split over their steps.
THEOREM ProbeAnswersAreRight ==
  ASSUME Bearable
  PROVE  Spec => []ProbeIsRight
<1>1. SnapshotInv /\ ProbesInv => ProbeIsRight
  BY DEF ProbesInv, ProbeInv, ProbeOK, Answered, ProbeIsRight
<1> QED BY <1>1, ProbeInvariance, PTL
=============================================================================
