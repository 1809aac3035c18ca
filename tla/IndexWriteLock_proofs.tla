------------------------ MODULE IndexWriteLock_proofs ------------------------
(***************************************************************************)
(* Proofs about IndexWriteLock, for any rebuild iterations, other          *)
(* processes, inode numbers, helper threads, removals and faults.          *)
(***************************************************************************)
EXTENDS IndexWriteLock, TLAPS

(***************************************************************************)
(* The inductive invariant.  It says of each writer, and of each helper,   *)
(* how what it has in hand agrees with what is shared.                     *)
(***************************************************************************)

\* Only the daemon's iterations wait through helpers and check the index;
\* only other processes block on the lock themselves, and try so often.
PlaceOK(w, m) ==
  /\ w \in Other => m.at \in {"start", "flock", "named", "entered", "writing"} \cup Ended
  /\ w \in Other /\ m.at \in {"start", "flock", "named"} => m.tries < Retries
  /\ w \in Rebuilder => m.at \notin {"flock", "named"}

\* Where a writer knows its lock file by its inode number.
Known == Opened \cup Locked \cup {"attach", "wait"}

FileOK(m) == m.at \in Known => m.file \in used

\* Who goes on under the lock has it.
HoldOK(w, m) == m.at \in Locked => flock[m.file] = <<"writer", w>>

\* A wait is on a helper of the same file that has not gone, and counts as
\* interested.
WaitOK(m) ==
  m.at = "wait" => m.on \in Helper /\ helper[m.on].st # "off" /\ helper[m.on].file = m.file

\* Where a rebuild goes by the lock file it has opened.
Awaits == {"look", "gen", "peek", "try", "attach", "wait", "arrived", "held", "built"}

\* While no lock file is unlinked, the file opened, or last found current, is
\* the one the path names.
CurrentOK(m) == m.passed <= unlinks /\ (m.passed = unlinks => lockFile = m.file)

PassedOK(w, m) ==
  m.at \in Awaits \cup {"writing"} \/ (w \in Other /\ m.at = "entered") => CurrentOK(m)

\* The gate counts every transaction of the daemon.
GateOK(w, m) == w \in Rebuilder /\ m.at \in {"entered", "writing"} => w \in gate

\* What the wait has seen of an index is in what it read, or in the commits
\* recorded on its file since: the count on a file is never taken back while
\* the path names it.
ReadOK(m) ==
  /\ m.opened <= gen[m.file]
  /\ m.seen => m.saw \/ gen[m.file] > m.opened

SeenOK(m) ==
  /\ m.at \in {"start", "open", "create", "look", "gen"} => ~m.seen
  /\ m.at \in {"peek", "try", "attach", "wait", "arrived"} => m.passed # unlinks \/ ReadOK(m)
  /\ m.at = "peek" => m.passed # unlinks \/ (m.seen => gen[m.file] > m.opened)
  /\ m.at \in {"held", "built"} => m.passed # unlinks \/ (m.seen => m.saw)

WriterOK(w, m) ==
  /\ PlaceOK(w, m) /\ FileOK(m) /\ HoldOK(w, m) /\ WaitOK(m)
  /\ PassedOK(w, m) /\ GateOK(w, m) /\ SeenOK(m)

\* A helper that has the lock, or left it in its answer, is the lock's
\* holder; only a finished one has an answer, and it has a waiter.
HelperOK(h, k) ==
  /\ k.st # "off" => k.file \in Ident
  /\ k.st = "locked" \/ k.answer = "lock" => flock[k.file] = <<"helper", h>>
  /\ k.answer # "none" => k.st = "done"
  /\ k.st = "done" => k.interested # {}

\* The interested of a helper are those who wait on it.
InterestOK ==
  \A w \in Writer : \A h \in Helper :
    w \in helper[h].interested <=> At(w, "wait") /\ me[w].on = h

\* The removals account for the unlinks.
RemovalOK ==
  /\ lockFile # None => lockFile \in used
  /\ unlinks <= removals
  /\ "lock" \in removing => unlinks < removals

LockInv ==
  /\ LockTypeOK
  /\ \A w \in Writer : WriterOK(w, me[w])
  /\ \A h \in Helper : HelperOK(h, helper[h])
  /\ InterestOK
  /\ RemovalOK
  /\ OneHelperPerFile

(***************************************************************************)
(* What a step does to the writers it is not a step of.                    *)
(***************************************************************************)

\* Types that the rest needs.
LEMMA TypeFacts ==
  ASSUME LockTypeOK
  PROVE  /\ None \notin Ident /\ None \notin Helper
         /\ lockFile \in Ident \cup {None} /\ used \subseteq Ident
         /\ gen \in [Ident -> Nat] /\ unlinks \in Nat
         /\ flock \in [Ident -> {NoOne} \cup ({"writer"} \X Writer) \cup ({"helper"} \X Helper)]
         /\ me \in [Writer -> WriterState] /\ helper \in [Helper -> HelperState]
         /\ gate \subseteq Rebuilder
BY BoundsAssumption, IdentAssumption DEF LockTypeOK, Ident, Helper, None

\* What is shared stays in order for v: its lock, its ticket and the helper it
\* waits on stay; the files used stay used; the lock file's name is taken away
\* only by an unlink, and the commits on the file it names are kept.
SharedKept(v, m) ==
  /\ used \subseteq used'
  /\ \A i \in Ident : flock[i] = <<"writer", v>> => flock'[i] = <<"writer", v>>
  /\ m.at = "wait" => /\ helper'[m.on].st = "off" => helper[m.on].st = "off"
                      /\ helper'[m.on].file = helper[m.on].file
  /\ unlinks' \in Nat /\ unlinks' >= unlinks
  /\ unlinks' = unlinks /\ lockFile # None => lockFile' = lockFile
  /\ v \in gate => v \in gate'
  /\ lockFile # None => gen'[lockFile] \in Nat /\ gen[lockFile] <= gen'[lockFile]

LEMMA WriterKept ==
  ASSUME LockTypeOK, NEW v \in Writer, NEW m \in WriterState, WriterOK(v, m), SharedKept(v, m)
  PROVE  WriterOK(v, m)'
<1>1. /\ None \notin Ident /\ used \subseteq Ident
      /\ gen \in [Ident -> Nat] /\ unlinks \in Nat
  BY TypeFacts
<1>2. /\ m.opened \in Nat /\ m.passed \in Nat
      /\ m.saw \in BOOLEAN /\ m.seen \in BOOLEAN
  BY BoundsAssumption DEF WriterState
<1>3. PlaceOK(v, m)' /\ FileOK(m)'
  BY DEF WriterOK, PlaceOK, FileOK, SharedKept
<1>4. HoldOK(v, m)'
  BY <1>1 DEF WriterOK, HoldOK, FileOK, Known, SharedKept
<1>5. WaitOK(m)'
  BY DEF WriterOK, WaitOK, SharedKept
<1>6. PassedOK(v, m)'
  BY <1>1, <1>2 DEF WriterOK, PassedOK, CurrentOK, FileOK, Known, Opened, Locked, Awaits, SharedKept
<1>7. GateOK(v, m)'
  BY DEF WriterOK, GateOK, SharedKept
<1>8. SeenOK(m)'
  <2>1. CASE m.at \in Awaits /\ m.passed = unlinks'
    <3>1. m.passed = unlinks /\ m.file = lockFile /\ m.file \in Ident
      BY <1>1, <1>2, <2>1
         DEF WriterOK, PassedOK, CurrentOK, FileOK, Known, Opened, Locked, Awaits, SharedKept
    <3>2. gen[m.file] \in Nat /\ gen'[m.file] \in Nat /\ gen[m.file] <= gen'[m.file]
      BY <1>1, <3>1 DEF SharedKept
    <3> QED BY <1>2, <3>1, <3>2 DEF WriterOK, SeenOK, ReadOK
  <2>2. CASE m.at \notin Awaits \/ m.passed # unlinks'
    BY <2>2 DEF WriterOK, SeenOK, Awaits
  <2> QED BY <2>1, <2>2
<1> QED BY <1>3, <1>4, <1>5, <1>6, <1>7, <1>8 DEF WriterOK

\* The types of what the rest of the invariant does not look at.
SimpleOK ==
  /\ dir \in BOOLEAN
  /\ content \in {"none", "leftover", "index"}
  /\ closed \in BOOLEAN
  /\ exited \in BOOLEAN
  /\ faults \in 0 .. MaxFaults

LEMMA SimpleType == LockTypeOK => SimpleOK
BY DEF LockTypeOK, SimpleOK

\* A step of w alone keeps the invariant of the other writers.
LEMMA OthersKept ==
  ASSUME LockInv, NEW w \in Writer, me' \in [Writer -> WriterState],
         \A v \in Writer : v # w => me'[v] = me[v] /\ SharedKept(v, me[v]),
         WriterOK(w, me[w])'
  PROVE  \A v \in Writer : WriterOK(v, me[v])'
<1> SUFFICES ASSUME NEW v \in Writer, v # w PROVE WriterOK(v, me[v])'
  OBVIOUS
<1>1. me[v] \in WriterState /\ WriterOK(v, me[v]) /\ LockTypeOK
  BY TypeFacts DEF LockInv
<1>2. me'[v] = me[v] /\ SharedKept(v, me[v])
  OBVIOUS
<1> QED BY <1>1, <1>2, WriterKept

\* A step that leaves what is shared as it is.
LEMMA SharedSame ==
  ASSUME LockTypeOK, NEW v \in Writer,
         UNCHANGED <<lockFile, used, gen, flock, unlinks, helper, gate>>
  PROVE  SharedKept(v, me[v])
<1>1. /\ used \subseteq Ident /\ gen \in [Ident -> Nat] /\ unlinks \in Nat
      /\ lockFile \in Ident \cup {None}
  BY TypeFacts
<1> QED BY <1>1 DEF SharedKept

\* A step of w that changes nothing but what it has in hand.
LEMMA MoveKeeps ==
  ASSUME LockInv, NEW w \in Writer, NEW m \in WriterState, me' = [me EXCEPT ![w] = m],
         UNCHANGED <<lockFile, used, gen, flock, unlinks, removing, removals, helper, gate>>,
         SimpleOK',
         WriterOK(w, m),
         m.at = "wait" <=> At(w, "wait"),
         m.at = "wait" => m.on = me[w].on
  PROVE  LockInv'
<1>1. LockTypeOK /\ me \in [Writer -> WriterState] /\ me' \in [Writer -> WriterState]
  BY TypeFacts DEF LockInv
<1>2. me'[w] = m /\ \A v \in Writer : v # w => me'[v] = me[v]
  BY <1>1
<1>3. LockTypeOK'
  BY <1>1 DEF LockTypeOK, SimpleOK
<1>4. WriterOK(w, m)'
  <2>1. SharedKept(w, m)
    BY <1>1, TypeFacts DEF SharedKept
  <2> QED BY <1>1, <2>1, WriterKept
<1>5. \A v \in Writer : WriterOK(v, me[v])'
  BY <1>1, <1>2, <1>4, OthersKept, SharedSame
<1>6. \A h \in Helper : HelperOK(h, helper[h])'
  BY DEF LockInv, HelperOK
<1>7. InterestOK'
  BY <1>2 DEF LockInv, InterestOK, At
<1>8. RemovalOK' /\ OneHelperPerFile'
  BY DEF LockInv, RemovalOK, OneHelperPerFile, Waiting, Unfinished
<1> QED BY <1>3, <1>5, <1>6, <1>7, <1>8 DEF LockInv

LEMMA IdleType == Idle \in WriterState
BY BoundsAssumption DEF Idle, WriterState, Place

\* A writer that has ended has nothing in hand.
LEMMA EndState ==
  ASSUME NEW how \in Ended
  PROVE  LET m == [Idle EXCEPT !.at = how] IN
         /\ m \in WriterState
         /\ m.at = how /\ m.at # "wait" /\ m.at \notin Known \cup {"start"}
<1> DEFINE m == [Idle EXCEPT !.at = how]
<1>1. how \in Place
  BY DEF Place
<1>2. Idle \in WriterState
  BY IdleType
<1>3. m \in WriterState
  BY <1>1, <1>2 DEF WriterState
<1>4. m.at = how
  BY DEF Idle
<1>5. how # "wait" /\ how \notin Known \cup {"start"}
  BY DEF Ended, Known, Opened, Locked
<1> QED BY <1>3, <1>4, <1>5

LEMMA EndOK ==
  ASSUME NEW w \in Writer, NEW how \in Ended
  PROVE  WriterOK(w, [Idle EXCEPT !.at = how])'
<1> DEFINE m == [Idle EXCEPT !.at = how]
<1>1. m.at = how
  BY EndState
<1> HIDE DEF m
<1>2. /\ how \notin Known
      /\ how \notin {"start", "open", "create", "entered", "writing"}
      /\ how \notin {"flock", "named"}
  BY DEF Ended, Known, Opened, Locked
<1>3. PlaceOK(w, m)' /\ FileOK(m)' /\ HoldOK(w, m)' /\ WaitOK(m)'
  BY <1>1, <1>2 DEF PlaceOK, FileOK, HoldOK, WaitOK, Known
<1>4. PassedOK(w, m)' /\ GateOK(w, m)'
  BY <1>1, <1>2 DEF PassedOK, GateOK, Awaits, Known, Opened, Locked
<1>5. SeenOK(m)'
  BY <1>1, <1>2 DEF SeenOK, Known, Opened, Locked
<1> QED BY <1>3, <1>4, <1>5 DEF WriterOK, m

\* Releasing w's lock keeps everyone else's.
LEMMA UnlockType ==
  ASSUME LockTypeOK, NEW w \in Writer, Unlock(w)
  PROVE  /\ flock' \in [Ident -> {NoOne} \cup ({"writer"} \X Writer) \cup ({"helper"} \X Helper)]
         /\ \A i \in Ident : \A o : flock[i] = o /\ o # <<"writer", w>> => flock'[i] = o
BY TypeFacts DEF Unlock

\* Writer w, which does not wait on a helper, gives up its lock and, if it ends,
\* its ticket.
LEMMA ReleaseKeeps ==
  ASSUME LockInv, NEW w \in Writer, NEW m \in WriterState, me' = [me EXCEPT ![w] = m],
         Unlock(w), gate' \in {gate, gate \ {w}}, ~At(w, "wait"), m.at # "wait",
         WriterOK(w, m)',
         UNCHANGED <<lockFile, used, gen, unlinks, removing, removals, helper>>,
         SimpleOK'
  PROVE  LockInv'
<1>1. LockTypeOK /\ me \in [Writer -> WriterState] /\ gate \subseteq Rebuilder
  BY TypeFacts DEF LockInv
<1>2. /\ me' \in [Writer -> WriterState] /\ me'[w] = m
      /\ \A v \in Writer : v # w => me'[v] = me[v]
  BY <1>1
<1>3. /\ flock' \in [Ident -> {NoOne} \cup ({"writer"} \X Writer) \cup ({"helper"} \X Helper)]
      /\ \A i \in Ident : \A o : flock[i] = o /\ o # <<"writer", w>> => flock'[i] = o
  BY <1>1, UnlockType
<1>4. gate' \subseteq Rebuilder /\ \A v \in Writer : v # w /\ v \in gate => v \in gate'
  BY <1>1
<1>5. LockTypeOK'
  BY <1>1, <1>2, <1>3, <1>4 DEF LockTypeOK, SimpleOK
<1>6. ASSUME NEW v \in Writer, v # w PROVE SharedKept(v, me[v])
  <2>1. /\ used \subseteq Ident /\ gen \in [Ident -> Nat] /\ unlinks \in Nat
        /\ lockFile \in Ident \cup {None}
    BY <1>1, TypeFacts
  <2> QED BY <1>3, <1>4, <1>6, <2>1 DEF SharedKept
<1>7. WriterOK(w, me[w])'
  BY <1>2
<1>8. \A v \in Writer : WriterOK(v, me[v])'
  BY <1>2, <1>6, <1>7, OthersKept
<1>9. \A h \in Helper : HelperOK(h, helper[h])'
  BY <1>3 DEF LockInv, HelperOK, LockTypeOK, HelperState
<1>10. InterestOK'
  BY <1>2 DEF LockInv, InterestOK, At
<1>11. RemovalOK' /\ OneHelperPerFile'
  BY DEF LockInv, RemovalOK, OneHelperPerFile, Waiting, Unfinished
<1> QED BY <1>5, <1>8, <1>9, <1>10, <1>11 DEF LockInv

\* The end of a writer that does not wait on a helper.
LEMMA EndKeeps ==
  ASSUME LockInv, NEW w \in Writer, NEW how \in Ended, End(w, how), ~At(w, "wait"),
         UNCHANGED <<lockFile, used, gen, unlinks, removing, removals, helper>>,
         SimpleOK'
  PROVE  LockInv'
<1> DEFINE m == [Idle EXCEPT !.at = how]
<1>1. m \in WriterState /\ m.at # "wait"
  BY EndState
<1>2. me' = [me EXCEPT ![w] = m] /\ Unlock(w) /\ gate' \in {gate, gate \ {w}}
  BY DEF End
<1>3. WriterOK(w, m)'
  BY EndOK
<1> HIDE DEF m
<1> QED BY <1>1, <1>2, <1>3, ReleaseKeeps

(***************************************************************************)
(* The steps of a writer that change only what it has in hand, or end it.  *)
(***************************************************************************)

\* A writer's record with one field changed.
LEMMA Update ==
  ASSUME NEW m \in WriterState
  PROVE  /\ \A l \in Place : [m EXCEPT !.at = l] \in WriterState
         /\ \A i \in Ident \cup {None} : [m EXCEPT !.file = i] \in WriterState
         /\ \A h \in Helper \cup {None} : [m EXCEPT !.on = h] \in WriterState
         /\ \A n \in Nat : [m EXCEPT !.opened = n] \in WriterState
         /\ \A n \in 0 .. Retries : [m EXCEPT !.tries = n] \in WriterState
         /\ \A n \in 0 .. MaxRemovals : [m EXCEPT !.passed = n] \in WriterState
         /\ \A b \in BOOLEAN : /\ [m EXCEPT !.existing = b] \in WriterState
                               /\ [m EXCEPT !.saw = b] \in WriterState
                               /\ [m EXCEPT !.seen = b] \in WriterState
                               /\ [m EXCEPT !.cancelled = b] \in WriterState
BY DEF WriterState

\* What the invariant says of w.
LEMMA InvFacts ==
  ASSUME LockInv, NEW w \in Writer
  PROVE  /\ LockTypeOK /\ SimpleOK
         /\ me \in [Writer -> WriterState] /\ me[w] \in WriterState
         /\ WriterOK(w, me[w])
BY TypeFacts, SimpleType DEF LockInv

\* The places of a daemon's iteration at which it has no more than its file in
\* hand.
LEMMA PlainPlace ==
  ASSUME NEW w \in Rebuilder, NEW m,
         m.at \in {"open", "create", "look", "gen"},
         m.at \in {"look", "gen"} => m.file \in used /\ CurrentOK(m),
         ~m.seen
  PROVE  WriterOK(w, m)
BY WriterAssumption
   DEF WriterOK, PlaceOK, FileOK, HoldOK, WaitOK, PassedOK, Awaits, GateOK, SeenOK, Known, Opened,
       Locked

LEMMA StartKeeps ==
  ASSUME LockInv, NEW w \in Writer, Start(w)
  PROVE  LockInv'
<1> DEFINE m == [me[w] EXCEPT !.existing = (content = "index"), !.at = "open"]
<1>1. me[w] \in WriterState /\ me \in [Writer -> WriterState] /\ WriterOK(w, me[w]) /\ SimpleOK
  BY InvFacts
<1>2. /\ w \in Rebuilder /\ At(w, "start")
      /\ me' = [me EXCEPT ![w] = m]
      /\ UNCHANGED <<dir, content, closed, exited, faults, lockFile, used, gen, flock, unlinks,
                     removing, removals, helper, gate>>
  BY <1>1 DEF Start, disk, removal, daemon
<1>3. m \in WriterState
  BY <1>1, Update DEF Place
<1>4. m.at = "open" /\ m.seen = me[w].seen
  BY <1>1 DEF WriterState
<1> HIDE DEF m
<1>5. WriterOK(w, m)
  BY <1>1, <1>2, <1>4, PlainPlace DEF WriterOK, SeenOK, At
<1>6. SimpleOK'
  BY <1>1, <1>2 DEF SimpleOK
<1> QED BY <1>2, <1>3, <1>4, <1>5, <1>6, MoveKeeps DEF At

LEMMA OpenExistingKeeps ==
  ASSUME LockInv, NEW w \in Writer, OpenExisting(w)
  PROVE  LockInv'
<1>1. /\ me[w] \in WriterState /\ me \in [Writer -> WriterState] /\ WriterOK(w, me[w]) /\ SimpleOK
      /\ LockTypeOK
  BY InvFacts
<1>2. /\ At(w, "open") /\ ~At(w, "wait")
      /\ UNCHANGED <<dir, content, closed, exited, faults, lockFile, used, gen, unlinks,
                     removing, removals, helper>>
  BY DEF OpenExisting, At, disk, removal, daemon
<1>3. SimpleOK'
  BY <1>1, <1>2 DEF SimpleOK
<1>4. w \in Rebuilder /\ ~me[w].seen
  BY <1>1, <1>2 DEF WriterOK, PlaceOK, SeenOK, At, Writer, Ended
<1>5. CASE End(w, "removed")
  BY <1>2, <1>3, <1>5, EndKeeps DEF Ended
<1>6. CASE /\ lockFile # None
           /\ me' = [me EXCEPT ![w].file = lockFile, ![w].passed = unlinks, ![w].at = "look"]
           /\ UNCHANGED <<flock, gate>>
  <2> DEFINE m == [me[w] EXCEPT !.file = lockFile, !.passed = unlinks, !.at = "look"]
  <2>1. m \in WriterState
    BY <1>1, Update, TypeFacts DEF Place, Opened, LockTypeOK
  <2>2. m.at = "look" /\ m.file = lockFile /\ m.passed = unlinks /\ m.seen = me[w].seen
    BY <1>1 DEF WriterState
  <2>3. me' = [me EXCEPT ![w] = m]
    BY <1>1, <1>6
  <2> HIDE DEF m
  <2>4. CurrentOK(m)
    BY <1>1, <2>2, TypeFacts DEF CurrentOK
  <2>5. WriterOK(w, m)
    BY <1>4, <1>6, <2>2, <2>4, PlainPlace DEF LockInv, RemovalOK
  <2> QED BY <1>2, <1>3, <1>6, <2>1, <2>2, <2>3, <2>5, MoveKeeps
<1>7. CASE Goto(w, "create") /\ UNCHANGED <<flock, gate>>
  <2> DEFINE m == [me[w] EXCEPT !.at = "create"]
  <2>1. m \in WriterState
    BY <1>1, Update DEF Place
  <2>2. m.at = "create" /\ m.seen = me[w].seen
    BY <1>1 DEF WriterState
  <2>3. me' = [me EXCEPT ![w] = m]
    BY <1>1, <1>7 DEF Goto
  <2> HIDE DEF m
  <2>4. WriterOK(w, m)
    BY <1>4, <2>2, PlainPlace
  <2> QED BY <1>2, <1>3, <1>7, <2>1, <2>2, <2>3, <2>4, MoveKeeps
<1> QED BY <1>5, <1>6, <1>7 DEF OpenExisting

LEMMA LookForContentKeeps ==
  ASSUME LockInv, NEW w \in Writer, LookForContent(w)
  PROVE  LockInv'
<1>1. /\ me[w] \in WriterState /\ me \in [Writer -> WriterState] /\ WriterOK(w, me[w]) /\ SimpleOK
      /\ LockTypeOK
  BY InvFacts
<1>2. /\ At(w, "look") /\ ~At(w, "wait")
      /\ UNCHANGED <<dir, content, closed, exited, faults, lockFile, used, gen, unlinks,
                     removing, removals, helper>>
  BY DEF LookForContent, At, disk, removal, daemon
<1>3. SimpleOK'
  BY <1>1, <1>2 DEF SimpleOK
<1>4. w \in Rebuilder /\ ~me[w].seen /\ me[w].file \in used /\ CurrentOK(me[w])
  BY <1>1, <1>2 DEF WriterOK, PlaceOK, SeenOK, FileOK, PassedOK, Awaits, Known, Opened, At, Writer,
                    Ended
<1>5. CASE End(w, "removed")
  BY <1>2, <1>3, <1>5, EndKeeps DEF Ended
<1>6. CASE Goto(w, "gen") /\ UNCHANGED <<flock, gate>>
  <2> DEFINE m == [me[w] EXCEPT !.at = "gen"]
  <2>1. m \in WriterState
    BY <1>1, Update DEF Place, Opened
  <2>2. /\ m.at = "gen" /\ m.file = me[w].file /\ m.seen = me[w].seen
        /\ m.passed = me[w].passed
    BY <1>1 DEF WriterState
  <2>3. me' = [me EXCEPT ![w] = m]
    BY <1>1, <1>6 DEF Goto
  <2> HIDE DEF m
  <2>4. WriterOK(w, m)
    BY <1>4, <2>2, PlainPlace DEF CurrentOK
  <2> QED BY <1>2, <1>3, <1>6, <2>1, <2>2, <2>3, <2>4, MoveKeeps
<1> QED BY <1>5, <1>6 DEF LookForContent

\* The places at which it waits, and what it has read is not yet a hold.
LEMMA ReaderPlace ==
  ASSUME NEW w \in Rebuilder, NEW m,
         m.at \in {"peek", "try", "attach"},
         m.file \in used, CurrentOK(m),
         m.passed # unlinks \/ ReadOK(m),
         m.at = "peek" => ~m.seen
  PROVE  WriterOK(w, m)
BY WriterAssumption
   DEF WriterOK, PlaceOK, FileOK, HoldOK, WaitOK, PassedOK, Awaits, GateOK, SeenOK, Known, Opened,
       Locked

\* The places at which it has the lock and no transaction.
LEMMA HeldPlace ==
  ASSUME NEW w \in Rebuilder, NEW m,
         m.at \in {"held", "built", "checked"},
         m.file \in used, flock[m.file] = <<"writer", w>>,
         m.at # "checked" => CurrentOK(m),
         m.passed # unlinks \/ (m.seen => m.saw)
  PROVE  WriterOK(w, m)
BY WriterAssumption
   DEF WriterOK, PlaceOK, FileOK, HoldOK, WaitOK, PassedOK, Awaits, GateOK, SeenOK, Known, Opened,
       Locked

LEMMA ReadGenerationKeeps ==
  ASSUME LockInv, NEW w \in Writer, ReadGeneration(w)
  PROVE  LockInv'
<1> DEFINE m == [me[w] EXCEPT !.opened = gen[me[w].file], !.at = "peek"]
<1>1. /\ me[w] \in WriterState /\ me \in [Writer -> WriterState] /\ WriterOK(w, me[w]) /\ SimpleOK
      /\ gen \in [Ident -> Nat] /\ used \subseteq Ident
  BY InvFacts, TypeFacts
<1>2. /\ At(w, "gen")
      /\ me' = [me EXCEPT ![w] = m]
      /\ UNCHANGED <<dir, content, closed, exited, faults, lockFile, used, gen, flock, unlinks,
                     removing, removals, helper, gate>>
  BY <1>1 DEF ReadGeneration, disk, removal, daemon
<1>3. w \in Rebuilder /\ ~me[w].seen /\ me[w].file \in used /\ CurrentOK(me[w])
  BY <1>1, <1>2 DEF WriterOK, PlaceOK, SeenOK, FileOK, PassedOK, Awaits, Known, Opened, At, Writer,
                    Ended
<1>4. gen[me[w].file] \in Nat
  BY <1>1, <1>3
<1>5. m \in WriterState
  BY <1>1, <1>4, Update DEF Place, Opened
<1>6. /\ m.at = "peek" /\ m.file = me[w].file /\ m.seen = me[w].seen
      /\ m.opened = gen[me[w].file] /\ m.passed = me[w].passed
  BY <1>1 DEF WriterState
<1> HIDE DEF m
<1>7. WriterOK(w, m)
  <2>1. m.opened <= gen[m.file]
    BY <1>4, <1>6
  <2>2. ~m.seen
    BY <1>3, <1>6, Zenon
  <2>3. CurrentOK(m) /\ ReadOK(m)
    BY <1>3, <1>6, <2>1, <2>2 DEF CurrentOK, ReadOK
  <2> QED BY <1>3, <1>6, <2>2, <2>3, ReaderPlace
<1>8. SimpleOK'
  BY <1>1, <1>2 DEF SimpleOK
<1> QED BY <1>2, <1>5, <1>6, <1>7, <1>8, MoveKeeps DEF At

LEMMA ReadCommittedKeeps ==
  ASSUME LockInv, NEW w \in Writer, ReadCommitted(w)
  PROVE  LockInv'
<1> DEFINE m == [me[w] EXCEPT !.saw = (content = "index"), !.seen = @ \/ content = "index",
                              !.at = "try"]
<1>1. /\ me[w] \in WriterState /\ me \in [Writer -> WriterState] /\ WriterOK(w, me[w]) /\ SimpleOK
      /\ gen \in [Ident -> Nat] /\ used \subseteq Ident
  BY InvFacts, TypeFacts
<1>2. /\ At(w, "peek")
      /\ me' = [me EXCEPT ![w] = m]
      /\ UNCHANGED <<dir, content, closed, exited, faults, lockFile, used, gen, flock, unlinks,
                     removing, removals, helper, gate>>
  BY <1>1 DEF ReadCommitted, disk, removal, daemon
<1>3. w \in Rebuilder /\ me[w].file \in used /\ CurrentOK(me[w])
  BY <1>1, <1>2 DEF WriterOK, PlaceOK, FileOK, PassedOK, Awaits, Known, Opened, At, Writer, Ended
<1>4. m \in WriterState
  BY <1>1, Update DEF Place, Opened
<1>5. /\ m.at = "try" /\ m.file = me[w].file /\ m.opened = me[w].opened /\ m.passed = me[w].passed
      /\ m.seen => me[w].seen \/ m.saw
  BY <1>1 DEF WriterState
<1> HIDE DEF m
<1>6. CurrentOK(m) /\ (m.passed # unlinks \/ ReadOK(m))
  <2>1. CurrentOK(m)
    BY <1>3, <1>5 DEF CurrentOK
  <2>2. ASSUME m.passed = unlinks PROVE ReadOK(m)
    <3>1. me[w].opened <= gen[me[w].file] /\ (me[w].seen => gen[me[w].file] > me[w].opened)
      BY <1>1, <1>2, <1>5, <2>2 DEF WriterOK, SeenOK, ReadOK, At
    <3>2. m.opened <= gen[m.file] /\ (me[w].seen => gen[m.file] > m.opened)
      BY <1>5, <3>1
    <3> QED BY <1>5, <3>2, Zenon DEF ReadOK
  <2> QED BY <2>1, <2>2
<1>7. WriterOK(w, m)
  BY <1>3, <1>5, <1>6, ReaderPlace
<1>8. SimpleOK'
  BY <1>1, <1>2 DEF SimpleOK
<1> QED BY <1>2, <1>4, <1>5, <1>7, <1>8, MoveKeeps DEF At

\* Writer w takes the lock of a file that is free.
LEMMA GainKeeps ==
  ASSUME LockInv, NEW w \in Writer, NEW m \in WriterState, NEW f \in Ident,
         me' = [me EXCEPT ![w] = m],
         flock[f] = NoOne, flock' = [flock EXCEPT ![f] = <<"writer", w>>],
         ~At(w, "wait"), m.at # "wait", WriterOK(w, m)',
         UNCHANGED <<lockFile, used, gen, unlinks, removing, removals, helper, gate>>,
         SimpleOK'
  PROVE  LockInv'
<1>1. LockTypeOK /\ me \in [Writer -> WriterState]
  BY TypeFacts DEF LockInv
<1>2. /\ me' \in [Writer -> WriterState] /\ me'[w] = m
      /\ \A v \in Writer : v # w => me'[v] = me[v]
  BY <1>1
<1>3. /\ flock' \in [Ident -> {NoOne} \cup ({"writer"} \X Writer) \cup ({"helper"} \X Helper)]
      /\ \A i \in Ident : \A o : flock[i] = o /\ o # NoOne => flock'[i] = o
  BY <1>1, TypeFacts
<1>4. \A o : <<"writer", o>> # NoOne /\ <<"helper", o>> # NoOne
  BY DEF NoOne
<1>5. LockTypeOK'
  BY <1>1, <1>2, <1>3 DEF LockTypeOK, SimpleOK
<1>6. ASSUME NEW v \in Writer, v # w PROVE SharedKept(v, me[v])
  <2>1. /\ used \subseteq Ident /\ gen \in [Ident -> Nat] /\ unlinks \in Nat
        /\ lockFile \in Ident \cup {None}
    BY <1>1, TypeFacts
  <2> QED BY <1>3, <1>4, <2>1 DEF SharedKept
<1>7. WriterOK(w, me[w])'
  BY <1>2
<1>8. \A v \in Writer : WriterOK(v, me[v])'
  BY <1>2, <1>6, <1>7, OthersKept
<1>9. \A h \in Helper : HelperOK(h, helper[h])'
  BY <1>3, <1>4 DEF LockInv, HelperOK, LockTypeOK, HelperState
<1>10. InterestOK'
  BY <1>2 DEF LockInv, InterestOK, At
<1>11. RemovalOK' /\ OneHelperPerFile'
  BY DEF LockInv, RemovalOK, OneHelperPerFile, Waiting, Unfinished
<1> QED BY <1>5, <1>8, <1>9, <1>10, <1>11 DEF LockInv

LEMMA TryKeeps ==
  ASSUME LockInv, NEW w \in Writer, Try(w)
  PROVE  LockInv'
<1>1. /\ me[w] \in WriterState /\ me \in [Writer -> WriterState] /\ WriterOK(w, me[w]) /\ SimpleOK
      /\ LockTypeOK
  BY InvFacts
<1>2. /\ At(w, "try") /\ ~At(w, "wait")
      /\ UNCHANGED <<dir, content, closed, exited, faults, lockFile, used, gen, unlinks,
                     removing, removals, helper, gate>>
  BY DEF Try, At, disk, removal, daemon
<1>3. SimpleOK'
  BY <1>1, <1>2 DEF SimpleOK
<1>4. w \in Rebuilder /\ me[w].file \in used /\ me[w].file \in Ident
  BY <1>1, <1>2, TypeFacts DEF WriterOK, PlaceOK, FileOK, Known, Opened, At, Writer, Ended
<1>5. CurrentOK(me[w]) /\ (me[w].passed # unlinks \/ ReadOK(me[w]))
  BY <1>1, <1>2 DEF WriterOK, SeenOK, PassedOK, Awaits, At
<1>6. CASE Goto(w, "attach") /\ UNCHANGED flock
  <2> DEFINE m == [me[w] EXCEPT !.at = "attach"]
  <2>1. m \in WriterState
    BY <1>1, Update DEF Place
  <2>2. /\ m.at = "attach" /\ m.file = me[w].file /\ m.seen = me[w].seen
        /\ m.saw = me[w].saw /\ m.opened = me[w].opened /\ m.passed = me[w].passed
    BY <1>1 DEF WriterState
  <2>3. me' = [me EXCEPT ![w] = m]
    BY <1>1, <1>6 DEF Goto
  <2> HIDE DEF m
  <2>4. WriterOK(w, m)
    BY <1>4, <1>5, <2>2, ReaderPlace DEF CurrentOK, ReadOK
  <2> QED BY <1>2, <1>3, <1>6, <2>1, <2>2, <2>3, <2>4, MoveKeeps
<1>7. CASE /\ flock[me[w].file] = NoOne
           /\ flock' = [flock EXCEPT ![me[w].file] = <<"writer", w>>] /\ Goto(w, "arrived")
  <2>1. PICK m \in WriterState : m = [me[w] EXCEPT !.at = "arrived"]
    BY <1>1, Update DEF Place, Locked
  <2>2. /\ m.at = "arrived" /\ m.file = me[w].file /\ m.seen = me[w].seen
        /\ m.saw = me[w].saw /\ m.opened = me[w].opened /\ m.passed = me[w].passed
    BY <1>1, <2>1 DEF WriterState
  <2>3. me' = [me EXCEPT ![w] = m]
    BY <1>1, <1>7, <2>1 DEF Goto
  <2>4. flock'[m.file] = <<"writer", w>>
    BY <1>1, <1>4, <1>7, <2>2, TypeFacts
  <2>5. PlaceOK(w, m)' /\ FileOK(m)' /\ HoldOK(w, m)' /\ WaitOK(m)'
    BY <1>2, <1>4, <2>2, <2>4, WriterAssumption DEF PlaceOK, FileOK, HoldOK, WaitOK
  <2>6. PassedOK(w, m)' /\ GateOK(w, m)' /\ SeenOK(m)'
    BY <1>2, <1>5, <2>2 DEF PassedOK, CurrentOK, GateOK, SeenOK, ReadOK
  <2>7. WriterOK(w, m)'
    BY <2>5, <2>6 DEF WriterOK
  <2> QED BY <1>2, <1>3, <1>4, <1>7, <2>1, <2>2, <2>3, <2>7, GainKeeps
<1> QED BY <1>6, <1>7 DEF Try

LEMMA FlockOtherKeeps ==
  ASSUME LockInv, NEW w \in Writer, FlockOther(w)
  PROVE  LockInv'
<1>1. /\ me[w] \in WriterState /\ me \in [Writer -> WriterState] /\ WriterOK(w, me[w]) /\ SimpleOK
      /\ LockTypeOK
  BY InvFacts
<1>2. /\ At(w, "flock") /\ ~At(w, "wait")
      /\ UNCHANGED <<dir, content, closed, exited, faults, lockFile, used, gen, unlinks,
                     removing, removals, helper, gate>>
      /\ flock[me[w].file] = NoOne /\ flock' = [flock EXCEPT ![me[w].file] = <<"writer", w>>]
      /\ me' = [me EXCEPT ![w].at = "named"]
  BY <1>1 DEF FlockOther, At, disk, removal, daemon, Goto
<1>3. SimpleOK'
  BY <1>1, <1>2 DEF SimpleOK
<1>4. w \notin Rebuilder /\ me[w].tries < Retries /\ me[w].file \in used /\ me[w].file \in Ident
  BY <1>1, <1>2, TypeFacts DEF WriterOK, PlaceOK, FileOK, Known, Opened, At, Writer
<1>5. PICK m \in WriterState : m = [me[w] EXCEPT !.at = "named"]
  BY <1>1, Update DEF Place, Locked
<1>6. m.at = "named" /\ m.file = me[w].file /\ m.tries = me[w].tries /\ me' = [me EXCEPT ![w] = m]
  BY <1>1, <1>2, <1>5 DEF WriterState
<1>7. flock'[m.file] = <<"writer", w>>
  BY <1>1, <1>2, <1>4, <1>6, TypeFacts
<1>8. PlaceOK(w, m)' /\ FileOK(m)' /\ HoldOK(w, m)' /\ WaitOK(m)'
  BY <1>2, <1>4, <1>6, <1>7, BoundsAssumption DEF PlaceOK, FileOK, HoldOK, WaitOK
<1>9. PassedOK(w, m)' /\ GateOK(w, m)' /\ SeenOK(m)'
  BY <1>6 DEF PassedOK, Awaits, GateOK, SeenOK
<1>10. WriterOK(w, m)'
  BY <1>8, <1>9 DEF WriterOK
<1> QED BY <1>2, <1>3, <1>4, <1>5, <1>6, <1>10, GainKeeps

\* Where only the daemon's iterations come.
LEMMA HolderFacts ==
  ASSUME LockInv, NEW w \in Writer, me[w].at \in {"arrived", "held", "built", "checked"}
  PROVE  /\ w \in Rebuilder /\ me[w].file \in used
         /\ flock[me[w].file] = <<"writer", w>>
         /\ me[w].at # "checked" => CurrentOK(me[w])
BY InvFacts DEF WriterOK, PlaceOK, FileOK, HoldOK, PassedOK, Awaits, Known, Locked, Writer, Ended

LEMMA RecoveredType ==
  ASSUME SimpleOK, Recovered \/ UNCHANGED content, UNCHANGED <<dir, closed, exited, faults>>
  PROVE  SimpleOK'
BY DEF SimpleOK, Recovered

LEMMA ArrivedKeeps ==
  ASSUME LockInv, NEW w \in Writer, Arrived(w)
  PROVE  LockInv'
<1>1. /\ me[w] \in WriterState /\ me \in [Writer -> WriterState] /\ WriterOK(w, me[w]) /\ SimpleOK
      /\ LockTypeOK
  BY InvFacts
<1>2. /\ At(w, "arrived") /\ ~At(w, "wait")
      /\ UNCHANGED <<dir, closed, exited, faults, lockFile, used, gen, unlinks,
                     removing, removals, helper>>
  BY DEF Arrived, At, removal, daemon
<1>3. SimpleOK'
  <2>1. Recovered \/ UNCHANGED content
    BY DEF Arrived, Hold
  <2> QED BY <1>1, <1>2, <2>1, RecoveredType
<1>4. w \in Rebuilder /\ me[w].file \in used /\ flock[me[w].file] = <<"writer", w>>
  BY <1>2, HolderFacts DEF At
<1>5. CASE End(w, "removed") \/ End(w, "cancelled")
  BY <1>2, <1>3, <1>5, EndKeeps DEF Ended
<1>6. CASE /\ me' = [me EXCEPT ![w].saw = @ \/ gen[me[w].file] > me[w].opened \/ content = "index",
                               ![w].opened = 0,
                               ![w].seen = @ \/ content = "index",
                               ![w].at = "held"]
           /\ UNCHANGED <<flock, gate>>
  <2> DEFINE m == [me[w] EXCEPT !.saw = @ \/ gen[me[w].file] > me[w].opened \/ content = "index",
                                !.opened = 0, !.seen = @ \/ content = "index", !.at = "held"]
  <2>1. m \in WriterState
    <3>1. (me[w].saw \/ gen[me[w].file] > me[w].opened \/ content = "index") \in BOOLEAN
      OBVIOUS
    <3>2. (me[w].seen \/ content = "index") \in BOOLEAN
      OBVIOUS
    <3> QED BY <1>1, <3>1, <3>2, Update DEF Place, Locked
  <2>2. me' = [me EXCEPT ![w] = m]
    BY <1>1, <1>6
  <2>3. /\ m.at = "held" /\ m.file = me[w].file /\ m.passed = me[w].passed
        /\ m.saw = (me[w].saw \/ gen[me[w].file] > me[w].opened \/ content = "index")
        /\ m.seen = (me[w].seen \/ content = "index")
    BY <1>1 DEF WriterState
  <2> HIDE DEF m
  <2>4. m.passed # unlinks \/ (m.seen => m.saw)
    <3>1. me[w].passed # unlinks \/ (me[w].seen => me[w].saw \/ gen[me[w].file] > me[w].opened)
      BY <1>1, <1>2 DEF WriterOK, SeenOK, ReadOK, At
    <3> QED BY <2>3, <3>1, Zenon
  <2>5. CurrentOK(m)
    BY <1>2, <2>3, HolderFacts DEF At, CurrentOK
  <2>6. WriterOK(w, m)
    BY <1>4, <2>3, <2>4, <2>5, HeldPlace
  <2> QED BY <1>2, <1>3, <1>6, <2>1, <2>2, <2>3, <2>6, MoveKeeps
<1> QED BY <1>5, <1>6 DEF Arrived, Hold

LEMMA CheckKeeps ==
  ASSUME LockInv, NEW w \in Writer, Check(w)
  PROVE  LockInv'
<1>1. /\ me[w] \in WriterState /\ me \in [Writer -> WriterState] /\ WriterOK(w, me[w]) /\ SimpleOK
  BY InvFacts
<1>2. /\ At(w, "held") /\ ~At(w, "wait")
      /\ UNCHANGED <<dir, content, closed, exited, faults, lockFile, used, gen, unlinks,
                     removing, removals, helper>>
  BY DEF Check, At, disk, removal, daemon
<1>3. SimpleOK'
  BY <1>1, <1>2 DEF SimpleOK
<1>4. w \in Rebuilder /\ me[w].file \in used /\ flock[me[w].file] = <<"writer", w>>
  BY <1>2, HolderFacts DEF At
<1>5. CASE End(w, "removed") \/ End(w, "cancelled") \/ End(w, "failed")
  BY <1>2, <1>3, <1>5, EndKeeps DEF Ended
<1>6. CASE Goto(w, "built") /\ UNCHANGED <<flock, gate>>
  <2> DEFINE m == [me[w] EXCEPT !.at = "built"]
  <2>1. m \in WriterState
    BY <1>1, Update DEF Place, Locked
  <2>2. /\ m.at = "built" /\ m.file = me[w].file /\ m.seen = me[w].seen /\ m.saw = me[w].saw
        /\ m.passed = me[w].passed
    BY <1>1 DEF WriterState
  <2>3. me' = [me EXCEPT ![w] = m]
    BY <1>1, <1>6 DEF Goto
  <2> HIDE DEF m
  <2>4. m.passed # unlinks \/ (m.seen => m.saw)
    BY <1>1, <1>2, <2>2 DEF WriterOK, SeenOK, At
  <2>5. CurrentOK(m)
    BY <1>2, <2>2, HolderFacts DEF At, CurrentOK
  <2>6. WriterOK(w, m)
    BY <1>4, <2>2, <2>4, <2>5, HeldPlace
  <2> QED BY <1>2, <1>3, <1>6, <2>1, <2>2, <2>3, <2>6, MoveKeeps
<1> QED BY <1>5, <1>6 DEF Check, Refuse

LEMMA CheckAgainKeeps ==
  ASSUME LockInv, NEW w \in Writer, CheckAgain(w)
  PROVE  LockInv'
<1>1. /\ me[w] \in WriterState /\ me \in [Writer -> WriterState] /\ WriterOK(w, me[w]) /\ SimpleOK
  BY InvFacts
<1>2. /\ At(w, "built") /\ ~At(w, "wait")
      /\ UNCHANGED <<dir, content, closed, exited, faults, lockFile, used, gen, unlinks,
                     removing, removals, helper>>
  BY DEF CheckAgain, At, disk, removal, daemon
<1>3. SimpleOK'
  BY <1>1, <1>2 DEF SimpleOK
<1>4. w \in Rebuilder /\ me[w].file \in used /\ flock[me[w].file] = <<"writer", w>>
  BY <1>2, HolderFacts DEF At
<1>5. CASE End(w, "removed") \/ End(w, "cancelled")
  BY <1>2, <1>3, <1>5, EndKeeps DEF Ended
<1>6. CASE /\ me' = [me EXCEPT ![w] = [Idle EXCEPT !.file = me[w].file, !.at = "checked"]]
           /\ UNCHANGED <<flock, gate>>
  <2> DEFINE m == [Idle EXCEPT !.file = me[w].file, !.at = "checked"]
  <2>1. m \in WriterState
    <3>1. Idle \in WriterState
      BY IdleType
    <3>2. me[w].file \in Ident \cup {None}
      BY <1>1 DEF WriterState
    <3> QED BY <3>1, <3>2, Update DEF Place, Locked
  <2>2. m.at = "checked" /\ m.file = me[w].file /\ m.seen = FALSE
    BY DEF Idle
  <2>3. me' = [me EXCEPT ![w] = m]
    BY <1>6
  <2> HIDE DEF m
  <2>4. WriterOK(w, m)
    BY <1>4, <2>2, HeldPlace
  <2> QED BY <1>2, <1>3, <1>6, <2>1, <2>2, <2>3, <2>4, MoveKeeps
<1> QED BY <1>5, <1>6 DEF CheckAgain, Refuse

\* A transaction that begins has found its hold current, or did when it took it.
LEMMA BeginKeeps ==
  ASSUME LockInv, NEW w \in Writer, Begin(w)
  PROVE  LockInv'
<1>1. /\ me[w] \in WriterState /\ me \in [Writer -> WriterState] /\ WriterOK(w, me[w]) /\ SimpleOK
      /\ LockTypeOK
  BY InvFacts
<1>2. /\ At(w, "entered") /\ ~At(w, "wait")
      /\ UNCHANGED <<dir, closed, exited, faults, lockFile, used, gen, unlinks,
                     removing, removals, helper>>
  BY DEF Begin, At, removal, daemon
<1>3. SimpleOK'
  <2>1. content' \in {content, "leftover"}
    BY DEF Begin
  <2> QED BY <1>1, <1>2, <2>1 DEF SimpleOK
<1>4. me[w].file \in used /\ flock[me[w].file] = <<"writer", w>> /\ (w \in Rebuilder => w \in gate)
  BY <1>1, <1>2 DEF WriterOK, FileOK, HoldOK, GateOK, Known, Locked, At
<1>5. CASE End(w, "removed") \/ End(w, "failed")
  BY <1>2, <1>3, <1>5, EndKeeps DEF Ended
<1>6. CASE /\ w \in Rebuilder => Matches(w)
           /\ me' = [me EXCEPT ![w].at = "writing",
                               ![w].passed = IF w \in Rebuilder THEN unlinks ELSE @]
           /\ UNCHANGED <<flock, gate>>
  <2> DEFINE p == IF w \in Rebuilder THEN unlinks ELSE me[w].passed
             m == [me[w] EXCEPT !.at = "writing", !.passed = p]
  <2>1. p \in 0 .. MaxRemovals
    BY <1>1 DEF LockTypeOK, WriterState
  <2>2. m.at = "writing" /\ m.file = me[w].file /\ m.passed = p
    BY <1>1 DEF WriterState
  <2>3. me' = [me EXCEPT ![w] = m]
    BY <1>1, <1>6
  <2>4. p <= unlinks /\ (p = unlinks => lockFile = me[w].file)
    <3>1. unlinks \in Nat
      BY <1>1, TypeFacts
    <3>2. CASE w \in Rebuilder
      BY <1>6, <3>1, <3>2 DEF Matches
    <3>3. CASE w \notin Rebuilder
      BY <1>1, <1>2, <3>3 DEF WriterOK, PassedOK, CurrentOK, At, Writer
    <3> QED BY <3>2, <3>3
  <2> HIDE DEF p
  <2>5. m \in WriterState
    BY <1>1, <2>1, Update DEF Place, Locked
  <2> HIDE DEF m
  <2>6. PlaceOK(w, m) /\ FileOK(m) /\ HoldOK(w, m) /\ WaitOK(m)
    BY <1>4, <2>2 DEF PlaceOK, FileOK, HoldOK, WaitOK
  <2>7. PassedOK(w, m) /\ GateOK(w, m) /\ SeenOK(m)
    BY <1>4, <2>2, <2>4 DEF PassedOK, CurrentOK, GateOK, SeenOK
  <2>8. WriterOK(w, m)
    BY <2>6, <2>7 DEF WriterOK
  <2> QED BY <1>2, <1>3, <1>6, <2>2, <2>3, <2>5, <2>8, MoveKeeps
<1> QED BY <1>5, <1>6 DEF Begin

LEMMA FailKeeps ==
  ASSUME LockInv, NEW w \in Writer, Fail(w)
  PROVE  LockInv'
<1>1. SimpleOK
  BY InvFacts
<1>2. /\ ~At(w, "wait") /\ End(w, "failed") /\ Recovered
      /\ UNCHANGED <<dir, closed, exited, faults, lockFile, used, gen, unlinks,
                     removing, removals, helper>>
  BY DEF Fail, At, removal, daemon
<1>3. SimpleOK'
  BY <1>1, <1>2, RecoveredType
<1> QED BY <1>2, <1>3, EndKeeps DEF Ended

LEMMA DieKeeps ==
  ASSUME LockInv, NEW w \in Writer, Die(w)
  PROVE  LockInv'
<1>1. SimpleOK
  BY InvFacts
<1>2. /\ ~At(w, "wait") /\ End(w, "dead")
      /\ UNCHANGED <<dir, content, closed, exited, faults, lockFile, used, gen, unlinks,
                     removing, removals, helper>>
  BY DEF Die, At, Opened, Locked, disk, removal, daemon
<1>3. SimpleOK'
  BY <1>1, <1>2 DEF SimpleOK
<1> QED BY <1>2, <1>3, EndKeeps DEF Ended

\* A cancellation leaves the iteration where it is.
LEMMA CancelKeeps ==
  ASSUME LockInv, NEW w \in Writer, Cancel(w)
  PROVE  LockInv'
<1> DEFINE m == [me[w] EXCEPT !.cancelled = TRUE]
<1>1. me[w] \in WriterState /\ me \in [Writer -> WriterState] /\ WriterOK(w, me[w]) /\ SimpleOK
  BY InvFacts
<1>2. /\ me' = [me EXCEPT ![w] = m]
      /\ UNCHANGED <<dir, content, closed, exited, faults, lockFile, used, gen, flock, unlinks,
                     removing, removals, helper, gate>>
  BY <1>1 DEF Cancel, disk, removal, daemon
<1>3. m \in WriterState
  BY <1>1, Update
<1>4. /\ m.at = me[w].at /\ m.on = me[w].on /\ m.file = me[w].file /\ m.opened = me[w].opened
      /\ m.saw = me[w].saw /\ m.seen = me[w].seen /\ m.passed = me[w].passed
      /\ m.tries = me[w].tries
  BY <1>1 DEF WriterState
<1> HIDE DEF m
<1>5. WriterOK(w, m)
  <2>1. PlaceOK(w, m) /\ FileOK(m) /\ HoldOK(w, m) /\ WaitOK(m)
    BY <1>1, <1>4 DEF WriterOK, PlaceOK, FileOK, HoldOK, WaitOK
  <2>2. PassedOK(w, m) /\ GateOK(w, m) /\ SeenOK(m)
    BY <1>1, <1>4 DEF WriterOK, PassedOK, CurrentOK, GateOK, SeenOK, ReadOK
  <2> QED BY <2>1, <2>2 DEF WriterOK
<1>6. SimpleOK'
  BY <1>1, <1>2 DEF SimpleOK
<1> QED BY <1>2, <1>3, <1>4, <1>5, <1>6, MoveKeeps DEF At

\* Another process goes on with the lock of the file the path names, or drops
\* it and starts over.
LEMMA NamedOtherKeeps ==
  ASSUME LockInv, NEW w \in Writer, NamedOther(w)
  PROVE  LockInv'
<1>1. /\ me[w] \in WriterState /\ me \in [Writer -> WriterState] /\ WriterOK(w, me[w]) /\ SimpleOK
      /\ LockTypeOK
  BY InvFacts
<1>2. /\ At(w, "named") /\ ~At(w, "wait")
      /\ UNCHANGED <<dir, closed, exited, faults, lockFile, used, gen, unlinks,
                     removing, removals, helper, gate>>
  BY DEF NamedOther, At, removal, daemon
<1>3. SimpleOK'
  <2>1. Recovered \/ UNCHANGED content
    BY DEF NamedOther
  <2> QED BY <1>1, <1>2, <2>1, RecoveredType
<1>4. /\ w \notin Rebuilder /\ me[w].tries < Retries
      /\ me[w].file \in used /\ flock[me[w].file] = <<"writer", w>>
  BY <1>1, <1>2 DEF WriterOK, PlaceOK, FileOK, HoldOK, Known, Locked, At, Writer
<1>5. CASE /\ Matches(w)
           /\ me' = [me EXCEPT ![w].passed = unlinks, ![w].at = "entered"]
           /\ UNCHANGED flock
  <2> DEFINE m == [me[w] EXCEPT !.passed = unlinks, !.at = "entered"]
  <2>1. m \in WriterState
    BY <1>1, Update DEF LockTypeOK, Place, Locked
  <2>2. m.at = "entered" /\ m.file = me[w].file /\ m.passed = unlinks
    BY <1>1 DEF WriterState
  <2>3. me' = [me EXCEPT ![w] = m]
    BY <1>1, <1>5
  <2> HIDE DEF m
  <2>4. PlaceOK(w, m) /\ FileOK(m) /\ HoldOK(w, m) /\ WaitOK(m)
    BY <1>4, <2>2 DEF PlaceOK, FileOK, HoldOK, WaitOK
  <2>5. PassedOK(w, m)
    BY <1>1, <1>5, <2>2, TypeFacts DEF PassedOK, CurrentOK, Matches
  <2>6. GateOK(w, m) /\ SeenOK(m)
    BY <1>4, <2>2 DEF GateOK, SeenOK
  <2>7. WriterOK(w, m)
    BY <2>4, <2>5, <2>6 DEF WriterOK
  <2> QED BY <1>2, <1>3, <1>5, <2>1, <2>2, <2>3, <2>7, MoveKeeps
<1>6. CASE /\ Unlock(w)
           /\ me' = [me EXCEPT ![w] = [Idle EXCEPT
                       !.tries = me[w].tries + 1,
                       !.at = IF me[w].tries + 1 = Retries THEN "unstable" ELSE "start"]]
  <2>1. PICK m : m = [Idle EXCEPT
          !.tries = me[w].tries + 1,
          !.at = IF me[w].tries + 1 = Retries THEN "unstable" ELSE "start"]
    OBVIOUS
  <2>2. /\ m.at \in {"unstable", "start"} /\ m.seen = FALSE
        /\ m.tries = me[w].tries + 1 /\ (m.at = "start" => m.tries # Retries)
    BY <2>1 DEF Idle
  <2>3. me[w].tries + 1 \in 0 .. Retries
    BY <1>1, <1>4, BoundsAssumption DEF WriterState
  <2>4. m \in WriterState
    BY <2>1, <2>3, IdleType, Update DEF Place, Ended
  <2>5. m.at = "start" => m.tries < Retries
    BY <2>2, <2>3, BoundsAssumption
  <2>6. PlaceOK(w, m)' /\ FileOK(m)' /\ HoldOK(w, m)' /\ WaitOK(m)'
    BY <1>4, <2>2, <2>5 DEF PlaceOK, FileOK, HoldOK, WaitOK, Known, Opened, Locked, Ended
  <2>7. PassedOK(w, m)' /\ GateOK(w, m)' /\ SeenOK(m)'
    BY <2>2 DEF PassedOK, Awaits, GateOK, SeenOK
  <2>8. WriterOK(w, m)'
    BY <2>6, <2>7 DEF WriterOK
  <2> QED BY <1>2, <1>3, <1>6, <2>1, <2>2, <2>4, <2>8, ReleaseKeeps
<1> QED BY <1>5, <1>6 DEF NamedOther

(***************************************************************************)
(* The steps of a writer that change the lock file, the commits recorded   *)
(* on it or the gate.                                                      *)
(***************************************************************************)

LEMMA EnterKeeps ==
  ASSUME LockInv, NEW w \in Writer, Enter(w)
  PROVE  LockInv'
<1>1. /\ me[w] \in WriterState /\ me \in [Writer -> WriterState] /\ WriterOK(w, me[w]) /\ SimpleOK
      /\ LockTypeOK
  BY InvFacts
<1>2. /\ At(w, "checked") /\ ~At(w, "wait")
      /\ UNCHANGED <<dir, content, closed, exited, faults, lockFile, used, gen, unlinks,
                     removing, removals, helper>>
  BY DEF Enter, At, disk, removal, daemon
<1>3. SimpleOK'
  BY <1>1, <1>2 DEF SimpleOK
<1>4. w \in Rebuilder /\ me[w].file \in used /\ flock[me[w].file] = <<"writer", w>>
  BY <1>2, HolderFacts DEF At
<1>5. CASE End(w, "removed") \/ End(w, "refused")
  BY <1>2, <1>3, <1>5, EndKeeps DEF Ended
<1>6. CASE gate' = gate \cup {w} /\ Goto(w, "entered") /\ UNCHANGED flock
  <2>1. PICK m \in WriterState : m = [me[w] EXCEPT !.at = "entered"]
    BY <1>1, Update DEF Place, Locked
  <2>2. m.at = "entered" /\ m.file = me[w].file
    BY <1>1, <2>1 DEF WriterState
  <2>3. me' = [me EXCEPT ![w] = m]
    BY <1>1, <1>6, <2>1 DEF Goto
  <2>4. /\ me' \in [Writer -> WriterState] /\ me'[w] = m
        /\ \A v \in Writer : v # w => me'[v] = me[v]
    BY <1>1, <2>3
  <2>5. PlaceOK(w, m)' /\ FileOK(m)' /\ HoldOK(w, m)' /\ WaitOK(m)'
    BY <1>2, <1>4, <1>6, <2>2, WriterAssumption DEF PlaceOK, FileOK, HoldOK, WaitOK
  <2>6. PassedOK(w, m)' /\ GateOK(w, m)' /\ SeenOK(m)'
    BY <1>4, <1>6, <2>2, WriterAssumption DEF PassedOK, Awaits, GateOK, SeenOK
  <2>7. WriterOK(w, me[w])'
    BY <2>4, <2>5, <2>6 DEF WriterOK
  <2>8. ASSUME NEW v \in Writer PROVE SharedKept(v, me[v])
    BY <1>1, <1>2, <1>6, TypeFacts DEF SharedKept
  <2>9. \A v \in Writer : WriterOK(v, me[v])'
    BY <2>4, <2>7, <2>8, OthersKept
  <2>10. LockTypeOK'
    BY <1>1, <1>2, <1>3, <1>4, <1>6, <2>4 DEF LockTypeOK, SimpleOK
  <2>11. \A h \in Helper : HelperOK(h, helper[h])'
    BY <1>2, <1>6 DEF LockInv, HelperOK
  <2>12. InterestOK'
    BY <1>2, <2>2, <2>4 DEF LockInv, InterestOK, At
  <2>13. RemovalOK' /\ OneHelperPerFile'
    BY <1>2 DEF LockInv, RemovalOK, OneHelperPerFile, Waiting, Unfinished
  <2> QED BY <2>9, <2>10, <2>11, <2>12, <2>13 DEF LockInv
<1> QED BY <1>5, <1>6 DEF Enter

\* The lock file opened, or made where there is none, is the one the path
\* names; the commits on a file that has the name are kept.
LEMMA OpenOrCreateKeeps ==
  ASSUME LockInv, NEW w \in Writer, NEW l \in {"gen", "look", "flock"}, OpenOrCreate(w, l),
         w \in Rebuilder <=> l # "flock",
         w \in Other => me[w].tries < Retries,
         ~At(w, "wait"), ~me[w].seen,
         UNCHANGED <<flock, unlinks, removing, removals, helper, gate>>,
         SimpleOK'
  PROVE  LockInv'
<1>1. /\ me[w] \in WriterState /\ me \in [Writer -> WriterState] /\ WriterOK(w, me[w])
      /\ LockTypeOK
  BY InvFacts
<1>2. /\ lockFile \in Ident \cup {None} /\ used \subseteq Ident /\ gen \in [Ident -> Nat]
      /\ unlinks \in Nat
  BY <1>1, TypeFacts
<1>3. PICK i \in IF lockFile = None THEN Fresh ELSE {lockFile} :
        /\ me' = [me EXCEPT ![w].file = i, ![w].passed = unlinks, ![w].at = l]
        /\ lockFile' = i
        /\ used' = used \cup {i}
        /\ gen' = IF lockFile = None THEN [gen EXCEPT ![i] = 0] ELSE gen
  BY DEF OpenOrCreate
<1>4. i \in Ident
  BY <1>2, <1>3 DEF Fresh
<1>5. gen' \in [Ident -> Nat] /\ (lockFile # None => gen' = gen)
  BY <1>2, <1>3, <1>4
<1>6. PICK m \in WriterState : m = [me[w] EXCEPT !.file = i, !.passed = unlinks, !.at = l]
  BY <1>1, <1>4, Update DEF Place, Opened, LockTypeOK
<1>7. /\ m.at = l /\ m.file = i /\ m.passed = unlinks
      /\ m.seen = me[w].seen /\ m.tries = me[w].tries
  BY <1>1, <1>6 DEF WriterState
<1>8. me' = [me EXCEPT ![w] = m]
  BY <1>1, <1>3, <1>6
<1>9. /\ me' \in [Writer -> WriterState] /\ me'[w] = m
      /\ \A v \in Writer : v # w => me'[v] = me[v]
  BY <1>1, <1>8
<1>10. i \in used' /\ lockFile' = i
  BY <1>3
<1>11. PlaceOK(w, m)' /\ FileOK(m)' /\ HoldOK(w, m)' /\ WaitOK(m)'
  BY <1>7, <1>10, WriterAssumption DEF PlaceOK, FileOK, HoldOK, WaitOK, Locked
<1>12. PassedOK(w, m)' /\ GateOK(w, m)' /\ SeenOK(m)'
  BY <1>2, <1>7, <1>10 DEF PassedOK, CurrentOK, GateOK, SeenOK
<1>13. WriterOK(w, me[w])'
  BY <1>9, <1>11, <1>12 DEF WriterOK
<1>14. ASSUME NEW v \in Writer PROVE SharedKept(v, me[v])
  BY <1>2, <1>3, <1>5 DEF SharedKept
<1>15. \A v \in Writer : WriterOK(v, me[v])'
  BY <1>9, <1>13, <1>14, OthersKept
<1>16. LockTypeOK'
  BY <1>1, <1>3, <1>4, <1>5, <1>9 DEF LockTypeOK, SimpleOK
<1>17. \A h \in Helper : HelperOK(h, helper[h])'
  BY DEF LockInv, HelperOK
<1>18. InterestOK'
  BY <1>7, <1>9 DEF LockInv, InterestOK, At
<1>19. RemovalOK' /\ OneHelperPerFile'
  BY <1>10 DEF LockInv, RemovalOK, OneHelperPerFile, Waiting, Unfinished
<1> QED BY <1>15, <1>16, <1>17, <1>18, <1>19 DEF LockInv

LEMMA OpenCreatingKeeps ==
  ASSUME LockInv, NEW w \in Writer, OpenCreating(w)
  PROVE  LockInv'
<1>1. WriterOK(w, me[w]) /\ SimpleOK
  BY InvFacts
<1>2. /\ At(w, "open") /\ ~At(w, "wait") /\ OpenOrCreate(w, "gen") /\ dir' = TRUE
      /\ UNCHANGED <<content, closed, exited, faults, flock, unlinks, removing, removals,
                     helper, gate>>
  BY DEF OpenCreating, At, removal, daemon
<1>3. w \in Rebuilder /\ w \notin Other /\ ~me[w].seen
  BY <1>1, <1>2, WriterAssumption DEF WriterOK, PlaceOK, SeenOK, At, Writer, Ended
<1>4. SimpleOK'
  BY <1>1, <1>2 DEF SimpleOK
<1> QED BY <1>2, <1>3, <1>4, OpenOrCreateKeeps

LEMMA CreateExistingKeeps ==
  ASSUME LockInv, NEW w \in Writer, CreateExisting(w)
  PROVE  LockInv'
<1>1. WriterOK(w, me[w]) /\ SimpleOK
  BY InvFacts
<1>2. /\ At(w, "create") /\ ~At(w, "wait")
      /\ UNCHANGED <<dir, content, closed, exited, faults, unlinks, removing, removals, helper>>
  BY DEF CreateExisting, At, removal, daemon
<1>3. w \in Rebuilder /\ w \notin Other /\ ~me[w].seen
  BY <1>1, <1>2, WriterAssumption DEF WriterOK, PlaceOK, SeenOK, At, Writer, Ended
<1>4. SimpleOK'
  BY <1>1, <1>2 DEF SimpleOK
<1>5. CASE OpenOrCreate(w, "look") /\ UNCHANGED <<flock, gate>>
  BY <1>2, <1>3, <1>4, <1>5, OpenOrCreateKeeps
<1>6. CASE End(w, "removed") /\ UNCHANGED <<lockFile, used, gen>>
  BY <1>2, <1>4, <1>6, EndKeeps DEF Ended
<1> QED BY <1>5, <1>6 DEF CreateExisting

LEMMA OpenOtherKeeps ==
  ASSUME LockInv, NEW w \in Writer, OpenOther(w)
  PROVE  LockInv'
<1>1. WriterOK(w, me[w]) /\ SimpleOK
  BY InvFacts
<1>2. /\ w \in Other /\ w \notin Rebuilder
      /\ At(w, "start") /\ ~At(w, "wait") /\ OpenOrCreate(w, "flock") /\ dir' = TRUE
      /\ UNCHANGED <<content, closed, exited, faults, flock, unlinks, removing, removals,
                     helper, gate>>
  BY WriterAssumption DEF OpenOther, At, removal, daemon
<1>3. me[w].tries < Retries /\ ~me[w].seen
  BY <1>1, <1>2 DEF WriterOK, PlaceOK, SeenOK, At
<1>4. SimpleOK'
  BY <1>1, <1>2 DEF SimpleOK
<1> QED BY <1>2, <1>3, <1>4, OpenOrCreateKeeps

\* A commit is counted on the file of its hold, for everyone who waits on it.
LEMMA CommitKeeps ==
  ASSUME LockInv, NEW w \in Writer, Commit(w)
  PROVE  LockInv'
<1> DEFINE f == me[w].file
<1>1. /\ me[w] \in WriterState /\ me \in [Writer -> WriterState] /\ WriterOK(w, me[w]) /\ SimpleOK
      /\ LockTypeOK
  BY InvFacts
<1>2. /\ At(w, "writing") /\ content' = "index" /\ Unlock(w) /\ gate' = gate \ {w}
      /\ UNCHANGED <<dir, closed, exited, faults, lockFile, used, unlinks,
                     removing, removals, helper>>
      /\ gen' = [gen EXCEPT ![f] = @ + 1]
  BY DEF Commit, removal, daemon
<1>3. /\ used \subseteq Ident /\ gen \in [Ident -> Nat] /\ unlinks \in Nat
      /\ gate \subseteq Rebuilder /\ helper \in [Helper -> HelperState]
      /\ lockFile \in Ident \cup {None}
  BY <1>1, TypeFacts
<1>4. f \in used
  BY <1>1, <1>2 DEF WriterOK, FileOK, Known, Locked, At
<1>5. /\ gen' \in [Ident -> Nat] /\ gen'[f] = gen[f] + 1
      /\ \A i \in Ident : gen'[i] \in Nat /\ gen[i] <= gen'[i]
  BY <1>2, <1>3, <1>4
<1>6. /\ flock' \in [Ident -> {NoOne} \cup ({"writer"} \X Writer) \cup ({"helper"} \X Helper)]
      /\ \A i \in Ident : \A o : flock[i] = o /\ o # <<"writer", w>> => flock'[i] = o
  BY <1>1, <1>2, UnlockType
<1>7. me'[w] = [Idle EXCEPT !.at = "committed"]
  BY DEF Commit
<1>8. ASSUME NEW v \in Writer, v # w
      PROVE  /\ me'[v] \in WriterState /\ WriterOK(v, me[v])'
             /\ me'[v].at = me[v].at /\ me'[v].on = me[v].on
  <2>1. me[v] \in WriterState /\ WriterOK(v, me[v])
    BY InvFacts
  <2>2. SharedKept(v, me[v])
    BY <1>2, <1>3, <1>5, <1>6, <1>8 DEF SharedKept
  <2>3. CASE me'[v] = me[v]
    BY <1>1, <2>1, <2>2, <2>3, WriterKept
  <2>4. CASE /\ me[v].file = f /\ me[v].at \in {"peek", "try", "attach", "wait", "arrived"}
             /\ me'[v] = [me[v] EXCEPT !.seen = TRUE]
    <3>1. PICK m0 \in WriterState : m0 = me[v]
      BY <2>1
    <3>2. PICK m \in WriterState : m = [m0 EXCEPT !.seen = TRUE]
      BY Update
    <3>3. /\ m.at = m0.at /\ m.file = m0.file /\ m.on = m0.on /\ m.tries = m0.tries
          /\ m.opened = m0.opened /\ m.passed = m0.passed /\ m.saw = m0.saw
      BY <3>2 DEF WriterState
    <3>4. WriterOK(v, m0)'
      BY <1>1, <2>1, <2>2, <3>1, WriterKept
    <3>5. PlaceOK(v, m)' /\ FileOK(m)' /\ HoldOK(v, m)' /\ WaitOK(m)'
      BY <3>3, <3>4 DEF WriterOK, PlaceOK, FileOK, HoldOK, WaitOK
    <3>6. PassedOK(v, m)' /\ GateOK(v, m)'
      BY <3>3, <3>4 DEF WriterOK, PassedOK, CurrentOK, GateOK
    <3>7. SeenOK(m)'
      <4>1. m.at \in {"peek", "try", "attach", "wait", "arrived"} /\ m.file = f
        BY <2>4, <3>1, <3>3
      <4>2. m.passed # unlinks' \/ m.opened <= gen[f]
        BY <1>2, <2>1, <2>4, <3>1, <3>3 DEF WriterOK, SeenOK, ReadOK
      <4>3. gen[f] \in Nat /\ m.opened \in Nat
        BY <1>3, <1>4 DEF WriterState
      <4>4. m.passed # unlinks' \/ (m.opened < gen'[f] /\ m.opened <= gen'[f])
        BY <1>5, <4>2, <4>3
      <4>5. m.passed # unlinks' \/ (gen'[m.file] > m.opened /\ m.opened <= gen'[m.file])
        BY <4>1, <4>4
      <4> QED BY <4>1, <4>5 DEF SeenOK, ReadOK
    <3>8. me'[v] = m
      BY <2>4, <3>1, <3>2
    <3>9. WriterOK(v, m)'
      BY <3>5, <3>6, <3>7 DEF WriterOK
    <3> QED BY <3>1, <3>3, <3>8, <3>9
  <2> QED BY <1>8, <2>3, <2>4 DEF Commit
<1>9. me' \in [Writer -> WriterState]
  <2>1. me'[w] \in WriterState
    BY <1>7, EndState DEF Ended
  <2>2. me' = [v \in Writer |-> me'[v]]
    BY DEF Commit
  <2>3. \A v \in Writer : me'[v] \in WriterState
    BY <1>8, <2>1
  <2> QED BY <2>2, <2>3
<1>10. WriterOK(w, me[w])'
  BY <1>7, EndOK DEF Ended
<1>11. \A v \in Writer : WriterOK(v, me[v])'
  BY <1>8, <1>10
<1>12. LockTypeOK'
  BY <1>1, <1>2, <1>3, <1>5, <1>6, <1>9 DEF LockTypeOK
<1>13. \A h \in Helper : HelperOK(h, helper[h])'
  <2> SUFFICES ASSUME NEW h \in Helper PROVE HelperOK(h, helper[h])'
    OBVIOUS
  <2>1. helper' = helper /\ HelperOK(h, helper[h])
    BY <1>2 DEF LockInv
  <2>2. <<"helper", h>> # <<"writer", w>>
    OBVIOUS
  <2>3. \A i \in Ident : flock[i] = <<"helper", h>> => flock'[i] = <<"helper", h>>
    BY <1>6, <2>2
  <2> QED BY <2>1, <2>3 DEF HelperOK
<1>14. InterestOK'
  <2>1. me'[w].at # "wait" /\ me[w].at # "wait"
    BY <1>2, <1>7 DEF Idle, At
  <2> QED BY <1>2, <1>8, <2>1 DEF LockInv, InterestOK, At
<1>15. RemovalOK' /\ OneHelperPerFile'
  BY <1>2 DEF LockInv, RemovalOK, OneHelperPerFile, Waiting, Unfinished
<1> QED BY <1>11, <1>12, <1>13, <1>14, <1>15 DEF LockInv

(***************************************************************************)
(* The removal of the index and the end of the daemon.                     *)
(***************************************************************************)

\* A step that leaves the writers and the helpers alone.
LEMMA OutsideKeeps ==
  ASSUME LockInv, SimpleOK', UNCHANGED <<used, gen, flock, me, helper, gate>>,
         lockFile' \in Ident \cup {None}, removing' \subseteq {"content", "lock", "dir"},
         removals' \in 0 .. MaxRemovals, unlinks' \in 0 .. MaxRemovals, RemovalOK',
         unlinks' >= unlinks, unlinks' = unlinks /\ lockFile # None => lockFile' = lockFile
  PROVE  LockInv'
<1>1. /\ LockTypeOK /\ used \subseteq Ident /\ gen \in [Ident -> Nat] /\ unlinks \in Nat
      /\ unlinks' \in Nat /\ lockFile \in Ident \cup {None}
  BY TypeFacts, BoundsAssumption DEF LockInv
<1>2. LockTypeOK'
  BY <1>1 DEF LockTypeOK, SimpleOK
<1>3. ASSUME NEW v \in Writer PROVE WriterOK(v, me[v])'
  <2>1. me[v] \in WriterState /\ WriterOK(v, me[v])
    BY InvFacts
  <2>2. SharedKept(v, me[v])
    BY <1>1 DEF SharedKept
  <2> QED BY <1>1, <2>1, <2>2, WriterKept
<1>4. \A h \in Helper : HelperOK(h, helper[h])'
  BY DEF LockInv, HelperOK
<1>5. InterestOK' /\ OneHelperPerFile'
  BY DEF LockInv, InterestOK, At, OneHelperPerFile, Waiting, Unfinished
<1> QED BY <1>2, <1>3, <1>4, <1>5 DEF LockInv

LEMMA RemovalFacts ==
  ASSUME LockInv
  PROVE  /\ SimpleOK /\ RemovalOK /\ lockFile \in Ident \cup {None}
         /\ removals \in 0 .. MaxRemovals /\ unlinks \in 0 .. MaxRemovals
         /\ removing \subseteq {"content", "lock", "dir"} /\ MaxRemovals \in Nat
BY SimpleType, BoundsAssumption DEF LockInv, LockTypeOK

LEMMA RemoveKeeps == LockInv /\ Remove => LockInv'
<1> SUFFICES ASSUME LockInv, Remove PROVE LockInv'
  OBVIOUS
<1>1. SimpleOK'
  BY RemovalFacts DEF SimpleOK, Remove, disk, daemon
<1>2. removals' = removals + 1 /\ removals < MaxRemovals /\ removing' = {"content", "lock", "dir"}
      /\ UNCHANGED <<lockFile, used, gen, flock, me, helper, gate, unlinks>>
  BY DEF Remove, disk
<1>3. removals' \in 0 .. MaxRemovals /\ RemovalOK'
  BY <1>2, RemovalFacts DEF RemovalOK
<1> QED BY <1>1, <1>2, <1>3, OutsideKeeps, RemovalFacts

LEMMA RemoveContentKeeps == LockInv /\ RemoveContent => LockInv'
<1> SUFFICES ASSUME LockInv, RemoveContent PROVE LockInv'
  OBVIOUS
<1>1. SimpleOK'
  BY RemovalFacts DEF SimpleOK, RemoveContent, daemon
<1>2. /\ removing' \subseteq removing
      /\ UNCHANGED <<lockFile, used, gen, flock, me, helper, gate, unlinks, removals>>
  BY DEF RemoveContent
<1>3. RemovalOK'
  BY <1>2, RemovalFacts DEF RemovalOK
<1> QED BY <1>1, <1>2, <1>3, OutsideKeeps, RemovalFacts

\* The lock file of the path is named no more, and that is counted.
LEMMA RemoveLockFileKeeps == LockInv /\ RemoveLockFile => LockInv'
<1> SUFFICES ASSUME LockInv, RemoveLockFile PROVE LockInv'
  OBVIOUS
<1>1. SimpleOK'
  BY RemovalFacts DEF SimpleOK, RemoveLockFile, daemon
<1>2. /\ "lock" \in removing /\ removing' = removing \ {"lock"} /\ lockFile' = None
      /\ unlinks' = IF lockFile = None THEN unlinks ELSE unlinks + 1
      /\ UNCHANGED <<used, gen, flock, me, helper, gate, removals>>
  BY DEF RemoveLockFile
<1>3. unlinks' \in 0 .. MaxRemovals /\ unlinks' >= unlinks /\ RemovalOK'
  BY <1>2, RemovalFacts DEF RemovalOK
<1>4. unlinks' = unlinks => lockFile = None
  BY <1>2, RemovalFacts
<1> QED BY <1>1, <1>2, <1>3, <1>4, OutsideKeeps, RemovalFacts

LEMMA RemoveDirKeeps == LockInv /\ RemoveDir => LockInv'
<1> SUFFICES ASSUME LockInv, RemoveDir PROVE LockInv'
  OBVIOUS
<1>1. SimpleOK'
  BY RemovalFacts DEF SimpleOK, RemoveDir, daemon
<1>2. /\ removing' = {}
      /\ UNCHANGED <<lockFile, used, gen, flock, me, helper, gate, unlinks, removals>>
  BY DEF RemoveDir
<1>3. RemovalOK'
  BY <1>2, RemovalFacts DEF RemovalOK
<1> QED BY <1>1, <1>2, <1>3, OutsideKeeps, RemovalFacts

LEMMA CloseKeeps == LockInv /\ Close => LockInv'
<1> SUFFICES ASSUME LockInv, Close PROVE LockInv'
  OBVIOUS
<1>1. SimpleOK'
  BY RemovalFacts DEF SimpleOK, Close, disk
<1>2. UNCHANGED <<lockFile, used, gen, flock, me, helper, gate, removing, unlinks, removals>>
  BY DEF Close, disk, removal
<1>3. RemovalOK'
  BY <1>2, RemovalFacts DEF RemovalOK
<1> QED BY <1>1, <1>2, <1>3, OutsideKeeps, RemovalFacts

(***************************************************************************)
(* The helper threads and those who wait on them.                          *)
(***************************************************************************)

\* Nobody's lock but that of writers in W and helper h is touched.
LocksKept(W, h) ==
  /\ flock' \in [Ident -> {NoOne} \cup ({"writer"} \X Writer) \cup ({"helper"} \X Helper)]
  /\ \A i \in Ident : \A v \in Writer \ W :
       flock[i] = <<"writer", v>> => flock'[i] = <<"writer", v>>
  /\ \A i \in Ident : \A g \in Helper \ {h} :
       flock[i] = <<"helper", g>> => flock'[i] = <<"helper", g>>

\* Helper h becomes k, which goes only when nobody but W waits on it.
HelperMoves(W, h, k) ==
  /\ helper' = [helper EXCEPT ![h] = k]
  /\ k.interested \ W = helper[h].interested \ W
  /\ helper[h].interested \subseteq W
       \/ ((k.st = "off" => helper[h].st = "off") /\ k.file = helper[h].file)
  /\ k.st \notin {"off", "done"} =>
       Waiting(k.file) = {} \/ (Unfinished(h) /\ k.file = helper[h].file)

\* The other helpers are not disturbed, and no file gets a second one.
LEMMA HelpersKept ==
  ASSUME LockInv, NEW W, NEW h \in Helper, NEW k \in HelperState, HelperMoves(W, h, k),
         LocksKept(W, h), HelperOK(h, k)'
  PROVE  /\ helper' \in [Helper -> HelperState] /\ helper'[h] = k
         /\ \A g \in Helper : g # h => helper'[g] = helper[g]
         /\ \A g \in Helper : HelperOK(g, helper[g])'
         /\ OneHelperPerFile'
<1>1. helper \in [Helper -> HelperState]
  BY TypeFacts DEF LockInv
<1>2. /\ helper' \in [Helper -> HelperState] /\ helper'[h] = k
      /\ \A g \in Helper : g # h => helper'[g] = helper[g]
  BY <1>1 DEF HelperMoves
<1>3. ASSUME NEW g \in Helper, g # h PROVE HelperOK(g, helper[g])'
  <2>1. HelperOK(g, helper[g]) /\ helper'[g] = helper[g]
    BY <1>2, <1>3 DEF LockInv
  <2>2. \A i \in Ident : flock[i] = <<"helper", g>> => flock'[i] = <<"helper", g>>
    BY <1>3 DEF LocksKept
  <2> QED BY <2>1, <2>2 DEF HelperOK
<1>4. HelperOK(h, helper[h])'
  BY <1>2
<1>5. OneHelperPerFile'
  BY <1>2 DEF LockInv, OneHelperPerFile, Waiting, Unfinished, HelperMoves
<1> QED BY <1>2, <1>3, <1>4, <1>5

\* The writers other than W are not disturbed.
LEMMA WaitersKept ==
  ASSUME LockInv, NEW W, NEW h \in Helper, NEW k \in HelperState, HelperMoves(W, h, k),
         LocksKept(W, h), NEW v \in Writer, v \notin W, v \in gate => v \in gate',
         UNCHANGED <<lockFile, used, gen, unlinks>>
  PROVE  SharedKept(v, me[v])
<1>1. /\ used \subseteq Ident /\ gen \in [Ident -> Nat] /\ unlinks \in Nat
      /\ helper \in [Helper -> HelperState] /\ lockFile \in Ident \cup {None}
  BY TypeFacts DEF LockInv
<1>2. \A i \in Ident : flock[i] = <<"writer", v>> => flock'[i] = <<"writer", v>>
  BY DEF LocksKept
<1>3. ASSUME me[v].at = "wait"
      PROVE  /\ helper'[me[v].on].st = "off" => helper[me[v].on].st = "off"
             /\ helper'[me[v].on].file = helper[me[v].on].file
  <2>1. me[v].on \in Helper
    BY <1>3, InvFacts DEF WriterOK, WaitOK
  <2>2. me[v].on = h => v \in helper[h].interested
    BY <1>3 DEF LockInv, InterestOK, At
  <2> QED BY <1>1, <2>1, <2>2 DEF HelperMoves
<1> QED BY <1>1, <1>2, <1>3 DEF SharedKept

\* A step of a helper thread.
LEMMA ThreadKeeps ==
  ASSUME LockInv, NEW h \in Helper, NEW k \in HelperState, HelperMoves({}, h, k),
         LocksKept({}, h), HelperOK(h, k)',
         UNCHANGED <<lockFile, used, gen, unlinks, removing, removals, me, gate>>, SimpleOK'
  PROVE  LockInv'
<1>1. LockTypeOK
  BY DEF LockInv
<1>2. /\ helper' \in [Helper -> HelperState] /\ helper'[h] = k
      /\ \A g \in Helper : g # h => helper'[g] = helper[g]
      /\ \A g \in Helper : HelperOK(g, helper[g])'
      /\ OneHelperPerFile'
  BY HelpersKept
<1>3. LockTypeOK'
  BY <1>1, <1>2 DEF LockTypeOK, SimpleOK, LocksKept
<1>4. ASSUME NEW v \in Writer PROVE WriterOK(v, me[v])'
  <2>1. me[v] \in WriterState /\ WriterOK(v, me[v])
    BY InvFacts
  <2>2. SharedKept(v, me[v])
    BY WaitersKept
  <2> QED BY <1>1, <2>1, <2>2, WriterKept
<1>5. InterestOK'
  BY <1>2 DEF LockInv, InterestOK, At, HelperMoves
<1>6. RemovalOK'
  BY DEF LockInv, RemovalOK
<1> QED BY <1>2, <1>3, <1>4, <1>5, <1>6 DEF LockInv

\* A step of writer w with helper h, on which it waits before it or after it.
LEMMA WaiterKeeps ==
  ASSUME LockInv, NEW w \in Writer, NEW m \in WriterState, me' = [me EXCEPT ![w] = m],
         NEW h \in Helper, NEW k \in HelperState, HelperMoves({w}, h, k),
         LocksKept({w}, h), HelperOK(h, k)', WriterOK(w, m)',
         At(w, "wait") => me[w].on = h,
         w \in k.interested <=> m.at = "wait", m.at = "wait" => m.on = h,
         gate' \in {gate, gate \ {w}},
         UNCHANGED <<lockFile, used, gen, unlinks, removing, removals>>, SimpleOK'
  PROVE  LockInv'
<1>1. LockTypeOK /\ me \in [Writer -> WriterState] /\ gate \subseteq Rebuilder
  BY TypeFacts DEF LockInv
<1>2. /\ me' \in [Writer -> WriterState] /\ me'[w] = m
      /\ \A v \in Writer : v # w => me'[v] = me[v]
  BY <1>1
<1>3. /\ helper' \in [Helper -> HelperState] /\ helper'[h] = k
      /\ \A g \in Helper : g # h => helper'[g] = helper[g]
      /\ \A g \in Helper : HelperOK(g, helper[g])'
      /\ OneHelperPerFile'
  BY HelpersKept
<1>4. gate' \subseteq Rebuilder /\ \A v \in Writer : v # w /\ v \in gate => v \in gate'
  BY <1>1
<1>5. LockTypeOK'
  BY <1>1, <1>2, <1>3, <1>4 DEF LockTypeOK, SimpleOK, LocksKept
<1>6. ASSUME NEW v \in Writer, v # w PROVE SharedKept(v, me[v])
  BY <1>4, <1>6, WaitersKept
<1>7. WriterOK(w, me[w])'
  BY <1>2
<1>8. \A v \in Writer : WriterOK(v, me[v])'
  BY <1>2, <1>6, <1>7, OthersKept
<1>9. InterestOK'
  <2> SUFFICES ASSUME NEW v \in Writer, NEW g \in Helper
               PROVE  (v \in helper[g].interested <=> At(v, "wait") /\ me[v].on = g)'
    BY DEF InterestOK
  <2>1. v \in helper[g].interested <=> me[v].at = "wait" /\ me[v].on = g
    BY DEF LockInv, InterestOK, At
  <2>2. CASE v = w /\ g = h
    BY <1>2, <1>3, <2>2 DEF At
  <2>3. CASE v = w /\ g # h
    BY <1>2, <1>3, <2>1, <2>3 DEF At
  <2>4. CASE v # w /\ g = h
    BY <1>2, <1>3, <2>1, <2>4 DEF At, HelperMoves
  <2>5. CASE v # w /\ g # h
    BY <1>2, <1>3, <2>1, <2>5 DEF At
  <2> QED BY <2>2, <2>3, <2>4, <2>5
<1>10. RemovalOK'
  BY DEF LockInv, RemovalOK
<1> QED BY <1>3, <1>5, <1>8, <1>9, <1>10 DEF LockInv

\* A helper's record with one field changed.
LEMMA HelperUpdate ==
  ASSUME NEW k \in HelperState
  PROVE  /\ \A st \in {"off", "blocked", "locked", "error", "panic", "done"} :
              [k EXCEPT !.st = st] \in HelperState
         /\ \A W \in SUBSET Rebuilder : [k EXCEPT !.interested = W] \in HelperState
         /\ \A a \in {"none", "lock", "error"} : [k EXCEPT !.answer = a] \in HelperState
BY DEF HelperState

LEMMA OffType ==
  /\ Off \in HelperState /\ Off.st = "off" /\ Off.answer = "none"
  /\ Off.interested = {} /\ Off.file = None
BY DEF Off, HelperState

\* What the invariant says of h.
LEMMA HelperFacts ==
  ASSUME LockInv, NEW h \in Helper
  PROVE  /\ LockTypeOK /\ SimpleOK
         /\ helper \in [Helper -> HelperState] /\ helper[h] \in HelperState
         /\ HelperOK(h, helper[h])
         /\ flock \in [Ident -> {NoOne} \cup ({"writer"} \X Writer) \cup ({"helper"} \X Helper)]
BY TypeFacts, SimpleType DEF LockInv

\* Locks stay; or a free one is taken, or one that helper h has is passed on.
LEMMA LocksStay ==
  ASSUME LockInv, NEW h \in Helper, NEW W, UNCHANGED flock
  PROVE  LocksKept(W, h)
BY HelperFacts DEF LocksKept

LEMMA LockMoves ==
  ASSUME LockInv, NEW h \in Helper, NEW W, NEW i \in Ident, flock[i] \in {NoOne, <<"helper", h>>},
         NEW o \in {NoOne} \cup ({"writer"} \X Writer) \cup ({"helper"} \X Helper),
         flock' = [flock EXCEPT ![i] = o]
  PROVE  LocksKept(W, h)
<1>1. \A g : <<"writer", g>> # NoOne /\ <<"helper", g>> # NoOne /\ <<"writer", g>> # <<"helper", h>>
  BY DEF NoOne
<1>2. \A g : g # h => <<"helper", g>> # <<"helper", h>>
  OBVIOUS
<1>3. flock \in [Ident -> {NoOne} \cup ({"writer"} \X Writer) \cup ({"helper"} \X Helper)]
  BY HelperFacts
<1>4. /\ flock' \in [Ident -> {NoOne} \cup ({"writer"} \X Writer) \cup ({"helper"} \X Helper)]
      /\ \A j \in Ident : j # i => flock'[j] = flock[j]
  BY <1>3
<1> QED BY <1>1, <1>2, <1>4 DEF LocksKept

LEMMA HelperLockKeeps ==
  ASSUME LockInv, NEW h \in Helper, HelperLock(h)
  PROVE  LockInv'
<1>1. /\ helper[h] \in HelperState /\ helper \in [Helper -> HelperState] /\ HelperOK(h, helper[h])
      /\ SimpleOK
      /\ flock \in [Ident -> {NoOne} \cup ({"writer"} \X Writer) \cup ({"helper"} \X Helper)]
  BY HelperFacts
<1>2. /\ helper[h].st = "blocked" /\ flock[helper[h].file] = NoOne
      /\ flock' = [flock EXCEPT ![helper[h].file] = <<"helper", h>>]
      /\ helper' = [helper EXCEPT ![h].st = "locked"]
      /\ UNCHANGED <<dir, content, closed, exited, faults, lockFile, used, gen, unlinks,
                     removing, removals, me, gate>>
  BY DEF HelperLock, disk, removal, daemon
<1>3. PICK k \in HelperState : k = [helper[h] EXCEPT !.st = "locked"]
  BY <1>1, HelperUpdate
<1>4. /\ k.st = "locked" /\ k.file = helper[h].file /\ k.answer = helper[h].answer
      /\ k.interested = helper[h].interested
      /\ helper' = [helper EXCEPT ![h] = k]
  BY <1>1, <1>2, <1>3 DEF HelperState
<1>5. HelperMoves({}, h, k)
  BY <1>2, <1>4 DEF HelperMoves, Unfinished
<1>6. k.file \in Ident
  BY <1>1, <1>2, <1>4 DEF HelperOK
<1>7. LocksKept({}, h)
  BY <1>2, <1>4, <1>6, LockMoves
<1>8. flock'[k.file] = <<"helper", h>>
  BY <1>1, <1>2, <1>4, <1>6
<1>9. HelperOK(h, k)'
  BY <1>1, <1>2, <1>4, <1>6, <1>8 DEF HelperOK
<1>10. SimpleOK'
  BY <1>1, <1>2 DEF SimpleOK
<1> QED BY <1>2, <1>5, <1>7, <1>9, <1>10, ThreadKeeps

LEMMA HelperFailsKeeps ==
  ASSUME LockInv, NEW h \in Helper, HelperFails(h)
  PROVE  LockInv'
<1>1. /\ helper[h] \in HelperState /\ helper \in [Helper -> HelperState] /\ HelperOK(h, helper[h])
      /\ SimpleOK
  BY HelperFacts
<1>2. /\ helper[h].st = "blocked" /\ faults < MaxFaults /\ faults' = faults + 1
      /\ UNCHANGED <<dir, content, closed, exited, flock, lockFile, used, gen, unlinks,
                     removing, removals, me, gate>>
  BY DEF HelperFails, disk, removal, daemon
<1>3. PICK st \in {"error", "panic"} : helper' = [helper EXCEPT ![h].st = st]
  BY DEF HelperFails
<1>4. PICK k \in HelperState : k = [helper[h] EXCEPT !.st = st]
  BY <1>1, HelperUpdate
<1>5. /\ k.st = st /\ k.file = helper[h].file /\ k.answer = helper[h].answer
      /\ k.interested = helper[h].interested
      /\ helper' = [helper EXCEPT ![h] = k]
  BY <1>1, <1>3, <1>4 DEF HelperState
<1>6. HelperMoves({}, h, k)
  BY <1>2, <1>5 DEF HelperMoves, Unfinished
<1>7. LocksKept({}, h)
  BY <1>2, LocksStay
<1>8. HelperOK(h, k)'
  BY <1>1, <1>2, <1>5 DEF HelperOK
<1>9. SimpleOK'
  BY <1>1, <1>2, BoundsAssumption DEF SimpleOK
<1> QED BY <1>2, <1>6, <1>7, <1>8, <1>9, ThreadKeeps

\* The answer of a helper is taken over by a waiter, or dropped with its lock.
LEMMA HelperExitKeeps ==
  ASSUME LockInv, NEW h \in Helper, HelperExit(h)
  PROVE  LockInv'
<1>1. /\ helper[h] \in HelperState /\ helper \in [Helper -> HelperState] /\ HelperOK(h, helper[h])
      /\ SimpleOK
  BY HelperFacts
<1>2. /\ helper[h].st \in {"locked", "error", "panic"}
      /\ UNCHANGED <<dir, content, closed, exited, faults, lockFile, used, gen, unlinks,
                     removing, removals, me, gate>>
  BY DEF HelperExit, disk, removal, daemon
<1>3. SimpleOK'
  BY <1>1, <1>2 DEF SimpleOK
<1>4. helper[h].file \in Ident /\ (helper[h].st = "locked" => flock[helper[h].file] = <<"helper", h>>)
  BY <1>1, <1>2 DEF HelperOK
<1>5. CASE helper[h].interested = {}
  <2>1. /\ helper' = [helper EXCEPT ![h] = Off]
        /\ flock' = IF helper[h].st = "locked"
                      THEN [flock EXCEPT ![helper[h].file] = NoOne] ELSE flock
    BY <1>5 DEF HelperExit
  <2>2. HelperMoves({}, h, Off)
    BY <1>5, <2>1, OffType DEF HelperMoves
  <2>3. LocksKept({}, h)
    <3>1. CASE helper[h].st = "locked"
      BY <1>4, <2>1, <3>1, LockMoves
    <3>2. CASE helper[h].st # "locked"
      BY <2>1, <3>2, LocksStay
    <3> QED BY <3>1, <3>2
  <2>4. HelperOK(h, Off)'
    BY OffType DEF HelperOK
  <2> QED BY <1>2, <1>3, <2>2, <2>3, <2>4, OffType, ThreadKeeps
<1>6. CASE helper[h].interested # {}
  <2>1. PICK a \in {"none", "lock", "error"} :
          /\ a = [locked |-> "lock", error |-> "error", panic |-> "none"][helper[h].st]
          /\ a = "lock" => helper[h].st = "locked"
    BY <1>2
  <2>2. helper' = [helper EXCEPT ![h].st = "done", ![h].answer = a] /\ UNCHANGED flock
    BY <1>6, <2>1 DEF HelperExit
  <2>3. PICK k \in HelperState : k = [helper[h] EXCEPT !.st = "done", !.answer = a]
    BY <1>1, HelperUpdate
  <2>4. /\ k.st = "done" /\ k.file = helper[h].file /\ k.answer = a
        /\ k.interested = helper[h].interested
        /\ helper' = [helper EXCEPT ![h] = k]
    BY <1>1, <2>2, <2>3 DEF HelperState
  <2>5. HelperMoves({}, h, k)
    BY <2>4 DEF HelperMoves
  <2>6. LocksKept({}, h)
    BY <2>2, LocksStay
  <2>7. HelperOK(h, k)'
    BY <1>4, <1>6, <2>1, <2>2, <2>4 DEF HelperOK
  <2> QED BY <1>2, <1>3, <2>5, <2>6, <2>7, ThreadKeeps
<1> QED BY <1>5, <1>6

\* Who is about to wait or waits is an iteration of the daemon that knows its
\* file and what was recorded on it.
LEMMA WaiterFacts ==
  ASSUME LockInv, NEW w \in Writer, me[w].at \in {"attach", "wait"}
  PROVE  /\ w \in Rebuilder /\ w \notin Other /\ me[w].file \in used
         /\ CurrentOK(me[w]) /\ (me[w].passed # unlinks \/ ReadOK(me[w]))
         /\ \A h \in Helper : w \in helper[h].interested <=> me[w].at = "wait" /\ me[w].on = h
<1>1. WriterOK(w, me[w])
  BY InvFacts
<1>2. w \in Rebuilder /\ w \notin Other /\ me[w].file \in used
  BY <1>1, WriterAssumption DEF WriterOK, PlaceOK, FileOK, Known, Writer, Ended
<1>3. CurrentOK(me[w]) /\ (me[w].passed # unlinks \/ ReadOK(me[w]))
  BY <1>1 DEF WriterOK, SeenOK, PassedOK, Awaits
<1>4. \A h \in Helper : w \in helper[h].interested <=> me[w].at = "wait" /\ me[w].on = h
  BY DEF LockInv, InterestOK, At
<1> QED BY <1>2, <1>3, <1>4

\* Writer w, which waits or is about to, waits on h, tries again or has the lock.
LEMMA WaiterMoves ==
  ASSUME LockInv, NEW w \in Writer, me[w].at \in {"attach", "wait"},
         NEW m \in WriterState,
         m.at \in {"attach", "wait", "arrived"},
         m.file = me[w].file, m.opened = me[w].opened, m.saw = me[w].saw, m.seen = me[w].seen,
         m.passed = me[w].passed,
         m.at = "wait" => m.on \in Helper /\ helper'[m.on].st # "off" /\ helper'[m.on].file = m.file,
         m.at = "arrived" => flock'[m.file] = <<"writer", w>>,
         UNCHANGED <<lockFile, used, gen, unlinks>>
  PROVE  WriterOK(w, m)'
<1>1. /\ w \in Rebuilder /\ w \notin Other /\ me[w].file \in used
      /\ CurrentOK(me[w]) /\ (me[w].passed # unlinks \/ ReadOK(me[w]))
  BY WaiterFacts
<1>2. PlaceOK(w, m)' /\ FileOK(m)' /\ HoldOK(w, m)' /\ WaitOK(m)'
  BY <1>1 DEF PlaceOK, FileOK, HoldOK, WaitOK, Locked
<1>3. PassedOK(w, m)' /\ GateOK(w, m)'
  BY <1>1 DEF PassedOK, CurrentOK, GateOK
<1>4. SeenOK(m)'
  BY <1>1 DEF SeenOK, ReadOK
<1> QED BY <1>2, <1>3, <1>4 DEF WriterOK

LEMMA AttachKeeps ==
  ASSUME LockInv, NEW w \in Writer, Attach(w)
  PROVE  LockInv'
<1>1. /\ me[w] \in WriterState /\ me \in [Writer -> WriterState] /\ SimpleOK /\ LockTypeOK
      /\ helper \in [Helper -> HelperState] /\ used \subseteq Ident
  BY InvFacts, TypeFacts
<1>2. /\ me[w].at = "attach" /\ ~At(w, "wait")
      /\ UNCHANGED <<dir, content, closed, exited, lockFile, used, gen, unlinks,
                     removing, removals>>
  BY DEF Attach, At, disk, removal, daemon
<1>3. /\ w \in Rebuilder /\ me[w].file \in Ident
      /\ \A h \in Helper : w \notin helper[h].interested
  BY <1>1, <1>2, WaiterFacts
<1>4. CASE End(w, "removed") /\ UNCHANGED <<helper, faults>>
  <2>1. SimpleOK'
    BY <1>1, <1>2, <1>4 DEF SimpleOK
  <2> QED BY <1>2, <1>4, <2>1, EndKeeps DEF Ended
<1>5. CASE SpawnFails(w)
  <2>1. SimpleOK'
    BY <1>1, <1>2, <1>5, BoundsAssumption DEF SimpleOK, SpawnFails
  <2> QED BY <1>2, <1>5, <2>1, EndKeeps DEF Ended, SpawnFails
<1>6. ASSUME NEW h \in Helper, NEW k \in HelperState, helper' = [helper EXCEPT ![h] = k],
             WaitOn(w, h), HelperMoves({w}, h, k), HelperOK(h, k)', w \in k.interested,
             k.st # "off", k.file = me[w].file
      PROVE  LockInv'
  <2>1. PICK m \in WriterState : m = [me[w] EXCEPT !.on = h, !.at = "wait"]
    BY <1>1, Update DEF Place
  <2>2. /\ m.at = "wait" /\ m.on = h /\ m.file = me[w].file /\ m.opened = me[w].opened
        /\ m.saw = me[w].saw /\ m.seen = me[w].seen /\ m.passed = me[w].passed
    BY <1>1, <2>1 DEF WriterState
  <2>3. me' = [me EXCEPT ![w] = m] /\ UNCHANGED <<flock, gate, faults>>
    BY <1>1, <1>6, <2>1 DEF WaitOn
  <2>4. helper'[h] = k
    BY <1>1, <1>6
  <2>5. WriterOK(w, m)'
    BY <1>2, <1>6, <2>2, <2>4, WaiterMoves
  <2>6. LocksKept({w}, h)
    BY <2>3, LocksStay
  <2>7. SimpleOK'
    BY <1>1, <1>2, <2>3 DEF SimpleOK
  <2> QED BY <1>2, <1>6, <2>2, <2>3, <2>5, <2>6, <2>7, WaiterKeeps
<1>7. CASE \E h \in Waiting(me[w].file) :
             helper' = [helper EXCEPT ![h].interested = @ \cup {w}] /\ WaitOn(w, h)
  <2>1. PICK h \in Waiting(me[w].file) :
          helper' = [helper EXCEPT ![h].interested = @ \cup {w}] /\ WaitOn(w, h)
    BY <1>7
  <2>2. /\ h \in Helper /\ helper[h] \in HelperState /\ Unfinished(h)
        /\ helper[h].file = me[w].file /\ HelperOK(h, helper[h])
    BY <1>1 DEF Waiting, LockInv
  <2>3. PICK k \in HelperState : k = [helper[h] EXCEPT !.interested = @ \cup {w}]
    <3>1. helper[h].interested \cup {w} \in SUBSET Rebuilder
      BY <1>3, <2>2 DEF HelperState
    <3> QED BY <2>2, <3>1, HelperUpdate
  <2>4. /\ k.st = helper[h].st /\ k.file = helper[h].file /\ k.answer = helper[h].answer
        /\ k.interested = helper[h].interested \cup {w}
        /\ helper' = [helper EXCEPT ![h] = k]
    BY <1>1, <2>1, <2>2, <2>3 DEF HelperState
  <2>5. HelperMoves({w}, h, k)
    BY <2>2, <2>4 DEF HelperMoves
  <2>6. flock' = flock
    BY <2>1 DEF WaitOn
  <2>7. HelperOK(h, k)'
    BY <2>2, <2>4, <2>6 DEF HelperOK
  <2>8. w \in k.interested /\ k.st # "off" /\ k.file = me[w].file
    BY <2>2, <2>4 DEF Unfinished
  <2> QED BY <1>6, <2>1, <2>2, <2>4, <2>5, <2>7, <2>8
<1>8. CASE Waiting(me[w].file) = {} /\ \E h \in Helper : StartHelper(w, h)
  <2>1. PICK h \in Helper : StartHelper(w, h)
    BY <1>8
  <2>2. PICK k : k = [file |-> me[w].file, st |-> "blocked", interested |-> {w}, answer |-> "none"]
    OBVIOUS
  <2>3. /\ k \in HelperState /\ k.st = "blocked" /\ k.file = me[w].file /\ k.answer = "none"
        /\ k.interested = {w}
    BY <1>3, <2>2 DEF HelperState
  <2>4. helper[h] = Off /\ helper' = [helper EXCEPT ![h] = k] /\ WaitOn(w, h)
    BY <2>1, <2>2 DEF StartHelper
  <2>5. HelperMoves({w}, h, k)
    BY <1>8, <2>3, <2>4, OffType DEF HelperMoves
  <2>6. HelperOK(h, k)'
    BY <1>3, <2>3 DEF HelperOK
  <2> QED BY <1>6, <2>3, <2>4, <2>5, <2>6
<1> QED BY <1>4, <1>5, <1>7, <1>8 DEF Attach

\* A waiter leaves a helper that stays, or that has finished and goes with it.
LEMMA DetachedFacts ==
  ASSUME LockInv, NEW w \in Writer, NEW h \in Helper
  PROVE  /\ Detached(h, w) \in HelperState
         /\ Detached(h, w).interested = helper[h].interested \ {w}
         /\ \/ /\ Detached(h, w).st = helper[h].st /\ Detached(h, w).file = helper[h].file
               /\ Detached(h, w).answer = helper[h].answer
               /\ helper[h].st = "done" => helper[h].interested \ {w} # {}
            \/ /\ Detached(h, w) = Off
               /\ helper[h].interested \subseteq {w}
<1>1. helper[h] \in HelperState /\ HelperOK(h, helper[h])
  BY HelperFacts
<1>2. CASE helper[h].interested \ {w} = {} /\ helper[h].st = "done"
  BY <1>2, OffType DEF Detached
<1>3. CASE ~(helper[h].interested \ {w} = {} /\ helper[h].st = "done")
  <2>1. Detached(h, w) = [helper[h] EXCEPT !.interested = helper[h].interested \ {w}]
    BY <1>3 DEF Detached
  <2>2. helper[h].interested \ {w} \in SUBSET Rebuilder
    BY <1>1 DEF HelperState
  <2>3. Detached(h, w) \in HelperState
    BY <1>1, <2>1, <2>2, HelperUpdate
  <2> QED BY <1>1, <1>3, <2>1, <2>3 DEF HelperState
<1> QED BY <1>2, <1>3

\* The helper a writer waits on.
LEMMA WaitFacts ==
  ASSUME LockInv, NEW w \in Writer, At(w, "wait")
  PROVE  /\ me[w].on \in Helper /\ helper[me[w].on].st # "off"
         /\ helper[me[w].on].file = me[w].file
         /\ me[w].file \in Ident /\ w \in helper[me[w].on].interested
<1>1. WriterOK(w, me[w]) /\ used \subseteq Ident
  BY InvFacts, TypeFacts
<1>2. me[w].on \in Helper /\ helper[me[w].on].st # "off" /\ helper[me[w].on].file = me[w].file
  BY <1>1 DEF WriterOK, WaitOK, At
<1> QED BY <1>1, <1>2, WaiterFacts DEF At

\* Leaving a helper whose answer is taken, or has been.
LEMMA DetachMoves ==
  ASSUME LockInv, NEW w \in Writer, NEW h \in Helper, NEW k \in HelperState,
         helper[h].st = "done",
         k.st = Detached(h, w).st, k.file = Detached(h, w).file,
         k.interested = Detached(h, w).interested, k.answer = "none",
         helper' = [helper EXCEPT ![h] = k]
  PROVE  HelperMoves({w}, h, k) /\ HelperOK(h, k)' /\ w \notin k.interested
<1>1. HelperOK(h, helper[h])
  BY HelperFacts
<1>2. k.st \in {"off", "done"} /\ k.interested = helper[h].interested \ {w}
  BY DetachedFacts, OffType
<1>3. HelperMoves({w}, h, k)
  BY <1>2, DetachedFacts DEF HelperMoves
<1>4. k.st = "off" \/ (k.interested # {} /\ k.file \in Ident)
  BY <1>1, <1>2, DetachedFacts, OffType DEF HelperOK
<1>5. HelperOK(h, k)'
  BY <1>2, <1>4 DEF HelperOK
<1> QED BY <1>2, <1>3, <1>5

\* A lock passes from the helper to the waiter that takes the answer; the
\* others find no answer and wait again.
LEMMA TakeAnswerKeeps ==
  ASSUME LockInv, NEW w \in Writer, TakeAnswer(w)
  PROVE  LockInv'
<1>1. /\ me[w] \in WriterState /\ me \in [Writer -> WriterState] /\ SimpleOK /\ LockTypeOK
      /\ helper \in [Helper -> HelperState]
  BY InvFacts, TypeFacts
<1>2. /\ At(w, "wait")
      /\ UNCHANGED <<dir, content, closed, exited, faults, lockFile, used, gen, unlinks,
                     removing, removals>>
  BY DEF TakeAnswer, disk, removal, daemon
<1>3. PICK h \in Helper : /\ h = me[w].on /\ helper[h].file = me[w].file
                          /\ me[w].file \in Ident
  BY <1>2, WaitFacts
<1>4. /\ helper[h].answer # "none"
      /\ helper' = [helper EXCEPT ![h] = [Detached(h, w) EXCEPT !.answer = "none"]]
  BY <1>3 DEF TakeAnswer
<1>5. helper[h].st = "done" /\ (helper[h].answer = "lock" => flock[me[w].file] = <<"helper", h>>)
  BY <1>3, <1>4, HelperFacts DEF HelperOK
<1>6. PICK d \in HelperState : d = Detached(h, w)
  BY DetachedFacts
<1>7. PICK k \in HelperState : k = [d EXCEPT !.answer = "none"]
  BY HelperUpdate
<1>8. k.st = d.st /\ k.file = d.file /\ k.interested = d.interested /\ k.answer = "none"
  BY <1>7 DEF HelperState
<1>9. helper' = [helper EXCEPT ![h] = k]
  BY <1>4, <1>6, <1>7
<1>10. HelperMoves({w}, h, k) /\ HelperOK(h, k)' /\ w \notin k.interested
  BY <1>5, <1>6, <1>8, <1>9, DetachMoves
<1>11. SimpleOK'
  BY <1>1, <1>2 DEF SimpleOK
<1>12. CASE helper[h].answer = "lock"
  <2>1. /\ flock' = [flock EXCEPT ![me[w].file] = <<"writer", w>>]
        /\ me' = [me EXCEPT ![w].on = None, ![w].at = "arrived"]
        /\ gate' = gate
    BY <1>3, <1>12 DEF TakeAnswer
  <2>2. PICK m \in WriterState : m = [me[w] EXCEPT !.on = None, !.at = "arrived"]
    BY <1>1, Update DEF Place, Locked
  <2>3. /\ m.at = "arrived" /\ m.file = me[w].file /\ m.opened = me[w].opened
        /\ m.saw = me[w].saw /\ m.seen = me[w].seen /\ m.passed = me[w].passed
    BY <1>1, <2>2 DEF WriterState
  <2>4. me' = [me EXCEPT ![w] = m]
    BY <1>1, <2>1, <2>2
  <2>5. flock'[m.file] = <<"writer", w>>
    BY <1>1, <1>3, <2>1, <2>3, TypeFacts
  <2>6. WriterOK(w, m)'
    BY <1>2, <2>3, <2>5, WaiterMoves DEF At
  <2>7. LocksKept({w}, h)
    BY <1>3, <1>5, <1>12, <2>1, LockMoves
  <2> QED BY <1>2, <1>3, <1>10, <1>11, <2>1, <2>3, <2>4, <2>6, <2>7, WaiterKeeps
<1>13. CASE helper[h].answer # "lock"
  <2> DEFINE m == [Idle EXCEPT !.at = "failed"]
  <2>1. me' = [me EXCEPT ![w] = m] /\ Unlock(w) /\ gate' \in {gate, gate \ {w}}
    BY <1>3, <1>13 DEF TakeAnswer, End
  <2>2. m \in WriterState /\ m.at # "wait"
    BY EndState DEF Ended
  <2>3. WriterOK(w, m)'
    BY EndOK DEF Ended
  <2> HIDE DEF m
  <2>4. LocksKept({w}, h)
    BY <1>1, <2>1, UnlockType DEF LocksKept
  <2> QED BY <1>2, <1>3, <1>10, <1>11, <2>1, <2>2, <2>3, <2>4, WaiterKeeps
<1> QED BY <1>12, <1>13

LEMMA WaitAgainKeeps ==
  ASSUME LockInv, NEW w \in Writer, WaitAgain(w)
  PROVE  LockInv'
<1>1. /\ me[w] \in WriterState /\ me \in [Writer -> WriterState] /\ SimpleOK
  BY InvFacts
<1>2. /\ At(w, "wait")
      /\ UNCHANGED <<dir, content, closed, exited, faults, lockFile, used, gen, unlinks,
                     removing, removals, flock, gate>>
  BY DEF WaitAgain, disk, removal, daemon
<1>3. PICK h \in Helper : h = me[w].on
  BY <1>2, WaitFacts
<1>4. /\ helper[h].st = "done" /\ helper[h].answer = "none"
      /\ helper' = [helper EXCEPT ![h] = Detached(h, w)]
      /\ me' = [me EXCEPT ![w].on = None, ![w].at = "attach"]
  BY <1>3 DEF WaitAgain
<1>5. PICK k \in HelperState : k = Detached(h, w)
  BY DetachedFacts
<1>6. k.answer = "none"
  BY <1>4, <1>5, DetachedFacts, OffType
<1>7. HelperMoves({w}, h, k) /\ HelperOK(h, k)' /\ w \notin k.interested
  BY <1>4, <1>5, <1>6, DetachMoves
<1>8. PICK m \in WriterState : m = [me[w] EXCEPT !.on = None, !.at = "attach"]
  BY <1>1, Update DEF Place
<1>9. /\ m.at = "attach" /\ m.file = me[w].file /\ m.opened = me[w].opened
      /\ m.saw = me[w].saw /\ m.seen = me[w].seen /\ m.passed = me[w].passed
  BY <1>1, <1>8 DEF WriterState
<1>10. me' = [me EXCEPT ![w] = m]
  BY <1>1, <1>4, <1>8
<1>11. WriterOK(w, m)'
  BY <1>2, <1>9, WaiterMoves DEF At
<1>12. LocksKept({w}, h)
  BY <1>2, LocksStay
<1>13. SimpleOK'
  BY <1>1, <1>2 DEF SimpleOK
<1> QED BY <1>2, <1>3, <1>7, <1>9, <1>10, <1>11, <1>12, <1>13, WaiterKeeps

\* The last waiter to leave drops the lock that arrived for nobody; a helper
\* that still blocks stays, for whoever comes next.
LEMMA GiveUpKeeps ==
  ASSUME LockInv, NEW w \in Writer, GiveUp(w)
  PROVE  LockInv'
<1>1. /\ me[w] \in WriterState /\ me \in [Writer -> WriterState] /\ SimpleOK /\ LockTypeOK
  BY InvFacts
<1>2. /\ At(w, "wait")
      /\ UNCHANGED <<dir, content, closed, exited, faults, lockFile, used, gen, unlinks,
                     removing, removals, gate>>
  BY DEF GiveUp, disk, removal, daemon
<1>3. PICK h \in Helper : /\ h = me[w].on /\ helper[h].file \in Ident
  BY <1>2, WaitFacts
<1>4. PICK how \in {"cancelled", "removed"} :
        /\ helper' = [helper EXCEPT ![h] = Detached(h, w)]
        /\ flock' = IF Detached(h, w) = Off /\ helper[h].answer = "lock"
                      THEN [flock EXCEPT ![helper[h].file] = NoOne] ELSE flock
        /\ me' = [me EXCEPT ![w] = [Idle EXCEPT !.at = how]]
  BY <1>3 DEF GiveUp
<1>5. PICK k \in HelperState : k = Detached(h, w)
  BY DetachedFacts
<1>6. HelperOK(h, helper[h])
  BY HelperFacts
<1>7. HelperMoves({w}, h, k) /\ w \notin k.interested
  BY <1>4, <1>5, DetachedFacts, OffType DEF HelperMoves, Unfinished
<1>8. LocksKept({w}, h)
  <2>1. CASE Detached(h, w) = Off /\ helper[h].answer = "lock"
    BY <1>3, <1>4, <1>6, <2>1, LockMoves DEF HelperOK
  <2>2. CASE ~(Detached(h, w) = Off /\ helper[h].answer = "lock")
    BY <1>4, <2>2, LocksStay
  <2> QED BY <2>1, <2>2
<1>9. HelperOK(h, k)'
  <2>1. CASE k = Off
    BY <2>1, OffType DEF HelperOK
  <2>2. CASE k # Off
    <3>1. flock' = flock
      BY <1>4, <1>5, <2>2
    <3>2. /\ k.st = helper[h].st /\ k.file = helper[h].file /\ k.answer = helper[h].answer
          /\ k.st = "done" => k.interested # {}
      BY <1>5, <2>2, DetachedFacts
    <3> QED BY <1>6, <3>1, <3>2 DEF HelperOK
  <2> QED BY <2>1, <2>2
<1> DEFINE m == [Idle EXCEPT !.at = how]
<1>10. m \in WriterState /\ m.at # "wait" /\ me' = [me EXCEPT ![w] = m]
  BY <1>4, EndState DEF Ended
<1>11. WriterOK(w, m)'
  BY EndOK DEF Ended
<1>12. SimpleOK'
  BY <1>1, <1>2 DEF SimpleOK
<1>13. helper' = [helper EXCEPT ![h] = k]
  BY <1>4, <1>5
<1> HIDE DEF m
<1> QED BY <1>2, <1>3, <1>7, <1>8, <1>9, <1>10, <1>11, <1>12, <1>13, WaiterKeeps

(***************************************************************************)
(* The invariant.                                                          *)
(***************************************************************************)

\* The daemon's end takes its iterations, its helpers and their locks with it,
\* and leaves the other processes theirs.
LEMMA ExitKeeps == LockInv /\ Exit => LockInv'
<1> SUFFICES ASSUME LockInv, Exit PROVE LockInv'
  OBVIOUS
<1>1. /\ LockTypeOK /\ used \subseteq Ident /\ gen \in [Ident -> Nat] /\ unlinks \in Nat
      /\ flock \in [Ident -> {NoOne} \cup ({"writer"} \X Writer) \cup ({"helper"} \X Helper)]
      /\ me \in [Writer -> WriterState] /\ lockFile \in Ident \cup {None}
  BY TypeFacts DEF LockInv
<1>2. /\ exited' = TRUE
      /\ UNCHANGED <<dir, content, lockFile, used, gen, unlinks, removing, removals, gate, closed,
                     faults>>
      /\ \A w \in Writer : me'[w] = IF w \in Rebuilder THEN [Idle EXCEPT !.at = "dead"] ELSE me[w]
      /\ \A h \in Helper : helper'[h] = Off
  BY DEF Exit, disk, removal
<1>3. \A w \in Rebuilder : me'[w] \in WriterState /\ me'[w].at # "wait" /\ WriterOK(w, me[w])'
  <2> SUFFICES ASSUME NEW w \in Rebuilder
               PROVE  me'[w] \in WriterState /\ me'[w].at # "wait" /\ WriterOK(w, me[w])'
    OBVIOUS
  <2>1. w \in Writer /\ "dead" \in Ended
    BY DEF Writer, Ended
  <2>2. me'[w] = [Idle EXCEPT !.at = "dead"]
    BY <1>2, <2>1
  <2> QED BY <2>1, <2>2, EndState, EndOK
<1>4. /\ flock' \in [Ident -> {NoOne} \cup ({"writer"} \X Writer) \cup ({"helper"} \X Helper)]
      /\ \A i \in Ident : \A v \in Other : flock[i] = <<"writer", v>> => flock'[i] = <<"writer", v>>
  BY <1>1, WriterAssumption DEF Exit
<1>5. \A w \in Writer : w \notin Rebuilder =>
        me'[w] = me[w] /\ me[w] \in WriterState /\ me[w].at # "wait" /\ WriterOK(w, me[w])'
  <2> SUFFICES ASSUME NEW w \in Writer, w \notin Rebuilder
               PROVE  me'[w] = me[w] /\ me[w] \in WriterState /\ me[w].at # "wait"
                        /\ WriterOK(w, me[w])'
    OBVIOUS
  <2>1. me'[w] = me[w] /\ me[w] \in WriterState /\ WriterOK(w, me[w])
    BY <1>2, InvFacts
  <2>2. w \in Other /\ me[w].at # "wait"
    BY <2>1 DEF Writer, WriterOK, PlaceOK, Ended
  <2>3. SharedKept(w, me[w])
    BY <1>1, <1>2, <1>4, <2>2 DEF SharedKept
  <2> QED BY <1>1, <2>1, <2>2, <2>3, WriterKept
<1>6. \A w \in Writer : me'[w] \in WriterState /\ me'[w].at # "wait" /\ WriterOK(w, me[w])'
  BY <1>3, <1>5
<1>7. me' \in [Writer -> WriterState] /\ helper' \in [Helper -> HelperState]
  <2>1. me' = [w \in Writer |-> me'[w]] /\ helper' = [h \in Helper |-> Off]
    BY DEF Exit
  <2> QED BY <1>6, <2>1, OffType
<1>8. LockTypeOK'
  BY <1>1, <1>2, <1>4, <1>7 DEF LockTypeOK
<1>9. \A h \in Helper : HelperOK(h, helper[h])'
  BY <1>2, OffType DEF HelperOK
<1>10. InterestOK' /\ OneHelperPerFile'
  BY <1>2, <1>6, OffType DEF InterestOK, At, OneHelperPerFile, Waiting, Unfinished
<1>11. RemovalOK'
  BY <1>2 DEF LockInv, RemovalOK
<1> QED BY <1>6, <1>8, <1>9, <1>10, <1>11 DEF LockInv

LEMMA InitInv == Init => LockInv
<1> SUFFICES ASSUME Init PROVE LockInv
  OBVIOUS
<1>1. LockTypeOK
  <2>1. lockFile \in Ident \cup {None} /\ used \subseteq Ident
    BY IdentAssumption DEF Init, Ident, None
  <2>2. dir \in BOOLEAN /\ content \in {"none", "leftover", "index"}
    BY DEF Init
  <2>3. me \in [Writer -> WriterState] /\ helper \in [Helper -> HelperState]
    BY IdleType, OffType DEF Init
  <2>4. /\ gen \in [Ident -> Nat]
        /\ flock \in [Ident -> {NoOne} \cup ({"writer"} \X Writer) \cup ({"helper"} \X Helper)]
    BY DEF Init
  <2>5. /\ removing = {} /\ gate = {} /\ closed = FALSE /\ exited = FALSE
        /\ removals = 0 /\ unlinks = 0 /\ faults = 0
    BY DEF Init
  <2>6. removals \in 0 .. MaxRemovals /\ unlinks \in 0 .. MaxRemovals /\ faults \in 0 .. MaxFaults
    BY <2>5, BoundsAssumption
  <2> QED BY <2>1, <2>2, <2>3, <2>4, <2>5, <2>6 DEF LockTypeOK
<1>2. ASSUME NEW w \in Writer PROVE WriterOK(w, me[w])
  <2>1. me[w] = Idle
    BY DEF Init
  <2>2. Idle.at = "start" /\ Idle.seen = FALSE /\ Idle.tries = 0
    BY DEF Idle
  <2>3. "start" \notin Known
    BY DEF Known, Opened, Locked
  <2>4. PlaceOK(w, Idle) /\ FileOK(Idle) /\ HoldOK(w, Idle) /\ WaitOK(Idle)
    BY <2>2, <2>3, BoundsAssumption DEF PlaceOK, FileOK, HoldOK, WaitOK, Known
  <2>5. PassedOK(w, Idle) /\ GateOK(w, Idle) /\ SeenOK(Idle)
    BY <2>2 DEF PassedOK, Awaits, GateOK, SeenOK
  <2> QED BY <2>1, <2>4, <2>5 DEF WriterOK
<1>3. \A h \in Helper : helper[h] = Off
  BY DEF Init
<1>4. \A h \in Helper : HelperOK(h, helper[h])
  BY <1>3, OffType DEF HelperOK
<1>5. InterestOK /\ OneHelperPerFile
  BY <1>3, OffType DEF Init, Idle, InterestOK, At, OneHelperPerFile, Waiting, Unfinished
<1>6. RemovalOK
  BY DEF Init, RemovalOK
<1> QED BY <1>1, <1>2, <1>4, <1>5, <1>6 DEF LockInv

LEMMA StutterKeeps == LockInv /\ UNCHANGED vars => LockInv'
<1> SUFFICES ASSUME LockInv, UNCHANGED vars PROVE LockInv'
  OBVIOUS
<1>1. UNCHANGED <<dir, content, lockFile, used, gen, flock, me, helper, gate, removing, unlinks,
                  removals, closed, exited, faults>>
  BY DEF vars, disk, removal, daemon
<1>2. SimpleOK' /\ RemovalOK'
  BY <1>1, RemovalFacts DEF SimpleOK, RemovalOK
<1> QED BY <1>1, <1>2, OutsideKeeps, RemovalFacts

LEMMA StepInv == LockInv /\ [Next]_vars => LockInv'
<1> SUFFICES ASSUME LockInv, [Next]_vars PROVE LockInv'
  OBVIOUS
<1>1. ASSUME NEW w \in Writer, Step(w) PROVE LockInv'
  <2>1. CASE Start(w) \/ OpenCreating(w) \/ OpenExisting(w) \/ CreateExisting(w)
    BY <2>1, StartKeeps, OpenCreatingKeeps, OpenExistingKeeps, CreateExistingKeeps
  <2>2. CASE LookForContent(w) \/ ReadGeneration(w) \/ ReadCommitted(w) \/ Try(w)
    BY <2>2, LookForContentKeeps, ReadGenerationKeeps, ReadCommittedKeeps, TryKeeps
  <2>3. CASE Attach(w) \/ TakeAnswer(w) \/ WaitAgain(w) \/ GiveUp(w) \/ Arrived(w)
    BY <2>3, AttachKeeps, TakeAnswerKeeps, WaitAgainKeeps, GiveUpKeeps, ArrivedKeeps
  <2>4. CASE Check(w) \/ CheckAgain(w) \/ Enter(w) \/ Begin(w) \/ Commit(w) \/ Fail(w)
    BY <2>4, CheckKeeps, CheckAgainKeeps, EnterKeeps, BeginKeeps, CommitKeeps, FailKeeps
  <2>5. CASE OpenOther(w) \/ FlockOther(w) \/ NamedOther(w)
    BY <2>5, OpenOtherKeeps, FlockOtherKeeps, NamedOtherKeeps
  <2> QED BY <1>1, <2>1, <2>2, <2>3, <2>4, <2>5 DEF Step
<1>2. ASSUME NEW w \in Writer, Die(w) \/ Cancel(w) PROVE LockInv'
  BY <1>2, DieKeeps, CancelKeeps
<1>3. ASSUME NEW h \in Helper, HelperStep(h) \/ HelperFails(h) PROVE LockInv'
  BY <1>3, HelperLockKeeps, HelperExitKeeps, HelperFailsKeeps DEF HelperStep
<1>4. CASE Remove \/ RemoveContent \/ RemoveLockFile \/ RemoveDir \/ Close \/ Exit
  BY <1>4, RemoveKeeps, RemoveContentKeeps, RemoveLockFileKeeps, RemoveDirKeeps, CloseKeeps,
     ExitKeeps
<1>5. CASE UNCHANGED vars
  BY <1>5, StutterKeeps
<1> QED BY <1>1, <1>2, <1>3, <1>4, <1>5 DEF Next

\* What each writer and each helper thread has in hand agrees with the locks,
\* the gate, the removals and the recorded commits, in every behaviour.
THEOREM LockInvariance == Spec => []LockInv
<1>1. Init => LockInv
  BY InitInv
<1>2. LockInv /\ [Next]_vars => LockInv'
  BY StepInv
<1> QED BY <1>1, <1>2, PTL DEF Spec

(***************************************************************************)
(* What follows from it.                                                   *)
(***************************************************************************)

\* The state of the lock, the helpers, the gate and the removal keeps its types.
THEOREM TypeCorrect == Spec => []LockTypeOK
<1>1. LockInv => LockTypeOK
  BY DEF LockInv
<1> QED BY <1>1, LockInvariance, PTL

\* SharedLockWait::attach never starts a second helper thread on a lock file
\* one still blocks on, whoever gives up and comes back.
THEOREM HelpersDoNotPileUp == Spec => []OneHelperPerFile
<1>1. LockInv => OneHelperPerFile
  BY DEF LockInv
<1> QED BY <1>1, LockInvariance, PTL

\* A lock that a finished helper left in its answer has a waiter that will take
\* it or drop it: the daemon never keeps a lock for nobody.
THEOREM LockHasWaiter == Spec => []LockIsWanted
<1>1. LockInv => LockIsWanted
  <2> SUFFICES ASSUME LockInv, NEW h \in Helper, helper[h].st = "done"
               PROVE  \E w \in helper[h].interested : At(w, "wait") /\ me[w].on = h
    BY DEF LockIsWanted
  <2>1. PICK w : w \in helper[h].interested
    BY HelperFacts DEF HelperOK
  <2>2. w \in Writer
    BY <2>1, HelperFacts DEF HelperState, Writer
  <2> QED BY <2>1, <2>2 DEF LockInv, InterestOK
<1> QED BY <1>1, LockInvariance, PTL

\* Two transactions overlap only when the lock file was unlinked after one of
\* them last found its hold current: otherwise both would hold the lock of the
\* one file the path names.
THEOREM Exclusion == Spec => []TransactionsExclude
<1>1. LockInv => TransactionsExclude
  <2> SUFFICES ASSUME LockInv, NEW v \in Writer, NEW w \in Writer, v # w,
                      At(v, "writing"), At(w, "writing"),
                      ~(me[v].passed < unlinks), ~(me[w].passed < unlinks)
               PROVE  FALSE
    BY DEF TransactionsExclude
  <2>1. unlinks \in Nat /\ me[v].passed \in Nat /\ me[w].passed \in Nat
    BY TypeFacts, InvFacts, BoundsAssumption DEF LockInv, WriterState
  <2>2. WriterOK(v, me[v]) /\ WriterOK(w, me[w])
    BY InvFacts
  <2>3. me[v].file = lockFile /\ me[w].file = lockFile
    BY <2>1, <2>2 DEF WriterOK, PassedOK, CurrentOK, At
  <2>4. flock[lockFile] = <<"writer", v>> /\ flock[lockFile] = <<"writer", w>>
    BY <2>2, <2>3 DEF WriterOK, HoldOK, Locked, At
  <2> QED BY <2>4
<1> QED BY <1>1, LockInvariance, PTL

\* The daemon's exit never cuts a transaction of its own short: finish_runtime
\* waits for the gate, and the gate counts every one of them.
THEOREM ExitCutsNothing == Spec => NeverCut
<1>1. LockInv /\ [Next]_vars =>
        [exited' /\ ~exited => \A w \in Rebuilder : me[w].at \notin {"entered", "writing"}]_vars
  <2> SUFFICES ASSUME LockInv, Next, exited', ~exited, NEW w \in Rebuilder,
                      me[w].at \in {"entered", "writing"}
               PROVE  FALSE
    OBVIOUS
  <2>1. Exit
    <3>1. ASSUME NEW v \in Writer, Step(v) PROVE exited' = exited
      <4>1. CASE Start(v) \/ OpenCreating(v) \/ OpenExisting(v) \/ CreateExisting(v)
        BY <4>1 DEF Start, OpenCreating, OpenExisting, CreateExisting, daemon
      <4>2. CASE LookForContent(v) \/ ReadGeneration(v) \/ ReadCommitted(v) \/ Try(v)
        BY <4>2 DEF LookForContent, ReadGeneration, ReadCommitted, Try, daemon
      <4>3. CASE Attach(v) \/ TakeAnswer(v) \/ WaitAgain(v) \/ GiveUp(v) \/ Arrived(v)
        BY <4>3 DEF Attach, TakeAnswer, WaitAgain, GiveUp, Arrived, daemon
      <4>4. CASE Check(v) \/ CheckAgain(v) \/ Enter(v) \/ Begin(v) \/ Commit(v) \/ Fail(v)
        BY <4>4 DEF Check, CheckAgain, Enter, Begin, Commit, Fail, daemon
      <4>5. CASE OpenOther(v) \/ FlockOther(v) \/ NamedOther(v)
        BY <4>5 DEF OpenOther, FlockOther, NamedOther, daemon
      <4> QED BY <3>1, <4>1, <4>2, <4>3, <4>4, <4>5 DEF Step
    <3>2. ASSUME NEW v \in Writer, Die(v) \/ Cancel(v) PROVE exited' = exited
      BY <3>2 DEF Die, Cancel, daemon
    <3>3. ASSUME NEW h \in Helper, HelperStep(h) \/ HelperFails(h) PROVE exited' = exited
      BY <3>3 DEF HelperStep, HelperLock, HelperExit, HelperFails, daemon
    <3>4. CASE Remove \/ RemoveContent \/ RemoveLockFile \/ RemoveDir \/ Close
      BY <3>4 DEF Remove, RemoveContent, RemoveLockFile, RemoveDir, Close, daemon
    <3> QED BY <3>1, <3>2, <3>3, <3>4 DEF Next
  <2>2. w \in gate
    BY InvFacts DEF Writer, WriterOK, GateOK
  <2> QED BY <2>1, <2>2 DEF Exit
<1> QED BY <1>1, LockInvariance, PTL DEF Spec, NeverCut

\* A step of v moves no other writer.
LEMMA MovesAlone ==
  ASSUME me \in [Writer -> WriterState], NEW v \in Writer, NEW w \in Writer, w # v,
         Step(v) \/ Die(v) \/ Cancel(v)
  PROVE  me'[w].at = me[w].at
<1>1. CASE Start(v) \/ OpenCreating(v) \/ OpenExisting(v) \/ CreateExisting(v)
  BY <1>1 DEF Start, OpenCreating, OpenExisting, CreateExisting, OpenOrCreate, Goto, End
<1>2. CASE LookForContent(v) \/ ReadGeneration(v) \/ ReadCommitted(v) \/ Try(v)
  BY <1>2 DEF LookForContent, ReadGeneration, ReadCommitted, Try, Goto, End
<1>3. CASE Attach(v)
  BY <1>3 DEF Attach, WaitOn, StartHelper, SpawnFails, End
<1>4. CASE TakeAnswer(v) \/ WaitAgain(v) \/ GiveUp(v)
  BY <1>4 DEF TakeAnswer, WaitAgain, GiveUp, End
<1>5. CASE Arrived(v) \/ Check(v) \/ CheckAgain(v) \/ Enter(v)
  BY <1>5 DEF Arrived, Hold, Check, CheckAgain, Refuse, Enter, Goto, End
<1>6. CASE Begin(v) \/ Fail(v)
  BY <1>6 DEF Begin, Fail, End
<1>7. CASE Commit(v)
  <2>1. me[w] \in WriterState
    OBVIOUS
  <2>2. [me[w] EXCEPT !.seen = TRUE].at = me[w].at
    BY <2>1 DEF WriterState
  <2>3. me'[w] = me[w] \/ me'[w] = [me[w] EXCEPT !.seen = TRUE]
    BY <1>7 DEF Commit
  <2> QED BY <2>2, <2>3
<1>8. CASE OpenOther(v) \/ FlockOther(v) \/ NamedOther(v)
  BY <1>8 DEF OpenOther, FlockOther, NamedOther, OpenOrCreate, Goto
<1>9. CASE Die(v) \/ Cancel(v)
  BY <1>9 DEF Die, Cancel, End
<1> QED BY <1>1, <1>2, <1>3, <1>4, <1>5, <1>6, <1>7, <1>8, <1>9 DEF Step

\* A rebuild does not write an index back that was removed while it waited: the
\* index it saw, or that was committed on its lock file since it read the
\* count, is there at its last check, unless the lock file was unlinked since
\* it was opened; inode numbers may be used again.
THEOREM RemovalsAreSeen == Spec => RemovalIsSeen
<1>1. LockInv /\ [Next]_vars =>
        [\A w \in Rebuilder :
           At(w, "built") /\ At(w, "checked")' /\ me[w].seen /\ me[w].passed = unlinks =>
             content = "index"]_vars
  <2> SUFFICES ASSUME LockInv, Next, NEW w \in Rebuilder,
                      At(w, "built"), At(w, "checked")', me[w].seen, me[w].passed = unlinks
               PROVE  content = "index"
    OBVIOUS
  <2>1. w \in Writer /\ me \in [Writer -> WriterState] /\ me[w].saw
    BY InvFacts DEF Writer, WriterOK, SeenOK, At
  <2>2. me'[w].at # me[w].at
    BY DEF At
  <2>3. CheckAgain(w)
    <3>1. ASSUME NEW v \in Writer, Step(v) \/ Die(v) \/ Cancel(v) PROVE v = w
      BY <2>1, <2>2, <3>1, MovesAlone
    <3>2. ASSUME Step(w), ~CheckAgain(w) PROVE FALSE
      BY <3>2 DEF Step, At, Start, OpenCreating, OpenExisting, CreateExisting, LookForContent,
                  ReadGeneration, ReadCommitted, Try, Attach, TakeAnswer, WaitAgain, GiveUp, Arrived,
                  Check, Enter, Begin, Commit, Fail, OpenOther, FlockOther, NamedOther
    <3>3. ASSUME Die(w) PROVE FALSE
      BY <3>3, WriterAssumption DEF Die
    <3>4. ASSUME Cancel(w) PROVE FALSE
      BY <2>1, <2>2, <3>4 DEF Cancel, WriterState
    <3>5. ASSUME NEW h \in Helper, HelperStep(h) \/ HelperFails(h) PROVE FALSE
      BY <2>2, <3>5 DEF HelperStep, HelperLock, HelperExit, HelperFails
    <3>6. ASSUME Remove \/ RemoveContent \/ RemoveLockFile \/ RemoveDir \/ Close PROVE FALSE
      BY <2>2, <3>6 DEF Remove, RemoveContent, RemoveLockFile, RemoveDir, Close
    <3>7. ASSUME Exit PROVE FALSE
      BY <2>1, <3>7 DEF Exit, Idle, At
    <3> QED BY <3>1, <3>2, <3>3, <3>4, <3>5, <3>6, <3>7 DEF Next
  <2>4. StillThere(w)
    <3>1. ASSUME ~StillThere(w) PROVE FALSE
      <4>1. PICK how \in Ended : me' = [me EXCEPT ![w] = [Idle EXCEPT !.at = how]]
        BY <2>3, <3>1 DEF CheckAgain, Refuse, End, Ended
      <4>2. me'[w].at = how
        BY <2>1, <4>1 DEF Idle
      <4> QED BY <4>2 DEF At, Ended
    <3> QED BY <3>1
  <2> QED BY <2>1, <2>4 DEF StillThere
<1> QED BY <1>1, LockInvariance, PTL DEF Spec, RemovalIsSeen
=============================================================================
