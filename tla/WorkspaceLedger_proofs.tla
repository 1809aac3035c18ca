----------------------- MODULE WorkspaceLedger_proofs -----------------------
(***************************************************************************)
(* Proofs about the memory ledger of WorkspaceManager: the counters of     *)
(* AdmissionState are the sums they stand for, whatever saturates.         *)
(***************************************************************************)
EXTENDS WorkspaceManager_proofs, FiniteSetTheorems, WellFoundedInduction

(***************************************************************************)
(* Sums over finite sets.  SumOf folds in the order that CHOOSE picks; the *)
(* lemmas say that it is the sum in any order.  Induction is the existence *)
(* of a least element, with the property to prove as a set.                *)
(***************************************************************************)

LEMMA Least ==
  ASSUME NEW T, T \subseteq Nat, T # {}
  PROVE  \E x \in T : \A y \in T : x <= y
<1>1. PICK x \in T : \A y \in T : ~(<<y, x>> \in OpToRel(<, Nat))
  BY WFMin, NatLessThanWellFounded
<1>2. \A y \in T : ~(y < x)
  BY <1>1 DEF OpToRel
<1> QED BY <1>2

\* A set of subsets that has a subset whenever it has that subset less any of
\* its elements has all of them.
LEMMA SubsetInduction ==
  ASSUME NEW S, IsFiniteSet(S), NEW Q,
         \A u \in SUBSET S : (\A x \in u : u \ {x} \in Q) => u \in Q
  PROVE  \A u \in SUBSET S : u \in Q
<1> DEFINE T == {Cardinality(u) : u \in (SUBSET S) \ Q}
<1> SUFFICES ASSUME (SUBSET S) \ Q # {} PROVE FALSE
  OBVIOUS
<1>1. T \subseteq Nat /\ T # {}
  <2>1. \A u \in SUBSET S : Cardinality(u) \in Nat
    BY FS_Subset, FS_CardinalityType
  <2>2. PICK u \in SUBSET S : u \notin Q
    OBVIOUS
  <2> QED BY <2>1, <2>2
<1>2. PICK n \in T : \A m \in T : n <= m
  <2> HIDE DEF T
  <2> QED BY <1>1, Least
<1>3. PICK u \in (SUBSET S) \ Q : n = Cardinality(u)
  OBVIOUS
<1>4. \A x \in u : u \ {x} \in Q
  <2> SUFFICES ASSUME NEW x \in u, u \ {x} \notin Q PROVE FALSE
    OBVIOUS
  <2>1. Cardinality(u \ {x}) \in T
    OBVIOUS
  <2>2. IsFiniteSet(u)
    BY FS_Subset
  <2>3. Cardinality(u \ {x}) = Cardinality(u) - 1 /\ Cardinality(u) \in Nat
    BY <2>2, FS_RemoveElement, FS_CardinalityType
  <2>4. n <= Cardinality(u \ {x})
    BY <1>2, <2>1
  <2> QED BY <1>3, <2>3, <2>4
<1>5. u \in SUBSET S /\ u \notin Q
  OBVIOUS
<1>6. u \in Q
  BY <1>4, <1>5
<1> QED BY <1>5, <1>6

\* The function that SumOf reads its value from.
Pick(s) == CHOOSE x \in s : TRUE
SumAt(f, h, s) == IF s = {} THEN 0 ELSE f[Pick(s)] + h[s \ {Pick(s)}]
Sums(f, S, h) == h = [s \in SUBSET S |-> SumAt(f, h, s)]

LEMMA PickIn == ASSUME NEW s, s # {} PROVE Pick(s) \in s
BY DEF Pick

LEMMA SumOfReads == ASSUME NEW f, NEW S PROVE SumOf(f, S) = (CHOOSE h : Sums(f, S, h))[S]
BY Zenon DEF SumOf, MapThenSumSet, MapThenFoldSet, Sums, SumAt, Pick

\* There is such a function: built up from the subsets of at most n elements.
Small(S, n) == {s \in SUBSET S : Cardinality(s) <= n}
SumsTo(f, S, n, h) == h = [s \in Small(S, n) |-> SumAt(f, h, s)]

LEMMA SumsToNext ==
  ASSUME NEW f, NEW S, IsFiniteSet(S), NEW n \in Nat, NEW h, SumsTo(f, S, n, h)
  PROVE  \E g : SumsTo(f, S, n + 1, g)
<1> DEFINE g == [s \in Small(S, n + 1) |-> IF s \in Small(S, n) THEN h[s] ELSE SumAt(f, h, s)]
<1>0. Small(S, n) \subseteq Small(S, n + 1)
  BY FS_Subset, FS_CardinalityType DEF Small
<1>1. \A s \in Small(S, n) : g[s] = h[s] /\ h[s] = SumAt(f, h, s)
  BY <1>0 DEF SumsTo
<1>2. \A s \in Small(S, n + 1) : s # {} => s \ {Pick(s)} \in Small(S, n)
  <2> SUFFICES ASSUME NEW s \in Small(S, n + 1), s # {} PROVE s \ {Pick(s)} \in Small(S, n)
    OBVIOUS
  <2>1. IsFiniteSet(s) /\ s \in SUBSET S /\ Cardinality(s) <= n + 1
    BY FS_Subset DEF Small
  <2>2. Cardinality(s \ {Pick(s)}) = Cardinality(s) - 1 /\ Cardinality(s) \in Nat
    BY <2>1, PickIn, FS_RemoveElement, FS_CardinalityType
  <2> QED BY <2>1, <2>2 DEF Small
<1>3. \A s \in Small(S, n + 1) : g[s] = SumAt(f, g, s)
  <2> SUFFICES ASSUME NEW s \in Small(S, n + 1) PROVE g[s] = SumAt(f, g, s)
    OBVIOUS
  <2>1. g[s] = SumAt(f, h, s)
    BY <1>1
  <2>2. SumAt(f, h, s) = SumAt(f, g, s)
    BY <1>1, <1>2 DEF SumAt
  <2> QED BY <2>1, <2>2
<1>4. g = [s \in Small(S, n + 1) |-> SumAt(f, g, s)]
  BY <1>3
<1> HIDE DEF g
<1> QED BY <1>4 DEF SumsTo

LEMMA SumsToExist ==
  ASSUME NEW f, NEW S, IsFiniteSet(S)
  PROVE  \A n \in Nat : \E h : SumsTo(f, S, n, h)
<1> DEFINE T == {n \in Nat : ~ \E h : SumsTo(f, S, n, h)}
<1> SUFFICES ASSUME T # {} PROVE FALSE
  OBVIOUS
<1>1. PICK n \in T : \A m \in T : n <= m
  <2>1. T \subseteq Nat
    OBVIOUS
  <2> HIDE DEF T
  <2> QED BY <2>1, Least
<1>2. CASE n = 0
  <2> DEFINE g == [s \in Small(S, 0) |-> 0]
  <2>1. \A s \in Small(S, 0) : s = {}
    BY FS_Subset, FS_EmptySet, FS_CardinalityType DEF Small
  <2>2. \A s \in Small(S, 0) : SumAt(f, g, s) = 0
    BY <2>1 DEF SumAt
  <2>3. g = [s \in Small(S, 0) |-> SumAt(f, g, s)]
    BY <2>2
  <2> HIDE DEF g
  <2> QED BY <1>2, <2>3 DEF SumsTo
<1>3. CASE n # 0
  <2>1. n - 1 \in Nat /\ n - 1 \notin T
    BY <1>1, <1>3
  <2>2. PICK h : SumsTo(f, S, n - 1, h)
    BY <2>1
  <2>3. \E g : SumsTo(f, S, (n - 1) + 1, g)
    <3> HIDE DEF T
    <3> QED BY <2>1, <2>2, SumsToNext
  <2>4. (n - 1) + 1 = n
    OBVIOUS
  <2> QED BY <2>3, <2>4
<1> QED BY <1>2, <1>3

LEMMA SumsExist ==
  ASSUME NEW f, NEW S, IsFiniteSet(S)
  PROVE  \E h : Sums(f, S, h)
<1>1. Cardinality(S) \in Nat /\ Small(S, Cardinality(S)) = SUBSET S
  BY FS_Subset, FS_CardinalityType DEF Small
<1>2. PICK h : SumsTo(f, S, Cardinality(S), h)
  BY <1>1, SumsToExist
<1> QED BY <1>1, <1>2 DEF SumsTo, Sums

\* Two such functions agree where both are defined.
LEMMA SumsAgree ==
  ASSUME NEW f, NEW S, IsFiniteSet(S), NEW h, Sums(f, S, h),
         NEW R \in SUBSET S, NEW g, Sums(f, R, g)
  PROVE  \A u \in SUBSET R : g[u] = h[u]
<1> DEFINE Q == {u \in SUBSET R : g[u] = h[u]}
<1>1. IsFiniteSet(R)
  BY FS_Subset
<1>2. ASSUME NEW u \in SUBSET R, \A x \in u : u \ {x} \in Q PROVE u \in Q
  <2>1. g[u] = SumAt(f, g, u) /\ h[u] = SumAt(f, h, u)
    BY DEF Sums
  <2>2. u # {} => u \ {Pick(u)} \in Q
    BY <1>2, PickIn
  <2>3. SumAt(f, g, u) = SumAt(f, h, u)
    BY <2>2 DEF SumAt
  <2> QED BY <2>1, <2>3
<1>3. \A u \in SUBSET R : u \in Q
  <2> HIDE DEF Q
  <2> QED BY <1>1, <1>2, SubsetInduction
<1> QED BY <1>3

\* The equation of a sum.
LEMMA SumOfIs ==
  ASSUME NEW f, NEW S, IsFiniteSet(S)
  PROVE  SumOf(f, S) = IF S = {} THEN 0 ELSE f[Pick(S)] + SumOf(f, S \ {Pick(S)})
<1> DEFINE R == S \ {Pick(S)}
           h == CHOOSE h : Sums(f, S, h)
           g == CHOOSE g : Sums(f, R, g)
<1>1. IsFiniteSet(R) /\ R \in SUBSET S
  BY FS_Subset
<1>2. Sums(f, S, h) /\ Sums(f, R, g)
  BY <1>1, SumsExist
<1>3. SumOf(f, S) = h[S] /\ SumOf(f, R) = g[R]
  BY SumOfReads
<1> HIDE DEF h, g
<1>4. h[S] = IF S = {} THEN 0 ELSE f[Pick(S)] + h[R]
  BY <1>2 DEF Sums, SumAt
<1>5. g[R] = h[R]
  BY <1>1, <1>2, SumsAgree
<1> QED BY <1>3, <1>4, <1>5

LEMMA SumOfNat ==
  ASSUME NEW f, NEW S, IsFiniteSet(S), \A x \in S : f[x] \in Nat
  PROVE  SumOf(f, S) \in Nat
<1> DEFINE Q == {u \in SUBSET S : SumOf(f, u) \in Nat}
<1>1. ASSUME NEW u \in SUBSET S, \A x \in u : u \ {x} \in Q PROVE u \in Q
  <2>1. SumOf(f, u) = IF u = {} THEN 0 ELSE f[Pick(u)] + SumOf(f, u \ {Pick(u)})
    BY FS_Subset, SumOfIs
  <2>2. u # {} => Pick(u) \in u
    BY PickIn
  <2> QED BY <1>1, <2>1, <2>2
<1>2. \A u \in SUBSET S : u \in Q
  <2> HIDE DEF Q
  <2> QED BY <1>1, SubsetInduction
<1> QED BY <1>2

\* Any element may be taken out first.
LEMMA SumOfRemove ==
  ASSUME NEW f, NEW S, IsFiniteSet(S), \A x \in S : f[x] \in Nat, NEW x \in S
  PROVE  SumOf(f, S) = f[x] + SumOf(f, S \ {x})
<1> DEFINE Q == {u \in SUBSET S : \A y \in u : SumOf(f, u) = f[y] + SumOf(f, u \ {y})}
<1>1. ASSUME NEW u \in SUBSET S, \A y \in u : u \ {y} \in Q, NEW y \in u
      PROVE  SumOf(f, u) = f[y] + SumOf(f, u \ {y})
  <2> DEFINE z == Pick(u)
  <2>1. z \in u /\ IsFiniteSet(u)
    BY PickIn, FS_Subset
  <2>2. SumOf(f, u) = f[z] + SumOf(f, u \ {z})
    BY <2>1, SumOfIs
  <2> HIDE DEF z
  <2>3. CASE z = y
    BY <2>2, <2>3
  <2>4. CASE z # y
    <3>1. SumOf(f, u \ {z}) = f[y] + SumOf(f, (u \ {z}) \ {y})
      BY <1>1, <2>1, <2>4
    <3>2. SumOf(f, u \ {y}) = f[z] + SumOf(f, (u \ {y}) \ {z})
      BY <1>1, <2>1, <2>4
    <3>3. (u \ {z}) \ {y} = (u \ {y}) \ {z}
      OBVIOUS
    <3>4. SumOf(f, (u \ {y}) \ {z}) \in Nat
      BY FS_Subset, SumOfNat
    <3>5. f[y] \in Nat /\ f[z] \in Nat
      BY <2>1
    <3> QED BY <2>2, <3>1, <3>2, <3>3, <3>4, <3>5
  <2> QED BY <2>3, <2>4
<1>2. \A u \in SUBSET S : (\A y \in u : u \ {y} \in Q) => u \in Q
  BY <1>1
<1>3. \A u \in SUBSET S : u \in Q
  <2> HIDE DEF Q
  <2> QED BY <1>2, SubsetInduction
<1> QED BY <1>3

LEMMA SumOfAdd ==
  ASSUME NEW f, NEW S, IsFiniteSet(S), NEW x, x \notin S, \A y \in S \cup {x} : f[y] \in Nat
  PROVE  SumOf(f, S \cup {x}) = f[x] + SumOf(f, S)
<1>1. IsFiniteSet(S \cup {x}) /\ (S \cup {x}) \ {x} = S
  BY FS_AddElement
<1>2. SumOf(f, S \cup {x}) = f[x] + SumOf(f, (S \cup {x}) \ {x})
  BY <1>1, SumOfRemove
<1> QED BY <1>1, <1>2

LEMMA SumOfEmpty == ASSUME NEW f PROVE SumOf(f, {}) = 0
BY SumOfIs, FS_EmptySet

\* A sum depends on the values over its set alone.
LEMMA SumOfSame ==
  ASSUME NEW f, NEW g, NEW S, IsFiniteSet(S), \A x \in S : f[x] = g[x]
  PROVE  SumOf(f, S) = SumOf(g, S)
<1> DEFINE Q == {u \in SUBSET S : SumOf(f, u) = SumOf(g, u)}
<1>1. ASSUME NEW u \in SUBSET S, \A x \in u : u \ {x} \in Q PROVE u \in Q
  <2>1. /\ SumOf(f, u) = IF u = {} THEN 0 ELSE f[Pick(u)] + SumOf(f, u \ {Pick(u)})
        /\ SumOf(g, u) = IF u = {} THEN 0 ELSE g[Pick(u)] + SumOf(g, u \ {Pick(u)})
    BY FS_Subset, SumOfIs
  <2>2. u # {} => Pick(u) \in u
    BY PickIn
  <2> QED BY <1>1, <2>1, <2>2
<1>2. \A u \in SUBSET S : u \in Q
  <2> HIDE DEF Q
  <2> QED BY <1>1, SubsetInduction
<1> QED BY <1>2

\* One value of the sum changes.
LEMMA SumOfChange ==
  ASSUME NEW f, NEW g, NEW S, IsFiniteSet(S), NEW x \in S,
         \A y \in S : f[y] \in Nat /\ g[y] \in Nat, \A y \in S \ {x} : f[y] = g[y]
  PROVE  SumOf(f, S) + g[x] = SumOf(g, S) + f[x]
<1>1. SumOf(f, S) = f[x] + SumOf(f, S \ {x}) /\ SumOf(g, S) = g[x] + SumOf(g, S \ {x})
  BY SumOfRemove
<1>2. IsFiniteSet(S \ {x})
  BY FS_Subset
<1>3. SumOf(f, S \ {x}) = SumOf(g, S \ {x}) /\ SumOf(f, S \ {x}) \in Nat
  BY <1>2, SumOfSame, SumOfNat
<1> QED BY <1>1, <1>3

(***************************************************************************)
(* Reservations.  A reservation is taken once, by phase 3, and given back  *)
(* once, by whichever of the failure paths or the commit comes first.      *)
(***************************************************************************)

LEMMA FiniteTasks == IsFiniteSet(Task) /\ IsFiniteSet(Reserving) /\ IsFiniteSet(Committing)
BY FiniteAssumption, FS_Union, FS_Subset DEF Task, Reserving, Committing

\* Nobody but t moves or changes what it asks for.
OthersReserve(t) == \A u \in Task \ {t} : pc'[u] = pc[u] /\ est'[u] = est[u]

LEMMA ReservationKept ==
  ASSUME TypeOK, TypeOK', ReservedExact, NEW t \in Task, OthersReserve(t),
         HoldsReservation(t)' <=> HoldsReservation(t),
         HoldsReservation(t) => est'[t] = est[t], reserved' = reserved
  PROVE  ReservedExact'
<1>1. Reserving' = Reserving
  BY DEF OthersReserve, Reserving, HoldsReservation
<1>2. \A u \in Reserving : est'[u] = est[u]
  BY DEF OthersReserve, Reserving
<1>3. SumOf(est', Reserving) = SumOf(est, Reserving)
  BY <1>2, FiniteTasks, SumOfSame
<1>4. (SumOf(est, Reserving))' = SumOf(est', Reserving')
  OBVIOUS
<1> QED BY <1>1, <1>3, <1>4 DEF ReservedExact

LEMMA ReservationTaken ==
  ASSUME TypeOK, TypeOK', ReservedExact, NEW t \in Task, OthersReserve(t),
         ~HoldsReservation(t), HoldsReservation(t)',
         est'[t] = est[t], reserved' = reserved + est[t]
  PROVE  ReservedExact'
<1>1. Reserving' = Reserving \cup {t} /\ t \notin Reserving
  BY DEF OthersReserve, Reserving, HoldsReservation
<1>2. \A u \in Reserving \cup {t} : est[u] \in Nat /\ est'[u] = est[u]
  BY DEF OthersReserve, Reserving, TypeOK, TaskTypeOK, Bytes
<1>3. SumOf(est, Reserving \cup {t}) = est[t] + SumOf(est, Reserving)
  BY <1>1, <1>2, FiniteTasks, SumOfAdd
<1>4. SumOf(est', Reserving \cup {t}) = SumOf(est, Reserving \cup {t})
  BY <1>2, FiniteTasks, FS_AddElement, SumOfSame
<1>5. (SumOf(est, Reserving))' = SumOf(est', Reserving')
  OBVIOUS
<1>6. est[t] \in Nat /\ reserved \in Nat
  BY DEF TypeOK, TaskTypeOK, LedgerTypeOK, Bytes
<1> QED BY <1>1, <1>3, <1>4, <1>5, <1>6 DEF ReservedExact

\* The saturating subtraction never saturates.
LEMMA ReservationGivenBack ==
  ASSUME TypeOK, TypeOK', ReservedExact, NEW t \in Task, OthersReserve(t),
         HoldsReservation(t), ~HoldsReservation(t)',
         reserved' = SatSub(reserved, est[t])
  PROVE  ReservedExact'
<1>1. Reserving' = Reserving \ {t} /\ t \in Reserving
  BY DEF OthersReserve, Reserving, HoldsReservation
<1>2. \A u \in Reserving : est[u] \in Nat /\ (u # t => est'[u] = est[u])
  BY DEF OthersReserve, Reserving, TypeOK, TaskTypeOK, Bytes
<1>3. SumOf(est, Reserving) = est[t] + SumOf(est, Reserving \ {t})
  BY <1>1, <1>2, FiniteTasks, SumOfRemove
<1>4. IsFiniteSet(Reserving \ {t})
  BY FiniteTasks, FS_Subset
<1>5. /\ SumOf(est', Reserving \ {t}) = SumOf(est, Reserving \ {t})
      /\ SumOf(est, Reserving \ {t}) \in Nat
  BY <1>2, <1>4, SumOfSame, SumOfNat
<1>6. (SumOf(est, Reserving))' = SumOf(est', Reserving')
  OBVIOUS
<1>7. est[t] \in Nat /\ reserved \in Nat
  BY DEF TypeOK, TaskTypeOK, LedgerTypeOK, Bytes
<1> QED BY <1>1, <1>3, <1>5, <1>6, <1>7 DEF ReservedExact, SatSub

LEMMA ReservationsUntouched ==
  ASSUME ReservedExact, pc' = pc, est' = est, reserved' = reserved
  PROVE  ReservedExact'
<1>1. Reserving' = Reserving
  BY DEF Reserving, HoldsReservation
<1> QED BY <1>1 DEF ReservedExact

LEMMA EvictionReserves ==
  ASSUME NEW k, NEW c, ExecuteEviction(k, c)
  PROVE  reserved' = reserved
BY DEF ExecuteEviction, EvictToTombstone, ledgerVars

LEMMA ReservedStep ==
  ASSUME TypeOK, TypeOK', TaskHasSlot, ReservedExact, [Next]_managerVars
  PROVE  ReservedExact'
<1> USE DEF Task, Goto, managerVars, mapVars, slotVars, ledgerVars, taskVars, localVars
<1> DEFINE Keeps(t) == /\ t \in Task /\ OthersReserve(t)
                       /\ HoldsReservation(t)' <=> HoldsReservation(t)
                       /\ HoldsReservation(t) => est'[t] = est[t]
                       /\ reserved' = reserved
<1>0. ASSUME NEW t, Keeps(t) PROVE ReservedExact'
  BY <1>0, ReservationKept
<1>1. ASSUME NEW l \in Loader, \/ EnterLoading(l) \/ ObserveCancel(l) \/ HonorConsumes(l)
                               \/ HonorFails(l) \/ AbandonLoad(l) \/ FailLoad(l)
      PROVE  Keeps(l)
  BY <1>1 DEF EnterLoading, ObserveCancel, HonorConsumes, HonorFails, AbandonLoad, FailLoad,
     Finish, OthersReserve, HoldsReservation, TypeOK, TaskTypeOK
<1>2. ASSUME NEW l \in Loader, Prepare(l) PROVE Keeps(l)
  BY <1>2 DEF Prepare, OthersReserve, HoldsReservation, TypeOK, TaskTypeOK
<1>3. ASSUME NEW l \in Loader, StoreLoaded(l) PROVE Keeps(l)
  BY <1>3 DEF StoreLoaded, Finish, OthersReserve, HoldsReservation, TypeOK, TaskTypeOK
<1>4. ASSUME NEW l \in Loader, ReservePlan(l) PROVE Keeps(l)
  BY <1>4 DEF ReservePlan, OnEvicted, OthersReserve, HoldsReservation, TypeOK, TaskTypeOK
<1>5. ASSUME NEW l \in Loader, ReserveEvict(l) PROVE Keeps(l)
  BY <1>5, EvictionReserves
     DEF ReserveEvict, OthersReserve, HoldsReservation, TypeOK, TaskTypeOK
<1>6. ASSUME NEW l \in Loader, ReserveReap(l) PROVE Keeps(l)
  BY <1>6 DEF ReserveReap, OthersReserve, HoldsReservation, TypeOK, TaskTypeOK
<1>7. ASSUME NEW l \in Loader, PublishSwap(l) \/ PublishMemory(l) PROVE Keeps(l)
  BY <1>7 DEF PublishSwap, PublishMemory, OthersReserve, HoldsReservation, TypeOK, TaskTypeOK
<1>8. ASSUME NEW l \in Loader, GetOrInsert(l) PROVE Keeps(l)
  BY <1>8 DEF GetOrInsert, OthersReserve, HoldsReservation, TypeOK, TaskTypeOK
<1>9. ASSUME NEW l \in Loader, ReserveAdmit(l) PROVE ReservedExact'
  <2>1. CASE TotalCommitted + est[l] > Limit
    <3>1. Keeps(l)
      BY <1>9, <2>1
         DEF ReserveAdmit, OnBudget, OthersReserve, HoldsReservation, TypeOK, TaskTypeOK
    <3> QED BY <3>1, <1>0
  <2>2. CASE ~(TotalCommitted + est[l] > Limit)
    <3>1. /\ OthersReserve(l) /\ ~HoldsReservation(l) /\ HoldsReservation(l)'
          /\ est'[l] = est[l] /\ reserved' = reserved + est[l]
      BY <1>9, <2>2 DEF ReserveAdmit, OthersReserve, HoldsReservation, TypeOK, TaskTypeOK
    <3> QED BY <3>1, ReservationTaken
  <2> QED BY <2>1, <2>2
<1>10. ASSUME NEW l \in Loader, Build(l) PROVE ReservedExact'
  <2>1. OthersReserve(l) /\ HoldsReservation(l)
    BY <1>10 DEF Build, OthersReserve, HoldsReservation, TypeOK, TaskTypeOK
  <2>2. CASE reserved' = reserved /\ pc'[l] = "publish"
    BY <1>10, <2>1, <2>2, ReservationKept DEF Build, HoldsReservation
  <2>3. CASE reserved' = SatSub(reserved, est[l]) /\ pc'[l] \in {"abandon", "fail"}
    BY <2>1, <2>3, ReservationGivenBack DEF HoldsReservation
  <2> QED BY <1>10, <2>2, <2>3 DEF Build, TypeOK, TaskTypeOK
<1>11. ASSUME NEW l \in Loader, LoadRecheck(l) PROVE ReservedExact'
  <2>1. OthersReserve(l) /\ HoldsReservation(l) /\ est' = est
    BY <1>11 DEF LoadRecheck, OthersReserve, HoldsReservation, TypeOK, TaskTypeOK
  <2>2. CASE reserved' = reserved /\ pc'[l] = "swap"
    BY <2>1, <2>2, ReservationKept DEF HoldsReservation
  <2>3. CASE reserved' = SatSub(reserved, est[l]) /\ pc'[l] = "fail"
    BY <2>1, <2>3, ReservationGivenBack DEF HoldsReservation
  <2>4. \/ reserved' = reserved /\ pc'[l] = "swap"
        \/ reserved' = SatSub(reserved, est[l]) /\ pc'[l] = "fail"
    <3> DEFINE admitted == ~cancelled[at[l]] /\ Registers(at[l]) /\ ~Oversize(l)
    <3>1. /\ pc' = [pc EXCEPT ![l] = IF admitted THEN "swap" ELSE "fail"]
          /\ reserved' = IF admitted THEN reserved ELSE SatSub(reserved, est[l])
      BY <1>11, Zenon DEF LoadRecheck
    <3> HIDE DEF admitted
    <3> QED BY <3>1 DEF TypeOK, TaskTypeOK
  <2> QED BY <2>2, <2>3, <2>4
<1>12. ASSUME NEW l \in Loader, PublishCommit(l) \/ PublishUnwind(l) PROVE ReservedExact'
  <2>1. /\ OthersReserve(l) /\ HoldsReservation(l) /\ ~HoldsReservation(l)'
        /\ reserved' = SatSub(reserved, est[l])
    BY <1>12
       DEF PublishCommit, PublishUnwind, OthersReserve, HoldsReservation, TypeOK, TaskTypeOK
  <2> QED BY <2>1, ReservationGivenBack
<1>13. ASSUME NEW k \in Key, EvictLruPick(k) \/ EvictLruExecute(k) \/ Unload(k) \/ ResetEmpties(k)
       PROVE  ReservedExact'
  BY <1>13, EvictionReserves, ReservationsUntouched
     DEF EvictLruPick, EvictLruExecute, Unload, ResetEmpties
<1>14. ASSUME \/ \E r \in Reader : ReleaseReader(r)
              \/ \E r \in Reader, k \in Key : ServeGraph(r, k)
              \/ RetentionReaper \/ WriteTombstone \/ UNCHANGED managerVars
       PROVE  ReservedExact'
  BY <1>14, WriteTombstoneLocals, ReservationsUntouched DEF ReleaseReader, ServeGraph, RetentionReaper
<1> HIDE DEF Keeps
<1> QED
  BY <1>0, <1>1, <1>2, <1>3, <1>4, <1>5, <1>6, <1>7, <1>8, <1>9, <1>10, <1>11, <1>12, <1>13,
     <1>14
     DEF Next, Environment, LoadStep, Reserve, PublishAndRetain

\* reserved_bytes is the sum of the live reservations (admission.rs, G.5),
\* for any number of tasks, whatever fails, is refused or unwinds: no
\* reservation is dropped twice, none is left behind, and the saturating
\* subtraction of a refund never saturates.
THEOREM ReservationsAreExact == Spec => []ReservedExact
<1>1. Init => TypeOK /\ TaskHasSlot
  BY InitType
<1>2. Init => ReservedExact
  <2> SUFFICES ASSUME Init PROVE ReservedExact
    OBVIOUS
  <2>1. Reserving = {} /\ reserved = 0
    BY DEF Init, Reserving, HoldsReservation
  <2> QED BY <2>1, SumOfEmpty DEF ReservedExact
<1>3. TypeOK /\ TaskHasSlot /\ [Next]_managerVars => (TypeOK /\ TaskHasSlot)'
  BY TypeStep
<1>4. TypeOK /\ TypeOK' /\ TaskHasSlot /\ ReservedExact /\ [Next]_managerVars => ReservedExact'
  BY ReservedStep
<1> QED BY <1>1, <1>2, <1>3, <1>4, PTL DEF Spec

(***************************************************************************)
(* Rolling back.  RollbackGuard restores what PublishSwap and              *)
(* PublishMemory read, two reads of memory_bytes at two moments.  While    *)
(* one task at a time publishes into a slot, they are the same.            *)
(***************************************************************************)

\* What an unwinding commit would restore is what the slot was charged, and
\* nothing but a Loaded slot had a generation to restore.
RollbackExact ==
  \A t \in Task :
    /\ pc[t] = "memory" => old[t].prior = memory[at[t]]
    /\ pc[t] = "commit" => old[t].prior = old[t].prev /\ memory[at[t]] = new[t].bytes
    /\ pc[t] \in {"memory", "commit"} =>
         IF state[at[t]] = "Loaded" THEN old[t].graph # Placeholder
         ELSE old[t].graph = Placeholder /\ old[t].prior = 0

\* Task t moves outside those steps.
Outside(t) ==
  /\ OnlyMoves(t)
  /\ \A u \in Task \ {t} : new'[u] = new[u] /\ old'[u] = old[u]
  /\ pc[t] \notin {"memory", "commit"} /\ pc'[t] \notin {"memory", "commit"}

LEMMA RollbackKept ==
  ASSUME TypeOK, TaskHasSlot, RollbackExact, NEW t \in Task, Outside(t), memory' = memory,
         \A s \in Slot : state'[s] = "Loaded" <=> state[s] = "Loaded"
  PROVE  RollbackExact'
<1> SUFFICES ASSUME NEW u \in Task, pc'[u] \in {"memory", "commit"}
             PROVE  /\ pc'[u] = "memory" => old'[u].prior = memory'[at'[u]]
                    /\ pc'[u] = "commit" => /\ old'[u].prior = old'[u].prev
                                            /\ memory'[at'[u]] = new'[u].bytes
                    /\ IF state'[at'[u]] = "Loaded" THEN old'[u].graph # Placeholder
                       ELSE old'[u].graph = Placeholder /\ old'[u].prior = 0
  BY DEF RollbackExact
<1>1. /\ u # t /\ pc'[u] = pc[u] /\ at'[u] = at[u]
      /\ new'[u] = new[u] /\ old'[u] = old[u]
  BY DEF Outside, OnlyMoves
<1>2. at[u] \in Slot
  BY <1>1 DEF TaskHasSlot
<1> QED BY <1>1, <1>2 DEF RollbackExact

\* Nor is anybody publishing while a tombstone is written.
NobodyPublishes == \A t \in Task : pc[t] \notin PublishPC

LEMMA TombstoneLocks ==
  ASSUME ResidencyInv, WriteTombstone
  PROVE  NobodyPublishes /\ NobodyPublishes'
<1>1. tombstone.next \in TombstoneStep /\ pc' = pc
  BY WriteTombstoneLocals
     DEF WriteTombstone, TombstoneSamples, TombstoneCancels, TombstoneStores, ResetReleases,
     ResetClears, ResetStores, TombstoneStep
<1> QED BY <1>1, TombstoneSlot
        DEF NobodyPublishes, ResidencyInv, TypeOK, Residency, TombstoneIsAlone

LEMMA RollbackLocked ==
  ASSUME \A t \in Task : pc'[t] \notin PublishPC
  PROVE  RollbackExact'
BY DEF RollbackExact, PublishPC

LEMMA RollbackStep ==
  ASSUME ResidencyInv, SinglePublisher, RollbackExact, [Next]_managerVars
  PROVE  RollbackExact'
<1> USE DEF Task, Goto, managerVars, mapVars, slotVars, ledgerVars, taskVars, localVars
<1> DEFINE Keeps(t) == /\ t \in Task /\ Outside(t) /\ memory' = memory
                       /\ \A s \in Slot : state'[s] = "Loaded" <=> state[s] = "Loaded"
<1>0. ASSUME NEW t, Keeps(t) PROVE RollbackExact'
  BY <1>0, RollbackKept DEF ResidencyInv
<1>1. ASSUME NEW l \in Loader, EnterLoading(l) PROVE Keeps(l)
  BY <1>1
     DEF EnterLoading, Finish, Outside, OnlyMoves, ResidencyInv, TypeOK, SlotTypeOK, TaskTypeOK
<1>2. ASSUME NEW l \in Loader, ObserveCancel(l) \/ HonorConsumes(l) PROVE Keeps(l)
  BY <1>2 DEF ObserveCancel, HonorConsumes, Outside, OnlyMoves, ResidencyInv, TypeOK, TaskTypeOK
<1>3. ASSUME NEW l \in Loader, HonorFails(l) \/ FailLoad(l) PROVE Keeps(l)
  BY <1>3 DEF HonorFails, FailLoad, TransitionState, Finish, Outside, OnlyMoves, ResidencyInv,
     TypeOK, SlotTypeOK, TaskTypeOK
<1>4. ASSUME NEW l \in Loader, Prepare(l) PROVE Keeps(l)
  BY <1>4 DEF Prepare, Outside, OnlyMoves, ResidencyInv, TypeOK, TaskTypeOK
<1>5. ASSUME NEW l \in Loader, AbandonLoad(l) PROVE RollbackExact'
  <2>1. \A t \in Task : pc'[t] \notin PublishPC
    BY <1>5 DEF AbandonLoad, Finish, WriteLockFree, PublishPC, ResidencyInv, TypeOK, TaskTypeOK
  <2> QED BY <2>1, RollbackLocked
<1>6. ASSUME NEW l \in Loader, Build(l) PROVE Keeps(l)
  BY <1>6 DEF Build, Outside, OnlyMoves, ResidencyInv, TypeOK, TaskTypeOK
<1>7. ASSUME NEW l \in Loader, LoadRecheck(l) PROVE Keeps(l)
  <2>1. \E p \in {"swap", "fail"} : pc' = [pc EXCEPT ![l] = p]
    BY <1>7, Zenon DEF LoadRecheck
  <2>2. new' = new \/ new' = [new EXCEPT ![l] = NoNew]
    BY <1>7, Zenon DEF LoadRecheck
  <2> QED BY <1>7, <2>1, <2>2
             DEF LoadRecheck, Outside, OnlyMoves, ResidencyInv, TypeOK, TaskTypeOK
<1>8. ASSUME NEW l \in Loader, StoreLoaded(l) PROVE RollbackExact'
  <2>1. /\ pc[l] = "store" /\ pc'[l] = "idle" /\ memory' = memory /\ at[l] \in Slot
        /\ state' = [state EXCEPT ![at[l]] = "Loaded"] /\ OnlyMoves(l)
        /\ \A u \in Task \ {l} : new'[u] = new[u] /\ old'[u] = old[u]
    BY <1>8 DEF StoreLoaded, Finish, OnlyMoves, ResidencyInv, TypeOK, TaskTypeOK, TaskHasSlot
  <2> SUFFICES ASSUME NEW u \in Task, pc'[u] \in {"memory", "commit"}
               PROVE  /\ pc'[u] = "memory" => old'[u].prior = memory'[at'[u]]
                      /\ pc'[u] = "commit" => /\ old'[u].prior = old'[u].prev
                                              /\ memory'[at'[u]] = new'[u].bytes
                      /\ IF state'[at'[u]] = "Loaded" THEN old'[u].graph # Placeholder
                         ELSE old'[u].graph = Placeholder /\ old'[u].prior = 0
    BY DEF RollbackExact
  <2>2. /\ u # l /\ pc'[u] = pc[u] /\ at'[u] = at[u]
        /\ new'[u] = new[u] /\ old'[u] = old[u]
    BY <2>1 DEF OnlyMoves
  <2>3. at[u] # at[l] /\ at[u] \in Slot
    BY <2>1, <2>2 DEF SinglePublisher, PublishPC, ResidencyInv, TaskHasSlot
  <2>4. state'[at[u]] = state[at[u]]
    BY <2>1, <2>3 DEF ResidencyInv, TypeOK, SlotTypeOK
  <2> QED BY <2>1, <2>2, <2>4 DEF RollbackExact
<1>9. ASSUME NEW l \in Loader, ReservePlan(l) PROVE Keeps(l)
  BY <1>9 DEF ReservePlan, OnEvicted, Outside, OnlyMoves, ResidencyInv, TypeOK, TaskTypeOK
<1>10. ASSUME NEW l \in Loader, ReserveEvict(l) PROVE RollbackExact'
  <2>1. \A t \in Task : pc'[t] \notin PublishPC
    BY <1>10 DEF ReserveEvict, ExecuteEviction, WriteLockFree, PublishPC, ResidencyInv, TypeOK,
       TaskTypeOK
  <2> QED BY <2>1, RollbackLocked
<1>11. ASSUME NEW l \in Loader, ReserveReap(l) \/ ReserveAdmit(l) PROVE Keeps(l)
  BY <1>11 DEF ReserveReap, ReserveAdmit, OnBudget, Outside, OnlyMoves, ResidencyInv, TypeOK,
     TaskTypeOK
<1>12. ASSUME NEW l \in Loader, PublishSwap(l) PROVE RollbackExact'
  <2> DEFINE s == at[l]
  <2>1. /\ s \in Slot /\ pc[l] = "swap" /\ OnlyMoves(l) /\ pc'[l] = "memory"
        /\ UNCHANGED <<state, memory, at, new>>
        /\ old' = [old EXCEPT ![l] = [graph |-> published[s], prior |-> memory[s], prev |-> 0]]
    BY <1>12 DEF PublishSwap, OnlyMoves, ResidencyInv, TypeOK, TaskTypeOK, TaskHasSlot
  <2>2. old'[l].graph = published[s] /\ old'[l].prior = memory[s]
    BY <2>1 DEF ResidencyInv, TypeOK, TaskTypeOK
  <2>3. ~PastSwap(s)
    BY <2>1 DEF PastSwap, SinglePublisher, PublishPC
  <2>4. IF state[s] = "Loaded" THEN published[s] # Placeholder
        ELSE published[s] = Placeholder /\ memory[s] = 0
    BY <2>1, <2>3, PublisherAlone, SlotAssumption
       DEF PublishPC, ResidencyInv, Residency, OnlyLoadedHolds, Bare, LoadedStands, ReadLockFree, NoTombstone
  <2>5. \A u \in Task \ {l} : pc'[u] = pc[u] /\ old'[u] = old[u]
    BY <2>1 DEF OnlyMoves, ResidencyInv, TypeOK, TaskTypeOK
  <2> HIDE DEF s
  <2> SUFFICES ASSUME NEW u \in Task
               PROVE  /\ pc'[u] = "memory" => old'[u].prior = memory[at[u]]
                      /\ pc'[u] = "commit" => /\ old'[u].prior = old'[u].prev
                                              /\ memory[at[u]] = new[u].bytes
                      /\ pc'[u] \in {"memory", "commit"} =>
                           IF state[at[u]] = "Loaded" THEN old'[u].graph # Placeholder
                           ELSE old'[u].graph = Placeholder /\ old'[u].prior = 0
    BY <2>1 DEF RollbackExact
  <2>6. CASE u = l
    BY <2>1, <2>2, <2>4, <2>6 DEF s
  <2>7. CASE u # l
    BY <2>5, <2>7 DEF RollbackExact
  <2> QED BY <2>6, <2>7
<1>13. ASSUME NEW l \in Loader, PublishMemory(l) PROVE RollbackExact'
  <2> DEFINE s == at[l]
  <2>1. /\ s \in Slot /\ pc[l] = "memory" /\ OnlyMoves(l) /\ pc'[l] = "commit"
        /\ UNCHANGED <<state, at, new>>
        /\ memory' = [memory EXCEPT ![s] = new[l].bytes]
        /\ old' = [old EXCEPT ![l] = [graph |-> old[l].graph, prior |-> old[l].prior,
                                      prev |-> memory[s]]]
    BY <1>13 DEF PublishMemory, OnlyMoves, ResidencyInv, TypeOK, TaskTypeOK, TaskHasSlot
  <2>2. /\ old'[l].graph = old[l].graph /\ old'[l].prior = old[l].prior
        /\ old'[l].prev = memory[s] /\ memory'[s] = new[l].bytes
    BY <2>1 DEF ResidencyInv, TypeOK, TaskTypeOK, SlotTypeOK
  <2>3. \A u \in Task \ {l} : pc'[u] = pc[u] /\ old'[u] = old[u]
    BY <2>1 DEF OnlyMoves, ResidencyInv, TypeOK, TaskTypeOK
  <2>4. \A u \in Task \ {l} : pc[u] \in {"memory", "commit"} => memory'[at[u]] = memory[at[u]]
    BY <2>1 DEF SinglePublisher, PublishPC, ResidencyInv, TypeOK, SlotTypeOK, TaskHasSlot
  <2> HIDE DEF s
  <2> SUFFICES ASSUME NEW u \in Task
               PROVE  /\ pc'[u] = "memory" => old'[u].prior = memory'[at[u]]
                      /\ pc'[u] = "commit" => /\ old'[u].prior = old'[u].prev
                                              /\ memory'[at[u]] = new[u].bytes
                      /\ pc'[u] \in {"memory", "commit"} =>
                           IF state[at[u]] = "Loaded" THEN old'[u].graph # Placeholder
                           ELSE old'[u].graph = Placeholder /\ old'[u].prior = 0
    BY <2>1 DEF RollbackExact
  <2>5. CASE u = l
    BY <2>1, <2>2, <2>5 DEF s, RollbackExact
  <2>6. CASE u # l
    BY <2>3, <2>4, <2>6 DEF RollbackExact
  <2> QED BY <2>5, <2>6
<1>14. ASSUME NEW l \in Loader, PublishCommit(l) PROVE RollbackExact'
  BY <1>14 DEF PublishCommit, RollbackExact, ResidencyInv, TypeOK, TaskTypeOK
<1>15. ASSUME NEW l \in Loader, PublishUnwind(l) PROVE RollbackExact'
  <2> DEFINE s == at[l]
  <2>1. /\ s \in Slot /\ pc[l] = "commit" /\ OnlyMoves(l) /\ pc'[l] = "fail"
        /\ UNCHANGED <<state, at>> /\ memory' = [memory EXCEPT ![s] = old[l].prior]
        /\ \A u \in Task \ {l} : new'[u] = new[u] /\ old'[u] = old[u]
    BY <1>15 DEF PublishUnwind, OnlyMoves, ResidencyInv, TypeOK, TaskTypeOK, TaskHasSlot
  <2>2. \A u \in Task \ {l} : pc[u] \in {"memory", "commit"} => memory'[at[u]] = memory[at[u]]
    BY <2>1 DEF SinglePublisher, PublishPC, ResidencyInv, TypeOK, SlotTypeOK, TaskHasSlot
  <2> HIDE DEF s
  <2> QED BY <2>1, <2>2 DEF RollbackExact, OnlyMoves
<1>16. ASSUME NEW l \in Loader, GetOrInsert(l) PROVE RollbackExact'
  <2>1. CASE UNCHANGED <<workspaces, slotVars>>
    <3>1. Keeps(l)
      BY <1>16, <2>1 DEF GetOrInsert, Outside, OnlyMoves, ResidencyInv, TypeOK, TaskTypeOK
    <3> QED BY <1>0, <3>1
  <2>2. CASE WriteLockFree
    <3>1. \A t \in Task : pc'[t] \notin PublishPC
      BY <1>16, <2>2 DEF GetOrInsert, WriteLockFree, PublishPC, ResidencyInv, TypeOK, TaskTypeOK
    <3> QED BY <3>1, RollbackLocked
  <2> QED BY <1>16, <2>1, <2>2 DEF GetOrInsert
<1>17. ASSUME NEW k \in Key, EvictLruExecute(k) \/ Unload(k) \/ ResetEmpties(k)
       PROVE  RollbackExact'
  <2>1. \A t \in Task : pc'[t] \notin PublishPC
    BY <1>17 DEF EvictLruExecute, Unload, ResetEmpties, ExecuteEviction, WriteLockFree
  <2> QED BY <2>1, RollbackLocked
<1>19. ASSUME WriteTombstone PROVE RollbackExact'
  BY <1>19, TombstoneLocks, RollbackLocked DEF NobodyPublishes
<1>18. ASSUME \/ \E k \in Key : EvictLruPick(k)
              \/ \E r \in Reader : ReleaseReader(r)
              \/ \E r \in Reader, k \in Key : ServeGraph(r, k)
              \/ RetentionReaper \/ UNCHANGED managerVars
       PROVE  RollbackExact'
  BY <1>18 DEF EvictLruPick, ReleaseReader, ServeGraph, RetentionReaper, RollbackExact
<1> HIDE DEF Keeps
<1> QED
  BY <1>0, <1>1, <1>2, <1>3, <1>4, <1>5, <1>6, <1>7, <1>8, <1>9, <1>10, <1>11, <1>12, <1>13,
     <1>14, <1>15, <1>16, <1>17, <1>18, <1>19
     DEF Next, Environment, LoadStep, Reserve, PublishAndRetain

\* The rollback of an unwinding commit leaves the slot as the publication
\* found it.
LEMMA UnwindStep ==
  ASSUME ResidencyInv, SinglePublisher, RollbackExact, NEW l \in Loader, PublishUnwind(l)
  PROVE  Residency'
<1> USE DEF Task, Goto, mapVars
<1> DEFINE s == at[l]
<1>1. /\ s \in Slot /\ pc[l] = "commit" /\ OnlyMoves(l) /\ pc'[l] = "fail"
      /\ UNCHANGED <<workspaces, tombstone, state, at>>
      /\ published' = [published EXCEPT ![s] = old[l].graph]
      /\ memory' = [memory EXCEPT ![s] = old[l].prior]
  BY DEF PublishUnwind, OnlyMoves, ResidencyInv, TypeOK, TaskTypeOK, TaskHasSlot
<1>2. /\ state[s] = "Loaded" => published'[s] # Placeholder
      /\ state[s] # "Loaded" => published'[s] = Placeholder /\ memory'[s] = 0
  BY <1>1 DEF RollbackExact, ResidencyInv, TypeOK, SlotTypeOK
<1>3. \A x \in Slot : PastSwap(x)' <=> PastSwap(x) /\ x # s
  BY <1>1 DEF PastSwap, OnlyMoves, SinglePublisher, PublishPC
<1>4. \A x \in Slot \ {s} : published'[x] = published[x] /\ memory'[x] = memory[x]
  BY <1>1 DEF ResidencyInv, TypeOK, SlotTypeOK
<1>5. PublishesIntoMap'
  BY <1>1 DEF ResidencyInv, Residency, PublishesIntoMap, OnlyMoves, Registers, PublishPC
<1> HIDE DEF s
<1>6. SwapIsVisible'
  BY <1>3, <1>4 DEF ResidencyInv, Residency, SwapIsVisible
<1>7. OnlyLoadedHolds'
  <2> SUFFICES ASSUME NEW x \in Slot, state'[x] # "Loaded", ~PastSwap(x)' PROVE Bare(x)'
    BY DEF OnlyLoadedHolds
  <2>1. CASE x = s
    BY <1>1, <1>2, <2>1 DEF Bare
  <2>2. CASE x # s
    BY <1>1, <1>3, <1>4, <2>2 DEF ResidencyInv, Residency, OnlyLoadedHolds, Bare
  <2> QED BY <2>1, <2>2
<1>8. LoadedIsRegistered' /\ LoadedStands'
  BY <1>1, <1>2, <1>4
     DEF ResidencyInv, Residency, LoadedIsRegistered, LoadedStands, Registers
<1>9. TombstoneIsAlone'
  BY <1>1, PublisherAlone, FreeIsAlone DEF PublishPC
<1> QED BY <1>5, <1>6, <1>7, <1>8, <1>9 DEF Residency

LEMMA RollbackResidencyStep ==
  ASSUME ResidencyInv, SinglePublisher, RollbackExact, [Next]_managerVars
  PROVE  ResidencyInv' /\ RollbackExact'
<1>1. TypeOK' /\ TaskHasSlot'
  BY TypeStep DEF ResidencyInv
<1>2. EntryIsLoadable' /\ GraphIsBuilt'
  BY LocalsStep
<1>3. Residency'
  BY UnwindStep, ResidencyStep
<1> QED BY <1>1, <1>2, <1>3, RollbackStep DEF ResidencyInv

LEMMA InitRollback == Init => ResidencyInv /\ RollbackExact
BY InitResidency DEF Init, RollbackExact

\* Residency with commits that unwind: while one task at a time publishes into
\* a slot, RollbackGuard (publish_and_retain) gives the slot back the
\* generation and the bytes the publication found, so that no interleaving of
\* publications, unwinds, evictions, unloads and resets leaves a Loaded slot
\* empty or an evicted, failed or unregistered one with a graph.
THEOREM ResidencyWithUnwinding == Spec /\ []SinglePublisher => []ResidencyInv
<1>1. Init => ResidencyInv /\ RollbackExact
  BY InitRollback
<1>2. /\ ResidencyInv /\ RollbackExact /\ SinglePublisher /\ [Next]_managerVars
      => ResidencyInv' /\ RollbackExact'
  BY RollbackResidencyStep
<1> QED BY <1>1, <1>2, PTL DEF Spec

(***************************************************************************)
(* Loaded bytes.  memory_bytes runs ahead of loaded_bytes between          *)
(* PublishMemory and PublishCommit; the sum of loaded_bytes is split over  *)
(* the slots, each with its own share, so that what a commit or an         *)
(* eviction takes off is never more than what is there.                    *)
(***************************************************************************)

LoadedSplits ==
  \E q \in [Slot -> Nat] :
    /\ loaded = SumOf(q, Slot)
    /\ \A s \in Slot : (\A t \in Committing : at[t] # s) => q[s] = memory[s]
    /\ \A t \in Committing : q[at[t]] = old[t].prev

LoadedInv == LoadedSplits /\ LoadedExact

Built    == [t \in Task |-> new[t].bytes]
Replaced == [t \in Task |-> old[t].prev]

LEMMA LoadedExactIs ==
  /\ LoadedExact <=> loaded + SumOf(Built, Committing)
                       = SumOf(memory, Slot) + SumOf(Replaced, Committing)
  /\ LoadedExact' <=> loaded' + SumOf(Built', Committing')
                       = SumOf(memory', Slot) + SumOf(Replaced', Committing')
BY DEF LoadedExact, Built, Replaced

LEMMA LedgerNats ==
  ASSUME TypeOK
  PROVE  /\ loaded \in Nat /\ \A s \in Slot : memory[s] \in Nat
         /\ \A t \in Task : /\ Built[t] \in Nat /\ Replaced[t] \in Nat
                            /\ Built[t] = new[t].bytes /\ Replaced[t] = old[t].prev
         /\ SumOf(memory, Slot) \in Nat /\ SumOf(Built, Committing) \in Nat
         /\ SumOf(Replaced, Committing) \in Nat
<1>1. /\ loaded \in Nat /\ \A s \in Slot : memory[s] \in Nat
      /\ \A t \in Task : /\ Built[t] \in Nat /\ Replaced[t] \in Nat
                         /\ Built[t] = new[t].bytes /\ Replaced[t] = old[t].prev
  BY DEF TypeOK, LedgerTypeOK, SlotTypeOK, TaskTypeOK, Bytes, Built, Replaced
<1>2. \A t \in Committing : t \in Task
  BY DEF Committing
<1> QED BY <1>1, <1>2, FiniteTasks, FiniteAssumption, SumOfNat

LEMMA LedgerNatsNext ==
  ASSUME TypeOK'
  PROVE  /\ loaded' \in Nat /\ SumOf(memory', Slot) \in Nat
         /\ SumOf(Built', Committing') \in Nat /\ SumOf(Replaced', Committing') \in Nat
<1>1. /\ loaded' \in Nat /\ \A s \in Slot : memory'[s] \in Nat
      /\ \A t \in Committing' : Built'[t] \in Nat /\ Replaced'[t] \in Nat
  BY DEF TypeOK, LedgerTypeOK, SlotTypeOK, TaskTypeOK, Bytes, Built, Replaced, Committing
<1>2. IsFiniteSet(Committing')
  BY FiniteTasks, FS_Subset DEF Committing
<1> QED BY <1>1, <1>2, FiniteAssumption, SumOfNat

\* One slot's bytes change.
LEMMA MemoryChange ==
  ASSUME TypeOK, TypeOK', NEW s \in Slot, \A x \in Slot \ {s} : memory[x] = memory'[x]
  PROVE  SumOf(memory, Slot) + memory'[s] = SumOf(memory', Slot) + memory[s]
<1> DEFINE f == memory
           g == memory'
<1>1. IsFiniteSet(Slot) /\ \A x \in Slot : f[x] \in Nat /\ g[x] \in Nat
  BY FiniteAssumption DEF TypeOK, SlotTypeOK, Bytes
<1>2. \A x \in Slot \ {s} : f[x] = g[x]
  OBVIOUS
<1> HIDE DEF f, g
<1>3. SumOf(f, Slot) + g[s] = SumOf(g, Slot) + f[s]
  BY <1>1, <1>2, SumOfChange
<1> QED BY <1>3 DEF f, g

\* Task t enters or leaves the books of the commits under way.
LEMMA CommitEnters ==
  ASSUME TypeOK, TypeOK', NEW t \in Task, t \notin Committing, Committing' = Committing \cup {t},
         \A u \in Committing : new'[u] = new[u] /\ old'[u] = old[u]
  PROVE  /\ SumOf(Built', Committing') = new'[t].bytes + SumOf(Built, Committing)
         /\ SumOf(Replaced', Committing') = old'[t].prev + SumOf(Replaced, Committing)
<1>1. /\ \A u \in Committing : Built'[u] = Built[u] /\ Replaced'[u] = Replaced[u]
      /\ \A u \in Committing \cup {t} : Built'[u] \in Nat /\ Replaced'[u] \in Nat
      /\ Built'[t] = new'[t].bytes /\ Replaced'[t] = old'[t].prev
  BY DEF Built, Replaced, Committing, TypeOK, TaskTypeOK, Bytes
<1>2. /\ SumOf(Built', Committing) = SumOf(Built, Committing)
      /\ SumOf(Replaced', Committing) = SumOf(Replaced, Committing)
  BY <1>1, FiniteTasks, SumOfSame
<1>3. /\ SumOf(Built', Committing \cup {t}) = Built'[t] + SumOf(Built', Committing)
      /\ SumOf(Replaced', Committing \cup {t}) = Replaced'[t] + SumOf(Replaced', Committing)
  BY <1>1, FiniteTasks, SumOfAdd
<1> QED BY <1>1, <1>2, <1>3

LEMMA CommitLeaves ==
  ASSUME TypeOK, NEW t \in Committing, Committing' = Committing \ {t},
         \A u \in Committing \ {t} : new'[u] = new[u] /\ old'[u] = old[u]
  PROVE  /\ SumOf(Built, Committing) = new[t].bytes + SumOf(Built', Committing')
         /\ SumOf(Replaced, Committing) = old[t].prev + SumOf(Replaced', Committing')
<1>1. /\ \A u \in Committing \ {t} : Built[u] = Built'[u] /\ Replaced[u] = Replaced'[u]
      /\ \A u \in Committing : Built[u] \in Nat /\ Replaced[u] \in Nat
      /\ Built[t] = new[t].bytes /\ Replaced[t] = old[t].prev
  BY DEF Built, Replaced, Committing, TypeOK, TaskTypeOK, Bytes
<1>2. IsFiniteSet(Committing \ {t})
  BY FiniteTasks, FS_Subset
<1>3. /\ SumOf(Built, Committing \ {t}) = SumOf(Built', Committing \ {t})
      /\ SumOf(Replaced, Committing \ {t}) = SumOf(Replaced', Committing \ {t})
  BY <1>1, <1>2, SumOfSame
<1>4. /\ SumOf(Built, Committing) = Built[t] + SumOf(Built, Committing \ {t})
      /\ SumOf(Replaced, Committing) = Replaced[t] + SumOf(Replaced, Committing \ {t})
  BY <1>1, FiniteTasks, SumOfRemove
<1> QED BY <1>1, <1>3, <1>4

\* Nothing the equation speaks of changes.
LEMMA LoadedKept ==
  ASSUME TypeOK, LoadedInv, memory' = memory, loaded' = loaded, Committing' = Committing,
         \A t \in Committing : /\ at'[t] = at[t]
                               /\ new'[t] = new[t] /\ old'[t] = old[t]
  PROVE  LoadedInv'
<1>1. LoadedSplits'
  BY DEF LoadedInv, LoadedSplits
<1>2. \A t \in Committing : Built'[t] = Built[t] /\ Replaced'[t] = Replaced[t]
  BY DEF Built, Replaced, Committing
<1>3. /\ SumOf(Built', Committing) = SumOf(Built, Committing)
      /\ SumOf(Replaced', Committing) = SumOf(Replaced, Committing)
  BY <1>2, FiniteTasks, SumOfSame
<1> QED BY <1>1, <1>3, LoadedExactIs DEF LoadedInv

\* Under the write lock loaded_bytes is the plain sum.
LEMMA LoadedLocked ==
  ASSUME LoadedInv, NobodyPublishes
  PROVE  loaded = SumOf(memory, Slot)
<1>1. Committing = {}
  BY DEF Committing, NobodyPublishes, PublishPC
<1>2. PICK q \in [Slot -> Nat] : loaded = SumOf(q, Slot) /\ \A s \in Slot : q[s] = memory[s]
  BY <1>1 DEF LoadedInv, LoadedSplits
<1> QED BY <1>2, FiniteAssumption, SumOfSame

LEMMA LoadedLockedStep ==
  ASSUME TypeOK', NobodyPublishes', loaded' = SumOf(memory', Slot)
  PROVE  LoadedInv'
<1>1. Committing' = {}
  BY DEF Committing, NobodyPublishes, PublishPC
<1>2. memory' \in [Slot -> Nat]
  BY DEF TypeOK, SlotTypeOK, Bytes
<1>3. LoadedSplits'
  BY <1>1, <1>2 DEF LoadedSplits
<1>4. SumOf(Built', {}) = 0 /\ SumOf(Replaced', {}) = 0 /\ loaded' \in Nat
  BY SumOfEmpty DEF TypeOK, LedgerTypeOK, Bytes
<1> QED BY <1>1, <1>3, <1>4, LoadedExactIs DEF LoadedInv

\* A graph leaves its slot with all of its bytes.
LEMMA LoadedEmptying ==
  ASSUME TypeOK, TypeOK', LoadedInv, NobodyPublishes, NobodyPublishes', NEW s \in Slot,
         memory' = [memory EXCEPT ![s] = 0], loaded' = SatSub(loaded, memory[s])
  PROVE  LoadedInv'
<1>1. loaded = SumOf(memory, Slot)
  BY LoadedLocked
<1>2. \A x \in Slot : memory[x] \in Nat /\ memory'[x] \in Nat
  BY DEF TypeOK, SlotTypeOK, Bytes
<1>3. memory'[s] = 0 /\ \A x \in Slot \ {s} : memory[x] = memory'[x]
  BY DEF TypeOK, SlotTypeOK
<1>4. SumOf(memory, Slot) + memory'[s] = SumOf(memory', Slot) + memory[s]
  BY <1>3, MemoryChange
<1>5. SumOf(memory, Slot) \in Nat /\ SumOf(memory', Slot) \in Nat
  BY <1>2, FiniteAssumption, SumOfNat
<1>6. loaded' = SumOf(memory', Slot)
  BY <1>1, <1>2, <1>3, <1>4, <1>5 DEF SatSub
<1> QED BY <1>6, LoadedLockedStep

LEMMA LoadedTombstone ==
  ASSUME TypeOK, TypeOK', LoadedInv, NEW s \in Slot, NEW c, EvictToTombstone(s, c),
         NobodyPublishes, NobodyPublishes'
  PROVE  LoadedInv'
<1>1. CASE memory' = memory /\ loaded' = loaded
  BY <1>1, LoadedLocked, LoadedLockedStep
<1>2. CASE ReleaseGraph(s)
  BY <1>2, LoadedEmptying DEF ReleaseGraph
<1> QED BY <1>1, <1>2 DEF EvictToTombstone

LEMMA LoadedEviction ==
  ASSUME TypeOK, TypeOK', LoadedInv, NEW k \in Key, NEW c, ExecuteEviction(k, c),
         NobodyPublishes'
  PROVE  LoadedInv'
<1>1. NobodyPublishes
  BY DEF ExecuteEviction, WriteLockFree, NobodyPublishes
<1>2. CASE workspaces[k] \notin Slot
  BY <1>1, <1>2, LoadedLocked, LoadedLockedStep DEF ExecuteEviction, slotVars, ledgerVars
<1>3. CASE workspaces[k] \in Slot
  BY <1>1, <1>3, LoadedTombstone DEF ExecuteEviction
<1> QED BY <1>2, <1>3

\* Task t moves, and not into or out of its commit.
Aside(t) ==
  /\ OnlyMoves(t)
  /\ \A u \in Task \ {t} : new'[u] = new[u] /\ old'[u] = old[u]
  /\ pc[t] # "commit" /\ pc'[t] # "commit"
  /\ memory' = memory /\ loaded' = loaded

LEMMA AsideStep ==
  ASSUME TypeOK, LoadedInv, NEW t \in Task, Aside(t)
  PROVE  LoadedInv'
<1>1. /\ Committing' = Committing
      /\ \A u \in Committing : at'[u] = at[u] /\ new'[u] = new[u] /\ old'[u] = old[u]
  BY DEF Aside, OnlyMoves, Committing
<1> QED BY <1>1, LoadedKept DEF Aside

\* The three steps of a publication that touch the books.
LEMMA LoadedMemory ==
  ASSUME ResidencyInv, ResidencyInv', SinglePublisher, LoadedInv,
         NEW t \in Loader, PublishMemory(t)
  PROVE  LoadedInv'
<1> USE DEF Task, Goto, ledgerVars
<1> DEFINE s == at[t]
<1>0. TypeOK /\ TypeOK'
  BY DEF ResidencyInv
<1>1. /\ s \in Slot /\ pc[t] = "memory" /\ UNCHANGED <<loaded, at, new>>
      /\ memory' = [memory EXCEPT ![s] = new[t].bytes]
      /\ old'[t].prev = memory[s] /\ \A u \in Task \ {t} : old'[u] = old[u]
      /\ Committing' = Committing \cup {t} /\ t \notin Committing
  BY DEF PublishMemory, Committing, ResidencyInv, TypeOK, TaskTypeOK, TaskHasSlot
<1>2. /\ memory'[s] = new[t].bytes
      /\ \A x \in Slot \ {s} : memory[x] = memory'[x]
  BY <1>0, <1>1 DEF TypeOK, SlotTypeOK
<1>3. \A u \in Committing : at[u] # s /\ u # t
  BY <1>1 DEF Committing, SinglePublisher, PublishPC
<1> HIDE DEF s
<1>4. LoadedSplits'
  <2>1. PICK q \in [Slot -> Nat] :
          /\ loaded = SumOf(q, Slot)
          /\ \A x \in Slot : (\A u \in Committing : at[u] # x) => q[x] = memory[x]
          /\ \A u \in Committing : q[at[u]] = old[u].prev
    BY DEF LoadedInv, LoadedSplits
  <2>2. loaded' = SumOf(q, Slot)
    BY <1>1, <2>1
  <2>3. \A x \in Slot : (\A u \in Committing' : at'[u] # x) => q[x] = memory'[x]
    BY <1>1, <1>2, <2>1 DEF s
  <2>4. \A u \in Committing' : q[at'[u]] = old'[u].prev
    <3> SUFFICES ASSUME NEW u \in Committing' PROVE q[at'[u]] = old'[u].prev
      OBVIOUS
    <3>1. CASE u = t
      BY <1>1, <1>3, <2>1, <3>1 DEF s
    <3>2. CASE u # t
      BY <1>1, <2>1, <3>2 DEF Committing
    <3> QED BY <3>1, <3>2
  <2> QED BY <2>2, <2>3, <2>4 DEF LoadedSplits
<1>5. LoadedExact'
  <2>1. /\ SumOf(Built', Committing') = new'[t].bytes + SumOf(Built, Committing)
        /\ SumOf(Replaced', Committing') = old'[t].prev + SumOf(Replaced, Committing)
    <3>1. \A u \in Committing : new'[u] = new[u] /\ old'[u] = old[u]
      BY <1>1, <1>3 DEF Committing
    <3> QED BY <1>0, <1>1, <3>1, CommitEnters
  <2>2. SumOf(memory, Slot) + memory'[s] = SumOf(memory', Slot) + memory[s]
    BY <1>0, <1>1, <1>2, MemoryChange
  <2>3. loaded + SumOf(Built, Committing) = SumOf(memory, Slot) + SumOf(Replaced, Committing)
    BY LoadedExactIs DEF LoadedInv
  <2>4. /\ loaded \in Nat /\ memory[s] \in Nat /\ new[t].bytes \in Nat
        /\ SumOf(memory, Slot) \in Nat /\ SumOf(Built, Committing) \in Nat
        /\ SumOf(Replaced, Committing) \in Nat
    BY <1>0, <1>1, LedgerNats
  <2>5. SumOf(memory', Slot) \in Nat
    BY <1>0, LedgerNatsNext
  <2>6. loaded' = loaded /\ new' = new /\ old'[t].prev = memory[s] /\ memory'[s] = new[t].bytes
    BY <1>1, <1>2
  <2>7. loaded' + SumOf(Built', Committing') = SumOf(memory', Slot) + SumOf(Replaced', Committing')
    BY <2>1, <2>2, <2>3, <2>4, <2>5, <2>6
  <2> QED BY <2>7, LoadedExactIs
<1> QED BY <1>4, <1>5 DEF LoadedInv

\* What a commit takes off loaded_bytes is there.
LEMMA LoadedCommit ==
  ASSUME ResidencyInv, ResidencyInv', SinglePublisher, RollbackExact, LoadedInv,
         NEW t \in Loader, PublishCommit(t)
  PROVE  LoadedInv'
<1> USE DEF Task, Goto, slotVars, localVars
<1> DEFINE s == at[t]
<1>0. TypeOK /\ TypeOK'
  BY DEF ResidencyInv
<1>1. /\ s \in Slot /\ UNCHANGED <<memory, at, new, old>>
      /\ loaded' = SatSub(loaded, old[t].prev) + new[t].bytes
      /\ Committing' = Committing \ {t} /\ t \in Committing /\ memory[s] = new[t].bytes
  BY DEF PublishCommit, Committing, RollbackExact, ResidencyInv, TypeOK, TaskTypeOK, TaskHasSlot
<1>2. \A u \in Committing \ {t} : at[u] # s
  BY <1>1 DEF Committing, SinglePublisher, PublishPC
<1> HIDE DEF s
<1>3. PICK q \in [Slot -> Nat] :
        /\ loaded = SumOf(q, Slot)
        /\ \A x \in Slot : (\A u \in Committing : at[u] # x) => q[x] = memory[x]
        /\ \A u \in Committing : q[at[u]] = old[u].prev
  BY DEF LoadedInv, LoadedSplits
<1> DEFINE r == [q EXCEPT ![s] = memory[s]]
<1>4. r \in [Slot -> Nat] /\ r[s] = memory[s] /\ \A x \in Slot \ {s} : q[x] = r[x]
  BY <1>0, <1>1 DEF TypeOK, SlotTypeOK, Bytes
<1>5. q[s] = old[t].prev
  BY <1>1, <1>3 DEF s
<1> HIDE DEF r
<1>6. SumOf(q, Slot) + r[s] = SumOf(r, Slot) + q[s] /\ SumOf(q, Slot) = q[s] + SumOf(q, Slot \ {s})
  BY <1>1, <1>3, <1>4, FiniteAssumption, SumOfChange, SumOfRemove
<1>7. SumOf(r, Slot) \in Nat /\ SumOf(q, Slot) \in Nat /\ SumOf(q, Slot \ {s}) \in Nat
  BY <1>3, <1>4, FiniteAssumption, FS_Subset, SumOfNat
<1>8. q[s] \in Nat /\ r[s] \in Nat
  BY <1>1, <1>3, <1>4
<1>9. loaded' + q[s] = loaded + new[t].bytes
  BY <1>1, <1>3, <1>4, <1>5, <1>6, <1>7, <1>8 DEF SatSub
<1>10. loaded' = SumOf(r, Slot)
  BY <1>1, <1>3, <1>4, <1>6, <1>7, <1>8, <1>9 DEF SatSub
<1>11. LoadedSplits'
  <2>1. \A x \in Slot : (\A u \in Committing' : at'[u] # x) => r[x] = memory'[x]
    <3> SUFFICES ASSUME NEW x \in Slot, \A u \in Committing' : at'[u] # x PROVE r[x] = memory'[x]
      OBVIOUS
    <3>1. CASE x = s
      BY <1>1, <1>4, <3>1
    <3>2. CASE x # s
      BY <1>1, <1>3, <1>4, <3>2 DEF s
    <3> QED BY <3>1, <3>2
  <2>2. \A u \in Committing' : r[at'[u]] = old'[u].prev
    <3> SUFFICES ASSUME NEW u \in Committing \ {t} PROVE r[at[u]] = old[u].prev
      BY <1>1
    <3>1. at[u] \in Slot \ {s}
      BY <1>2 DEF Committing, ResidencyInv, TaskHasSlot
    <3> QED BY <1>3, <1>4, <3>1
  <2> QED BY <1>4, <1>10, <2>1, <2>2 DEF LoadedSplits
<1>12. LoadedExact'
  <2>1. /\ SumOf(Built, Committing) = new[t].bytes + SumOf(Built', Committing')
        /\ SumOf(Replaced, Committing) = old[t].prev + SumOf(Replaced', Committing')
    BY <1>0, <1>1, CommitLeaves
  <2>2. loaded + SumOf(Built, Committing) = SumOf(memory, Slot) + SumOf(Replaced, Committing)
    BY LoadedExactIs DEF LoadedInv
  <2>3. loaded' \in Nat /\ SumOf(Built', Committing') \in Nat /\ SumOf(Replaced', Committing') \in Nat
    BY <1>0, LedgerNatsNext
  <2>4. loaded \in Nat /\ SumOf(memory, Slot) \in Nat /\ new[t].bytes \in Nat
    BY <1>0, LedgerNats
  <2>5. loaded' + SumOf(Built', Committing') = SumOf(memory, Slot) + SumOf(Replaced', Committing')
    BY <1>5, <1>8, <1>9, <2>1, <2>2, <2>3, <2>4
  <2>6. memory' = memory
    BY <1>1
  <2> QED BY <2>5, <2>6, LoadedExactIs
<1> QED BY <1>11, <1>12 DEF LoadedInv

\* An unwinding commit puts back the bytes that loaded_bytes still counts.
LEMMA LoadedUnwind ==
  ASSUME ResidencyInv, ResidencyInv', SinglePublisher, RollbackExact, LoadedInv,
         NEW t \in Loader, PublishUnwind(t)
  PROVE  LoadedInv'
<1> USE DEF Task, Goto
<1> DEFINE s == at[t]
<1>0. TypeOK /\ TypeOK'
  BY DEF ResidencyInv
<1>1. /\ s \in Slot /\ UNCHANGED <<loaded, at>>
      /\ memory' = [memory EXCEPT ![s] = old[t].prev]
      /\ \A u \in Task \ {t} : new'[u] = new[u] /\ old'[u] = old[u]
      /\ Committing' = Committing \ {t} /\ t \in Committing /\ memory[s] = new[t].bytes
  BY DEF PublishUnwind, Committing, RollbackExact, ResidencyInv, TypeOK, TaskTypeOK, TaskHasSlot
<1>2. memory'[s] = old[t].prev /\ \A x \in Slot \ {s} : memory[x] = memory'[x]
  BY <1>0, <1>1 DEF TypeOK, SlotTypeOK
<1>3. \A u \in Committing \ {t} : at[u] # s
  BY <1>1 DEF Committing, SinglePublisher, PublishPC
<1> HIDE DEF s
<1>4. LoadedSplits'
  <2>1. PICK q \in [Slot -> Nat] :
          /\ loaded = SumOf(q, Slot)
          /\ \A x \in Slot : (\A u \in Committing : at[u] # x) => q[x] = memory[x]
          /\ \A u \in Committing : q[at[u]] = old[u].prev
    BY DEF LoadedInv, LoadedSplits
  <2>2. \A x \in Slot : (\A u \in Committing' : at'[u] # x) => q[x] = memory'[x]
    <3> SUFFICES ASSUME NEW x \in Slot, \A u \in Committing' : at'[u] # x PROVE q[x] = memory'[x]
      OBVIOUS
    <3>1. CASE x = s
      BY <1>1, <1>2, <2>1, <3>1 DEF s
    <3>2. CASE x # s
      BY <1>1, <1>2, <2>1, <3>2 DEF s
    <3> QED BY <3>1, <3>2
  <2>3. \A u \in Committing' : q[at'[u]] = old'[u].prev
    BY <1>1, <2>1 DEF Committing
  <2>4. loaded' = SumOf(q, Slot)
    BY <1>1, <2>1
  <2> QED BY <2>2, <2>3, <2>4 DEF LoadedSplits
<1>5. LoadedExact'
  <2>1. /\ SumOf(Built, Committing) = new[t].bytes + SumOf(Built', Committing')
        /\ SumOf(Replaced, Committing) = old[t].prev + SumOf(Replaced', Committing')
    <3>1. \A u \in Committing \ {t} : new'[u] = new[u] /\ old'[u] = old[u]
      BY <1>1 DEF Committing
    <3> QED BY <1>0, <1>1, <3>1, CommitLeaves
  <2>2. SumOf(memory, Slot) + memory'[s] = SumOf(memory', Slot) + memory[s]
    BY <1>0, <1>1, <1>2, MemoryChange
  <2>3. loaded + SumOf(Built, Committing) = SumOf(memory, Slot) + SumOf(Replaced, Committing)
    BY LoadedExactIs DEF LoadedInv
  <2>4. /\ loaded \in Nat /\ SumOf(memory, Slot) \in Nat /\ new[t].bytes \in Nat
        /\ old[t].prev \in Nat
    BY <1>0, LedgerNats
  <2>5. /\ SumOf(memory', Slot) \in Nat /\ SumOf(Built', Committing') \in Nat
        /\ SumOf(Replaced', Committing') \in Nat
    BY <1>0, LedgerNatsNext
  <2>6. loaded' = loaded /\ memory'[s] = old[t].prev /\ memory[s] = new[t].bytes
    BY <1>1, <1>2
  <2>7. loaded' + SumOf(Built', Committing') = SumOf(memory', Slot) + SumOf(Replaced', Committing')
    BY <2>1, <2>2, <2>3, <2>4, <2>5, <2>6
  <2> QED BY <2>7, LoadedExactIs
<1> QED BY <1>4, <1>5 DEF LoadedInv

LEMMA LoadedStep ==
  ASSUME ResidencyInv, ResidencyInv', SinglePublisher, RollbackExact, LoadedInv,
         [Next]_managerVars
  PROVE  LoadedInv'
<1> USE DEF Task, Goto, managerVars, mapVars, slotVars, ledgerVars, taskVars, localVars
<1>0. ASSUME NEW t \in Task, Aside(t) PROVE LoadedInv'
  BY <1>0, AsideStep DEF ResidencyInv
<1>1. ASSUME NEW l \in Loader, \/ EnterLoading(l) \/ ObserveCancel(l) \/ HonorConsumes(l)
                               \/ HonorFails(l) \/ AbandonLoad(l) \/ FailLoad(l)
      PROVE  Aside(l)
  BY <1>1 DEF EnterLoading, ObserveCancel, HonorConsumes, HonorFails, AbandonLoad, FailLoad,
     Finish, Aside, OnlyMoves, ResidencyInv, TypeOK, TaskTypeOK
<1>2. ASSUME NEW l \in Loader, Prepare(l) PROVE Aside(l)
  BY <1>2 DEF Prepare, Aside, OnlyMoves, ResidencyInv, TypeOK, TaskTypeOK
<1>3. ASSUME NEW l \in Loader, Build(l) PROVE Aside(l)
  BY <1>3 DEF Build, Aside, OnlyMoves, ResidencyInv, TypeOK, TaskTypeOK
<1>4. ASSUME NEW l \in Loader, LoadRecheck(l) PROVE Aside(l)
  <2>1. \E p \in {"swap", "fail"} : pc' = [pc EXCEPT ![l] = p]
    BY <1>4, Zenon DEF LoadRecheck
  <2>2. new' = new \/ new' = [new EXCEPT ![l] = NoNew]
    BY <1>4, Zenon DEF LoadRecheck
  <2> QED BY <1>4, <2>1, <2>2
             DEF LoadRecheck, Aside, OnlyMoves, ResidencyInv, TypeOK, TaskTypeOK
<1>5. ASSUME NEW l \in Loader, StoreLoaded(l) PROVE Aside(l)
  BY <1>5 DEF StoreLoaded, Finish, Aside, OnlyMoves, ResidencyInv, TypeOK, TaskTypeOK
<1>6. ASSUME NEW l \in Loader, ReservePlan(l) PROVE Aside(l)
  BY <1>6 DEF ReservePlan, OnEvicted, Aside, OnlyMoves, ResidencyInv, TypeOK, TaskTypeOK
<1>7. ASSUME NEW l \in Loader, ReserveEvict(l) PROVE LoadedInv'
  <2>1. PICK k \in victims[l] :
          ExecuteEviction(k, l) /\ Goto(l, IF victims[l] = {k} THEN "reap" ELSE "evict")
    BY <1>7 DEF ReserveEvict
  <2>2. k \in Key
    BY <2>1 DEF ResidencyInv, TypeOK, TaskTypeOK
  <2>3. NobodyPublishes'
    BY <2>1 DEF NobodyPublishes, ExecuteEviction, WriteLockFree, PublishPC, ResidencyInv, TypeOK, TaskTypeOK
  <2> QED BY <2>1, <2>2, <2>3, LoadedEviction DEF ResidencyInv
<1>8. ASSUME NEW l \in Loader, ReserveReap(l) \/ ReserveAdmit(l) PROVE Aside(l)
  BY <1>8 DEF ReserveReap, ReserveAdmit, OnBudget, Aside, OnlyMoves, ResidencyInv, TypeOK,
     TaskTypeOK
<1>9. ASSUME NEW l \in Loader, PublishSwap(l) PROVE Aside(l)
  BY <1>9 DEF PublishSwap, Aside, OnlyMoves, ResidencyInv, TypeOK, TaskTypeOK
<1>10. ASSUME NEW l \in Loader, PublishMemory(l) PROVE LoadedInv'
  BY <1>10, LoadedMemory
<1>11. ASSUME NEW l \in Loader, PublishCommit(l) PROVE LoadedInv'
  BY <1>11, LoadedCommit
<1>12. ASSUME NEW l \in Loader, PublishUnwind(l) PROVE LoadedInv'
  BY <1>12, LoadedUnwind
<1>13. ASSUME NEW l \in Loader, GetOrInsert(l) PROVE LoadedInv'
  <2>1. CASE UNCHANGED <<workspaces, slotVars>>
    <3>1. Aside(l)
      BY <1>13, <2>1 DEF GetOrInsert, Aside, OnlyMoves, ResidencyInv, TypeOK, TaskTypeOK
    <3> QED BY <1>0, <3>1
  <2>2. CASE workspaces[LoaderKey[l]] = NoSlot
    <3>1. PICK s \in FreshSlots(LoaderKey[l]) : memory' = [memory EXCEPT ![s] = 0]
      BY <1>13, <2>2, SlotAssumption DEF GetOrInsert
    <3>2. /\ s \in Slot /\ ~Registers(s) /\ NobodyPublishes /\ NobodyPublishes'
          /\ loaded' = loaded
      <4>1. s \in Slot /\ KeyOf[s] = LoaderKey[l]
        BY DEF FreshSlots
      <4> QED BY <1>13, <2>2, <4>1, SlotAssumption DEF GetOrInsert, Registers, WriteLockFree,
            NobodyPublishes, PublishPC, ResidencyInv, TypeOK, TaskTypeOK
    <3>3. memory[s] = 0
      BY <3>2 DEF ResidencyInv, Residency, LoadedIsRegistered, OnlyLoadedHolds, Bare, PastSwap,
         NobodyPublishes
    <3>4. memory' = memory
      BY <3>1, <3>2, <3>3 DEF ResidencyInv, TypeOK, SlotTypeOK
    <3> QED BY <3>2, <3>4, LoadedLocked, LoadedLockedStep DEF ResidencyInv
  <2> QED BY <1>13, <2>1, <2>2 DEF GetOrInsert
<1>14. ASSUME NEW k \in Key, EvictLruExecute(k) \/ Unload(k) PROVE LoadedInv'
  <2>1. (\E c : ExecuteEviction(k, c)) /\ NobodyPublishes'
    BY <1>14 DEF EvictLruExecute, Unload, ExecuteEviction, WriteLockFree, NobodyPublishes
  <2> QED BY <2>1, LoadedEviction DEF ResidencyInv
<1>15. ASSUME WriteTombstone PROVE LoadedInv'
  <2>1. NobodyPublishes /\ NobodyPublishes'
    BY <1>15, TombstoneLocks
  <2>2. CASE memory' = memory /\ loaded' = loaded
    BY <2>1, <2>2, LoadedLocked, LoadedLockedStep DEF ResidencyInv
  <2>3. CASE ResetReleases
    <3>1. tombstone.slot \in Slot /\ EvictToTombstone(tombstone.slot, "reset")
      BY <2>3, TombstoneSlot DEF ResetReleases, TombstoneStep, ResidencyInv, TypeOK
    <3> QED BY <2>1, <3>1, LoadedTombstone DEF ResidencyInv
  <2> QED BY <1>15, <2>2, <2>3 DEF WriteTombstone, TombstoneSamples, TombstoneCancels, TombstoneStores,
        ResetClears, ResetStores
<1>16. ASSUME \/ \E k \in Key : EvictLruPick(k) \/ ResetEmpties(k)
              \/ \E r \in Reader : ReleaseReader(r)
              \/ \E r \in Reader, k \in Key : ServeGraph(r, k)
              \/ RetentionReaper \/ UNCHANGED managerVars
       PROVE  LoadedInv'
  <2>1. /\ memory' = memory /\ loaded' = loaded /\ at' = at /\ new' = new /\ old' = old
        /\ pc' = pc
    BY <1>16 DEF EvictLruPick, ResetEmpties, ReleaseReader, ServeGraph, RetentionReaper
  <2>2. Committing' = Committing
    BY <2>1 DEF Committing
  <2> QED BY <2>1, <2>2, LoadedKept DEF ResidencyInv
<1> QED
  BY <1>0, <1>1, <1>2, <1>3, <1>4, <1>5, <1>6, <1>7, <1>8, <1>9, <1>10, <1>11, <1>12, <1>13,
     <1>14, <1>15, <1>16
     DEF Next, Environment, LoadStep, Reserve, PublishAndRetain

LEMMA InitLoaded == Init => LoadedInv
<1> SUFFICES ASSUME Init PROVE LoadedInv
  OBVIOUS
<1>1. Committing = {} /\ loaded = 0 /\ memory \in [Slot -> Nat] /\ \A s \in Slot : memory[s] = 0
  BY DEF Init, Committing
<1>2. SumOf(memory, Slot) = 0
  <2> DEFINE Q == {u \in SUBSET Slot : SumOf(memory, u) = 0}
  <2>1. ASSUME NEW u \in SUBSET Slot, \A x \in u : u \ {x} \in Q PROVE u \in Q
    <3>1. SumOf(memory, u) = IF u = {} THEN 0 ELSE memory[Pick(u)] + SumOf(memory, u \ {Pick(u)})
      BY FiniteAssumption, FS_Subset, SumOfIs
    <3>2. u # {} => Pick(u) \in u
      BY PickIn
    <3> QED BY <1>1, <2>1, <3>1, <3>2
  <2>2. \A u \in SUBSET Slot : u \in Q
    <3> HIDE DEF Q
    <3> QED BY <2>1, FiniteAssumption, SubsetInduction
  <2> QED BY <2>2
<1>3. LoadedSplits
  BY <1>1, <1>2 DEF LoadedSplits
<1>4. SumOf(Built, {}) = 0 /\ SumOf(Replaced, {}) = 0
  BY SumOfEmpty
<1> QED BY <1>1, <1>2, <1>3, <1>4, LoadedExactIs DEF LoadedInv

\* The whole ledger (admission.rs, G.5), commits that unwind included: while
\* one task at a time publishes into a slot, loaded_bytes is the sum of
\* memory_bytes over all slots up to the publications between their memory
\* update and their commit, so no publication, eviction, unload, reset or
\* rollback loses a byte or counts one twice, and no saturating subtraction
\* ever hides a difference.
THEOREM LedgerIsExact == Spec /\ []SinglePublisher => []LedgerExact
<1>1. Init => ResidencyInv /\ RollbackExact /\ LoadedInv
  BY InitRollback, InitLoaded
<1>2. /\ ResidencyInv /\ RollbackExact /\ SinglePublisher /\ [Next]_managerVars
      => ResidencyInv' /\ RollbackExact'
  BY RollbackResidencyStep
<1>3. /\ ResidencyInv /\ ResidencyInv' /\ RollbackExact /\ SinglePublisher /\ LoadedInv
      /\ [Next]_managerVars
      => LoadedInv'
  BY LoadedStep
<1>4. LoadedInv /\ ReservedExact => LedgerExact
  BY DEF LoadedInv, LedgerExact
<1> QED BY <1>1, <1>2, <1>3, <1>4, ReservationsAreExact, PTL DEF Spec

\* One loader per workspace is enough for one publisher per slot.
LEMMA OneLoaderPublishes ==
  ASSUME \A l, m \in Loader : LoaderKey[l] = LoaderKey[m] => l = m
  PROVE  Spec => []SinglePublisher
<1>1. Init => TypeOK /\ TaskHasSlot /\ OwnKey
  BY InitType, SlotAssumption DEF Init, OwnKey, Task
<1>2. TypeOK /\ TaskHasSlot /\ OwnKey /\ [Next]_managerVars => (TypeOK /\ TaskHasSlot /\ OwnKey)'
  BY TypeStep, OwnKeyStep
<1>3. TaskHasSlot /\ OwnKey => SinglePublisher
  <2> SUFFICES ASSUME TaskHasSlot, OwnKey, NEW t \in Task, NEW u \in Task,
                      pc[t] \in PublishPC, pc[u] \in PublishPC, at[t] = at[u]
               PROVE  t = u
    BY DEF SinglePublisher
  <2>1. t \in Loader /\ u \in Loader /\ at[t] \in Slot
    BY DEF TaskHasSlot, Task, PublishPC
  <2> QED BY <2>1 DEF OwnKey
<1> QED BY <1>1, <1>2, <1>3, PTL DEF Spec

\* In particular the ledger is exact, and every slot resident as its state
\* says, when no two loads of one workspace are under way at a time, whatever
\* evicts, unloads, resets or unwinds in between.
THEOREM LedgerIsExactAlone ==
  ASSUME \A l, m \in Loader : LoaderKey[l] = LoaderKey[m] => l = m
  PROVE  Spec => [](LedgerExact /\ ResidencyInv)
BY OneLoaderPublishes, LedgerIsExact, ResidencyWithUnwinding, PTL
=============================================================================
