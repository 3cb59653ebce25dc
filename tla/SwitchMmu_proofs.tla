--------------------------- MODULE SwitchMmu_proofs ---------------------------
(***************************************************************************)
(* The accounting invariants of SwitchMmu hold for every set of ports and  *)
(* queues, every mix of packet sizes and every buffer configuration that   *)
(* satisfies the assumptions of the module.                                *)
(*                                                                         *)
(* The inductive invariant is Accounting.  SharedPoolAccounted is part of  *)
(* it because it is what keeps shared_used_bytes from going below zero:    *)
(* the pool gives back what one group used, which the sum covers.          *)
(***************************************************************************)
EXTENDS SwitchMmu, FiniteSetTheorems, TLAPS

-----------------------------------------------------------------------------
(***************************************************************************)
(* SumOf is a natural number, bounds every term, and moves with a term     *)
(* that is replaced (ByteSums).                                            *)
(***************************************************************************)
\* The sum of a finite function of naturals is a finite count.
LEMMA UnitsFinite ==
  ASSUME NEW S, IsFiniteSet(S), NEW f \in [S -> Nat]
  PROVE  IsFiniteSet(UnitsOf(f)) /\ SumOf(f) \in Nat
<1> DEFINE Rows == {{x} \X (1..f[x]) : x \in S}
           row == [x \in S |-> {x} \X (1..f[x])]
<1>1. row \in Surjection(S, Rows)
  BY DEF Surjection
<1>2. IsFiniteSet(Rows)
  BY <1>1, FS_Surjection
<1>3. ASSUME NEW R \in Rows
      PROVE  IsFiniteSet(R)
  <2>1. PICK x \in S : R = {x} \X (1..f[x])
    OBVIOUS
  <2>2. IsFiniteSet({x}) /\ IsFiniteSet(1..f[x])
    <3>1. IsFiniteSet({x})
      BY FS_Singleton
    <3>2. f[x] \in Int /\ 1 \in Int
      OBVIOUS
    <3>3. IsFiniteSet(1..f[x])
      BY <3>2, FS_Interval
    <3>4. QED
      BY <3>1, <3>3
  <2>3. QED
    BY <2>1, <2>2, FS_Product
<1>4. IsFiniteSet(UNION Rows)
  BY <1>2, <1>3, FS_UNION
<1>5. UNION Rows = UnitsOf(f)
  BY DEF UnitsOf
<1>6. QED
  BY <1>4, <1>5, FS_CardinalityType DEF SumOf

\* The units of a single term are as many as its value.
LEMMA RowCardinality ==
  ASSUME NEW x, NEW n \in Nat
  PROVE  IsFiniteSet({x} \X (1..n)) /\ Cardinality({x} \X (1..n)) = n
<1>1. IsFiniteSet({x}) /\ Cardinality({x}) = 1
  BY FS_Singleton
<1>2. IsFiniteSet(1..n) /\ Cardinality(1..n) = n
  BY FS_Interval
<1>3. Cardinality({x} \X (1..n)) = 1 * n
  BY <1>1, <1>2, FS_Product
<1>4. IsFiniteSet({x} \X (1..n))
  BY <1>1, <1>2, FS_Product, Zenon
<1>5. 1 * n = n
  OBVIOUS
<1>6. QED
  BY <1>3, <1>4, <1>5, Zenon

\* A sum splits into one term and the units of all the others.
LEMMA SumSplit ==
  ASSUME NEW S, IsFiniteSet(S), NEW f \in [S -> Nat], NEW c \in S
  PROVE  /\ Cardinality(UnitsOf(f) \ ({c} \X (1..f[c]))) \in Nat
         /\ SumOf(f) = Cardinality(UnitsOf(f) \ ({c} \X (1..f[c]))) + f[c]
<1> DEFINE row == {c} \X (1..f[c])
           rest == UnitsOf(f) \ row
<1>1. IsFiniteSet(UnitsOf(f)) /\ SumOf(f) \in Nat
  BY UnitsFinite
<1>2. Cardinality(row) = f[c]
  BY RowCardinality
<1>3. UnitsOf(f) \cap row = row
  BY DEF UnitsOf
<1>4. IsFiniteSet(rest) /\ Cardinality(rest) = Cardinality(UnitsOf(f)) - Cardinality(row)
  <2> HIDE DEF row
  <2>1. /\ IsFiniteSet(rest)
        /\ Cardinality(rest) = Cardinality(UnitsOf(f)) - Cardinality(UnitsOf(f) \cap row)
    BY <1>1, FS_Difference
  <2>2. QED
    BY <1>3, <2>1
<1>5. Cardinality(rest) \in Nat
  BY <1>4, FS_CardinalityType
<1>6. QED
  BY <1>1, <1>2, <1>4, <1>5 DEF SumOf

\* No term exceeds the sum.
LEMMA TermBelowSum ==
  ASSUME NEW S, IsFiniteSet(S), NEW f \in [S -> Nat], NEW c \in S
  PROVE  f[c] <= SumOf(f)
<1>1. PICK n \in Nat : SumOf(f) = n + f[c]
  BY SumSplit
<1>2. f[c] \in Nat
  OBVIOUS
<1>3. QED
  BY <1>1, <1>2

\* Replacing one term moves the sum by the difference.
LEMMA SumUpdate ==
  ASSUME NEW S, IsFiniteSet(S), NEW f \in [S -> Nat], NEW c \in S,
         NEW g \in [S -> Nat], \A x \in S \ {c} : g[x] = f[x]
  PROVE  SumOf(g) = SumOf(f) - f[c] + g[c]
<1>1. UnitsOf(f) \ ({c} \X (1..f[c])) = UnitsOf(g) \ ({c} \X (1..g[c]))
  <2>1. ASSUME NEW u
        PROVE  u \in UnitsOf(f) \ ({c} \X (1..f[c]))
               <=> \E x \in S \ {c} : u \in {x} \X (1..f[x])
    BY DEF UnitsOf
  <2>2. ASSUME NEW u
        PROVE  u \in UnitsOf(g) \ ({c} \X (1..g[c]))
               <=> \E x \in S \ {c} : u \in {x} \X (1..g[x])
    BY DEF UnitsOf
  <2>3. QED
    BY <2>1, <2>2
<1> DEFINE n == Cardinality(UnitsOf(f) \ ({c} \X (1..f[c])))
<1>2. n \in Nat /\ SumOf(f) = n + f[c]
  BY SumSplit
<1>3. SumOf(g) = n + g[c]
  BY <1>1, SumSplit
<1>4. f[c] \in Nat /\ g[c] \in Nat
  OBVIOUS
<1> HIDE DEF n
<1>5. QED
  BY <1>2, <1>3, <1>4

\* A sum of zeros is zero.
LEMMA SumOfZeros ==
  ASSUME NEW S, NEW f \in [S -> Nat], \A x \in S : f[x] = 0
  PROVE  SumOf(f) = 0
<1>1. UnitsOf(f) = {}
  BY DEF UnitsOf
<1>2. QED
  BY <1>1, FS_EmptySet DEF SumOf

\* One more term at the end of a sequence of terms.
LEMMA SumExtended ==
  ASSUME NEW n \in Nat, NEW f \in [1..n -> Nat], NEW g \in [1..(n + 1) -> Nat],
         \A i \in 1..n : g[i] = f[i]
  PROVE  SumOf(g) = SumOf(f) + g[n + 1]
<1>1. IsFiniteSet(1..(n + 1)) /\ n + 1 \in 1..(n + 1)
  BY FS_Interval
<1>2. UnitsOf(g) \ ({n + 1} \X (1..g[n + 1])) = UnitsOf(f)
  <2>1. ASSUME NEW u
        PROVE  u \in UnitsOf(g) \ ({n + 1} \X (1..g[n + 1]))
               <=> \E i \in 1..n : u \in {i} \X (1..g[i])
    <3>1. u \in UnitsOf(g) <=> \E i \in 1..(n + 1) : u \in {i} \X (1..g[i])
      BY DEF UnitsOf
    <3>2. \A i \in 1..n : u \in {i} \X (1..g[i]) => u \notin {n + 1} \X (1..g[n + 1])
      OBVIOUS
    <3>3. 1..(n + 1) = (1..n) \cup {n + 1}
      OBVIOUS
    <3>4. QED
      BY <3>1, <3>2, <3>3, Zenon
  <2>2. ASSUME NEW u
        PROVE  u \in UnitsOf(f) <=> \E i \in 1..n : u \in {i} \X (1..f[i])
    BY DEF UnitsOf
  <2>3. QED
    BY <2>1, <2>2
<1>3. SumOf(g) = Cardinality(UnitsOf(f)) + g[n + 1]
  BY <1>1, <1>2, SumSplit
<1>4. QED
  BY <1>3 DEF SumOf

\* One term less at the beginning.
LEMMA SumShortened ==
  ASSUME NEW n \in Nat, NEW f \in [1..(n + 1) -> Nat], NEW g \in [1..n -> Nat],
         \A i \in 1..n : g[i] = f[i + 1]
  PROVE  SumOf(f) = SumOf(g) + f[1]
<1> DEFINE rest == UnitsOf(f) \ ({1} \X (1..f[1]))
           moved == [u \in UnitsOf(g) |-> <<u[1] + 1, u[2]>>]
<1>1. IsFiniteSet(1..(n + 1)) /\ 1 \in 1..(n + 1) /\ IsFiniteSet(1..n)
  BY FS_Interval
<1>2. SumOf(f) = Cardinality(rest) + f[1]
  BY <1>1, SumSplit
<1>3. \A u : u \in UnitsOf(g) <=> \E i \in 1..n, k \in Nat : u = <<i, k>> /\ k \in 1..g[i]
  <2>1. \A u : u \in UnitsOf(g) <=> \E i \in 1..n : u \in {i} \X (1..g[i])
    BY DEF UnitsOf
  <2>2. \A i \in 1..n : g[i] \in Nat
    OBVIOUS
  <2>3. QED
    BY <2>1, <2>2
<1>4. \A u : u \in rest <=> \E i \in 1..n, k \in Nat : u = <<i + 1, k>> /\ k \in 1..g[i]
  <2>1. \A u : u \in UnitsOf(f) <=> \E i \in 1..(n + 1) : u \in {i} \X (1..f[i])
    BY DEF UnitsOf
  <2>2. \A i \in 1..(n + 1) : f[i] \in Nat
    OBVIOUS
  <2>3. ASSUME NEW u \in rest
        PROVE  \E i \in 1..n, k \in Nat : u = <<i + 1, k>> /\ k \in 1..g[i]
    <3>1. PICK j \in 1..(n + 1) : u \in {j} \X (1..f[j])
      BY <2>1
    <3>2. j # 1
      BY <3>1
    <3>3. j - 1 \in 1..n /\ f[j] = g[j - 1] /\ j = (j - 1) + 1
      BY <3>2
    <3>4. PICK k \in 1..f[j] : u = <<j, k>>
      BY <3>1
    <3>5. k \in Nat /\ k \in 1..g[j - 1] /\ u = <<(j - 1) + 1, k>>
      BY <2>2, <3>3, <3>4
    <3>6. QED
      BY <3>3, <3>5
  <2>4. ASSUME NEW i \in 1..n, NEW k \in 1..g[i]
        PROVE  <<i + 1, k>> \in rest
    <3>1. i + 1 \in 1..(n + 1) /\ i + 1 # 1 /\ k \in 1..f[i + 1]
      OBVIOUS
    <3>2. <<i + 1, k>> \in {i + 1} \X (1..f[i + 1])
      BY <3>1
    <3>3. QED
      BY <2>1, <3>1, <3>2
  <2>5. QED
    BY <2>3, <2>4
<1>5. moved \in Bijection(UnitsOf(g), rest)
  <2> HIDE DEF rest
  <2>1. \A u \in UnitsOf(g) : moved[u] \in rest
    BY <1>3, <1>4
  <2>2. ASSUME NEW u \in UnitsOf(g), NEW v \in UnitsOf(g), moved[u] = moved[v]
        PROVE  u = v
    <3>1. PICK i \in 1..n, k \in Nat : u = <<i, k>>
      BY <1>3
    <3>2. PICK j \in 1..n, l \in Nat : v = <<j, l>>
      BY <1>3
    <3>3. moved[u] = <<i + 1, k>> /\ moved[v] = <<j + 1, l>>
      BY <3>1, <3>2
    <3>4. i + 1 = j + 1 /\ k = l
      BY <2>2, <3>3
    <3>5. i = j
      BY <3>4
    <3>6. QED
      BY <3>1, <3>2, <3>4, <3>5
  <2>3. ASSUME NEW w \in rest
        PROVE  \E u \in UnitsOf(g) : moved[u] = w
    <3>1. PICK i \in 1..n, k \in Nat : w = <<i + 1, k>> /\ k \in 1..g[i]
      BY <1>4
    <3>2. <<i, k>> \in UnitsOf(g)
      BY <1>3, <3>1
    <3>3. moved[<<i, k>>] = w
      BY <3>1, <3>2
    <3>4. QED
      BY <3>2, <3>3
  <2>4. QED
    BY <2>1, <2>2, <2>3 DEF Bijection, Injection, Surjection, IsInjective
<1>6. IsFiniteSet(UnitsOf(g))
  BY <1>1, UnitsFinite
<1>7. Cardinality(rest) = SumOf(g)
  BY <1>5, <1>6, FS_Bijection DEF ExistsBijection, SumOf
<1>8. QED
  BY <1>2, <1>7

-----------------------------------------------------------------------------
(***************************************************************************)
(* The accounts of the memory manager.                                     *)
(***************************************************************************)

Accounting ==
  /\ TypeOK
  /\ BytesConserved
  /\ SharedPoolAccounted
  /\ PoolNotOverdrawn
  /\ HeadroomRespected
  /\ HeadroomOnlyWhilePaused
  /\ PausedHoldsBytes

LEMMA GroupsFinite == IsFiniteSet(PriorityGroups)
  BY ConstantsAssumption, FS_Product DEF PriorityGroups

\* The threshold never exceeds what is left of the pool.
LEMMA ThresholdBound ==
  ASSUME TypeOK, PoolNotOverdrawn, NEW p \in Ports
  PROVE  /\ GetPfcThreshold(p) \in Nat
         /\ GetPfcThreshold(p) <= Pool - shared_used_bytes
<1>1. Pool - shared_used_bytes \in Nat
  BY PoolAssumption DEF TypeOK, PoolNotOverdrawn
<1>2. Divisor[p] \in {1, 2, 4, 8}
  BY ConstantsAssumption
<1> DEFINE free == Pool - shared_used_bytes
<1> HIDE DEF free
<1>3. \A d \in {1, 2, 4, 8} : free \in Nat => free \div d \in Nat /\ free \div d <= free
  OBVIOUS
<1>4. QED
  BY <1>1, <1>2, <1>3 DEF GetPfcThreshold, free

LEMMA SharedUsedType ==
  ASSUME TypeOK
  PROVE  /\ SharedUsed \in [PriorityGroups -> Nat]
         /\ \A pg \in PriorityGroups : SharedUsed[pg] = GetSharedUsed(pg)
         /\ \A pg \in PriorityGroups : GetSharedUsed(pg) \in Nat
  BY ConstantsAssumption DEF TypeOK, SharedUsed, GetSharedUsed

\* When only the charge of group pg changes, so does only its term of the sum.
LEMMA SharedMoves ==
  ASSUME TypeOK, TypeOK', NEW pg \in PriorityGroups,
         ingress_bytes' = [ingress_bytes EXCEPT ![pg] = ingress_bytes'[pg]]
  PROVE  SumOf(SharedUsed') = SumOf(SharedUsed) - GetSharedUsed(pg) + GetSharedUsed(pg)'
<1>1. /\ SharedUsed \in [PriorityGroups -> Nat]
      /\ SharedUsed[pg] = GetSharedUsed(pg)
  BY SharedUsedType
<1>2. /\ SharedUsed' \in [PriorityGroups -> Nat]
      /\ SharedUsed'[pg] = GetSharedUsed(pg)'
  BY ConstantsAssumption DEF TypeOK, SharedUsed, GetSharedUsed
<1>3. \A x \in PriorityGroups \ {pg} : SharedUsed'[x] = SharedUsed[x]
  BY DEF TypeOK, SharedUsed, GetSharedUsed
<1>4. QED
  BY <1>1, <1>2, <1>3, GroupsFinite, SumUpdate

LEMMA InitAccounting == Init => Accounting
<1> SUFFICES ASSUME Init PROVE Accounting
  OBVIOUS
<1>1. TypeOK
  BY DEF Init, TypeOK
<1>2. SharedPoolAccounted
  <2>1. \A pg \in PriorityGroups : SharedUsed[pg] = 0
    BY ConstantsAssumption DEF Init, SharedUsed, GetSharedUsed
  <2>2. SumOf(SharedUsed) = 0
    BY <1>1, <2>1, SharedUsedType, SumOfZeros
  <2>3. QED
    BY <2>2 DEF Init, SharedPoolAccounted
<1>3. BytesConserved /\ PoolNotOverdrawn /\ HeadroomRespected
  BY ConstantsAssumption, PoolAssumption
     DEF Init, BytesConserved, PoolNotOverdrawn, HeadroomRespected, PriorityGroups
<1>4. HeadroomOnlyWhilePaused /\ PausedHoldsBytes
  BY DEF Init, HeadroomOnlyWhilePaused, PausedHoldsBytes
<1>5. QED
  BY <1>1, <1>2, <1>3, <1>4 DEF Accounting

\* What UpdateIngressAdmission does to the three counters, whatever it charges.
LEMMA ChargeEffect ==
  ASSUME Accounting, NEW pg \in PriorityGroups, NEW psize \in Sizes,
         CheckIngressAdmission(pg, psize), UpdateIngressAdmission(pg, psize)
  PROVE  /\ hdrm_bytes' = [hdrm_bytes EXCEPT ![pg] = hdrm_bytes'[pg]]
         /\ hdrm_bytes'[pg] \in Nat
         /\ ingress_bytes' = [ingress_bytes EXCEPT ![pg] = ingress_bytes'[pg]]
         /\ ingress_bytes'[pg] \in Nat
         /\ hdrm_bytes'[pg] + ingress_bytes'[pg]
              = hdrm_bytes[pg] + ingress_bytes[pg] + psize
         /\ hdrm_bytes'[pg] <= Headroom[pg[1]]
         /\ shared_used_bytes'
              = shared_used_bytes - GetSharedUsed(pg) + GetSharedUsed(pg)'
         /\ shared_used_bytes' <= Pool
         /\ shared_used_bytes' \in Nat
<1>1. /\ psize \in Nat \ {0} /\ Reserve \in Nat /\ pg[1] \in Ports
      /\ Headroom[pg[1]] \in Nat
  BY ConstantsAssumption DEF PriorityGroups
<1>2. /\ hdrm_bytes \in [PriorityGroups -> Nat]
      /\ ingress_bytes \in [PriorityGroups -> Nat]
      /\ shared_used_bytes \in Nat
      /\ hdrm_bytes[pg] <= Headroom[pg[1]]
      /\ shared_used_bytes <= Pool
      /\ Pool \in Nat
  BY PoolAssumption DEF Accounting, TypeOK, HeadroomRespected, PoolNotOverdrawn
<1>3. /\ GetPfcThreshold(pg[1]) \in Nat
      /\ GetPfcThreshold(pg[1]) <= Pool - shared_used_bytes
  BY <1>1, ThresholdBound DEF Accounting
<1>4. CASE ChargeReserve(pg, psize)
  BY <1>1, <1>2, <1>4 DEF ChargeReserve, GetSharedUsed
<1>5. CASE ChargeHeadroom(pg, psize)
  BY <1>1, <1>2, <1>3, <1>5
     DEF ChargeHeadroom, CheckIngressAdmission, GetSharedUsed
<1>6. CASE ChargePool(pg, psize)
  BY <1>1, <1>2, <1>3, <1>6 DEF ChargePool, GetSharedUsed
<1>7. QED
  BY <1>4, <1>5, <1>6 DEF UpdateIngressAdmission

\* What RemoveFromIngressAdmission does to the three counters.  The pool gives
\* back at most what the group used of it, which the sum covers.
LEMMA RemoveEffect ==
  ASSUME Accounting, NEW pg \in PriorityGroups, NEW psize \in Sizes,
         psize <= queued[pg], RemoveFromIngressAdmission(pg, psize)
  PROVE  /\ hdrm_bytes' = [hdrm_bytes EXCEPT ![pg] = hdrm_bytes'[pg]]
         /\ hdrm_bytes'[pg] \in Nat
         /\ ingress_bytes' = [ingress_bytes EXCEPT ![pg] = ingress_bytes'[pg]]
         /\ ingress_bytes'[pg] \in Nat
         /\ hdrm_bytes'[pg] + ingress_bytes'[pg]
              = hdrm_bytes[pg] + ingress_bytes[pg] - psize
         /\ hdrm_bytes'[pg] <= Headroom[pg[1]]
         /\ shared_used_bytes'
              = shared_used_bytes - GetSharedUsed(pg) + GetSharedUsed(pg)'
         /\ shared_used_bytes' <= Pool
         /\ shared_used_bytes' \in Nat
<1>1. /\ psize \in Nat \ {0} /\ Reserve \in Nat /\ pg[1] \in Ports
      /\ Headroom[pg[1]] \in Nat
  BY ConstantsAssumption DEF PriorityGroups
<1>2. /\ hdrm_bytes \in [PriorityGroups -> Nat]
      /\ ingress_bytes \in [PriorityGroups -> Nat]
      /\ shared_used_bytes \in Nat
      /\ hdrm_bytes[pg] <= Headroom[pg[1]]
      /\ hdrm_bytes[pg] + ingress_bytes[pg] = queued[pg]
      /\ shared_used_bytes <= Pool
      /\ Pool \in Nat
  BY PoolAssumption
     DEF Accounting, TypeOK, HeadroomRespected, PoolNotOverdrawn, BytesConserved
<1>3. GetSharedUsed(pg) <= shared_used_bytes
  <2>1. SharedUsed \in [PriorityGroups -> Nat] /\ SharedUsed[pg] = GetSharedUsed(pg)
    BY SharedUsedType DEF Accounting
  <2>2. QED
    BY <2>1, GroupsFinite, TermBelowSum DEF Accounting, SharedPoolAccounted
<1>4. CASE hdrm_bytes[pg] < psize
  BY <1>1, <1>2, <1>3, <1>4
     DEF RemoveFromIngressAdmission, FromHdrm, FromShared, GetSharedUsed
<1>5. CASE hdrm_bytes[pg] >= psize
  BY <1>1, <1>2, <1>3, <1>5
     DEF RemoveFromIngressAdmission, FromHdrm, FromShared, GetSharedUsed
<1>6. QED
  BY <1>1, <1>2, <1>4, <1>5

\* The parts of Accounting that do not mention pauses follow, for an admission
\* and for a dequeue alike, from what the step does to the counters.
LEMMA CountersStep ==
  ASSUME Accounting, NEW pg \in PriorityGroups, NEW delta \in Int,
         hdrm_bytes' = [hdrm_bytes EXCEPT ![pg] = hdrm_bytes'[pg]],
         hdrm_bytes'[pg] \in Nat,
         ingress_bytes' = [ingress_bytes EXCEPT ![pg] = ingress_bytes'[pg]],
         ingress_bytes'[pg] \in Nat,
         hdrm_bytes'[pg] + ingress_bytes'[pg]
           = hdrm_bytes[pg] + ingress_bytes[pg] + delta,
         hdrm_bytes'[pg] <= Headroom[pg[1]],
         shared_used_bytes'
           = shared_used_bytes - GetSharedUsed(pg) + GetSharedUsed(pg)',
         shared_used_bytes' <= Pool,
         shared_used_bytes' \in Nat,
         queued' = [queued EXCEPT ![pg] = @ + delta],
         paused' \in [PriorityGroups -> BOOLEAN]
  PROVE  TypeOK' /\ BytesConserved' /\ SharedPoolAccounted'
         /\ PoolNotOverdrawn' /\ HeadroomRespected'
<1>1. /\ hdrm_bytes \in [PriorityGroups -> Nat]
      /\ ingress_bytes \in [PriorityGroups -> Nat]
      /\ queued \in [PriorityGroups -> Nat]
      /\ shared_used_bytes \in Nat
      /\ \A x \in PriorityGroups : hdrm_bytes[x] + ingress_bytes[x] = queued[x]
      /\ \A x \in PriorityGroups : hdrm_bytes[x] <= Headroom[x[1]]
  BY DEF Accounting, TypeOK, BytesConserved, HeadroomRespected
<1>2. BytesConserved'
  <2> SUFFICES ASSUME NEW x \in PriorityGroups
               PROVE  hdrm_bytes'[x] + ingress_bytes'[x] = queued'[x]
    BY DEF BytesConserved
  <2>1. CASE x = pg
    BY <1>1, <2>1
  <2>2. CASE x # pg
    BY <1>1, <2>2
  <2>3. QED
    BY <2>1, <2>2
<1>3. TypeOK'
  <2>1. hdrm_bytes' \in [PriorityGroups -> Nat] /\ ingress_bytes' \in [PriorityGroups -> Nat]
    BY <1>1
  <2>2. queued'[pg] \in Nat
    BY <1>2, <2>1 DEF BytesConserved
  <2>3. queued' \in [PriorityGroups -> Nat]
    BY <1>1, <2>2
  <2>4. QED
    BY <2>1, <2>3 DEF TypeOK
<1>4. SharedPoolAccounted'
  <2>1. SumOf(SharedUsed') = SumOf(SharedUsed) - GetSharedUsed(pg) + GetSharedUsed(pg)'
    BY <1>3, SharedMoves DEF Accounting
  <2>2. shared_used_bytes = SumOf(SharedUsed)
    BY DEF Accounting, SharedPoolAccounted
  <2>3. QED
    BY <2>1, <2>2 DEF SharedPoolAccounted
<1>5. HeadroomRespected'
  BY <1>1 DEF HeadroomRespected
<1>6. PoolNotOverdrawn'
  BY DEF PoolNotOverdrawn
<1>7. QED
  BY <1>2, <1>3, <1>4, <1>5, <1>6

LEMMA AdmitAccounting ==
  ASSUME Accounting, NEW pg \in PriorityGroups, NEW psize \in Sizes,
         Admit(pg, psize)
  PROVE  Accounting'
<1>1. psize \in Int /\ psize > 0
  BY ConstantsAssumption
<1>2. /\ paused \in [PriorityGroups -> BOOLEAN]
      /\ paused' = [paused EXCEPT ![pg] = @ \/ CheckShouldPause(pg)']
      /\ CheckIngressAdmission(pg, psize)
      /\ UpdateIngressAdmission(pg, psize)
      /\ queued' = [queued EXCEPT ![pg] = @ + psize]
  BY DEF Admit, Accounting, TypeOK
<1>3. paused' \in [PriorityGroups -> BOOLEAN]
  BY <1>2 DEF CheckShouldPause
<1>4. /\ TypeOK' /\ BytesConserved' /\ SharedPoolAccounted'
      /\ PoolNotOverdrawn' /\ HeadroomRespected'
  BY <1>1, <1>2, <1>3, ChargeEffect, CountersStep
<1>5. hdrm_bytes' = [hdrm_bytes EXCEPT ![pg] = hdrm_bytes'[pg]]
  BY <1>2, ChargeEffect
<1>6. HeadroomOnlyWhilePaused'
  <2> SUFFICES ASSUME NEW x \in PriorityGroups, hdrm_bytes'[x] > 0
               PROVE  paused'[x]
    BY DEF HeadroomOnlyWhilePaused
  <2>1. CASE x = pg
    BY <1>2, <2>1 DEF CheckShouldPause
  <2>2. CASE x # pg
    BY <1>2, <1>5, <2>2 DEF Accounting, TypeOK, HeadroomOnlyWhilePaused
  <2>3. QED
    BY <2>1, <2>2
<1>7. PausedHoldsBytes'
  BY <1>1, <1>2 DEF Accounting, TypeOK, PausedHoldsBytes
<1>8. QED
  BY <1>4, <1>6, <1>7 DEF Accounting

LEMMA DequeueAccounting ==
  ASSUME Accounting, NEW pg \in PriorityGroups, NEW psize \in Sizes,
         Dequeue(pg, psize)
  PROVE  Accounting'
<1>1. psize \in Int /\ psize > 0
  BY ConstantsAssumption
<1>2. /\ paused \in [PriorityGroups -> BOOLEAN]
      /\ queued \in [PriorityGroups -> Nat]
      /\ paused' = [paused EXCEPT ![pg] = @ /\ ~CheckShouldResume(pg)']
      /\ psize <= queued[pg]
      /\ RemoveFromIngressAdmission(pg, psize)
      /\ queued' = [queued EXCEPT ![pg] = @ + (-psize)]
  BY <1>1 DEF Dequeue, Accounting, TypeOK
<1>3. paused' \in [PriorityGroups -> BOOLEAN]
  BY <1>2 DEF CheckShouldResume
<1>4. /\ hdrm_bytes' = [hdrm_bytes EXCEPT ![pg] = hdrm_bytes'[pg]]
      /\ hdrm_bytes'[pg] \in Nat /\ ingress_bytes'[pg] \in Nat
  BY <1>2, RemoveEffect
<1>5. /\ TypeOK' /\ BytesConserved' /\ SharedPoolAccounted'
      /\ PoolNotOverdrawn' /\ HeadroomRespected'
  <2>1. hdrm_bytes'[pg] + ingress_bytes'[pg]
          = hdrm_bytes[pg] + ingress_bytes[pg] + (-psize)
    BY <1>1, <1>2, RemoveEffect DEF Accounting, TypeOK
  <2>2. /\ ingress_bytes' = [ingress_bytes EXCEPT ![pg] = ingress_bytes'[pg]]
        /\ hdrm_bytes'[pg] <= Headroom[pg[1]]
        /\ shared_used_bytes'
             = shared_used_bytes - GetSharedUsed(pg) + GetSharedUsed(pg)'
        /\ shared_used_bytes' <= Pool
        /\ shared_used_bytes' \in Nat
    BY <1>2, RemoveEffect
  <2> DEFINE delta == -psize
  <2>3. delta \in Int
    BY <1>1
  <2>4. /\ queued' = [queued EXCEPT ![pg] = @ + delta]
        /\ hdrm_bytes'[pg] + ingress_bytes'[pg]
             = hdrm_bytes[pg] + ingress_bytes[pg] + delta
    BY <1>2, <2>1
  <2> HIDE DEF delta
  <2>5. QED
    BY <1>3, <1>4, <2>2, <2>3, <2>4, CountersStep
<1>6. HeadroomOnlyWhilePaused'
  <2> SUFFICES ASSUME NEW x \in PriorityGroups, hdrm_bytes'[x] > 0
               PROVE  paused'[x]
    BY DEF HeadroomOnlyWhilePaused
  <2>1. CASE x = pg
    <3>1. hdrm_bytes'[pg] <= hdrm_bytes[pg] /\ hdrm_bytes[pg] \in Nat
      BY <1>1, <1>2 DEF RemoveFromIngressAdmission, FromHdrm, Accounting, TypeOK
    <3>2. paused[pg]
      BY <1>4, <2>1, <3>1 DEF Accounting, HeadroomOnlyWhilePaused
    <3>3. ~CheckShouldResume(pg)'
      BY <1>4, <2>1 DEF CheckShouldResume
    <3>4. QED
      BY <1>2, <2>1, <3>2, <3>3
  <2>2. CASE x # pg
    BY <1>2, <1>4, <2>2 DEF Accounting, TypeOK, HeadroomOnlyWhilePaused
  <2>3. QED
    BY <2>1, <2>2
<1>7. PausedHoldsBytes'
  <2> SUFFICES ASSUME NEW x \in PriorityGroups, paused'[x]
               PROVE  queued'[x] > 0
    BY DEF PausedHoldsBytes
  <2>1. CASE x = pg
    <3>1. ~CheckShouldResume(pg)'
      BY <1>2, <2>1
    <3>2. hdrm_bytes'[pg] # 0 \/ GetSharedUsed(pg)' # 0
      BY <3>1 DEF CheckShouldResume
    <3>3. hdrm_bytes'[pg] # 0 \/ ingress_bytes'[pg] # 0
      BY <1>4, <3>2, ConstantsAssumption DEF GetSharedUsed
    <3>4. hdrm_bytes'[pg] + ingress_bytes'[pg] = queued'[pg]
      BY <1>5 DEF BytesConserved
    <3>5. QED
      BY <1>4, <2>1, <3>3, <3>4
  <2>2. CASE x # pg
    BY <1>2, <2>2 DEF Accounting, TypeOK, PausedHoldsBytes
  <2>3. QED
    BY <2>1, <2>2
<1>8. QED
  BY <1>5, <1>6, <1>7 DEF Accounting

LEMMA AccountingInductive == Accounting /\ [Next]_vars => Accounting'
<1> SUFFICES ASSUME Accounting, [Next]_vars
             PROVE  Accounting'
  OBVIOUS
<1>1. CASE Next
  BY <1>1, AdmitAccounting, DequeueAccounting DEF Next
<1>2. CASE UNCHANGED vars
  BY <1>2 DEF vars, Accounting, TypeOK, BytesConserved, SharedPoolAccounted,
              SharedUsed, GetSharedUsed, PoolNotOverdrawn, HeadroomRespected,
              HeadroomOnlyWhilePaused, PausedHoldsBytes
<1>3. QED
  BY <1>1, <1>2

THEOREM AccountingInvariant == Spec => []Accounting
  BY InitAccounting, AccountingInductive, PTL DEF Spec

\* The variables keep their types: no counter of the code goes below zero.
THEOREM TypeCorrect == Spec => []TypeOK
<1>1. Accounting => TypeOK
  BY DEF Accounting
<1>2. QED
  BY <1>1, AccountingInvariant, PTL

\* What is charged to a group is what it has in the switch.
THEOREM NothingLostOrInvented == Spec => []BytesConserved
<1>1. Accounting => BytesConserved
  BY DEF Accounting
<1>2. QED
  BY <1>1, AccountingInvariant, PTL

\* The pool counter is the sum of the groups' shares.
THEOREM PoolIsSumOfShares == Spec => []SharedPoolAccounted
<1>1. Accounting => SharedPoolAccounted
  BY DEF Accounting
<1>2. QED
  BY <1>1, AccountingInvariant, PTL

\* The pool is never overdrawn and no group exceeds the headroom of its port.
THEOREM LimitsRespected == Spec => [](PoolNotOverdrawn /\ HeadroomRespected)
<1>1. Accounting => PoolNotOverdrawn /\ HeadroomRespected
  BY DEF Accounting
<1>2. QED
  BY <1>1, AccountingInvariant, PTL

\* A paused group always has a packet whose dequeue will evaluate the resume.
THEOREM NoOrphanPause == Spec => []PausedHoldsBytes
<1>1. Accounting => PausedHoldsBytes
  BY DEF Accounting
<1>2. QED
  BY <1>1, AccountingInvariant, PTL

\* A packet is refused only in a group that is already paused.
THEOREM NoDropBeforePause == Spec => []DropOnlyWhenPaused
<1>1. Accounting => DropOnlyWhenPaused
  <2> SUFFICES ASSUME Accounting, NEW pg \in PriorityGroups, NEW psize \in Sizes,
                      psize <= Headroom[pg[1]], ~CheckIngressAdmission(pg, psize)
               PROVE  paused[pg]
    BY DEF DropOnlyWhenPaused
  <2>1. /\ psize \in Nat /\ hdrm_bytes[pg] \in Nat
        /\ Headroom[pg[1]] \in Nat
    BY ConstantsAssumption DEF Accounting, TypeOK, PriorityGroups
  <2>2. hdrm_bytes[pg] > 0
    BY <2>1 DEF CheckIngressAdmission
  <2>3. QED
    BY <2>2 DEF Accounting, HeadroomOnlyWhilePaused
<1>2. QED
  BY <1>1, AccountingInvariant, PTL

-----------------------------------------------------------------------------
(***************************************************************************)
(* The packets in the switch fit in the buffer, as far as its budget goes. *)
(* What a group has beyond its share of the pool is in its headroom and    *)
(* reserve: its units are counted by an injection into those of all        *)
(* groups.                                                                 *)
(***************************************************************************)
Beyond ==
  {u \in PriorityGroups \X Nat : u[2] \in (SharedUsed[u[1]] + 1)..queued[u[1]]}

HeadroomUnits == UnitsOf(Headroom) \X {"headroom"}
ReserveUnits == (Ports \X (1..Reserve)) \X {"reserve"}
OwnUnits == Queues \X (HeadroomUnits \cup ReserveUnits)

OwnUnit(pg, n) ==
  IF n <= Headroom[pg[1]]
  THEN <<pg[2], <<<<pg[1], n>>, "headroom">>>>
  ELSE <<pg[2], <<<<pg[1], n - Headroom[pg[1]]>>, "reserve">>>>

LEMMA OwnUnitsCounted ==
  /\ IsFiniteSet(OwnUnits)
  /\ TotalHdrm \in Nat /\ TotalRsrv \in Nat
  /\ Cardinality(OwnUnits) = Cardinality(Queues) * (TotalHdrm + TotalRsrv)
<1>1. /\ IsFiniteSet(UnitsOf(Headroom)) /\ TotalHdrm \in Nat
      /\ Cardinality(UnitsOf(Headroom)) = TotalHdrm
  BY ConstantsAssumption, UnitsFinite DEF TotalHdrm, SumOf
<1>2. \A x : IsFiniteSet({x}) /\ Cardinality({x}) = 1
  BY FS_Singleton
<1>3. IsFiniteSet(HeadroomUnits) /\ Cardinality(HeadroomUnits) = TotalHdrm
  <2>1. /\ IsFiniteSet(HeadroomUnits)
        /\ Cardinality(HeadroomUnits)
             = Cardinality(UnitsOf(Headroom)) * Cardinality({"headroom"})
    BY <1>1, <1>2, FS_Product DEF HeadroomUnits
  <2>2. QED
    BY <1>1, <1>2, <2>1
<1>4. /\ IsFiniteSet(Ports) /\ Cardinality(Ports) \in Nat
      /\ IsFiniteSet(Queues) /\ Cardinality(Queues) \in Nat
      /\ Reserve \in Nat
  BY ConstantsAssumption, FS_CardinalityType
<1>5. IsFiniteSet(1..Reserve) /\ Cardinality(1..Reserve) = Reserve
  <2>1. 1 \in Int /\ Reserve \in Int
    BY <1>4
  <2>2. /\ IsFiniteSet(1..Reserve)
        /\ Cardinality(1..Reserve) = IF 1 > Reserve THEN 0 ELSE Reserve - 1 + 1
    BY <2>1, FS_Interval
  <2>3. QED
    BY <1>4, <2>2
<1>6. TotalRsrv \in Nat
  BY <1>4 DEF TotalRsrv
<1>7. IsFiniteSet(ReserveUnits) /\ Cardinality(ReserveUnits) = TotalRsrv
  <2>1. /\ IsFiniteSet(Ports \X (1..Reserve))
        /\ Cardinality(Ports \X (1..Reserve)) = Cardinality(Ports) * Cardinality(1..Reserve)
    BY <1>4, <1>5, FS_Product
  <2>2. Cardinality(Ports \X (1..Reserve)) = TotalRsrv
    BY <1>5, <2>1 DEF TotalRsrv
  <2>3. /\ IsFiniteSet(ReserveUnits)
        /\ Cardinality(ReserveUnits) = TotalRsrv * Cardinality({"reserve"})
    BY <1>2, <2>1, <2>2, FS_Product DEF ReserveUnits
  <2>4. Cardinality({"reserve"}) = 1 /\ TotalRsrv * 1 = TotalRsrv
    BY <1>2, <1>6
  <2>5. QED
    BY <2>3, <2>4, Zenon
<1>8. HeadroomUnits \cap ReserveUnits = {}
  BY DEF HeadroomUnits, ReserveUnits
<1>9. /\ IsFiniteSet(HeadroomUnits \cup ReserveUnits)
      /\ Cardinality(HeadroomUnits \cup ReserveUnits) = TotalHdrm + TotalRsrv
  <2>1. /\ IsFiniteSet(HeadroomUnits \cup ReserveUnits)
        /\ Cardinality(HeadroomUnits \cup ReserveUnits)
             = Cardinality(HeadroomUnits) + Cardinality(ReserveUnits)
                 - Cardinality(HeadroomUnits \cap ReserveUnits)
    BY <1>3, <1>7, FS_Union
  <2>2. Cardinality(HeadroomUnits \cap ReserveUnits) = 0
    BY <1>8, FS_EmptySet
  <2>3. QED
    BY <1>1, <1>3, <1>6, <1>7, <2>1, <2>2
<1>10. /\ IsFiniteSet(OwnUnits)
       /\ Cardinality(OwnUnits)
            = Cardinality(Queues) * Cardinality(HeadroomUnits \cup ReserveUnits)
  BY <1>4, <1>9, FS_Product DEF OwnUnits
<1>11. QED
  BY <1>1, <1>6, <1>9, <1>10, Zenon

\* What a group has beyond its share of the pool is within its headroom and reserve.
LEMMA BeyondIsOwn ==
  ASSUME Accounting, NEW pg \in PriorityGroups
  PROVE  /\ SharedUsed[pg] \in Nat /\ queued[pg] \in Nat
         /\ queued[pg] - SharedUsed[pg] <= Headroom[pg[1]] + Reserve
<1>1. /\ hdrm_bytes[pg] \in Nat /\ ingress_bytes[pg] \in Nat /\ queued[pg] \in Nat
      /\ hdrm_bytes[pg] <= Headroom[pg[1]]
      /\ hdrm_bytes[pg] + ingress_bytes[pg] = queued[pg]
      /\ Reserve \in Nat /\ pg[1] \in Ports /\ Headroom[pg[1]] \in Nat
  BY ConstantsAssumption
     DEF Accounting, TypeOK, HeadroomRespected, BytesConserved, PriorityGroups
<1>2. SharedUsed[pg] = IF ingress_bytes[pg] > Reserve THEN ingress_bytes[pg] - Reserve ELSE 0
  BY DEF SharedUsed, GetSharedUsed
<1>3. QED
  BY <1>1, <1>2

LEMMA BeyondCounted ==
  ASSUME Accounting
  PROVE  IsFiniteSet(Beyond) /\ Cardinality(Beyond) <= Cardinality(OwnUnits)
<1> DEFINE f == [u \in Beyond |-> OwnUnit(u[1], u[2] - SharedUsed[u[1]])]
<1>1. ASSUME NEW u \in Beyond
      PROVE  /\ u = <<u[1], u[2]>> /\ u[1] = <<u[1][1], u[1][2]>>
             /\ u[1] \in PriorityGroups /\ u[1][1] \in Ports /\ u[1][2] \in Queues
             /\ u[2] \in Nat /\ SharedUsed[u[1]] \in Nat
             /\ u[2] - SharedUsed[u[1]] \in 1..(Headroom[u[1][1]] + Reserve)
             /\ Headroom[u[1][1]] \in Nat /\ Reserve \in Nat
  <2>1. /\ u = <<u[1], u[2]>> /\ u[1] \in PriorityGroups /\ u[2] \in Nat
        /\ u[2] \in (SharedUsed[u[1]] + 1)..queued[u[1]]
    BY DEF Beyond
  <2>2. u[1] = <<u[1][1], u[1][2]>> /\ u[1][1] \in Ports /\ u[1][2] \in Queues
    BY <2>1 DEF PriorityGroups
  <2>3. /\ SharedUsed[u[1]] \in Nat /\ queued[u[1]] \in Nat
        /\ queued[u[1]] - SharedUsed[u[1]] <= Headroom[u[1][1]] + Reserve
    BY <2>1, BeyondIsOwn
  <2>4. Headroom[u[1][1]] \in Nat /\ Reserve \in Nat
    BY <2>2, ConstantsAssumption
  <2>5. QED
    BY <2>1, <2>2, <2>3, <2>4
<1>2. ASSUME NEW u \in Beyond
      PROVE  f[u] \in OwnUnits
  <2> DEFINE n == u[2] - SharedUsed[u[1]]
             p == u[1][1]
             q == u[1][2]
  <2>1. n \in 1..(Headroom[p] + Reserve) /\ Headroom[p] \in Nat /\ p \in Ports /\ q \in Queues
    BY <1>1
  <2>2. f[u] = IF n <= Headroom[p] THEN <<q, <<<<p, n>>, "headroom">>>>
               ELSE <<q, <<<<p, n - Headroom[p]>>, "reserve">>>>
    BY DEF OwnUnit
  <2> HIDE DEF n, p, q, f
  <2>3. CASE n <= Headroom[p]
    <3>1. DOMAIN Headroom = Ports
      BY ConstantsAssumption
    <3>2. <<p, n>> \in UnitsOf(Headroom)
      BY <2>1, <2>3, <3>1 DEF UnitsOf
    <3>3. QED
      BY <2>1, <2>2, <2>3, <3>2 DEF OwnUnits, HeadroomUnits
  <2>4. CASE n > Headroom[p]
    <3>1. n - Headroom[p] \in 1..Reserve /\ ~(n <= Headroom[p])
      BY <2>1, <2>4, ConstantsAssumption
    <3>2. QED
      BY <2>1, <2>2, <3>1 DEF OwnUnits, ReserveUnits
  <2>5. QED
    BY <2>1, <2>3, <2>4
<1>3. ASSUME NEW u \in Beyond, NEW v \in Beyond, f[u] = f[v]
      PROVE  u = v
  <2>1. OwnUnit(u[1], u[2] - SharedUsed[u[1]]) = OwnUnit(v[1], v[2] - SharedUsed[v[1]])
    BY <1>3
  <2>2. u[1][1] = v[1][1] /\ u[1][2] = v[1][2]
    BY <2>1 DEF OwnUnit
  <2>3. u[1] = v[1]
    BY <1>1, <2>2
  <2>4. u[2] - SharedUsed[u[1]] = v[2] - SharedUsed[v[1]]
    BY <1>1, <2>1, <2>3 DEF OwnUnit
  <2>5. u[2] = v[2]
    BY <1>1, <2>3, <2>4
  <2>6. QED
    BY <1>1, <2>3, <2>5
<1>4. f \in Injection(Beyond, OwnUnits)
  <2>1. f \in [Beyond -> OwnUnits]
    BY <1>2
  <2>2. QED
    BY <1>3, <2>1 DEF Injection, IsInjective
<1>5. QED
  BY <1>4, OwnUnitsCounted, FS_Injection

\* The packets in the switch exceed the buffer by no more than the headroom and the
\* reserve the budget leaves out.
THEOREM BufferHolds == Spec => []WithinBuffer
<1>1. ASSUME Accounting PROVE WithinBuffer
  <2>1. /\ SharedUsed \in [PriorityGroups -> Nat] /\ queued \in [PriorityGroups -> Nat]
        /\ \A pg \in PriorityGroups : SharedUsed[pg] \in Nat
    BY <1>1, SharedUsedType DEF Accounting, TypeOK
  <2>2. IsFiniteSet(UnitsOf(SharedUsed)) /\ SumOf(SharedUsed) \in Nat
    BY <2>1, GroupsFinite, UnitsFinite
  <2>3. IsFiniteSet(UnitsOf(queued)) /\ SumOf(queued) \in Nat
    BY <2>1, GroupsFinite, UnitsFinite
  <2>4. UnitsOf(queued) \subseteq UnitsOf(SharedUsed) \cup Beyond
    <3> SUFFICES ASSUME NEW u \in UnitsOf(queued)
                 PROVE  u \in UnitsOf(SharedUsed) \/ u \in Beyond
      OBVIOUS
    <3>1. PICK pg \in PriorityGroups : u \in {pg} \X (1..queued[pg])
      BY <2>1 DEF UnitsOf
    <3>2. PICK k \in 1..queued[pg] : u = <<pg, k>>
      BY <3>1
    <3>3. CASE k <= SharedUsed[pg]
      BY <2>1, <3>2, <3>3 DEF UnitsOf
    <3>4. CASE k > SharedUsed[pg]
      BY <2>1, <3>2, <3>4 DEF Beyond
    <3>5. QED
      BY <2>1, <3>3, <3>4
  <2>5. IsFiniteSet(Beyond) /\ Cardinality(Beyond) <= Cardinality(OwnUnits)
    BY <1>1, BeyondCounted
  <2>6. /\ IsFiniteSet(UnitsOf(SharedUsed) \cup Beyond)
        /\ Cardinality(UnitsOf(SharedUsed) \cup Beyond)
             <= Cardinality(UnitsOf(SharedUsed)) + Cardinality(Beyond)
    <3>1. /\ IsFiniteSet(UnitsOf(SharedUsed) \cup Beyond)
          /\ Cardinality(UnitsOf(SharedUsed) \cup Beyond)
               = Cardinality(UnitsOf(SharedUsed)) + Cardinality(Beyond)
                   - Cardinality(UnitsOf(SharedUsed) \cap Beyond)
      BY <2>2, <2>5, FS_Union
    <3>2. Cardinality(UnitsOf(SharedUsed) \cap Beyond) \in Nat
      BY <2>2, FS_Subset, FS_CardinalityType
    <3>3. Cardinality(UnitsOf(SharedUsed)) \in Nat /\ Cardinality(Beyond) \in Nat
      BY <2>2, <2>5, FS_CardinalityType
    <3>4. QED
      BY <3>1, <3>2, <3>3
  <2>7. SumOf(queued) <= Cardinality(UnitsOf(SharedUsed) \cup Beyond)
    BY <2>4, <2>6, FS_Subset DEF SumOf
  <2>8. SumOf(SharedUsed) <= Pool
    BY <1>1 DEF Accounting, SharedPoolAccounted, PoolNotOverdrawn
  <2>9. SumOf(queued) <= Pool + Cardinality(Queues) * (TotalHdrm + TotalRsrv)
    <3>1. /\ Cardinality(Beyond) \in Nat
          /\ Cardinality(UnitsOf(SharedUsed) \cup Beyond) \in Nat
          /\ Cardinality(OwnUnits) \in Nat
      BY <2>5, <2>6, OwnUnitsCounted, FS_CardinalityType
    <3> DEFINE own == Cardinality(Queues) * (TotalHdrm + TotalRsrv)
    <3>2. Cardinality(OwnUnits) = own
      BY OwnUnitsCounted
    <3> HIDE DEF own
    <3>3. SumOf(queued) <= Pool + own
      BY <2>2, <2>3, <2>5, <2>6, <2>7, <2>8, <3>1, <3>2, PoolAssumption DEF SumOf
    <3>4. QED
      BY <3>3 DEF own
  <2>10. QED
    <3>1. Cardinality(Queues) \in Nat
      BY ConstantsAssumption, FS_CardinalityType
    <3> DEFINE n == Cardinality(Queues)
               own == TotalHdrm + TotalRsrv
    <3>2. n \in Nat /\ own \in Nat
      BY <3>1, OwnUnitsCounted
    <3>3. n * own = (n - 1) * own + own
      <4> HIDE DEF n, own
      <4>1. QED
        BY <3>2
    <3>4. n * own \in Int /\ (n - 1) * own \in Int
      <4> HIDE DEF n, own
      <4>1. QED
        BY <3>2
    <3>5. Pool = BufferSize - TotalHdrm - TotalRsrv /\ Pool \in Nat
      BY PoolAssumption DEF Pool
    <3>6. SumOf(queued) <= Pool + n * own
      BY <2>9
    <3> DEFINE no == n * own
               n1o == (n - 1) * own
    <3>7. no = n1o + own /\ no \in Int /\ n1o \in Int /\ SumOf(queued) <= Pool + no
      BY <3>3, <3>4, <3>6
    <3> HIDE DEF no, n1o
    <3>8. Pool + own <= BufferSize
      BY <3>5, OwnUnitsCounted, ConstantsAssumption DEF own
    <3>9. SumOf(queued) <= BufferSize + n1o
      <4> HIDE DEF own
      <4>1. QED
        BY <2>3, <3>2, <3>5, <3>7, <3>8, ConstantsAssumption
    <3>10. QED
      BY <3>9 DEF n1o, n, own, WithinBuffer
<1>2. QED
  BY <1>1, AccountingInvariant, PTL
=============================================================================
