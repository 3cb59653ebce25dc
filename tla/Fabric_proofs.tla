---------------------------- MODULE Fabric_proofs ----------------------------
(***************************************************************************)
(* Traces and routes over a fabric.                                        *)
(*                                                                         *)
(* Traces, for every topology of ports, set of flows and paths, pauses and *)
(* times of polling: a signal reaches only ports behind the pauses of a    *)
(* flow that was polled, and when all is quiet it has reached every one of *)
(* them.  The argument is about what a port has noted last (TraceBook).    *)
(* Whatever it noted was sent on and seen behind it (LastFollowed); what   *)
(* was seen was sent on from there or held back for an event at most one   *)
(* Gap older (SentOn); and a polling packet does the same at each port of  *)
(* its path (PathCovered).                                                 *)
(*                                                                         *)
(* Routes, for every finite set of nodes and every set of links: the       *)
(* tables hold the first hops of all shortest paths after every failure,   *)
(* and so packets come closer with every hop, reach no host but their own  *)
(* and are lost only for want of a path.  The invariant of the search says *)
(* that its queue is ordered by distance, at most one hop apart, and that  *)
(* the nodes that had their round have all their neighbours found          *)
(* (Searched).                                                             *)
(*                                                                         *)
(* The ports downstream of a flow and the search are recursive functions:  *)
(* that they are what their definitions say is proved by induction over    *)
(* sets of naturals (NaturalsByInduction).                                 *)
(***************************************************************************)
EXTENDS PollingTrace, Routing, WellFoundedInduction, FiniteSetTheorems, TLAPS

-----------------------------------------------------------------------------
(***************************************************************************)
(* Induction and recursion over the naturals, for sets and functions.      *)
(***************************************************************************)

\* A set of naturals with 0 and the successor of each of its elements.
LEMMA NaturalsByInduction ==
  ASSUME NEW S \in SUBSET Nat, 0 \in S, \A n \in S : n + 1 \in S
  PROVE  S = Nat
<1>1. SUFFICES ASSUME Nat \ S # {} PROVE FALSE
  OBVIOUS
<1> DEFINE less == OpToRel(<, Nat)
<1>2. less = {pair \in Nat \X Nat : pair[1] < pair[2]}
  BY DEF OpToRel
<1>3. IsWellFoundedOn(less, Nat)
  BY NatLessThanWellFounded
<1> HIDE DEF less
<1>4. PICK x \in Nat \ S : \A y \in Nat \ S : ~(<<y, x>> \in less)
  <2>1. Nat \ S \subseteq Nat
    OBVIOUS
  <2>2. QED
    BY <1>1, <1>3, <2>1, WFMin
<1>5. x # 0 /\ x - 1 \in Nat
  BY <1>4
<1>6. <<x - 1, x>> \in less
  BY <1>2, <1>4, <1>5
<1>7. x - 1 \in S
  BY <1>4, <1>5, <1>6
<1>8. QED
  BY <1>4, <1>5, <1>7

\* The sequence start, step[start], step[step[start]], ...
Iterates(f, S, start, step) ==
  f \in [Nat -> S] /\ f[0] = start /\ \A n \in Nat : f[n + 1] = step[f[n]]

LEMMA IteratesExist ==
  ASSUME NEW S, NEW start \in S, NEW step \in [S -> S]
  PROVE  \E f : Iterates(f, S, start, step)
<1> DEFINE Beginnings(n) ==
      {g \in [0..n -> S] : g[0] = start /\ \A i \in 0..(n - 1) : g[i + 1] = step[g[i]]}
<1>1. \A n \in Nat : Beginnings(n) # {}
  <2> DEFINE D == {n \in Nat : Beginnings(n) # {}}
  <2>1. 0 \in D
    <3>1. [i \in 0..0 |-> start] \in Beginnings(0)
      OBVIOUS
    <3>2. QED
      BY <3>1
  <2>2. ASSUME NEW n \in D PROVE n + 1 \in D
    <3>1. PICK g \in [0..n -> S] :
            g[0] = start /\ \A i \in 0..(n - 1) : g[i + 1] = step[g[i]]
      OBVIOUS
    <3> DEFINE h == [i \in 0..(n + 1) |-> IF i = n + 1 THEN step[g[n]] ELSE g[i]]
    <3>2. n \in Nat /\ g[n] \in S /\ step[g[n]] \in S
      BY <3>1
    <3>3. h \in [0..(n + 1) -> S]
      BY <3>1, <3>2
    <3>4. h[0] = start
      BY <3>1, <3>2
    <3>5. ASSUME NEW i \in 0..(n + 1 - 1) PROVE h[i + 1] = step[h[i]]
      <4>1. CASE i = n
        BY <3>2, <4>1
      <4>2. CASE i # n
        <5>1. i \in 0..(n - 1)
          BY <3>2, <4>2
        <5>2. h[i + 1] = g[i + 1] /\ h[i] = g[i]
          BY <3>2, <5>1
        <5>3. QED
          BY <3>1, <5>1, <5>2
      <4>3. QED
        BY <4>1, <4>2
    <3> HIDE DEF h
    <3>6. h \in Beginnings(n + 1)
      BY <3>3, <3>4, <3>5
    <3>7. QED
      BY <3>2, <3>6
  <2>3. D = Nat
    <3>1. D \in SUBSET Nat
      OBVIOUS
    <3> HIDE DEF D
    <3>2. QED
      BY <2>1, <2>2, <3>1, NaturalsByInduction
  <2>4. QED
    BY <2>3
<1>2. ASSUME NEW n \in Nat, NEW m \in Nat, NEW g \in Beginnings(n), NEW h \in Beginnings(m)
      PROVE  \A i \in Nat : i <= n /\ i <= m => g[i] = h[i]
  <2> DEFINE D == {i \in Nat : i <= n /\ i <= m => g[i] = h[i]}
  <2>1. 0 \in D
    OBVIOUS
  <2>2. ASSUME NEW i \in D PROVE i + 1 \in D
    <3>1. i \in Nat /\ i + 1 \in Nat
      OBVIOUS
    <3>2. CASE i + 1 <= n /\ i + 1 <= m
      <4>1. i \in 0..(n - 1) /\ i \in 0..(m - 1) /\ i <= n /\ i <= m
        BY <3>1, <3>2
      <4>2. g[i] = h[i]
        BY <4>1
      <4>3. g[i + 1] = step[g[i]] /\ h[i + 1] = step[h[i]]
        BY <4>1
      <4>4. QED
        BY <3>1, <4>2, <4>3
    <3>3. QED
      BY <3>1, <3>2
  <2>3. D = Nat
    <3>1. D \in SUBSET Nat
      OBVIOUS
    <3> HIDE DEF D
    <3>2. QED
      BY <2>1, <2>2, <3>1, NaturalsByInduction
  <2>4. QED
    BY <2>3
<1> DEFINE beginning == [n \in Nat |-> CHOOSE g : g \in Beginnings(n)]
           f == [n \in Nat |-> beginning[n][n]]
<1>3. \A n \in Nat : beginning[n] \in Beginnings(n)
  BY <1>1
<1>4. f \in [Nat -> S]
  <2> HIDE DEF beginning
  <2>1. \A n \in Nat : beginning[n][n] \in S
    BY <1>3
  <2>2. QED
    BY <2>1
<1>5. f[0] = start
  <2> HIDE DEF beginning
  <2>1. f[0] = beginning[0][0]
    OBVIOUS
  <2>2. QED
    BY <1>3, <2>1
<1>6. ASSUME NEW n \in Nat PROVE f[n + 1] = step[f[n]]
  <2> HIDE DEF beginning
  <2>1. f[n + 1] = beginning[n + 1][n + 1] /\ f[n] = beginning[n][n]
    OBVIOUS
  <2>2. /\ beginning[n] \in Beginnings(n) /\ beginning[n + 1] \in Beginnings(n + 1)
    BY <1>3
  <2>3. beginning[n + 1][n] = beginning[n][n]
    <3> HIDE DEF Beginnings
    <3>1. n + 1 \in Nat /\ n <= n /\ n <= n + 1
      OBVIOUS
    <3>2. QED
      BY <1>2, <2>2, <3>1
  <2>4. beginning[n + 1][n + 1] = step[beginning[n + 1][n]]
    <3>1. n \in 0..(n + 1 - 1)
      OBVIOUS
    <3>2. \A g \in Beginnings(n + 1) : g[n + 1] = step[g[n]]
      BY <3>1
    <3> HIDE DEF Beginnings
    <3>3. QED
      BY <2>2, <3>2
  <2>5. QED
    BY <2>1, <2>3, <2>4
<1> HIDE DEF f
<1>7. QED
  BY <1>4, <1>5, <1>6 DEF Iterates

\* The elements of a sequence.
LEMMA Elements ==
  ASSUME NEW S, NEW s \in Seq(S)
  PROVE  /\ Len(s) \in Nat /\ DOMAIN s = 1..Len(s)
         /\ \A i \in 1..Len(s) : s[i] \in S
         /\ s # <<>> => Len(s) >= 1 /\ Head(s) = s[1] /\ s[1] \in S
  OBVIOUS
-----------------------------------------------------------------------------
(***************************************************************************)
(* The ports downstream of a flow (PollingTrace).                          *)
(***************************************************************************)

LEMMA MeterPorts ==
  /\ \A h \in Meter : h.in \in Ports /\ h.out \in Ports
  /\ Egress \subseteq Ports /\ IsFiniteSet(Egress) /\ Cardinality(Egress) \in Nat
<1>1. ASSUME NEW h \in Meter PROVE h.in \in Ports /\ h.out \in Ports
  <2>1. PICK f \in Flows : h \in ToSet(Path[f])
    BY DEF Meter
  <2>2. Path[f] \in Seq([in : Ports, out : Ports])
    BY FabricAssumption
  <2>3. PICK i \in DOMAIN Path[f] : h = Path[f][i]
    BY <2>1 DEF ToSet
  <2>4. Path[f][i] \in [in : Ports, out : Ports]
    <3> DEFINE hops == [in : Ports, out : Ports]
    <3>1. Path[f] \in Seq(hops)
      BY <2>2
    <3> HIDE DEF hops
    <3>2. Path[f][i] \in hops
      BY <3>1, Elements
    <3>3. QED
      BY <3>2 DEF hops
  <2>5. QED
    BY <2>3, <2>4
<1>2. Egress \subseteq Ports
  BY <1>1 DEF Egress
<1>3. IsFiniteSet(Egress) /\ Cardinality(Egress) \in Nat
  BY <1>2, FabricAssumption, FS_Subset, FS_CardinalityType
<1>4. QED
  BY <1>1, <1>2, <1>3

LEMMA BehindPorts ==
  ASSUME NEW ports, ports \subseteq Ports, NEW pauses
  PROVE  Behind(ports, pauses) \subseteq Ports /\ Further(ports, pauses) \subseteq Ports
<1>1. \A some \in SUBSET Ports : Behind(some, pauses) \subseteq Ports
  BY FabricAssumption DEF Behind
<1>2. {hop.out : hop \in {h \in Meter : h.in \in ports}} \subseteq Ports
  BY MeterPorts
<1>3. QED
  BY <1>1, <1>2 DEF Further

\* The recursive function of Downstream is what its definition says it is.
LEMMA DownstreamSteps ==
  ASSUME NEW f \in Flows, NEW pauses
  PROVE  /\ DownstreamOf(f, pauses) \in [0..Cardinality(Egress) -> SUBSET Ports]
         /\ DownstreamOf(f, pauses)[0] = Behind({hop.out : hop \in ToSet(Path[f])}, pauses)
         /\ \A d \in 0..(Cardinality(Egress) - 1) :
              DownstreamOf(f, pauses)[d + 1] = Further(DownstreamOf(f, pauses)[d], pauses)
<1> DEFINE start == Behind({hop.out : hop \in ToSet(Path[f])}, pauses)
           step == [ports \in SUBSET Ports |-> Further(ports, pauses)]
           reaches(r) == r = [d \in Nat |-> IF d = 0 THEN start
                                            ELSE Further(r[d - 1], pauses)]
<1>1. start \in SUBSET Ports
  <2>1. {hop.out : hop \in ToSet(Path[f])} \subseteq Ports
    <3>1. ToSet(Path[f]) \subseteq Meter
      BY DEF Meter
    <3>2. QED
      BY <3>1, MeterPorts
  <2>2. QED
    BY <2>1, BehindPorts
<1>2. step \in [SUBSET Ports -> SUBSET Ports]
  BY BehindPorts
<1> HIDE DEF start
<1>3. PICK g \in [Nat -> SUBSET Ports] :
        g[0] = start /\ \A n \in Nat : g[n + 1] = step[g[n]]
  <2> DEFINE all == SUBSET Ports
  <2>1. start \in all /\ step \in [all -> all]
    BY <1>1, <1>2
  <2> HIDE DEF step, all
  <2>2. \E g : Iterates(g, all, start, step)
    BY <2>1, IteratesExist
  <2>3. QED
    BY <2>2 DEF all, Iterates
<1>4. reaches(g)
  <2>1. ASSUME NEW d \in Nat
        PROVE  g[d] = IF d = 0 THEN start ELSE Further(g[d - 1], pauses)
    <3>1. CASE d # 0
      <4>1. d - 1 \in Nat /\ g[d - 1] \in SUBSET Ports
        BY <3>1
      <4>2. g[(d - 1) + 1] = step[g[d - 1]]
        BY <1>3, <4>1
      <4>3. (d - 1) + 1 = d
        OBVIOUS
      <4>4. QED
        BY <3>1, <4>1, <4>2, <4>3
    <3>2. QED
      BY <1>3, <3>1
  <2>2. QED
    BY <2>1
<1> DEFINE reach == CHOOSE r : reaches(r)
<1>5. reaches(reach)
  <2> HIDE DEF reaches
  <2>1. QED
    BY <1>4
<1>6. DownstreamOf(f, pauses) = [d \in 0..Cardinality(Egress) |-> reach[d]]
  BY DEF DownstreamOf, start
<1>7. \A d \in Nat : reach[d] = IF d = 0 THEN start ELSE Further(reach[d - 1], pauses)
  <2> HIDE DEF reach
  <2>1. QED
    BY <1>5
<1> HIDE DEF reach, reaches
<1>8. \A d \in Nat : reach[d] \in SUBSET Ports
  <2> DEFINE D == {d \in Nat : reach[d] \in SUBSET Ports}
  <2>1. 0 \in D
    BY <1>1, <1>7
  <2>2. ASSUME NEW d \in D PROVE d + 1 \in D
    <3>1. d + 1 \in Nat /\ d + 1 # 0 /\ (d + 1) - 1 = d
      OBVIOUS
    <3>2. reach[d + 1] = Further(reach[d], pauses)
      BY <1>7, <3>1
    <3>3. QED
      BY <3>1, <3>2, BehindPorts
  <2>3. D \in SUBSET Nat
    OBVIOUS
  <2>4. D = Nat
    <3> HIDE DEF D
    <3>1. QED
      BY <2>1, <2>2, <2>3, NaturalsByInduction
  <2>5. QED
    BY <2>4
<1>9. Cardinality(Egress) \in Nat
  BY MeterPorts
<1>10. ASSUME NEW d \in 0..(Cardinality(Egress) - 1)
       PROVE  DownstreamOf(f, pauses)[d + 1] = Further(DownstreamOf(f, pauses)[d], pauses)
  <2>1. d \in Nat /\ d + 1 \in Nat /\ d + 1 # 0 /\ (d + 1) - 1 = d
        /\ d \in 0..Cardinality(Egress) /\ d + 1 \in 0..Cardinality(Egress)
    BY <1>9
  <2>2. reach[d + 1] = Further(reach[d], pauses)
    BY <1>7, <2>1
  <2>3. QED
    BY <1>6, <2>1, <2>2
<1>11. QED
  BY <1>6, <1>7, <1>8, <1>9, <1>10 DEF start

\* Further ports are at the other end of an egress port, so the recursion has nothing to
\* add after as many steps as there are egress ports.
LEMMA DownstreamSaturated ==
  ASSUME NEW f \in Flows, NEW pauses
  PROVE  Further(DownstreamOf(f, pauses)[Cardinality(Egress)], pauses)
           = DownstreamOf(f, pauses)[Cardinality(Egress)]
<1> DEFINE C == Cardinality(Egress)
           r == DownstreamOf(f, pauses)
           ends == Behind(Egress, pauses)
<1>1. C \in Nat /\ IsFiniteSet(Egress)
  BY MeterPorts
<1>2. IsFiniteSet(ends) /\ Cardinality(ends) \in Nat /\ Cardinality(ends) <= C
  <2> DEFINE image == {Peer[p] : p \in Egress}
             end == [p \in Egress |-> Peer[p]]
  <2>1. end \in Surjection(Egress, image)
    BY DEF Surjection
  <2> HIDE DEF end, image
  <2>2. IsFiniteSet(image) /\ Cardinality(image) <= C
    BY <1>1, <2>1, FS_Surjection
  <2>3. ends \in SUBSET image
    BY DEF Behind, image
  <2> HIDE DEF ends, C
  <2>4. IsFiniteSet(ends) /\ Cardinality(ends) <= Cardinality(image)
    BY <2>2, <2>3, FS_Subset
  <2>5. QED
    BY <1>1, <2>2, <2>4, FS_CardinalityType
<1>3. /\ r \in [0..C -> SUBSET Ports]
      /\ r[0] = Behind({hop.out : hop \in ToSet(Path[f])}, pauses)
      /\ \A d \in 0..(C - 1) : r[d + 1] = Further(r[d], pauses)
  BY DownstreamSteps
<1>4. \A ports : Behind({hop.out : hop \in {h \in Meter : h.in \in ports}}, pauses)
                   \subseteq ends
  BY DEF Behind, Egress
<1>5. r[0] \subseteq ends
  <2>1. ToSet(Path[f]) \subseteq Meter
    BY DEF Meter
  <2>2. {hop.out : hop \in ToSet(Path[f])} \subseteq Egress
    BY <2>1 DEF Egress
  <2>3. QED
    BY <1>3, <2>2 DEF Behind
<1> HIDE DEF r, ends, C
<1>6. \A ports : ports \subseteq Further(ports, pauses)
  BY DEF Further
<1>7. \A ports : ports \subseteq ends => Further(ports, pauses) \subseteq ends
  BY <1>4 DEF Further
<1> DEFINE Grown(d) == /\ r[d] \subseteq ends
                       /\ Further(r[d], pauses) = r[d] \/ Cardinality(r[d]) >= d
           D == {d \in Nat : d <= C => Grown(d)}
<1>8. 0 \in D
  <2>1. IsFiniteSet(r[0])
    BY <1>2, <1>5, FS_Subset
  <2>2. Cardinality(r[0]) >= 0
    BY <2>1, FS_CardinalityType
  <2>3. QED
    BY <1>5, <2>2
<1>9. ASSUME NEW d \in D PROVE d + 1 \in D
  <2> SUFFICES ASSUME d + 1 <= C PROVE Grown(d + 1)
    OBVIOUS
  <2>1. d \in 0..(C - 1) /\ d \in Nat
    BY <1>1
  <2>2. Grown(d)
    BY <1>1, <2>1
  <2>3. r[d + 1] = Further(r[d], pauses)
    BY <1>3, <2>1
  <2>4. r[d + 1] \subseteq ends
    BY <1>7, <2>2, <2>3
  <2>5. CASE Further(r[d], pauses) = r[d]
    BY <2>3, <2>4, <2>5
  <2>6. CASE Further(r[d], pauses) # r[d]
    <3>1. Cardinality(r[d]) >= d /\ r[d] \subseteq r[d + 1] /\ r[d] # r[d + 1]
      BY <1>6, <2>2, <2>3, <2>6
    <3>2. IsFiniteSet(r[d]) /\ IsFiniteSet(r[d + 1])
      BY <1>2, <2>2, <2>4, FS_Subset
    <3>3. /\ Cardinality(r[d]) <= Cardinality(r[d + 1])
          /\ Cardinality(r[d]) # Cardinality(r[d + 1])
      BY <3>1, <3>2, FS_Subset
    <3>4. Cardinality(r[d]) \in Nat /\ Cardinality(r[d + 1]) \in Nat
      BY <3>2, FS_CardinalityType
    <3>5. Cardinality(r[d + 1]) >= d + 1
      BY <2>1, <3>1, <3>3, <3>4
    <3>6. QED
      BY <2>4, <3>5
  <2>7. QED
    BY <2>5, <2>6
<1>10. D = Nat
  <2>1. D \in SUBSET Nat
    OBVIOUS
  <2> HIDE DEF D
  <2>2. QED
    BY <1>8, <1>9, <2>1, NaturalsByInduction
<1>11. Grown(C)
  <2>1. C \in D /\ C <= C
    BY <1>1, <1>10
  <2>2. QED
    BY <2>1
<1>12. CASE Cardinality(r[C]) >= C
  <2>1. IsFiniteSet(r[C]) /\ Cardinality(r[C]) <= Cardinality(ends)
    BY <1>2, <1>11, FS_Subset
  <2>2. Cardinality(r[C]) \in Nat
    BY <2>1, FS_CardinalityType
  <2>3. Cardinality(r[C]) = Cardinality(ends)
    BY <1>1, <1>2, <1>12, <2>1, <2>2
  <2>4. r[C] = ends
    BY <1>2, <1>11, <2>3, FS_Subset
  <2>5. QED
    BY <1>6, <1>7, <2>4 DEF r, C
<1>13. QED
  BY <1>11, <1>12 DEF r, C

\* The ports downstream in the end: behind a paused port of the path, and behind a
\* paused port to which a port downstream carries traffic.
LEMMA DownstreamClosed ==
  ASSUME NEW f \in Flows
  PROVE  LET down == Downstream(f)[Cardinality(Egress)]
         IN  /\ \A hop \in ToSet(Path[f]) :
                  hop.out \in paused /\ Peer[hop.out] # Host => Peer[hop.out] \in down
             /\ \A in \in down, out \in paused :
                  out \in OutPorts(in) /\ Peer[out] # Host => Peer[out] \in down
<1> DEFINE C == Cardinality(Egress)
           r == Downstream(f)
<1>1. /\ C \in Nat
      /\ r \in [0..C -> SUBSET Ports]
      /\ r[0] = Behind({hop.out : hop \in ToSet(Path[f])}, paused)
      /\ \A d \in 0..(C - 1) : r[d + 1] = Further(r[d], paused)
  BY MeterPorts, DownstreamSteps DEF Downstream
<1>2. Further(r[C], paused) = r[C]
  BY DownstreamSaturated DEF Downstream
<1> HIDE DEF r, C
<1>3. r[0] \subseteq r[C]
  <2> DEFINE D == {d \in Nat : d <= C => r[0] \subseteq r[d]}
  <2>1. 0 \in D
    OBVIOUS
  <2>2. ASSUME NEW d \in D PROVE d + 1 \in D
    <3> SUFFICES ASSUME d + 1 <= C PROVE r[0] \subseteq r[d + 1]
      OBVIOUS
    <3>1. d \in 0..(C - 1) /\ r[0] \subseteq r[d]
      BY <1>1
    <3>2. r[d + 1] = Further(r[d], paused)
      BY <1>1, <3>1
    <3>3. QED
      BY <3>1, <3>2 DEF Further
  <2>3. D \in SUBSET Nat
    OBVIOUS
  <2>4. D = Nat
    <3> HIDE DEF D
    <3>1. QED
      BY <2>1, <2>2, <2>3, NaturalsByInduction
  <2>5. C \in D /\ C <= C
    BY <1>1, <2>4
  <2>6. QED
    BY <2>5
<1>4. ASSUME NEW hop \in ToSet(Path[f]), hop.out \in paused, Peer[hop.out] # Host
      PROVE  Peer[hop.out] \in r[C]
  BY <1>1, <1>3, <1>4 DEF Behind
<1>5. ASSUME NEW in \in r[C], NEW out \in paused, out \in OutPorts(in), Peer[out] # Host
      PROVE  Peer[out] \in r[C]
  <2>1. PICK h \in Meter : h.in = in /\ out = h.out
    BY <1>5 DEF OutPorts
  <2>2. out \in {hop.out : hop \in {g \in Meter : g.in \in r[C]}}
    BY <2>1
  <2>3. Peer[out] \in Further(r[C], paused)
    BY <1>5, <2>2 DEF Further, Behind
  <2>4. QED
    BY <1>2, <2>3
<1>6. QED
  BY <1>4, <1>5 DEF r, C

-----------------------------------------------------------------------------
(***************************************************************************)
(* Polling packets and signals (PollingTrace).                             *)
(***************************************************************************)
Messages ==
  {Signal(e) : e \in Times} \cup {Polling(e, f, h) : e \in Times, f \in Flows, h \in Nat}

TraceTyped ==
  /\ now \in Times
  /\ m_lastEventID \in [Ports -> Times \cup {0}]
  /\ paused \subseteq Egress
  /\ wire \in [Senders -> Seq(Messages)]
  /\ issued \subseteq Flows \X Times
  /\ seen \in [Ports -> Times \cup {0}]

Traced(in, e) ==
  \E f \in Flows : <<f, e>> \in issued /\ in \in Downstream(f)[Cardinality(Egress)]

\* A signal on its way is about to reach a port downstream of a flow that was polled.
SignalsFounded ==
  \A s \in Senders, e \in Times : Signal(e) \in ToSet(wire[s]) =>
    s \in Ports /\ Peer[s] # Host /\ Traced(Peer[s], e)

\* A polling packet on its way is one that was sent, at a hop of its path.
PollingsOnPath ==
  \A s \in Senders, e \in Times, f \in Flows, h \in Nat :
    Polling(e, f, h) \in ToSet(wire[s]) =>
      <<f, e>> \in issued /\ h \in 1..Len(Path[f])

\* What was signalled last out of a port is on the link, or was seen behind it.
LastFollowed ==
  \A p \in Ports : m_lastEventID[p] # 0 /\ Peer[p] # Host =>
    Signal(m_lastEventID[p]) \in ToSet(wire[p]) \/ seen[Peer[p]] >= m_lastEventID[p]

\* An event no more than one Gap older than t was signalled out of the port.
Recent(p, t) == m_lastEventID[p] # 0 /\ m_lastEventID[p] + Gap >= t

\* What was seen was sent on out of the paused ports, or held back there for a recent event.
SentOn ==
  \A in \in Ports : seen[in] # 0 =>
    \A out \in OutPorts(in) \cap paused : Recent(out, seen[in])

\* A polling packet has the paused ports of its path still before it, or they were
\* signalled out of.
PathCovered ==
  \A f \in Flows, e \in Times : <<f, e>> \in issued =>
    \A i \in 1..Len(Path[f]) : Path[f][i].out \in paused =>
      \/ \E s \in Senders, h \in 1..i : Polling(e, f, h) \in ToSet(wire[s])
      \/ Recent(Path[f][i].out, e)

TraceBook ==
  /\ TraceTyped
  /\ SignalsFounded /\ PollingsOnPath /\ OnlyDownstreamSeen
  /\ LastFollowed /\ SentOn /\ PathCovered

\* Messages of different content differ.
LEMMA MessagesDiffer ==
  /\ \A d, e \in Times : Signal(d) = Signal(e) => d = e
  /\ \A d, e \in Times, f \in Flows, h \in Nat : Signal(d) # Polling(e, f, h)
  /\ \A d, e \in Times, f, g \in Flows, h, i \in Nat :
       Polling(d, f, h) = Polling(e, g, i) => d = e /\ f = g /\ h = i
<1>1. \A d, e \in Times : Signal(d) = Signal(e) => d = e
  BY DEF Signal
<1>2. \A d, e \in Times, f \in Flows, h \in Nat : Signal(d) # Polling(e, f, h)
  <2> TAKE d, e \in Times, f \in Flows, h \in Nat
  <2>1. Signal(d).kind = "signal" /\ Polling(e, f, h).kind = "polling"
    BY DEF Signal, Polling
  <2>2. QED
    BY <2>1
<1>3. ASSUME NEW d \in Times, NEW e \in Times, NEW f \in Flows, NEW g \in Flows,
             NEW h \in Nat, NEW i \in Nat, Polling(d, f, h) = Polling(e, g, i)
      PROVE  d = e /\ f = g /\ h = i
  <2>1. /\ Polling(d, f, h).eventID = d /\ Polling(e, g, i).eventID = e
        /\ Polling(d, f, h).flow = f /\ Polling(e, g, i).flow = g
        /\ Polling(d, f, h).hop = h /\ Polling(e, g, i).hop = i
    BY DEF Polling
  <2>2. QED
    BY <1>3, <2>1
<1>4. QED
  BY <1>1, <1>2, <1>3

\* What is in a queue when its head is taken and messages enter it.
LEMMA QueueContents ==
  ASSUME NEW S, NEW q \in Seq(S), NEW more \in Seq(S)
  PROVE  /\ q \o more \in Seq(S)
         /\ ToSet(q \o more) = ToSet(q) \cup ToSet(more)
         /\ q # <<>> => /\ Tail(q) \in Seq(S) /\ Head(q) \in ToSet(q) /\ Head(q) \in S
                        /\ ToSet(Tail(q)) \subseteq ToSet(q)
                        /\ ToSet(q) \subseteq ToSet(Tail(q)) \cup {Head(q)}
<1> DEFINE both == q \o more
           rest == Tail(q)
<1>1. /\ both \in Seq(S) /\ Len(both) = Len(q) + Len(more)
      /\ \A i \in 1..Len(both) :
           both[i] = IF i <= Len(q) THEN q[i] ELSE more[i - Len(q)]
      /\ Len(q) \in Nat /\ Len(more) \in Nat
  OBVIOUS
<1>2. /\ DOMAIN q = 1..Len(q) /\ DOMAIN more = 1..Len(more)
      /\ DOMAIN both = 1..(Len(q) + Len(more))
  BY <1>1, Elements
<1>3. q # <<>> => /\ rest \in Seq(S) /\ Len(rest) = Len(q) - 1 /\ Len(q) >= 1
                  /\ Head(q) = q[1]
                  /\ \A i \in 1..Len(rest) : rest[i] = q[i + 1]
  OBVIOUS
<1> HIDE DEF both, rest
<1>4. ToSet(both) = ToSet(q) \cup ToSet(more)
  <2>1. ASSUME NEW x \in ToSet(both) PROVE x \in ToSet(q) \cup ToSet(more)
    <3>1. PICK i \in 1..(Len(q) + Len(more)) : x = both[i]
      BY <1>2, <2>1 DEF ToSet
    <3>2. CASE i <= Len(q)
      <4>1. i \in DOMAIN q /\ x = q[i]
        BY <1>1, <1>2, <3>1, <3>2
      <4>2. QED
        BY <4>1 DEF ToSet
    <3>3. CASE i > Len(q)
      <4>1. i - Len(q) \in DOMAIN more /\ x = more[i - Len(q)]
        BY <1>1, <1>2, <3>1, <3>3
      <4>2. QED
        BY <4>1 DEF ToSet
    <3>4. QED
      BY <1>1, <3>2, <3>3
  <2>2. ASSUME NEW i \in DOMAIN q PROVE q[i] \in ToSet(both)
    <3>1. i \in DOMAIN both /\ both[i] = q[i]
      BY <1>1, <1>2
    <3>2. QED
      BY <3>1 DEF ToSet
  <2>3. ASSUME NEW i \in DOMAIN more PROVE more[i] \in ToSet(both)
    <3>1. i + Len(q) \in DOMAIN both /\ both[i + Len(q)] = more[i]
      BY <1>1, <1>2
    <3>2. QED
      BY <3>1 DEF ToSet
  <2>4. QED
    BY <2>1, <2>2, <2>3 DEF ToSet
<1>5. ASSUME q # <<>>
      PROVE  /\ Head(q) \in ToSet(q) /\ Head(q) \in S
             /\ ToSet(rest) \subseteq ToSet(q)
             /\ ToSet(q) \subseteq ToSet(rest) \cup {Head(q)}
  <2>1. DOMAIN rest = 1..Len(rest)
    BY <1>3, <1>5, Elements
  <2>2. 1 \in DOMAIN q /\ q[1] \in S
    BY <1>1, <1>2, <1>3, <1>5, Elements
  <2>3. ASSUME NEW i \in DOMAIN rest PROVE rest[i] \in ToSet(q)
    <3>1. i + 1 \in DOMAIN q /\ rest[i] = q[i + 1]
      BY <1>1, <1>2, <1>3, <1>5, <2>1
    <3>2. QED
      BY <3>1 DEF ToSet
  <2>4. ASSUME NEW i \in DOMAIN q PROVE q[i] = Head(q) \/ q[i] \in ToSet(rest)
    <3>1. CASE i = 1
      BY <1>3, <1>5, <3>1
    <3>2. CASE i # 1
      <4>1. i - 1 \in DOMAIN rest /\ rest[i - 1] = q[i]
        BY <1>1, <1>2, <1>3, <1>5, <2>1, <3>2
      <4>2. QED
        BY <4>1 DEF ToSet
    <3>3. QED
      BY <3>1, <3>2
  <2>5. Head(q) \in ToSet(q) /\ Head(q) \in S
    BY <1>3, <1>5, <2>2 DEF ToSet
  <2>6. QED
    BY <2>3, <2>4, <2>5 DEF ToSet
<1>6. QED
  BY <1>1, <1>3, <1>4, <1>5 DEF both, rest

LeadsToHost(s) == s \in Ports /\ Peer[s] = Host

\* What is on the wires after a message was taken from one and others were sent.
LEMMA WiresAfter ==
  ASSUME wire \in [Senders -> Seq(Messages)], NEW sender \in Senders, wire[sender] # <<>>,
         NEW sent \in [Senders -> Seq(Messages)],
         wire' = [s \in Senders |-> SendTo(s, Taken(s, sender), sent[s])]
  PROVE  /\ wire' \in [Senders -> Seq(Messages)]
         /\ \A s \in Senders : \A m \in ToSet(wire'[s]) :
              m \in ToSet(wire[s]) \/ (m \in ToSet(sent[s]) /\ ~LeadsToHost(s))
         /\ \A s \in Senders : \A m \in ToSet(wire[s]) :
              m \in ToSet(wire'[s]) \/ (s = sender /\ m = Head(wire[sender]))
         /\ \A s \in Senders : \A m \in ToSet(sent[s]) :
              LeadsToHost(s) \/ m \in ToSet(wire'[s])
<1>1. ASSUME NEW s \in Senders
      PROVE  /\ wire'[s] \in Seq(Messages)
             /\ \A m \in ToSet(wire'[s]) :
                  m \in ToSet(wire[s]) \/ (m \in ToSet(sent[s]) /\ ~LeadsToHost(s))
             /\ \A m \in ToSet(wire[s]) :
                  m \in ToSet(wire'[s]) \/ (s = sender /\ m = Head(wire[sender]))
             /\ \A m \in ToSet(sent[s]) : LeadsToHost(s) \/ m \in ToSet(wire'[s])
  <2>1. wire[s] \in Seq(Messages) /\ sent[s] \in Seq(Messages)
    OBVIOUS
  <2> DEFINE q == Taken(s, sender)
  <2>2. /\ q \in Seq(Messages)
        /\ ToSet(q) \subseteq ToSet(wire[s])
        /\ \A m \in ToSet(wire[s]) : m \in ToSet(q) \/ (s = sender /\ m = Head(wire[sender]))
    <3>1. CASE s = sender
      <4>1. /\ Tail(wire[s]) \in Seq(Messages)
            /\ ToSet(Tail(wire[s])) \subseteq ToSet(wire[s])
            /\ ToSet(wire[s]) \subseteq ToSet(Tail(wire[s])) \cup {Head(wire[s])}
        BY <2>1, <3>1, QueueContents
      <4>2. q = Tail(wire[s])
        BY <3>1 DEF Taken
      <4>3. QED
        BY <3>1, <4>1, <4>2
    <3>2. CASE s # sender
      BY <2>1, <3>2 DEF Taken
    <3>3. QED
      BY <3>1, <3>2
  <2>3. wire'[s] = IF LeadsToHost(s) THEN q ELSE q \o sent[s]
    BY DEF SendTo, LeadsToHost
  <2> HIDE DEF q
  <2>4. q \o sent[s] \in Seq(Messages) /\ ToSet(q \o sent[s]) = ToSet(q) \cup ToSet(sent[s])
    BY <2>1, <2>2, QueueContents
  <2>5. QED
    BY <2>2, <2>3, <2>4
<1>2. wire' \in [Senders -> Seq(Messages)]
  BY <1>1
<1>3. QED
  BY <1>1, <1>2

LEMMA SmallRemainder ==
  ASSUME NEW n \in Nat, NEW d \in Nat, n < d
  PROVE  n % d = n
<1>1. PICK q, r : q = n \div d /\ r = n % d
  OBVIOUS
<1>2. q \in Int /\ r \in 0..(d - 1) /\ n = d * q + r
  <2>1. q \in Int
    BY <1>1
  <2>2. r \in 0..(d - 1)
    BY <1>1
  <2>3. n = d * q + r
    BY <1>1, <2>1, <2>2
  <2>4. QED
    BY <2>1, <2>2, <2>3
<1>3. CASE q = 0
  BY <1>1, <1>2, <1>3
<1>4. CASE q >= 1
  <2>1. d * q >= d
    BY <1>2, <1>4
  <2>2. QED
    BY <1>2, <2>1
<1>5. CASE q <= -1
  <2>1. d * q <= -d
    BY <1>2, <1>5
  <2>2. QED
    BY <1>2, <2>1
<1>6. QED
  BY <1>2, <1>3, <1>4, <1>5

\* What an event changes at the ports: it is noted at those it is signalled out of, which
\* moves what was noted there forward; the paused ports it is not signalled out of have
\* noted a recent one.
LEMMA EventNoted ==
  ASSUME m_lastEventID \in [Ports -> Times \cup {0}], paused \subseteq Egress,
         NEW e \in Times, NEW ports, NEW signals, signals = SignalPorts(ports, e),
         m_lastEventID' = MarkSignalled(signals, e)
  PROVE  /\ signals \subseteq ports /\ signals \subseteq Ports /\ signals \subseteq paused
         /\ m_lastEventID' \in [Ports -> Times \cup {0}]
         /\ \A p \in signals : m_lastEventID'[p] = e
         /\ \A p \in Ports \ signals : m_lastEventID'[p] = m_lastEventID[p]
         /\ \A p \in signals : m_lastEventID[p] = 0 \/ e > m_lastEventID[p] + Gap
         /\ \A p \in Ports : \A t : t \in Nat /\ Recent(p, t) => Recent(p, t)'
         /\ \A p \in ports \cap paused : Recent(p, e)'
<1>1. Egress \subseteq Ports
  BY MeterPorts
<1>2. signals \subseteq ports /\ signals \subseteq Ports /\ signals \subseteq paused
  BY <1>1 DEF SignalPorts
<1>3. /\ m_lastEventID' \in [Ports -> Times \cup {0}]
      /\ \A p \in signals : m_lastEventID'[p] = e
      /\ \A p \in Ports \ signals : m_lastEventID'[p] = m_lastEventID[p]
  BY <1>2 DEF MarkSignalled
<1>4. /\ \A p \in Ports : m_lastEventID[p] \in Times \cup {0} /\ m_lastEventID[p] \in Nat
      /\ e \in Nat /\ e > 0 /\ Gap \in Nat /\ Wrap \in Nat
  BY FabricAssumption
<1>5. ASSUME NEW p \in Ports, m_lastEventID[p] # 0
      PROVE  (m_lastEventID[p] + Gap) % Wrap = m_lastEventID[p] + Gap
  <2>1. m_lastEventID[p] + Gap < Wrap
    BY <1>4, <1>5, FabricAssumption
  <2>2. QED
    BY <1>4, <2>1, SmallRemainder
<1>6. ASSUME NEW p \in signals, m_lastEventID[p] # 0
      PROVE  e > m_lastEventID[p] + Gap
  <2>1. IsNewEvent(p, e)
    BY DEF SignalPorts
  <2>2. QED
    BY <1>2, <1>4, <1>5, <1>6, <2>1 DEF IsNewEvent
<1>7. ASSUME NEW p \in Ports, NEW t, t \in Nat, Recent(p, t)
      PROVE  Recent(p, t)'
  <2>1. CASE p \in signals
    BY <1>3, <1>4, <1>6, <1>7, <2>1 DEF Recent
  <2>2. CASE p \notin signals
    BY <1>3, <1>7, <2>2 DEF Recent
  <2>3. QED
    BY <2>1, <2>2
<1>8. ASSUME NEW p \in ports \cap paused
      PROVE  Recent(p, e)'
  <2>1. CASE p \in signals
    BY <1>3, <1>4, <2>1 DEF Recent
  <2>2. CASE p \notin signals
    <3>1. p \in Ports /\ ~IsNewEvent(p, e)
      BY <1>1, <2>2 DEF SignalPorts
    <3>2. m_lastEventID[p] # 0 /\ e <= m_lastEventID[p] + Gap
      BY <1>4, <1>5, <3>1 DEF IsNewEvent
    <3>3. QED
      BY <1>3, <1>4, <2>2, <3>1, <3>2 DEF Recent
  <2>3. QED
    BY <2>1, <2>2
<1>9. QED
  BY <1>2, <1>3, <1>6, <1>7, <1>8

LEMMA TheMessage ==
  ASSUME TraceTyped, NEW sender \in Senders, wire[sender] # <<>>
  PROVE  /\ wire[sender] \in Seq(Messages) /\ Head(wire[sender]) \in ToSet(wire[sender])
         /\ Head(wire[sender]).kind = "signal" =>
              \E e \in Times : Head(wire[sender]) = Signal(e)
         /\ Head(wire[sender]).kind = "polling" =>
              \E e \in Times, f \in Flows, h \in Nat : Head(wire[sender]) = Polling(e, f, h)
<1> DEFINE m == Head(wire[sender])
<1>1. wire[sender] \in Seq(Messages)
  BY DEF TraceTyped
<1>2. m \in ToSet(wire[sender]) /\ m \in Messages
  BY <1>1, QueueContents
<1> HIDE DEF m
<1>3. \A e \in Times : Signal(e).kind = "signal"
  BY DEF Signal
<1>4. \A e \in Times, f \in Flows, h \in Nat : Polling(e, f, h).kind = "polling"
  BY DEF Polling
<1>5. \/ \E e \in Times : m = Signal(e)
      \/ \E e \in Times, f \in Flows, h \in Nat : m = Polling(e, f, h)
  BY <1>2 DEF Messages
<1>6. /\ m.kind = "signal" => \E e \in Times : m = Signal(e)
      /\ m.kind = "polling" => \E e \in Times, f \in Flows, h \in Nat : m = Polling(e, f, h)
  BY <1>3, <1>4, <1>5
<1>7. QED
  BY <1>1, <1>2, <1>6 DEF m

LEMMA PollingFields ==
  ASSUME NEW e, NEW f, NEW h
  PROVE  /\ Polling(e, f, h).eventID = e /\ Polling(e, f, h).flow = f
         /\ Polling(e, f, h).hop = h
         /\ [Polling(e, f, h) EXCEPT !.hop = @ + 1] = Polling(e, f, h + 1)
  BY DEF Polling

\* A signal that is received: what it leaves on the wires.
LEMMA SignalReceived ==
  ASSUME TraceTyped, NEW sender \in Senders, ReceiveSignal(sender)
  PROVE  \E e \in Times :
           /\ Signal(e) \in ToSet(wire[sender])
           /\ m_lastEventID' = MarkSignalled(SignalPorts(OutPorts(Peer[sender]), e), e)
           /\ seen' = [seen EXCEPT ![Peer[sender]] = Max({seen[Peer[sender]], e})]
           /\ wire' \in [Senders -> Seq(Messages)]
           /\ \A s \in Senders : \A m \in ToSet(wire'[s]) :
                \/ m \in ToSet(wire[s])
                \/ /\ s \in SignalPorts(OutPorts(Peer[sender]), e)
                   /\ m = Signal(e) /\ ~LeadsToHost(s)
           /\ \A s \in Senders : \A m \in ToSet(wire[s]) :
                m \in ToSet(wire'[s]) \/ (s = sender /\ m = Signal(e))
           /\ \A s \in SignalPorts(OutPorts(Peer[sender]), e) :
                LeadsToHost(s) \/ Signal(e) \in ToSet(wire'[s])
<1>1. /\ wire \in [Senders -> Seq(Messages)] /\ paused \subseteq Egress
      /\ wire[sender] # <<>>
  BY DEF TraceTyped, ReceiveSignal
<1>2. PICK e \in Times : Head(wire[sender]) = Signal(e)
  BY <1>1, TheMessage DEF ReceiveSignal
<1>3. Signal(e) \in ToSet(wire[sender])
  BY <1>1, <1>2, TheMessage
<1> DEFINE signals == SignalPorts(OutPorts(Peer[sender]), e)
           sent == [s \in Senders |-> IF s \in signals THEN <<Signal(e)>> ELSE <<>>]
<1>4. Head(wire[sender]).eventID = e
  BY <1>2 DEF Signal
<1>5. /\ m_lastEventID' = MarkSignalled(signals, e)
      /\ seen' = [seen EXCEPT ![Peer[sender]] = Max({seen[Peer[sender]], e})]
      /\ wire' = [s \in Senders |-> SendTo(s, Taken(s, sender),
                    IF s \in signals THEN <<Signal(e)>> ELSE <<>>)]
  BY <1>4 DEF ReceiveSignal
<1>6. signals \subseteq Senders
  <2>1. Egress \subseteq Senders
    BY MeterPorts DEF Senders
  <2>2. QED
    BY <1>1, <2>1 DEF SignalPorts
<1> HIDE DEF signals
<1>7. \A s \in Senders : sent[s] = IF s \in signals THEN <<Signal(e)>> ELSE <<>>
  OBVIOUS
<1>8. wire' = [s \in Senders |-> SendTo(s, Taken(s, sender), sent[s])]
  BY <1>5, <1>7
<1>9. Signal(e) \in Messages
  BY DEF Messages
<1>10. sent \in [Senders -> Seq(Messages)]
  <2>1. <<Signal(e)>> \in Seq(Messages) /\ <<>> \in Seq(Messages)
    BY <1>9
  <2>2. QED
    BY <2>1
<1>11. \A s \in Senders : ToSet(sent[s]) = IF s \in signals THEN {Signal(e)} ELSE {}
  <2>1. ToSet(<<Signal(e)>>) = {Signal(e)} /\ ToSet(<<>>) = {}
    BY DEF ToSet
  <2> HIDE DEF sent
  <2>2. QED
    BY <1>7, <2>1
<1> HIDE DEF sent
<1>12. /\ wire' \in [Senders -> Seq(Messages)]
       /\ \A s \in Senders : \A m \in ToSet(wire'[s]) :
            m \in ToSet(wire[s]) \/ (m \in ToSet(sent[s]) /\ ~LeadsToHost(s))
       /\ \A s \in Senders : \A m \in ToSet(wire[s]) :
            m \in ToSet(wire'[s]) \/ (s = sender /\ m = Head(wire[sender]))
       /\ \A s \in Senders : \A m \in ToSet(sent[s]) :
            LeadsToHost(s) \/ m \in ToSet(wire'[s])
  BY <1>1, <1>8, <1>10, WiresAfter
<1>13. \A s \in Senders : \A m \in ToSet(wire'[s]) :
         m \in ToSet(wire[s]) \/ (s \in signals /\ m = Signal(e) /\ ~LeadsToHost(s))
  BY <1>11, <1>12
<1>14. \A s \in Senders : \A m \in ToSet(wire[s]) :
         m \in ToSet(wire'[s]) \/ (s = sender /\ m = Signal(e))
  BY <1>2, <1>12
<1>15. \A s \in signals : LeadsToHost(s) \/ Signal(e) \in ToSet(wire'[s])
  BY <1>6, <1>11, <1>12
<1>16. QED
  BY <1>3, <1>5, <1>12, <1>13, <1>14, <1>15 DEF signals

\* A polling packet that is received.
LEMMA PollingReceived ==
  ASSUME TraceTyped, NEW sender \in Senders, ReceivePolling(sender)
  PROVE  \E e \in Times, f \in Flows, h \in Nat :
           /\ Polling(e, f, h) \in ToSet(wire[sender])
           /\ m_lastEventID' = MarkSignalled(SignalPorts({Path[f][h].out}, e), e)
           /\ wire' \in [Senders -> Seq(Messages)]
           /\ \A s \in Senders : \A m \in ToSet(wire'[s]) :
                \/ m \in ToSet(wire[s])
                \/ /\ s \in SignalPorts({Path[f][h].out}, e)
                   /\ m = Signal(e) /\ ~LeadsToHost(s)
                \/ s = Path[f][h].out /\ m = Polling(e, f, h + 1) /\ ~LeadsToHost(s)
           /\ \A s \in Senders : \A m \in ToSet(wire[s]) :
                m \in ToSet(wire'[s]) \/ (s = sender /\ m = Polling(e, f, h))
           /\ \A s \in SignalPorts({Path[f][h].out}, e) :
                LeadsToHost(s) \/ Signal(e) \in ToSet(wire'[s])
           /\ Path[f][h].out \in Senders =>
                \/ LeadsToHost(Path[f][h].out)
                \/ Polling(e, f, h + 1) \in ToSet(wire'[Path[f][h].out])
<1>1. /\ wire \in [Senders -> Seq(Messages)] /\ paused \subseteq Egress
      /\ wire[sender] # <<>>
  BY DEF TraceTyped, ReceivePolling
<1>2. PICK e \in Times, f \in Flows, h \in Nat : Head(wire[sender]) = Polling(e, f, h)
  BY <1>1, TheMessage DEF ReceivePolling
<1>3. Polling(e, f, h) \in ToSet(wire[sender])
  BY <1>1, <1>2, TheMessage
<1> DEFINE idx == Path[f][h].out
           signals == SignalPorts({idx}, e)
           Sent(s) == (IF s \in signals THEN <<Signal(e)>> ELSE <<>>)
                      \o (IF s = idx THEN <<Polling(e, f, h + 1)>> ELSE <<>>)
           sent == [s \in Senders |-> Sent(s)]
<1>4. /\ Head(wire[sender]).eventID = e /\ Head(wire[sender]).flow = f
      /\ Head(wire[sender]).hop = h
      /\ [Head(wire[sender]) EXCEPT !.hop = @ + 1] = Polling(e, f, h + 1)
  BY <1>2, PollingFields
<1>5. /\ m_lastEventID' = MarkSignalled(signals, e)
      /\ wire' = [s \in Senders |-> SendTo(s, Taken(s, sender), Sent(s))]
  BY <1>4 DEF ReceivePolling
<1>6. signals \subseteq Senders
  <2>1. Egress \subseteq Senders
    BY MeterPorts DEF Senders
  <2>2. QED
    BY <1>1, <2>1 DEF SignalPorts
<1> HIDE DEF signals, idx
<1>7. wire' = [s \in Senders |-> SendTo(s, Taken(s, sender), sent[s])]
  BY <1>5
<1>8. Signal(e) \in Messages /\ Polling(e, f, h + 1) \in Messages
  BY DEF Messages
<1>9. ASSUME NEW s \in Senders
      PROVE  /\ Sent(s) \in Seq(Messages)
             /\ ToSet(Sent(s)) = (IF s \in signals THEN {Signal(e)} ELSE {})
                                  \cup (IF s = idx THEN {Polling(e, f, h + 1)} ELSE {})
  <2> DEFINE a == IF s \in signals THEN <<Signal(e)>> ELSE <<>>
             b == IF s = idx THEN <<Polling(e, f, h + 1)>> ELSE <<>>
  <2>1. a \in Seq(Messages) /\ ToSet(a) = IF s \in signals THEN {Signal(e)} ELSE {}
    <3>1. CASE s \in signals
      BY <1>8, <3>1 DEF ToSet
    <3>2. CASE s \notin signals
      BY <3>2 DEF ToSet
    <3>3. QED
      BY <3>1, <3>2
  <2>2. b \in Seq(Messages) /\ ToSet(b) = IF s = idx THEN {Polling(e, f, h + 1)} ELSE {}
    <3>1. CASE s = idx
      BY <1>8, <3>1 DEF ToSet
    <3>2. CASE s # idx
      BY <3>2 DEF ToSet
    <3>3. QED
      BY <3>1, <3>2
  <2> HIDE DEF a, b
  <2>3. a \o b \in Seq(Messages) /\ ToSet(a \o b) = ToSet(a) \cup ToSet(b)
    BY <2>1, <2>2, QueueContents
  <2>4. QED
    BY <2>1, <2>2, <2>3 DEF a, b
<1> HIDE DEF Sent
<1>10. sent \in [Senders -> Seq(Messages)]
  BY <1>9
<1>11. \A s \in Senders :
         ToSet(sent[s]) = (IF s \in signals THEN {Signal(e)} ELSE {})
                            \cup (IF s = idx THEN {Polling(e, f, h + 1)} ELSE {})
  BY <1>9
<1> HIDE DEF sent
<1>12. /\ wire' \in [Senders -> Seq(Messages)]
       /\ \A s \in Senders : \A m \in ToSet(wire'[s]) :
            m \in ToSet(wire[s]) \/ (m \in ToSet(sent[s]) /\ ~LeadsToHost(s))
       /\ \A s \in Senders : \A m \in ToSet(wire[s]) :
            m \in ToSet(wire'[s]) \/ (s = sender /\ m = Head(wire[sender]))
       /\ \A s \in Senders : \A m \in ToSet(sent[s]) :
            LeadsToHost(s) \/ m \in ToSet(wire'[s])
  BY <1>1, <1>7, <1>10, WiresAfter
<1>13. \A s \in Senders : \A m \in ToSet(wire'[s]) :
         \/ m \in ToSet(wire[s])
         \/ s \in signals /\ m = Signal(e) /\ ~LeadsToHost(s)
         \/ s = idx /\ m = Polling(e, f, h + 1) /\ ~LeadsToHost(s)
  BY <1>11, <1>12
<1>14. \A s \in Senders : \A m \in ToSet(wire[s]) :
         m \in ToSet(wire'[s]) \/ (s = sender /\ m = Polling(e, f, h))
  BY <1>2, <1>12
<1>15. \A s \in signals : LeadsToHost(s) \/ Signal(e) \in ToSet(wire'[s])
  BY <1>6, <1>11, <1>12
<1>16. idx \in Senders => LeadsToHost(idx) \/ Polling(e, f, h + 1) \in ToSet(wire'[idx])
  BY <1>11, <1>12
<1>17. QED
  BY <1>3, <1>5, <1>12, <1>13, <1>14, <1>15, <1>16 DEF signals, idx

LEMMA MaxOfTwo ==
  ASSUME NEW a \in Int, NEW b \in Int
  PROVE  Max({a, b}) = IF a >= b THEN a ELSE b
<1> DEFINE m == IF a >= b THEN a ELSE b
<1>1. m \in {a, b} /\ \A y \in {a, b} : m >= y
  OBVIOUS
<1>2. \A x \in {a, b} : (\A y \in {a, b} : x >= y) => x = m
  OBVIOUS
<1> HIDE DEF m
<1>3. Max({a, b}) = m
  BY <1>1, <1>2 DEF Max
<1>4. QED
  BY <1>3 DEF m

\* The hops of a path: all but the last lead to a switch.
LEMMA PathHops ==
  ASSUME NEW f \in Flows, NEW h \in 1..Len(Path[f])
  PROVE  /\ Path[f][h] \in ToSet(Path[f]) /\ Path[f][h].out \in Ports
         /\ Peer[Path[f][h].out] # Host => h + 1 \in 1..Len(Path[f])
         /\ h + 1 \in 1..Len(Path[f]) => Peer[Path[f][h].out] # Host
<1> DEFINE hops == [in : Ports, out : Ports]
<1>1. /\ Path[f] \in Seq(hops)
      /\ Peer[Path[f][Len(Path[f])].out] = Host
      /\ \A i \in 1..(Len(Path[f]) - 1) : Peer[Path[f][i].out] = Path[f][i + 1].in
      /\ Host \notin Ports
  BY FabricAssumption
<1> HIDE DEF hops
<1>2. /\ Len(Path[f]) \in Nat /\ DOMAIN Path[f] = 1..Len(Path[f])
      /\ \A i \in 1..Len(Path[f]) : Path[f][i] \in hops
  BY <1>1, Elements
<1>3. \A i \in 1..Len(Path[f]) : Path[f][i].in \in Ports /\ Path[f][i].out \in Ports
  BY <1>2 DEF hops
<1>4. Path[f][h] \in ToSet(Path[f])
  BY <1>2 DEF ToSet
<1>5. Peer[Path[f][h].out] # Host => h + 1 \in 1..Len(Path[f])
  BY <1>1, <1>2
<1>6. h + 1 \in 1..Len(Path[f]) => Peer[Path[f][h].out] # Host
  <2> SUFFICES ASSUME h + 1 \in 1..Len(Path[f]) PROVE Peer[Path[f][h].out] # Host
    OBVIOUS
  <2>1. h \in 1..(Len(Path[f]) - 1)
    BY <1>2
  <2>2. Peer[Path[f][h].out] \in Ports
    BY <1>1, <1>3, <2>1
  <2>3. QED
    BY <1>1, <2>2
<1>7. QED
  BY <1>3, <1>4, <1>5, <1>6

LEMMA StillTraced ==
  ASSUME paused' = paused, issued \subseteq issued'
  PROVE  \A in, e : Traced(in, e) => Traced(in, e)'
<1>1. \A f : Downstream(f)' = Downstream(f)
  BY DEF Downstream
<1>2. QED
  BY <1>1 DEF Traced

LEMMA SeenIsTraced ==
  /\ OnlyDownstreamSeen <=> \A in \in Ports : seen[in] # 0 => Traced(in, seen[in])
  /\ OnlyDownstreamSeen' <=> (\A in \in Ports : seen[in] # 0 => Traced(in, seen[in]))'
  BY DEF OnlyDownstreamSeen, Traced

LEMMA TraceBegins == TraceInit => TraceBook
<1> SUFFICES ASSUME TraceInit PROVE TraceBook
  OBVIOUS
<1>1. \A s \in Senders : wire[s] = <<>>
  BY DEF TraceInit
<1>2. \A s \in Senders : ToSet(wire[s]) = {}
  <2>1. ToSet(<<>>) = {}
    BY DEF ToSet
  <2>2. QED
    BY <1>1, <2>1
<1>3. TraceTyped
  <2>1. wire \in [Senders -> Seq(Messages)]
    BY DEF TraceInit
  <2>2. QED
    BY <2>1 DEF TraceInit, TraceTyped
<1>4. SignalsFounded /\ PollingsOnPath
  BY <1>2 DEF SignalsFounded, PollingsOnPath
<1>5. OnlyDownstreamSeen /\ LastFollowed /\ SentOn /\ PathCovered
  BY DEF TraceInit, OnlyDownstreamSeen, LastFollowed, SentOn, PathCovered
<1>6. QED
  BY <1>3, <1>4, <1>5 DEF TraceBook

LEMMA SignalKeepsBook ==
  ASSUME TraceBook, NEW sender \in Senders, ReceiveSignal(sender)
  PROVE  TraceBook'
<1>1. TraceTyped
  BY DEF TraceBook
<1>2. PICK e \in Times :
        /\ Signal(e) \in ToSet(wire[sender])
        /\ m_lastEventID' = MarkSignalled(SignalPorts(OutPorts(Peer[sender]), e), e)
        /\ seen' = [seen EXCEPT ![Peer[sender]] = Max({seen[Peer[sender]], e})]
        /\ wire' \in [Senders -> Seq(Messages)]
        /\ \A s \in Senders : \A m \in ToSet(wire'[s]) :
             \/ m \in ToSet(wire[s])
             \/ /\ s \in SignalPorts(OutPorts(Peer[sender]), e)
                /\ m = Signal(e) /\ ~LeadsToHost(s)
        /\ \A s \in Senders : \A m \in ToSet(wire[s]) :
             m \in ToSet(wire'[s]) \/ (s = sender /\ m = Signal(e))
        /\ \A s \in SignalPorts(OutPorts(Peer[sender]), e) :
             LeadsToHost(s) \/ Signal(e) \in ToSet(wire'[s])
  BY <1>1, SignalReceived
<1> DEFINE in == Peer[sender]
           signals == SignalPorts(OutPorts(in), e)
<1>3. /\ m_lastEventID \in [Ports -> Times \cup {0}] /\ paused \subseteq Egress
      /\ seen \in [Ports -> Times \cup {0}]
  BY <1>1 DEF TraceTyped
<1>4. /\ signals \subseteq OutPorts(in) /\ signals \subseteq Ports /\ signals \subseteq paused
      /\ m_lastEventID' \in [Ports -> Times \cup {0}]
      /\ \A p \in signals : m_lastEventID'[p] = e
      /\ \A p \in Ports \ signals : m_lastEventID'[p] = m_lastEventID[p]
      /\ \A p \in Ports : \A t : t \in Nat /\ Recent(p, t) => Recent(p, t)'
      /\ \A p \in OutPorts(in) \cap paused : Recent(p, e)'
  BY <1>2, <1>3, EventNoted
<1>5. /\ now' = now /\ paused' = paused /\ issued' = issued
  BY DEF ReceiveSignal
<1>6. sender \in Ports /\ in \in Ports /\ Traced(in, e)
  <2>1. sender \in Ports /\ in # Host /\ Traced(in, e)
    BY <1>2 DEF TraceBook, SignalsFounded
  <2>2. QED
    BY <2>1, FabricAssumption
<1>7. \A p, t : Traced(p, t) => Traced(p, t)'
  BY <1>5, StillTraced
<1>8. \A t \in Times \cup {0} : t \in Nat
  BY FabricAssumption
<1>9. Max({seen[in], e}) = IF seen[in] >= e THEN seen[in] ELSE e
  <2>1. seen[in] \in Int /\ e \in Int
    BY <1>3, <1>6, <1>8
  <2>2. QED
    BY <2>1, MaxOfTwo
<1>10. /\ seen' \in [Ports -> Times \cup {0}]
       /\ \A p \in Ports : p # in => seen'[p] = seen[p]
       /\ seen'[in] \in {seen[in], e} /\ seen'[in] >= e
       /\ \A p \in Ports : seen'[p] >= seen[p]
  <2> DEFINE latest == Max({seen[in], e})
  <2>1. /\ latest \in {seen[in], e} /\ latest >= e /\ latest >= seen[in]
        /\ latest \in Times \cup {0}
    BY <1>3, <1>6, <1>8, <1>9
  <2>2. seen' = [seen EXCEPT ![in] = latest]
    BY <1>2
  <2> HIDE DEF latest, in
  <2>3. seen' \in [Ports -> Times \cup {0}] /\ seen'[in] = latest
    BY <1>3, <1>6, <2>1, <2>2
  <2>4. \A p \in Ports : p # in => seen'[p] = seen[p]
    BY <1>3, <2>2
  <2>5. \A p \in Ports : seen[p] \in Nat
    BY <1>3, <1>8
  <2>6. QED
    BY <2>1, <2>3, <2>4, <2>5
<1>11. TraceTyped'
  BY <1>1, <1>2, <1>4, <1>5, <1>10 DEF TraceTyped
<1> HIDE DEF signals, in
<1>12. SignalsFounded'
  <2> SUFFICES ASSUME NEW s \in Senders, NEW d \in Times, Signal(d) \in ToSet(wire'[s])
               PROVE  s \in Ports /\ Peer[s] # Host /\ Traced(Peer[s], d)'
    BY DEF SignalsFounded
  <2>1. CASE Signal(d) \in ToSet(wire[s])
    BY <1>7, <2>1 DEF TraceBook, SignalsFounded
  <2>2. CASE s \in signals /\ Signal(d) = Signal(e) /\ ~LeadsToHost(s)
    <3>1. d = e /\ s \in Ports /\ Peer[s] # Host /\ s \in OutPorts(in) /\ s \in paused
      BY <1>4, <2>2, MessagesDiffer DEF LeadsToHost
    <3>2. PICK f \in Flows : <<f, e>> \in issued /\ in \in Downstream(f)[Cardinality(Egress)]
      BY <1>6 DEF Traced
    <3>3. Peer[s] \in Downstream(f)[Cardinality(Egress)]
      BY <3>1, <3>2, DownstreamClosed
    <3>4. Traced(Peer[s], d)
      BY <3>1, <3>2, <3>3 DEF Traced
    <3>5. QED
      BY <1>7, <3>1, <3>4
  <2>3. QED
    BY <1>2, <2>1, <2>2 DEF signals, in
<1>13. PollingsOnPath'
  <2> SUFFICES ASSUME NEW s \in Senders, NEW d \in Times, NEW f \in Flows, NEW h \in Nat,
                      Polling(d, f, h) \in ToSet(wire'[s])
               PROVE  <<f, d>> \in issued /\ h \in 1..Len(Path[f])
    BY <1>5 DEF PollingsOnPath
  <2>1. Polling(d, f, h) \in ToSet(wire[s])
    BY <1>2, MessagesDiffer
  <2>2. QED
    BY <2>1 DEF TraceBook, PollingsOnPath
<1>14. OnlyDownstreamSeen'
  <2> SUFFICES ASSUME NEW p \in Ports, seen'[p] # 0 PROVE Traced(p, seen[p])'
    BY SeenIsTraced
  <2>1. Traced(p, seen'[p])
    <3>1. CASE seen'[p] = seen[p]
      BY <3>1, SeenIsTraced DEF TraceBook
    <3>2. CASE p = in /\ seen'[p] = e
      BY <1>6, <3>2
    <3>3. QED
      BY <1>10, <3>1, <3>2
  <2>2. QED
    BY <1>5, <2>1, StillTraced DEF Traced, Downstream
<1>15. LastFollowed'
  <2> SUFFICES ASSUME NEW p \in Ports, m_lastEventID'[p] # 0, Peer[p] # Host
               PROVE  \/ Signal(m_lastEventID'[p]) \in ToSet(wire'[p])
                      \/ seen'[Peer[p]] >= m_lastEventID'[p]
    BY DEF LastFollowed, Signal
  <2>0. p \in Senders /\ Peer[p] \in Ports
    BY FabricAssumption DEF Senders
  <2>1. CASE p \in signals
    BY <1>2, <1>4, <2>1 DEF LeadsToHost, signals, in
  <2>2. CASE p \notin signals
    <3>1. m_lastEventID'[p] = m_lastEventID[p] /\ m_lastEventID[p] \in Times
      BY <1>3, <1>4, <2>2
    <3>2. CASE seen[Peer[p]] >= m_lastEventID[p]
      <4>1. /\ seen'[Peer[p]] >= seen[Peer[p]] /\ seen[Peer[p]] \in Nat
            /\ seen'[Peer[p]] \in Nat /\ m_lastEventID[p] \in Nat
        BY <1>3, <1>8, <1>10, <2>0, <3>1
      <4>2. QED
        BY <3>1, <3>2, <4>1
    <3>3. CASE Signal(m_lastEventID[p]) \in ToSet(wire[p])
      <4>1. CASE Signal(m_lastEventID[p]) \in ToSet(wire'[p])
        BY <3>1, <4>1
      <4>2. CASE p = sender /\ Signal(m_lastEventID[p]) = Signal(e)
        <5>1. m_lastEventID[p] = e /\ Peer[p] = in
          BY <3>1, <4>2, MessagesDiffer DEF in
        <5>2. QED
          BY <1>10, <3>1, <5>1
      <4>3. QED
        BY <1>2, <2>0, <3>3, <4>1, <4>2
    <3>4. QED
      BY <3>1, <3>2, <3>3 DEF TraceBook, LastFollowed
  <2>3. QED
    BY <2>1, <2>2
<1>16. SentOn'
  <2> SUFFICES ASSUME NEW p \in Ports, seen'[p] # 0, NEW out \in OutPorts(p) \cap paused
               PROVE  Recent(out, seen[p])'
    BY <1>5 DEF SentOn, OutPorts
  <2>0. out \in Ports
    BY <1>3, MeterPorts
  <2>1. CASE seen'[p] = seen[p]
    <3>1. Recent(out, seen[p]) /\ seen[p] \in Nat
      BY <1>3, <1>8, <2>1 DEF TraceBook, SentOn
    <3>2. m_lastEventID'[out] # 0 /\ m_lastEventID'[out] + Gap >= seen[p]
      BY <1>4, <2>0, <3>1 DEF Recent
    <3>3. QED
      BY <2>1, <3>2 DEF Recent
  <2>2. CASE p = in /\ seen'[p] = e
    <3>1. m_lastEventID'[out] # 0 /\ m_lastEventID'[out] + Gap >= e
      BY <1>4, <2>2 DEF Recent
    <3>2. QED
      BY <2>2, <3>1 DEF Recent
  <2>3. QED
    BY <1>10, <2>1, <2>2
<1>17. PathCovered'
  <2> SUFFICES ASSUME NEW f \in Flows, NEW d \in Times, <<f, d>> \in issued,
                      NEW i \in 1..Len(Path[f]), Path[f][i].out \in paused
               PROVE  \/ \E s \in Senders, h \in 1..i : Polling(d, f, h) \in ToSet(wire'[s])
                      \/ Recent(Path[f][i].out, d)'
    BY <1>5 DEF PathCovered, Polling, Recent
  <2>1. CASE Recent(Path[f][i].out, d)
    BY <1>4, <1>8, <2>1, PathHops
  <2>2. ASSUME NEW s \in Senders, NEW h \in 1..i, Polling(d, f, h) \in ToSet(wire[s])
        PROVE  Polling(d, f, h) \in ToSet(wire'[s])
    <3>1. h \in Nat
      OBVIOUS
    <3>2. Polling(d, f, h) # Signal(e)
      BY <3>1, MessagesDiffer
    <3>3. QED
      BY <1>2, <2>2, <3>2
  <2>3. QED
    BY <2>1, <2>2 DEF TraceBook, PathCovered
<1>18. QED
  BY <1>11, <1>12, <1>13, <1>14, <1>15, <1>16, <1>17 DEF TraceBook

LEMMA PollingKeepsBook ==
  ASSUME TraceBook, NEW sender \in Senders, ReceivePolling(sender)
  PROVE  TraceBook'
<1>1. TraceTyped
  BY DEF TraceBook
<1>2. PICK e \in Times, f \in Flows, h \in Nat :
        /\ Polling(e, f, h) \in ToSet(wire[sender])
        /\ m_lastEventID' = MarkSignalled(SignalPorts({Path[f][h].out}, e), e)
        /\ wire' \in [Senders -> Seq(Messages)]
        /\ \A s \in Senders : \A m \in ToSet(wire'[s]) :
             \/ m \in ToSet(wire[s])
             \/ /\ s \in SignalPorts({Path[f][h].out}, e)
                /\ m = Signal(e) /\ ~LeadsToHost(s)
             \/ s = Path[f][h].out /\ m = Polling(e, f, h + 1) /\ ~LeadsToHost(s)
        /\ \A s \in Senders : \A m \in ToSet(wire[s]) :
             m \in ToSet(wire'[s]) \/ (s = sender /\ m = Polling(e, f, h))
        /\ \A s \in SignalPorts({Path[f][h].out}, e) :
             LeadsToHost(s) \/ Signal(e) \in ToSet(wire'[s])
        /\ Path[f][h].out \in Senders =>
             \/ LeadsToHost(Path[f][h].out)
             \/ Polling(e, f, h + 1) \in ToSet(wire'[Path[f][h].out])
  BY <1>1, PollingReceived
<1> DEFINE idx == Path[f][h].out
           signals == SignalPorts({idx}, e)
<1>3. /\ m_lastEventID \in [Ports -> Times \cup {0}] /\ paused \subseteq Egress
      /\ seen \in [Ports -> Times \cup {0}]
  BY <1>1 DEF TraceTyped
<1>4. /\ signals \subseteq {idx} /\ signals \subseteq Ports /\ signals \subseteq paused
      /\ m_lastEventID' \in [Ports -> Times \cup {0}]
      /\ \A p \in signals : m_lastEventID'[p] = e
      /\ \A p \in Ports \ signals : m_lastEventID'[p] = m_lastEventID[p]
      /\ \A p \in Ports : \A t : t \in Nat /\ Recent(p, t) => Recent(p, t)'
      /\ \A p \in {idx} \cap paused : Recent(p, e)'
  <2> DEFINE here == {idx}
             noted == SignalPorts(here, e)
  <2>1. m_lastEventID' = MarkSignalled(noted, e)
    BY <1>2
  <2> HIDE DEF here
  <2>2. noted = SignalPorts(here, e)
    OBVIOUS
  <2> HIDE DEF noted
  <2>3. /\ noted \subseteq here /\ noted \subseteq Ports /\ noted \subseteq paused
        /\ m_lastEventID' \in [Ports -> Times \cup {0}]
        /\ \A p \in noted : m_lastEventID'[p] = e
        /\ \A p \in Ports \ noted : m_lastEventID'[p] = m_lastEventID[p]
        /\ \A p \in Ports : \A t : t \in Nat /\ Recent(p, t) => Recent(p, t)'
        /\ \A p \in here \cap paused : Recent(p, e)'
    BY <1>3, <2>1, <2>2, EventNoted
  <2>4. here = {idx} /\ noted = signals
    BY DEF here, noted
  <2> HIDE DEF signals, idx
  <2>5. QED
    BY <2>3, <2>4
<1>5. now' = now /\ paused' = paused /\ issued' = issued /\ seen' = seen
  BY DEF ReceivePolling
<1>6. /\ <<f, e>> \in issued /\ h \in 1..Len(Path[f])
      /\ Path[f][h] \in ToSet(Path[f]) /\ idx \in Ports /\ idx \in Senders
      /\ Peer[idx] # Host => h + 1 \in 1..Len(Path[f])
      /\ h + 1 \in 1..Len(Path[f]) => Peer[idx] # Host
  <2>1. <<f, e>> \in issued /\ h \in 1..Len(Path[f])
    BY <1>2 DEF TraceBook, PollingsOnPath
  <2>2. QED
    BY <2>1, PathHops DEF Senders
<1>7. \A p, t : Traced(p, t) => Traced(p, t)'
  BY <1>5, StillTraced
<1>8. \A t \in Times \cup {0} : t \in Nat
  BY FabricAssumption
<1>9. TraceTyped'
  BY <1>1, <1>2, <1>4, <1>5 DEF TraceTyped
<1> HIDE DEF signals, idx
<1>10. SignalsFounded'
  <2> SUFFICES ASSUME NEW s \in Senders, NEW d \in Times, Signal(d) \in ToSet(wire'[s])
               PROVE  s \in Ports /\ Peer[s] # Host /\ Traced(Peer[s], d)'
    BY DEF SignalsFounded
  <2>1. CASE Signal(d) \in ToSet(wire[s])
    BY <1>7, <2>1 DEF TraceBook, SignalsFounded
  <2>2. CASE s \in signals /\ Signal(d) = Signal(e) /\ ~LeadsToHost(s)
    <3>1. d = e /\ s \in Ports /\ Peer[s] # Host /\ s = idx /\ s \in paused
      BY <1>4, <2>2, MessagesDiffer DEF LeadsToHost
    <3>2. Peer[s] \in Downstream(f)[Cardinality(Egress)]
      BY <1>6, <3>1, DownstreamClosed DEF idx
    <3>3. Traced(Peer[s], d)
      BY <1>6, <3>1, <3>2 DEF Traced
    <3>4. QED
      BY <1>7, <3>1, <3>3
  <2>3. Signal(d) # Polling(e, f, h + 1)
    BY <1>6, MessagesDiffer
  <2>4. QED
    BY <1>2, <2>1, <2>2, <2>3 DEF signals, idx
<1>11. PollingsOnPath'
  <2> SUFFICES ASSUME NEW s \in Senders, NEW d \in Times, NEW g \in Flows, NEW i \in Nat,
                      Polling(d, g, i) \in ToSet(wire'[s])
               PROVE  <<g, d>> \in issued /\ i \in 1..Len(Path[g])
    BY <1>5 DEF PollingsOnPath
  <2>1. CASE Polling(d, g, i) \in ToSet(wire[s])
    BY <2>1 DEF TraceBook, PollingsOnPath
  <2>2. CASE s = idx /\ Polling(d, g, i) = Polling(e, f, h + 1) /\ ~LeadsToHost(s)
    <3>1. d = e /\ g = f /\ i = h + 1
      BY <1>6, <2>2, MessagesDiffer
    <3>2. QED
      BY <1>6, <2>2, <3>1 DEF LeadsToHost
  <2>3. Polling(d, g, i) # Signal(e)
    BY MessagesDiffer
  <2>4. QED
    BY <1>2, <2>1, <2>2, <2>3 DEF idx
<1>12. OnlyDownstreamSeen'
  <2> SUFFICES ASSUME NEW p \in Ports, seen'[p] # 0 PROVE Traced(p, seen[p])'
    BY SeenIsTraced
  <2>1. Traced(p, seen[p])
    BY <1>5, SeenIsTraced DEF TraceBook
  <2>2. QED
    BY <1>5, <2>1 DEF Traced, Downstream
<1>13. LastFollowed'
  <2> SUFFICES ASSUME NEW p \in Ports, m_lastEventID'[p] # 0, Peer[p] # Host
               PROVE  \/ Signal(m_lastEventID'[p]) \in ToSet(wire'[p])
                      \/ seen[Peer[p]] >= m_lastEventID'[p]
    BY <1>5 DEF LastFollowed, Signal
  <2>0. p \in Senders
    BY DEF Senders
  <2>1. CASE p \in signals
    BY <1>2, <1>4, <2>1 DEF LeadsToHost, signals, idx
  <2>2. CASE p \notin signals
    <3>1. m_lastEventID'[p] = m_lastEventID[p] /\ m_lastEventID[p] \in Times
      BY <1>3, <1>4, <2>2
    <3>2. CASE Signal(m_lastEventID[p]) \in ToSet(wire[p])
      <4>1. Signal(m_lastEventID[p]) # Polling(e, f, h)
        BY <3>1, MessagesDiffer
      <4>2. QED
        BY <1>2, <2>0, <3>1, <3>2, <4>1
    <3>3. QED
      BY <3>1, <3>2 DEF TraceBook, LastFollowed
  <2>3. QED
    BY <2>1, <2>2
<1>14. SentOn'
  <2> SUFFICES ASSUME NEW p \in Ports, seen[p] # 0, NEW out \in OutPorts(p) \cap paused
               PROVE  Recent(out, seen[p])'
    BY <1>5 DEF SentOn, OutPorts
  <2>1. Recent(out, seen[p]) /\ seen[p] \in Nat /\ out \in Ports
    BY <1>3, <1>8, MeterPorts DEF TraceBook, SentOn
  <2>2. m_lastEventID'[out] # 0 /\ m_lastEventID'[out] + Gap >= seen[p]
    BY <1>4, <2>1 DEF Recent
  <2>3. QED
    BY <1>5, <2>2 DEF Recent
<1>15. PathCovered'
  <2> SUFFICES ASSUME NEW g \in Flows, NEW d \in Times, <<g, d>> \in issued,
                      NEW i \in 1..Len(Path[g]), Path[g][i].out \in paused
               PROVE  \/ \E s \in Senders, k \in 1..i : Polling(d, g, k) \in ToSet(wire'[s])
                      \/ Recent(Path[g][i].out, d)'
    BY <1>5 DEF PathCovered, Polling, Recent
  <2>1. CASE Recent(Path[g][i].out, d)
    BY <1>4, <1>8, <2>1, PathHops
  <2>2. ASSUME NEW s \in Senders, NEW k \in 1..i, Polling(d, g, k) \in ToSet(wire[s])
        PROVE  \/ \E r \in Senders, j \in 1..i : Polling(d, g, j) \in ToSet(wire'[r])
               \/ Recent(Path[g][i].out, d)'
    <3>1. CASE Polling(d, g, k) \in ToSet(wire'[s])
      BY <3>1
    <3>2. CASE Polling(d, g, k) = Polling(e, f, h)
      <4>1. d = e /\ g = f /\ k = h /\ i \in Nat
        BY <3>2, MessagesDiffer
      <4>2. CASE h = i
        BY <1>4, <4>1, <4>2 DEF idx
      <4>3. CASE h # i
        <5>1. h + 1 \in 1..Len(Path[f]) /\ h + 1 \in 1..i
          BY <1>6, <4>1, <4>3
        <5>2. ~LeadsToHost(idx)
          BY <1>6, <5>1 DEF LeadsToHost
        <5>3. Polling(e, f, h + 1) \in ToSet(wire'[idx])
          BY <1>2, <1>6, <5>2 DEF idx
        <5>4. QED
          BY <1>6, <4>1, <5>1, <5>3
      <4>4. QED
        BY <4>2, <4>3
    <3>3. QED
      BY <1>2, <2>2, <3>1, <3>2
  <2>3. QED
    BY <2>1, <2>2 DEF TraceBook, PathCovered
<1>16. QED
  BY <1>9, <1>10, <1>11, <1>12, <1>13, <1>14, <1>15 DEF TraceBook

LEMMA AckClockKeepsBook ==
  ASSUME TraceBook, NEW f \in Flows, ScheduleAckClock(f)
  PROVE  TraceBook'
<1>1. TraceTyped
  BY DEF TraceBook
<1>2. /\ wire \in [Senders -> Seq(Messages)] /\ now \in Times /\ f \in Senders
      /\ issued \subseteq Flows \X Times
  BY <1>1 DEF TraceTyped, Senders
<1>3. /\ now' = now /\ m_lastEventID' = m_lastEventID /\ paused' = paused /\ seen' = seen
      /\ issued' = issued \cup {<<f, now>>}
      /\ wire' = [wire EXCEPT ![f] = Append(@, Polling(now, f, 1))]
  BY DEF ScheduleAckClock
<1> DEFINE sent == Polling(now, f, 1)
<1>4. sent \in Messages
  BY <1>2 DEF Messages
<1>5. /\ Append(wire[f], sent) \in Seq(Messages)
      /\ ToSet(Append(wire[f], sent)) = ToSet(wire[f]) \cup {sent}
  <2> HIDE DEF sent
  <2>1. wire[f] \in Seq(Messages) /\ <<sent>> \in Seq(Messages)
    BY <1>2, <1>4
  <2>2. Append(wire[f], sent) = wire[f] \o <<sent>>
    BY <2>1
  <2>3. ToSet(<<sent>>) = {sent}
    BY DEF ToSet
  <2>4. /\ wire[f] \o <<sent>> \in Seq(Messages)
        /\ ToSet(wire[f] \o <<sent>>) = ToSet(wire[f]) \cup ToSet(<<sent>>)
    BY <2>1, QueueContents
  <2>5. QED
    BY <2>2, <2>3, <2>4
<1>6. wire' = [wire EXCEPT ![f] = Append(wire[f], sent)]
  BY <1>3
<1> HIDE DEF sent
<1>7. /\ wire' \in [Senders -> Seq(Messages)]
      /\ \A s \in Senders : \A m \in ToSet(wire'[s]) : m \in ToSet(wire[s]) \/ m = sent
      /\ \A s \in Senders : \A m \in ToSet(wire[s]) : m \in ToSet(wire'[s])
      /\ sent \in ToSet(wire'[f])
  <2>1. wire' \in [Senders -> Seq(Messages)]
    BY <1>2, <1>5, <1>6
  <2>2. /\ wire'[f] = Append(wire[f], sent)
        /\ \A s \in Senders : s # f => wire'[s] = wire[s]
    BY <1>2, <1>6
  <2>3. QED
    BY <1>2, <1>5, <2>1, <2>2
<1>8. issued \subseteq issued' /\ issued' \subseteq Flows \X Times
  BY <1>2, <1>3
<1>9. \A p, t : Traced(p, t) => Traced(p, t)'
  BY <1>3, <1>8, StillTraced
<1>10. TraceTyped'
  BY <1>1, <1>3, <1>7, <1>8 DEF TraceTyped
<1>11. SignalsFounded'
  <2> SUFFICES ASSUME NEW s \in Senders, NEW d \in Times, Signal(d) \in ToSet(wire'[s])
               PROVE  s \in Ports /\ Peer[s] # Host /\ Traced(Peer[s], d)'
    BY DEF SignalsFounded
  <2>1. Signal(d) # sent
    BY <1>2, MessagesDiffer DEF sent
  <2>2. Signal(d) \in ToSet(wire[s])
    BY <1>7, <2>1
  <2>3. QED
    BY <1>9, <2>2 DEF TraceBook, SignalsFounded
<1>12. PollingsOnPath'
  <2> SUFFICES ASSUME NEW s \in Senders, NEW d \in Times, NEW g \in Flows, NEW h \in Nat,
                      Polling(d, g, h) \in ToSet(wire'[s])
               PROVE  <<g, d>> \in issued' /\ h \in 1..Len(Path[g])
    BY DEF PollingsOnPath
  <2>1. CASE Polling(d, g, h) \in ToSet(wire[s])
    BY <1>8, <2>1 DEF TraceBook, PollingsOnPath
  <2>2. CASE Polling(d, g, h) = sent
    <3>1. d = now /\ g = f /\ h = 1
      BY <1>2, <2>2, MessagesDiffer DEF sent
    <3>2. 1 \in 1..Len(Path[f])
      BY FabricAssumption, Elements
    <3>3. QED
      BY <1>3, <3>1, <3>2
  <2>3. QED
    BY <1>7, <2>1, <2>2
<1>13. OnlyDownstreamSeen'
  <2> SUFFICES ASSUME NEW p \in Ports, seen[p] # 0 PROVE Traced(p, seen[p])'
    BY <1>3, SeenIsTraced
  <2>1. Traced(p, seen[p])
    BY SeenIsTraced DEF TraceBook
  <2>2. PICK g \in Flows :
          <<g, seen[p]>> \in issued /\ p \in Downstream(g)[Cardinality(Egress)]
    BY <2>1 DEF Traced
  <2>3. Downstream(g)' = Downstream(g)
    BY <1>3 DEF Downstream
  <2>4. QED
    BY <1>3, <1>8, <2>2, <2>3 DEF Traced
<1>14. LastFollowed'
  <2> SUFFICES ASSUME NEW p \in Ports, m_lastEventID[p] # 0, Peer[p] # Host
               PROVE  \/ Signal(m_lastEventID[p]) \in ToSet(wire'[p])
                      \/ seen[Peer[p]] >= m_lastEventID[p]
    BY <1>3 DEF LastFollowed, Signal
  <2>1. p \in Senders
    BY DEF Senders
  <2>2. QED
    BY <1>7, <2>1 DEF TraceBook, LastFollowed
<1>15. SentOn'
  BY <1>3 DEF TraceBook, SentOn, OutPorts, Recent
<1>16. PathCovered'
  <2> SUFFICES ASSUME NEW g \in Flows, NEW d \in Times, <<g, d>> \in issued',
                      NEW i \in 1..Len(Path[g]), Path[g][i].out \in paused
               PROVE  \/ \E s \in Senders, k \in 1..i : Polling(d, g, k) \in ToSet(wire'[s])
                      \/ Recent(Path[g][i].out, d)
    BY <1>3 DEF PathCovered, Polling, Recent
  <2>1. CASE <<g, d>> \in issued
    <3>1. CASE Recent(Path[g][i].out, d)
      BY <3>1
    <3>2. ASSUME NEW s \in Senders, NEW k \in 1..i, Polling(d, g, k) \in ToSet(wire[s])
          PROVE  Polling(d, g, k) \in ToSet(wire'[s])
      BY <1>7, <3>2
    <3>3. QED
      BY <2>1, <3>1, <3>2 DEF TraceBook, PathCovered
  <2>2. CASE g = f /\ d = now
    <3>1. 1 \in 1..i
      OBVIOUS
    <3>2. QED
      BY <1>2, <1>7, <2>2, <3>1 DEF sent
  <2>3. QED
    BY <1>3, <2>1, <2>2
<1>17. QED
  BY <1>10, <1>11, <1>12, <1>13, <1>14, <1>15, <1>16 DEF TraceBook

LEMMA TraceStepKeepsBook == TraceBook /\ [TraceNext]_traceVars => TraceBook'
<1> SUFFICES ASSUME TraceBook, [TraceNext]_traceVars PROVE TraceBook'
  OBVIOUS
<1>1. ASSUME UNCHANGED <<m_lastPollingTime, m_lastEventID, paused, wire, issued, seen>>,
             now' \in Times
      PROVE  TraceBook'
  <2>1. TraceTyped' /\ SignalsFounded' /\ PollingsOnPath'
    <3>1. \A p, t : Traced(p, t) => Traced(p, t)'
      BY <1>1, StillTraced
    <3>2. QED
      BY <1>1, <3>1 DEF TraceBook, TraceTyped, SignalsFounded, PollingsOnPath
  <2>2. OnlyDownstreamSeen'
    BY <1>1 DEF TraceBook, OnlyDownstreamSeen, Downstream
  <2>3. LastFollowed' /\ SentOn' /\ PathCovered'
    BY <1>1 DEF TraceBook, LastFollowed, SentOn, PathCovered, OutPorts, Recent
  <2>4. QED
    BY <2>1, <2>2, <2>3 DEF TraceBook
<1>2. now \in Times
  BY DEF TraceBook, TraceTyped
<1>3. CASE Tick
  BY <1>1, <1>3 DEF Tick
<1>4. CASE \E f \in Flows : ScheduleAckClock(f)
  BY <1>4, AckClockKeepsBook
<1>5. CASE \E s \in Senders : ReceiveSignal(s) \/ ReceivePolling(s)
  BY <1>5, SignalKeepsBook, PollingKeepsBook
<1>6. CASE UNCHANGED traceVars
  BY <1>1, <1>2, <1>6 DEF traceVars
<1>7. QED
  BY <1>3, <1>4, <1>5, <1>6 DEF TraceNext

\* The book of the traces, for every fabric, set of flows and their paths, pauses, and
\* times of polling.
THEOREM TracesKept == TraceSpec => []TraceBook
<1>1. QED
  BY TraceBegins, TraceStepKeepsBook, PTL DEF TraceSpec

\* Every port a signal was seen at lies downstream of the paused ports of a flow that was
\* polled at the time of the signal.
THEOREM NobodyElseBlamed == TraceSpec => []OnlyDownstreamSeen
<1>1. TraceBook => OnlyDownstreamSeen
  BY DEF TraceBook
<1>2. QED
  BY <1>1, TracesKept, PTL

\* When all is quiet, each paused port hands on to the switch behind it an event at most
\* one Gap older than the polling packet or the signal that asked for it: by induction
\* over the switches on the way.
LEMMA QuietCovers == TraceBook => TraceCovers
<1> SUFFICES ASSUME TraceBook, Quiet, NEW f \in Flows, NEW t \in Times, <<f, t>> \in issued,
                    NEW d \in 0..Cardinality(Egress), NEW in \in Downstream(f)[d]
             PROVE  seen[in] + (d + 1) * Gap >= t
  <2>1. SUFFICES ASSUME TraceBook, Quiet, NEW poll \in issued,
                        NEW d \in DOMAIN Downstream(poll[1]),
                        NEW in \in Downstream(poll[1])[d]
                 PROVE  seen[in] + (d + 1) * Gap >= poll[2]
    BY DEF TraceCovers
  <2>2. poll[1] \in Flows /\ poll[2] \in Times /\ poll = <<poll[1], poll[2]>>
    <3>1. issued \subseteq Flows \X Times
      BY <2>1 DEF TraceBook, TraceTyped
    <3>2. poll \in Flows \X Times
      BY <2>1, <3>1
    <3>3. QED
      BY <3>2
  <2>3. DOMAIN Downstream(poll[1]) = 0..Cardinality(Egress)
    BY DEF Downstream, DownstreamOf
  <2>4. QED
    BY <2>1, <2>2, <2>3
<1> DEFINE C == Cardinality(Egress)
           r == Downstream(f)
<1>1. /\ C \in Nat
      /\ r \in [0..C -> SUBSET Ports]
      /\ r[0] = Behind({hop.out : hop \in ToSet(Path[f])}, paused)
      /\ \A n \in 0..(C - 1) : r[n + 1] = Further(r[n], paused)
  BY MeterPorts, DownstreamSteps DEF Downstream
<1>2. /\ \A p \in Ports : m_lastEventID[p] \in Nat /\ seen[p] \in Nat
      /\ t \in Nat /\ Gap \in Nat
  BY FabricAssumption DEF TraceBook, TraceTyped
<1>3. ASSUME NEW s \in Senders, NEW m PROVE m \notin ToSet(wire[s])
  BY <1>3 DEF Quiet, ToSet
<1>4. ASSUME NEW p \in Ports, NEW e \in Nat, Recent(p, e), Peer[p] # Host
      PROVE  seen[Peer[p]] + Gap >= e
  <2>1. p \in Senders /\ Peer[p] \in Ports
    BY <1>4, FabricAssumption DEF Senders
  <2>2. seen[Peer[p]] >= m_lastEventID[p]
    BY <1>3, <1>4, <2>1 DEF TraceBook, LastFollowed, Recent
  <2>3. QED
    BY <1>2, <1>4, <2>1, <2>2 DEF Recent
<1> HIDE DEF r, C
<1> DEFINE Holds(n) == \A port \in r[n] : seen[port] + (n + 1) * Gap >= t
           D == {n \in Nat : n <= C => Holds(n)}
<1>5. 0 \in D
  <2> SUFFICES ASSUME NEW port \in r[0] PROVE seen[port] + (0 + 1) * Gap >= t
    OBVIOUS
  <2>1. PICK hop \in ToSet(Path[f]) :
          hop.out \in paused /\ Peer[hop.out] # Host /\ port = Peer[hop.out]
    BY <1>1 DEF Behind
  <2>2. PICK i \in 1..Len(Path[f]) : hop = Path[f][i]
    <3>1. DOMAIN Path[f] = 1..Len(Path[f])
      BY FabricAssumption
    <3>2. QED
      BY <2>1, <3>1 DEF ToSet
  <2>3. hop.out \in Ports
    BY <2>2, PathHops
  <2>4. Recent(hop.out, t)
    BY <1>3, <2>1, <2>2 DEF TraceBook, PathCovered
  <2>5. seen[port] + Gap >= t
    BY <1>2, <1>4, <2>1, <2>3, <2>4
  <2>6. (0 + 1) * Gap = Gap
    BY <1>2
  <2>7. QED
    BY <2>5, <2>6
<1>6. ASSUME NEW n \in D PROVE n + 1 \in D
  <2> SUFFICES ASSUME n + 1 <= C, NEW port \in r[n + 1]
               PROVE  seen[port] + (n + 1 + 1) * Gap >= t
    OBVIOUS
  <2>1. n \in 0..(C - 1) /\ n \in 0..C /\ n + 1 \in 0..C /\ Holds(n)
    BY <1>1
  <2>2. r[n] \subseteq Ports /\ r[n + 1] = Further(r[n], paused)
    BY <1>1, <2>1
  <2> DEFINE further == (n + 1) * Gap
  <2>3. further \in Nat /\ (n + 1 + 1) * Gap = further + Gap
    BY <1>2
  <2>4. \A port0 \in r[n] : seen[port0] + further >= t
    BY <2>1
  <2> HIDE DEF further, D, Holds
  <2>5. CASE port \in r[n]
    BY <1>2, <2>2, <2>3, <2>4, <2>5
  <2>6. CASE port \notin r[n]
    <3>1. PICK h \in Meter : /\ h.in \in r[n] /\ h.out \in paused
                             /\ Peer[h.out] # Host /\ port = Peer[h.out]
      BY <2>2, <2>6 DEF Further, Behind
    <3>2. h.in \in Ports /\ h.out \in Ports /\ h.out \in OutPorts(h.in) /\ port \in Ports
      BY <3>1, MeterPorts, FabricAssumption DEF OutPorts
    <3>3. seen[h.in] + further >= t
      BY <2>4, <3>1
    <3>4. CASE seen[h.in] = 0
      BY <1>2, <2>3, <3>2, <3>3, <3>4
    <3>5. CASE seen[h.in] # 0
      <4>1. Recent(h.out, seen[h.in])
        BY <3>1, <3>2, <3>5 DEF TraceBook, SentOn
      <4>2. seen[port] + Gap >= seen[h.in]
        BY <1>2, <1>4, <3>1, <3>2, <4>1
      <4>3. QED
        BY <1>2, <2>3, <3>2, <3>3, <4>2
    <3>6. QED
      BY <3>4, <3>5
  <2>7. QED
    BY <2>5, <2>6
<1>7. D \in SUBSET Nat
  OBVIOUS
<1>8. D = Nat
  <2> HIDE DEF D
  <2>1. QED
    BY <1>5, <1>6, <1>7, NaturalsByInduction
<1>9. d \in D /\ d <= C
  BY <1>1, <1>8 DEF C
<1>10. QED
  BY <1>9 DEF r

\* When the wires are empty, every switch behind a paused port of a polled flow's path has
\* seen an event no older than one Gap for each port on the way.
THEOREM TracesCover == TraceSpec => []TraceCovers
<1>1. QED
  BY QuietCovers, TracesKept, PTL

\* The signals out of a port are of events more than one Gap apart, out of a paused port,
\* and each is noted as it is sent: where paused ports form a cycle a signal that comes
\* round is held back, and only new polling brings new ones.
SignalsApart ==
  \A p \in Ports :
    /\ m_lastEventID'[p] # m_lastEventID[p] =>
         p \in paused /\ (m_lastEventID[p] = 0 \/ m_lastEventID'[p] > m_lastEventID[p] + Gap)
    /\ \A e \in Times : Signal(e) \in ToSet(wire'[p]) /\ Signal(e) \notin ToSet(wire[p]) =>
         m_lastEventID'[p] = e /\ m_lastEventID[p] # e

THEOREM NoStormOfSignals == TraceSpec => [][SignalsApart]_traceVars
<1>1. ASSUME TraceTyped, NEW e \in Times, NEW ports, NEW signals, signals = SignalPorts(ports, e),
             m_lastEventID' = MarkSignalled(signals, e),
             \A p \in Ports, d \in Times :
               Signal(d) \in ToSet(wire'[p]) /\ Signal(d) \notin ToSet(wire[p]) =>
                 p \in signals /\ Signal(d) = Signal(e)
      PROVE  SignalsApart
  <2>1. /\ signals \subseteq paused
        /\ \A p \in signals : m_lastEventID'[p] = e
        /\ \A p \in Ports \ signals : m_lastEventID'[p] = m_lastEventID[p]
        /\ \A p \in signals : m_lastEventID[p] = 0 \/ e > m_lastEventID[p] + Gap
    BY <1>1, EventNoted DEF TraceTyped
  <2>2. \A d \in Times : Signal(d) = Signal(e) => d = e
    BY DEF Signal
  <2>3. /\ e \in Nat /\ e > 0 /\ Gap \in Nat
        /\ \A p \in Ports : m_lastEventID[p] \in Nat
    BY <1>1, FabricAssumption DEF TraceTyped
  <2>4. \A p \in Ports \cap signals : m_lastEventID[p] # e
    BY <2>1, <2>3
  <2>5. ASSUME NEW p \in Ports
        PROVE  m_lastEventID'[p] # m_lastEventID[p] =>
                 /\ p \in paused
                 /\ m_lastEventID[p] = 0 \/ m_lastEventID'[p] > m_lastEventID[p] + Gap
    BY <2>1
  <2>6. ASSUME NEW p \in Ports, NEW d \in Times,
               Signal(d) \in ToSet(wire'[p]), Signal(d) \notin ToSet(wire[p])
        PROVE  m_lastEventID'[p] = d /\ m_lastEventID[p] # d
    BY <1>1, <2>1, <2>2, <2>4, <2>6
  <2>7. QED
    BY <2>5, <2>6 DEF SignalsApart
<1>2. ASSUME TraceTyped, [TraceNext]_traceVars PROVE [SignalsApart]_traceVars
  <2>1. ASSUME NEW sender \in Senders, ReceiveSignal(sender) PROVE SignalsApart
    <3>1. PICK e \in Times :
            /\ m_lastEventID' = MarkSignalled(SignalPorts(OutPorts(Peer[sender]), e), e)
            /\ \A s \in Senders : \A m \in ToSet(wire'[s]) :
                 \/ m \in ToSet(wire[s])
                 \/ s \in SignalPorts(OutPorts(Peer[sender]), e) /\ m = Signal(e)
      BY <1>2, <2>1, SignalReceived
    <3> DEFINE signals == SignalPorts(OutPorts(Peer[sender]), e)
    <3>2. \A p \in Ports, d \in Times :
            Signal(d) \in ToSet(wire'[p]) /\ Signal(d) \notin ToSet(wire[p]) =>
              p \in signals /\ Signal(d) = Signal(e)
      BY <3>1 DEF Senders
    <3>3. QED
      BY <1>1, <1>2, <3>1, <3>2
  <2>2. ASSUME NEW sender \in Senders, ReceivePolling(sender) PROVE SignalsApart
    <3>1. PICK e \in Times, f \in Flows, h \in Nat :
            /\ m_lastEventID' = MarkSignalled(SignalPorts({Path[f][h].out}, e), e)
            /\ \A s \in Senders : \A m \in ToSet(wire'[s]) :
                 \/ m \in ToSet(wire[s])
                 \/ /\ s \in SignalPorts({Path[f][h].out}, e)
                    /\ m = Signal(e) /\ ~LeadsToHost(s)
                 \/ s = Path[f][h].out /\ m = Polling(e, f, h + 1) /\ ~LeadsToHost(s)
      BY <1>2, <2>2, PollingReceived
    <3> DEFINE signals == SignalPorts({Path[f][h].out}, e)
    <3>2. \A d \in Times : Signal(d) # Polling(e, f, h + 1)
      BY DEF Signal, Polling
    <3>3. \A p \in Ports, d \in Times :
            Signal(d) \in ToSet(wire'[p]) /\ Signal(d) \notin ToSet(wire[p]) =>
              p \in signals /\ Signal(d) = Signal(e)
      BY <3>1, <3>2 DEF Senders
    <3>4. QED
      BY <1>1, <1>2, <3>1, <3>3
  <2>3. ASSUME NEW f \in Flows, ScheduleAckClock(f) PROVE SignalsApart
    <3>1. m_lastEventID' = m_lastEventID /\ \A p \in Ports : wire'[p] = wire[p]
      BY <1>2, <2>3, FabricAssumption DEF ScheduleAckClock, TraceTyped, Senders
    <3>2. QED
      BY <3>1 DEF SignalsApart
  <2>4. CASE Tick
    BY <2>4 DEF Tick, SignalsApart
  <2>5. CASE UNCHANGED traceVars
    BY <2>5
  <2>6. QED
    BY <1>2, <2>1, <2>2, <2>3, <2>4, <2>5 DEF TraceNext
<1>3. TraceBook => TraceTyped
  BY DEF TraceBook
<1>4. QED
  BY <1>2, <1>3, TracesKept, PTL DEF TraceSpec

-----------------------------------------------------------------------------
(***************************************************************************)
(* The routes of a fabric (Routing).                                       *)
(***************************************************************************)

\* SetToSeq lists every element once.
LEMMA Listed ==
  ASSUME NEW S, IsFiniteSet(S)
  PROVE  /\ SetToSeq(S) \in Seq(S)
         /\ \A x \in S : \E j \in 1..Len(SetToSeq(S)) : SetToSeq(S)[j] = x
         /\ \A j, k \in 1..Len(SetToSeq(S)) : SetToSeq(S)[j] = SetToSeq(S)[k] => j = k
<1> DEFINE n == Cardinality(S)
           list == SetToSeq(S)
<1>1. n \in Nat /\ ExistsBijection(1..n, S)
  BY FS_CardinalityType
<1>2. PICK g \in [1..n -> S] : IsInjective(g)
  <2>1. PICK b : b \in Bijection(1..n, S)
    BY <1>1 DEF ExistsBijection
  <2>2. b \in [1..n -> S] /\ \A j, k \in 1..n : b[j] = b[k] => j = k
    BY <2>1 DEF Bijection, Injection, Surjection, IsInjective
  <2>3. QED
    BY <2>2 DEF IsInjective
<1>3. list \in [1..n -> S] /\ IsInjective(list)
  BY <1>2 DEF SetToSeq
<1> HIDE DEF n, list
<1>4. IsFiniteSet(1..n) /\ Cardinality(1..n) = n
  BY <1>1, FS_Interval
<1>5. list \in Injection(1..n, S)
  BY <1>3 DEF Injection, IsInjective
<1>6. list \in Surjection(1..n, S)
  BY <1>4, <1>5, FS_Injection DEF n
<1>7. list \in Seq(S) /\ Len(list) = n
  BY <1>1, <1>3
<1>8. \A x \in S : \E j \in 1..n : list[j] = x
  BY <1>6 DEF Surjection
<1>9. QED
  BY <1>3, <1>7, <1>8 DEF list, IsInjective

(***************************************************************************)
(* What has been found after i rounds of the search from a host.           *)
(***************************************************************************)
Waypoints(host) == Switches \cup {host}

\* The queue lists each of the nodes found that packets may pass through.
Listing(q, dis, host) ==
  /\ q \in Seq(Waypoints(host))
  /\ \A j, k \in 1..Len(q) : q[j] = q[k] => j = k
  /\ \A n \in Waypoints(host) : n \in DOMAIN dis <=> \E j \in 1..Len(q) : q[j] = n

Distances(dis, host) ==
  /\ dis \in [DOMAIN dis -> Nat] /\ DOMAIN dis \subseteq Nodes
  /\ host \in DOMAIN dis /\ dis[host] = 0

\* It lists them by distance, and nothing found is more than one hop beyond those that
\* have not had their round.
ByDistance(q, dis, i) ==
  /\ \A j, k \in 1..Len(q) : j <= k => dis[q[j]] <= dis[q[k]]
  /\ \A j \in 1..Len(q) : dis[q[j]] < j
  /\ \A j \in 1..Len(q) : j > i => \A n \in DOMAIN dis : dis[n] <= dis[q[j]] + 1

\* The neighbours of those that had their round are found, and nothing else is.
Explored(links, q, dis, i, host) ==
  /\ \A j \in 1..Len(q) : j <= i =>
       \A n \in Neighbours(links, q[j]) : n \in DOMAIN dis /\ dis[n] <= dis[q[j]] + 1
  /\ \A n \in DOMAIN dis \ {host} : \E j \in 1..Len(q) :
       j <= i /\ n \in Neighbours(links, q[j]) /\ dis[n] = dis[q[j]] + 1

\* The node listed at j had its round, in which it was found to be a next hop of n.
HopFound(links, q, dis, i, n, j) ==
  j <= i /\ n \in Neighbours(links, q[j]) /\ dis[n] = dis[q[j]] + 1

HopsFound(links, q, dis, i, hops) ==
  /\ hops \in [Nodes -> SUBSET Nodes]
  /\ \A n \in Nodes : \A m \in Nodes : m \in hops[n] <=>
       \E j \in 1..Len(q) : q[j] = m /\ HopFound(links, q, dis, i, n, j)

Searched(links, host, i, s) ==
  /\ Listing(s.q, s.dis, host) /\ Distances(s.dis, host) /\ ByDistance(s.q, s.dis, i)
  /\ Explored(links, s.q, s.dis, i, host) /\ HopsFound(links, s.q, s.dis, i, s.hops)

SearchStart(host) ==
  [q |-> <<host>>, dis |-> [n \in {host} |-> 0], hops |-> [n \in Nodes |-> {}]]

LEMMA SearchBegins ==
  ASSUME NEW links, NEW host \in Hosts
  PROVE  Searched(links, host, 0, SearchStart(host))
<1> DEFINE q == <<host>>
           dis == [n \in {host} |-> 0]
           hops == [n \in Nodes |-> {}]
<1>1. Len(q) = 1 /\ q[1] = host /\ DOMAIN dis = {host} /\ dis[host] = 0 /\ host \in Nodes
  BY DEF Nodes
<1>2. Listing(q, dis, host) /\ Distances(dis, host)
  BY <1>1 DEF Listing, Distances, Waypoints
<1>3. ByDistance(q, dis, 0) /\ Explored(links, q, dis, 0, host)
  BY <1>1 DEF ByDistance, Explored
<1>4. HopsFound(links, q, dis, 0, hops)
  BY <1>1 DEF HopsFound, HopFound
<1>5. QED
  BY <1>2, <1>3, <1>4 DEF Searched, SearchStart

\* A round of the search.
LEMMA RoundOfSearch ==
  ASSUME NEW links, NEW host \in Hosts, NEW i \in Nat, NEW s, Searched(links, host, i, s),
         i + 1 \in 1..Len(s.q)
  PROVE  Searched(links, host, i + 1, Visit(links, s, s.q[i + 1]))
<1> DEFINE q == s.q
           dis == s.dis
           hops == s.hops
           visited == q[i + 1]
           d == dis[visited]
           nbrs == Neighbours(links, visited)
           new == nbrs \ DOMAIN dis
           more == SetToSeq(Enqueued(new))
           q1 == q \o more
           dis1 == [n \in DOMAIN dis \cup new |-> IF n \in new THEN d + 1 ELSE dis[n]]
           hops1 == [n \in Nodes |-> IF n \in nbrs /\ dis1[n] = d + 1
                                     THEN hops[n] \cup {visited} ELSE hops[n]]
           t == Visit(links, s, visited)
<1>1. t.q = q1 /\ t.dis = dis1 /\ t.hops = hops1
  BY DEF Visit
<1>2. /\ Listing(q, dis, host) /\ Distances(dis, host) /\ ByDistance(q, dis, i)
      /\ Explored(links, q, dis, i, host) /\ HopsFound(links, q, dis, i, hops)
  BY DEF Searched
<1> HIDE DEF q, dis, hops, t
<1>3. /\ q \in Seq(Waypoints(host)) /\ Len(q) \in Nat
      /\ \A j \in 1..Len(q) : q[j] \in Waypoints(host) /\ q[j] \in DOMAIN dis
  <2>1. q \in Seq(Waypoints(host))
    BY <1>2 DEF Listing
  <2>2. \A j \in 1..Len(q) : q[j] \in Waypoints(host)
    BY <2>1
  <2>3. QED
    BY <1>2, <2>1, <2>2 DEF Listing
<1>4. i + 1 \in 1..Len(q) /\ visited \in Waypoints(host) /\ visited \in DOMAIN dis /\ d \in Nat
      /\ visited \in Nodes
  <2>1. i + 1 \in 1..Len(q)
    BY DEF q
  <2>2. QED
    BY <1>2, <1>3, <2>1 DEF Distances
<1>5. new \subseteq Nodes /\ IsFiniteSet(Enqueued(new)) /\ Enqueued(new) \subseteq Switches
  <2>1. new \subseteq Nodes /\ Enqueued(new) \subseteq Nodes
    BY DEF Neighbours, Enqueued
  <2>2. QED
    BY <2>1, TopologyAssumption, FS_Subset DEF Enqueued
<1>6. /\ more \in Seq(Enqueued(new)) /\ Len(more) \in Nat
      /\ \A j \in 1..Len(more) : more[j] \in Enqueued(new)
      /\ \A x \in Enqueued(new) : \E j \in 1..Len(more) : more[j] = x
      /\ \A j, k \in 1..Len(more) : more[j] = more[k] => j = k
  <2> DEFINE E == Enqueued(new)
  <2>1. IsFiniteSet(E)
    BY <1>5
  <2> HIDE DEF E
  <2>2. SetToSeq(E) \in Seq(E)
    BY <2>1, Listed
  <2>3. Len(SetToSeq(E)) \in Nat /\ \A j \in 1..Len(SetToSeq(E)) : SetToSeq(E)[j] \in E
    BY <2>2
  <2>4. /\ \A x \in E : \E j \in 1..Len(SetToSeq(E)) : SetToSeq(E)[j] = x
        /\ \A j, k \in 1..Len(SetToSeq(E)) : SetToSeq(E)[j] = SetToSeq(E)[k] => j = k
    BY <2>1, Listed
  <2>5. QED
    BY <2>2, <2>3, <2>4 DEF E
<1> HIDE DEF more
<1>7. /\ q1 \in Seq(Waypoints(host)) /\ Len(q1) = Len(q) + Len(more)
      /\ \A j \in 1..Len(q) : q1[j] = q[j]
      /\ \A j \in 1..Len(more) : q1[Len(q) + j] = more[j]
  <2> DEFINE W == Waypoints(host)
  <2>1. more \in Seq(W)
    <3>1. Enqueued(new) \subseteq W
      BY <1>5 DEF Waypoints
    <3>2. \A A, B : A \subseteq B /\ more \in Seq(A) => more \in Seq(B)
      OBVIOUS
    <3>3. QED
      BY <1>6, <3>1, <3>2
  <2>2. q \in Seq(W)
    BY <1>3
  <2> HIDE DEF W
  <2>3. q1 \in Seq(W) /\ Len(q1) = Len(q) + Len(more)
    BY <2>1, <2>2
  <2>4. \A j \in 1..Len(q) : q1[j] = q[j]
    BY <2>1, <2>2
  <2>5. \A j \in 1..Len(more) : q1[Len(q) + j] = more[j]
    BY <2>1, <2>2
  <2>6. QED
    BY <2>3, <2>4, <2>5 DEF W
\* A place in the longer queue is one in the old queue, or one in what was added.
<1>8. \A j \in 1..Len(q1) : j \in 1..Len(q) \/ (j > Len(q) /\ j - Len(q) \in 1..Len(more)
                                                  /\ q1[j] = more[j - Len(q)])
  <2> SUFFICES ASSUME NEW j \in 1..Len(q1), j \notin 1..Len(q)
               PROVE  j > Len(q) /\ j - Len(q) \in 1..Len(more) /\ q1[j] = more[j - Len(q)]
    OBVIOUS
  <2>1. j \in Int /\ j > Len(q) /\ j - Len(q) \in 1..Len(more) /\ Len(q) + (j - Len(q)) = j
    BY <1>3, <1>6, <1>7
  <2>2. QED
    BY <1>7, <2>1
<1> HIDE DEF q1
<1>9. /\ DOMAIN dis1 = DOMAIN dis \cup new
      /\ \A n \in DOMAIN dis : n \notin new /\ dis1[n] = dis[n]
      /\ \A n \in new : dis1[n] = d + 1 /\ n \notin DOMAIN dis
  OBVIOUS
<1>10. Distances(dis1, host)
  <2>1. /\ dis \in [DOMAIN dis -> Nat] /\ DOMAIN dis \subseteq Nodes
        /\ host \in DOMAIN dis /\ dis[host] = 0
    BY <1>2 DEF Distances
  <2>2. \A n \in DOMAIN dis1 : dis1[n] \in Nat
    BY <1>4, <1>9, <2>1
  <2>3. dis1 \in [DOMAIN dis1 -> Nat]
    BY <2>2
  <2>4. QED
    BY <1>5, <1>9, <2>1, <2>3 DEF Distances
<1>11. /\ \A n \in DOMAIN dis : dis[n] \in Nat
       /\ \A n \in DOMAIN dis1 : dis1[n] \in Nat
       /\ host \in DOMAIN dis
  BY <1>2, <1>10 DEF Distances
<1> HIDE DEF dis1
\* What was added was not found before, and is one hop beyond the node of this round.
<1>12. \A j \in 1..Len(more) :
          /\ more[j] \in new /\ more[j] \in Switches
          /\ more[j] \notin DOMAIN dis /\ dis1[more[j]] = d + 1
  BY <1>6, <1>9 DEF Enqueued
<1>13. \A j \in 1..Len(q) : dis1[q[j]] = dis[q[j]]
  BY <1>3, <1>9
<1> HIDE DEF new
<1>14. Listing(q1, dis1, host)
  <2>1. ASSUME NEW j \in 1..Len(q1), NEW k \in 1..Len(q1), q1[j] = q1[k] PROVE j = k
    <3>1. \A x \in 1..Len(q1) : q1[x] \in DOMAIN dis <=> x \in 1..Len(q)
      BY <1>3, <1>7, <1>8, <1>12
    <3>2. CASE j \in 1..Len(q) /\ k \in 1..Len(q)
      BY <1>2, <1>7, <2>1, <3>2 DEF Listing
    <3>3. CASE j \in 1..Len(q) /\ k \notin 1..Len(q)
      BY <2>1, <3>1, <3>3
    <3>4. CASE j \notin 1..Len(q) /\ k \in 1..Len(q)
      BY <2>1, <3>1, <3>4
    <3>5. CASE j \notin 1..Len(q) /\ k \notin 1..Len(q)
      <4>1. j - Len(q) = k - Len(q)
        <5>1. /\ j - Len(q) \in 1..Len(more) /\ q1[j] = more[j - Len(q)]
              /\ k - Len(q) \in 1..Len(more) /\ q1[k] = more[k - Len(q)]
          BY <1>8, <2>1, <3>5
        <5>2. QED
          BY <1>6, <2>1, <5>1, Zenon
      <4>2. j \in Int /\ k \in Int /\ Len(q) \in Int
        BY <1>3
      <4>3. QED
        BY <4>1, <4>2
    <3>6. QED
      BY <3>2, <3>3, <3>4, <3>5
  <2>2. ASSUME NEW n \in Waypoints(host), n \in DOMAIN dis1
        PROVE  \E j \in 1..Len(q1) : q1[j] = n
    <3>1. CASE n \in DOMAIN dis
      <4>1. PICK j \in 1..Len(q) : q[j] = n
        BY <1>2, <2>2, <3>1 DEF Listing
      <4>2. j \in 1..Len(q1)
        BY <1>3, <1>6, <1>7
      <4>3. QED
        BY <1>7, <4>1, <4>2
    <3>2. CASE n \in new
      <4>1. n \in Switches
        BY <1>9, <1>11, <2>2, <3>2 DEF Waypoints
      <4>2. n \in Enqueued(new)
        BY <3>2, <4>1 DEF Enqueued
      <4>3. PICK j \in 1..Len(more) : more[j] = n
        BY <1>6, <4>2
      <4>4. Len(q) + j \in 1..Len(q1)
        BY <1>3, <1>6, <1>7
      <4>5. QED
        BY <1>7, <4>3, <4>4
    <3>3. QED
      BY <1>9, <2>2, <3>1, <3>2
  <2>3. ASSUME NEW j \in 1..Len(q1) PROVE q1[j] \in DOMAIN dis1
    <3>1. CASE j \in 1..Len(q)
      <4>1. q1[j] = q[j] /\ q[j] \in DOMAIN dis
        BY <1>3, <1>7, <3>1
      <4>2. QED
        BY <1>9, <4>1
    <3>2. CASE j > Len(q) /\ j - Len(q) \in 1..Len(more) /\ q1[j] = more[j - Len(q)]
      <4>1. q1[j] \in new
        BY <1>12, <3>2
      <4>2. QED
        BY <1>9, <4>1
    <3>3. QED
      BY <1>8, <3>1, <3>2
  <2>4. QED
    BY <1>7, <2>1, <2>2, <2>3 DEF Listing
<1>15. \A n \in DOMAIN dis : dis[n] <= d + 1
  BY <1>2, <1>4 DEF ByDistance
<1>16. \A j \in 1..Len(q) : j > i + 1 => d <= dis[q[j]]
  BY <1>2, <1>4 DEF ByDistance
<1>17. ByDistance(q1, dis1, i + 1)
  <2>1. \A j \in 1..Len(q) : q1[j] = q[j] /\ dis1[q1[j]] = dis[q[j]] /\ dis[q[j]] \in Nat
    BY <1>3, <1>7, <1>11, <1>13
  <2>2. \A j \in 1..Len(q1) : j \notin 1..Len(q) => dis1[q1[j]] = d + 1 /\ j > Len(q)
    BY <1>8, <1>12
  <2>3. ASSUME NEW j \in 1..Len(q1), NEW k \in 1..Len(q1), j <= k
        PROVE  dis1[q1[j]] <= dis1[q1[k]]
    <3>1. CASE k \in 1..Len(q)
      <4>1. j \in 1..Len(q)
        BY <2>3, <3>1, <1>3, <1>7
      <4>2. QED
        BY <1>2, <2>1, <2>3, <3>1, <4>1 DEF ByDistance
    <3>2. CASE k \notin 1..Len(q) /\ j \in 1..Len(q)
      BY <1>3, <1>15, <2>1, <2>2, <3>2
    <3>3. CASE k \notin 1..Len(q) /\ j \notin 1..Len(q)
      BY <1>4, <2>2, <3>3
    <3>4. QED
      BY <3>1, <3>2, <3>3
  <2>4. ASSUME NEW j \in 1..Len(q1) PROVE dis1[q1[j]] < j
    <3>1. CASE j \in 1..Len(q)
      BY <1>2, <2>1, <3>1 DEF ByDistance
    <3>2. CASE j \notin 1..Len(q)
      <4>1. d < i + 1 /\ i + 1 <= Len(q)
        BY <1>2, <1>4 DEF ByDistance
      <4>2. j \in Int /\ j > Len(q) /\ dis1[q1[j]] = d + 1
        BY <1>7, <2>2, <3>2
      <4>3. QED
        BY <1>3, <1>4, <4>1, <4>2
    <3>3. QED
      BY <3>1, <3>2
  <2>5. ASSUME NEW j \in 1..Len(q1), j > i + 1, NEW n \in DOMAIN dis1
        PROVE  dis1[n] <= dis1[q1[j]] + 1
    <3>1. dis1[n] <= d + 1
      BY <1>4, <1>9, <1>15
    <3>2. d <= dis1[q1[j]]
      <4>1. CASE j \in 1..Len(q)
        BY <1>16, <2>1, <2>5, <4>1
      <4>2. CASE j \notin 1..Len(q)
        BY <1>4, <2>2, <4>2
      <4>3. QED
        BY <4>1, <4>2
    <3>3. dis1[q1[j]] \in Nat /\ dis1[n] \in Nat
      <4>1. CASE j \in 1..Len(q)
        BY <1>11, <2>1, <4>1
      <4>2. CASE j \notin 1..Len(q)
        <5>1. dis1[q1[j]] = d + 1
          BY <2>2, <4>2
        <5>2. QED
          BY <1>4, <1>11, <5>1
      <4>3. QED
        BY <4>1, <4>2
    <3>4. QED
      BY <1>4, <3>1, <3>2, <3>3
  <2>6. QED
    BY <2>3, <2>4, <2>5 DEF ByDistance
<1>18. nbrs \subseteq DOMAIN dis1 /\ \A n \in nbrs : dis1[n] <= d + 1
  <2>1. nbrs \subseteq DOMAIN dis1
    BY <1>9 DEF new
  <2>2. QED
    BY <1>4, <1>9, <1>15, <2>1
<1> HIDE DEF nbrs
<1>19. Explored(links, q1, dis1, i + 1, host)
  <2>1. ASSUME NEW j \in 1..Len(q1), j <= i + 1, NEW n \in Neighbours(links, q1[j])
        PROVE  n \in DOMAIN dis1 /\ dis1[n] <= dis1[q1[j]] + 1
    <3>1. j \in 1..Len(q) /\ q1[j] = q[j] /\ dis1[q1[j]] = dis[q[j]]
      <4>1. j \in 1..Len(q)
        BY <1>3, <1>4, <1>7, <2>1
      <4>2. QED
        BY <1>7, <1>13, <4>1
    <3>2. CASE j <= i
      <4>1. n \in DOMAIN dis /\ dis[n] <= dis[q[j]] + 1
        BY <1>2, <2>1, <3>1, <3>2 DEF Explored
      <4>2. QED
        BY <1>9, <3>1, <4>1
    <3>3. CASE j = i + 1
      <4>1. n \in nbrs
        BY <2>1, <3>1, <3>3 DEF nbrs
      <4>2. QED
        BY <1>18, <3>1, <3>3, <4>1
    <3>4. QED
      BY <1>7, <2>1, <3>1, <3>2, <3>3
  <2>2. ASSUME NEW n \in DOMAIN dis1 \ {host}
        PROVE  \E j \in 1..Len(q1) :
                 j <= i + 1 /\ n \in Neighbours(links, q1[j]) /\ dis1[n] = dis1[q1[j]] + 1
    <3>1. \A j \in 1..Len(q) : j \in 1..Len(q1) /\ q1[j] = q[j] /\ dis1[q1[j]] = dis[q[j]]
      BY <1>3, <1>6, <1>7, <1>13
    <3>2. CASE n \in DOMAIN dis
      <4>1. PICK j \in 1..Len(q) :
              j <= i /\ n \in Neighbours(links, q[j]) /\ dis[n] = dis[q[j]] + 1
        BY <1>2, <2>2, <3>2 DEF Explored
      <4>2. j <= i + 1 /\ dis1[n] = dis[n]
        BY <1>3, <1>9, <3>2, <4>1
      <4>3. QED
        BY <3>1, <4>1, <4>2
    <3>3. CASE n \in new
      <4>1. n \in Neighbours(links, q[i + 1]) /\ dis1[n] = d + 1
        BY <1>9, <3>3 DEF new, nbrs
      <4>2. i + 1 <= i + 1
        OBVIOUS
      <4>3. QED
        BY <1>4, <3>1, <4>1, <4>2
    <3>4. QED
      BY <1>9, <2>2, <3>2, <3>3
  <2>3. QED
    BY <2>1, <2>2 DEF Explored
<1>20. HopsFound(links, q1, dis1, i + 1, hops1)
  <2>1. hops \in [Nodes -> SUBSET Nodes]
    BY <1>2 DEF HopsFound
  <2>2. hops1 \in [Nodes -> SUBSET Nodes]
    BY <1>4, <2>1
  <2>3. ASSUME NEW n \in Nodes, NEW m \in Nodes
        PROVE  m \in hops1[n] <=>
                 \E j \in 1..Len(q1) : q1[j] = m /\ HopFound(links, q1, dis1, i + 1, n, j)
    <3>1. m \in hops1[n] <=> m \in hops[n] \/ (m = visited /\ n \in nbrs /\ dis1[n] = d + 1)
      OBVIOUS
    <3>2. m \in hops[n] <=> \E j \in 1..Len(q) : q[j] = m /\ HopFound(links, q, dis, i, n, j)
      BY <1>2 DEF HopsFound
    <3>3. ASSUME NEW j \in 1..Len(q)
          PROVE  /\ j \in 1..Len(q1) /\ q1[j] = q[j]
                 /\ HopFound(links, q1, dis1, i, n, j) <=> HopFound(links, q, dis, i, n, j)
      <4>1. j \in 1..Len(q1) /\ q1[j] = q[j] /\ dis1[q1[j]] = dis[q[j]]
        BY <1>3, <1>6, <1>7, <1>13
      <4>2. j <= i /\ n \in Neighbours(links, q[j]) => dis1[n] = dis[n]
        BY <1>2, <1>9 DEF Explored
      <4>3. QED
        BY <4>1, <4>2 DEF HopFound
    <3>4. /\ i + 1 \in 1..Len(q1) /\ q1[i + 1] = visited
          /\ HopFound(links, q1, dis1, i + 1, n, i + 1) <=> n \in nbrs /\ dis1[n] = d + 1
      <4>1. i + 1 \in 1..Len(q1) /\ q1[i + 1] = visited /\ dis1[visited] = d
        BY <1>3, <1>4, <1>6, <1>7, <1>13
      <4>2. QED
        BY <4>1 DEF HopFound, nbrs
    <3>5. ASSUME NEW j \in 1..Len(q1)
          PROVE  HopFound(links, q1, dis1, i + 1, n, j) <=>
                   \/ j \in 1..Len(q) /\ HopFound(links, q1, dis1, i, n, j)
                   \/ j = i + 1 /\ HopFound(links, q1, dis1, i + 1, n, i + 1)
      <4>1. j \in Int /\ (j <= i + 1 <=> j <= i \/ j = i + 1)
        BY <1>7
      <4>2. j <= i => j \in 1..Len(q)
        BY <1>3, <1>4, <1>7
      <4>3. QED
        BY <4>1, <4>2 DEF HopFound
    <3> HIDE DEF visited, d, hops1
    <3>6. ASSUME m \in hops1[n]
          PROVE  \E j \in 1..Len(q1) : q1[j] = m /\ HopFound(links, q1, dis1, i + 1, n, j)
      <4>1. CASE m \in hops[n]
        BY <3>2, <3>3, <3>5, <4>1
      <4>2. CASE m = visited /\ n \in nbrs /\ dis1[n] = d + 1
        BY <3>4, <4>2
      <4>3. QED
        BY <3>1, <3>6, <4>1, <4>2
    <3>7. ASSUME NEW j \in 1..Len(q1), q1[j] = m, HopFound(links, q1, dis1, i + 1, n, j)
          PROVE  m \in hops1[n]
      <4>1. CASE j \in 1..Len(q) /\ HopFound(links, q1, dis1, i, n, j)
        BY <3>1, <3>2, <3>3, <3>7, <4>1
      <4>2. CASE j = i + 1 /\ HopFound(links, q1, dis1, i + 1, n, i + 1)
        BY <3>1, <3>4, <3>7, <4>2
      <4>3. QED
        BY <3>5, <3>7, <4>1, <4>2
    <3>8. QED
      BY <3>6, <3>7
  <2>4. QED
    BY <2>2, <2>3 DEF HopsFound
<1>21. Searched(links, host, i + 1, t)
  <2>1. t.q = q1 /\ t.dis = dis1 /\ t.hops = hops1
    BY <1>1 DEF q1, dis1, new, nbrs, more
  <2> HIDE DEF hops1
  <2>2. QED
    BY <1>10, <1>14, <1>17, <1>19, <1>20, <2>1 DEF Searched
<1>22. QED
  BY <1>21 DEF t, q
\* The search visits a node a round until its queue is exhausted, which is after as many
\* rounds as there are nodes at the latest.
LEMMA SearchEnds ==
  ASSUME NEW links, NEW host \in Hosts
  PROVE  \E s : /\ CalculateRoute(links, host) = s.hops
                /\ Searched(links, host, Cardinality(Nodes), s)
                /\ Len(s.q) <= Cardinality(Nodes)
<1> DEFINE N == Cardinality(Nodes)
           start == SearchStart(host)
           next(i, s) == IF i > Len(s.q) THEN s ELSE Visit(links, s, s.q[i])
           searches(r) == r = [i \in 0..N |-> IF i = 0 THEN start ELSE next(i, r[i - 1])]
           search == CHOOSE r : searches(r)
<1>1. N \in Nat
  BY TopologyAssumption, FS_CardinalityType
<1>2. CalculateRoute(links, host) = search[N].hops
  BY DEF CalculateRoute, SearchStart
<1> HIDE DEF start, next, N
<1>3. \E r : searches(r)
  <2> DEFINE D == {n \in Nat : \E r : r = [i \in 0..n |-> IF i = 0 THEN start
                                                         ELSE next(i, r[i - 1])]}
  <2>1. 0 \in D
    <3>1. [i \in 0..0 |-> start] = [i \in 0..0 |-> IF i = 0 THEN start
                                    ELSE next(i, [j \in 0..0 |-> start][i - 1])]
      OBVIOUS
    <3>2. QED
      BY <3>1
  <2>2. ASSUME NEW n \in D PROVE n + 1 \in D
    <3>1. PICK r : r = [i \in 0..n |-> IF i = 0 THEN start ELSE next(i, r[i - 1])]
      OBVIOUS
    <3> DEFINE longer == [i \in 0..(n + 1) |-> IF i = n + 1 THEN next(n + 1, r[n]) ELSE r[i]]
    <3>2. ASSUME NEW i \in 0..(n + 1)
          PROVE  longer[i] = IF i = 0 THEN start ELSE next(i, longer[i - 1])
      <4>1. CASE i = n + 1
        <5>1. i # 0 /\ i - 1 = n /\ n \in 0..(n + 1) /\ n # n + 1
          BY <4>1
        <5>2. longer[n] = r[n] /\ longer[i] = next(n + 1, r[n])
          BY <4>1, <5>1
        <5>3. QED
          BY <4>1, <5>1, <5>2
      <4>2. CASE i # n + 1
        <5>1. i \in 0..n /\ longer[i] = r[i]
          BY <4>2
        <5>2. CASE i = 0
          BY <3>1, <5>1, <5>2
        <5>3. CASE i # 0
          <6>1. i - 1 \in 0..(n + 1) /\ i - 1 # n + 1
            BY <5>1, <5>3
          <6>2. longer[i - 1] = r[i - 1]
            BY <6>1
          <6>3. r[i] = next(i, r[i - 1])
            BY <3>1, <5>1, <5>3
          <6>4. QED
            BY <5>1, <5>3, <6>2, <6>3
        <5>4. QED
          BY <5>2, <5>3
      <4>3. QED
        BY <4>1, <4>2
    <3>3. longer = [i \in 0..(n + 1) |-> longer[i]]
      OBVIOUS
    <3> HIDE DEF longer
    <3>4. longer = [i \in 0..(n + 1) |-> IF i = 0 THEN start ELSE next(i, longer[i - 1])]
      BY <3>2, <3>3
    <3>5. n + 1 \in Nat
      OBVIOUS
    <3>6. QED
      BY <3>4, <3>5
  <2>3. D = Nat
    <3>1. D \in SUBSET Nat
      OBVIOUS
    <3> HIDE DEF D
    <3>2. QED
      BY <2>1, <2>2, <3>1, NaturalsByInduction
  <2>4. QED
    BY <1>1, <2>3
<1>4. searches(search)
  <2> HIDE DEF searches
  <2>1. QED
    BY <1>3
<1>5. \A i \in 0..N : search[i] = IF i = 0 THEN start ELSE next(i, search[i - 1])
  <2> HIDE DEF search
  <2>1. QED
    BY <1>4
<1> HIDE DEF search, searches
<1>6. \A i \in 0..N : Searched(links, host, i, search[i])
  <2> DEFINE D == {i \in Nat : i <= N => Searched(links, host, i, search[i])}
  <2>1. 0 \in D
    <3>1. search[0] = start
      BY <1>1, <1>5
    <3>2. QED
      BY <3>1, SearchBegins DEF start
  <2>2. ASSUME NEW i \in D PROVE i + 1 \in D
    <3>1. SUFFICES ASSUME i + 1 <= N PROVE Searched(links, host, i + 1, search[i + 1])
      OBVIOUS
    <3>2. i \in Nat /\ i + 1 \in 0..N /\ i <= N /\ i + 1 # 0 /\ (i + 1) - 1 = i
      BY <1>1, <3>1
    <3> DEFINE s == search[i]
    <3>3. Searched(links, host, i, s) /\ search[i + 1] = next(i + 1, s)
      BY <1>5, <3>2
    <3> HIDE DEF s
    <3>4. s.q \in Seq(Waypoints(host)) /\ Len(s.q) \in Nat
      BY <3>3 DEF Searched, Listing
    <3>5. CASE i + 1 > Len(s.q)
      <4>1. search[i + 1] = s
        BY <3>3, <3>5 DEF next
      <4>2. \A j \in 1..Len(s.q) : (j <= i <=> j <= i + 1) /\ ~(j > i + 1) /\ ~(j > i)
        BY <3>2, <3>4, <3>5
      <4>3. Searched(links, host, i + 1, s)
        BY <3>3, <4>2 DEF Searched, ByDistance, Explored, HopsFound, HopFound
      <4>4. QED
        BY <4>1, <4>3
    <3>6. CASE ~(i + 1 > Len(s.q))
      <4>1. search[i + 1] = Visit(links, s, s.q[i + 1])
        BY <3>3, <3>6 DEF next
      <4>2. i + 1 \in 1..Len(s.q)
        BY <3>2, <3>4, <3>6
      <4>3. QED
        BY <3>2, <3>3, <4>1, <4>2, RoundOfSearch
    <3>7. QED
      BY <3>5, <3>6
  <2>3. D = Nat
    <3>1. D \in SUBSET Nat
      OBVIOUS
    <3> HIDE DEF D
    <3>2. QED
      BY <2>1, <2>2, <3>1, NaturalsByInduction
  <2>4. QED
    BY <1>1, <2>3
<1> DEFINE s == search[N]
<1>7. Searched(links, host, N, s)
  BY <1>1, <1>6
<1> HIDE DEF s
<1>8. Len(s.q) <= N
  <2> DEFINE q == s.q
  <2>1. /\ q \in Seq(Waypoints(host)) /\ \A j, k \in 1..Len(q) : q[j] = q[k] => j = k
    BY <1>7 DEF Searched, Listing
  <2>2. Waypoints(host) \subseteq Nodes
    BY DEF Waypoints, Nodes
  <2> HIDE DEF q
  <2>3. Len(q) \in Nat /\ q \in [1..Len(q) -> Nodes]
    BY <2>1, <2>2
  <2>4. q \in Injection(1..Len(q), Nodes)
    BY <2>1, <2>3 DEF Injection, IsInjective
  <2>5. Cardinality(1..Len(q)) <= N
    BY <2>4, TopologyAssumption, FS_Injection DEF N
  <2>6. Cardinality(1..Len(q)) = Len(q)
    BY <2>3, FS_Interval
  <2>7. QED
    BY <2>5, <2>6 DEF q
<1>9. QED
  BY <1>2, <1>7, <1>8 DEF N, s
\* What a search has found when it ends: the distances from the host along paths through
\* switches, and the next hops of the shortest of them.
Found(links, host, dis, hops) ==
  /\ Distances(dis, host)
  /\ \A n \in DOMAIN dis : dis[n] <= Cardinality(Nodes)
  /\ \A m \in DOMAIN dis \cap Waypoints(host) : \A n \in Neighbours(links, m) :
       n \in DOMAIN dis /\ dis[n] <= dis[m] + 1
  /\ \A n \in DOMAIN dis \ {host} : hops[n] # {}
  /\ \A n \in Nodes, m \in Nodes : m \in hops[n] <=>
       /\ m \in DOMAIN dis \cap Waypoints(host)
       /\ n \in Neighbours(links, m) /\ dis[n] = dis[m] + 1
  /\ hops \in [Nodes -> SUBSET Nodes]

LEMMA RoutesFound ==
  ASSUME NEW links, NEW host \in Hosts
  PROVE  \E dis : Found(links, host, dis, CalculateRoute(links, host))
<1> DEFINE N == Cardinality(Nodes)
           hops == CalculateRoute(links, host)
<1>1. PICK s : hops = s.hops /\ Searched(links, host, N, s) /\ Len(s.q) <= N
  BY SearchEnds
<1> DEFINE q == s.q
           dis == s.dis
<1> HIDE DEF hops
<1>2. /\ Listing(q, dis, host) /\ Distances(dis, host) /\ ByDistance(q, dis, N)
      /\ Explored(links, q, dis, N, host) /\ HopsFound(links, q, dis, N, hops) /\ Len(q) <= N
  BY <1>1 DEF Searched
<1>3. N \in Nat
  BY TopologyAssumption, FS_CardinalityType
<1> HIDE DEF N, q, dis
<1>4. \A n \in DOMAIN dis : dis[n] \in Nat /\ n \in Nodes
  BY <1>2 DEF Distances
<1>5. \A j \in 1..Len(q) : j <= N /\ q[j] \in DOMAIN dis \cap Waypoints(host) /\ dis[q[j]] < j
  <2>1. q \in Seq(Waypoints(host)) /\ Len(q) \in Nat
    BY <1>2 DEF Listing
  <2>2. \A j \in 1..Len(q) : q[j] \in Waypoints(host)
    BY <2>1
  <2>3. \A j \in 1..Len(q) : j <= N
    BY <1>2, <1>3, <2>1
  <2>4. QED
    BY <1>2, <2>2, <2>3 DEF Listing, ByDistance
<1>6. \A n \in DOMAIN dis \cap Waypoints(host) : \E j \in 1..Len(q) : q[j] = n
  BY <1>2 DEF Listing
<1>7. ASSUME NEW m \in DOMAIN dis \cap Waypoints(host), NEW n \in Neighbours(links, m)
      PROVE  n \in DOMAIN dis /\ dis[n] <= dis[m] + 1
  <2>1. PICK j \in 1..Len(q) : q[j] = m
    BY <1>6
  <2>2. j <= N
    BY <1>5
  <2>3. QED
    BY <1>2, <2>1, <2>2 DEF Explored
<1>8. ASSUME NEW n \in DOMAIN dis \ {host}
      PROVE  \E j \in 1..Len(q) : HopFound(links, q, dis, N, n, j)
  BY <1>2 DEF Explored, HopFound
<1>9. ASSUME NEW n \in DOMAIN dis PROVE dis[n] <= N
  <2>1. CASE n = host
    BY <1>2, <1>3, <2>1 DEF Distances
  <2>2. CASE n # host
    <3>1. PICK j \in 1..Len(q) : HopFound(links, q, dis, N, n, j)
      BY <1>8, <2>2
    <3>2. dis[n] = dis[q[j]] + 1 /\ dis[q[j]] < j /\ j <= N /\ dis[q[j]] \in Nat /\ j \in Int
      BY <1>4, <1>5, <3>1 DEF HopFound
    <3>3. QED
      BY <1>3, <3>2
  <2>3. QED
    BY <2>1, <2>2
<1>10. ASSUME NEW n \in DOMAIN dis \ {host} PROVE hops[n] # {}
  <2>1. PICK j \in 1..Len(q) : HopFound(links, q, dis, N, n, j)
    BY <1>8
  <2>2. q[j] \in Nodes /\ n \in Nodes
    BY <1>4, <1>5
  <2>3. q[j] \in hops[n]
    BY <1>2, <2>1, <2>2 DEF HopsFound
  <2>4. QED
    BY <2>3
<1>11. ASSUME NEW n \in Nodes, NEW m \in Nodes
       PROVE  m \in hops[n] <=>
                /\ m \in DOMAIN dis \cap Waypoints(host)
                /\ n \in Neighbours(links, m) /\ dis[n] = dis[m] + 1
  <2>1. m \in hops[n] <=> \E j \in 1..Len(q) : q[j] = m /\ HopFound(links, q, dis, N, n, j)
    BY <1>2 DEF HopsFound
  <2>2. \A j \in 1..Len(q) : q[j] = m =>
          (HopFound(links, q, dis, N, n, j) <=> n \in Neighbours(links, m) /\ dis[n] = dis[m] + 1)
    BY <1>5 DEF HopFound
  <2>3. m \in DOMAIN dis \cap Waypoints(host) <=> \E j \in 1..Len(q) : q[j] = m
    BY <1>5, <1>6
  <2>4. QED
    BY <2>1, <2>2, <2>3
<1>12. hops \in [Nodes -> SUBSET Nodes]
  BY <1>2 DEF HopsFound
<1>13. Found(links, host, dis, hops)
  BY <1>2, <1>7, <1>9, <1>10, <1>11, <1>12 DEF Found, N
<1>14. QED
  BY <1>13 DEF hops

\* The reference definition is what the search computes: the nodes within k hops.
LEMMA WithinFound ==
  ASSUME NEW links, NEW host \in Hosts, NEW dis, NEW hops, Found(links, host, dis, hops)
  PROVE  /\ DOMAIN Within(links, host) = 0..Cardinality(Nodes)
         /\ \A k \in 0..Cardinality(Nodes) : \A n : n \in Within(links, host)[k] <=>
              n \in DOMAIN dis /\ dis[n] <= k
<1> DEFINE further(before) ==
             before \cup {n \in Nodes : \E m \in before \cap (Switches \cup {host}) :
                                          {n, m} \in links}
           start == {host}
           step == [some \in SUBSET Nodes |-> further(some)]
           nears(r) == r = [k \in Nat |-> IF k = 0 THEN start ELSE further(r[k - 1])]
           near == CHOOSE r : nears(r)
<1>1. Within(links, host) = [k \in 0..Cardinality(Nodes) |-> near[k]]
  BY DEF Within
<1>2. start \in SUBSET Nodes
  BY DEF Nodes
<1>3. \A some \in SUBSET Nodes : further(some) \in SUBSET Nodes
  OBVIOUS
<1>4. \A some \in SUBSET Nodes : \A n : n \in further(some) <=>
         n \in some \/ (n \in Nodes /\ \E m \in some \cap Waypoints(host) : {n, m} \in links)
  BY DEF Waypoints
<1> HIDE DEF start, further
<1>5. PICK g : g \in [Nat -> SUBSET Nodes] /\ g[0] = start
               /\ \A n \in Nat : g[n + 1] = further(g[n])
  <2> DEFINE all == SUBSET Nodes
  <2>1. start \in all /\ step \in [all -> all]
    BY <1>2, <1>3
  <2>2. \A some \in all : step[some] = further(some)
    OBVIOUS
  <2> HIDE DEF step, all
  <2>3. PICK g : Iterates(g, all, start, step)
    BY <2>1, IteratesExist
  <2>4. g \in [Nat -> all] /\ g[0] = start /\ \A n \in Nat : g[n + 1] = step[g[n]]
    BY <2>3 DEF Iterates
  <2>5. \A n \in Nat : g[n] \in all
    BY <2>4
  <2>6. QED
    BY <2>2, <2>4, <2>5 DEF all
<1>6. nears(g)
  <2>1. ASSUME NEW k \in Nat PROVE g[k] = IF k = 0 THEN start ELSE further(g[k - 1])
    <3>1. CASE k # 0
      <4>1. k - 1 \in Nat /\ (k - 1) + 1 = k
        BY <3>1
      <4>2. QED
        BY <1>5, <3>1, <4>1
    <3>2. QED
      BY <1>5, <3>1
  <2>2. g = [k \in Nat |-> g[k]]
    BY <1>5
  <2>3. QED
    BY <2>1, <2>2
<1>7. nears(near)
  <2> HIDE DEF nears
  <2>1. QED
    BY <1>6
<1>8. \A k \in Nat : near[k] = IF k = 0 THEN start ELSE further(near[k - 1])
  <2> HIDE DEF near
  <2>1. QED
    BY <1>7
<1> HIDE DEF near, nears
<1>9. /\ \A n \in DOMAIN dis : dis[n] \in Nat /\ n \in Nodes
      /\ host \in DOMAIN dis /\ dis[host] = 0
  BY DEF Found, Distances
<1>10. ASSUME NEW n \in DOMAIN dis, dis[n] = 0 PROVE n = host
  <2>1. SUFFICES ASSUME n # host PROVE FALSE
    OBVIOUS
  <2>2. PICK m : m \in hops[n]
    BY <2>1 DEF Found
  <2>3. m \in Nodes /\ n \in Nodes
    BY <1>9, <2>2 DEF Found
  <2>4. m \in DOMAIN dis /\ dis[n] = dis[m] + 1
    BY <2>2, <2>3 DEF Found
  <2>5. dis[m] \in Nat
    BY <1>9, <2>4
  <2>6. QED
    BY <1>10, <2>4, <2>5
<1> DEFINE Inside(k) == {n \in DOMAIN dis : dis[n] <= k}
<1>11. \A k \in Nat : near[k] = Inside(k)
  <2> DEFINE D == {k \in Nat : near[k] = Inside(k)}
  <2>1. 0 \in D
    <3>1. near[0] = {host}
      BY <1>8 DEF start
    <3>2. Inside(0) = {host}
      BY <1>9, <1>10
    <3>3. QED
      BY <3>1, <3>2
  <2>2. ASSUME NEW k \in D PROVE k + 1 \in D
    <3>1. k + 1 \in Nat /\ k \in Nat /\ k + 1 # 0 /\ (k + 1) - 1 = k
      OBVIOUS
    <3>2. near[k + 1] = further(Inside(k))
      BY <1>8, <3>1
    <3>3. Inside(k) \in SUBSET Nodes
      BY <1>9
    <3>4. ASSUME NEW n PROVE n \in further(Inside(k)) <=> n \in Inside(k + 1)
      <4>1. n \in further(Inside(k)) <=>
              \/ n \in Inside(k)
              \/ n \in Nodes /\ \E m \in Inside(k) \cap Waypoints(host) : {n, m} \in links
        BY <1>4, <3>3
      <4>2. n \in Inside(k) => n \in Inside(k + 1)
        BY <1>9, <3>1
      <4>3. ASSUME n \in Nodes, NEW m \in Inside(k) \cap Waypoints(host), {n, m} \in links
            PROVE  n \in Inside(k + 1)
        <5>1. n \in Neighbours(links, m)
          <6>1. {m, n} = {n, m}
            OBVIOUS
          <6>2. QED
            BY <4>3, <6>1 DEF Neighbours
        <5>2. m \in DOMAIN dis \cap Waypoints(host)
          OBVIOUS
        <5>3. n \in DOMAIN dis /\ dis[n] <= dis[m] + 1
          BY <5>1, <5>2 DEF Found
        <5>4. dis[m] <= k /\ dis[m] \in Nat /\ dis[n] \in Nat
          BY <1>9, <5>2, <5>3
        <5>5. QED
          BY <3>1, <5>3, <5>4
      <4>4. ASSUME n \in Inside(k + 1), n \notin Inside(k)
            PROVE  n \in Nodes /\ \E m \in Inside(k) \cap Waypoints(host) : {n, m} \in links
        <5>1. n \in DOMAIN dis /\ dis[n] = k + 1 /\ n \in Nodes
          BY <1>9, <3>1, <4>4
        <5>2. n # host
          BY <1>9, <3>1, <5>1
        <5>3. PICK m : m \in hops[n]
          BY <5>1, <5>2 DEF Found
        <5>4. m \in Nodes
          BY <5>1, <5>3 DEF Found
        <5>5. m \in DOMAIN dis \cap Waypoints(host) /\ n \in Neighbours(links, m)
              /\ dis[n] = dis[m] + 1
          BY <5>1, <5>3, <5>4 DEF Found
        <5>6. dis[m] <= k
          BY <1>9, <3>1, <5>1, <5>5
        <5>7. {n, m} \in links
          <6>1. {m, n} = {n, m}
            OBVIOUS
          <6>2. QED
            BY <5>5, <6>1 DEF Neighbours
        <5>8. QED
          BY <5>1, <5>5, <5>6, <5>7
      <4>5. QED
        BY <4>1, <4>2, <4>3, <4>4
    <3> HIDE DEF Inside
    <3>5. near[k + 1] = Inside(k + 1)
      BY <3>2, <3>4
    <3>6. QED
      BY <3>1, <3>5
  <2>3. D = Nat
    <3>1. D \in SUBSET Nat
      OBVIOUS
    <3> HIDE DEF D
    <3>2. QED
      BY <2>1, <2>2, <3>1, NaturalsByInduction
  <2>4. QED
    BY <2>3
<1>12. \A k \in 0..Cardinality(Nodes) : k \in Nat /\ Within(links, host)[k] = near[k]
  BY <1>1
<1>13. QED
  BY <1>1, <1>11, <1>12
LEMMA NeighboursMutual ==
  ASSUME NEW links, NEW m \in Nodes, NEW n \in Nodes
  PROVE  m \in Neighbours(links, n) <=> n \in Neighbours(links, m)
<1>1. {m, n} = {n, m}
  OBVIOUS
<1>2. QED
  BY <1>1 DEF Neighbours

\* The next hops of a node are its neighbours nearer to the host, and a node from which the
\* host can be reached has one.
LEMMA HopsShortest ==
  ASSUME NEW links, NEW host \in Hosts, NEW n \in Nodes
  PROVE  /\ CalculateRoute(links, host)[n] =
              {m \in Neighbours(links, n) \cap Waypoints(host) :
                 \E k \in 0..Cardinality(Nodes) :
                   m \in Within(links, host)[k] /\ n \notin Within(links, host)[k]}
         /\ Reachable(links, n, host) /\ n # host => CalculateRoute(links, host)[n] # {}
<1> DEFINE N == Cardinality(Nodes)
           hops == CalculateRoute(links, host)
           within == Within(links, host)
           nearer == {m \in Neighbours(links, n) \cap Waypoints(host) :
                        \E k \in 0..N : m \in within[k] /\ n \notin within[k]}
<1>1. PICK dis : Found(links, host, dis, hops)
  BY RoutesFound
<1>2. /\ DOMAIN within = 0..N
      /\ \A k \in 0..N : \A x : x \in within[k] <=> x \in DOMAIN dis /\ dis[x] <= k
  BY <1>1, WithinFound
<1>3. N \in Nat
  BY TopologyAssumption, FS_CardinalityType
<1>4. Reachable(links, n, host) <=> n \in within[N]
  BY DEF Reachable
<1> HIDE DEF hops, within, N
<1>5. /\ \A x \in DOMAIN dis : dis[x] \in Nat /\ dis[x] <= N /\ x \in Nodes
      /\ hops \in [Nodes -> SUBSET Nodes]
  BY <1>1 DEF Found, Distances, N
<1>6. ASSUME NEW m \in hops[n] PROVE m \in nearer
  <2>1. m \in Nodes
    BY <1>5
  <2>2. m \in DOMAIN dis \cap Waypoints(host) /\ n \in Neighbours(links, m) /\ dis[n] = dis[m] + 1
    BY <1>1, <1>6, <2>1 DEF Found
  <2>3. m \in Neighbours(links, n)
    BY <2>1, <2>2, NeighboursMutual
  <2>4. dis[m] \in 0..N /\ dis[m] <= dis[m] /\ ~(dis[n] <= dis[m])
    BY <1>3, <1>5, <2>2
  <2>5. m \in within[dis[m]] /\ n \notin within[dis[m]]
    BY <1>2, <2>2, <2>4
  <2>6. QED
    BY <2>2, <2>3, <2>4, <2>5
<1>7. ASSUME NEW m \in nearer PROVE m \in hops[n]
  <2>1. PICK k \in 0..N : m \in within[k] /\ n \notin within[k]
    BY <1>7
  <2>2. m \in Neighbours(links, n) \cap Waypoints(host) /\ m \in Nodes
    BY <1>7 DEF Neighbours
  <2>3. n \in Neighbours(links, m)
    BY <2>2, NeighboursMutual
  <2>4. m \in DOMAIN dis /\ dis[m] <= k
    BY <1>2, <2>1
  <2>5. n \in DOMAIN dis /\ dis[n] <= dis[m] + 1
    BY <1>1, <2>2, <2>3, <2>4 DEF Found
  <2>6. ~(dis[n] <= k)
    BY <1>2, <2>1, <2>5
  <2>7. dis[n] = dis[m] + 1
    BY <1>3, <1>5, <2>4, <2>5, <2>6
  <2>8. QED
    BY <1>1, <2>2, <2>3, <2>4, <2>7 DEF Found
<1>8. hops[n] = nearer
  BY <1>6, <1>7
<1>9. ASSUME n \in within[N], n # host PROVE hops[n] # {}
  <2>1. N \in 0..N
    BY <1>3
  <2>2. n \in DOMAIN dis
    BY <1>2, <1>9, <2>1
  <2>3. QED
    BY <1>1, <1>9, <2>2 DEF Found
<1>10. QED
  BY <1>4, <1>8, <1>9 DEF hops, within, N

(***************************************************************************)
(* The tables are those of the links that are up, and a packet that is on  *)
(* its way to a host is on its way to its own.                             *)
(***************************************************************************)
Places ==
  {Nowhere, Delivered, Dropped}
    \cup {Between(from, to, dst) : from \in Nodes, to \in Nodes, dst \in Hosts}

\* No host forwards what is meant for another: the search never goes through one.
NoHostInBetween ==
  \A p \in Packets : OnItsWay(p) /\ packet[p].to \in Hosts => packet[p].to = packet[p].dst

RoutesBook ==
  /\ nextHop = CalculateRoutes(Empty, up)
  /\ m_rtTable = SetRoutingEntries(Empty, nextHop)
  /\ packet \in [Packets -> Places]
  /\ NoHostInBetween

LEMMA TableEntries ==
  ASSUME RoutesBook, NEW n \in Nodes, NEW h \in Hosts
  PROVE  m_rtTable[n][h] = CalculateRoute(up, h)[n]
<1>1. nextHop[n][h] = CalculateRoute(up, h)[n]
  BY DEF RoutesBook, CalculateRoutes, Empty
<1>2. m_rtTable[n][h] = Empty[n][h] \cup nextHop[n][h]
  BY DEF RoutesBook, SetRoutingEntries
<1>3. QED
  BY <1>1, <1>2 DEF Empty

\* What is known of a packet on its way.
LEMMA PacketSent ==
  ASSUME RoutesBook, NEW p \in Packets, OnItsWay(p)
  PROVE  /\ packet[p].from \in Nodes /\ packet[p].to \in Nodes /\ packet[p].dst \in Hosts
         /\ packet[p].to \in Hosts => packet[p].to = packet[p].dst
<1>1. packet[p] \in Places
  BY DEF RoutesBook
<1>2. packet[p] \notin {Nowhere, Delivered, Dropped}
  BY DEF OnItsWay, Nowhere, Delivered, Dropped
<1>3. PICK from \in Nodes, to \in Nodes, dst \in Hosts : packet[p] = Between(from, to, dst)
  BY <1>1, <1>2 DEF Places
<1>4. packet[p].from = from /\ packet[p].to = to /\ packet[p].dst = dst
  BY <1>3 DEF Between
<1>5. QED
  BY <1>4 DEF RoutesBook, NoHostInBetween

\* A next hop for a host is a switch or the host.
LEMMA NextHops ==
  ASSUME RoutesBook, NEW n \in Nodes, NEW h \in Hosts, NEW m \in m_rtTable[n][h]
  PROVE  m \in Nodes /\ (m \in Hosts => m = h)
<1>1. m \in Neighbours(up, n) \cap Waypoints(h)
  BY TableEntries, HopsShortest
<1>2. QED
  BY <1>1, TopologyAssumption DEF Neighbours, Waypoints

LEMMA PacketStates ==
  /\ Nowhere.state # "sent" /\ Delivered.state # "sent" /\ Dropped.state # "sent"
  /\ \A from, to, dst : /\ Between(from, to, dst).state = "sent"
                        /\ Between(from, to, dst).to = to
                        /\ Between(from, to, dst).dst = dst
                        /\ Between(from, to, dst) # Dropped
  /\ Delivered # Dropped
BY DEF Nowhere, Delivered, Dropped, Between

\* A packet that is put on a link by a table.
LEMMA PutOnLink ==
  ASSUME RoutesBook, NEW p \in Packets, NEW n \in Nodes, NEW h \in Hosts,
         NEW m \in m_rtTable[n][h], packet' = [packet EXCEPT ![p] = Between(n, m, h)]
  PROVE  packet' \in [Packets -> Places] /\ NoHostInBetween'
<1>1. m \in Nodes /\ (m \in Hosts => m = h)
  BY NextHops
<1>2. Between(n, m, h) \in Places /\ packet \in [Packets -> Places]
  BY <1>1 DEF Places, RoutesBook
<1>3. packet' \in [Packets -> Places]
  BY <1>2
<1>4. packet'[p] = Between(n, m, h) /\ \A o \in Packets \ {p} : packet'[o] = packet[o]
  BY <1>2
<1>5. packet'[p].to = m /\ packet'[p].dst = h
  BY <1>4, PacketStates
<1>6. NoHostInBetween'
  BY <1>1, <1>4, <1>5 DEF NoHostInBetween, RoutesBook, OnItsWay
<1>7. QED
  BY <1>3, <1>6

\* Packets that are taken off the links.
LEMMA TakenOff ==
  ASSUME RoutesBook, packet' \in [Packets -> Places],
         \A p \in Packets : packet'[p] \in {packet[p], Delivered, Dropped}
  PROVE  NoHostInBetween'
BY PacketStates DEF NoHostInBetween, RoutesBook, OnItsWay

LEMMA RoutesBegin == Init => RoutesBook
<1> SUFFICES ASSUME Init PROVE RoutesBook
  OBVIOUS
<1>1. packet \in [Packets -> Places] /\ \A p \in Packets : packet[p] = Nowhere
  BY DEF Init, Places
<1>2. NoHostInBetween
  BY <1>1, PacketStates DEF NoHostInBetween, OnItsWay
<1>3. QED
  BY <1>1, <1>2 DEF Init, RoutesBook

LEMMA StepKeepsRoutes == RoutesBook /\ [Next]_vars => RoutesBook'
<1> SUFFICES ASSUME RoutesBook, [Next]_vars PROVE RoutesBook'
  OBVIOUS
<1>1. packet \in [Packets -> Places] /\ Delivered \in Places /\ Dropped \in Places
  BY DEF RoutesBook, Places
<1>2. ASSUME NEW a \in Nodes, NEW b \in Nodes, TakeDownLink(a, b) PROVE RoutesBook'
  <2>1. nextHop' = CalculateRoutes(Empty, up') /\ m_rtTable' = SetRoutingEntries(Empty, nextHop')
    BY <1>2 DEF TakeDownLink, Cleared
  <2>2. /\ packet' \in [Packets -> Places]
        /\ \A p \in Packets : packet'[p] \in {packet[p], Delivered, Dropped}
    <3>1. packet' = [p \in Packets |-> IF p \in Emptied(a, b) THEN Dropped ELSE packet[p]]
      BY <1>2 DEF TakeDownLink
    <3>2. QED
      BY <1>1, <3>1
  <2>3. NoHostInBetween'
    BY <2>2, TakenOff
  <2>4. QED
    BY <2>1, <2>2, <2>3 DEF RoutesBook, Empty
<1>3. ASSUME UNCHANGED <<up, nextHop, m_rtTable>>, packet' \in [Packets -> Places], NoHostInBetween'
      PROVE  RoutesBook'
  BY <1>3 DEF RoutesBook
<1>4. ASSUME NEW p \in Packets, NEW src \in Hosts, NEW dst \in Hosts, Send(p, src, dst)
      PROVE  RoutesBook'
  <2>1. PICK m \in m_rtTable[src][dst] : packet' = [packet EXCEPT ![p] = Between(src, m, dst)]
    BY <1>4 DEF Send
  <2>2. src \in Nodes
    BY DEF Nodes
  <2>3. packet' \in [Packets -> Places] /\ NoHostInBetween'
    BY <2>1, <2>2, PutOnLink
  <2>4. QED
    BY <1>3, <1>4, <2>3 DEF Send
<1>5. ASSUME NEW p \in Packets, packet' \in {[packet EXCEPT ![p] = Delivered],
                                             [packet EXCEPT ![p] = Dropped]}
      PROVE  packet' \in [Packets -> Places] /\ NoHostInBetween'
  <2>1. /\ packet' \in [Packets -> Places]
        /\ \A o \in Packets : packet'[o] \in {packet[o], Delivered, Dropped}
    BY <1>1, <1>5
  <2>2. QED
    BY <2>1, TakenOff
<1>6. ASSUME NEW p \in Packets, SendToDev(p) PROVE RoutesBook'
  <2>1. packet[p].to \in Nodes /\ packet[p].dst \in Hosts
    BY <1>6, PacketSent DEF SendToDev
  <2>2. CASE \E m \in m_rtTable[packet[p].to][packet[p].dst] :
               packet' = [packet EXCEPT ![p] = Between(packet[p].to, m, packet[p].dst)]
    <3>1. packet' \in [Packets -> Places] /\ NoHostInBetween'
      BY <2>1, <2>2, PutOnLink
    <3>2. QED
      BY <1>3, <1>6, <3>1 DEF SendToDev
  <2>3. CASE packet' = [packet EXCEPT ![p] = Dropped]
    BY <1>3, <1>5, <1>6, <2>3 DEF SendToDev
  <2>4. QED
    BY <1>6, <2>2, <2>3 DEF SendToDev
<1>7. ASSUME NEW p \in Packets, Receive(p) PROVE RoutesBook'
  BY <1>3, <1>5, <1>7 DEF Receive
<1>8. CASE UNCHANGED vars
  BY <1>8 DEF vars, RoutesBook, NoHostInBetween, OnItsWay
<1>9. QED
  BY <1>2, <1>4, <1>6, <1>7, <1>8 DEF Next

THEOREM RoutesKept == Spec => []RoutesBook
<1>1. Init => RoutesBook
  BY RoutesBegin
<1>2. RoutesBook /\ [Next]_vars => RoutesBook'
  BY StepKeepsRoutes
<1>3. QED
  BY <1>1, <1>2, PTL DEF Spec

\* In every state, after every failure, the tables of all nodes hold exactly the first hops
\* of the shortest paths over the links that are up.
THEOREM TablesAreShortest == Spec => []TablesShortest
<1>1. ASSUME RoutesBook PROVE TablesShortest
  <2> SUFFICES ASSUME NEW h \in Hosts, NEW n \in Nodes \ {h}
               PROVE  LET within == Within(up, h)
                      IN  m_rtTable[n][h] =
                            {m \in Neighbours(up, n) \cap (Switches \cup {h}) :
                               \E k \in DOMAIN within : m \in within[k] /\ n \notin within[k]}
    BY DEF TablesShortest
  <2>1. DOMAIN Within(up, h) = 0..Cardinality(Nodes)
    BY DEF Within
  <2>2. m_rtTable[n][h] = CalculateRoute(up, h)[n]
    BY <1>1, TableEntries
  <2>3. m_rtTable[n][h] =
          {m \in Neighbours(up, n) \cap Waypoints(h) :
             \E k \in 0..Cardinality(Nodes) : m \in Within(up, h)[k] /\ n \notin Within(up, h)[k]}
    BY <2>2, HopsShortest
  <2>4. QED
    BY <2>1, <2>3, Zenon DEF Waypoints
<1>2. QED
  BY <1>1, RoutesKept, PTL

\* A packet is dropped only with the link it is on, or where no path is left to its host.
THEOREM LostNowhereElse == Spec => LostOnlyIfCutOff
<1> DEFINE lost(p) == OnItsWay(p) /\ packet'[p] = Dropped
           excused(p) == \/ {packet[p].from, packet[p].to} \in up \ up'
                         \/ ~Reachable(up, packet[p].to, packet[p].dst)
<1>1. ASSUME RoutesBook, [Next]_vars
      PROVE  [\A p \in Packets : lost(p) => excused(p)]_vars
  <2> SUFFICES ASSUME ~UNCHANGED vars, NEW p \in Packets, OnItsWay(p), packet'[p] = Dropped
               PROVE  excused(p)
    OBVIOUS
  <2>1. packet[p] # Dropped /\ packet \in [Packets -> Places]
    BY <1>1, PacketStates DEF OnItsWay, RoutesBook
  <2>2. ASSUME NEW a \in Nodes, NEW b \in Nodes, TakeDownLink(a, b) PROVE excused(p)
    <3>1. p \in Emptied(a, b) /\ {a, b} \in up \ up'
      BY <2>1, <2>2 DEF TakeDownLink
    <3>2. QED
      BY <3>1 DEF Emptied
  <2>3. ASSUME NEW o \in Packets, NEW src \in Hosts, NEW dst \in Hosts, Send(o, src, dst)
        PROVE  FALSE
    <3>1. PICK m : packet' = [packet EXCEPT ![o] = Between(src, m, dst)]
      BY <2>3 DEF Send
    <3>2. QED
      BY <2>1, <3>1, PacketStates
  <2>4. ASSUME NEW o \in Packets, SendToDev(o) PROVE excused(p)
    <3>1. o = p
      BY <2>1, <2>4 DEF SendToDev
    <3>2. packet[p].to \in Nodes /\ packet[p].dst \in Hosts /\ packet[p].to \in Switches
      BY <1>1, <2>4, <3>1, PacketSent DEF SendToDev
    <3>3. m_rtTable[packet[p].to][packet[p].dst] = {}
      <4>1. SUFFICES
              ASSUME NEW m,
                     packet' = [packet EXCEPT ![p] = Between(packet[p].to, m, packet[p].dst)]
              PROVE  FALSE
        BY <2>4, <3>1 DEF SendToDev
      <4>2. QED
        BY <2>1, <4>1, PacketStates
    <3>4. packet[p].to # packet[p].dst
      BY <3>2, TopologyAssumption
    <3>5. QED
      BY <1>1, <3>2, <3>3, <3>4, TableEntries, HopsShortest
  <2>5. ASSUME NEW o \in Packets, Receive(o) PROVE FALSE
    BY <2>1, <2>5, PacketStates DEF Receive
  <2>6. QED
    BY <1>1, <2>2, <2>3, <2>4, <2>5 DEF Next
<1>2. QED
  BY <1>1, RoutesKept, PTL DEF Spec, LostOnlyIfCutOff

\* What a packet sent to one host reaches is never another: where it is forwarded there is
\* a switch, and where a host receives it, it is its own.
THEOREM HostsGetTheirOwn == Spec => []NoHostInBetween
<1>1. RoutesBook => NoHostInBetween
  BY DEF RoutesBook
<1>2. QED
  BY <1>1, RoutesKept, PTL

\* A switch forwards a packet to a node that is nearer to its host over the links that are
\* up at that moment, so between two failures no packet can circulate.
ComesCloser ==
  \A p \in Packets : OnItsWay(p) /\ OnItsWay(p)' /\ packet'[p] # packet[p] =>
    /\ packet'[p].dst = packet[p].dst
    /\ \E k \in 0..Cardinality(Nodes) :
         /\ packet'[p].to \in Within(up, packet[p].dst)[k]
         /\ packet[p].to \notin Within(up, packet[p].dst)[k]

THEOREM EveryHopCloser == Spec => [][ComesCloser]_vars
<1>1. ASSUME RoutesBook, [Next]_vars PROVE [ComesCloser]_vars
  <2> SUFFICES ASSUME NEW p \in Packets, OnItsWay(p), OnItsWay(p)', packet'[p] # packet[p]
               PROVE  /\ packet'[p].dst = packet[p].dst
                      /\ \E k \in 0..Cardinality(Nodes) :
                           /\ packet'[p].to \in Within(up, packet[p].dst)[k]
                           /\ packet[p].to \notin Within(up, packet[p].dst)[k]
    BY DEF ComesCloser
  <2>1. packet'[p] # Dropped /\ packet'[p] # Delivered /\ packet[p] # Nowhere
        /\ packet \in [Packets -> Places]
    BY <1>1, PacketStates DEF OnItsWay, RoutesBook
  <2>2. ASSUME NEW a \in Nodes, NEW b \in Nodes, TakeDownLink(a, b) PROVE FALSE
    BY <2>1, <2>2 DEF TakeDownLink
  <2>3. ASSUME NEW o \in Packets, NEW src \in Hosts, NEW dst \in Hosts, Send(o, src, dst)
        PROVE  FALSE
    BY <2>1, <2>3 DEF Send
  <2>4. ASSUME NEW o \in Packets, Receive(o) PROVE FALSE
    BY <2>1, <2>4 DEF Receive
  <2>5. ASSUME NEW o \in Packets, SendToDev(o)
        PROVE  /\ packet'[p].dst = packet[p].dst
               /\ \E k \in 0..Cardinality(Nodes) :
                    /\ packet'[p].to \in Within(up, packet[p].dst)[k]
                    /\ packet[p].to \notin Within(up, packet[p].dst)[k]
    <3>1. o = p
      BY <2>1, <2>5 DEF SendToDev
    <3> DEFINE here == packet[p].to
               dst == packet[p].dst
    <3>2. here \in Nodes /\ dst \in Hosts
      BY <1>1, PacketSent
    <3>3. PICK m \in m_rtTable[here][dst] : packet' = [packet EXCEPT ![p] = Between(here, m, dst)]
      BY <2>1, <2>5, <3>1 DEF SendToDev
    <3>4. packet'[p].to = m /\ packet'[p].dst = dst
      BY <2>1, <3>3, PacketStates
    <3> HIDE DEF here, dst
    <3>5. m \in CalculateRoute(up, dst)[here]
      BY <1>1, <3>2, <3>3, TableEntries
    <3>6. \E k \in 0..Cardinality(Nodes) :
            m \in Within(up, dst)[k] /\ here \notin Within(up, dst)[k]
      BY <3>2, <3>5, HopsShortest
    <3>7. QED
      BY <3>4, <3>6 DEF here, dst
  <2>6. QED
    BY <1>1, <2>2, <2>3, <2>4, <2>5 DEF Next, vars
<1>2. QED
  BY <1>1, RoutesKept, PTL DEF Spec
==============================================================================
