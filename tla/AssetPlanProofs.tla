--------------------------- MODULE AssetPlanProofs ---------------------------
(* What CpuTopology's functions return for every topology and reservation,   *)
(* and the invariants of AssetPlan for any assets, pools and requests.       *)
EXTENDS AssetPlan, FiniteSetTheorems, FunctionTheorems, SequenceTheorems, TLAPS

(* Products over the naturals.                                               *)
LEMMA TimesNat == ASSUME NEW a \in Nat, NEW b \in Nat PROVE a * b \in Nat
  BY SMT

LEMMA TimesMonotone ==
  ASSUME NEW a \in Nat, NEW b \in Nat, NEW c \in Nat, a <= b
  PROVE  a * c <= b * c
  BY SMT

(* The last thread of the last core of a socket comes before the next.       *)
LEMMA WithinBlock ==
  ASSUME NEW blocks \in Nat, NEW size \in Nat, NEW b \in 0 .. blocks - 1, NEW i \in 0 .. size - 1
  PROVE  b * size + i \in 0 .. blocks * size - 1
<1>1. (b + 1) * size <= blocks * size
  BY TimesMonotone
<1>2. (b + 1) * size = b * size + size
  BY SMT
<1>3. b * size \in Nat /\ blocks * size \in Nat
  BY TimesNat
<1> QED BY <1>1, <1>2, <1>3, SMT

(* Different positions have different ids.                                   *)
LEMMA BlocksApart ==
  ASSUME NEW size \in Nat, NEW b \in Nat, NEW c \in Nat,
         NEW i \in 0 .. size - 1, NEW j \in 0 .. size - 1,
         b * size + i = c * size + j
  PROVE  b = c /\ i = j
<1>1. b * size \in Nat /\ c * size \in Nat
  BY TimesNat
<1>2. ~(b < c)
  <2> SUFFICES ASSUME b < c PROVE FALSE
    OBVIOUS
  <2>1. (b + 1) * size <= c * size
    BY TimesMonotone
  <2>2. (b + 1) * size = b * size + size
    BY SMT
  <2> QED BY <1>1, <2>1, <2>2, SMT
<1>3. ~(c < b)
  <2> SUFFICES ASSUME c < b PROVE FALSE
    OBVIOUS
  <2>1. (c + 1) * size <= b * size
    BY TimesMonotone
  <2>2. (c + 1) * size = c * size + size
    BY SMT
  <2> QED BY <1>1, <2>1, <2>2, SMT
<1> QED BY <1>1, <1>2, <1>3, SMT

(* CpuId numbers the CPUs of a machine: within range (cpu_topology.py:26-35)  *)
LEMMA CpuIdInRange ==
  ASSUME NEW t \in Topology, NEW s \in 0 .. t.sockets - 1, NEW i \in 0 .. t.cores - 1,
         NEW k \in 0 .. t.threads - 1
  PROVE  CpuId(t, s, i, k) \in 0 .. LogicalCpus(t) - 1
<1> DEFINE physical == t.sockets * t.cores
           core == s * t.cores + i
<1>1. t.sockets \in Nat /\ t.cores \in Nat /\ t.threads \in Nat
  BY DEF Topology
<1>2. core \in 0 .. physical - 1
  BY <1>1, WithinBlock
<1>3. physical \in Nat
  BY <1>1, TimesNat
<1> HIDE DEF core, physical
<1>4. k * physical + core \in 0 .. t.threads * physical - 1
  BY <1>1, <1>2, <1>3, WithinBlock
<1>5. k * physical + core = core + physical * k /\ t.threads * physical = physical * t.threads
  BY <1>1, <1>2, <1>3, SMT
<1> QED BY <1>4, <1>5 DEF CpuId, LogicalCpus, core, physical

(* and one to one.                                                           *)
THEOREM CpuIdsAreDistinct ==
  ASSUME NEW t \in Topology,
         NEW s \in 0 .. t.sockets - 1, NEW i \in 0 .. t.cores - 1, NEW k \in 0 .. t.threads - 1,
         NEW u \in 0 .. t.sockets - 1, NEW j \in 0 .. t.cores - 1, NEW l \in 0 .. t.threads - 1,
         CpuId(t, s, i, k) = CpuId(t, u, j, l)
  PROVE  s = u /\ i = j /\ k = l
<1> DEFINE physical == t.sockets * t.cores
           first == s * t.cores + i
           second == u * t.cores + j
<1>1. t.sockets \in Nat /\ t.cores \in Nat /\ t.threads \in Nat
  BY DEF Topology
<1>2. first \in 0 .. physical - 1 /\ second \in 0 .. physical - 1
  BY <1>1, WithinBlock
<1>3. physical \in Nat
  BY <1>1, TimesNat
<1>4. first + physical * k = second + physical * l
  BY DEF CpuId
<1> HIDE DEF first, second, physical
<1>5. k * physical + first = l * physical + second
  BY <1>1, <1>2, <1>3, <1>4, SMT
<1>6. k = l /\ first = second
  BY <1>1, <1>2, <1>3, <1>5, BlocksApart
<1>7. s = u /\ i = j
  BY <1>1, <1>6, BlocksApart DEF first, second
<1> QED BY <1>6, <1>7

(* A reservation that is not refused names CPUs of the machine only, for      *)
(* every topology (cpu_topology.py:17-37).                                   *)
THEOREM ReservedInRange ==
  ASSUME NEW t \in Topology, NEW perSocket \in Nat, Reservable(t, perSocket)
  PROVE  ReservedCpus(t, perSocket) \subseteq 0 .. LogicalCpus(t) - 1
<1>1. SUFFICES ASSUME NEW s \in 0 .. t.sockets - 1, NEW i \in 0 .. perSocket - 1,
                      NEW k \in 0 .. t.threads - 1
               PROVE  CpuId(t, s, i, k) \in 0 .. LogicalCpus(t) - 1
  BY DEF ReservedCpus
<1>2. t.cores \in Nat
  BY DEF Topology
<1>3. i \in 0 .. t.cores - 1
  BY <1>2 DEF Reservable
<1> QED BY <1>3, CpuIdInRange

LEMMA DivisionFits ==
  ASSUME NEW a \in Nat, NEW b \in Nat \ {0}
  PROVE  /\ a \div b \in Nat
         /\ b * (a \div b) <= a
         /\ b <= a => a \div b # 0
  BY SMT

LEMMA ParsedFits ==
  ASSUME NEW count \in Nat
  PROVE  /\ ParsedTopology(count) \in Topology
         /\ LogicalCpus(ParsedTopology(count)) <= count
<1>1. count \div 2 \in Nat /\ 2 * (count \div 2) <= count
  BY SMT
<1> QED BY <1>1, SMT DEF ParsedTopology, Topology, LogicalCpus

(* With no whole core of a socket to be had from the inventory's own count,   *)
(* the cores of the other source stay; that fits one socket only.            *)
LEMMA EnrichedFits ==
  ASSUME NEW count \in Nat, NEW n \in {0, count}, NEW m \in {0, count}, NEW known \in Nat
  PROVE  LET t == EnrichedTopology(ParsedTopology(n), m, known)
         IN  t \in Topology /\ ((known > 1 /\ m < 2 * known) \/ LogicalCpus(t) <= count)
<1> DEFINE sockets == IF known # 0 THEN known ELSE 1
           base == n \div 2
           perSocket == m \div (sockets * 2)
           cores == IF perSocket # 0 THEN perSocket ELSE base
           t == EnrichedTopology(ParsedTopology(n), m, known)
<1>0. n \in Nat /\ m \in Nat /\ n <= count /\ m <= count
  OBVIOUS
<1>1. sockets \in Nat \ {0} /\ sockets * 2 \in Nat \ {0}
  OBVIOUS
<1>2. t = [sockets |-> sockets, cores |-> cores, threads |-> 2]
  BY DEF EnrichedTopology, ParsedTopology
<1>3. base \in Nat /\ 2 * base <= n
  BY <1>0, DivisionFits
<1>4. sockets = 1 \/ known > 1
  OBVIOUS
<1>5. sockets * 2 <= m \/ known <= 1 \/ m < 2 * known
  BY <1>0
<1> HIDE DEF sockets, base
<1>6. /\ perSocket \in Nat /\ (sockets * 2) * perSocket <= m
      /\ sockets * 2 <= m => perSocket # 0
  BY <1>0, <1>1, DivisionFits
<1> HIDE DEF perSocket
<1>7. t \in Topology
  BY <1>1, <1>2, <1>3, <1>6 DEF Topology
<1>8. LogicalCpus(t) = (sockets * 2) * cores
  <2>1. cores \in Nat
    BY <1>3, <1>6
  <2> HIDE DEF cores, t
  <2> QED BY <1>1, <1>2, <2>1, SMT DEF LogicalCpus
<1>9. (known > 1 /\ m < 2 * known) \/ (sockets * 2) * cores <= count
  <2>1. CASE perSocket # 0
    <3>1. cores = perSocket
      BY <2>1
    <3>2. (sockets * 2) * cores <= m
      BY <1>6, <3>1
    <3>3. (sockets * 2) * cores \in Nat
      BY <1>1, <1>6, <3>1, TimesNat
    <3> HIDE DEF cores
    <3> QED BY <1>0, <3>2, <3>3
  <2>2. CASE perSocket = 0 /\ sockets = 1
    BY <1>0, <1>3, <2>2
  <2>3. CASE perSocket = 0 /\ sockets # 1
    BY <1>4, <1>5, <1>6, <2>3
  <2> QED BY <2>1, <2>2, <2>3
<1> HIDE DEF cores
<1> QED BY <1>7, <1>8, <1>9 DEF t

(* Whichever report of a machine a topology comes from, it never has more     *)
(* CPUs than were counted, unless the inventory's sockets stand beside cores  *)
(* that were counted for a single one (introspection.py:64-72, 85-98, 135).   *)
THEOREM ReportsFit ==
  ASSUME NEW count \in Nat, NEW sockets \in Nat \ {0}, NEW r \in Reports(count, sockets)
  PROVE  /\ r.topology \in Topology
         /\ r.mixed \/ LogicalCpus(r.topology) <= count
<1>1. ASSUME NEW n \in {0, count}, r = [topology |-> ParsedTopology(n), mixed |-> FALSE]
      PROVE  r.topology \in Topology /\ (r.mixed \/ LogicalCpus(r.topology) <= count)
  <2>1. n \in Nat /\ n <= count /\ r.topology = ParsedTopology(n)
    BY <1>1
  <2>2. ParsedTopology(n) \in Topology /\ LogicalCpus(ParsedTopology(n)) <= n
    BY <2>1, ParsedFits
  <2>3. LogicalCpus(ParsedTopology(n)) \in Nat
    BY <2>2, TimesNat DEF LogicalCpus, Topology
  <2> QED BY <2>1, <2>2, <2>3
<1>2. ASSUME NEW n \in {0, count}, NEW m \in {0, count}, NEW k \in {0, sockets},
             r = [topology |-> EnrichedTopology(ParsedTopology(n), m, k),
                  mixed |-> k > 1 /\ m < 2 * k]
      PROVE  r.topology \in Topology /\ (r.mixed \/ LogicalCpus(r.topology) <= count)
  <2>1. r.topology = EnrichedTopology(ParsedTopology(n), m, k) /\ r.mixed = (k > 1 /\ m < 2 * k)
    BY <1>2
  <2>2. k \in Nat
    OBVIOUS
  <2> QED BY <2>1, <2>2, EnrichedFits
<1> QED BY <1>1, <1>2 DEF Reports

(* The exception is real: with an inventory that gives the sockets and no     *)
(* count, the topology of every machine of several sockets exceeds it         *)
(* (introspection.py:93-98, 135, against "fall back gracefully", line 88).    *)
THEOREM GuessedCoresExceed ==
  ASSUME NEW count \in Nat, 2 <= count, NEW sockets \in Nat, 2 <= sockets
  PROVE  LogicalCpus(EnrichedTopology(ParsedTopology(count), 0, sockets)) > count
<1> DEFINE half == count \div 2
           t == EnrichedTopology(ParsedTopology(count), 0, sockets)
<1>1. half \in Nat /\ count <= 2 * half + 1 /\ half # 0
  OBVIOUS
<1>2. sockets * 2 \in Nat \ {0} /\ 0 \div (sockets * 2) = 0
  BY SMT
<1>3. t = [sockets |-> sockets, cores |-> half, threads |-> 2]
  BY <1>2 DEF EnrichedTopology, ParsedTopology
<1> HIDE DEF half, t
<1>4. LogicalCpus(t) = (sockets * half) * 2
  BY <1>3 DEF LogicalCpus
<1>5. 2 * half <= sockets * half /\ sockets * half \in Nat
  BY <1>1, TimesMonotone, TimesNat
<1> QED BY <1>1, <1>4, <1>5 DEF t

(* What the BareMetalHost configuration reserves on a machine, from whichever *)
(* report of it that does not mix two sources, are CPU numbers the machine    *)
(* has (cpu_topology.py:17-37, introspection.py:58-98).                       *)
THEOREM ReservationsNameRealCpus ==
  ASSUME NEW count \in Nat, NEW sockets \in Nat \ {0},
         NEW r \in Reports(count, sockets), ~ r.mixed,
         NEW perSocket \in Nat, Reservable(r.topology, perSocket)
  PROVE  ReservedCpus(r.topology, perSocket) \subseteq 0 .. count - 1
<1>1. r.topology \in Topology /\ LogicalCpus(r.topology) <= count
  BY ReportsFit
<1>2. ReservedCpus(r.topology, perSocket) \subseteq 0 .. LogicalCpus(r.topology) - 1
  BY <1>1, ReservedInRange
<1>3. LogicalCpus(r.topology) \in Nat
  BY <1>1, TimesNat DEF LogicalCpus, Topology
<1> QED BY <1>1, <1>2, <1>3

-----------------------------------------------------------------------------
(* Counting. *)

(* The least element of a set of positions: Min is it. The sets of positions  *)
(* up to an element are well-founded under inclusion.                        *)
LEMMA LeastPosition ==
  ASSUME NEW n \in Nat, NEW S \in SUBSET (1 .. n), S # {}
  PROVE  Min(S) \in S /\ \A j \in S : Min(S) <= j
<1> DEFINE Beginnings == { 1 .. i : i \in S }
<1>1. Beginnings \subseteq FiniteSubsetsOf(1 .. n) /\ Beginnings # {}
  <2>1. ASSUME NEW i \in S PROVE 1 .. i \in SUBSET (1 .. n) /\ IsFiniteSet(1 .. i)
    BY FS_Interval
  <2> QED BY <2>1 DEF FiniteSubsetsOf
<1>2. IsWellFoundedOn(StrictSubsetOrdering(1 .. n), FiniteSubsetsOf(1 .. n))
  BY FS_StrictSubsetOrderingWellFounded
<1>3. PICK X \in Beginnings : \A Y \in Beginnings : <<Y, X>> \notin StrictSubsetOrdering(1 .. n)
  <2> HIDE DEF Beginnings
  <2> QED BY <1>1, <1>2, WFMin
<1>4. PICK i \in S : X = 1 .. i
  OBVIOUS
<1>5. \A j \in S : i <= j
  <2> SUFFICES ASSUME NEW j \in S, j < i PROVE FALSE
    OBVIOUS
  <2>1. 1 .. j \subseteq 1 .. i /\ i \in 1 .. i /\ i \notin 1 .. j
    OBVIOUS
  <2>2. 1 .. j \in SUBSET (1 .. n) /\ 1 .. i \in SUBSET (1 .. n)
    OBVIOUS
  <2>3. <<1 .. j, 1 .. i>> \in StrictSubsetOrdering(1 .. n)
    BY <2>1, <2>2 DEF StrictSubsetOrdering
  <2> QED BY <1>3, <1>4, <2>3
<1> QED BY <1>5 DEF Min

LEMMA FirstNumbers ==
  ASSUME NEW n \in Nat
  PROVE  IsFiniteSet(0 .. n - 1) /\ Cardinality(0 .. n - 1) = n
<1>1. IsFiniteSet(0 .. n - 1) /\ Cardinality(0 .. n - 1) = IF 0 > n - 1 THEN 0 ELSE (n - 1) - 0 + 1
  BY FS_Interval
<1> QED BY <1>1

(* A reservation has as many CPUs as reserved_cpu_count says                  *)
(* (cpu_topology.py:44-45).                                                  *)
LEMMA ReservedCardinality ==
  ASSUME NEW t \in Topology, NEW r \in Nat, Reservable(t, r)
  PROVE  /\ IsFiniteSet(ReservedCpus(t, r))
         /\ Cardinality(ReservedCpus(t, r)) = ReservedCount(t, r)
<1> DEFINE Sockets == 0 .. t.sockets - 1
           Cores == 0 .. r - 1
           Threads == 0 .. t.threads - 1
           Positions == (Sockets \X Cores) \X Threads
           id == [x \in Positions |-> CpuId(t, x[1][1], x[1][2], x[2])]
<1>1. t.sockets \in Nat /\ t.cores \in Nat /\ t.threads \in Nat /\ r <= t.cores
  BY DEF Topology, Reservable
<1>2. /\ IsFiniteSet(Sockets) /\ Cardinality(Sockets) = t.sockets
      /\ IsFiniteSet(Cores) /\ Cardinality(Cores) = r
      /\ IsFiniteSet(Threads) /\ Cardinality(Threads) = t.threads
  BY <1>1, FirstNumbers
<1>3. Cores \subseteq 0 .. t.cores - 1
  BY <1>1
<1>4. IsFiniteSet(Positions) /\ Cardinality(Positions) = (t.sockets * r) * t.threads
  <2> HIDE DEF Sockets, Cores, Threads
  <2>1. IsFiniteSet(Sockets \X Cores) /\ Cardinality(Sockets \X Cores) = t.sockets * r
    BY <1>2, FS_Product
  <2> QED BY <1>2, <2>1, FS_Product
<1>5. id \in [Positions -> ReservedCpus(t, r)]
  BY DEF ReservedCpus
<1>6. \A n \in ReservedCpus(t, r) : \E x \in Positions : id[x] = n
  <2> TAKE n \in ReservedCpus(t, r)
  <2>0. PICK s \in Sockets, i \in Cores, k \in Threads : n = CpuId(t, s, i, k)
    BY DEF ReservedCpus
  <2>1. <<<<s, i>>, k>> \in Positions
    OBVIOUS
  <2>2. id[<<<<s, i>>, k>>] = CpuId(t, s, i, k)
    BY <2>1
  <2> QED BY <2>0, <2>1, <2>2
<1>7. \A x, y \in Positions : id[x] = id[y] => x = y
  <2> SUFFICES ASSUME NEW x \in Positions, NEW y \in Positions, id[x] = id[y] PROVE x = y
    OBVIOUS
  <2>1. CpuId(t, x[1][1], x[1][2], x[2]) = CpuId(t, y[1][1], y[1][2], y[2])
    OBVIOUS
  <2>2. /\ x[1][1] \in Sockets /\ x[1][2] \in 0 .. t.cores - 1 /\ x[2] \in Threads
        /\ y[1][1] \in Sockets /\ y[1][2] \in 0 .. t.cores - 1 /\ y[2] \in Threads
    BY <1>3
  <2>3. x[1][1] = y[1][1] /\ x[1][2] = y[1][2] /\ x[2] = y[2]
    BY <2>1, <2>2, CpuIdsAreDistinct
  <2> QED BY <2>3
<1> HIDE DEF id, Positions
<1>8. ExistsBijection(Positions, ReservedCpus(t, r))
  <2>1. id \in Bijection(Positions, ReservedCpus(t, r))
    BY <1>5, <1>6, <1>7, Fun_IsBij
  <2> QED BY <2>1 DEF ExistsBijection
<1>9. /\ IsFiniteSet(ReservedCpus(t, r))
      /\ Cardinality(ReservedCpus(t, r)) = Cardinality(Positions)
  BY <1>4, <1>8, FS_Bijection
<1> QED BY <1>4, <1>9 DEF ReservedCount

(* and isolated_cpu_count is what it leaves over (cpu_topology.py:48-53).      *)
LEMMA IsolatedCardinality ==
  ASSUME NEW t \in Topology, NEW r \in Nat, Reservable(t, r)
  PROVE  IsolatedCount(t, r) = Cardinality((0 .. LogicalCpus(t) - 1) \ ReservedCpus(t, r))
<1> DEFINE all == 0 .. LogicalCpus(t) - 1
<1>1. LogicalCpus(t) \in Nat
  BY TimesNat DEF LogicalCpus, Topology
<1>2. IsFiniteSet(all) /\ Cardinality(all) = LogicalCpus(t)
  BY <1>1, FirstNumbers
<1>3. all \cap ReservedCpus(t, r) = ReservedCpus(t, r)
  BY ReservedInRange
<1> HIDE DEF all
<1>4. Cardinality(all \ ReservedCpus(t, r)) = Cardinality(all) - Cardinality(ReservedCpus(t, r))
  BY <1>2, <1>3, FS_Difference
<1> QED BY <1>2, <1>4, ReservedCardinality DEF IsolatedCount, all

(* Positions split into classes are as many as the pairs of a class and a     *)
(* number up to its size.                                                    *)
ClassOf(S, class, c) == { i \in S : class[i] = c }
Numbered(C, size) == UNION { {c} \X (1 .. size[c]) : c \in C }

LEMMA CountByClass ==
  ASSUME NEW S, IsFiniteSet(S), NEW C, NEW class \in [S -> C], NEW size,
         \A c \in C : size[c] = Cardinality(ClassOf(S, class, c))
  PROVE  Cardinality(Numbered(C, size)) = Cardinality(S)
<1> DEFINE Class(c) == { i \in S : class[i] = c }
           Numbers(c) == 1 .. size[c]
           pairs == UNION { {c} \X (Numbers(c)) : c \in C }
           number == [c \in C |-> CHOOSE b : b \in Bijection(Class(c), Numbers(c))]
           name == [i \in S |-> <<class[i], number[class[i]][i]>>]
<1>1. ASSUME NEW c \in C
      PROVE  number[c] \in Bijection(Class(c), Numbers(c))
  <2>1. IsFiniteSet(Class(c))
    BY FS_Subset
  <2>2. ExistsBijection(Numbers(c), Class(c))
    <3> HIDE DEF Class
    <3>1. size[c] = Cardinality(Class(c))
      BY DEF Class, ClassOf
    <3> QED BY <2>1, <3>1, FS_CardinalityType
  <2>3. PICK b : b \in Bijection(Numbers(c), Class(c))
    BY <2>2 DEF ExistsBijection
  <2>4. Inverse(b, Numbers(c), Class(c)) \in Bijection(Class(c), Numbers(c))
    <3> HIDE DEF Class, Numbers
    <3> QED BY <2>3, Fun_BijInverse
  <2> HIDE DEF Class, Numbers
  <2> QED BY <2>4
<1> HIDE DEF number
<1>2. ASSUME NEW i \in S
      PROVE  /\ name[i] \in pairs
             /\ i \in Class(class[i]) /\ class[i] \in C
  <2>1. i \in Class(class[i]) /\ class[i] \in C
    OBVIOUS
  <2>2. number[class[i]] \in [Class(class[i]) -> Numbers(class[i])]
    <3> HIDE DEF Class, Numbers, name, pairs
    <3>1. number[class[i]] \in Bijection(Class(class[i]), Numbers(class[i]))
      BY <1>1, <2>1
    <3> QED BY <3>1, Fun_BijectionProperties
  <2>3. number[class[i]][i] \in Numbers(class[i])
    BY <2>1, <2>2
  <2> QED BY <2>1, <2>3
<1>3. name \in [S -> pairs]
  BY <1>2
<1>4. \A x, y \in S : name[x] = name[y] => x = y
  <2> SUFFICES ASSUME NEW x \in S, NEW y \in S, name[x] = name[y] PROVE x = y
    OBVIOUS
  <2>1. class[x] = class[y] /\ number[class[x]][x] = number[class[x]][y]
    OBVIOUS
  <2>2. x \in Class(class[x]) /\ y \in Class(class[x]) /\ class[x] \in C
    BY <2>1
  <2>3. number[class[x]] \in Bijection(Class(class[x]), Numbers(class[x]))
    BY <1>1, <2>2
  <2> HIDE DEF Class, Numbers, name, pairs
  <2> QED BY <2>1, <2>2, <2>3, Fun_BijectionProperties
<1>5. \A z \in pairs : \E i \in S : name[i] = z
  <2> TAKE z \in pairs
  <2>0. PICK c \in C : z \in {c} \X (Numbers(c))
    OBVIOUS
  <2>4. PICK k \in Numbers(c) : z = <<c, k>>
    BY <2>0
  <2>1. number[c] \in Bijection(Class(c), Numbers(c))
    BY <1>1
  <2>2. PICK i \in Class(c) : number[c][i] = k
    <3> HIDE DEF Class, Numbers, name, pairs
    <3>1. \A t \in Numbers(c) : \E i \in Class(c) : number[c][i] = t
      BY <2>1, Fun_BijectionProperties
    <3> QED BY <3>1
  <2>3. i \in S /\ class[i] = c
    OBVIOUS
  <2> QED BY <2>2, <2>3, <2>4
<1> HIDE DEF name, pairs
<1>6. name \in Bijection(S, pairs)
  BY <1>3, <1>4, <1>5, Fun_IsBij
<1>7. ExistsBijection(S, pairs)
  BY <1>6 DEF ExistsBijection
<1> QED BY <1>7, FS_Bijection DEF pairs, Numbers, Numbered

-----------------------------------------------------------------------------
(* Types. *)

LinkRows == [pool : Pools, asset : Assets, role : {"worker", "control-plane"},
             reserved : Reservations, override : {<<>>} \cup Overrides]

(* The rows of one asset: what TypeOK says of them.                          *)
AssetRow == [free : BOOLEAN, topology : Topology, nics : NicLists, bmc : BOOLEAN,
             source : {"entered", "reported", "mixed"}]

LEMMA LinksTyped ==
  ASSUME TypeOK
  PROVE  /\ Len(links) \in Nat /\ DOMAIN links = 1 .. Len(links)
         /\ \A i \in DOMAIN links : links[i] \in LinkRows
         /\ IsFiniteSet(DOMAIN links) /\ Cardinality(DOMAIN links) = Len(links)
<1>1. links \in Seq(LinkRows)
  BY DEF TypeOK, LinkRows
<1>0. Len(links) \in Nat
  BY <1>1, LenProperties
<1>2. links \in [1 .. Len(links) -> LinkRows]
  BY <1>1, LenProperties
<1>3. IsFiniteSet(1 .. Len(links)) /\ Cardinality(1 .. Len(links)) = Len(links)
  <2>1. PICK n \in Nat : n = Len(links)
    BY <1>0
  <2>2. /\ IsFiniteSet(1 .. n)
        /\ Cardinality(1 .. n) = IF 1 > n THEN 0 ELSE n - 1 + 1
    BY FS_Interval
  <2>3. (IF 1 > n THEN 0 ELSE n - 1 + 1) = n
    OBVIOUS
  <2> QED BY <2>1, <2>2, <2>3
<1> QED BY <1>0, <1>2, <1>3

(* The members of a pool, and of the control plane, are positions; a pool in  *)
(* use has a first member (asset_planner.py:242-256).                        *)
LEMMA MembersTyped ==
  ASSUME TypeOK, NEW members \in SUBSET DOMAIN links
  PROVE  /\ IsFiniteSet(members) /\ Cardinality(members) \in Nat
         /\ members # {} => Min(members) \in members
<1>1. IsFiniteSet(members) /\ Cardinality(members) \in Nat
  BY LinksTyped, FS_Subset, FS_CardinalityType
<1>2. members # {} => Min(members) \in members
  BY LinksTyped, LeastPosition
<1> QED BY <1>1, <1>2

LEMMA PoolMembers ==
  /\ ControlPlaneMembers \in SUBSET DOMAIN links
  /\ \A p \in PoolsInUse : Members(p) \in SUBSET DOMAIN links /\ Members(p) # {}
  BY DEF ControlPlaneMembers, Members, PoolsInUse

LEMMA InitTyped == Init => TypeOK
<1> SUFFICES ASSUME Init PROVE TypeOK
  OBVIOUS
<1>1. declared \in Nat /\ MaxLinks \in Nat
  BY MachineConstants DEF Init
<1>2. {<<>>} \cup RoleChoices \subseteq NicLists
  BY EmptySeq, RoleConstants DEF NicLists
<1>3. {DefaultTopology} \cup Entered \subseteq Topology
  BY MachineConstants DEF DefaultTopology, Topology
<1>4. row \in [Assets -> AssetRow]
  <2> DEFINE New(t, n, b) == [free |-> TRUE, topology |-> t, source |-> "entered",
                              nics |-> n, bmc |-> b]
  <2>1. row \in [Assets -> { New(t, n, b) : t \in {DefaultTopology} \cup Entered,
                                            n \in {<<>>} \cup RoleChoices, b \in BOOLEAN }]
    BY DEF Init
  <2>2. ASSUME NEW t \in {DefaultTopology} \cup Entered, NEW n \in {<<>>} \cup RoleChoices,
               NEW b \in BOOLEAN
        PROVE  New(t, n, b) \in AssetRow
    <3>1. t \in Topology /\ n \in NicLists
      BY <1>2, <1>3
    <3> QED BY <3>1 DEF AssetRow
  <2> HIDE DEF New
  <2>3. { New(t, n, b) : t \in {DefaultTopology} \cup Entered,
                         n \in {<<>>} \cup RoleChoices, b \in BOOLEAN } \subseteq AssetRow
    BY <2>2
  <2> QED BY <2>1, <2>3
<1>5. links \in Seq(LinkRows) /\ Len(links) = 0
  BY EmptySeq DEF Init
<1> QED BY <1>1, <1>4, <1>5 DEF Init, TypeOK, LinkRows, AssetRow

LEMMA FreshTyped ==
  ASSUME NEW a \in Assets
  PROVE  Fresh(a) \in NicLists
<1>1. Machine[a].nics \in Nat
  BY MachineConstants
<1>2. Fresh(a) \in [1 .. Machine[a].nics -> NicRoles \cup {"unassigned"}]
  BY DEF Fresh
<1> QED BY <1>1, <1>2, SeqDef DEF NicLists

LEMMA ReportTyped ==
  ASSUME NEW a \in Assets, NEW r \in Reports(Machine[a].count, Machine[a].sockets)
  PROVE  r.topology \in Topology
<1>1. Machine[a].count \in Nat /\ Machine[a].sockets \in Nat \ {0}
  BY MachineConstants
<1> QED BY <1>1, ReportsFit

LEMMA SyncTyped ==
  ASSUME TypeOK, NEW a \in Assets, SyncFromIronic(a)
  PROVE  TypeOK'
<1>1. row \in [Assets -> AssetRow]
  BY DEF TypeOK, AssetRow
<1>2. PICK r \in Reports(Machine[a].count, Machine[a].sockets) :
         row' = [row EXCEPT ![a] = Synced(a, r)]
  BY DEF SyncFromIronic
<1>3. Synced(a, r) \in AssetRow
  BY <1>1, FreshTyped, ReportTyped DEF AssetRow, Synced
<1>4. row' \in [Assets -> AssetRow]
  BY <1>1, <1>2, <1>3
<1>5. reused' \subseteq Assets
  BY DEF SyncFromIronic, TypeOK, Assigned
<1>6. UNCHANGED <<provider, declared, links>>
  BY DEF SyncFromIronic
<1> QED BY <1>4, <1>5, <1>6 DEF TypeOK, AssetRow

LEMMA UpdateTyped ==
  ASSUME TypeOK, NEW a \in Assets, UpdateAsset(a)
  PROVE  TypeOK'
<1>1. row \in [Assets -> AssetRow]
  BY DEF TypeOK, AssetRow
<1>2. row' \in [Assets -> AssetRow]
  <2>1. ASSUME NEW roles \in RoleChoices, row' = [row EXCEPT ![a].nics = roles]
        PROVE  row' \in [Assets -> AssetRow]
    BY <1>1, <2>1, RoleConstants DEF AssetRow
  <2>2. ASSUME NEW b \in BOOLEAN, row' = [row EXCEPT ![a].bmc = b]
        PROVE  row' \in [Assets -> AssetRow]
    BY <1>1, <2>2 DEF AssetRow
  <2>3. ASSUME NEW free \in BOOLEAN, row' = [row EXCEPT ![a].free = free]
        PROVE  row' \in [Assets -> AssetRow]
    BY <1>1, <2>3 DEF AssetRow
  <2> QED BY <2>1, <2>2, <2>3 DEF UpdateAsset
<1>3. reused' \subseteq Assets
  BY DEF UpdateAsset, TypeOK, Assigned
<1>4. UNCHANGED <<provider, declared, links>>
  BY DEF UpdateAsset
<1> QED BY <1>2, <1>3, <1>4 DEF TypeOK, AssetRow

LEMMA BatchTyped ==
  ASSUME NEW b \in Batches
  PROVE  b \in Seq(Assets)
<1>1. CASE \E a \in Assets : b = <<a>>
  BY <1>1
<1>2. CASE b \in Assets \X Assets
  <2>1. PICK x \in Assets, y \in Assets : b = <<x, y>>
    BY <1>2
  <2> QED BY <2>1
<1> QED BY <1>1, <1>2 DEF Batches

LEMMA AssignTyped ==
  ASSUME TypeOK, NEW p \in Pools, NEW b \in Batches, NEW role \in {"worker", "control-plane"},
         NEW r \in Reservations, NEW o \in {<<>>} \cup Overrides,
         AssignAssets(p, b, role, r, o)
  PROVE  TypeOK'
<1> DEFINE new == [i \in DOMAIN b |-> [pool |-> p, asset |-> b[i], role |-> role,
                                    reserved |-> r, override |-> o]]
           Before(k) == SubSeq(links, 1, k)
           After(k) == SubSeq(links, k + 1, Len(links))
<1>1. links \in Seq(LinkRows) /\ Len(links) \in Nat /\ \A i \in 1 .. Len(links) : links[i] \in LinkRows
  BY LinksTyped DEF TypeOK, LinkRows
<1>2. /\ Len(b) \in Nat /\ DOMAIN b = 1 .. Len(b)
      /\ \A i \in 1 .. Len(b) : b[i] \in Assets
  BY BatchTyped, LenProperties
<1>3. new \in Seq(LinkRows) /\ Len(new) = Len(b)
  <2>1. new \in [1 .. Len(b) -> LinkRows]
    BY <1>2 DEF LinkRows
  <2> QED BY <1>2, <2>1, SeqDef, LenProperties
<1>4. PICK k \in 0 .. Len(links) :
         links' = Before(k) \o new \o After(k)
  BY DEF AssignAssets
<1> HIDE DEF new
<1>5. /\ Before(k) \in Seq(LinkRows) /\ Len(Before(k)) = k
  BY <1>1, SubSeqProperties
<1>6. /\ After(k) \in Seq(LinkRows)
      /\ Len(After(k)) = Len(links) - k
  BY <1>1, SubSeqProperties
<1> HIDE DEF Before, After
<1>7. /\ Before(k) \o new \in Seq(LinkRows)
      /\ Len(Before(k) \o new) = k + Len(b)
  BY <1>3, <1>5, ConcatProperties
<1>8. links' \in Seq(LinkRows) /\ Len(links') = Len(links) + Len(b)
  <2> DEFINE front == Before(k) \o new
  <2>1. front \in Seq(LinkRows) /\ Len(front) = k + Len(b)
    BY <1>7
  <2>2. links' = front \o After(k)
    BY <1>4
  <2> HIDE DEF front
  <2>3. front \o After(k) \in Seq(LinkRows) /\ Len(front \o After(k)) = Len(front) + Len(After(k))
    BY <1>6, <2>1, ConcatProperties
  <2> QED BY <1>1, <1>2, <1>6, <2>1, <2>2, <2>3
<1>9. Len(links') <= MaxLinks
  BY <1>8 DEF AssignAssets
<1>10. row' \in [Assets -> AssetRow]
  <2>1. row \in [Assets -> AssetRow]
    BY DEF TypeOK, AssetRow
  <2>2. ASSUME NEW a \in Assets
        PROVE  [row[a] EXCEPT !.free = @ /\ a \notin Range(b)] \in AssetRow
    BY <2>1 DEF AssetRow
  <2> QED BY <2>2 DEF AssignAssets
<1>11. reused' \subseteq Assets
  BY <1>2 DEF AssignAssets, TypeOK
<1>12. provider' = provider /\ declared' = declared
  BY DEF AssignAssets
<1> QED BY <1>8, <1>9, <1>10, <1>11, <1>12 DEF TypeOK, AssetRow, LinkRows

LEMMA UnassignTyped ==
  ASSUME TypeOK, NEW p \in Pools, NEW a \in Assets, UnassignAsset(p, a)
  PROVE  TypeOK'
<1> DEFINE matching == { i \in DOMAIN links : links[i].pool = p /\ links[i].asset = a }
           i == Min(matching)
           before == SubSeq(links, 1, i - 1)
           after == SubSeq(links, i + 1, Len(links))
<1>1. links \in Seq(LinkRows) /\ Len(links) \in Nat /\ \A j \in 1 .. Len(links) : links[j] \in LinkRows
  BY LinksTyped DEF TypeOK, LinkRows
<1>2. matching \in SUBSET DOMAIN links /\ matching # {}
  BY DEF UnassignAsset
<1>3. links' = before \o after
  BY DEF UnassignAsset, RemoveAt
<1>4. i \in 1 .. Len(links)
  <2> HIDE DEF matching
  <2> QED BY <1>2, LinksTyped, MembersTyped
<1> HIDE DEF i
<1>5. before \in Seq(LinkRows) /\ Len(before) = i - 1
  BY <1>1, <1>4, SubSeqProperties
<1>6. /\ after \in Seq(LinkRows)
      /\ Len(after) = Len(links) - i
  BY <1>1, <1>4, SubSeqProperties
<1> HIDE DEF before, after
<1>7. links' \in Seq(LinkRows) /\ Len(links') = Len(links) - 1
  <2>1. before \o after \in Seq(LinkRows) /\ Len(before \o after) = Len(before) + Len(after)
    BY <1>5, <1>6, ConcatProperties
  <2> QED BY <1>1, <1>3, <1>4, <1>5, <1>6, <2>1
<1>8. row' \in [Assets -> AssetRow]
  BY DEF UnassignAsset, TypeOK, AssetRow
<1>9. Len(links') <= MaxLinks
  BY <1>1, <1>7, MachineConstants DEF TypeOK
<1>10. reused' \subseteq Assets /\ provider' = provider /\ declared' = declared
  BY DEF UnassignAsset, TypeOK
<1> QED BY <1>7, <1>8, <1>9, <1>10 DEF TypeOK, AssetRow, LinkRows

(* The count written back by the deployment is a number.                     *)
LEMMA CountTyped ==
  ASSUME TypeOK
  PROVE  Bundle.controlPlane.count \in Nat
<1>1. declared \in Nat
  BY DEF TypeOK
<1>2. Cardinality(ControlPlaneMembers) \in Nat
  BY PoolMembers, MembersTyped
<1>3. ControlPlane.count \in Nat
  BY <1>1, <1>2 DEF ControlPlane, Group
<1> QED BY <1>1, <1>3 DEF Bundle, HardwareBundle, CloudBundle

LEMMA StartTyped ==
  ASSUME TypeOK, StartDeployment
  PROVE  TypeOK'
<1>1. declared' \in Nat
  BY CountTyped DEF StartDeployment
<1> QED BY <1>1 DEF TypeOK, StartDeployment

LEMMA TypePreserved ==
  ASSUME TypeOK, [Next]_vars
  PROVE  TypeOK'
<1>1. ASSUME NEW a \in Assets, SyncFromIronic(a) PROVE TypeOK'
  BY <1>1, SyncTyped
<1>2. ASSUME NEW a \in Assets, UpdateAsset(a) PROVE TypeOK'
  BY <1>2, UpdateTyped
<1>3. ASSUME NEW p \in Pools, NEW b \in Batches, NEW role \in {"worker", "control-plane"},
             NEW r \in Reservations, NEW o \in {<<>>} \cup Overrides,
             AssignAssets(p, b, role, r, o)
      PROVE  TypeOK'
  BY <1>3, AssignTyped
<1>4. ASSUME NEW p \in Pools, NEW a \in Assets, UnassignAsset(p, a) PROVE TypeOK'
  BY <1>4, UnassignTyped
<1>5. CASE GenerateManifests
  BY <1>5 DEF GenerateManifests, TypeOK
<1>6. CASE StartDeployment
  BY <1>6, StartTyped
<1>7. CASE UNCHANGED vars
  BY <1>7 DEF vars, TypeOK
<1> QED BY <1>1, <1>2, <1>3, <1>4, <1>5, <1>6, <1>7 DEF Next

(* Every reachable state of the inputs of a plan is well typed, for any       *)
(* assets, machines, pools and requests.                                     *)
THEOREM TypeCorrect == Spec => []TypeOK
<1>1. Init => TypeOK
  BY InitTyped
<1>2. TypeOK /\ [Next]_vars => TypeOK'
  BY TypePreserved
<1> QED BY <1>1, <1>2, PTL DEF Spec

-----------------------------------------------------------------------------
(* The plan. The inductive invariant: a topology that is said to be reported  *)
(* is one of the machine's reports; an asset that was not put back while it   *)
(* was assigned, nor named twice, has one assignment at most and is not free  *)
(* while it has it; and a bundle that is kept is the one that rendering again *)
(* would give, although StartDeployment wrote the count that the bundle is   *)
(* computed from.                                                            *)

TopologyIsReported ==
    \A a \in Assets : row[a].source = "reported" =>
        \E r \in Reports(Machine[a].count, Machine[a].sockets) :
            ~ r.mixed /\ row[a].topology = r.topology

AssignedOnce ==
    \A a \in Assets \ reused : \A i \in DOMAIN links : links[i].asset = a =>
        /\ ~ row[a].free
        /\ \A j \in DOMAIN links : links[j].asset = a => j = i

PlanIsCurrent == Planned => CanRender /\ plan = Bundle

PlanInv == TypeOK /\ TopologyIsReported /\ AssignedOnce /\ PlanIsCurrent

LEMMA HardwareShape ==
  ASSUME provider \in HardwareProviders
  PROVE  /\ Bundle.workers = WorkerGroups
         /\ Bundle.controlPlane = ControlPlane
         /\ Bundle.hosts = [i \in DOMAIN links |-> links[i].asset]
         /\ Bundle.untainted = (Cardinality(ControlPlaneMembers) = 1 /\ WorkerPools = {})
         /\ Bundle.networks = [a \in { links[i].asset : i \in DOMAIN links } |-> NetworkPolicy(a)]
  BY DEF Bundle, HardwareBundle

LEMMA CloudShape ==
  ASSUME provider \notin HardwareProviders
  PROVE  /\ Bundle.workers = <<>> /\ Bundle.networks = <<>>
         /\ "of" \notin DOMAIN Bundle.controlPlane
  BY DEF Bundle, CloudBundle

LEMMA ControlPlaneShape ==
  /\ ControlPlaneMembers = {} => "of" \notin DOMAIN ControlPlane
  /\ ControlPlaneMembers # {} => ControlPlane = Group(ControlPlaneMembers)
  BY DEF ControlPlane

(* The groups of a plan are the control plane and the worker pools of the     *)
(* present rows (asset_planner.py:242-260).                                  *)
LEMMA GroupsOfPlan ==
  ASSUME PlanInv, Planned, NEW g \in Groups
  PROVE  /\ Renderable
         /\ \E members \in {ControlPlaneMembers} \cup { Members(p) : p \in WorkerPools } :
               members # {} /\ members \in SUBSET DOMAIN links /\ g = Group(members)
<1>1. plan = Bundle /\ CanRender
  BY DEF PlanInv, PlanIsCurrent
<1>2. provider \in HardwareProviders
  <2> SUFFICES ASSUME provider \notin HardwareProviders PROVE FALSE
    OBVIOUS
  <2>1. Range(<<>>) = {}
    BY DEF Range
  <2> QED BY <1>1, <2>1, CloudShape DEF Groups
<1>3. Renderable
  BY <1>1, <1>2 DEF CanRender
<1>4. CASE g \in Range(WorkerGroups)
  <2>1. PICK p \in WorkerPools : g = Group(Members(p))
    BY <1>4 DEF Range, WorkerGroups
  <2>2. p \in PoolsInUse
    BY DEF WorkerPools
  <2> QED BY <1>3, <2>1, <2>2, PoolMembers
<1>5. CASE "of" \in DOMAIN ControlPlane /\ g = ControlPlane
  BY <1>3, <1>5, ControlPlaneShape, PoolMembers
<1>6. g \in Range(WorkerGroups) \/ ("of" \in DOMAIN ControlPlane /\ g = ControlPlane)
  BY <1>1, <1>2, HardwareShape DEF Groups
<1> QED BY <1>4, <1>5, <1>6

LEMMA ReservedFollow == PlanInv => ReservedCpusExist
<1> SUFFICES ASSUME PlanInv, Planned, NEW g \in Groups
             PROVE  LET t == row[g.of].topology
                    IN  /\ g.reserved \subseteq 0 .. LogicalCpus(t) - 1
                        /\ row[g.of].source = "reported" =>
                              g.reserved \subseteq 0 .. Machine[g.of].count - 1
                        /\ \E r \in Reservations :
                              /\ Cardinality(g.reserved) = ReservedCount(t, r)
                              /\ IsolatedCount(t, r) =
                                    Cardinality((0 .. LogicalCpus(t) - 1) \ g.reserved)
  BY DEF ReservedCpusExist
<1>1. PICK members \in {ControlPlaneMembers} \cup { Members(p) : p \in WorkerPools } :
         members # {} /\ members \in SUBSET DOMAIN links /\ g = Group(members)
  BY GroupsOfPlan
<1> DEFINE first == links[Min(members)]
           t == row[first.asset].topology
<1>2. TypeOK
  BY DEF PlanInv
<1>3. first \in LinkRows
  BY <1>1, <1>2, MembersTyped, LinksTyped
<1>4. first.asset \in Assets /\ first.reserved \in Reservations /\ first.reserved \in Nat
  <2> HIDE DEF first
  <2> QED BY <1>3, MachineConstants DEF LinkRows
<1>5. g.of = first.asset /\ g.reserved = ReservedCpus(t, first.reserved)
  BY <1>1 DEF Group
<1>6. Reservable(t, first.reserved)
  BY <1>1, GroupsOfPlan DEF Renderable
<1> HIDE DEF first
<1>7. t \in Topology
  BY <1>2, <1>4 DEF TypeOK
<1>8. g.reserved \subseteq 0 .. LogicalCpus(t) - 1
  <2> HIDE DEF t
  <2> QED BY <1>4, <1>5, <1>6, <1>7, ReservedInRange
<1>9. ASSUME row[g.of].source = "reported"
      PROVE  g.reserved \subseteq 0 .. Machine[g.of].count - 1
  <2>1. PICK r \in Reports(Machine[first.asset].count, Machine[first.asset].sockets) :
           ~ r.mixed /\ t = r.topology
    BY <1>4, <1>5, <1>9 DEF PlanInv, TopologyIsReported
  <2>2. Machine[first.asset].count \in Nat /\ Machine[first.asset].sockets \in Nat \ {0}
    BY <1>4, MachineConstants
  <2> HIDE DEF t
  <2> QED BY <1>4, <1>5, <1>6, <2>1, <2>2, ReservationsNameRealCpus
<1>10. /\ Cardinality(g.reserved) = ReservedCount(t, first.reserved)
       /\ IsolatedCount(t, first.reserved) = Cardinality((0 .. LogicalCpus(t) - 1) \ g.reserved)
  <2> HIDE DEF t
  <2> QED BY <1>4, <1>5, <1>6, <1>7, ReservedCardinality, IsolatedCardinality
<1> QED BY <1>4, <1>5, <1>8, <1>9, <1>10

(* Every assignment belongs to one pool, and every pool in use is either of   *)
(* the control plane or a worker pool.                                       *)
LEMMA WorkersAreTheRest ==
  /\ DOMAIN links \ ControlPlaneMembers = { i \in DOMAIN links : links[i].pool \in WorkerPools }
  /\ \A p \in WorkerPools : Members(p) =
        { i \in DOMAIN links \ ControlPlaneMembers : links[i].pool = p }
  /\ WorkerPools # {} => DOMAIN links \ ControlPlaneMembers # {}
  BY PoolMembers DEF ControlPlaneMembers, WorkerPools, PoolsInUse, Members

(* Assets that are assigned once each are as many as the assignments.         *)
LEMMA ServersOfLinks ==
  ASSUME TypeOK, AssignedOnce, { links[i].asset : i \in DOMAIN links } \cap reused = {}
  PROVE  Cardinality({ links[i].asset : i \in DOMAIN links }) = Len(links)
<1> DEFINE servers == { links[i].asset : i \in DOMAIN links }
           server == [i \in DOMAIN links |-> links[i].asset]
<1>1. server \in [DOMAIN links -> servers]
  OBVIOUS
<1>2. \A x \in servers : \E i \in DOMAIN links : server[i] = x
  OBVIOUS
<1>3. \A i, j \in DOMAIN links : server[i] = server[j] => i = j
  <2> SUFFICES ASSUME NEW i \in DOMAIN links, NEW j \in DOMAIN links,
                      links[i].asset = links[j].asset
               PROVE  i = j
    OBVIOUS
  <2>1. links[i].asset \in Assets
    BY LinksTyped DEF LinkRows
  <2>2. links[i].asset \notin reused
    OBVIOUS
  <2> QED BY <2>1, <2>2 DEF AssignedOnce
<1> HIDE DEF servers, server
<1>4. server \in Bijection(DOMAIN links, servers)
  BY <1>1, <1>2, <1>3, Fun_IsBij
<1>5. ExistsBijection(DOMAIN links, servers)
  BY <1>4 DEF ExistsBijection
<1>6. Cardinality(servers) = Cardinality(DOMAIN links)
  BY <1>5, LinksTyped, FS_Bijection
<1> QED BY <1>6, LinksTyped DEF servers

LEMMA ReplicasFollow == PlanInv => ReplicasAreHosts
<1> DEFINE counts == [p \in WorkerPools |-> Group(Members(p)).count]
           replicas == UNION { {p} \X (1 .. counts[p]) : p \in WorkerPools }
           workers == DOMAIN links \ ControlPlaneMembers
           pool == [i \in workers |-> links[i].pool]
<1> SUFFICES ASSUME PlanInv, Planned, "of" \in DOMAIN plan.controlPlane,
                    Range(plan.hosts) \cap reused = {}
             PROVE  LET planned == UNION { {p} \X (1 .. plan.workers[p].count) :
                                          p \in DOMAIN plan.workers }
                        servers == Cardinality(Range(plan.hosts))
                    IN  /\ plan.controlPlane.count + Cardinality(planned) = servers
                        /\ plan.untainted <=> servers = 1
  BY DEF ReplicasAreHosts
<1>1. plan = Bundle /\ TypeOK
  BY DEF PlanInv, PlanIsCurrent
<1>2. provider \in HardwareProviders
  BY <1>1, CloudShape
<1>3. ControlPlaneMembers # {} /\ plan.controlPlane = Group(ControlPlaneMembers)
  BY <1>1, <1>2, HardwareShape, ControlPlaneShape
<1>4. plan.controlPlane.count = Cardinality(ControlPlaneMembers)
  BY <1>3 DEF Group
<1>5. /\ DOMAIN plan.workers = WorkerPools
      /\ \A p \in WorkerPools : plan.workers[p].count = counts[p]
  BY <1>1, <1>2, HardwareShape DEF WorkerGroups
<1>6. UNION { {p} \X (1 .. plan.workers[p].count) : p \in DOMAIN plan.workers } = replicas
  <2> HIDE DEF counts
  <2> QED BY <1>5
<1>7. Cardinality(Range(plan.hosts)) = Len(links)
  <2>1. plan.hosts = [i \in DOMAIN links |-> links[i].asset]
    BY <1>1, <1>2, HardwareShape
  <2>2. Range(plan.hosts) = { links[i].asset : i \in DOMAIN links }
    BY <2>1 DEF Range
  <2>3. { links[i].asset : i \in DOMAIN links } \cap reused = {}
    BY <2>2
  <2> QED BY <1>1, <2>2, <2>3, ServersOfLinks DEF PlanInv
<1>8. /\ IsFiniteSet(ControlPlaneMembers) /\ Cardinality(ControlPlaneMembers) \in Nat
      /\ ControlPlaneMembers \subseteq DOMAIN links
      /\ IsFiniteSet(DOMAIN links) /\ Cardinality(DOMAIN links) = Len(links) /\ Len(links) \in Nat
  BY <1>1, PoolMembers, MembersTyped, LinksTyped
<1>9. IsFiniteSet(workers) /\ Cardinality(workers) = Len(links) - Cardinality(ControlPlaneMembers)
  <2>1. DOMAIN links \cap ControlPlaneMembers = ControlPlaneMembers
    BY <1>8
  <2>2. /\ IsFiniteSet(workers)
        /\ Cardinality(workers) =
             Cardinality(DOMAIN links) - Cardinality(DOMAIN links \cap ControlPlaneMembers)
    BY <1>8, FS_Difference
  <2> QED BY <1>8, <2>1, <2>2
<1>10. Cardinality(replicas) = Cardinality(workers)
  <2>1. pool \in [workers -> WorkerPools]
    BY WorkersAreTheRest
  <2>2. \A p \in WorkerPools : counts[p] = Cardinality(ClassOf(workers, pool, p))
    <3> TAKE p \in WorkerPools
    <3>1. ClassOf(workers, pool, p) = { i \in workers : links[i].pool = p }
      BY DEF ClassOf
    <3>2. Members(p) = { i \in workers : links[i].pool = p }
      BY WorkersAreTheRest
    <3>3. counts[p] = Cardinality(Members(p))
      BY DEF Group
    <3> QED BY <3>1, <3>2, <3>3
  <2>3. replicas = Numbered(WorkerPools, counts)
    BY DEF Numbered
  <2> HIDE DEF counts, pool, workers, replicas
  <2> QED BY <2>3, <1>9, <2>1, <2>2, CountByClass
<1>11. plan.untainted <=> Len(links) = 1
  <2>1. plan.untainted <=> Cardinality(ControlPlaneMembers) = 1 /\ WorkerPools = {}
    BY <1>1, <1>2, HardwareShape
  <2>2. Cardinality(ControlPlaneMembers) # 0
    BY <1>3, <1>8, FS_EmptySet
  <2>3. Cardinality(workers) \in Nat /\ (Cardinality(workers) = 0 <=> workers = {})
    BY <1>9, FS_EmptySet, FS_CardinalityType
  <2>4. workers = {} <=> WorkerPools = {}
    BY PoolMembers, WorkersAreTheRest
  <2> HIDE DEF workers
  <2>5. (Cardinality(ControlPlaneMembers) = 1 /\ WorkerPools = {}) <=> Len(links) = 1
    <3>1. Cardinality(workers) = Len(links) - Cardinality(ControlPlaneMembers)
      BY <1>9
    <3> DEFINE c == Cardinality(ControlPlaneMembers)
               w == Cardinality(workers)
               n == Len(links)
    <3>2. c \in Nat /\ w \in Nat /\ n \in Nat /\ c # 0 /\ w = n - c
      BY <1>8, <2>2, <2>3, <3>1
    <3> HIDE DEF c, w, n
    <3>3. c = 1 /\ w = 0 <=> n = 1
      BY <3>2
    <3>4. w = 0 <=> WorkerPools = {}
      BY <2>3, <2>4 DEF w
    <3> QED BY <3>3, <3>4, Zenon DEF c, n
  <2> QED BY <2>1, <2>5, Zenon
<1>12. plan.controlPlane.count + Cardinality(replicas) = Cardinality(Range(plan.hosts))
  <2> HIDE DEF replicas, workers
  <2> QED BY <1>4, <1>7, <1>8, <1>9, <1>10
<1>13. plan.untainted <=> Cardinality(Range(plan.hosts)) = 1
  BY <1>7, <1>11, Zenon
<1> HIDE DEF replicas
<1> QED BY <1>6, <1>12, <1>13, Zenon

-----------------------------------------------------------------------------
(* Networks. *)

LEMMA PositionalTyped ==
  ASSUME NEW i \in Nat \ {0}
  PROVE  /\ PositionalRole(i) \in NicRoles
         /\ PositionalRole(i) = "control" => i \in {1, 2}
         /\ PositionalRole(i) = "data" => i \in {3, 4}
         /\ PositionalRole(i) = "storage" => i \in {5, 6}
<1>1. CASE i > 6
  BY <1>1 DEF PositionalRole, NicRoles
<1>2. CASE i <= 6
  <2>1. i = 1 \/ i = 2 \/ i = 3 \/ i = 4 \/ i = 5 \/ i = 6
    BY <1>2
  <2>2. /\ i \in {1, 2} => (i + 1) \div 2 = 1
        /\ i \in {3, 4} => (i + 1) \div 2 = 2
        /\ i \in {5, 6} => (i + 1) \div 2 = 3
    BY SMT
  <2>3. /\ i \in {1, 2} => PositionalRole(i) = "control"
        /\ i \in {3, 4} => PositionalRole(i) = "data"
        /\ i \in {5, 6} => PositionalRole(i) = "storage"
    BY <1>2, <2>2 DEF PositionalRole
  <2> QED BY <2>1, <2>3 DEF NicRoles
<1> QED BY <1>1, <1>2

LEMMA PairIsFinite ==
  ASSUME NEW x, NEW y, NEW S, S \subseteq {x, y}
  PROVE  Cardinality(S) <= 2
<1>1. IsFiniteSet({x}) /\ Cardinality({x}) = 1
  BY FS_Singleton
<1>2. IsFiniteSet({x} \cup {y}) /\ Cardinality({x} \cup {y}) <= 2
  BY <1>1, FS_AddElement
<1>3. S \in SUBSET ({x} \cup {y})
  OBVIOUS
<1>4. Cardinality(S) <= Cardinality({x} \cup {y}) /\ IsFiniteSet(S)
  BY <1>2, <1>3, FS_Subset
<1> DEFINE small == Cardinality(S)
           large == Cardinality({x} \cup {y})
<1>5. small \in Nat /\ large \in Nat /\ small <= large /\ large <= 2
  BY <1>2, <1>4, FS_CardinalityType
<1> HIDE DEF small, large
<1>6. small <= 2
  BY <1>5
<1> QED BY <1>6 DEF small

(* What a host's policy names (asset_planner.py:35-51, 180-225).              *)
LEMMA PolicyOfHost ==
  ASSUME TypeOK, NEW a \in Assets
  PROVE  LET net == NetworkPolicy(a)
             chosen(r) == { i \in DOMAIN row[a].nics : row[a].nics[i] = r }
         IN  IF \A r \in NicRoles : chosen(r) = {}
             THEN /\ UNION Range(net) = DOMAIN row[a].nics
                  /\ \A r \in NicRoles \ {"sriov"} : Cardinality(net[r]) <= 2
                  /\ \A r, s \in NicRoles : r # s => net[r] \cap net[s] = {}
             ELSE \A r \in NicRoles : net[r] = chosen(r)
<1> DEFINE nics == row[a].nics
           net == NetworkPolicy(a)
           chosen(r) == { i \in DOMAIN nics : nics[i] = r }
<1>1. nics \in Seq(NicRoles \cup {"unassigned"})
  BY DEF TypeOK, NicLists
<1>2. /\ DOMAIN nics \subseteq Nat \ {0}
      /\ \A i \in DOMAIN nics : nics[i] \in NicRoles \cup {"unassigned"}
  <2> HIDE DEF nics
  <2>1. Len(nics) \in Nat /\ DOMAIN nics = 1 .. Len(nics)
    BY <1>1, LenProperties
  <2>2. \A i \in 1 .. Len(nics) : nics[i] \in NicRoles \cup {"unassigned"}
    BY <1>1, ElementOfSeq
  <2> QED BY <2>1, <2>2
<1>3. /\ DOMAIN net = NicRoles
      /\ \A r \in NicRoles : net[r] = { i \in DOMAIN nics : ResolvedRoles(nics, <<>>)[i] = r }
  BY DEF NetworkPolicy, NicsByRole
<1> HIDE DEF net
<1>4. CASE \A r \in NicRoles : chosen(r) = {}
  <2>1. \A i \in DOMAIN nics : nics[i] = "unassigned"
    BY <1>2, <1>4
  <2>2. ResolvedRoles(nics, <<>>) = [i \in DOMAIN nics |-> PositionalRole(i)]
    BY <2>1 DEF ResolvedRoles
  <2>3. \A r \in NicRoles : net[r] = { i \in DOMAIN nics : PositionalRole(i) = r }
    BY <1>3, <2>2
  <2> HIDE DEF nics
  <2>4. UNION Range(net) = DOMAIN nics
    <3>1. \A i \in DOMAIN nics : PositionalRole(i) \in NicRoles /\ i \in net[PositionalRole(i)]
      BY <1>2, <2>3, PositionalTyped
    <3>2. Range(net) = { net[r] : r \in NicRoles }
      BY <1>3 DEF Range
    <3> QED BY <2>3, <3>1, <3>2
  <2>5. ASSUME NEW r \in NicRoles \ {"sriov"}
        PROVE  Cardinality(net[r]) <= 2
    <3>1. CASE r = "control"
      <4>1. net[r] \subseteq {1, 2}
        BY <1>2, <2>3, <3>1, PositionalTyped
      <4> QED BY <4>1, PairIsFinite
    <3>2. CASE r = "data"
      <4>1. net[r] \subseteq {3, 4}
        BY <1>2, <2>3, <3>2, PositionalTyped
      <4> QED BY <4>1, PairIsFinite
    <3>3. CASE r = "storage"
      <4>1. net[r] \subseteq {5, 6}
        BY <1>2, <2>3, <3>3, PositionalTyped
      <4> QED BY <4>1, PairIsFinite
    <3> QED BY <3>1, <3>2, <3>3 DEF NicRoles
  <2>6. \A r, s \in NicRoles : r # s => net[r] \cap net[s] = {}
    BY <2>3
  <2> QED BY <1>4, <2>4, <2>5, <2>6 DEF nics, net
<1>5. CASE ~ \A r \in NicRoles : chosen(r) = {}
  <2>1. \E i \in DOMAIN nics : nics[i] # "unassigned"
    BY <1>5 DEF NicRoles
  <2>2. ResolvedRoles(nics, <<>>) = nics
    BY <2>1 DEF ResolvedRoles
  <2>3. \A r \in NicRoles : net[r] = chosen(r)
    BY <1>3, <2>2
  <2> QED BY <1>5, <2>3 DEF net
<1> QED BY <1>4, <1>5

LEMMA NetworksFollow == PlanInv => NetworkFollowsRoles
<1> SUFFICES ASSUME PlanInv, Planned, NEW a \in DOMAIN plan.networks
             PROVE  a \in Assets /\ plan.networks[a] = NetworkPolicy(a)
  BY PolicyOfHost DEF PlanInv, NetworkFollowsRoles
<1>1. plan = Bundle /\ TypeOK
  BY DEF PlanInv, PlanIsCurrent
<1>2. provider \in HardwareProviders
  <2>1. DOMAIN <<>> = {}
    OBVIOUS
  <2> QED BY <1>1, <2>1, CloudShape
<1>3. /\ plan.networks = [h \in { links[i].asset : i \in DOMAIN links } |-> NetworkPolicy(h)]
  BY <1>1, <1>2, HardwareShape
<1>4. PICK i \in DOMAIN links : a = links[i].asset
  BY <1>3
<1>5. links[i].asset \in Assets
  BY <1>1, LinksTyped DEF LinkRows
<1> QED BY <1>3, <1>4, <1>5

-----------------------------------------------------------------------------
(* The invariant is inductive. *)

LEMMA ReportsKept ==
  ASSUME TypeOK, TopologyIsReported, [Next]_vars
  PROVE  TopologyIsReported'
<1>1. row \in [Assets -> AssetRow]
  BY DEF TypeOK, AssetRow
<1> DEFINE Same == \A c \in Assets : row'[c].source = row[c].source /\ row'[c].topology = row[c].topology
<1>0. ASSUME Same PROVE TopologyIsReported'
  BY <1>0 DEF TopologyIsReported
<1>2. ASSUME NEW a \in Assets, SyncFromIronic(a) PROVE TopologyIsReported'
  <2>1. PICK r \in Reports(Machine[a].count, Machine[a].sockets) :
           row' = [row EXCEPT ![a] = Synced(a, r)]
    BY <1>2 DEF SyncFromIronic
  <2>2. row'[a] = Synced(a, r) /\ \A c \in Assets \ {a} : row'[c] = row[c]
    BY <1>1, <2>1
  <2>3. row[a] \in AssetRow
    BY <1>1
  <2>4. /\ row'[a].topology = r.topology
        /\ row'[a].source = IF r.mixed THEN "mixed" ELSE "reported"
    BY <2>2, <2>3 DEF Synced, AssetRow
  <2>5. row'[a].source = "reported" => ~ r.mixed
    BY <2>4
  <2> QED BY <2>2, <2>4, <2>5 DEF TopologyIsReported
<1>3. ASSUME NEW a \in Assets, UpdateAsset(a) PROVE TopologyIsReported'
  <2>1. ASSUME NEW roles \in RoleChoices, row' = [row EXCEPT ![a].nics = roles] PROVE Same
    BY <1>1, <2>1 DEF AssetRow
  <2>2. ASSUME NEW b \in BOOLEAN, row' = [row EXCEPT ![a].bmc = b] PROVE Same
    BY <1>1, <2>2 DEF AssetRow
  <2>3. ASSUME NEW free \in BOOLEAN, row' = [row EXCEPT ![a].free = free] PROVE Same
    BY <1>1, <2>3 DEF AssetRow
  <2> HIDE DEF Same
  <2> QED BY <1>0, <1>3, <2>1, <2>2, <2>3 DEF UpdateAsset
<1>4. ASSUME NEW p \in Pools, NEW b \in Batches, NEW role \in {"worker", "control-plane"},
             NEW r \in Reservations, NEW o \in {<<>>} \cup Overrides,
             AssignAssets(p, b, role, r, o)
      PROVE  TopologyIsReported'
  <2>1. ASSUME NEW c \in Assets
        PROVE  row'[c].source = row[c].source /\ row'[c].topology = row[c].topology
    <3>1. row[c] \in AssetRow
      BY <1>1
    <3>2. row'[c] = [row[c] EXCEPT !.free = @ /\ c \notin Range(b)]
      BY <1>4 DEF AssignAssets
    <3> QED BY <3>1, <3>2 DEF AssetRow
  <2> QED BY <1>0, <2>1
<1>5. ASSUME NEW p \in Pools, NEW a \in Assets, UnassignAsset(p, a) PROVE TopologyIsReported'
  <2>1. row' = [row EXCEPT ![a].free = TRUE]
    BY <1>5 DEF UnassignAsset
  <2>2. Same
    BY <1>1, <2>1 DEF AssetRow
  <2> QED BY <1>0, <2>2
<1>6. CASE GenerateManifests \/ StartDeployment \/ UNCHANGED vars
  BY <1>0, <1>6 DEF GenerateManifests, StartDeployment, vars
<1> QED BY <1>2, <1>3, <1>4, <1>5, <1>6 DEF Next

(* Where the positions of the assignments are after an insertion and after a  *)
(* removal.                                                                  *)
LEMMA Segment ==
  ASSUME NEW S, NEW s \in Seq(S), NEW m \in Nat \ {0}, NEW n \in Nat, n <= Len(s), m <= n + 1
  PROVE  /\ SubSeq(s, m, n) \in Seq(S) /\ Len(SubSeq(s, m, n)) = n - m + 1
         /\ \A j \in 1 .. n - m + 1 : SubSeq(s, m, n)[j] = s[m + j - 1]
<1>1. Len(s) \in Nat /\ \A i \in 1 .. Len(s) : s[i] \in S
  BY LenProperties, ElementOfSeq
<1>2. m \in Int /\ n \in Int /\ \A i \in m .. n : s[i] \in S
  BY <1>1
<1>3. /\ SubSeq(s, m, n) \in Seq(S)
      /\ Len(SubSeq(s, m, n)) = IF m <= n THEN n - m + 1 ELSE 0
      /\ \A j \in 1 .. n - m + 1 : SubSeq(s, m, n)[j] = s[m + j - 1]
  BY <1>2, SubSeqProperties
<1>4. (IF m <= n THEN n - m + 1 ELSE 0) = n - m + 1
  OBVIOUS
<1> QED BY <1>3, <1>4

SplicedAt(s, t, k, both, i) ==
    /\ i \in Nat
    /\ \/ i \in 1 .. Len(s) /\ i <= k /\ both[i] = s[i]
       \/ i > k /\ i - k \in 1 .. Len(t) /\ both[i] = t[i - k]
       \/ i > k + Len(t) /\ i - Len(t) \in k + 1 .. Len(s) /\ both[i] = s[i - Len(t)]

LEMMA Spliced ==
  ASSUME NEW S, NEW s \in Seq(S), NEW t \in Seq(S), NEW k \in 0 .. Len(s),
         NEW both, both = SubSeq(s, 1, k) \o t \o SubSeq(s, k + 1, Len(s)),
         NEW i \in DOMAIN both
  PROVE  SplicedAt(s, t, k, both, i)
<1> DEFINE front == SubSeq(s, 1, k)
           tail == SubSeq(s, k + 1, Len(s))
           head == front \o t
           n == Len(s)
           l == Len(t)
<1>0. n \in Nat /\ l \in Nat /\ k \in Nat /\ k <= n
  BY LenProperties
<1>1. front \in Seq(S) /\ Len(front) = k /\ \A j \in 1 .. k : front[j] = s[j]
  <2>1. /\ front \in Seq(S) /\ Len(front) = k - 1 + 1
        /\ \A j \in 1 .. k - 1 + 1 : front[j] = s[1 + j - 1]
    BY <1>0, Segment
  <2> HIDE DEF front
  <2>2. k - 1 + 1 = k /\ \A j \in 1 .. k : 1 + j - 1 = j
    BY <1>0
  <2> QED BY <2>1, <2>2
<1>2. /\ tail \in Seq(S) /\ Len(tail) = n - k
      /\ \A j \in 1 .. n - k : tail[j] = s[k + j]
  <2>1. /\ tail \in Seq(S) /\ Len(tail) = n - (k + 1) + 1
        /\ \A j \in 1 .. n - (k + 1) + 1 : tail[j] = s[(k + 1) + j - 1]
    BY <1>0, Segment
  <2> HIDE DEF tail, n
  <2>2. n - (k + 1) + 1 = n - k /\ \A j \in 1 .. n - k : (k + 1) + j - 1 = k + j
    BY <1>0
  <2> QED BY <2>1, <2>2
<1> HIDE DEF front, tail
<1>3. /\ head \in Seq(S) /\ Len(head) = k + l
      /\ \A j \in 1 .. k + l : head[j] = IF j <= k THEN s[j] ELSE t[j - k]
  <2>1. /\ head \in Seq(S) /\ Len(head) = Len(front) + l
        /\ \A j \in 1 .. Len(front) + l :
              head[j] = IF j <= Len(front) THEN front[j] ELSE t[j - Len(front)]
    BY <1>1, ConcatProperties
  <2> HIDE DEF head
  <2> QED BY <1>0, <1>1, <2>1
<1> HIDE DEF head
<1>4. /\ head \o tail \in Seq(S) /\ Len(head \o tail) = (k + l) + (n - k)
      /\ \A j \in 1 .. (k + l) + (n - k) : (head \o tail)[j] =
            IF j <= k + l THEN head[j] ELSE tail[j - (k + l)]
  <2>1. /\ head \o tail \in Seq(S) /\ Len(head \o tail) = Len(head) + Len(tail)
        /\ \A j \in 1 .. Len(head) + Len(tail) : (head \o tail)[j] =
              IF j <= Len(head) THEN head[j] ELSE tail[j - Len(head)]
    BY <1>2, <1>3, ConcatProperties
  <2>2. Len(head) = k + l /\ Len(tail) = n - k
    BY <1>2, <1>3
  <2> HIDE DEF n, l
  <2> QED BY <2>1, <2>2
<1>5. both = head \o tail
  BY DEF head, front, tail
<1>6. DOMAIN both = 1 .. (k + l) + (n - k)
  BY <1>4, <1>5, LenProperties
<1> HIDE DEF n, l
<1>7. i \in Nat /\ i >= 1 /\ i <= l + n
  <2>1. i \in 1 .. (k + l) + (n - k)
    BY <1>6
  <2>2. (k + l) + (n - k) = l + n
    BY <1>0
  <2> QED BY <1>0, <2>1, <2>2
<1>8. both[i] = IF i <= k + l THEN head[i] ELSE tail[i - (k + l)]
  BY <1>4, <1>5, <1>6
<1>9. CASE i <= k
  <2>1. both[i] = s[i]
    BY <1>0, <1>3, <1>7, <1>8, <1>9
  <2> QED BY <1>0, <1>7, <1>9, <2>1 DEF n, SplicedAt
<1>10. CASE i > k /\ i <= k + l
  <2>0. i \in 1 .. k + l
    BY <1>0, <1>7, <1>10
  <2>1. both[i] = t[i - k]
    <3>1. ~ (i <= k) /\ i <= k + l
      BY <1>0, <1>7, <1>10
    <3>2. head[i] = t[i - k]
      BY <1>3, <2>0, <3>1
    <3> QED BY <1>8, <3>1, <3>2
  <2>2. i - k \in 1 .. l
    BY <1>0, <1>7, <1>10
  <2> QED BY <1>7, <1>10, <2>1, <2>2 DEF l, SplicedAt
<1>11. CASE i > k + l
  <2>1. i - (k + l) \in 1 .. n - k /\ k + (i - (k + l)) = i - l
    BY <1>0, <1>7, <1>11
  <2>2. both[i] = s[i - l]
    <3>1. both[i] = tail[i - (k + l)]
      <4>1. ~ (i <= k + l)
        BY <1>0, <1>7, <1>11
      <4> QED BY <1>8, <4>1
    <3>2. tail[i - (k + l)] = s[k + (i - (k + l))]
      BY <1>2, <2>1
    <3> QED BY <2>1, <3>1, <3>2
  <2>3. i - l \in k + 1 .. n
    BY <1>0, <1>7, <1>11
  <2> QED BY <1>7, <1>11, <2>2, <2>3 DEF n, l, SplicedAt
<1>12. i <= k \/ (i > k /\ i <= k + l) \/ i > k + l
  BY <1>0, <1>7
<1> QED BY <1>9, <1>10, <1>11, <1>12

LEMMA Removed ==
  ASSUME NEW S, NEW s \in Seq(S), NEW k \in 1 .. Len(s),
         NEW rest, rest = RemoveAt(s, k), NEW i \in DOMAIN rest
  PROVE  /\ i \in Nat
         /\ \/ i \in 1 .. Len(s) /\ i < k /\ rest[i] = s[i]
            \/ i >= k /\ i + 1 \in 1 .. Len(s) /\ rest[i] = s[i + 1]
<1> DEFINE front == SubSeq(s, 1, k - 1)
           tail == SubSeq(s, k + 1, Len(s))
           n == Len(s)
<1>0. n \in Nat /\ k \in Nat /\ 1 <= k /\ k <= n /\ k - 1 \in Nat
  BY LenProperties
<1>1. front \in Seq(S) /\ Len(front) = k - 1 /\ \A j \in 1 .. k - 1 : front[j] = s[j]
  <2>1. /\ front \in Seq(S) /\ Len(front) = (k - 1) - 1 + 1
        /\ \A j \in 1 .. (k - 1) - 1 + 1 : front[j] = s[1 + j - 1]
    BY <1>0, Segment
  <2> HIDE DEF front
  <2>2. (k - 1) - 1 + 1 = k - 1 /\ \A j \in 1 .. k - 1 : 1 + j - 1 = j
    BY <1>0
  <2> QED BY <2>1, <2>2
<1>2. /\ tail \in Seq(S) /\ Len(tail) = n - k
      /\ \A j \in 1 .. n - k : tail[j] = s[k + j]
  <2>1. /\ tail \in Seq(S) /\ Len(tail) = n - (k + 1) + 1
        /\ \A j \in 1 .. n - (k + 1) + 1 : tail[j] = s[(k + 1) + j - 1]
    BY <1>0, Segment
  <2> HIDE DEF tail, n
  <2>2. n - (k + 1) + 1 = n - k /\ \A j \in 1 .. n - k : (k + 1) + j - 1 = k + j
    BY <1>0
  <2> QED BY <2>1, <2>2
<1>3. rest = front \o tail
  BY DEF RemoveAt
<1> HIDE DEF front, tail
<1>4. /\ front \o tail \in Seq(S) /\ Len(front \o tail) = (k - 1) + (n - k)
      /\ \A j \in 1 .. (k - 1) + (n - k) : (front \o tail)[j] =
            IF j <= k - 1 THEN front[j] ELSE tail[j - (k - 1)]
  <2>1. /\ front \o tail \in Seq(S) /\ Len(front \o tail) = Len(front) + Len(tail)
        /\ \A j \in 1 .. Len(front) + Len(tail) : (front \o tail)[j] =
              IF j <= Len(front) THEN front[j] ELSE tail[j - Len(front)]
    BY <1>1, <1>2, ConcatProperties
  <2>2. Len(front) = k - 1 /\ Len(tail) = n - k
    BY <1>1, <1>2
  <2> HIDE DEF n
  <2> QED BY <2>1, <2>2
<1>5. DOMAIN rest = 1 .. (k - 1) + (n - k)
  BY <1>3, <1>4, LenProperties
<1>6. i \in Nat /\ i >= 1 /\ i <= n - 1
  BY <1>0, <1>5
<1>7. rest[i] = IF i <= k - 1 THEN front[i] ELSE tail[i - (k - 1)]
  BY <1>3, <1>4, <1>5
<1> HIDE DEF n
<1>8. CASE i < k
  <2>1. rest[i] = s[i]
    BY <1>0, <1>1, <1>6, <1>7, <1>8
  <2> QED BY <1>0, <1>6, <1>8, <2>1 DEF n
<1>9. CASE i >= k
  <2>1. i - (k - 1) \in 1 .. n - k /\ k + (i - (k - 1)) = i + 1
    BY <1>0, <1>6, <1>9
  <2>2. rest[i] = s[i + 1]
    BY <1>0, <1>2, <1>6, <1>7, <1>9, <2>1
  <2>3. i + 1 \in 1 .. n
    BY <1>0, <1>6
  <2> QED BY <1>6, <1>9, <2>2, <2>3 DEF n
<1> QED BY <1>0, <1>6, <1>8, <1>9

(* An assignment takes free assets only, and an asset that becomes free while *)
(* it is assigned is remembered (planner.py:57-58, hardware_assets.py:91,     *)
(* 136).                                                                     *)
LEMMA AssignKeepsOnce ==
  ASSUME TypeOK, AssignedOnce, NEW p \in Pools, NEW b \in Batches,
         NEW role \in {"worker", "control-plane"},
         NEW r \in Reservations, NEW o \in {<<>>} \cup Overrides,
         AssignAssets(p, b, role, r, o)
  PROVE  AssignedOnce'
<1> DEFINE new == [i \in DOMAIN b |-> [pool |-> p, asset |-> b[i], role |-> role,
                                    reserved |-> r, override |-> o]]
<1>1. links \in Seq(LinkRows) /\ Len(links) \in Nat /\ DOMAIN links = 1 .. Len(links)
  BY LinksTyped DEF TypeOK, LinkRows
<1>2. /\ Len(b) \in Nat /\ DOMAIN b = 1 .. Len(b)
      /\ \A i \in 1 .. Len(b) : b[i] \in Assets
  BY BatchTyped, LenProperties
<1>3. new \in Seq(LinkRows) /\ Len(new) = Len(b) /\ DOMAIN new = DOMAIN b
      /\ \A i \in DOMAIN b : new[i].asset = b[i]
  <2>1. new \in [1 .. Len(b) -> LinkRows]
    BY <1>2 DEF LinkRows
  <2> QED BY <1>2, <2>1, SeqDef, LenProperties
<1>4. PICK k \in 0 .. Len(links) :
         links' = SubSeq(links, 1, k) \o new \o SubSeq(links, k + 1, Len(links))
  BY DEF AssignAssets
<1> HIDE DEF new
<1>5. ASSUME NEW i \in DOMAIN links'
      PROVE  /\ i \in Nat
             /\ \/ i \in DOMAIN links /\ i <= k /\ links'[i] = links[i]
                \/ i > k /\ i - k \in DOMAIN b /\ links'[i].asset = b[i - k]
                \/ i > k + Len(b) /\ i - Len(b) \in DOMAIN links /\ links'[i] = links[i - Len(b)]
  <2>1. /\ i \in Nat
        /\ \/ i \in 1 .. Len(links) /\ i <= k /\ links'[i] = links[i]
           \/ i > k /\ i - k \in 1 .. Len(new) /\ links'[i] = new[i - k]
           \/ /\ i > k + Len(new) /\ i - Len(new) \in k + 1 .. Len(links)
              /\ links'[i] = links[i - Len(new)]
    <3>1. PICK both : both = links'
      OBVIOUS
    <3>2. both = SubSeq(links, 1, k) \o new \o SubSeq(links, k + 1, Len(links))
      BY <1>4, <3>1
    <3>3. i \in DOMAIN both
      BY <3>1
    <3>4. links \in Seq(LinkRows) /\ new \in Seq(LinkRows)
      BY <1>1, <1>3
    <3>5. SplicedAt(links, new, k, both, i)
      BY <3>2, <3>3, <3>4, Spliced
    <3> QED BY <3>1, <3>5 DEF SplicedAt
  <2>2. k + 1 .. Len(links) \subseteq 1 .. Len(links)
    BY <1>1
  <2> QED BY <1>1, <1>2, <1>3, <2>1, <2>2
<1>6. SUFFICES ASSUME NEW a \in Assets \ reused', NEW i \in DOMAIN links', links'[i].asset = a
               PROVE  ~ row'[a].free /\ \A j \in DOMAIN links' : links'[j].asset = a => j = i
  BY DEF AssignedOnce
<1>7. a \notin reused /\ (\A x, y \in DOMAIN b : b[x] = a /\ b[y] = a => x = y)
  BY DEF AssignAssets
<1>8. row'[a].free = (row[a].free /\ a \notin Range(b)) /\ (a \in Range(b) => row[a].free)
  <2>1. row'[a] = [row[a] EXCEPT !.free = @ /\ a \notin Range(b)]
    BY DEF AssignAssets
  <2>2. row[a] \in AssetRow
    BY DEF TypeOK, AssetRow
  <2>3. a \in Range(b) => row[a].free
    BY DEF AssignAssets, Range
  <2> QED BY <2>1, <2>2, <2>3 DEF AssetRow
<1>9. \A x \in DOMAIN b : b[x] \in Range(b)
  BY DEF Range
<1>10. CASE a \in Range(b)
  <2>1. \A x \in DOMAIN links : links[x].asset # a
    BY <1>7, <1>8, <1>10 DEF AssignedOnce
  <2>2. \A j \in DOMAIN links' : links'[j].asset = a => j - k \in DOMAIN b /\ b[j - k] = a
    BY <1>5, <2>1
  <2>3. \A j \in DOMAIN links' : j \in Int
    BY <1>5
  <2>4. ASSUME NEW j \in DOMAIN links', links'[j].asset = a PROVE j = i
    <3>1. j - k = i - k
      BY <1>6, <1>7, <2>2, <2>4
    <3> QED BY <2>3, <3>1
  <2> QED BY <1>8, <1>10, <2>4
<1>11. CASE a \notin Range(b)
  <2> DEFINE Old(j) == IF j <= k THEN j ELSE j - Len(b)
  <2>1. ASSUME NEW j \in DOMAIN links', links'[j].asset = a
        PROVE  /\ Old(j) \in DOMAIN links /\ links[Old(j)].asset = a
               /\ j \in Int /\ (j <= k \/ j > k + Len(b))
    <3>0. j \in Nat
      BY <1>5
    <3>1. CASE j \in DOMAIN links /\ j <= k /\ links'[j] = links[j]
      BY <2>1, <3>0, <3>1
    <3>2. CASE j > k + Len(b) /\ j - Len(b) \in DOMAIN links /\ links'[j] = links[j - Len(b)]
      BY <1>1, <1>2, <2>1, <3>0, <3>2
    <3>3. CASE j > k /\ j - k \in DOMAIN b /\ links'[j].asset = b[j - k]
      BY <1>9, <1>11, <2>1, <3>3
    <3> QED BY <1>5, <3>1, <3>2, <3>3
  <2>2. ASSUME NEW j \in DOMAIN links', links'[j].asset = a PROVE j = i
    <3>1. Old(j) = Old(i)
      <4> HIDE DEF Old
      <4>1. Old(j) \in DOMAIN links /\ links[Old(j)].asset = a
        BY <2>1, <2>2
      <4>2. Old(i) \in DOMAIN links /\ links[Old(i)].asset = a
        BY <1>6, <2>1
      <4> QED BY <1>7, <4>1, <4>2 DEF AssignedOnce
    <3>2. i \in Int /\ (i <= k \/ i > k + Len(b)) /\ j \in Int /\ (j <= k \/ j > k + Len(b))
      BY <1>6, <2>1, <2>2
    <3> QED BY <1>1, <1>2, <3>1, <3>2
  <2>3. ~ row[a].free
    <3>1. Old(i) \in DOMAIN links /\ links[Old(i)].asset = a
      BY <1>6, <2>1
    <3> HIDE DEF Old
    <3> QED BY <1>7, <3>1 DEF AssignedOnce
  <2> QED BY <1>8, <2>2, <2>3
<1> QED BY <1>10, <1>11

LEMMA UnassignKeepsOnce ==
  ASSUME TypeOK, AssignedOnce, NEW p \in Pools, NEW a \in Assets, UnassignAsset(p, a)
  PROVE  AssignedOnce'
<1> DEFINE matching == { i \in DOMAIN links : links[i].pool = p /\ links[i].asset = a }
           k == Min(matching)
<1>1. links \in Seq(LinkRows) /\ Len(links) \in Nat /\ DOMAIN links = 1 .. Len(links)
  BY LinksTyped DEF TypeOK, LinkRows
<1>2. matching \in SUBSET DOMAIN links /\ matching # {} /\ links' = RemoveAt(links, k)
  BY DEF UnassignAsset
<1>3. k \in matching
  <2> HIDE DEF matching
  <2> QED BY <1>2, LinksTyped, MembersTyped
<1>4. k \in 1 .. Len(links) /\ links[k].asset = a
  BY <1>1, <1>3
<1> HIDE DEF k, matching
<1>5. ASSUME NEW i \in DOMAIN links'
      PROVE  /\ i \in Nat
             /\ \/ i \in DOMAIN links /\ i < k /\ links'[i] = links[i]
                \/ i >= k /\ i + 1 \in DOMAIN links /\ links'[i] = links[i + 1]
  BY <1>1, <1>2, <1>4, Removed
<1>6. SUFFICES ASSUME NEW x \in Assets \ reused', NEW i \in DOMAIN links', links'[i].asset = x
               PROVE  ~ row'[x].free /\ \A j \in DOMAIN links' : links'[j].asset = x => j = i
  BY DEF AssignedOnce
<1>7. x \notin reused
  BY <1>6 DEF UnassignAsset
<1> DEFINE Old(j) == IF j < k THEN j ELSE j + 1
<1>8. ASSUME NEW j \in DOMAIN links', links'[j].asset = x
      PROVE  /\ Old(j) \in DOMAIN links /\ links[Old(j)].asset = x
             /\ Old(j) # k /\ j \in Int
  <2>0. j \in Nat
    BY <1>5
  <2>1. CASE j \in DOMAIN links /\ j < k /\ links'[j] = links[j]
    BY <1>4, <1>8, <2>0, <2>1
  <2>2. CASE j >= k /\ j + 1 \in DOMAIN links /\ links'[j] = links[j + 1]
    BY <1>4, <1>8, <2>0, <2>2
  <2> QED BY <1>5, <2>1, <2>2
<1>9. x # a
  <2> HIDE DEF Old
  <2> QED BY <1>1, <1>4, <1>6, <1>7, <1>8 DEF AssignedOnce
<1>10. ~ row'[x].free
  <2>1. row' = [row EXCEPT ![a].free = TRUE] /\ row \in [Assets -> AssetRow]
    BY DEF UnassignAsset, TypeOK, AssetRow
  <2>2. row'[x] = row[x]
    BY <1>9, <2>1
  <2>3. ~ row[x].free
    <3> HIDE DEF Old
    <3> QED BY <1>6, <1>7, <1>8 DEF AssignedOnce
  <2> QED BY <2>2, <2>3
<1>11. ASSUME NEW j \in DOMAIN links', links'[j].asset = x PROVE j = i
  <2>1. Old(j) = Old(i)
    <3> HIDE DEF Old
    <3> QED BY <1>6, <1>7, <1>8, <1>11 DEF AssignedOnce
  <2>2. i \in Int /\ j \in Int
    BY <1>6, <1>8, <1>11
  <2> QED BY <1>4, <2>1, <2>2
<1> QED BY <1>10, <1>11

LEMMA OnceKept ==
  ASSUME TypeOK, AssignedOnce, [Next]_vars
  PROVE  AssignedOnce'
<1>1. row \in [Assets -> AssetRow]
  BY DEF TypeOK, AssetRow
\* The assignments stay: an asset that becomes free is not assigned, or remembered.
<1>2. ASSUME links' = links,
             \A a \in Assets : a \notin reused' =>
                a \notin Assigned({a}) \/ (a \notin reused /\ row'[a].free = row[a].free)
      PROVE  AssignedOnce'
  <2> SUFFICES ASSUME NEW a \in Assets \ reused', NEW i \in DOMAIN links, links[i].asset = a
               PROVE  ~ row'[a].free /\ \A j \in DOMAIN links : links[j].asset = a => j = i
    BY <1>2 DEF AssignedOnce
  <2>1. a \in Assigned({a})
    BY DEF Assigned
  <2> QED BY <1>2, <2>1 DEF AssignedOnce
<1>3. ASSUME NEW a \in Assets, SyncFromIronic(a) PROVE AssignedOnce'
  <2>1. \A c \in Assets \ {a} : row'[c] = row[c]
    BY <1>1, <1>3 DEF SyncFromIronic
  <2>2. reused' = Assigned(reused \cup {a}) /\ links' = links
    BY <1>3 DEF SyncFromIronic
  <2> QED BY <1>2, <2>1, <2>2 DEF Assigned
<1>4. ASSUME NEW a \in Assets, UpdateAsset(a) PROVE AssignedOnce'
  <2>0. links' = links
    BY <1>4 DEF UpdateAsset
  <2>1. ASSUME NEW roles \in RoleChoices, row' = [row EXCEPT ![a].nics = roles], reused' = reused
        PROVE  AssignedOnce'
    <3>1. \A c \in Assets : row'[c].free = row[c].free
      BY <1>1, <2>1 DEF AssetRow
    <3> QED BY <1>2, <2>0, <2>1, <3>1
  <2>2. ASSUME NEW b \in BOOLEAN, row' = [row EXCEPT ![a].bmc = b], reused' = reused
        PROVE  AssignedOnce'
    <3>1. \A c \in Assets : row'[c].free = row[c].free
      BY <1>1, <2>2 DEF AssetRow
    <3> QED BY <1>2, <2>0, <2>2, <3>1
  <2>3. ASSUME NEW free \in BOOLEAN, row' = [row EXCEPT ![a].free = free],
               reused' = IF free THEN Assigned(reused \cup {a}) ELSE reused
        PROVE  AssignedOnce'
    <3>1. \A c \in Assets \ {a} : row'[c] = row[c]
      BY <1>1, <2>3
    <3>2. row'[a].free = free
      BY <1>1, <2>3 DEF AssetRow
    <3>3. CASE free
      BY <1>2, <2>0, <2>3, <3>1, <3>3 DEF Assigned
    <3>4. CASE ~ free
      BY <2>0, <2>3, <3>1, <3>2, <3>4 DEF AssignedOnce
    <3> QED BY <3>3, <3>4
  <2> QED BY <1>4, <2>1, <2>2, <2>3 DEF UpdateAsset
<1>5. CASE GenerateManifests \/ StartDeployment \/ UNCHANGED vars
  BY <1>5 DEF GenerateManifests, StartDeployment, vars, AssignedOnce
<1> QED BY <1>3, <1>4, <1>5, AssignKeepsOnce, UnassignKeepsOnce DEF Next

(* What is rendered depends on the cluster's provider, the asset rows and the *)
(* assignments, and on the declared count only where no control plane pool   *)
(* replaces it; the deployment writes the count it rendered.                 *)
LEMMA SameInputsSameBundle ==
  ASSUME UNCHANGED <<provider, row, links>>,
         declared' = declared \/ declared' = Bundle.controlPlane.count
  PROVE  Bundle' = Bundle /\ CanRender' = CanRender
<1>1. \A p : Members(p)' = Members(p)
  BY DEF Members
<1>2. PoolsInUse' = PoolsInUse
  BY DEF PoolsInUse
<1>3. ControlPlanePools' = ControlPlanePools
  BY <1>1, <1>2 DEF ControlPlanePools
<1>4. WorkerPools' = WorkerPools /\ ControlPlaneMembers' = ControlPlaneMembers
  BY <1>2, <1>3 DEF WorkerPools, ControlPlaneMembers
<1>5. WorkerGroups' = WorkerGroups
  BY <1>1, <1>4 DEF WorkerGroups, Group
<1>6. Template' = Template
  BY DEF Template
<1>7. Renderable' = Renderable
  BY <1>1, <1>4 DEF Renderable
<1>8. CanRender' = CanRender
  BY <1>7 DEF CanRender
<1>9. CASE provider \in HardwareProviders
  <2>1. ControlPlane' = ControlPlane
    <3>1. CASE ControlPlaneMembers # {}
      BY <1>4, <3>1 DEF ControlPlane, Group
    <3>2. CASE ControlPlaneMembers = {}
      <4>1. ControlPlane = [count |-> declared] /\ ControlPlane' = [count |-> declared']
        BY <1>4, <3>2 DEF ControlPlane
      <4>2. declared' = declared
        BY <1>9, <4>1, HardwareShape
      <4> QED BY <4>1, <4>2
    <3> QED BY <3>1, <3>2
  <2>2. \A a : NetworkPolicy(a)' = NetworkPolicy(a)
    BY DEF NetworkPolicy, NicsByRole
  <2>3. HardwareBundle' = HardwareBundle
    BY <1>4, <1>5, <1>6, <2>1, <2>2 DEF HardwareBundle
  <2> QED BY <1>8, <1>9, <2>3 DEF Bundle
<1>10. CASE provider \notin HardwareProviders
  <2>1. CloudBundle.controlPlane.count = declared /\ Bundle = CloudBundle
    BY <1>10 DEF Bundle, CloudBundle
  <2>2. declared' = declared
    BY <2>1
  <2> QED BY <1>6, <1>8, <1>10, <2>2 DEF Bundle, CloudBundle
<1> QED BY <1>9, <1>10

LEMMA PlanKept ==
  ASSUME PlanIsCurrent, [Next]_vars
  PROVE  PlanIsCurrent'
<1>1. ASSUME plan' = None PROVE PlanIsCurrent'
  BY <1>1 DEF PlanIsCurrent, Planned
<1>2. ASSUME NEW a \in Assets, SyncFromIronic(a) \/ UpdateAsset(a) PROVE PlanIsCurrent'
  BY <1>1, <1>2 DEF SyncFromIronic, UpdateAsset
<1>3. ASSUME NEW p \in Pools, NEW b \in Batches, NEW role \in {"worker", "control-plane"},
             NEW r \in Reservations, NEW o \in {<<>>} \cup Overrides,
             AssignAssets(p, b, role, r, o)
      PROVE  PlanIsCurrent'
  BY <1>1, <1>3 DEF AssignAssets
<1>4. ASSUME NEW p \in Pools, NEW a \in Assets, UnassignAsset(p, a) PROVE PlanIsCurrent'
  BY <1>1, <1>4 DEF UnassignAsset
<1>5. CASE GenerateManifests \/ StartDeployment
  <2>1. CanRender /\ plan' = Bundle
    BY <1>5 DEF GenerateManifests, StartDeployment
  <2>2. Bundle' = Bundle /\ CanRender' = CanRender
    BY <1>5, SameInputsSameBundle DEF GenerateManifests, StartDeployment
  <2> QED BY <2>1, <2>2 DEF PlanIsCurrent
<1>6. CASE UNCHANGED vars
  <2>1. Bundle' = Bundle /\ CanRender' = CanRender
    BY <1>6, SameInputsSameBundle DEF vars
  <2> QED BY <1>6, <2>1 DEF vars, PlanIsCurrent, Planned
<1> QED BY <1>2, <1>3, <1>4, <1>5, <1>6 DEF Next

LEMMA PlanInvariant == Spec => []PlanInv
<1>1. Init => PlanInv
  <2> SUFFICES ASSUME Init PROVE TopologyIsReported /\ AssignedOnce /\ PlanIsCurrent
    BY InitTyped DEF PlanInv
  <2>1. \A a \in Assets : row[a].source = "entered"
    BY DEF Init
  <2>2. DOMAIN links = {}
    BY DEF Init
  <2> QED BY <2>1, <2>2 DEF Init, TopologyIsReported, AssignedOnce, PlanIsCurrent, Planned
<1>2. PlanInv /\ [Next]_vars => PlanInv'
  BY TypePreserved, ReportsKept, OnceKept, PlanKept DEF PlanInv
<1> QED BY <1>1, <1>2, PTL DEF Spec

(* Whatever is inspected, chosen and assigned, and in whatever order: the     *)
(* CPUs a bundle reserves are CPUs of the topology on the row, and of the     *)
(* machine itself if an unmixed report gave that topology; what is announced *)
(* as isolated is the rest of them.                                          *)
THEOREM ReservationsAreReal == Spec => []ReservedCpusExist
  BY PlanInvariant, ReservedFollow, PTL

(* With control plane hardware, the machines a bundle asks for are as many as *)
(* the servers among its hosts, each counted once, for any number of pools   *)
(* and assignments; except that an asset which was put back while it was     *)
(* assigned, or named twice, can be counted twice.                           *)
THEOREM MachinesMatchHosts == Spec => []ReplicasAreHosts
  BY PlanInvariant, ReplicasFollow, PTL

(* Each host's bonds and SR-IOV interfaces are what the operator chose for    *)
(* its asset, or all of its NICs by position, for any number of NICs. Roles  *)
(* that were given to assign instead are not rendered (OverridesRendered).   *)
THEOREM NetworksMatchRoles == Spec => []NetworkFollowsRoles
  BY PlanInvariant, NetworksFollow, PTL

(* A bundle that is rendered again without a change in between is the same,   *)
(* although the deployment writes the count it was computed from.            *)
THEOREM PreviewIsDeployed == Spec => StableBundle
<1>1. PlanInv /\ [Next]_vars => [Planned /\ Planned' => plan' = plan]_vars
  <2> SUFFICES ASSUME PlanInv, Next, Planned, Planned' PROVE plan' = plan
    BY DEF vars
  <2>1. plan = Bundle
    BY DEF PlanInv, PlanIsCurrent
  <2>2. plan' = Bundle
    BY DEF Next, SyncFromIronic, UpdateAsset, AssignAssets, UnassignAsset,
           GenerateManifests, StartDeployment, Planned
  <2> QED BY <2>1, <2>2
<1> QED BY <1>1, PlanInvariant, PTL DEF Spec, StableBundle
=============================================================================
