------------------------- MODULE PortRegistryProofs -------------------------
(***************************************************************************)
(* For any port space, the port arithmetic of PortUtils is what it should  *)
(* be: the comparison of boundaries that the code performs is the question *)
(* whether two ranges share a port, sorting and comparing neighbours finds *)
(* every overlap, and a list that the mapping's validator accepts opens no *)
(* port for two services.                                                  *)
(*                                                                         *)
(* From this, for any services and any port lists, every property of the   *)
(* run port_registry.  Three inductive invariants carry them:              *)
(*   - TypeOK: a mapping is a list of entries of known services;           *)
(*   - Checked: what the mapping's validator demands of every write.  The  *)
(*     checks made when a binding is created or a service is changed are   *)
(*     not needed for NamesDisjoint, StoredPortsParse, OptimizedAgrees;    *)
(*   - Backed: a service that lists the group has a binding WITH A          *)
(*     FINALIZER, or a binding was moved away from it, and the mapping has  *)
(*     entries of such services only (Recorded).  EntriesHaveBindings is    *)
(*     content with any binding and is not inductive: a new binding is      *)
(*     deleted without any clean-up.                                       *)
(* Together they make the list of entries a function from services to      *)
(* ports, which is how PortRegistry implements GroupAccess.                *)
(*                                                                         *)
(* Facts about lists come by counting (a finite chain of sets is ranked by *)
(* cardinality) and by induction over the natural numbers; the latter is   *)
(* stated about a SET of numbers, the form first-order provers can use.    *)
(***************************************************************************)
EXTENDS PortRegistry, FiniteSetTheorems, WellFoundedInduction, TLAPS

PortsOf(r) == r.start .. r.end

(* DoPortRangesOverlap does not depend on the order of its arguments: the   *)
(* callers compare new against stored and stored against new.              *)
THEOREM OverlapSymmetric ==
    \A a, b \in PortRange : DoPortRangesOverlap(a, b) <=> DoPortRangesOverlap(b, a)
BY MaxPortAssumption DEF PortRange, DoPortRangesOverlap

(* DoPortRangesOverlap compares four boundaries; it is true exactly when    *)
(* some port number lies in both ranges (no off-by-one at either end).      *)
THEOREM OverlapIsSharedPort ==
    ASSUME NEW a \in PortRange, NEW b \in PortRange
    PROVE  DoPortRangesOverlap(a, b) <=> PortsOf(a) \cap PortsOf(b) # {}
<1> USE MaxPortAssumption DEF PortRange, DoPortRangesOverlap, PortsOf
<1>1. ASSUME DoPortRangesOverlap(a, b)
      PROVE  PortsOf(a) \cap PortsOf(b) # {}
  <2>1. CASE a.start <= b.start
    <3>1. b.start \in PortsOf(a) \cap PortsOf(b)
      BY <1>1, <2>1
    <3> QED BY <3>1
  <2>2. CASE ~(a.start <= b.start)
    <3>1. a.start \in PortsOf(a) \cap PortsOf(b)
      BY <1>1, <2>2
    <3> QED BY <3>1
  <2> QED BY <2>1, <2>2
<1>2. ASSUME PortsOf(a) \cap PortsOf(b) # {}
      PROVE  DoPortRangesOverlap(a, b)
  <2>1. PICK n : n \in PortsOf(a) \cap PortsOf(b)
    BY <1>2
  <2>2. n \in Int /\ a.start <= n /\ n <= a.end /\ b.start <= n /\ n <= b.end
    BY <2>1
  <2> QED BY <2>2
<1> QED BY <1>1, <1>2

(* What ParsePortRange returns without an error is a range of ports, in     *)
(* order and in the port space.                                            *)
THEOREM ParsedIsRange ==
    ASSUME NEW text, Parses(text)
    PROVE  ParsePortRange(text) \in PortRange
<1> USE MaxPortAssumption
<1>1. CASE \E n \in 0..MaxPort : text.fields = <<n>>
  <2>1. PICK n \in 0..MaxPort : text.fields = <<n>>
    BY <1>1
  <2>2. ParsePortRange(text) = [start |-> n, end |-> n]
    BY <2>1 DEF ParsePortRange
  <2> QED BY <2>2 DEF PortRange
<1>2. CASE \E r \in PortRange : text.fields = <<r.start, r.end>>
  <2>1. PICK r \in PortRange : text.fields = <<r.start, r.end>>
    BY <1>2
  <2>2. ParsePortRange(text) = [start |-> r.start, end |-> r.end]
    BY <2>1 DEF ParsePortRange
  <2> QED BY <2>2 DEF PortRange
<1> QED BY <1>1, <1>2 DEF Parses, WellFormed

(* A list accepted by checkInternalPortOverlaps, the validator of every     *)
(* write of a mapping, opens no port under two names.                      *)
THEOREM CheckedNamesShareNoPort ==
    ASSUME NEW list, checkInternalPortOverlaps(list),
           NEW k \in DOMAIN list, NEW m \in DOMAIN list, NEW proto \in Protocols,
           list[k].name # list[m].name
    PROVE  Numbers(list[k].ports[proto]) \cap Numbers(list[m].ports[proto]) = {}
<1>1. /\ AllParse(list[k].ports[proto])
      /\ AllParse(list[m].ports[proto])
  BY DEF checkInternalPortOverlaps, ValidateNoDuplicatePortsInPortConfig
<1>2. ASSUME NEW i \in DOMAIN list[k].ports[proto], NEW j \in DOMAIN list[m].ports[proto]
      PROVE  PortsOf(ParsePortRange(list[k].ports[proto][i]))
               \cap PortsOf(ParsePortRange(list[m].ports[proto][j])) = {}
  <2> DEFINE a == ParsePortRange(list[k].ports[proto][i])
             b == ParsePortRange(list[m].ports[proto][j])
  <2>1. a \in PortRange /\ b \in PortRange
    BY <1>1, ParsedIsRange DEF AllParse
  <2>2. ~DoPortRangesOverlap(a, b)
    BY DEF checkInternalPortOverlaps
  <2> QED BY <2>1, <2>2, OverlapIsSharedPort
<1> QED BY <1>2 DEF Numbers, PortsOf

---------------------------------------------------------------------------
(* Counting.                                                                *)

(* Every nonempty set of natural numbers has a least element.               *)
LEMMA Least ==
    ASSUME NEW T, T \subseteq Nat, T # {}
    PROVE  \E x \in T : \A y \in T : x <= y
<1> DEFINE Less == OpToRel(<, Nat)
<1>1. IsWellFoundedOn(Less, Nat)
  BY NatLessThanWellFounded
<1>2. \A x, y \in Nat : y < x => <<y, x>> \in Less
  BY DEF OpToRel
<1> HIDE DEF Less
<1>3. \E x \in T : \A y \in T : ~(<<y, x>> \in Less)
  BY <1>1, WFMin
<1>4. PICK x \in T : \A y \in T : ~(<<y, x>> \in Less)
  BY <1>3
<1>5. \A y \in T : ~(y < x)
  BY <1>2, <1>4
<1> QED BY <1>5

(* Induction over the natural numbers, for the set of numbers that have a   *)
(* property.                                                                *)
LEMMA Induction ==
    ASSUME NEW T, 0 \in T, \A n \in Nat : n \in T => n + 1 \in T
    PROVE  Nat \subseteq T
<1> SUFFICES ASSUME Nat \ T # {} PROVE FALSE
  OBVIOUS
<1>1. PICK n \in Nat \ T : \A m \in Nat \ T : n <= m
  BY Least
<1>2. n # 0 /\ n - 1 \in Nat
  BY <1>1
<1>3. n - 1 \in T
  BY <1>1, <1>2
<1> QED BY <1>2, <1>3

(* Sets below[k], one for each k of K, nested like the initial segments of  *)
(* an order of K.                                                           *)
Chain(K, below) ==
    /\ below \in [K -> SUBSET K]
    /\ \A k \in K : k \in below[k]
    /\ \A j, k \in K : j # k =>
         /\ below[j] # below[k]
         /\ below[j] \subseteq below[k] \/ below[k] \subseteq below[j]

(* Their cardinalities number the elements of K from 1 to Cardinality(K).   *)
Ranked(K, below) ==
    /\ Cardinality(K) \in Nat
    /\ \A k \in K : Cardinality(below[k]) \in 1..Cardinality(K)
    /\ \A j, k \in K :
         Cardinality(below[j]) <= Cardinality(below[k]) <=> below[j] \subseteq below[k]
    /\ \A j, k \in K : Cardinality(below[j]) = Cardinality(below[k]) => j = k
    /\ \A i \in 1..Cardinality(K) : \E k \in K : Cardinality(below[k]) = i

(* A chain on a finite set numbers it: what Nth and SortedByStart rest on.  *)
LEMMA Ranking ==
    ASSUME NEW K, NEW below, IsFiniteSet(K), Chain(K, below)
    PROVE  Ranked(K, below)
<1> DEFINE n == Cardinality(K)
           rank == [k \in K |-> Cardinality(below[k])]
<1> USE DEF Chain
<1>1. n \in Nat
  BY FS_CardinalityType
<1>2. \A k \in K : IsFiniteSet(below[k])
  BY FS_Subset
<1>3. \A k \in K : rank[k] \in Nat /\ rank[k] <= n
  BY FS_Subset, FS_CardinalityType, <1>1
<1>4. \A k \in K : rank[k] # 0
  <2> SUFFICES ASSUME NEW k \in K, Cardinality(below[k]) = 0 PROVE FALSE
    OBVIOUS
  <2>1. below[k] = {}
    BY <1>2, FS_EmptySet
  <2> QED BY <2>1
<1>5. \A j, k \in K : below[j] \subseteq below[k] /\ below[j] # below[k] => rank[j] < rank[k]
  <2> SUFFICES ASSUME NEW j \in K, NEW k \in K, below[j] \subseteq below[k],
                      below[j] # below[k]
               PROVE  Cardinality(below[j]) < Cardinality(below[k])
    OBVIOUS
  <2>1. Cardinality(below[j]) <= Cardinality(below[k]) /\ Cardinality(below[j]) # Cardinality(below[k])
    BY <1>2, FS_Subset
  <2>2. Cardinality(below[j]) \in Nat /\ Cardinality(below[k]) \in Nat
    BY <1>2, FS_CardinalityType
  <2> QED BY <2>1, <2>2
<1>6. \A j, k \in K : j # k => rank[j] # rank[k]
  <2> HIDE DEF rank
  <2> QED BY <1>3, <1>5
<1>7. \A i \in 1..n : \E k \in K : rank[k] = i
  <2> SUFFICES ASSUME NEW i \in 1..n, \A k \in K : rank[k] # i PROVE FALSE
    OBVIOUS
  <2>1. rank \in [K -> (1..n) \ {i}]
    <3> HIDE DEF n
    <3>1. \A k \in K : rank[k] \in (1..n) \ {i}
      <4> HIDE DEF rank
      <4> QED BY <1>1, <1>3, <1>4
    <3> QED BY <3>1
  <2>2. IsFiniteSet(1..n) /\ Cardinality(1..n) = n
    BY <1>1, FS_Interval
  <2>3. IsFiniteSet((1..n) \ {i}) /\ Cardinality((1..n) \ {i}) = n - 1
    BY <2>2, FS_RemoveElement
  <2>4. \E j, k \in K : j # k /\ rank[j] = rank[k]
    <3> HIDE DEF rank
    <3> QED BY <1>1, <2>1, <2>3, FS_PigeonHole
  <2> QED BY <2>4, <1>6
<1>8. \A j, k \in K : rank[j] <= rank[k] <=> below[j] \subseteq below[k]
  <2> HIDE DEF rank
  <2> QED BY <1>3, <1>5
<1>9. \A k \in K : rank[k] = Cardinality(below[k])
  OBVIOUS
<1>10. \A k \in K : Cardinality(below[k]) \in 1..n
  BY <1>1, <1>3, <1>4
<1> HIDE DEF rank
<1> QED BY <1>1, <1>6, <1>7, <1>8, <1>9, <1>10 DEF Ranked

(* Nth enumerates the kept positions, each once, in increasing order.       *)
LEMMA NthOfKept ==
    ASSUME NEW n \in Nat, NEW keep \in SUBSET (1..n)
    PROVE  /\ Cardinality(keep) \in Nat
           /\ \A i \in 1..Cardinality(keep) : Nth(keep, i) \in keep
           /\ \A i, j \in 1..Cardinality(keep) : i < j => Nth(keep, i) < Nth(keep, j)
           /\ \A k \in keep : \E i \in 1..Cardinality(keep) : Nth(keep, i) = k
<1> DEFINE below == [k \in keep |-> {m \in keep : m <= k}]
<1>1. \A k \in keep : k \in Int
  OBVIOUS
<1>2. \A k \in keep : below[k] = {m \in keep : m <= k}
  OBVIOUS
<1>3. IsFiniteSet(keep)
  <2>1. IsFiniteSet(1..n)
    BY FS_Interval
  <2> QED BY <2>1, FS_Subset
<1>4. Chain(keep, below)
  <2>1. ASSUME NEW j \in keep, NEW k \in keep, j < k
        PROVE  k \notin below[j] /\ k \in below[k] /\ below[j] \subseteq below[k]
    <3>1. k \notin below[j] /\ k \in below[k]
      BY <1>1, <2>1
    <3>2. below[j] \subseteq below[k]
      <4> SUFFICES ASSUME NEW m \in below[j] PROVE m \in below[k]
        OBVIOUS
      <4>1. m \in keep /\ m <= j
        BY <1>2
      <4>2. m \in keep /\ m <= k
        BY <1>1, <2>1, <4>1
      <4> QED BY <1>2, <4>2
    <3> QED BY <3>1, <3>2
  <2>2. \A j, k \in keep : j # k => j < k \/ k < j
    BY <1>1
  <2>3. \A k \in keep : k \in below[k]
    BY <1>1
  <2> HIDE DEF below
  <2>4. \A j, k \in keep : j # k =>
             /\ below[j] # below[k]
             /\ below[j] \subseteq below[k] \/ below[k] \subseteq below[j]
    BY <2>1, <2>2
  <2>5. below \in [keep -> SUBSET keep]
    BY DEF below
  <2> QED BY <2>3, <2>4, <2>5 DEF Chain
<1>5. Ranked(keep, below)
  BY <1>3, <1>4, Ranking
<1>6. \A i \in 1..Cardinality(keep) :
         Nth(keep, i) \in keep /\ Cardinality(below[Nth(keep, i)]) = i
  BY <1>5 DEF Nth, Ranked
<1>7. ASSUME NEW j \in keep, NEW k \in keep, k <= j
      PROVE  below[k] \subseteq below[j]
  <2> SUFFICES ASSUME NEW m \in below[k] PROVE m \in below[j]
    OBVIOUS
  <2>1. m \in keep /\ m <= k
    BY <1>2
  <2>2. m \in keep /\ m <= j
    BY <1>1, <1>7, <2>1
  <2> QED BY <1>2, <2>2
<1> HIDE DEF below
<1>8. \A i, j \in 1..Cardinality(keep) : i < j => Nth(keep, i) < Nth(keep, j)
  <2> SUFFICES ASSUME NEW i \in 1..Cardinality(keep), NEW j \in 1..Cardinality(keep),
                      i < j, ~(Nth(keep, i) < Nth(keep, j))
               PROVE  FALSE
    OBVIOUS
  <2>1. Nth(keep, j) <= Nth(keep, i)
    <3>1. Nth(keep, i) \in Int /\ Nth(keep, j) \in Int
      BY <1>1, <1>6
    <3> QED BY <3>1
  <2>2. below[Nth(keep, j)] \subseteq below[Nth(keep, i)]
    BY <1>6, <1>7, <2>1
  <2>3. Cardinality(below[Nth(keep, j)]) <= Cardinality(below[Nth(keep, i)])
    BY <1>5, <1>6, <2>2 DEF Ranked
  <2>4. j <= i
    BY <1>6, <2>3
  <2> QED BY <2>4
<1>9. \A k \in keep : \E i \in 1..Cardinality(keep) : Nth(keep, i) = k
  BY <1>5, <1>6 DEF Ranked
<1> QED BY <1>5, <1>6, <1>8, <1>9 DEF Ranked

(* A filtering loop of the code keeps exactly the selected elements, in     *)
(* order.                                                                   *)
LEMMA KeptElements ==
    ASSUME NEW S, NEW seq \in Seq(S), NEW keep \in SUBSET DOMAIN seq
    PROVE  /\ Kept(seq, keep) \in Seq(S)
           /\ \A i \in DOMAIN Kept(seq, keep) :
                Nth(keep, i) \in keep /\ Kept(seq, keep)[i] = seq[Nth(keep, i)]
           /\ \A i, j \in DOMAIN Kept(seq, keep) : i < j => Nth(keep, i) < Nth(keep, j)
           /\ \A k \in keep : \E i \in DOMAIN Kept(seq, keep) : Nth(keep, i) = k
<1>1. Len(seq) \in Nat /\ keep \in SUBSET (1..Len(seq))
  OBVIOUS
<1>2. /\ Cardinality(keep) \in Nat
      /\ \A i \in 1..Cardinality(keep) : Nth(keep, i) \in keep
      /\ \A i, j \in 1..Cardinality(keep) : i < j => Nth(keep, i) < Nth(keep, j)
      /\ \A k \in keep : \E i \in 1..Cardinality(keep) : Nth(keep, i) = k
  BY <1>1, NthOfKept
<1>3. DOMAIN Kept(seq, keep) = 1..Cardinality(keep)
  BY DEF Kept
<1>4. \A i \in 1..Cardinality(keep) : Kept(seq, keep)[i] = seq[Nth(keep, i)]
  BY DEF Kept
<1>5. Kept(seq, keep) \in Seq(S)
  BY <1>1, <1>2 DEF Kept
<1> QED BY <1>2, <1>3, <1>4, <1>5

---------------------------------------------------------------------------
(* The sorting check of CheckPortOverlapsOptimized.                         *)

(* The literals of one protocol of a service's ports are a list of          *)
(* literals.                                                                *)
LEMMA OfProtocolType ==
    ASSUME NEW ports \in Seq(IngressPorts), NEW proto \in Protocols
    PROVE  OfProtocol(ports, proto) \in Seq(Literals)
<1> DEFINE keep == {i \in DOMAIN ports : ports[i].protocol = proto}
           mine == Kept(ports, keep)
<1>1. mine \in Seq(IngressPorts)
  <2>1. keep \in SUBSET DOMAIN ports
    OBVIOUS
  <2> HIDE DEF keep
  <2> QED BY <2>1, KeptElements
<1>2. OfProtocol(ports, proto) = [i \in DOMAIN mine |-> mine[i].port]
  BY DEF OfProtocol
<1> HIDE DEF mine
<1>3. \A i \in DOMAIN mine : mine[i] \in IngressPorts
  BY <1>1
<1>4. \A i \in DOMAIN mine : mine[i].port \in Literals
  BY <1>3 DEF IngressPorts
<1> QED BY <1>1, <1>2, <1>4

(* So are those of an entry of a mapping.                                   *)
LEMMA EntryPortsType ==
    ASSUME NEW e \in Entries, NEW proto \in Protocols
    PROVE  e.ports[proto] \in Seq(Literals)
<1>1. PICK s \in Services, ports \in PortLists :
         e = [name |-> s.name, ns |-> s.ns, ports |-> ConvertIngressPortsToProtocolPorts(ports)]
  BY DEF Entries
<1>2. e.ports[proto] = OfProtocol(ports, proto)
  BY <1>1 DEF ConvertIngressPortsToProtocolPorts
<1>3. ports \in Seq(IngressPorts)
  BY PortListsAssumption
<1> QED BY <1>2, <1>3, OfProtocolType

(* checkPortRangeOverlaps sorts by start port and compares neighbours       *)
(* only; it accepts exactly the lists in which no two ranges overlap,       *)
(* neighbours or not, whatever the order of equal starts.                   *)
THEOREM SortedCheck ==
    ASSUME NEW ranges \in Seq(PortRange)
    PROVE  checkPortRangeOverlaps(ranges)
           <=> \A p, q \in DOMAIN ranges :
                 p # q => ~DoPortRangesOverlap(ranges[p], ranges[q])
<1> DEFINE D == DOMAIN ranges
           below == [p \in D |-> UpTo(ranges, p)]
           n == Len(ranges)
           At(i) == CHOOSE p \in D : Cardinality(below[p]) = i
           sorted == SortedByStart(ranges)
<1>1. n \in Nat /\ D = 1..n /\ IsFiniteSet(D) /\ Cardinality(D) = n
  <2>1. n \in Nat /\ D = 1..n
    OBVIOUS
  <2>2. IsFiniteSet(1..n) /\ Cardinality(1..n) = n
    <3> HIDE DEF n
    <3> QED BY <2>1, FS_Interval
  <2> QED BY <2>1, <2>2
<1>2. \A p \in D : /\ p \in Int
                   /\ ranges[p].start \in Int /\ ranges[p].end \in Int
                   /\ ranges[p].start <= ranges[p].end
  BY MaxPortAssumption DEF PortRange
<1>3. \A p, q \in D : q \in below[p] <=> 
         \/ ranges[q].start < ranges[p].start
         \/ ranges[q].start = ranges[p].start /\ q <= p
  BY DEF UpTo
<1>4. below \in [D -> SUBSET D]
  BY DEF UpTo
<1>5. DOMAIN sorted = D /\ \A i \in D : sorted[i] = ranges[At(i)]
  BY DEF SortedByStart
<1> HIDE DEF below, n, D
<1>6. \A p \in D : p \in below[p]
  BY <1>2, <1>3
<1>7. ASSUME NEW p \in D, NEW q \in D, p # q
      PROVE  /\ below[p] # below[q]
             /\ below[p] \subseteq below[q] \/ below[q] \subseteq below[p]
  <2>1. ASSUME NEW a \in D, NEW b \in D, a \in below[b], a # b
        PROVE  below[a] \subseteq below[b] /\ b \notin below[a]
    <3>1. b \notin below[a]
      BY <1>2, <1>3, <2>1
    <3>2. ASSUME NEW c \in below[a] PROVE c \in below[b]
      <4>1. c \in D
        BY <1>4
      <4> QED BY <1>2, <1>3, <2>1, <4>1
    <3> QED BY <3>1, <3>2
  <2>2. p \in below[q] \/ q \in below[p]
    BY <1>2, <1>3
  <2> QED BY <1>6, <1>7, <2>1, <2>2
<1>8. Chain(D, below)
  BY <1>4, <1>6, <1>7 DEF Chain
<1>9. /\ Ranked(D, below)
      /\ Cardinality(D) = n
  BY <1>1, <1>8, Ranking
<1>10. \A i \in D : At(i) \in D /\ Cardinality(below[At(i)]) = i
  BY <1>1, <1>9 DEF Ranked
<1> HIDE DEF At, sorted
<1>11. \A i \in D : sorted[i].start \in Int /\ sorted[i].end \in Int
  BY <1>2, <1>10, <1>5
<1>12. ASSUME NEW i \in D, NEW j \in D, i <= j
      PROVE  sorted[i].start <= sorted[j].start
  <2>1. below[At(i)] \subseteq below[At(j)]
    BY <1>9, <1>10, <1>12 DEF Ranked
  <2>2. At(i) \in below[At(j)]
    BY <1>6, <1>10, <2>1
  <2>3. ranges[At(i)].start <= ranges[At(j)].start
    BY <1>2, <1>3, <1>10, <2>2
  <2> QED BY <1>5, <2>3
<1>13. Len(sorted) = n
  BY <1>5, <1>1
<1>14. ASSUME checkPortRangeOverlaps(ranges),
              NEW p \in D, NEW q \in D, p # q
       PROVE  ~DoPortRangesOverlap(ranges[p], ranges[q])
  <2>1. \A i \in 1..(n - 1) : sorted[i].end < sorted[i + 1].start
    BY <1>13, <1>14 DEF checkPortRangeOverlaps, sorted
  <2>2. ASSUME NEW i \in D, NEW j \in D, i < j
        PROVE  sorted[i].end < sorted[j].start
    <3>1. i \in 1..(n - 1) /\ i + 1 \in D /\ i + 1 <= j
      BY <1>1, <2>2
    <3>2. sorted[i].end < sorted[i + 1].start
      BY <2>1, <3>1
    <3>3. sorted[i + 1].start <= sorted[j].start
      BY <1>12, <3>1
    <3>4. /\ sorted[i].end \in Int /\ sorted[j].start \in Int
          /\ sorted[i + 1].start \in Int
      BY <1>5, <1>11, <3>1
    <3> QED BY <3>2, <3>3, <3>4
  <2> DEFINE i == Cardinality(below[p])
             j == Cardinality(below[q])
  <2>3. i \in D /\ j \in D
    BY <1>1, <1>9 DEF Ranked
  <2>4. i # j
    BY <1>9, <1>14 DEF Ranked
  <2>5. At(i) = p /\ At(j) = q
    BY <1>9, <1>10, <2>3 DEF Ranked
  <2>6. i \in D /\ j \in D /\ i # j /\ At(i) = p /\ At(j) = q
    BY <2>3, <2>4, <2>5
  <2>7. sorted[i] = ranges[p] /\ sorted[j] = ranges[q]
    BY <1>5, <2>6
  <2> HIDE DEF i, j
  <2>8. CASE i < j
    <3>1. ranges[p].end < ranges[q].start
      BY <2>2, <2>6, <2>7, <2>8
    <3> QED BY <3>1, <1>2 DEF DoPortRangesOverlap
  <2>9. CASE j < i
    <3>1. ranges[q].end < ranges[p].start
      BY <2>2, <2>6, <2>7, <2>9
    <3> QED BY <3>1, <1>2 DEF DoPortRangesOverlap
  <2> QED BY <1>1, <2>6, <2>8, <2>9
<1>15. ASSUME \A p, q \in D : p # q => ~DoPortRangesOverlap(ranges[p], ranges[q])
       PROVE  checkPortRangeOverlaps(ranges)
  <2> SUFFICES ASSUME NEW i \in 1..(n - 1) PROVE sorted[i].end < sorted[i + 1].start
    BY <1>13 DEF checkPortRangeOverlaps, sorted
  <2>1. i \in D /\ i + 1 \in D /\ i \in Int
    BY <1>1
  <2>2. At(i) \in D /\ At(i + 1) \in D /\ At(i) # At(i + 1)
    BY <1>10, <2>1
  <2>3. ~DoPortRangesOverlap(ranges[At(i)], ranges[At(i + 1)])
    BY <1>15, <2>2
  <2>4. ranges[At(i)].start <= ranges[At(i + 1)].start
    BY <1>12, <1>5, <2>1
  <2>5. ranges[At(i)].end < ranges[At(i + 1)].start
    BY <1>2, <2>2, <2>3, <2>4 DEF DoPortRangesOverlap
  <2> QED BY <1>5, <2>1, <2>5
<1> QED BY <1>14, <1>15 DEF D

(* The equation that the loop over the entries solves.                      *)
Concat(entries, proto, upTo) ==
    [k \in 0..Len(entries) |-> IF k = 0 THEN <<>>
                               ELSE upTo[k - 1] \o entries[k].ports[proto]]

(* It has a solution, the one Gathered uses.                                *)
LEMMA GatheredUnfolds ==
    ASSUME NEW S, NEW entries \in Seq(S), NEW proto
    PROVE  \E upTo : upTo = Concat(entries, proto, upTo) /\ Gathered(entries, proto) = upTo[Len(entries)]
<1> DEFINE n == Len(entries)
           Prefix(m, f) == f = [k \in 0..m |-> IF k = 0 THEN <<>>
                                               ELSE f[k - 1] \o entries[k].ports[proto]]
           T == {m \in Nat : \E f : Prefix(m, f)}
<1>1. 0 \in T
  <2> DEFINE f == [k \in 0..0 |-> <<>>]
  <2>1. Prefix(0, f)
    OBVIOUS
  <2> QED BY <2>1
<1>2. ASSUME NEW m \in Nat, m \in T PROVE m + 1 \in T
  <2>1. PICK g : Prefix(m, g)
    BY <1>2
  <2> DEFINE f == [k \in 0..(m + 1) |-> IF k = 0 THEN <<>>
                                       ELSE g[k - 1] \o entries[k].ports[proto]]
  <2>2. ASSUME NEW k \in 0..m PROVE f[k] = g[k]
    <3>1. k \in 0..(m + 1)
      OBVIOUS
    <3>2. f[k] = IF k = 0 THEN <<>> ELSE g[k - 1] \o entries[k].ports[proto]
      BY <3>1
    <3>3. g[k] = IF k = 0 THEN <<>> ELSE g[k - 1] \o entries[k].ports[proto]
      BY <2>1
    <3> QED BY <3>2, <3>3
  <2>3. f = [k \in 0..(m + 1) |-> IF k = 0 THEN <<>>
                                  ELSE f[k - 1] \o entries[k].ports[proto]]
    <3> HIDE DEF Prefix
    <3>1. ASSUME NEW k \in 0..(m + 1), k # 0 PROVE f[k - 1] = g[k - 1]
      <4>1. k - 1 \in 0..m
        BY <3>1
      <4> HIDE DEF f
      <4> QED BY <2>2, <4>1
    <3> QED BY <3>1
  <2> HIDE DEF f
  <2> QED BY <2>3
<1>3. n \in Nat
  OBVIOUS
<1> HIDE DEF Prefix
<1>4. \A m \in Nat : m \in T => m + 1 \in T
  BY <1>2
<1>5. n \in T
  <2> HIDE DEF T
  <2> QED BY <1>1, <1>4, <1>3, Induction
<1>6. \E f : f = Concat(entries, proto, f)
  BY <1>5 DEF Prefix, Concat
<1> QED BY <1>6 DEF Gathered, Concat

(* A list that holds the literals of the first n entries, each once;        *)
(* which[i] and where[i] tell where its i-th element comes from.            *)
Enumerates(list, entries, proto, n, which, where) ==
    /\ list \in Seq(Literals)
    /\ \A i \in DOMAIN list :
         /\ which[i] \in 1..n /\ where[i] \in DOMAIN entries[which[i]].ports[proto]
         /\ list[i] = entries[which[i]].ports[proto][where[i]]
    /\ \A i, j \in DOMAIN list : which[i] = which[j] /\ where[i] = where[j] => i = j
    /\ \A k \in 1..n : \A p \in DOMAIN entries[k].ports[proto] :
         \E i \in DOMAIN list : which[i] = k /\ where[i] = p

(* Appending the literals of the next entry.                                *)
LEMMA EnumeratesMore ==
    ASSUME NEW entries \in Seq(Entries), NEW proto \in Protocols, NEW n \in Nat, n < Len(entries),
           NEW list, NEW which, NEW where, Enumerates(list, entries, proto, n, which, where)
    PROVE  \E which2, where2 :
             Enumerates(list \o entries[n + 1].ports[proto], entries, proto, n + 1, which2, where2)
<1> DEFINE more == entries[n + 1].ports[proto]
           l == Len(list)
           which2 == [i \in 1..(l + Len(more)) |-> IF i <= l THEN which[i] ELSE n + 1]
           where2 == [i \in 1..(l + Len(more)) |-> IF i <= l THEN where[i] ELSE i - l]
           all == list \o more
<1>1. more \in Seq(Literals)
  <2>1. entries[n + 1] \in Entries
    OBVIOUS
  <2> QED BY <2>1, EntryPortsType
<1>2. list \in Seq(Literals)
  BY DEF Enumerates
<1>3. l \in Nat /\ DOMAIN list = 1..l /\ Len(more) \in Nat /\ DOMAIN more = 1..Len(more)
  BY <1>1, <1>2
<1>4. /\ all \in Seq(Literals) /\ DOMAIN all = 1..(l + Len(more))
      /\ \A i \in 1..l : all[i] = list[i]
      /\ \A i \in 1..(l + Len(more)) : ~(i <= l) => all[i] = more[i - l]
  <2> HIDE DEF more
  <2> QED BY <1>1, <1>2, <1>3
<1>5. /\ \A i \in 1..(l + Len(more)) : i <= l => i \in 1..l /\ which2[i] = which[i] /\ where2[i] = where[i]
      /\ \A i \in 1..(l + Len(more)) : ~(i <= l) => i - l \in DOMAIN more /\ which2[i] = n + 1 /\ where2[i] = i - l
  BY <1>3
<1> HIDE DEF which2, where2, all, l
<1>6. ASSUME NEW i \in DOMAIN all
      PROVE  /\ which2[i] \in 1..(n + 1) /\ where2[i] \in DOMAIN entries[which2[i]].ports[proto]
             /\ all[i] = entries[which2[i]].ports[proto][where2[i]]
  <2>1. CASE i <= l
    <3>1. which[i] \in 1..n /\ where[i] \in DOMAIN entries[which[i]].ports[proto]
          /\ list[i] = entries[which[i]].ports[proto][where[i]]
      BY <1>3, <1>4, <1>5, <2>1 DEF Enumerates
    <3> QED BY <1>4, <1>5, <2>1, <3>1
  <2>2. CASE ~(i <= l)
    BY <1>4, <1>5, <2>2
  <2> QED BY <2>1, <2>2
<1>7. ASSUME NEW i \in DOMAIN all, NEW j \in DOMAIN all,
             which2[i] = which2[j], where2[i] = where2[j]
      PROVE  i = j
  <2>1. \A k \in 1..l : which[k] # n + 1
    BY <1>3 DEF Enumerates
  <2>2. CASE i <= l /\ j <= l
    BY <1>3, <1>4, <1>5, <1>7, <2>2 DEF Enumerates
  <2>3. CASE ~(i <= l) /\ ~(j <= l)
    BY <1>3, <1>4, <1>5, <1>7, <2>3
  <2>4. CASE ~(i <= l) /\ j <= l
    BY <1>4, <1>5, <1>7, <2>1, <2>4
  <2>5. CASE i <= l /\ ~(j <= l)
    BY <1>4, <1>5, <1>7, <2>1, <2>5
  <2> QED BY <2>2, <2>3, <2>4, <2>5
<1>8. ASSUME NEW k \in 1..(n + 1), NEW p \in DOMAIN entries[k].ports[proto]
      PROVE  \E i \in DOMAIN all : which2[i] = k /\ where2[i] = p
  <2>1. CASE k \in 1..n
    <3>1. PICK i \in DOMAIN list : which[i] = k /\ where[i] = p
      BY <2>1 DEF Enumerates
    <3>2. i \in DOMAIN all /\ i <= l
      BY <1>3, <1>4
    <3> QED BY <1>4, <1>5, <3>1, <3>2
  <2>2. CASE k = n + 1
    <3>1. p \in 1..Len(more)
      BY <1>3, <2>2
    <3>2. l + p \in DOMAIN all /\ ~(l + p <= l) /\ (l + p) - l = p
      BY <1>3, <1>4, <3>1
    <3> QED BY <1>4, <1>5, <2>2, <3>2
  <2> QED BY <2>1, <2>2
<1>9. Enumerates(all, entries, proto, n + 1, which2, where2)
  <2> HIDE DEF more
  <2> QED BY <1>4, <1>6, <1>7, <1>8 DEF Enumerates
<1> QED BY <1>9 DEF all

(* Gathered loses no literal of the entries and invents none.               *)
LEMMA GatheredEnumerates ==
    ASSUME NEW entries \in Seq(Entries), NEW proto \in Protocols
    PROVE  \E which, where :
             Enumerates(Gathered(entries, proto), entries, proto, Len(entries), which, where)
<1>1. PICK upTo : upTo = Concat(entries, proto, upTo) /\ Gathered(entries, proto) = upTo[Len(entries)]
  BY GatheredUnfolds
<1> DEFINE T == {k \in Nat : k <= Len(entries) =>
                   \E which, where : Enumerates(upTo[k], entries, proto, k, which, where)}
<1>2. 0 \in T
  <2>1. upTo[0] = <<>>
    BY <1>1 DEF Concat
  <2>2. Enumerates(<<>>, entries, proto, 0, <<>>, <<>>)
    BY DEF Enumerates
  <2> QED BY <2>1, <2>2
<1>3. ASSUME NEW k \in Nat, k \in T PROVE k + 1 \in T
  <2> SUFFICES ASSUME k + 1 <= Len(entries)
               PROVE  \E which, where : Enumerates(upTo[k + 1], entries, proto, k + 1, which, where)
    OBVIOUS
  <2>1. k < Len(entries) /\ k + 1 \in 0..Len(entries) /\ k + 1 # 0 /\ (k + 1) - 1 = k
    OBVIOUS
  <2>2. PICK which, where : Enumerates(upTo[k], entries, proto, k, which, where)
    BY <1>3, <2>1
  <2>3. upTo[k + 1] = upTo[k] \o entries[k + 1].ports[proto]
    BY <1>1, <2>1 DEF Concat
  <2> QED BY <2>1, <2>2, <2>3, EnumeratesMore
<1>4. Len(entries) \in T
  <2>1. \A k \in Nat : k \in T => k + 1 \in T
    BY <1>3
  <2>2. Len(entries) \in Nat
    OBVIOUS
  <2> HIDE DEF T
  <2> QED BY <1>2, <2>1, <2>2, Induction
<1> QED BY <1>1, <1>4

(* NoDuplicates looks at later against earlier literals only; it holds of   *)
(* any two.                                                                 *)
LEMMA NoDuplicatesBothWays ==
    ASSUME NEW texts \in Seq(Literals), AllParse(texts), NoDuplicates(texts),
           NEW i \in DOMAIN texts, NEW j \in DOMAIN texts, i # j
    PROVE  ~DoPortRangesOverlap(ParsePortRange(texts[i]), ParsePortRange(texts[j]))
<1>1. /\ ParsePortRange(texts[i]) \in PortRange
      /\ ParsePortRange(texts[j]) \in PortRange
  BY ParsedIsRange DEF AllParse
<1>2. i < j \/ j < i
  OBVIOUS
<1> QED BY <1>1, <1>2, OverlapSymmetric DEF NoDuplicates

(* No range of one list overlaps a range of the other.                      *)
Apart(a, b) ==
    \A i \in DOMAIN a, j \in DOMAIN b :
        ~DoPortRangesOverlap(ParsePortRange(a[i]), ParsePortRange(b[j]))

(* The sorting check on two joined lists that are each free of overlaps     *)
(* asks whether the lists are apart.                                        *)
LEMMA JoinedCheck ==
    ASSUME NEW a \in Seq(Literals), NEW b \in Seq(Literals),
           AllParse(a), AllParse(b), NoDuplicates(a), NoDuplicates(b)
    PROVE  checkPortRangeOverlaps(RangesOf(a \o b)) <=> Apart(b, a)
<1> DEFINE ab == a \o b
           r == RangesOf(ab)
           Overlap(p, q) == DoPortRangesOverlap(r[p], r[q])
           l == Len(a)
<1>1. /\ l \in Nat /\ Len(b) \in Nat /\ DOMAIN ab = 1..(l + Len(b))
      /\ DOMAIN a = 1..l /\ DOMAIN b = 1..Len(b)
      /\ \A i \in 1..l : ab[i] = a[i]
      /\ \A j \in 1..Len(b) : ab[l + j] = b[j]
      /\ ab \in Seq(Literals)
  OBVIOUS
<1> HIDE DEF ab
<1>2. DOMAIN r = DOMAIN ab /\ \A i \in DOMAIN ab : r[i] = ParsePortRange(ab[i])
  BY DEF RangesOf
<1> HIDE DEF r, l
<1>3. /\ \A i \in DOMAIN a : i \in DOMAIN r /\ r[i] = ParsePortRange(a[i])
      /\ \A j \in DOMAIN b : l + j \in DOMAIN r /\ r[l + j] = ParsePortRange(b[j])
      /\ \A p \in DOMAIN r : p \in DOMAIN a \/ \E j \in DOMAIN b : p = l + j
  <2>1. \A p \in DOMAIN r : p \in DOMAIN a \/ (p - l \in DOMAIN b /\ p = l + (p - l))
    BY <1>1, <1>2
  <2>2. \A p \in DOMAIN r : p \in DOMAIN a \/ \E j \in DOMAIN b : p = l + j
    BY <2>1
  <2>3. \A j \in DOMAIN b : l + j \in DOMAIN r
    BY <1>1, <1>2
  <2>4. \A i \in DOMAIN a : i \in DOMAIN r
    BY <1>1, <1>2
  <2> QED BY <1>1, <1>2, <2>2, <2>3, <2>4
<1>4. /\ \A i \in DOMAIN a : ParsePortRange(a[i]) \in PortRange
      /\ \A j \in DOMAIN b : ParsePortRange(b[j]) \in PortRange
  BY ParsedIsRange DEF AllParse
<1>5. r \in Seq(PortRange)
  <2>1. \A p \in DOMAIN r : r[p] \in PortRange
    BY <1>3, <1>4
  <2>2. r = [i \in 1..(l + Len(b)) |-> ParsePortRange(ab[i])]
    BY <1>1 DEF r, RangesOf
  <2> QED BY <1>1, <1>2, <2>1, <2>2
<1>6. checkPortRangeOverlaps(r) <=> \A p, q \in DOMAIN r : p # q => ~Overlap(p, q)
  BY <1>5, SortedCheck
<1>7. ASSUME \A p, q \in DOMAIN r : p # q => ~Overlap(p, q)
      PROVE  Apart(b, a)
  <2> SUFFICES ASSUME NEW i \in DOMAIN b, NEW j \in DOMAIN a
               PROVE  ~DoPortRangesOverlap(ParsePortRange(b[i]), ParsePortRange(a[j]))
    BY DEF Apart
  <2>1. l + i # j
    BY <1>1
  <2>2. ~Overlap(l + i, j)
    BY <1>3, <1>7, <2>1
  <2> QED BY <1>3, <2>2
<1>8. ASSUME Apart(b, a), NEW p \in DOMAIN r, NEW q \in DOMAIN r, p # q
      PROVE  ~Overlap(p, q)
  <2>1. CASE p \in DOMAIN a /\ q \in DOMAIN a
    BY <1>3, <1>8, <2>1, NoDuplicatesBothWays
  <2>2. CASE \E i, j \in DOMAIN b : p = l + i /\ q = l + j
    <3>1. PICK i, j \in DOMAIN b : p = l + i /\ q = l + j
      BY <2>2
    <3>2. i # j
      BY <1>8, <3>1
    <3> QED BY <1>3, <3>1, <3>2, NoDuplicatesBothWays
  <2>3. CASE q \in DOMAIN a /\ \E i \in DOMAIN b : p = l + i
    BY <1>3, <1>8, <2>3 DEF Apart
  <2>4. CASE p \in DOMAIN a /\ \E i \in DOMAIN b : q = l + i
    <3>1. PICK i \in DOMAIN b : q = l + i
      BY <2>4
    <3>2. ~DoPortRangesOverlap(ParsePortRange(b[i]), ParsePortRange(a[p]))
      BY <1>8, <2>4 DEF Apart
    <3> QED BY <1>3, <1>4, <2>4, <3>1, <3>2, OverlapSymmetric
  <2> QED BY <1>3, <2>1, <2>2, <2>3, <2>4
<1>9. checkPortRangeOverlaps(r) <=> Apart(b, a)
  <2> HIDE DEF Overlap
  <2> QED BY <1>6, <1>7, <1>8
<1> QED BY <1>9 DEF r, ab

---------------------------------------------------------------------------
(* Types of the registry, and whose entries it holds.                       *)

(* The entry a reconcile writes is an entry of a known service.             *)
LEMMA EntryOfType ==
    ASSUME TypeOK, NEW s \in Services
    PROVE  EntryOf(s) \in Entries
<1>1. spec[s] \in PortLists
  BY DEF TypeOK
<1> QED BY <1>1 DEF EntryOf, Entries

(* Without drops the entries of the service and no other.                   *)
LEMMA WithoutElements ==
    ASSUME TypeOK, NEW s
    PROVE  /\ Without(s) \in Seq(Entries)
           /\ \A i \in DOMAIN Without(s) : \E k \in DOMAIN items :
                Without(s)[i] = items[k] /\ ~IsFor(items[k], s)
           /\ \A i, j \in DOMAIN Without(s) : i # j => \E k, m \in DOMAIN items :
                k # m /\ Without(s)[i] = items[k] /\ Without(s)[j] = items[m]
           /\ \A k \in DOMAIN items : ~IsFor(items[k], s) =>
                \E i \in DOMAIN Without(s) : Without(s)[i] = items[k]
<1> DEFINE keep == {k \in DOMAIN items : ~IsFor(items[k], s)}
<1>1. Without(s) = Kept(items, keep)
  BY DEF Without
<1>2. keep \in SUBSET DOMAIN items
  OBVIOUS
<1>3. items \in Seq(Entries)
  BY DEF TypeOK
<1>4. \A k \in DOMAIN items : k \in keep <=> ~IsFor(items[k], s)
  OBVIOUS
<1> HIDE DEF keep
<1>5. /\ Kept(items, keep) \in Seq(Entries)
      /\ \A i \in DOMAIN Kept(items, keep) :
           Nth(keep, i) \in keep /\ Kept(items, keep)[i] = items[Nth(keep, i)]
      /\ \A i, j \in DOMAIN Kept(items, keep) : i < j => Nth(keep, i) < Nth(keep, j)
      /\ \A k \in keep : \E i \in DOMAIN Kept(items, keep) : Nth(keep, i) = k
  BY <1>2, <1>3, KeptElements
<1>6. ASSUME NEW i \in DOMAIN Kept(items, keep), NEW j \in DOMAIN Kept(items, keep), i # j
      PROVE  Nth(keep, i) # Nth(keep, j)
  <2>1. i \in Int /\ j \in Int
    BY <1>5
  <2>2. Nth(keep, i) \in Int /\ Nth(keep, j) \in Int
    BY <1>2, <1>3, <1>5
  <2>3. CASE i < j
    BY <1>5, <2>2, <2>3
  <2>4. CASE j < i
    BY <1>5, <2>2, <2>4
  <2> QED BY <1>6, <2>1, <2>3, <2>4
<1>7. \A i \in DOMAIN Kept(items, keep) : Nth(keep, i) \in DOMAIN items /\ ~IsFor(items[Nth(keep, i)], s)
  BY <1>2, <1>4, <1>5
<1> QED BY <1>1, <1>2, <1>4, <1>5, <1>6, <1>7

(* WithEntry has the service's entry, the other entries where they were,    *)
(* and no further one.                                                      *)
LEMMA WithEntryElements ==
    ASSUME TypeOK, NEW s \in Services
    PROVE  /\ WithEntry(s) \in Seq(Entries)
           /\ \A i \in DOMAIN WithEntry(s) :
                \/ WithEntry(s)[i] = EntryOf(s)
                \/ i \in DOMAIN items /\ WithEntry(s)[i] = items[i] /\ ~IsFor(items[i], s)
           /\ \E i \in DOMAIN WithEntry(s) : WithEntry(s)[i] = EntryOf(s)
           /\ \A i \in DOMAIN items :
                i \in DOMAIN WithEntry(s) /\ (~IsFor(items[i], s) => WithEntry(s)[i] = items[i])
           /\ \A i, j \in DOMAIN WithEntry(s) :
                \/ i = j
                \/ WithEntry(s)[i] # EntryOf(s)
                \/ WithEntry(s)[j] # EntryOf(s)
                \/ i \in DOMAIN items /\ j \in DOMAIN items /\ IsFor(items[i], s) /\ IsFor(items[j], s)
<1>1. EntryOf(s) \in Entries
  BY EntryOfType
<1>2. items \in Seq(Entries)
  BY DEF TypeOK
<1>3. IsFor(EntryOf(s), s)
  BY DEF IsFor, EntryOf
<1> HIDE DEF TypeOK
<1> DEFINE Where ==
             \A i \in DOMAIN WithEntry(s) :
               \/ WithEntry(s)[i] = EntryOf(s)
               \/ i \in DOMAIN items /\ WithEntry(s)[i] = items[i] /\ ~IsFor(items[i], s)
           Once ==
             \A i, j \in DOMAIN WithEntry(s) :
               \/ i = j
               \/ WithEntry(s)[i] # EntryOf(s)
               \/ WithEntry(s)[j] # EntryOf(s)
               \/ i \in DOMAIN items /\ j \in DOMAIN items /\ IsFor(items[i], s) /\ IsFor(items[j], s)
           There == \E i \in DOMAIN WithEntry(s) : WithEntry(s)[i] = EntryOf(s)
           Others ==
             \A i \in DOMAIN items :
               i \in DOMAIN WithEntry(s) /\ (~IsFor(items[i], s) => WithEntry(s)[i] = items[i])
<1>4. CASE \E k \in DOMAIN items : IsFor(items[k], s)
  <2>1. WithEntry(s) = [k \in DOMAIN items |-> IF IsFor(items[k], s) THEN EntryOf(s) ELSE items[k]]
    BY <1>4 DEF WithEntry
  <2>2. WithEntry(s) \in Seq(Entries)
    BY <1>1, <1>2, <2>1
  <2>3. DOMAIN WithEntry(s) = DOMAIN items
    BY <2>1
  <2>4. \A k \in DOMAIN items : WithEntry(s)[k] = IF IsFor(items[k], s) THEN EntryOf(s) ELSE items[k]
    BY <2>1
  <2>5. Where
    BY <2>3, <2>4
  <2>6. Once
    BY <1>3, <2>3, <2>4
  <2>7. There
    BY <1>4, <2>3, <2>4
  <2>8. Others
    BY <2>3, <2>4
  <2> QED BY <2>2, <2>5, <2>6, <2>7, <2>8
<1>5. CASE ~\E k \in DOMAIN items : IsFor(items[k], s)
  <2>1. WithEntry(s) = Append(items, EntryOf(s))
    BY <1>5 DEF WithEntry
  <2>2. WithEntry(s) \in Seq(Entries)
    BY <1>1, <1>2, <2>1
  <2>3. DOMAIN WithEntry(s) = 1..(Len(items) + 1) /\ DOMAIN items = 1..Len(items) /\ Len(items) \in Nat
    BY <1>1, <1>2, <2>1
  <2>4. \A k \in DOMAIN items : WithEntry(s)[k] = items[k]
    BY <1>1, <1>2, <2>1
  <2>5. WithEntry(s)[Len(items) + 1] = EntryOf(s)
    BY <1>1, <1>2, <2>1
  <2>6. \A i \in DOMAIN WithEntry(s) : i \in DOMAIN items \/ i = Len(items) + 1
    BY <2>3
  <2>7. \A i \in DOMAIN items : i \in DOMAIN WithEntry(s)
    BY <2>3
  <2>8. Where
    BY <1>5, <2>4, <2>5, <2>6
  <2>9. Once
    BY <1>3, <1>5, <2>4, <2>6
  <2>10. There
    BY <2>3, <2>5
  <2>11. Others
    BY <2>4, <2>7
  <2> QED BY <2>2, <2>8, <2>9, <2>10, <2>11
<1> QED BY <1>4, <1>5

(* The type invariant holds at the start.                                   *)
LEMMA InitTypeOK == Init => TypeOK
<1> SUFFICES ASSUME Init PROVE TypeOK
  OBVIOUS
<1>1. items \in Seq(Entries)
  BY DEF Init
<1>2. spec \in [Services -> PortLists]
  BY DEF Init, ValidLists
<1> QED BY <1>1, <1>2 DEF Init, TypeOK, BindingObjects

(* A binding of the group that goes on to another phase, or ends.           *)
LEMMA BindingSteps ==
    ASSUME TypeOK, NEW b \in Bindings
    PROVE  /\ binding[b] \in BindingObjects
           /\ binding[b].phase # "absent" => binding[b].service \in Services
           /\ \A phase \in Live \cup {"deleting"} : binding[b].phase # "absent" =>
                /\ To(b, phase) \in [Bindings -> BindingObjects]
                /\ To(b, phase)[b] = [phase |-> phase, service |-> binding[b].service]
                /\ \A c \in Bindings \ {b} : To(b, phase)[c] = binding[c]
           /\ [binding EXCEPT ![b] = Elsewhere] \in [Bindings -> BindingObjects]
<1>1. binding \in [Bindings -> BindingObjects]
  BY DEF TypeOK
<1>2. binding[b] = Elsewhere \/ binding[b] \in [phase : Live \cup {"deleting"}, service : Services]
  BY <1>1 DEF BindingObjects
<1>3. Elsewhere.phase = "absent"
  BY DEF Elsewhere
<1>4. ASSUME NEW phase \in Live \cup {"deleting"}, binding[b].phase # "absent"
      PROVE  /\ To(b, phase) \in [Bindings -> BindingObjects]
             /\ To(b, phase)[b] = [phase |-> phase, service |-> binding[b].service]
             /\ \A c \in Bindings \ {b} : To(b, phase)[c] = binding[c]
  <2>1. binding[b] \in [phase : Live \cup {"deleting"}, service : Services]
    BY <1>2, <1>3, <1>4
  <2>2. [binding[b] EXCEPT !.phase = phase] = [phase |-> phase, service |-> binding[b].service]
    BY <2>1
  <2>3. To(b, phase) = [binding EXCEPT ![b] = [phase |-> phase, service |-> binding[b].service]]
    BY <2>2 DEF To
  <2>4. [phase |-> phase, service |-> binding[b].service] \in BindingObjects
    BY <2>1 DEF BindingObjects
  <2> QED BY <1>1, <2>3, <2>4
<1> QED BY <1>1, <1>2, <1>3, <1>4 DEF BindingObjects

(* Every action preserves the type invariant.                               *)
LEMMA NextTypeOK == TypeOK /\ [Next]_vars => TypeOK'
<1> SUFFICES ASSUME TypeOK, [Next]_vars PROVE TypeOK'
  OBVIOUS
<1> USE DEF Live, Unready
<1>1. ASSUME NEW s \in Services, NEW ports \in PortLists, UpdatePorts(s, ports)
      PROVE  TypeOK'
  BY <1>1 DEF UpdatePorts, TypeOK, BindingObjects, Entries
<1>2. ASSUME NEW b \in Bindings, NEW s \in Services, CreateBinding(b, s) PROVE TypeOK'
  <2>1. [phase |-> "new", service |-> s] \in BindingObjects
    BY DEF BindingObjects
  <2> QED BY <1>2, <2>1 DEF CreateBinding, TypeOK, Entries
<1>3. ASSUME NEW b \in Bindings, NEW to \in BindingObjects, UpdateBinding(b, to) PROVE TypeOK'
  BY <1>3 DEF UpdateBinding, TypeOK, Entries
<1>4. ASSUME NEW b \in Bindings, DeleteBinding(b) PROVE TypeOK'
  <2>1. binding' \in [Bindings -> BindingObjects]
    BY <1>4, BindingSteps DEF DeleteBinding
  <2> QED BY <1>4, <2>1 DEF DeleteBinding, TypeOK, Entries
<1>5. ASSUME NEW b \in Bindings, AddFinalizer(b) PROVE TypeOK'
  <2>1. binding' \in [Bindings -> BindingObjects]
    BY <1>5, BindingSteps DEF AddFinalizer
  <2> QED BY <1>5, <2>1 DEF AddFinalizer, TypeOK, Entries
<1>6. ASSUME NEW b \in Bindings, ReconcileBinding(b) PROVE TypeOK'
  <2> DEFINE s == binding[b].service
  <2>1. s \in Services
    BY <1>6, BindingSteps DEF ReconcileBinding
  <2>2. binding' \in [Bindings -> BindingObjects]
    BY <1>6, BindingSteps DEF ReconcileBinding
  <2>3. WithEntry(s) \in Seq(Entries)
    BY <2>1, WithEntryElements
  <2> QED BY <1>6, <2>1, <2>2, <2>3 DEF ReconcileBinding, TypeOK, Entries
<1>7. ASSUME NEW s \in Services, ReconcileService(s) PROVE TypeOK'
  <2>1. WithEntry(s) \in Seq(Entries)
    BY WithEntryElements
  <2> QED BY <1>7, <2>1 DEF ReconcileService, TypeOK, Entries
<1>8. ASSUME NEW b \in Bindings, ReconcileDeletedBinding(b) PROVE TypeOK'
  <2>1. Without(binding[b].service) \in Seq(Entries)
    BY WithoutElements
  <2>2. binding' \in [Bindings -> BindingObjects]
    BY <1>8, BindingSteps DEF ReconcileDeletedBinding
  <2> QED BY <1>8, <2>1, <2>2 DEF ReconcileDeletedBinding, TypeOK, Entries
<1>9. CASE UNCHANGED vars
  BY <1>9 DEF vars, TypeOK, Entries
<1> QED
  BY <1>1, <1>2, <1>3, <1>4, <1>5, <1>6, <1>7, <1>8, <1>9 DEF Next

(* The type invariant: whatever is bound, changed or reconciled, the        *)
(* mapping holds entries of known services with port lists that users       *)
(* submitted.                                                               *)
THEOREM PortTypes == Spec => []TypeOK
BY InitTypeOK, NextTypeOK, PTL DEF Spec

(* A binding of the service has a finalizer, so that it will be cleaned up. *)
Held(s) ==
    \E b \in Bindings :
        binding[b].service = s /\ binding[b].phase \in {"finalized", "owned", "ready", "deleting"}

(* The inductive form of EntriesHaveBindings.                               *)
Backed   == \A s \in listed : s \in strays \/ Held(s)
Recorded == \A s \in Services, k \in DOMAIN items : IsFor(items[k], s) => s \in listed

(* An entry is for one service: names and namespaces identify it.           *)
LEMMA ForOne ==
    ASSUME NEW s \in Services, NEW t \in Services, IsFor(EntryOf(s), t)
    PROVE  s = t
BY IdentityAssumption DEF IsFor, EntryOf

(* Every action preserves it.  A binding without a finalizer holds nothing, *)
(* so that it may go without clean-up; one that ends takes off the group     *)
(* only the service it held, and then nobody needs to hold it.              *)
LEMMA NextBacked == TypeOK /\ Backed /\ [Next]_vars => Backed'
<1> SUFFICES ASSUME TypeOK, Backed, [Next]_vars PROVE Backed'
  OBVIOUS
<1> USE DEF Backed, Held
<1>1. binding \in [Bindings -> BindingObjects]
  BY DEF TypeOK
<1>2. ASSUME NEW b \in Bindings, NEW s \in Services, CreateBinding(b, s) PROVE Backed'
  <2>1. binding[b].phase = "absent"
    BY <1>2 DEF CreateBinding, Elsewhere
  <2> QED BY <1>1, <1>2, <2>1 DEF CreateBinding
<1>3. ASSUME NEW b \in Bindings, NEW to \in BindingObjects, UpdateBinding(b, to) PROVE Backed'
  <2> SUFFICES ASSUME NEW s \in listed, s \notin strays' PROVE Held(s)'
    BY <1>3 DEF UpdateBinding
  <2>1. PICK c \in Bindings :
           /\ binding[c].service = s
           /\ binding[c].phase \in {"finalized", "owned", "ready", "deleting"}
    BY <1>3 DEF UpdateBinding
  <2>2. c # b
    BY <1>3, <2>1 DEF UpdateBinding
  <2>3. binding'[c] = binding[c]
    BY <1>1, <1>3, <2>2 DEF UpdateBinding
  <2> QED BY <2>1, <2>3
<1>4. ASSUME NEW b \in Bindings, DeleteBinding(b) PROVE Backed'
  <2> SUFFICES ASSUME NEW s \in listed, s \notin strays PROVE Held(s)'
    BY <1>4 DEF DeleteBinding
  <2>1. PICK c \in Bindings :
           /\ binding[c].service = s
           /\ binding[c].phase \in {"finalized", "owned", "ready", "deleting"}
    OBVIOUS
  <2>2. /\ To(b, "deleting")[b] = [phase |-> "deleting", service |-> binding[b].service]
        /\ \A d \in Bindings \ {b} : To(b, "deleting")[d] = binding[d]
    <3>1. binding[b].phase # "absent"
      BY <1>4 DEF DeleteBinding, Live, Unready
    <3> QED BY <3>1, BindingSteps
  <2>3. CASE c # b
    <3>1. binding'[c] = binding[c]
      BY <1>1, <1>4, <2>2, <2>3 DEF DeleteBinding
    <3> QED BY <2>1, <3>1
  <2>4. CASE c = b
    <3>1. binding'[b] = [phase |-> "deleting", service |-> s]
      BY <1>4, <2>1, <2>2, <2>4 DEF DeleteBinding
    <3> QED BY <3>1
  <2> QED BY <2>3, <2>4
<1>5. ASSUME NEW b \in Bindings, AddFinalizer(b) PROVE Backed'
  <2>1. binding' = To(b, "finalized") /\ binding[b].phase # "absent"
    BY <1>5 DEF AddFinalizer
  <2>2. \A c \in Bindings \ {b} : binding'[c] = binding[c]
    <3>1. "finalized" \in Live \cup {"deleting"}
      BY DEF Live, Unready
    <3>2. \A c \in Bindings \ {b} : To(b, "finalized")[c] = binding[c]
      BY <2>1, <3>1, BindingSteps
    <3> QED BY <2>1, <3>2
  <2> QED BY <1>5, <2>1, <2>2 DEF AddFinalizer
<1>6. ASSUME NEW b \in Bindings, ReconcileBinding(b) PROVE Backed'
  <2> SUFFICES ASSUME NEW s \in listed', s \notin strays PROVE Held(s)'
    BY <1>6 DEF ReconcileBinding
  <2>1. /\ binding'[b].service = binding[b].service
        /\ binding'[b].phase \in {"owned", "ready"}
        /\ \A c \in Bindings \ {b} : binding'[c] = binding[c]
    <3>1. PICK phase \in {"owned", "ready"} : binding' = To(b, phase)
      BY <1>6 DEF ReconcileBinding
    <3>2. binding[b].phase # "absent"
      BY <1>6 DEF ReconcileBinding
    <3>3. /\ To(b, phase)[b] = [phase |-> phase, service |-> binding[b].service]
          /\ \A c \in Bindings \ {b} : To(b, phase)[c] = binding[c]
      <4>1. phase \in Live
        BY DEF Live, Unready
      <4> QED BY <3>2, <4>1, BindingSteps
    <3> QED BY <3>1, <3>3
  <2>2. CASE s = binding[b].service
    BY <2>1, <2>2
  <2>3. CASE s # binding[b].service
    <3>1. s \in listed
      BY <1>6, <2>3 DEF ReconcileBinding
    <3>2. PICK c \in Bindings :
             /\ binding[c].service = s
             /\ binding[c].phase \in {"finalized", "owned", "ready", "deleting"}
      BY <3>1
    <3> QED BY <2>1, <2>3, <3>2
  <2> QED BY <2>2, <2>3
<1>7. ASSUME NEW b \in Bindings, ReconcileDeletedBinding(b) PROVE Backed'
  <2> SUFFICES ASSUME NEW s \in listed, s # binding[b].service, s \notin strays
               PROVE  Held(s)'
    BY <1>7 DEF ReconcileDeletedBinding
  <2>1. PICK c \in Bindings :
           /\ binding[c].service = s
           /\ binding[c].phase \in {"finalized", "owned", "ready", "deleting"}
    OBVIOUS
  <2>2. binding'[c] = binding[c]
    BY <1>1, <1>7, <2>1 DEF ReconcileDeletedBinding
  <2> QED BY <2>1, <2>2
<1>8. CASE UNCHANGED <<binding, listed, strays>>
  BY <1>8
<1>9. \/ UNCHANGED <<binding, listed, strays>>
      \/ \E b \in Bindings :
           \/ \E s \in Services : CreateBinding(b, s)
           \/ \E to \in BindingObjects : UpdateBinding(b, to)
           \/ DeleteBinding(b) \/ AddFinalizer(b)
           \/ ReconcileBinding(b) \/ ReconcileDeletedBinding(b)
  BY DEF Next, vars, UpdatePorts, ReconcileService
<1> QED
  BY <1>2, <1>3, <1>4, <1>5, <1>6, <1>7, <1>8, <1>9

(* The mapping has entries only of services that list the group: both       *)
(* reconciles record the group first, and the clean-up takes off both.      *)
LEMMA NextRecorded == TypeOK /\ Recorded /\ [Next]_vars => Recorded'
<1> SUFFICES ASSUME TypeOK, Recorded, [Next]_vars,
                    NEW t \in Services, NEW k \in DOMAIN items', IsFor(items'[k], t)
             PROVE  t \in listed'
  BY DEF Recorded, IsFor
<1>1. ASSUME NEW s \in Services, items' = WithEntry(s), listed \cup {s} \subseteq listed'
      PROVE  t \in listed'
  BY <1>1, WithEntryElements, ForOne DEF Recorded
<1>2. ASSUME NEW s \in Services, items' = Without(s), listed \ {s} \subseteq listed'
      PROVE  t \in listed'
  <2>1. PICK m \in DOMAIN items : Without(s)[k] = items[m] /\ ~IsFor(items[m], s)
    BY <1>2, WithoutElements
  <2>2. t # s /\ t \in listed
    BY <1>2, <2>1 DEF Recorded
  <2> QED BY <1>2, <2>2
<1>3. CASE items' = items /\ listed \subseteq listed'
  BY <1>3 DEF Recorded
<1>4. \/ items' = items /\ listed \subseteq listed'
      \/ \E s \in Services : items' = WithEntry(s) /\ listed \cup {s} \subseteq listed'
      \/ \E s \in Services : items' = Without(s) /\ listed \ {s} \subseteq listed'
  <2>1. ASSUME NEW b \in Bindings, ReconcileBinding(b) PROVE binding[b].service \in Services
    BY <2>1, BindingSteps DEF ReconcileBinding
  <2>2. ASSUME NEW b \in Bindings, ReconcileDeletedBinding(b)
        PROVE  binding[b].service \in Services
    BY <2>2, BindingSteps DEF ReconcileDeletedBinding
  <2> QED BY <2>1, <2>2 DEF Next, vars, UpdatePorts, CreateBinding, UpdateBinding,
             DeleteBinding, AddFinalizer, ReconcileBinding, ReconcileService,
             ReconcileDeletedBinding
<1> QED BY <1>1, <1>2, <1>3, <1>4

(* A service that is in the mapping, or lists the group, has a binding      *)
(* that is live or still being deleted, unless a binding was moved away     *)
(* from it: with fresh reads no clean-up is ever skipped, also when a       *)
(* service has more bindings than one.                                      *)
THEOREM EntriesHaveBindingsHolds == Spec => []EntriesHaveBindings
<1>1. Init => Backed /\ Recorded
  BY DEF Init, Backed, Recorded
<1>2. Backed /\ Recorded => EntriesHaveBindings
  BY DEF Backed, Held, Recorded, EntriesHaveBindings, Bound
<1> QED BY <1>1, <1>2, NextBacked, NextRecorded, PortTypes, PTL DEF Spec

(* Every write of the mapping keeps at most one entry per service.          *)
LEMMA NextOneEntry == TypeOK /\ OneEntryPerService /\ [Next]_vars => OneEntryPerService'
<1> SUFFICES ASSUME TypeOK, OneEntryPerService, [Next]_vars PROVE OneEntryPerService'
  OBVIOUS
<1> DEFINE Once(list) ==
      \A k, m \in DOMAIN list :
        (\E s \in Services : IsFor(list[k], s) /\ IsFor(list[m], s)) => k = m
<1>1. Once(items)
  BY DEF OneEntryPerService
<1>2. ASSUME NEW s \in Services PROVE Once(WithEntry(s))
  <2> SUFFICES ASSUME NEW k \in DOMAIN WithEntry(s), NEW m \in DOMAIN WithEntry(s),
                      NEW t \in Services, IsFor(WithEntry(s)[k], t), IsFor(WithEntry(s)[m], t)
               PROVE  k = m
    OBVIOUS
  <2>1. CASE WithEntry(s)[k] = EntryOf(s)
    <3>1. t = s
      BY <2>1, ForOne
    <3>2. WithEntry(s)[m] = EntryOf(s)
      BY <3>1, WithEntryElements
    <3> QED BY <1>1, <2>1, <3>2, WithEntryElements
  <2>2. CASE WithEntry(s)[k] # EntryOf(s)
    <3>1. k \in DOMAIN items /\ WithEntry(s)[k] = items[k] /\ ~IsFor(items[k], s)
      BY <2>2, WithEntryElements
    <3>2. t # s
      BY <3>1
    <3>3. WithEntry(s)[m] # EntryOf(s)
      BY <3>2, ForOne
    <3>4. m \in DOMAIN items /\ WithEntry(s)[m] = items[m]
      BY <3>3, WithEntryElements
    <3> QED BY <1>1, <3>1, <3>4
  <2> QED BY <2>1, <2>2
<1>3. ASSUME NEW s \in Services PROVE Once(Without(s))
  BY <1>1, WithoutElements
<1>4. OneEntryPerService' <=> Once(items')
  BY DEF OneEntryPerService, IsFor
<1> HIDE DEF Once
<1>5. CASE items' = items
  BY <1>5, <1>1, <1>4
<1>6. ASSUME NEW s \in Services, items' = WithEntry(s) PROVE OneEntryPerService'
  BY <1>6, <1>2, <1>4
<1>7. ASSUME NEW s \in Services, items' = Without(s) PROVE OneEntryPerService'
  BY <1>7, <1>3, <1>4
<1>8. \/ items' = items
      \/ \E s \in Services : items' = WithEntry(s) \/ items' = Without(s)
  <2>1. ASSUME NEW b \in Bindings, ReconcileBinding(b) PROVE binding[b].service \in Services
    BY <2>1, BindingSteps DEF ReconcileBinding
  <2>2. ASSUME NEW b \in Bindings, ReconcileDeletedBinding(b)
        PROVE  binding[b].service \in Services
    BY <2>2, BindingSteps DEF ReconcileDeletedBinding
  <2> QED BY <2>1, <2>2 DEF Next, vars, UpdatePorts, CreateBinding, UpdateBinding,
             DeleteBinding, AddFinalizer, ReconcileBinding, ReconcileService,
             ReconcileDeletedBinding
<1> QED BY <1>5, <1>6, <1>7, <1>8

(* The mapping has one entry per service, however often it is bound,        *)
(* unbound and reconciled by either controller.                             *)
THEOREM OneEntryPerServiceHolds == Spec => []OneEntryPerService
<1>1. Init => OneEntryPerService
  BY DEF Init, OneEntryPerService
<1> QED BY <1>1, NextOneEntry, PortTypes, PTL DEF Spec

---------------------------------------------------------------------------
(* What the mapping's validator keeps.                                      *)

Checked == checkInternalPortOverlaps(items)

LEMMA InitChecked == Init => Checked
BY DEF Init, Checked, checkInternalPortOverlaps

LEMMA NextChecked == Checked /\ [Next]_vars => Checked'
<1> SUFFICES ASSUME Checked, [Next]_vars PROVE Checked'
  OBVIOUS
<1> USE DEF Checked
<1>1. CASE items' = items
  BY <1>1
<1>2. ASSUME NEW b \in Bindings, ReconcileBinding(b) PROVE Checked'
  BY <1>2 DEF ReconcileBinding
<1>3. ASSUME NEW s \in Services, ReconcileService(s) PROVE Checked'
  BY <1>3 DEF ReconcileService
<1>4. ASSUME NEW b \in Bindings, ReconcileDeletedBinding(b) PROVE Checked'
  BY <1>4 DEF ReconcileDeletedBinding
<1>5. \/ items' = items
      \/ \E b \in Bindings : ReconcileBinding(b) \/ ReconcileDeletedBinding(b)
      \/ \E s \in Services : ReconcileService(s)
  BY DEF Next, vars, UpdatePorts, CreateBinding, UpdateBinding, DeleteBinding, AddFinalizer
<1> QED BY <1>1, <1>2, <1>3, <1>4, <1>5

LEMMA AlwaysChecked == Spec => []Checked
BY InitChecked, NextChecked, PTL DEF Spec

(* No port of the group is ever open under two service names.               *)
THEOREM NamesDisjointHolds == Spec => []NamesDisjoint
<1>1. Checked => NamesDisjoint
  <2> SUFFICES ASSUME Checked,
                      NEW k \in DOMAIN items, NEW m \in DOMAIN items,
                      NEW proto \in Protocols,
                      items[k].name # items[m].name
               PROVE  PortsOpened(items[k], proto) \cap PortsOpened(items[m], proto) = {}
    BY DEF NamesDisjoint
  <2>1. Numbers(items[k].ports[proto]) \cap Numbers(items[m].ports[proto]) = {}
    BY CheckedNamesShareNoPort DEF Checked
  <2> QED BY <2>1 DEF PortsOpened
<1> QED BY <1>1, AlwaysChecked, PTL

(* Nothing stored in the mapping can make a later overlap check fail to     *)
(* parse the mapping itself.                                               *)
THEOREM StoredPortsParseHolds == Spec => []StoredPortsParse
<1>1. Checked => StoredPortsParse
  BY DEF Checked, StoredPortsParse, checkInternalPortOverlaps,
         ValidateNoDuplicatePortsInPortConfig
<1> QED BY <1>1, AlwaysChecked, PTL

(* OtherEntries takes entries of the mapping, each once.                    *)
LEMMA OthersElements ==
    ASSUME TypeOK, NEW name
    PROVE  /\ OtherEntries(name, items) \in Seq(Entries)
           /\ \A i \in DOMAIN OtherEntries(name, items) :
                \E k \in DOMAIN items : OtherEntries(name, items)[i] = items[k]
           /\ \A i, j \in DOMAIN OtherEntries(name, items) : i # j =>
                \E k, m \in DOMAIN items : /\ k # m
                                           /\ OtherEntries(name, items)[i] = items[k]
                                           /\ OtherEntries(name, items)[j] = items[m]
<1> DEFINE keep == {k \in DOMAIN items : items[k].name # name}
           others == Kept(items, keep)
<1>1. OtherEntries(name, items) = others
  BY DEF OtherEntries
<1>2. keep \in SUBSET DOMAIN items /\ items \in Seq(Entries)
  BY DEF TypeOK
<1> HIDE DEF keep
<1>3. /\ others \in Seq(Entries)
      /\ \A i \in DOMAIN others : Nth(keep, i) \in keep /\ others[i] = items[Nth(keep, i)]
      /\ \A i, j \in DOMAIN others : i < j => Nth(keep, i) < Nth(keep, j)
  BY <1>2, KeptElements
<1> HIDE DEF others
<1>4. ASSUME NEW i \in DOMAIN others, NEW j \in DOMAIN others, i # j
      PROVE  Nth(keep, i) # Nth(keep, j)
  <2>1. i \in Int /\ j \in Int
    BY <1>3
  <2>2. Nth(keep, i) \in Int /\ Nth(keep, j) \in Int
    BY <1>2, <1>3
  <2>3. CASE i < j
    BY <1>3, <2>2, <2>3
  <2>4. CASE j < i
    BY <1>3, <2>2, <2>4
  <2> QED BY <1>4, <2>1, <2>3, <2>4
<1>5. \A i \in DOMAIN others : Nth(keep, i) \in DOMAIN items
  BY <1>2, <1>3
<1> QED BY <1>1, <1>3, <1>4, <1>5

(* Gathered literals of checked entries of different names are free of      *)
(* overlaps.                                                                *)
LEMMA GatheredChecked ==
    ASSUME NEW others \in Seq(Entries), NEW proto \in Protocols,
           checkInternalPortOverlaps(others),
           \A k, m \in DOMAIN others : others[k].name = others[m].name => k = m
    PROVE  /\ Gathered(others, proto) \in Seq(Literals)
           /\ AllParse(Gathered(others, proto))
           /\ NoDuplicates(Gathered(others, proto))
           /\ \A i \in DOMAIN Gathered(others, proto) :
                \E k \in DOMAIN others : \E p \in DOMAIN others[k].ports[proto] :
                  Gathered(others, proto)[i] = others[k].ports[proto][p]
           /\ \A k \in DOMAIN others : \A p \in DOMAIN others[k].ports[proto] :
                \E i \in DOMAIN Gathered(others, proto) :
                  Gathered(others, proto)[i] = others[k].ports[proto][p]
<1> DEFINE all == Gathered(others, proto)
           In(k) == others[k].ports[proto]
<1>1. PICK which, where : Enumerates(all, others, proto, Len(others), which, where)
  BY GatheredEnumerates
<1> HIDE DEF all
<1>2. /\ all \in Seq(Literals)
      /\ \A i \in DOMAIN all : /\ which[i] \in DOMAIN others /\ where[i] \in DOMAIN In(which[i])
                               /\ all[i] = In(which[i])[where[i]]
      /\ \A i, j \in DOMAIN all : which[i] = which[j] /\ where[i] = where[j] => i = j
      /\ \A k \in DOMAIN others : \A p \in DOMAIN In(k) :
           \E i \in DOMAIN all : which[i] = k /\ where[i] = p
  BY <1>1 DEF Enumerates
<1>3. \A k \in DOMAIN others : In(k) \in Seq(Literals) /\ AllParse(In(k)) /\ NoDuplicates(In(k))
  <2> TAKE k \in DOMAIN others
  <2>1. others[k] \in Entries
    OBVIOUS
  <2>2. In(k) \in Seq(Literals)
    BY <2>1, EntryPortsType
  <2> QED BY <2>2 DEF checkInternalPortOverlaps, ValidateNoDuplicatePortsInPortConfig
<1>4. \A k, m \in DOMAIN others : k # m => Apart(In(k), In(m))
  BY DEF checkInternalPortOverlaps, Apart
<1> HIDE DEF In
<1>5. AllParse(all)
  <2> SUFFICES ASSUME NEW i \in DOMAIN all PROVE Parses(all[i])
    BY DEF AllParse
  <2>1. AllParse(In(which[i])) /\ where[i] \in DOMAIN In(which[i])
    BY <1>2, <1>3
  <2>2. Parses(In(which[i])[where[i]])
    BY <2>1 DEF AllParse
  <2> QED BY <1>2, <2>2
<1>6. NoDuplicates(all)
  <2> SUFFICES ASSUME NEW i \in DOMAIN all, NEW j \in DOMAIN all, i < j
               PROVE  ~DoPortRangesOverlap(ParsePortRange(all[j]), ParsePortRange(all[i]))
    BY DEF NoDuplicates
  <2>1. i # j
    BY <1>2
  <2>2. CASE which[i] = which[j]
    <3>1. where[j] # where[i]
      BY <1>2, <2>1, <2>2
    <3> QED BY <1>2, <1>3, <2>2, <3>1, NoDuplicatesBothWays
  <2>3. CASE which[i] # which[j]
    BY <1>2, <1>4, <2>3 DEF Apart
  <2> QED BY <2>2, <2>3
<1>7. \A i \in DOMAIN all : \E k \in DOMAIN others : \E p \in DOMAIN In(k) : all[i] = In(k)[p]
  BY <1>2
<1>8. \A k \in DOMAIN others : \A p \in DOMAIN In(k) : \E i \in DOMAIN all : all[i] = In(k)[p]
  BY <1>2
<1> QED BY <1>2, <1>5, <1>6, <1>7, <1>8 DEF all, In

(* The pairwise check and the sorting check decide alike about a service    *)
(* whose own ports do not overlap.                                          *)
LEMMA ChecksAgree ==
    ASSUME TypeOK, Checked,
           \A k, m \in DOMAIN items : items[k].name = items[m].name => k = m,
           NEW name, NEW ports \in Seq(IngressPorts), ValidateNoDuplicatePorts(ports)
    PROVE  CheckPortOverlaps(name, ports, items)
           <=> CheckPortOverlapsOptimized(name, ports, items)
<1> DEFINE others == OtherEntries(name, items)
           Ours(proto) == OfProtocol(ports, proto)
           Theirs(proto) == Gathered(others, proto)
<1>1. others \in Seq(Entries)
  BY OthersElements
<1>2. checkInternalPortOverlaps(others)
  <2> HIDE DEF others
  <2>1. \A i \in DOMAIN others : \E k \in DOMAIN items : others[i] = items[k]
    BY OthersElements DEF others
  <2>2. \A k \in DOMAIN others, proto \in Protocols :
          ValidateNoDuplicatePortsInPortConfig(others[k].ports[proto])
    BY <2>1 DEF Checked, checkInternalPortOverlaps
  <2>3. ASSUME NEW k \in DOMAIN others, NEW m \in DOMAIN others, NEW proto \in Protocols,
               others[m].name # others[k].name
        PROVE  Apart(others[k].ports[proto], others[m].ports[proto])
    <3>1. PICK i \in DOMAIN items, j \in DOMAIN items : others[k] = items[i] /\ others[m] = items[j]
      BY <2>1
    <3>2. Apart(items[i].ports[proto], items[j].ports[proto])
      BY <2>3, <3>1 DEF Checked, checkInternalPortOverlaps, Apart
    <3> QED BY <3>1, <3>2
  <2> QED BY <2>2, <2>3 DEF checkInternalPortOverlaps, Apart
<1>3. \A k, m \in DOMAIN others : others[k].name = others[m].name => k = m
  BY OthersElements
<1> HIDE DEF others
<1>4. ASSUME NEW proto \in Protocols
      PROVE  /\ Ours(proto) \in Seq(Literals) /\ AllParse(Ours(proto)) /\ NoDuplicates(Ours(proto))
             /\ Theirs(proto) \in Seq(Literals) /\ AllParse(Theirs(proto)) /\ NoDuplicates(Theirs(proto))
             /\ Apart(Theirs(proto), Ours(proto))
                <=> \A k \in DOMAIN others : Apart(others[k].ports[proto], Ours(proto))
  <2>1. Ours(proto) \in Seq(Literals) /\ AllParse(Ours(proto)) /\ NoDuplicates(Ours(proto))
    BY OfProtocolType DEF ValidateNoDuplicatePorts, ValidateNoDuplicatePortsInPortConfig
  <2>2. /\ Theirs(proto) \in Seq(Literals)
        /\ AllParse(Theirs(proto))
        /\ NoDuplicates(Theirs(proto))
        /\ \A i \in DOMAIN Theirs(proto) :
             \E k \in DOMAIN others : \E p \in DOMAIN others[k].ports[proto] :
               Theirs(proto)[i] = others[k].ports[proto][p]
        /\ \A k \in DOMAIN others : \A p \in DOMAIN others[k].ports[proto] :
             \E i \in DOMAIN Theirs(proto) : Theirs(proto)[i] = others[k].ports[proto][p]
    BY <1>1, <1>2, <1>3, GatheredChecked
  <2> HIDE DEF Ours, Theirs
  <2>3. Apart(Theirs(proto), Ours(proto))
        <=> \A k \in DOMAIN others : Apart(others[k].ports[proto], Ours(proto))
    BY <2>2 DEF Apart
  <2> QED BY <2>1, <2>2, <2>3
<1>5. \A proto \in Protocols :
        checkPortRangeOverlaps(RangesOf(Ours(proto) \o Theirs(proto)))
        <=> \A k \in DOMAIN others : Apart(others[k].ports[proto], Ours(proto))
  <2> HIDE DEF Ours, Theirs
  <2> QED BY <1>4, JoinedCheck
<1>6. CheckPortOverlapsOptimized(name, ports, items)
      <=> /\ \A i \in DOMAIN ports : Parses(ports[i].port)
          /\ \A proto \in Protocols :
               /\ AllParse(Theirs(proto))
               /\ checkPortRangeOverlaps(RangesOf(Ours(proto) \o Theirs(proto)))
  BY DEF CheckPortOverlapsOptimized, others
<1>7. CheckPortOverlaps(name, ports, items)
      <=> /\ \A i \in DOMAIN ports : Parses(ports[i].port)
          /\ \A k \in DOMAIN others, proto \in Protocols :
               /\ AllParse(others[k].ports[proto])
               /\ Apart(others[k].ports[proto], Ours(proto))
  BY DEF CheckPortOverlaps, others, Apart
<1>8. \A k \in DOMAIN others, proto \in Protocols : AllParse(others[k].ports[proto])
  BY <1>2 DEF checkInternalPortOverlaps, ValidateNoDuplicatePortsInPortConfig
<1> HIDE DEF Ours, Theirs
<1> QED BY <1>4, <1>5, <1>6, <1>7, <1>8

(* In every reachable state, the sorting variant decides as the pairwise    *)
(* one for every service and every list of ports, provided no two entries   *)
(* share a name.                                                            *)
THEOREM OptimizedAgreesHolds == Spec => []OptimizedAgrees
<1>1. TypeOK /\ Checked => OptimizedAgrees
  <2> SUFFICES ASSUME TypeOK, Checked,
                      \A k, m \in DOMAIN items : items[k].name = items[m].name => k = m,
                      NEW s \in Services, NEW ports \in ValidLists
               PROVE  CheckPortOverlaps(s.name, ports, items)
                      <=> CheckPortOverlapsOptimized(s.name, ports, items)
    BY DEF OptimizedAgrees
  <2>1. ports \in Seq(IngressPorts) /\ ValidateNoDuplicatePorts(ports)
    BY PortListsAssumption DEF ValidLists, ServicePortsValid
  <2> QED BY <2>1, ChecksAgree
<1> QED BY <1>1, AlwaysChecked, PortTypes, PTL

---------------------------------------------------------------------------
(* The registry implements GroupAccess.                                     *)

(* The ports a valid service declares are ports, and are those the         *)
(* conversion to an entry keeps.                                           *)
LEMMA DeclaredNumbers ==
    ASSUME NEW ports \in Seq(IngressPorts), NEW proto \in Protocols
    PROVE  /\ Numbers(OfProtocol(ports, proto)) = PortsDeclared(ports, proto)
           /\ ServicePortsValid(ports) => PortsDeclared(ports, proto) \subseteq 0..MaxPort
<1> DEFINE keep == {i \in DOMAIN ports : ports[i].protocol = proto}
           mine == Kept(ports, keep)
           texts == OfProtocol(ports, proto)
           Of(text) == LET r == ParsePortRange(text) IN r.start..r.end
<1>1. keep \in SUBSET DOMAIN ports
  OBVIOUS
<1>2. texts = [i \in DOMAIN mine |-> mine[i].port]
  BY DEF OfProtocol
<1>3. PortsDeclared(ports, proto) = UNION {Of(ports[i].port) : i \in keep}
  BY DEF PortsDeclared
<1>4. Numbers(texts) = UNION {Of(texts[i]) : i \in DOMAIN texts}
  BY DEF Numbers
<1> HIDE DEF keep, texts
<1>5. /\ \A i \in DOMAIN mine : Nth(keep, i) \in keep /\ mine[i] = ports[Nth(keep, i)]
      /\ \A k \in keep : \E i \in DOMAIN mine : Nth(keep, i) = k
  BY <1>1, KeptElements
<1> HIDE DEF mine
<1>6. /\ \A i \in DOMAIN texts : \E k \in keep : texts[i] = ports[k].port
      /\ \A k \in keep : \E i \in DOMAIN texts : texts[i] = ports[k].port
  BY <1>2, <1>5
<1>7. Numbers(texts) = PortsDeclared(ports, proto)
  <2> HIDE DEF Of
  <2> QED BY <1>3, <1>4, <1>6
<1>8. ASSUME ServicePortsValid(ports) PROVE Numbers(texts) \subseteq 0..MaxPort
  <2>1. \A i \in DOMAIN texts : ParsePortRange(texts[i]) \in PortRange
    BY <1>8, ParsedIsRange DEF ServicePortsValid, ValidateNoDuplicatePorts,
       ValidateNoDuplicatePortsInPortConfig, AllParse, texts
  <2>2. \A i \in DOMAIN texts : Of(texts[i]) \subseteq 0..MaxPort
    BY <2>1, MaxPortAssumption DEF PortRange
  <2> HIDE DEF Of
  <2> QED BY <1>4, <2>2
<1> QED BY <1>7, <1>8 DEF texts

(* The services that have an entry in a list, and what each opens.         *)
ShownIn(list) == {s \in Services : \E k \in DOMAIN list : IsFor(list[k], s)}

OpenedBy(list) ==
    [s \in ShownIn(list) |->
       [proto \in Protocols |-> PortsOpened(list[CHOOSE k \in DOMAIN list : IsFor(list[k], s)], proto)]]

Single(list) ==
    \A k, m \in DOMAIN list : (\E s \in Services : IsFor(list[k], s) /\ IsFor(list[m], s)) => k = m

(* Where there is one entry per service, any of its entries is the one.    *)
LEMMA OpenedByEntry ==
    ASSUME NEW list, Single(list), NEW s \in Services, NEW k \in DOMAIN list, IsFor(list[k], s)
    PROVE  /\ s \in DOMAIN OpenedBy(list)
           /\ OpenedBy(list)[s] = [proto \in Protocols |-> PortsOpened(list[k], proto)]
<1> DEFINE m == CHOOSE j \in DOMAIN list : IsFor(list[j], s)
<1>1. m \in DOMAIN list /\ IsFor(list[m], s)
  OBVIOUS
<1>2. m = k
  BY <1>1 DEF Single
<1> HIDE DEF m
<1>3. s \in ShownIn(list)
  BY DEF ShownIn
<1> QED BY <1>2, <1>3 DEF OpenedBy, m

(* The refinement mapping, in terms of the list of entries.                 *)
LEMMA OpenedIs == Opened = OpenedBy(items) /\ Opened' = OpenedBy(items')
BY DEF Opened, OpenedBy, ShownIn, IsFor, PortsOpened

(* Every service declares ports that its validator accepts.                 *)
Valid == \A s \in Services : spec[s] \in ValidLists

(* Writing a service's entry opens its declared ports and moves nobody      *)
(* else's.                                                                  *)
LEMMA WithEntryOpens ==
    ASSUME TypeOK, Valid, NEW s \in Services, Single(items), Single(WithEntry(s))
    PROVE  OpenedBy(WithEntry(s)) = [t \in ShownIn(items) \cup {s} |->
                                       IF t = s THEN Wanted[s] ELSE OpenedBy(items)[t]]
<1> DEFINE new == OpenedBy(WithEntry(s))
           old == OpenedBy(items)
<1>1. DOMAIN old = ShownIn(items) /\ DOMAIN new = ShownIn(WithEntry(s))
  BY DEF OpenedBy
<1>2. s \in DOMAIN new /\ new[s] = Wanted[s]
  <2>1. PICK i \in DOMAIN WithEntry(s) : WithEntry(s)[i] = EntryOf(s)
    BY WithEntryElements
  <2>2. IsFor(EntryOf(s), s)
    BY DEF IsFor, EntryOf
  <2>3. s \in DOMAIN new /\ new[s] = [proto \in Protocols |-> PortsOpened(EntryOf(s), proto)]
    BY <2>1, <2>2, OpenedByEntry
  <2>4. spec[s] \in Seq(IngressPorts)
    BY PortListsAssumption DEF TypeOK
  <2>5. \A proto \in Protocols : PortsOpened(EntryOf(s), proto) = PortsDeclared(spec[s], proto)
    BY <2>4, DeclaredNumbers DEF PortsOpened, EntryOf, ConvertIngressPortsToProtocolPorts
  <2> QED BY <2>3, <2>5 DEF Wanted, Declared, Valid
<1>3. ASSUME NEW t \in Services, t # s, t \in DOMAIN old
      PROVE  t \in DOMAIN new /\ new[t] = old[t]
  <2>1. PICK k \in DOMAIN items : IsFor(items[k], t)
    BY <1>1, <1>3 DEF ShownIn
  <2>2. ~IsFor(items[k], s)
    BY <1>3, <2>1, IdentityAssumption DEF IsFor
  <2>3. k \in DOMAIN WithEntry(s) /\ WithEntry(s)[k] = items[k]
    BY <2>2, WithEntryElements
  <2>4. old[t] = [proto \in Protocols |-> PortsOpened(items[k], proto)]
    BY <2>1, OpenedByEntry
  <2>5. t \in DOMAIN new /\ new[t] = [proto \in Protocols |-> PortsOpened(items[k], proto)]
    BY <2>1, <2>3, OpenedByEntry
  <2> QED BY <2>4, <2>5
<1>4. ASSUME NEW t \in Services, t # s, t \in DOMAIN new
      PROVE  t \in DOMAIN old
  <2>1. PICK i \in DOMAIN WithEntry(s) : IsFor(WithEntry(s)[i], t)
    BY <1>1, <1>4 DEF ShownIn
  <2>2. WithEntry(s)[i] # EntryOf(s)
    BY <1>4, <2>1, ForOne
  <2>3. i \in DOMAIN items /\ WithEntry(s)[i] = items[i]
    BY <2>2, WithEntryElements
  <2> QED BY <1>1, <2>1, <2>3 DEF ShownIn
<1>5. DOMAIN old \subseteq Services /\ DOMAIN new \subseteq Services
  BY <1>1 DEF ShownIn
<1>6. new = [t \in DOMAIN new |-> new[t]]
  BY DEF OpenedBy
<1> HIDE DEF new, old
<1>7. DOMAIN new = DOMAIN old \cup {s}
  BY <1>2, <1>3, <1>4, <1>5
<1>8. \A t \in DOMAIN new : new[t] = IF t = s THEN Wanted[s] ELSE old[t]
  BY <1>2, <1>3, <1>5, <1>7
<1>9. new = [t \in DOMAIN old \cup {s} |-> IF t = s THEN Wanted[s] ELSE old[t]]
  BY <1>6, <1>7, <1>8
<1> QED BY <1>1, <1>9 DEF new, old

(* Taking a service's entries off closes its access and nobody else's.      *)
LEMMA WithoutCloses ==
    ASSUME TypeOK, NEW s \in Services, Single(items), Single(Without(s))
    PROVE  OpenedBy(Without(s)) = [t \in ShownIn(items) \ {s} |-> OpenedBy(items)[t]]
<1> DEFINE new == OpenedBy(Without(s))
           old == OpenedBy(items)
<1>1. DOMAIN old = ShownIn(items) /\ DOMAIN new = ShownIn(Without(s))
  BY DEF OpenedBy
<1>2. s \notin DOMAIN new
  <2>1. \A i \in DOMAIN Without(s) : ~IsFor(Without(s)[i], s)
    BY WithoutElements
  <2> QED BY <1>1, <2>1 DEF ShownIn
<1>3. ASSUME NEW t \in Services, t # s, t \in DOMAIN old
      PROVE  t \in DOMAIN new /\ new[t] = old[t]
  <2>1. PICK k \in DOMAIN items : IsFor(items[k], t)
    BY <1>1, <1>3 DEF ShownIn
  <2>2. ~IsFor(items[k], s)
    BY <1>3, <2>1, IdentityAssumption DEF IsFor
  <2>3. PICK i \in DOMAIN Without(s) : Without(s)[i] = items[k]
    BY <2>2, WithoutElements
  <2>4. old[t] = [proto \in Protocols |-> PortsOpened(items[k], proto)]
    BY <2>1, OpenedByEntry
  <2>5. t \in DOMAIN new /\ new[t] = [proto \in Protocols |-> PortsOpened(items[k], proto)]
    BY <2>1, <2>3, OpenedByEntry
  <2> QED BY <2>4, <2>5
<1>4. DOMAIN new \subseteq DOMAIN old
  <2> SUFFICES ASSUME NEW t \in DOMAIN new PROVE t \in ShownIn(items)
    BY <1>1
  <2>1. PICK i \in DOMAIN Without(s) : IsFor(Without(s)[i], t)
    BY <1>1 DEF ShownIn
  <2>2. PICK k \in DOMAIN items : Without(s)[i] = items[k]
    BY WithoutElements
  <2> QED BY <1>1, <2>1, <2>2 DEF ShownIn
<1>5. DOMAIN old \subseteq Services
  BY <1>1 DEF ShownIn
<1>6. new = [t \in DOMAIN new |-> new[t]]
  BY DEF OpenedBy
<1> HIDE DEF new, old
<1>7. DOMAIN new = DOMAIN old \ {s}
  BY <1>2, <1>3, <1>4, <1>5
<1>8. \A t \in DOMAIN new : new[t] = old[t]
  BY <1>2, <1>3, <1>5, <1>7
<1>9. new = [t \in DOMAIN old \ {s} |-> old[t]]
  BY <1>6, <1>7, <1>8
<1> QED BY <1>1, <1>9 DEF new, old

(* All the registry's invariants together: what the refinement rests on.    *)
RegistryInv == TypeOK /\ Valid /\ Backed /\ Recorded /\ OneEntryPerService

(* What is declared are ports of the port space.                            *)
LEMMA WantedType ==
    ASSUME Valid PROVE Wanted \in [Services -> Access!PortSets]
<1>1. ASSUME NEW ports \in ValidLists, NEW proto \in Protocols
      PROVE  PortsDeclared(ports, proto) \in SUBSET (0..MaxPort)
  BY PortListsAssumption, DeclaredNumbers DEF ValidLists
<1>2. \A ports \in ValidLists : Declared[ports] \in Access!PortSets
  BY <1>1 DEF Declared, Access!PortSets
<1> QED BY <1>2 DEF Wanted, Valid

(* Only UpdatePorts changes a service's ports, and it validates them.       *)
LEMMA NextValid ==
    ASSUME TypeOK, Valid, [Next]_vars PROVE Valid'
<1>1. ASSUME NEW s \in Services, NEW ports \in PortLists, UpdatePorts(s, ports) PROVE Valid'
  BY <1>1 DEF UpdatePorts, Valid, TypeOK
<1>2. CASE spec' = spec
  BY <1>2 DEF Valid
<1>3. spec' = spec \/ \E s \in Services, ports \in PortLists : UpdatePorts(s, ports)
  BY DEF Next, vars, CreateBinding, UpdateBinding, DeleteBinding, AddFinalizer,
         ReconcileBinding, ReconcileService, ReconcileDeletedBinding
<1> QED BY <1>1, <1>2, <1>3

(* What becomes of the bound services when one binding is replaced: its     *)
(* former service stays bound where another binding names it.               *)
LEMMA BoundMoves ==
    ASSUME TypeOK, NEW b \in Bindings, NEW to \in BindingObjects,
           binding' = [binding EXCEPT ![b] = to],
           NEW new, new = IF to.phase = "absent" THEN {} ELSE {to.service}
    PROVE  /\ Bound' \in {Bound \cup new, (Bound \ {binding[b].service}) \cup new}
           /\ binding[b] = Elsewhere => Bound' = Bound \cup new
<1> DEFINE s    == binding[b].service
           rest == {binding[c].service : c \in {d \in Bindings \ {b} : binding[d].phase # "absent"}}
<1>1. binding \in [Bindings -> BindingObjects]
  BY DEF TypeOK
<1>2. Bound = rest \cup (IF binding[b].phase = "absent" THEN {} ELSE {s})
  BY DEF Bound
<1>3. Bound' = rest \cup new
  <2>1. /\ binding'[b] = to
        /\ \A c \in Bindings \ {b} : binding'[c] = binding[c]
    BY <1>1
  <2>2. Bound' = {binding'[c].service : c \in {d \in Bindings : binding'[d].phase # "absent"}}
    BY DEF Bound
  <2> QED BY <2>1, <2>2
<1>4. binding[b] = Elsewhere => binding[b].phase = "absent"
  BY DEF Elsewhere
<1> HIDE DEF rest, s
<1>5. Bound' \in {Bound \cup new, (Bound \ {s}) \cup new}
  BY <1>2, <1>3
<1> QED BY <1>2, <1>3, <1>4, <1>5 DEF s

(* Going on to another phase, a binding keeps its service bound.            *)
LEMMA BoundStays ==
    ASSUME TypeOK, NEW b \in Bindings, binding[b].phase # "absent",
           NEW phase \in Live \cup {"deleting"}, binding' = To(b, phase)
    PROVE  binding[b].service \in Bound /\ Bound' = Bound
<1>1. /\ To(b, phase)[b] = [phase |-> phase, service |-> binding[b].service]
      /\ \A c \in Bindings \ {b} : To(b, phase)[c] = binding[c]
  BY BindingSteps
<1>2. phase # "absent"
  BY DEF Live, Unready
<1> QED BY <1>1, <1>2 DEF Bound

(* A service that holds access lists the group, and a binding with a        *)
(* finalizer holds it there, unless one was moved away.                     *)
LEMMA OpenedBacked ==
    ASSUME RegistryInv, NEW s \in DOMAIN Opened
    PROVE  s \in listed /\ (s \in strays \/ Held(s))
<1>1. s \in ShownIn(items)
  BY OpenedIs DEF OpenedBy
<1> QED BY <1>1 DEF ShownIn, RegistryInv, Recorded, Backed

(* A write of the mapping that its validator admits is an Open of the       *)
(* service.                                                                 *)
LEMMA WriteOpens ==
    ASSUME RegistryInv, OneEntryPerService', NEW s \in Services, s \in Bound \cup strays,
           items' = WithEntry(s), checkInternalPortOverlaps(WithEntry(s)),
           UNCHANGED <<Bound, Wanted, strays>>
    PROVE  Access!Open(s)
<1> USE DEF RegistryInv
<1>1. Single(items) /\ Single(items')
  BY DEF OneEntryPerService, Single, IsFor
<1>2. Opened = OpenedBy(items) /\ Opened' = OpenedBy(items') /\ DOMAIN Opened = ShownIn(items)
  BY OpenedIs DEF OpenedBy
<1>3. Opened' = [t \in DOMAIN Opened \cup {s} |-> IF t = s THEN Wanted[s] ELSE Opened[t]]
  BY <1>1, <1>2, WithEntryOpens
<1>4. ASSUME NEW t \in DOMAIN Opened, NEW proto \in Protocols, t.name # s.name
      PROVE  Opened[t][proto] \cap Wanted[s][proto] = {}
  <2>1. t \in Services /\ t # s
    BY <1>2, <1>4 DEF ShownIn
  <2>2. s \in ShownIn(items') /\ t \in ShownIn(items')
    BY <1>2, <1>3 DEF OpenedBy
  <2>3. PICK k \in DOMAIN items' : IsFor(items'[k], s)
    BY <2>2 DEF ShownIn
  <2>4. PICK m \in DOMAIN items' : IsFor(items'[m], t)
    BY <2>2 DEF ShownIn
  <2>5. Opened'[s] = [p \in Protocols |-> PortsOpened(items'[k], p)]
    BY <1>1, <1>2, <2>3, OpenedByEntry
  <2>6. Opened'[t] = [p \in Protocols |-> PortsOpened(items'[m], p)]
    BY <1>1, <1>2, <2>1, <2>4, OpenedByEntry
  <2>7. items'[m].name # items'[k].name
    BY <1>4, <2>3, <2>4 DEF IsFor
  <2>8. Numbers(items'[m].ports[proto]) \cap Numbers(items'[k].ports[proto]) = {}
    BY <2>7, CheckedNamesShareNoPort
  <2>9. Opened'[s] = Wanted[s] /\ Opened'[t] = Opened[t]
    BY <1>3, <2>1
  <2> QED BY <2>5, <2>6, <2>8, <2>9 DEF PortsOpened
<1> QED BY <1>3, <1>4 DEF Access!Open

(* Each action of the registry is one of GroupAccess or leaves access       *)
(* alone.                                                                   *)
LEMMA NextAccess ==
    ASSUME RegistryInv, RegistryInv', [Next]_vars
    PROVE  [Access!Next]_(Access!vars)
<1> USE DEF RegistryInv
<1>1. Opened = OpenedBy(items) /\ Opened' = OpenedBy(items') /\ DOMAIN Opened = ShownIn(items)
  BY OpenedIs DEF OpenedBy
<1>2. items' = items => UNCHANGED Opened
  BY <1>1
<1>3. Wanted' = [s \in Services |-> Declared[spec'[s]]]
  BY DEF Wanted, Declared, ValidLists, PortsDeclared
<1>4. spec' = spec => UNCHANGED Wanted
  BY <1>3 DEF Wanted
<1>5. binding' = binding => UNCHANGED Bound
  BY DEF Bound
<1>6. \A c \in Bindings : binding[c].phase # "absent" => binding[c].service \in Services
  BY BindingSteps
<1>7. ASSUME NEW s \in Services, NEW ports \in PortLists, UpdatePorts(s, ports)
      PROVE  Access!Declare(s) \/ UNCHANGED Access!vars
  <2>1. UNCHANGED <<Bound, strays, Opened>> /\ spec' = [spec EXCEPT ![s] = ports]
    BY <1>2, <1>5, <1>7 DEF UpdatePorts
  <2>2. Wanted' \in [Services -> Access!PortSets]
    <3>1. \A t \in Services : spec'[t] \in ValidLists
      BY DEF Valid, ValidLists
    <3>2. \A list \in ValidLists : Declared[list] \in Access!PortSets
      BY PortListsAssumption, DeclaredNumbers DEF ValidLists, Declared, Access!PortSets
    <3> QED BY <1>3, <3>1, <3>2
  <2>3. Wanted' = [Wanted EXCEPT ![s] = Wanted'[s]]
    <3>1. \A t \in Services : t # s => spec'[t] = spec[t]
      BY <2>1 DEF TypeOK
    <3> QED BY <1>3, <3>1 DEF Wanted
  <2>4. CASE Wanted'[s] = Wanted[s]
    <3>1. Wanted' = Wanted
      <4>1. Wanted = [t \in Services |-> Wanted[t]]
        BY DEF Wanted
      <4> QED BY <2>3, <2>4, <4>1
    <3> QED BY <2>1, <3>1 DEF Access!vars
  <2>5. CASE Wanted'[s] # Wanted[s]
    BY <2>1, <2>2, <2>3, <2>5 DEF Access!Declare
  <2> QED BY <2>4, <2>5
<1>8. ASSUME NEW b \in Bindings, NEW s \in Services, CreateBinding(b, s)
      PROVE  Access!Bind(s) \/ UNCHANGED Access!vars
  <2>1. UNCHANGED <<Wanted, strays, Opened>>
    BY <1>2, <1>4, <1>8 DEF CreateBinding
  <2>2. Bound' = Bound \cup {s}
    <3>1. [phase |-> "new", service |-> s] \in BindingObjects
      BY DEF BindingObjects, Live, Unready
    <3> QED BY <1>8, <3>1, BoundMoves DEF CreateBinding
  <2> QED BY <2>1, <2>2 DEF Access!Bind, Access!vars
<1>9. ASSUME NEW b \in Bindings, NEW to \in BindingObjects, UpdateBinding(b, to)
      PROVE  Access!Next \/ UNCHANGED Access!vars
  <2> DEFINE s   == binding[b].service
             new == IF to.phase = "absent" THEN {} ELSE {to.service}
  <2>1. UNCHANGED <<Wanted, Opened>>
    BY <1>2, <1>4, <1>9 DEF UpdateBinding
  <2>2. /\ Bound' \in {Bound \cup new, (Bound \ {s}) \cup new}
        /\ binding[b] = Elsewhere => Bound' = Bound \cup new
    BY <1>9, BoundMoves DEF UpdateBinding
  <2>3. \/ new = {}
        \/ to.service \in Services /\ new = {to.service}
    BY DEF BindingObjects, Elsewhere
  <2>4. strays' = strays \cup ({s} \cap listed)
    BY <1>9 DEF UpdateBinding
  <2>5. CASE binding[b].phase = "absent"
    <3>1. binding[b] = Elsewhere
      BY <2>5, BindingSteps DEF BindingObjects, Live, Unready
    <3>2. strays' = strays
      BY <2>4, <3>1, NoneAssumption DEF Elsewhere, TypeOK
    <3>3. Bound' = Bound \cup new
      BY <2>2, <3>1
    <3>4. ASSUME NEW t \in Services, new = {t} PROVE Access!Bind(t) \/ UNCHANGED Access!vars
      BY <2>1, <3>2, <3>3, <3>4 DEF Access!Bind, Access!vars
    <3>5. CASE new = {}
      BY <2>1, <3>2, <3>3, <3>5 DEF Access!vars
    <3> QED BY <2>3, <3>4, <3>5 DEF Access!Next
  <2>6. CASE binding[b].phase # "absent"
    <3>1. s \in Services /\ s \in Bound
      BY <1>6, <2>6 DEF Bound
    <3>2. s \in DOMAIN Opened => s \in strays'
      BY <2>4, OpenedBacked
    <3>3. strays' \in {strays, strays \cup {s}}
      BY <2>4
    <3> HIDE DEF s, new
    <3>4. Access!Move(s, new)
      BY <2>1, <2>2, <3>1, <3>2, <3>3 DEF Access!Move
    <3> QED BY <2>3, <3>1, <3>4 DEF Access!Next
  <2> QED BY <2>5, <2>6
<1>10. ASSUME NEW b \in Bindings, DeleteBinding(b)
       PROVE  Access!Next \/ UNCHANGED Access!vars
  <2> DEFINE s == binding[b].service
  <2>1. UNCHANGED <<Wanted, strays, Opened>>
    BY <1>2, <1>4, <1>10 DEF DeleteBinding
  <2>2. binding[b].phase # "absent" /\ s \in Services /\ s \in Bound
    BY <1>6, <1>10 DEF DeleteBinding, Bound, Live, Unready
  <2>3. CASE binding[b].phase = "new"
    <3>1. binding' = [binding EXCEPT ![b] = Elsewhere]
      BY <1>10, <2>3 DEF DeleteBinding
    <3>2. Bound' \in {Bound, Bound \ {s}}
      <4>1. Elsewhere \in BindingObjects /\ Elsewhere.phase = "absent"
        BY DEF BindingObjects, Elsewhere
      <4>2. Bound' \in {Bound \cup {}, (Bound \ {s}) \cup {}}
        BY <3>1, <4>1, BoundMoves
      <4> QED BY <4>2
    <3>3. ASSUME s \in DOMAIN Opened, s \notin strays PROVE s \in Bound'
      <4>1. PICK c \in Bindings :
               /\ binding[c].service = s
               /\ binding[c].phase \in {"finalized", "owned", "ready", "deleting"}
        BY <3>3, OpenedBacked DEF Held
      <4>2. c # b
        BY <2>3, <4>1
      <4>3. binding'[c] = binding[c]
        BY <3>1, <4>2 DEF TypeOK
      <4> QED BY <4>1, <4>3 DEF Bound
    <3>4. CASE Bound' = Bound
      BY <2>1, <3>4 DEF Access!vars
    <3>5. CASE Bound' = Bound \ {s}
      <4>1. Access!Unbind(s)
        BY <2>1, <2>2, <3>3, <3>5 DEF Access!Unbind
      <4> QED BY <2>2, <4>1 DEF Access!Next
    <3> QED BY <3>2, <3>4, <3>5
  <2>4. CASE binding[b].phase # "new"
    <3>1. Bound' = Bound
      BY <1>10, <2>2, <2>4, BoundStays DEF DeleteBinding
    <3> QED BY <2>1, <3>1 DEF Access!vars
  <2> QED BY <2>3, <2>4
<1>11. ASSUME NEW b \in Bindings, AddFinalizer(b) PROVE UNCHANGED Access!vars
  <2>1. UNCHANGED <<Wanted, strays, Opened>>
    BY <1>2, <1>4, <1>11 DEF AddFinalizer
  <2>2. Bound' = Bound
    BY <1>11, BoundStays DEF AddFinalizer, Live, Unready
  <2> QED BY <2>1, <2>2 DEF Access!vars
<1>12. ASSUME NEW b \in Bindings, ReconcileBinding(b)
       PROVE  Access!Next \/ UNCHANGED Access!vars
  <2> DEFINE s == binding[b].service
  <2>1. UNCHANGED <<Wanted, strays>> /\ binding[b].phase # "absent"
    BY <1>4, <1>12 DEF ReconcileBinding
  <2>2. s \in Services /\ s \in Bound /\ Bound' = Bound
    BY <1>6, <1>12, <2>1, BoundStays DEF ReconcileBinding, Live, Unready
  <2>3. CASE checkInternalPortOverlaps(WithEntry(s))
    <3>1. items' = WithEntry(s)
      BY <1>12, <2>3 DEF ReconcileBinding
    <3>2. Access!Open(s)
      BY <2>1, <2>2, <2>3, <3>1, WriteOpens
    <3> QED BY <2>2, <3>2 DEF Access!Next
  <2>4. CASE ~checkInternalPortOverlaps(WithEntry(s))
    <3>1. items' = items
      BY <1>12, <2>4 DEF ReconcileBinding
    <3> QED BY <1>2, <2>1, <2>2, <3>1 DEF Access!vars
  <2> QED BY <2>3, <2>4
<1>13. ASSUME NEW s \in Services, ReconcileService(s) PROVE Access!Open(s)
  <2>1. UNCHANGED <<Wanted, Bound, strays>>
    BY <1>4, <1>5, <1>13 DEF ReconcileService
  <2>2. s \in Bound \cup strays
    BY <1>13 DEF ReconcileService, Backed, Held, Bound
  <2>3. items' = WithEntry(s) /\ checkInternalPortOverlaps(WithEntry(s))
    BY <1>13 DEF ReconcileService
  <2> QED BY <2>1, <2>2, <2>3, WriteOpens
<1>14. ASSUME NEW b \in Bindings, ReconcileDeletedBinding(b) PROVE Access!Next
  <2> DEFINE s == binding[b].service
  <2>1. UNCHANGED Wanted /\ items' = Without(s) /\ strays' = strays \ {s}
    BY <1>4, <1>14 DEF ReconcileDeletedBinding
  <2>2. s \in Services /\ s \in Bound
    BY <1>6, <1>14 DEF ReconcileDeletedBinding, Bound
  <2>3. Bound' \in {Bound, Bound \ {s}}
    <3>1. Elsewhere \in BindingObjects /\ Elsewhere.phase = "absent"
      BY DEF BindingObjects, Elsewhere
    <3>2. Bound' \in {Bound \cup {}, (Bound \ {s}) \cup {}}
      BY <1>14, <3>1, BoundMoves DEF ReconcileDeletedBinding
    <3> QED BY <3>2
  <2>4. Single(items) /\ Single(items')
    BY DEF OneEntryPerService, Single, IsFor
  <2>5. Opened' = [t \in DOMAIN Opened \ {s} |-> Opened[t]]
    BY <1>1, <2>1, <2>2, <2>4, WithoutCloses
  <2>6. Access!Close(s)
    BY <2>1, <2>2, <2>3, <2>5 DEF Access!Close
  <2> QED BY <2>2, <2>6 DEF Access!Next
<1>15. CASE UNCHANGED vars
  BY <1>2, <1>4, <1>5, <1>15 DEF vars, Access!vars
<1> QED
  BY <1>7, <1>8, <1>9, <1>10, <1>11, <1>12, <1>13, <1>14, <1>15 DEF Next, Access!Next

(* The registry implements GroupAccess: access is opened only to services   *)
(* that are bound or that a binding was moved away from, with exactly the   *)
(* ports declared then, never over a port of another name, and every write  *)
(* moves one service's access.  That the list of entries behaves as one     *)
(* access per service needs OneEntryPerService; that ReconcileService opens *)
(* for no other services, and that the last binding of a service goes       *)
(* without clean-up only while nothing is open, need Backed and Recorded.   *)
(* Second bindings of a service and changes of a binding's pair included.   *)
THEOREM PortRegistryImplementsAccess == Spec => ImplementsAccess
<1>1. Init => Valid /\ Backed /\ Recorded /\ OneEntryPerService
  BY DEF Init, Valid, Backed, Recorded, OneEntryPerService
<1>2. Init => Access!Init
  <2> SUFFICES ASSUME Init PROVE Access!Init
    OBVIOUS
  <2>1. Wanted \in [Services -> Access!PortSets]
    BY <1>1, WantedType
  <2>2. Bound = {} /\ strays = {}
    BY DEF Init, Bound, Elsewhere
  <2>3. ShownIn(items) = {}
    BY DEF Init, ShownIn
  <2>4. Opened = [s \in {} |-> {}]
    BY <2>3, OpenedIs DEF OpenedBy
  <2> QED BY <2>1, <2>2, <2>4 DEF Access!Init
<1>3. RegistryInv /\ TypeOK' /\ [Next]_vars => RegistryInv'
  BY NextValid, NextBacked, NextRecorded, NextOneEntry DEF RegistryInv
<1>4. RegistryInv /\ RegistryInv' /\ [Next]_vars => [Access!Next]_(Access!vars)
  BY NextAccess
<1>5. Init => RegistryInv
  BY <1>1, InitTypeOK DEF RegistryInv
<1> QED
  BY <1>2, <1>3, <1>4, <1>5, PortTypes, PTL DEF Spec, ImplementsAccess, Access!Spec
=============================================================================
