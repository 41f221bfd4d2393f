----------------------------- MODULE PortUtils -----------------------------
(***************************************************************************)
(* The port arithmetic every admission check of the controller is built    *)
(* from: internal/webhook/v1alpha1/port_utils.go and webhook_utils.go, and *)
(* the port checks of the Service, AddressGroupBinding and                 *)
(* AddressGroupPortMapping validators.  Pure operators, no state.          *)
(*                                                                         *)
(* A port literal (a Go string) is kept as what the two parsers of the     *)
(* code tell apart: whether it carries surrounding blanks, and the numbers *)
(* strconv.Atoi yields for the pieces between hyphens, NaN where it fails. *)
(* "" has no field, "80" one, "80-90" two; "-5" is ONE field, the number   *)
(* -5, because both parsers skip the range branch on a leading hyphen.     *)
(***************************************************************************)
EXTENDS Integers, Sequences, FiniteSets

CONSTANTS MaxPort,   \* 65535 in the code
          NaN        \* what strconv.Atoi rejects

ASSUME MaxPortAssumption == MaxPort \in Nat
ASSUME NaNAssumption == NaN \notin Int

Protocols == {"TCP", "UDP"}

Literals == [padded : BOOLEAN, fields : Seq(Int \cup {NaN})]

IngressPorts == [protocol : Protocols, port : Literals]

PortRange == {r \in [start : 0..MaxPort, end : 0..MaxPort] : r.start <= r.end}

(* One number, or two separated by one hyphen, in order and in range.      *)
WellFormed(fields) ==
    \/ \E n \in 0..MaxPort : fields = <<n>>
    \/ \E r \in PortRange : fields = <<r.start, r.end>>

(* ParsePortRange does not trim: strconv.Atoi fails on a blank.            *)
Parses(text) == ~text.padded /\ WellFormed(text.fields)

ParsePortRange(text) ==
    [start |-> text.fields[1], end |-> text.fields[Len(text.fields)]]

(* validatePort trims, and lets the empty literal through.                 *)
validatePort(text) ==
    \/ text.fields = <<>> /\ ~text.padded
    \/ WellFormed(text.fields)

(* Seeded bug: ranges that only touch do not overlap.                      *)
OverlapStrictly(a, b) == a.start < b.end /\ a.end > b.start

DoPortRangesOverlap(a, b) == a.start <= b.end /\ a.end >= b.start

---------------------------------------------------------------------------
(* Lists.  A loop that skips some elements keeps the others in order: the   *)
(* i-th one kept is at the position that has i kept positions up to it.     *)
Nth(keep, i) == CHOOSE k \in keep : Cardinality({j \in keep : j <= k}) = i

Kept(seq, keep) == [i \in 1..Cardinality(keep) |-> seq[Nth(keep, i)]]

---------------------------------------------------------------------------
(* Lists of ports of one service.  A service's spec lists IngressPorts     *)
(* [protocol, port]; a mapping entry lists port literals per protocol.     *)

AllParse(texts) == \A i \in DOMAIN texts : Parses(texts[i])

NoDuplicates(texts) ==
    \A i, j \in DOMAIN texts :
        i < j => ~DoPortRangesOverlap(ParsePortRange(texts[j]),
                                      ParsePortRange(texts[i]))

(* The literals of one protocol, in order.                                 *)
OfProtocol(ingressPorts, proto) ==
    LET mine == Kept(ingressPorts, {i \in DOMAIN ingressPorts :
                                      ingressPorts[i].protocol = proto})
    IN  [i \in DOMAIN mine |-> mine[i].port]

ConvertIngressPortsToProtocolPorts(ingressPorts) ==
    [proto \in Protocols |-> OfProtocol(ingressPorts, proto)]

(* Seeded bug: a literal that does not parse is skipped, not reported.     *)
ValidateParsablePorts(texts) ==
    NoDuplicates(Kept(texts, {i \in DOMAIN texts : Parses(texts[i])}))

ValidateNoDuplicatePortsInPortConfig(texts) ==
    AllParse(texts) /\ NoDuplicates(texts)

(* The loop of ValidateNoDuplicatePorts keeps one list per protocol; a     *)
(* literal that does not parse rejects the service whatever its protocol.  *)
ValidateNoDuplicatePorts(ingressPorts) ==
    \A proto \in Protocols :
        ValidateNoDuplicatePortsInPortConfig(OfProtocol(ingressPorts, proto))

ServicePortsValid(ingressPorts) ==
    /\ ValidateNoDuplicatePorts(ingressPorts)
    /\ \A i \in DOMAIN ingressPorts : validatePort(ingressPorts[i].port)

---------------------------------------------------------------------------
(* A mapping is a sequence of entries [name, ns, ports], ports as given by *)
(* ConvertIngressPortsToProtocolPorts.                                     *)

(* "Skip the current service" compares the NAME only.                      *)
OtherEntries(name, items) == Kept(items, {k \in DOMAIN items : items[k].name # name})

CheckPortOverlaps(name, ingressPorts, items) ==
    LET others == OtherEntries(name, items)
    IN  /\ \A i \in DOMAIN ingressPorts : Parses(ingressPorts[i].port)
        /\ \A k \in DOMAIN others, proto \in Protocols :
             LET theirs == others[k].ports[proto]
                 ours   == OfProtocol(ingressPorts, proto)
             IN  /\ AllParse(theirs)
                 /\ \A i \in DOMAIN theirs, j \in DOMAIN ours :
                      ~DoPortRangesOverlap(ParsePortRange(theirs[i]),
                                           ParsePortRange(ours[j]))

(* How many ranges come no later than the p-th when they are sorted; the     *)
(* order of equal starts, which the code leaves open, does not matter.      *)
UpTo(ranges, p) ==
    {q \in DOMAIN ranges :
       \/ ranges[q].start < ranges[p].start
       \/ ranges[q].start = ranges[p].start /\ q <= p}

SortedByStart(ranges) ==
    LET rank == [p \in DOMAIN ranges |-> Cardinality(UpTo(ranges, p))]
    IN  [i \in DOMAIN ranges |-> ranges[CHOOSE p \in DOMAIN ranges : rank[p] = i]]

(* Seeded bug: a range may begin where its predecessor ends.               *)
TouchingAllowed(ranges) ==
    LET sorted == SortedByStart(ranges)
    IN  \A i \in 1..(Len(sorted) - 1) : sorted[i].end <= sorted[i + 1].start

(* Sort by start port, then compare neighbours only.                       *)
checkPortRangeOverlaps(ranges) ==
    LET sorted == SortedByStart(ranges)
    IN  \A i \in 1..(Len(sorted) - 1) : sorted[i].end < sorted[i + 1].start

RangesOf(texts) == [i \in DOMAIN texts |-> ParsePortRange(texts[i])]

(* All literals of one protocol of a list of entries, one after the other. *)
Gathered(entries, proto) ==
    LET upTo[k \in 0..Len(entries)] ==
          IF k = 0 THEN <<>> ELSE upTo[k - 1] \o entries[k].ports[proto]
    IN  upTo[Len(entries)]

CheckPortOverlapsOptimized(name, ingressPorts, items) ==
    /\ \A i \in DOMAIN ingressPorts : Parses(ingressPorts[i].port)
    /\ \A proto \in Protocols :
         LET theirs == Gathered(OtherEntries(name, items), proto)
         IN  /\ AllParse(theirs)
             /\ checkPortRangeOverlaps(
                  RangesOf(OfProtocol(ingressPorts, proto) \o theirs))

(* The AddressGroupPortMapping validator: entries are told apart by name,  *)
(* so two entries of one name are never compared with each other.          *)
checkInternalPortOverlaps(items) ==
    /\ \A k \in DOMAIN items, proto \in Protocols :
         ValidateNoDuplicatePortsInPortConfig(items[k].ports[proto])
    /\ \A k, m \in DOMAIN items, proto \in Protocols :
         items[m].name # items[k].name
         => \A i \in DOMAIN items[k].ports[proto],
               j \in DOMAIN items[m].ports[proto] :
              ~DoPortRangesOverlap(ParsePortRange(items[k].ports[proto][i]),
                                   ParsePortRange(items[m].ports[proto][j]))
=============================================================================
