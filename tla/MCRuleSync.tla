----------------------------- MODULE MCRuleSync -----------------------------
(***************************************************************************)
(* Instances of RuleSync: services sa and sb of namespace n1, sc of n2; an  *)
(* alias of each.  There is a group ga of n1, and a group gb of each         *)
(* namespace.  The rules are of n1.                                        *)
(***************************************************************************)
EXTENDS RuleSync, TLC

CONSTANTS sa, sb, sc, aa, ab, ac, r1, r2, ga, gb, n1, n2

SNs      == sa :> n1 @@ sb :> n1 @@ sc :> n2
AliasOf  == aa :> sa @@ ab :> sb @@ ac :> sc
RNs      == r1 :> n1 @@ r2 :> n1

GA == [name |-> ga, ns |-> n1]
GB == [name |-> gb, ns |-> n1]
GC == [name |-> gb, ns |-> n2]

SpecOf(traffic, local, target) == [traffic |-> traffic, local |-> local, target |-> target]

Near    == SpecOf("ingress", aa, ab)     \* into sa from sb
Out     == SpecOf("egress", aa, ab)      \* from sa into sb
Far     == SpecOf("egress", aa, ac)      \* from sa into sc
Onto    == SpecOf("egress", ab, aa)      \* from sb into sa
Moved   == SpecOf("ingress", aa, ac)     \* into sa from sc

TwoPorts == {{1}, {2}}

Ports(tcp, udp) == "TCP" :> tcp @@ "UDP" :> udp

ServiceWith(groups, tcp, udp) ==
    [phase |-> "live", groups |-> groups, ports |-> Ports(tcp, udp), dstOwnRef |-> {}]

To(groups, tcp, udp) == [groups |-> groups, ports |-> Ports(tcp, udp)]

CreateRuleEvent(r, spec)  == [op |-> "CreateRule", on |-> r, to |-> spec]
UpdateRuleEvent(r, spec)  == [op |-> "UpdateRule", on |-> r, to |-> spec]
SetServiceEvent(s, to)    == [op |-> "SetService", on |-> s, to |-> to]
DeleteEvent(op, x)        == [op |-> op, on |-> x]
Fault(op)                 == [op |-> op]

NoRules == [r \in {} |-> Near]

---------------------------------------------------------------------------
(* The scenarios.                                                          *)

(* A receiver changes its port and opens a UDP port, and a call fails.      *)
PortsChange ==
    [aliases |-> {aa, ab}, rules |-> r1 :> Near, operations |-> {"Resync"},
     events |-> {SetServiceEvent(sa, To({GA}, {2}, {1})), Fault("FailedCall")}]

(* A service loses its group and gets it back; the manager restarts.        *)
GroupsChange ==
    [aliases |-> {aa, ab}, rules |-> r1 :> Out, operations |-> {"Resync"},
     events |-> {SetServiceEvent(sb, To({}, {1}, {})), SetServiceEvent(sb, To({GB}, {1}, {})),
                 Fault("Restart")}]

(* A rule is deleted while the provider holds its IEAgAgRule.               *)
Deletion ==
    [aliases |-> {aa, ab}, rules |-> r1 :> Out, operations |-> {"Resync", "Adopt"},
     events |-> {DeleteEvent("DeleteRule", r1), Fault("FailedCall")}]

(* Two rules stand for the same IEAgAgRule, and one of them is deleted.     *)
Sharing ==
    [aliases |-> {aa, ab, ac}, rules |-> r1 :> Out @@ r2 :> Far, operations |-> {"Resync"},
     events |-> {DeleteEvent("DeleteRule", r1)}]

(* An alias is deleted while a rule that names it is created.               *)
AliasRace ==
    [aliases |-> {aa, ab}, rules |-> NoRules, operations |-> {"Validate"},
     events |-> {CreateRuleEvent(r1, Out), DeleteEvent("DeleteAlias", ab),
                 DeleteEvent("DeleteRule", r1)}]

(* The same for the alias's service, and with no validator called.          *)
ServiceRace ==
    [aliases |-> {aa, ab}, rules |-> NoRules, operations |-> {},
     events |-> {CreateRuleEvent(r1, Out), DeleteEvent("DeleteService", sb)}]

(* The target service of a rule of another namespace moves to a group of    *)
(* that namespace, the name of which is the same.                          *)
CrossNamespaces ==
    [aliases |-> {aa, ac}, rules |-> r1 :> Far, operations |-> {"Resync"},
     events |-> {SetServiceEvent(sc, To({GC}, {2}, {})), DeleteEvent("DeleteRule", r1)}]

(* The target service of such a rule goes: the rule stays, and dangles.     *)
TargetGoes ==
    [aliases |-> {aa, ac}, rules |-> r1 :> Far, operations |-> {},
     events |-> {DeleteEvent("DeleteService", sc), Fault("Restart")}]

(* A rule is created a second time, with no validator called, and the first *)
(* one deleted.                                                            *)
Twins ==
    [aliases |-> {aa, ab}, rules |-> r1 :> Out, operations |-> {"Resync"},
     events |-> {CreateRuleEvent(r2, Out), DeleteEvent("DeleteRule", r1)}]

(* An alias is made, its service deleted, the manager restarts.             *)
AliasLife ==
    [aliases |-> {}, rules |-> NoRules, operations |-> {"Validate"},
     events |-> {[op |-> "CreateAlias", on |-> ab], DeleteEvent("DeleteService", sb),
                 Fault("Restart"), Fault("FailedCall")}]

(* A rule is made to point elsewhere.                                       *)
Turned ==
    [aliases |-> {aa, ab}, rules |-> r1 :> Near, operations |-> {"Resync", "Validate"},
     events |-> {UpdateRuleEvent(r1, Onto)}]

MovedAway ==
    [aliases |-> {aa, ab, ac}, rules |-> r1 :> Near,
     operations |-> {"Resync", "Validate"}, events |-> {UpdateRuleEvent(r1, Moved)}]

(* Two rules that stand for the same IEAgAgRule with different ports.       *)
Contest ==
    [aliases |-> {aa, ab, ac}, rules |-> r1 :> Out @@ r2 :> Far, operations |-> {"Resync"},
     events |-> {SetServiceEvent(sc, To({GB}, {2}, {}))}]

OnlyContest == {Contest}

AllScenarios ==
    {PortsChange, GroupsChange, Deletion, Sharing, AliasRace, ServiceRace, CrossNamespaces,
     TargetGoes, Twins, AliasLife, Turned, MovedAway}

AllSpecs == {Near, Far, Onto, Moved, Out}

AllGroups == {GA, GB, GC}

Separate == sa :> ServiceWith({GA}, {1}, {2}) @@ sb :> ServiceWith({GB}, {1}, {})
              @@ sc :> ServiceWith({GB}, {1}, {})
=============================================================================
