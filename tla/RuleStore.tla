----------------------------- MODULE RuleStore -----------------------------
(***************************************************************************)
(* What the RuleS2S and ServiceAlias controllers share: services, aliases, *)
(* RuleS2S and IEAgAgRule objects in the API server, the caches every Get  *)
(* and List of the manager reads, and the two work queues.                 *)
(*                                                                         *)
(* An Update or Status.Update is refused when the object has changed since *)
(* the writer's copy was read.  The content of an object stands for its    *)
(* resourceVersion: once content has changed back, the refused write and   *)
(* an accepted one come to the same.  A name is used once, except that of  *)
(* an IEAgAgRule, which the controller makes again.                        *)
(***************************************************************************)
EXTENDS Naturals, FiniteSets

CONSTANTS Services, Aliases, Rules,
          ServiceNs,     \* the namespace of a service
          AliasFor,      \* Spec.ServiceRef of an alias, a service of its own namespace
          RuleNs,        \* the namespace of a RuleS2S
          RuleSpecs,     \* Specs of RuleS2S: records [traffic, local, target], with a local
                         \* alias of the rule's namespace
          GroupRefs,     \* entries of Service.AddressGroups: records [name, ns]
          PortSets,      \* the ports a service may declare for one protocol
          None           \* no object

Traffic   == {"ingress", "egress"}
Protocols == {"TCP", "UDP"}

ASSUME NamesAssumption ==
    /\ AliasFor \in [Aliases -> Services]
    /\ DOMAIN ServiceNs = Services /\ Rules \subseteq DOMAIN RuleNs
    /\ RuleSpecs \subseteq [traffic : Traffic, local : Aliases, target : Aliases]
    /\ None \notin Services \cup Aliases \cup Rules

VARIABLES svc, alias, rule, ie,         \* API server
          cSvc, cAlias, cRule, cIe,     \* informer caches
          rq, aq                        \* work queues of the two controllers

store  == <<svc, alias, rule, ie>>
caches == <<cSvc, cAlias, cRule, cIe>>
queues == <<rq, aq>>

---------------------------------------------------------------------------
(* Objects.                                                                *)

Phases == {"new", "live", "deleting", "gone"}

Present(o) == o.phase \in {"live", "deleting"}

(* An IEAgAgRule is known by its namespace and what generateRuleName hashes: *)
(* neither the RuleS2S nor the namespaces of the groups.                   *)
GroupNames == {g.name : g \in GroupRefs}
GroupNs    == {g.ns : g \in GroupRefs}

Keys == [ns : GroupNs \cup {RuleNs[r] : r \in Rules}, traffic : Traffic,
         local : GroupNames, target : GroupNames, proto : Protocols]

(* The fields of an IEAgAgRule's Spec that its key does not fix.            *)
Bodies == [local : GroupNs, target : GroupNs, ports : PortSets]

(* The Ready condition: its reason and what its message mentions (None: no  *)
(* ports).                                                                 *)
Reasons == {"Unset", "RulesCreated", "ValidConfiguration", "NoRulesCreated",
            "ServiceAliasNotFound", "ServiceNotFound", "FailedToDeleteRules"}

Statuses == [reason : Reasons, about : SUBSET (Aliases \cup Services \cup Keys \cup {None})]

Unset == [reason |-> "Unset", about |-> {}]

ServiceObjects ==
    [phase : Phases, groups : SUBSET GroupRefs, ports : [Protocols -> PortSets \cup {{}}],
     dstOwnRef : SUBSET Rules]

AliasObjects ==
    [phase : Phases, fin : BOOLEAN, owned : BOOLEAN,
     ready : {"Unset", "True", "ServiceNotFound"}]

StoredRules ==
    [phase : {"live", "deleting"}, fin : BOOLEAN, owner : Services \cup {None},
     spec : RuleSpecs, status : Statuses]

StoredIEAgAgRules ==
    [phase : {"live", "deleting"}, fin : BOOLEAN, owner : Rules, body : Bodies]

NoService  == [phase |-> "new", groups |-> {}, ports |-> [p \in Protocols |-> {}],
               dstOwnRef |-> {}]
NoAlias    == [phase |-> "new", fin |-> FALSE, owned |-> FALSE, ready |-> "Unset"]
NoRule     == [phase |-> "new", fin |-> FALSE, owner |-> None, spec |-> None, status |-> Unset]
NoIEAgAgRule == [phase |-> "gone", fin |-> FALSE, owner |-> None, body |-> None]

RemovedAlias == [NoAlias EXCEPT !.phase = "gone"]
RemovedRule  == [NoRule EXCEPT !.phase = "gone"]

RuleObjects == StoredRules \cup {NoRule, RemovedRule}
IEAgAgRules == StoredIEAgAgRules \cup {NoIEAgAgRule}

(* A delete request for a live object.                                     *)
DeletedAlias(o) == IF o.fin THEN [o EXCEPT !.phase = "deleting"] ELSE RemovedAlias
DeletedRule(o)  == IF o.fin THEN [o EXCEPT !.phase = "deleting"] ELSE RemovedRule
DeletedIE(o)    == IF o.fin THEN [o EXCEPT !.phase = "deleting"] ELSE NoIEAgAgRule

---------------------------------------------------------------------------
(* Update and Status.Update.                                               *)

(* Seeded bug: last writer wins.                                           *)
AcceptsAny(stored, copy) == Present(stored)

Accepts(stored, copy) == Present(stored) /\ stored = copy

---------------------------------------------------------------------------
(* References among the objects.                                           *)

LocalService(spec)  == AliasFor[spec.local]
TargetService(spec) == AliasFor[spec.target]

CrossNamespace(r, spec) == RuleNs[r] # ServiceNs[TargetService(spec)]

(* The cached rules that name an alias, being deleted or not.               *)
findRuleS2SForServiceAlias(a) ==
    {r \in Rules : Present(cRule[r]) /\ a \in {cRule[r].spec.local, cRule[r].spec.target}}

findRuleS2SForService(s) ==
    UNION {findRuleS2SForServiceAlias(a) :
             a \in {b \in Aliases : Present(cAlias[b]) /\ AliasFor[b] = s}}

---------------------------------------------------------------------------
(* Watches.  Nothing watches IEAgAgRules: their cache is only read.         *)

SyncService(s) ==
    /\ cSvc[s] # svc[s]
    /\ cSvc' = [cSvc EXCEPT ![s] = svc[s]]
    /\ rq' = rq \cup findRuleS2SForService(s)
    /\ UNCHANGED <<store, cAlias, cRule, cIe, aq>>

(* Seeded bug: the rules of an alias are not queued with it.                *)
SyncAliasAlone(a) ==
    /\ cAlias[a] # alias[a]
    /\ cAlias' = [cAlias EXCEPT ![a] = alias[a]]
    /\ aq' = aq \cup {a}
    /\ UNCHANGED <<store, cSvc, cRule, cIe, rq>>

SyncAlias(a) ==
    /\ cAlias[a] # alias[a]
    /\ cAlias' = [cAlias EXCEPT ![a] = alias[a]]
    /\ aq' = aq \cup {a}
    /\ rq' = rq \cup findRuleS2SForServiceAlias(a)
    /\ UNCHANGED <<store, cSvc, cRule, cIe>>

SyncRule(r) ==
    /\ cRule[r] # rule[r]
    /\ cRule' = [cRule EXCEPT ![r] = rule[r]]
    /\ rq' = rq \cup {r}
    /\ UNCHANGED <<store, cSvc, cAlias, cIe, aq>>

SyncIEAgAgRule(k) ==
    /\ cIe[k] # ie[k]
    /\ cIe' = [cIe EXCEPT ![k] = ie[k]]
    /\ UNCHANGED <<store, cSvc, cAlias, cRule, queues>>
=============================================================================
