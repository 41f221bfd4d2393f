--------------------------- MODULE RuleTypeProofs ---------------------------
(***************************************************************************)
(* Type correctness of RuleSync for every value of its constants.          *)
(***************************************************************************)
EXTENDS RuleSync, TLAPS

USE DEF Present

---------------------------------------------------------------------------
(* Objects.                                                                *)

LEMMA NoneIsNobody == None \notin Services /\ None \notin Aliases /\ None \notin Rules
BY NamesAssumption

LEMMA SpecNames ==
    ASSUME NEW spec \in RuleSpecs
    PROVE  /\ spec.traffic \in Traffic
           /\ spec.local \in Aliases /\ spec.target \in Aliases
           /\ LocalService(spec) \in Services /\ TargetService(spec) \in Services
BY NamesAssumption DEF LocalService, TargetService

LEMMA RuleContents ==
    ASSUME NEW object \in RuleObjects, Present(object)
    PROVE  object \in StoredRules
BY DEF RuleObjects, NoRule, RemovedRule

LEMMA StoredRuleContents ==
    ASSUME NEW object \in StoredRules
    PROVE  /\ object \in RuleObjects
           /\ object.phase \in {"live", "deleting"} /\ Present(object)
           /\ object.fin \in BOOLEAN
           /\ object.spec \in RuleSpecs
           /\ object.status \in Statuses
BY DEF StoredRules, RuleObjects

LEMMA UnsetTyped == Unset \in Statuses
BY DEF Unset, Statuses, Reasons

LEMMA NewRuleTyped ==
    ASSUME NEW spec \in RuleSpecs
    PROVE  NewRule(spec) \in StoredRules
BY UnsetTyped DEF NewRule, NoRule, StoredRules

(* The edits a stored rule undergoes.                                      *)
LEMMA RuleEdits ==
    ASSUME NEW object \in StoredRules
    PROVE  /\ [object EXCEPT !.fin = TRUE] \in StoredRules
           /\ \A spec \in RuleSpecs : [object EXCEPT !.spec = spec] \in StoredRules
           /\ \A status \in Statuses : [object EXCEPT !.status = status] \in StoredRules
           /\ Owned(object) \in StoredRules
           /\ DeletedRule(object) \in RuleObjects
BY SpecNames, StoredRuleContents DEF StoredRules, RuleObjects, Owned, DeletedRule

LEMMA AliasEdits ==
    ASSUME NEW object \in AliasObjects
    PROVE  /\ [object EXCEPT !.fin = TRUE] \in AliasObjects
           /\ [object EXCEPT !.owned = TRUE] \in AliasObjects
           /\ [object EXCEPT !.phase = "live"] \in AliasObjects
           /\ [object EXCEPT !.ready = "True"] \in AliasObjects
           /\ [object EXCEPT !.ready = "ServiceNotFound"] \in AliasObjects
           /\ DeletedAlias(object) \in AliasObjects
BY DEF AliasObjects, DeletedAlias, RemovedAlias, NoAlias, Phases

LEMMA NoAliasTyped == NoAlias \in AliasObjects /\ RemovedAlias \in AliasObjects
                      /\ ExistingAlias \in AliasObjects
BY DEF AliasObjects, RemovedAlias, NoAlias, Phases, ExistingAlias

LEMMA NoServiceTyped == NoService \in ServiceObjects
                        /\ [NoService EXCEPT !.phase = "gone"] \in ServiceObjects
BY DEF NoService, ServiceObjects, Phases

LEMMA ServiceEdits ==
    ASSUME NEW object \in ServiceObjects
    PROVE  /\ [object EXCEPT !.phase = "deleting"] \in ServiceObjects
           /\ \A r \in Rules : [object EXCEPT !.dstOwnRef = @ \cup {r}] \in ServiceObjects
           /\ \A to \in ServiceContents :
                [object EXCEPT !.groups = to.groups, !.ports = to.ports] \in ServiceObjects
BY DEF ServiceObjects, Phases, ServiceContents

LEMMA IEAgAgRuleContents ==
    ASSUME NEW object \in IEAgAgRules, Present(object)
    PROVE  object \in StoredIEAgAgRules
BY DEF IEAgAgRules, NoIEAgAgRule

LEMMA IEAgAgRuleEdits ==
    ASSUME NEW object \in StoredIEAgAgRules
    PROVE  /\ object \in IEAgAgRules
           /\ DeletedIE(object) \in IEAgAgRules
           /\ [object EXCEPT !.fin = TRUE] \in IEAgAgRules
<1>1. [object EXCEPT !.phase = "deleting"] \in StoredIEAgAgRules
  BY DEF StoredIEAgAgRules
<1>2. [object EXCEPT !.fin = TRUE] \in StoredIEAgAgRules
  BY DEF StoredIEAgAgRules
<1>. QED  BY <1>1, <1>2 DEF IEAgAgRules, DeletedIE

---------------------------------------------------------------------------
(* What the RuleS2S worker computes.                                       *)

LEMMA StatusTyped ==
    ASSUME NEW reason \in Reasons,
           NEW about \in SUBSET (Aliases \cup Services \cup Keys \cup {None})
    PROVE  [reason |-> reason, about |-> about] \in Statuses
BY DEF Statuses

LEMMA KeyTyped ==
    ASSUME NEW r \in Rules, NEW traffic \in Traffic, NEW local \in GroupRefs,
           NEW target \in GroupRefs, NEW proto \in Protocols
    PROVE  KeyOf(r, traffic, local, target, proto) \in Keys
BY DEF KeyOf, ResolveNamespace, Keys, GroupNames, GroupNs

(* Every IEAgAgRule a rule stands for has a key and a body.                 *)
LEMMA CallsTyped ==
    ASSUME NEW r \in Rules, NEW spec \in RuleSpecs,
           NEW local \in ServiceObjects, NEW target \in ServiceObjects
    PROVE  CallsFor(r, spec, local, target) \subseteq Calls
<1>1. ReceiverPorts(spec, local, target) \in [Protocols -> PortSets \cup {{}}]
  BY DEF ReceiverPorts, ServiceObjects
<1>2. local.groups \subseteq GroupRefs /\ target.groups \subseteq GroupRefs
  BY DEF ServiceObjects
<1>3. ASSUME NEW l \in local.groups, NEW t \in target.groups,
             NEW p \in {q \in Protocols : ReceiverPorts(spec, local, target)[q] # {}}
      PROVE  [pair |-> <<l, t>>, key |-> KeyOf(r, spec.traffic, l, t, p),
              body |-> [local |-> l.ns, target |-> t.ns,
                        ports |-> ReceiverPorts(spec, local, target)[p]]] \in Calls
  <2>1. KeyOf(r, spec.traffic, l, t, p) \in Keys
    BY <1>2, KeyTyped, SpecNames
  <2>2. [local |-> l.ns, target |-> t.ns, ports |-> ReceiverPorts(spec, local, target)[p]] \in Bodies
    BY <1>1, <1>2 DEF Bodies, GroupNs
  <2>. QED  BY <1>2, <2>1, <2>2 DEF Calls
<1>. QED  BY <1>3 DEF CallsFor

LEMMA OwnedByTyped == \A r : OwnedBy(r) \subseteq Keys
BY DEF OwnedBy

(* Nothing the worker does next changes its key or its copy of the rule;    *)
(* only a rule being deleted loses its finalizer.                          *)
LEMMA DeletingTyped ==
    ASSUME NEW w \in BusyWorkers
    PROVE  \/ Deleting(w) = RuleIdle
           \/ /\ Deleting(w) \in BusyWorkers
              /\ Deleting(w).key = w.key /\ Deleting(w).rule = w.rule
              /\ Deleting(w).doomed = w.doomed
              /\ Deleting(w).pc \in {"DeleteRelated", "RemoveFinalizer", "Report"}
              /\ Deleting(w).pc = "RemoveFinalizer" => w.rule.phase = "deleting"
<1>1. [reason |-> "FailedToDeleteRules", about |-> w.failed] \in Statuses
  BY StatusTyped DEF BusyWorkers, Reasons
<1>2. [w EXCEPT !.pc = "DeleteRelated"] \in BusyWorkers
  BY DEF BusyWorkers, RulePcs
<1>3. [w EXCEPT !.pc = "RemoveFinalizer"] \in BusyWorkers
  BY DEF BusyWorkers, RulePcs
<1>4. [w EXCEPT !.pc = "Report", !.failed = {},
                !.status = [reason |-> "FailedToDeleteRules", about |-> w.failed]] \in BusyWorkers
  BY <1>1 DEF BusyWorkers, RulePcs
<1>5. CASE w.doomed # {}
  BY <1>2, <1>5 DEF Deleting, BusyWorkers
<1>6. CASE w.doomed = {} /\ w.rule.phase # "deleting"
  BY <1>6 DEF Deleting
<1>7. CASE w.doomed = {} /\ w.rule.phase = "deleting" /\ w.failed = {}
  BY <1>3, <1>7 DEF Deleting, BusyWorkers
<1>8. CASE w.doomed = {} /\ w.rule.phase = "deleting" /\ w.failed # {}
  BY <1>4, <1>8 DEF Deleting, BusyWorkers
<1>. QED  BY <1>5, <1>6, <1>7, <1>8

LEMMA AppliedTyped ==
    ASSUME NEW w \in BusyWorkers
    PROVE  /\ Applied(w) \in BusyWorkers
           /\ Applied(w).key = w.key /\ Applied(w).rule = w.rule
           /\ Applied(w).doomed \subseteq w.doomed
           /\ Applied(w).pc \in {w.pc, "DeleteObsolete", "Report"}
<1>1. [reason |-> IF w.done # {} THEN "RulesCreated" ELSE "NoRulesCreated", about |-> w.done]
        \in Statuses
  BY StatusTyped DEF BusyWorkers, Reasons
<1>2. CASE w.todo # {}
  BY <1>2 DEF Applied
<1>3. CASE w.todo = {} /\ w.doomed \ w.done # {}
  BY <1>3 DEF Applied, BusyWorkers, RulePcs
<1>4. CASE w.todo = {} /\ w.doomed \ w.done = {}
  BY <1>1, <1>4 DEF Applied, BusyWorkers, RulePcs
<1>. QED  BY <1>2, <1>3, <1>4

LEMMA ProceedTyped ==
    ASSUME NEW w \in BusyWorkers
    PROVE  /\ Proceed(w) \in BusyWorkers
           /\ Proceed(w).key = w.key /\ Proceed(w).rule = w.rule
           /\ Proceed(w).pc \in {"Apply", "Report"}
           /\ Proceed(w).doomed \in {w.doomed, OwnedBy(w.key)}
BY NoServiceTyped, OwnedByTyped DEF Proceed, BusyWorkers, RulePcs

LEMMA AtTyped ==
    ASSUME NEW r \in Rules, cRule[r] \in StoredRules, NEW pc \in RulePcs
    PROVE  /\ At(r, pc) \in BusyWorkers
           /\ At(r, pc).key = r /\ At(r, pc).rule = cRule[r] /\ At(r, pc).pc = pc
           /\ At(r, pc).doomed = {}
BY NoServiceTyped, UnsetTyped DEF At, RuleIdle, BusyWorkers

(* The plan for a rule whose aliases and services are there.                *)
LEMMA PlannedTyped ==
    ASSUME TypeOK, NEW r \in Rules, cRule[r] \in StoredRules
    PROVE  /\ Planned(r) \in BusyWorkers
           /\ Planned(r).key = r /\ Planned(r).rule = cRule[r] /\ Planned(r).pc = "SetOwner"
           /\ Planned(r).doomed = {}
<1>. DEFINE spec   == cRule[r].spec
            local  == cSvc[LocalService(spec)]
            target == cSvc[TargetService(spec)]
            calls  == CallsFor(r, spec, local, target)
            status == IF calls # {} THEN Unset
                      ELSE [reason |-> "ValidConfiguration",
                            about |-> inactiveConditions(spec, local, target)]
<1>1. spec \in RuleSpecs
  BY DEF StoredRules
<1>2. local \in ServiceObjects /\ target \in ServiceObjects
  BY <1>1, SpecNames DEF TypeOK
<1>3. calls \in SUBSET Calls
  BY <1>1, <1>2, CallsTyped
<1>4. status \in Statuses
  <2>1. inactiveConditions(spec, local, target)
          \in SUBSET (Aliases \cup Services \cup Keys \cup {None})
    BY <1>1, SpecNames DEF inactiveConditions
  <2>2. "ValidConfiguration" \in Reasons
    BY DEF Reasons
  <2>. HIDE DEF calls
  <2>. QED  BY <2>1, <2>2, StatusTyped, UnsetTyped
<1>5. Planned(r) = [At(r, "SetOwner") EXCEPT !.todo = calls, !.status = status]
  BY DEF Planned
<1>6. /\ At(r, "SetOwner") \in BusyWorkers
      /\ At(r, "SetOwner").key = r /\ At(r, "SetOwner").rule = cRule[r]
      /\ At(r, "SetOwner").pc = "SetOwner" /\ At(r, "SetOwner").doomed = {}
  BY AtTyped DEF RulePcs
<1>. HIDE DEF calls, status
<1>. QED  BY <1>3, <1>4, <1>5, <1>6 DEF BusyWorkers

---------------------------------------------------------------------------
(* The actions.                                                            *)

(* A worker that is not idle.                                              *)
LEMMA Busy ==
    ASSUME TypeOK, rw.pc # "Idle"
    PROVE  /\ rw \in BusyWorkers
           /\ rw.key \in Rules /\ rw.rule \in StoredRules /\ rw.svc \in ServiceObjects
           /\ rw.status \in Statuses /\ rw.doomed \subseteq Keys /\ rw.todo \subseteq Calls
BY DEF TypeOK, RuleWorkers, RuleIdle, BusyWorkers

LEMMA BusyPcs == "Idle" \notin RulePcs /\ "Idle" \notin AliasPcs
BY DEF RulePcs, AliasPcs

(* Steps of the RuleS2S worker that move nothing but its own variable.      *)
LEMMA BeginTyped ==
    ASSUME TypeOK, NEW r \in Rules, NEW worker \in RuleWorkers,
           Begin(r, worker), UNCHANGED <<aw, setting>>
    PROVE  TypeOK'
BY DEF TypeOK, Begin, store, caches, setting

LEMMA RuleErrorTyped ==
    ASSUME TypeOK, rw.pc # "Idle", RuleError, UNCHANGED <<aw, setting>>
    PROVE  TypeOK'
BY Busy DEF TypeOK, RuleError, store, caches, setting, RuleWorkers

(* A write of a typed rule.                                                *)
LEMMA RuleWriteTyped ==
    ASSUME TypeOK, NEW r \in Rules, NEW object \in RuleObjects, NEW worker \in RuleWorkers,
           rule' = [rule EXCEPT ![r] = object], rw' = worker,
           UNCHANGED <<svc, alias, ie, caches, queues, aw, setting>>
    PROVE  TypeOK'
BY DEF TypeOK, caches, queues, setting

(* A write of a typed IEAgAgRule.                                          *)
LEMMA IEAgAgRuleWriteTyped ==
    ASSUME TypeOK, NEW k \in Keys, NEW object \in IEAgAgRules, NEW worker \in RuleWorkers,
           ie' = [ie EXCEPT ![k] = object], rw' = worker,
           UNCHANGED <<svc, alias, rule, caches, queues, aw, setting>>
    PROVE  TypeOK'
BY DEF TypeOK, caches, queues, setting

LEMMA CachedRuleTyped ==
    ASSUME TypeOK, NEW r \in Rules
    PROVE  /\ Present(rule[r]) => rule[r] \in StoredRules
           /\ Present(cRule[r]) => cRule[r] \in StoredRules
BY RuleContents DEF TypeOK

LEMMA ReconcileRuleTyped ==
    ASSUME TypeOK, NEW r \in Rules, ReconcileRule(r), UNCHANGED <<aw, setting>>
    PROVE  TypeOK'
<1>1. CASE ReconcileGoneRule(r)
  BY <1>1, BeginTyped DEF ReconcileGoneRule, RuleWorkers
<1>2. CASE ReconcileNewRule(r)
  BY <1>2, BeginTyped, AtTyped, CachedRuleTyped DEF ReconcileNewRule, RuleWorkers, RulePcs
<1>3. CASE ReconcileDeletedRule(r)
  <2>1. At(r, "DeleteRelated") \in BusyWorkers
    BY <1>3, AtTyped, CachedRuleTyped DEF ReconcileDeletedRule, RulePcs
  <2>2. [At(r, "DeleteRelated") EXCEPT !.doomed = OwnedBy(r)] \in BusyWorkers
    BY <2>1, OwnedByTyped DEF BusyWorkers
  <2>. QED  BY <1>3, <2>2, DeletingTyped, BeginTyped DEF ReconcileDeletedRule, RuleWorkers
<1>4. CASE ReconcileDanglingRule(r)
  <2>1. cRule[r] \in StoredRules
    BY <1>4, CachedRuleTyped DEF ReconcileDanglingRule, Live
  <2>2. At(r, "Report") \in BusyWorkers
    BY <2>1, AtTyped DEF RulePcs
  <2>3. Missing(cRule[r].spec) \in SUBSET (Aliases \cup Services \cup Keys \cup {None})
    <3>1. cRule[r].spec \in RuleSpecs
      BY <2>1, StoredRuleContents
    <3>2. /\ {cRule[r].spec.local, cRule[r].spec.target} \subseteq Aliases
          /\ {LocalService(cRule[r].spec), TargetService(cRule[r].spec)} \subseteq Services
      BY <3>1, SpecNames
    <3>. QED  BY <3>2 DEF Missing
  <2>4. ASSUME NEW reason \in {"ServiceAliasNotFound", "ServiceNotFound"}
        PROVE  [At(r, "Report") EXCEPT
                  !.status = [reason |-> reason, about |-> Missing(cRule[r].spec)]] \in RuleWorkers
    BY <2>2, <2>3, StatusTyped DEF BusyWorkers, Reasons, RuleWorkers
  <2>. QED  BY <1>4, <2>4, BeginTyped DEF ReconcileDanglingRule
<1>5. CASE ReconcileCrossRule(r)
  <2>1. cRule[r] \in StoredRules
    BY <1>5, CachedRuleTyped DEF ReconcileCrossRule, Live
  <2>2. cSvc[TargetService(cRule[r].spec)] \in ServiceObjects
    BY <2>1, SpecNames, StoredRuleContents DEF TypeOK
  <2>3. Proceed(Planned(r)) \in RuleWorkers
    BY <2>1, PlannedTyped, ProceedTyped DEF RuleWorkers
  <2>4. [Planned(r) EXCEPT !.pc = "ListInTarget", !.svc = cSvc[TargetService(cRule[r].spec)]]
          \in RuleWorkers
    <3>1. Planned(r) \in BusyWorkers
      BY <2>1, PlannedTyped
    <3>2. ASSUME NEW w \in BusyWorkers, NEW s \in ServiceObjects
          PROVE  [w EXCEPT !.pc = "ListInTarget", !.svc = s] \in RuleWorkers
      BY DEF BusyWorkers, RulePcs, RuleWorkers
    <3>. QED  BY <2>2, <3>1, <3>2
  <2>. QED  BY <1>5, <2>3, <2>4, BeginTyped DEF ReconcileCrossRule
<1>6. CASE ReconcileSameNsRule(r)
  BY <1>6, CachedRuleTyped, PlannedTyped, BeginTyped DEF ReconcileSameNsRule, Live, RuleWorkers
<1>. QED  BY <1>1, <1>2, <1>3, <1>4, <1>5, <1>6 DEF ReconcileRule

(* A write is accepted for a rule that is as the worker read it.            *)
LEMMA AcceptedRule ==
    ASSUME TypeOK, rw.pc # "Idle", Accepts(rule[rw.key], rw.rule)
    PROVE  rule[rw.key] = rw.rule /\ rule[rw.key] \in StoredRules
BY Busy DEF Accepts

LEMMA RuleIdleTyped == RuleIdle \in RuleWorkers
BY DEF RuleWorkers

LEMMA AddRuleFinalizerTyped ==
    ASSUME TypeOK, AddRuleFinalizer, UNCHANGED <<aw, setting>>
    PROVE  TypeOK'
<1>1. rw.pc # "Idle"
  BY DEF AddRuleFinalizer
<1>2. CASE Accepts(rule[rw.key], rw.rule)
  <2>1. rule' = [rule EXCEPT ![rw.key] = [rule[rw.key] EXCEPT !.fin = TRUE]]
    BY <1>2 DEF AddRuleFinalizer
  <2>2. [rule[rw.key] EXCEPT !.fin = TRUE] \in RuleObjects
    BY <1>1, <1>2, AcceptedRule, RuleEdits, StoredRuleContents
  <2>. QED  BY <1>1, <1>2, <2>1, <2>2, Busy, RuleIdleTyped, RuleWriteTyped DEF AddRuleFinalizer
<1>3. CASE ~Accepts(rule[rw.key], rw.rule)
  BY <1>1, <1>3, RuleErrorTyped DEF AddRuleFinalizer
<1>. QED  BY <1>2, <1>3

LEMMA ListInTargetTyped ==
    ASSUME TypeOK, ListInTarget, UNCHANGED <<aw, setting>>
    PROVE  TypeOK'
<1>. DEFINE s == TargetService(rw.rule.spec)
<1>1. rw.pc # "Idle" /\ s \in Services
  BY Busy, StoredRuleContents, SpecNames DEF ListInTarget
<1>2. CASE Accepts(svc[s], rw.svc)
  <2>1. [rw.svc EXCEPT !.dstOwnRef = @ \cup {rw.key}] \in ServiceObjects
    BY <1>1, Busy, ServiceEdits
  <2>2. svc' \in [Services -> ServiceObjects]
    BY <1>1, <1>2, <2>1 DEF ListInTarget, TypeOK
  <2>3. rw' \in RuleWorkers
    BY <1>1, <1>2, Busy, ProceedTyped DEF ListInTarget, RuleWorkers
  <2>. QED  BY <1>1, <1>2, <2>2, <2>3 DEF ListInTarget, TypeOK, caches, queues, setting
<1>3. CASE ~Accepts(svc[s], rw.svc)
  BY <1>1, <1>3, RuleErrorTyped DEF ListInTarget
<1>. QED  BY <1>2, <1>3

LEMMA SetRuleOwnerTyped ==
    ASSUME TypeOK, SetRuleOwner, UNCHANGED <<aw, setting>>
    PROVE  TypeOK'
<1>1. rw.pc # "Idle"
  BY DEF SetRuleOwner
<1>2. CASE Accepts(rule[rw.key], rw.rule)
  <2>1. Owned(rw.rule) \in StoredRules
    BY <1>1, Busy, RuleEdits
  <2>2. [rw EXCEPT !.rule = Owned(rw.rule)] \in BusyWorkers
    BY <1>1, <2>1, Busy DEF BusyWorkers
  <2>3. Proceed([rw EXCEPT !.rule = Owned(rw.rule)]) \in RuleWorkers
    BY <2>2, ProceedTyped DEF RuleWorkers
  <2>. QED  BY <1>1, <1>2, <2>1, <2>3, Busy, StoredRuleContents, RuleWriteTyped DEF SetRuleOwner
<1>3. CASE ~Accepts(rule[rw.key], rw.rule)
  BY <1>1, <1>3, RuleErrorTyped DEF SetRuleOwner
<1>. QED  BY <1>2, <1>3

(* The calls that are left after one was made or skipped.                   *)
LEMMA MadeTyped ==
    ASSUME TypeOK, rw.pc # "Idle", NEW c \in rw.todo
    PROVE  /\ c.key \in Keys /\ c.body \in Bodies
           /\ Made(c) \in BusyWorkers /\ Skipped(c) \in BusyWorkers
           /\ Applied(Made(c)) \in RuleWorkers /\ Applied(Skipped(c)) \in RuleWorkers
<1>1. rw \in BusyWorkers /\ c \in Calls
  BY Busy
<1>2. c.key \in Keys /\ c.body \in Bodies
  BY <1>1 DEF Calls
<1>3. Made(c) \in BusyWorkers
  BY <1>1, <1>2 DEF Made, BusyWorkers
<1>4. Skipped(c) \in BusyWorkers
  BY <1>1 DEF Skipped, BusyWorkers
<1>. QED  BY <1>2, <1>3, <1>4, AppliedTyped DEF RuleWorkers

LEMMA createOrUpdateIEAgAgRuleTyped ==
    ASSUME TypeOK, createOrUpdateIEAgAgRule, UNCHANGED <<aw, setting>>
    PROVE  TypeOK'
<1>1. rw.pc # "Idle"
  BY DEF createOrUpdateIEAgAgRule
<1>2. PICK c \in rw.todo : CreateIEAgAgRule(c) \/ PatchIEAgAgRule(c) \/ FailIEAgAgRule(c)
  BY DEF createOrUpdateIEAgAgRule, NextCalls
<1>3. UNCHANGED <<svc, alias, rule, caches, queues>>
  BY DEF createOrUpdateIEAgAgRule
<1>4. /\ c.key \in Keys /\ c.body \in Bodies
      /\ Applied(Made(c)) \in RuleWorkers /\ Applied(Skipped(c)) \in RuleWorkers
  BY <1>1, MadeTyped
<1>5. CASE CreateIEAgAgRule(c)
  <2>1. [phase |-> "live", fin |-> FALSE, owner |-> rw.key, body |-> c.body] \in IEAgAgRules
    BY <1>1, <1>4, Busy DEF IEAgAgRules, StoredIEAgAgRules
  <2>. QED  BY <1>3, <1>4, <1>5, <2>1, IEAgAgRuleWriteTyped DEF CreateIEAgAgRule
<1>6. CASE PatchIEAgAgRule(c)
  <2>1. ie[c.key] \in StoredIEAgAgRules /\ cIe[c.key] \in StoredIEAgAgRules
    BY <1>4, <1>6, IEAgAgRuleContents DEF PatchIEAgAgRule, TypeOK
  <2>2. PatchedBody(ie[c.key].body, cIe[c.key].body, c.body) \in Bodies
    BY <1>4, <2>1 DEF PatchedBody, Bodies, StoredIEAgAgRules
  <2>3. [ie[c.key] EXCEPT !.body = PatchedBody(@, cIe[c.key].body, c.body)] \in IEAgAgRules
    BY <2>1, <2>2 DEF IEAgAgRules, StoredIEAgAgRules
  <2>4. ie' = [ie EXCEPT ![c.key] = [ie[c.key] EXCEPT
                                       !.body = PatchedBody(@, cIe[c.key].body, c.body)]]
    BY <1>6 DEF PatchIEAgAgRule
  <2>. QED  BY <1>3, <1>4, <1>6, <2>3, <2>4, IEAgAgRuleWriteTyped DEF PatchIEAgAgRule
<1>7. CASE FailIEAgAgRule(c)
  BY <1>3, <1>4, <1>7 DEF FailIEAgAgRule, TypeOK, caches, queues, setting
<1>. QED  BY <1>2, <1>5, <1>6, <1>7

LEMMA DeleteByNameTyped ==
    ASSUME TypeOK, NEW k \in Keys, NEW worker \in RuleWorkers, DeleteByName(k), rw' = worker,
           UNCHANGED <<svc, alias, rule, caches, queues, aw, setting>>
    PROVE  TypeOK'
<1>1. CASE ie[k].phase = "live"
  <2>1. ie[k] \in StoredIEAgAgRules
    BY <1>1, IEAgAgRuleContents DEF TypeOK
  <2>2. ie' = [ie EXCEPT ![k] = DeletedIE(ie[k])]
    BY <1>1 DEF DeleteByName
  <2>. QED  BY <2>1, <2>2, IEAgAgRuleEdits, IEAgAgRuleWriteTyped
<1>2. CASE ie[k].phase # "live"
  <2>1. ie' = [ie EXCEPT ![k] = ie[k]] /\ ie[k] \in IEAgAgRules
    BY <1>2 DEF DeleteByName, TypeOK
  <2>. QED  BY <2>1, IEAgAgRuleWriteTyped
<1>. QED  BY <1>1, <1>2

(* The worker with one rule less to delete.                                 *)
LEMMA FewerDoomedTyped ==
    ASSUME TypeOK, rw.pc # "Idle", NEW k \in rw.doomed
    PROVE  /\ k \in Keys
           /\ [rw EXCEPT !.doomed = @ \ {k}] \in BusyWorkers
           /\ [rw EXCEPT !.doomed = @ \ {k}, !.failed = @ \cup {k}] \in BusyWorkers
           /\ Applied([rw EXCEPT !.doomed = @ \ {k}]) \in RuleWorkers
           /\ Deleting([rw EXCEPT !.doomed = @ \ {k}]) \in RuleWorkers
           /\ Deleting([rw EXCEPT !.doomed = @ \ {k}, !.failed = @ \cup {k}]) \in RuleWorkers
<1>1. rw \in BusyWorkers /\ k \in Keys
  BY Busy
<1>2. [rw EXCEPT !.doomed = @ \ {k}] \in BusyWorkers
  BY <1>1 DEF BusyWorkers
<1>3. [rw EXCEPT !.doomed = @ \ {k}, !.failed = @ \cup {k}] \in BusyWorkers
  BY <1>1 DEF BusyWorkers
<1>. QED  BY <1>1, <1>2, <1>3, AppliedTyped, DeletingTyped, RuleIdleTyped DEF RuleWorkers

LEMMA DeleteObsoleteTyped ==
    ASSUME TypeOK, DeleteObsolete, UNCHANGED <<aw, setting>>
    PROVE  TypeOK'
<1>1. rw.pc # "Idle"
  BY DEF DeleteObsolete
<1>2. PICK k \in rw.doomed : DeleteByName(k) /\ rw' = Applied([rw EXCEPT !.doomed = @ \ {k}])
  BY DEF DeleteObsolete
<1>. QED  BY <1>1, <1>2, FewerDoomedTyped, DeleteByNameTyped DEF DeleteObsolete

LEMMA NoIEAgAgRuleTyped == NoIEAgAgRule \in IEAgAgRules
BY DEF IEAgAgRules

LEMMA DeleteRelatedTyped ==
    ASSUME TypeOK, DeleteRelated, UNCHANGED <<aw, setting>>
    PROVE  TypeOK'
<1>1. rw.pc # "Idle" /\ UNCHANGED <<svc, alias, rule, caches, queues>>
  BY DEF DeleteRelated
<1>2. PICK k \in rw.doomed :
        /\ DeleteByName(k) \/ ie' = [ie EXCEPT ![k] = NoIEAgAgRule]
        /\ rw' = Deleting([rw EXCEPT !.doomed = @ \ {k}])
  BY DEF DeleteRelated
<1>3. k \in Keys /\ Deleting([rw EXCEPT !.doomed = @ \ {k}]) \in RuleWorkers
  BY <1>1, FewerDoomedTyped
<1>. QED  BY <1>1, <1>2, <1>3, DeleteByNameTyped, NoIEAgAgRuleTyped, IEAgAgRuleWriteTyped

LEMMA NoRuleTyped == NoRule \in RuleObjects /\ RemovedRule \in RuleObjects
BY DEF RuleObjects

LEMMA RemoveRuleFinalizerTyped ==
    ASSUME TypeOK, RemoveRuleFinalizer, UNCHANGED <<aw, setting>>
    PROVE  TypeOK'
<1>1. rw.pc # "Idle"
  BY DEF RemoveRuleFinalizer
<1>2. CASE Accepts(rule[rw.key], rw.rule)
  BY <1>1, <1>2, Busy, NoRuleTyped, RuleIdleTyped, RuleWriteTyped DEF RemoveRuleFinalizer
<1>3. CASE ~Accepts(rule[rw.key], rw.rule)
  BY <1>1, <1>3, RuleErrorTyped DEF RemoveRuleFinalizer
<1>. QED  BY <1>2, <1>3

LEMMA ReportedTyped ==
    ASSUME TypeOK, rw.pc # "Idle"
    PROVE  Reported \in RuleWorkers
<1>1. [rw EXCEPT !.status = Unset, !.doomed = OwnedBy(rw.key)] \in BusyWorkers
  BY Busy, UnsetTyped, OwnedByTyped DEF BusyWorkers
<1>. QED  BY <1>1, DeletingTyped, RuleIdleTyped DEF Reported, RuleWorkers

LEMMA SwallowReportTyped ==
    ASSUME TypeOK, rw.pc # "Idle", SwallowReport, UNCHANGED <<aw, setting>>
    PROVE  TypeOK'
BY ReportedTyped DEF SwallowReport, TypeOK, store, caches, queues, setting

LEMMA ReportStatusTyped ==
    ASSUME TypeOK, ReportStatus, UNCHANGED <<aw, setting>>
    PROVE  TypeOK'
<1>1. rw.pc # "Idle"
  BY DEF ReportStatus
<1>2. CASE Accepts(rule[rw.key], rw.rule)
  <2>1. rule' = [rule EXCEPT ![rw.key] = [rule[rw.key] EXCEPT !.status = rw.status]]
    BY <1>2 DEF ReportStatus
  <2>2. [rule[rw.key] EXCEPT !.status = rw.status] \in RuleObjects
    BY <1>1, <1>2, Busy, AcceptedRule, RuleEdits, StoredRuleContents
  <2>. QED  BY <1>1, <1>2, <2>1, <2>2, Busy, ReportedTyped, RuleWriteTyped DEF ReportStatus
<1>3. CASE ~Accepts(rule[rw.key], rw.rule)
  BY <1>1, <1>3, RuleErrorTyped, SwallowReportTyped DEF ReportStatus
<1>. QED  BY <1>2, <1>3

LEMMA RuleStepTyped ==
    ASSUME TypeOK, RuleStep, UNCHANGED <<aw, setting>>
    PROVE  TypeOK'
BY AddRuleFinalizerTyped, ListInTargetTyped, SetRuleOwnerTyped, createOrUpdateIEAgAgRuleTyped,
   DeleteObsoleteTyped, DeleteRelatedTyped, RemoveRuleFinalizerTyped, ReportStatusTyped
   DEF RuleStep

LEMMA FailedRuleCallTyped ==
    ASSUME TypeOK, FailedRuleCall, UNCHANGED aw, events' \subseteq events
    PROVE  TypeOK'
<1>. DEFINE Quiet == UNCHANGED <<store, caches, queues>>
<1>1. rw.pc # "Idle"
  BY DEF FailedRuleCall
<1>2. CASE RuleError
  BY <1>1, <1>2, Busy DEF TypeOK, RuleError, store, caches, RuleWorkers
<1>3. CASE SwallowReport
  BY <1>1, <1>3, ReportedTyped DEF SwallowReport, TypeOK, store, caches, queues
<1>4. ASSUME NEW worker \in RuleWorkers, rw' = worker, Quiet
      PROVE  TypeOK'
  BY <1>4 DEF TypeOK, store, caches, queues
<1>5. CASE Quiet /\ \E c \in NextCalls : rw' = Applied(Skipped(c))
  BY <1>1, <1>4, <1>5, MadeTyped DEF NextCalls
<1>6. CASE Quiet /\ \E k \in rw.doomed : rw' = Applied([rw EXCEPT !.doomed = @ \ {k}])
  BY <1>1, <1>4, <1>6, FewerDoomedTyped
<1>7. CASE Quiet /\ \E k \in rw.doomed :
             rw' = Deleting([rw EXCEPT !.doomed = @ \ {k}, !.failed = @ \cup {k}])
  BY <1>1, <1>4, <1>7, FewerDoomedTyped
<1>. HIDE DEF Quiet
<1>8. \/ RuleError \/ SwallowReport
      \/ Quiet /\ \E c \in NextCalls : rw' = Applied(Skipped(c))
      \/ Quiet /\ \E k \in rw.doomed : rw' = Applied([rw EXCEPT !.doomed = @ \ {k}])
      \/ Quiet /\ \E k \in rw.doomed :
           rw' = Deleting([rw EXCEPT !.doomed = @ \ {k}, !.failed = @ \cup {k}])
  BY Zenon DEF FailedRuleCall, Quiet
<1>. QED  BY <1>2, <1>3, <1>5, <1>6, <1>7, <1>8

---------------------------------------------------------------------------
(* The ServiceAlias worker.                                                *)

LEMMA AliasIdleTyped == AliasIdle \in AliasWorkers
BY DEF AliasWorkers

LEMMA AliasAtTyped ==
    ASSUME TypeOK, NEW a \in Aliases
    PROVE  /\ \A pc \in AliasPcs : AliasAt(a, pc) \in AliasWorkers
           /\ Dispatch(a) \in AliasWorkers
<1>1. \A pc \in AliasPcs : AliasAt(a, pc) \in AliasWorkers
  BY DEF TypeOK, AliasAt, AliasWorkers
<1>. QED  BY <1>1, AliasIdleTyped DEF Dispatch, AliasPcs

LEMMA BusyAlias ==
    ASSUME TypeOK, aw.pc # "Idle"
    PROVE  aw.key \in Aliases /\ aw.alias \in AliasObjects
BY DEF TypeOK, AliasWorkers, AliasIdle

LEMMA AliasErrorTyped ==
    ASSUME TypeOK, aw.pc # "Idle", AliasError, UNCHANGED <<rw, setting>>
    PROVE  TypeOK'
BY BusyAlias, AliasIdleTyped DEF TypeOK, AliasError, store, caches, setting

LEMMA AliasWriteTyped ==
    ASSUME TypeOK, NEW a \in Aliases, NEW object \in AliasObjects, NEW worker \in AliasWorkers,
           alias' = [alias EXCEPT ![a] = object], aw' = worker, aq' \subseteq Aliases,
           UNCHANGED <<svc, rule, ie, caches, rq, rw, setting>>
    PROVE  TypeOK'
BY DEF TypeOK, caches, setting

LEMMA RereadTyped ==
    ASSUME TypeOK, aw.pc # "Idle", NEW pc \in {"Dispatch", "SetReady"}, Reread(pc)
    PROVE  aw' \in AliasWorkers /\ aq' \subseteq Aliases
<1>1. aw.key \in Aliases /\ aq \subseteq Aliases
  BY BusyAlias DEF TypeOK
<1>2. CASE aw' = AliasIdle /\ aq' = aq \cup {aw.key}
  BY <1>1, <1>2, AliasIdleTyped
<1>3. CASE aw' = (IF pc = "Dispatch" THEN Dispatch(aw.key) ELSE AliasAt(aw.key, pc)) /\ UNCHANGED aq
  BY <1>1, <1>3, AliasAtTyped DEF AliasPcs
<1>. QED  BY <1>2, <1>3 DEF Reread

LEMMA ReconcileAliasTyped ==
    ASSUME TypeOK, NEW a \in Aliases, ReconcileAlias(a), UNCHANGED <<rw, setting>>
    PROVE  TypeOK'
<1>1. Fetched(a) \in AliasWorkers
  BY AliasAtTyped, AliasIdleTyped DEF Fetched, AliasPcs
<1>. QED  BY <1>1 DEF ReconcileAlias, BeginAlias, TypeOK, store, caches, setting

LEMMA AliasStepTyped ==
    ASSUME TypeOK, AliasStep, UNCHANGED <<rw, setting>>
    PROVE  TypeOK'
<1>. DEFINE a == aw.key
<1>1. aw.pc # "Idle"
  BY DEF AliasStep, AddAliasFinalizer, SetAliasOwner, SetAliasReady, ReportMissingService,
         RemoveAliasFinalizer
<1>2. a \in Aliases /\ alias[a] \in AliasObjects /\ aq \cup {a} \subseteq Aliases
  BY <1>1, BusyAlias DEF TypeOK
<1>3. CASE AliasError
  BY <1>1, <1>3, AliasErrorTyped
<1>4. CASE AddAliasFinalizer /\ ~AliasError
  <2>1. alias' = [alias EXCEPT ![a] = [alias[a] EXCEPT !.fin = TRUE]] /\ Reread("Dispatch")
    BY <1>4 DEF AddAliasFinalizer
  <2>. QED  BY <1>1, <1>2, <1>4, <2>1, AliasEdits, RereadTyped, AliasWriteTyped
            DEF AddAliasFinalizer
<1>5. CASE SetAliasOwner /\ ~AliasError
  <2>1. alias' = [alias EXCEPT ![a] = [alias[a] EXCEPT !.owned = TRUE]] /\ Reread("SetReady")
    BY <1>5 DEF SetAliasOwner
  <2>. QED  BY <1>1, <1>2, <1>5, <2>1, AliasEdits, RereadTyped, AliasWriteTyped
            DEF SetAliasOwner
<1>6. CASE SetAliasReady /\ ~AliasError
  <2>1. alias' = [alias EXCEPT ![a] = [alias[a] EXCEPT !.ready = "True"]]
    BY <1>6 DEF SetAliasReady
  <2>. QED  BY <1>2, <1>6, <2>1, AliasEdits, AliasIdleTyped, AliasWriteTyped
            DEF SetAliasReady, queues, TypeOK
<1>7. CASE ReportMissingService
  <2>1. \/ alias' = [alias EXCEPT ![a] = [alias[a] EXCEPT !.ready = "ServiceNotFound"]]
        \/ alias' = [alias EXCEPT ![a] = alias[a]]
    BY <1>7 DEF ReportMissingService, TypeOK
  <2>. QED  BY <1>2, <1>7, <2>1, AliasEdits, AliasIdleTyped, AliasWriteTyped
            DEF ReportMissingService
<1>8. CASE RemoveAliasFinalizer /\ ~AliasError
  BY <1>2, <1>8, NoAliasTyped, AliasIdleTyped, AliasWriteTyped
     DEF RemoveAliasFinalizer, queues, TypeOK
<1>. QED  BY <1>3, <1>4, <1>5, <1>6, <1>7, <1>8 DEF AliasStep

---------------------------------------------------------------------------
(* Users and the rest of the cluster.                                      *)

LEMMA ServiceWriteTyped ==
    ASSUME TypeOK, NEW s \in Services, NEW object \in ServiceObjects,
           svc' = [svc EXCEPT ![s] = object],
           UNCHANGED <<alias, rule, ie, caches, queues, workers>>, events' \subseteq events
    PROVE  TypeOK'
BY DEF TypeOK, caches, queues, workers

LEMMA StoreWriteTyped ==
    ASSUME TypeOK, UNCHANGED <<svc, caches, queues, workers>>, events' \subseteq events,
           alias' \in [Aliases -> AliasObjects], rule' \in [Rules -> RuleObjects],
           ie' \in [Keys -> IEAgAgRules]
    PROVE  TypeOK'
BY DEF TypeOK, caches, queues, workers

LEMMA UsersTyped ==
    ASSUME TypeOK, Users
    PROVE  TypeOK'
<1>. USE DEF Request, Happens
<1>1. ASSUME NEW r \in Rules, NEW spec \in RuleSpecs, CreateRule(r, spec)
      PROVE  TypeOK'
  <2>1. NewRule(spec) \in RuleObjects
    BY NewRuleTyped, StoredRuleContents
  <2>. QED  BY <1>1, <2>1, StoreWriteTyped DEF CreateRule, TypeOK
<1>2. ASSUME NEW r \in Rules, NEW spec \in RuleSpecs, UpdateRule(r, spec)
      PROVE  TypeOK'
  <2>1. rule[r] \in StoredRules
    BY <1>2, CachedRuleTyped DEF UpdateRule
  <2>2. [rule[r] EXCEPT !.spec = spec] \in RuleObjects
    BY <2>1, RuleEdits, StoredRuleContents
  <2>3. rule' = [rule EXCEPT ![r] = [rule[r] EXCEPT !.spec = spec]]
    BY <1>2 DEF UpdateRule
  <2>. QED  BY <1>2, <2>2, <2>3, StoreWriteTyped DEF UpdateRule, TypeOK
<1>3. ASSUME NEW r \in Rules, DeleteRule(r)
      PROVE  TypeOK'
  <2>1. rule[r] \in StoredRules
    BY <1>3, CachedRuleTyped DEF DeleteRule
  <2>. QED  BY <1>3, <2>1, RuleEdits, StoreWriteTyped DEF DeleteRule, TypeOK
<1>4. ASSUME NEW a \in Aliases, CreateAlias(a)
      PROVE  TypeOK'
  <2>1. alias' = [alias EXCEPT ![a] = [alias[a] EXCEPT !.phase = "live"]]
    BY <1>4 DEF CreateAlias
  <2>2. alias' \in [Aliases -> AliasObjects]
    BY <2>1, AliasEdits DEF TypeOK
  <2>. QED  BY <1>4, <2>2, StoreWriteTyped DEF CreateAlias, TypeOK
<1>5. ASSUME NEW a \in Aliases, DeleteAlias(a)
      PROVE  TypeOK'
  <2>1. alias' \in [Aliases -> AliasObjects]
    BY <1>5, AliasEdits DEF DeleteAlias, TypeOK
  <2>. QED  BY <1>5, <2>1, StoreWriteTyped DEF DeleteAlias, TypeOK
<1>6. ASSUME NEW s \in Services, NEW event \in events, event.op = "SetService",
             SetService(s, event.to)
      PROVE  TypeOK'
  <2>1. event.to \in ServiceContents /\ svc[s] \in ServiceObjects
    BY <1>6 DEF TypeOK
  <2>2. svc' = [svc EXCEPT ![s] = [svc[s] EXCEPT !.groups = event.to.groups,
                                                 !.ports = event.to.ports]]
    BY <1>6, <2>1 DEF SetService, TypeOK, ServiceObjects
  <2>. QED  BY <1>6, <2>1, <2>2, ServiceEdits, ServiceWriteTyped DEF SetService
<1>7. ASSUME NEW s \in Services, DeleteService(s)
      PROVE  TypeOK'
  <2>1. svc' = [svc EXCEPT ![s] = [svc[s] EXCEPT !.phase = "deleting"]]
    BY <1>7 DEF DeleteService
  <2>. QED  BY <1>7, <2>1, ServiceEdits, ServiceWriteTyped DEF DeleteService, TypeOK
<1>. QED  BY <1>1, <1>2, <1>3, <1>4, <1>5, <1>6, <1>7 DEF Users

LEMMA CollectedTyped ==
    ASSUME TypeOK, NEW k \in Keys, DeleteByName(k)
    PROVE  ie' \in [Keys -> IEAgAgRules]
<1>1. ie[k].phase = "live" => DeletedIE(ie[k]) \in IEAgAgRules
  BY IEAgAgRuleContents, IEAgAgRuleEdits DEF TypeOK
<1>. QED  BY <1>1 DEF DeleteByName, TypeOK

LEMMA AroundTyped ==
    ASSUME TypeOK, Around
    PROVE  TypeOK'
<1>. USE DEF setting
<1>1. CASE Resync
  BY <1>1 DEF Around, Resync, TypeOK, store, caches, workers
<1>2. ASSUME NEW s \in Services, SyncService(s)
      PROVE  TypeOK'
  <2>1. findRuleS2SForService(s) \subseteq Rules
    BY DEF findRuleS2SForService, findRuleS2SForServiceAlias
  <2>. QED  BY <1>2, <2>1 DEF Around, SyncService, TypeOK, store, workers
<1>3. ASSUME NEW s \in Services, ServiceGone(s)
      PROVE  TypeOK'
  BY <1>3, NoServiceTyped, ServiceWriteTyped DEF Around, ServiceGone
<1>4. ASSUME NEW a \in Aliases, SyncAlias(a)
      PROVE  TypeOK'
  <2>1. findRuleS2SForServiceAlias(a) \subseteq Rules
    BY DEF findRuleS2SForServiceAlias
  <2>. QED  BY <1>4, <2>1 DEF Around, SyncAlias, TypeOK, store, workers
<1>5. ASSUME NEW a \in Aliases, CollectAlias(a)
      PROVE  TypeOK'
  <2>1. alias' \in [Aliases -> AliasObjects]
    BY <1>5, AliasEdits DEF CollectAlias, TypeOK
  <2>. QED  BY <1>5, <2>1, StoreWriteTyped DEF Around, CollectAlias, TypeOK
<1>6. ASSUME NEW r \in Rules, SyncRule(r)
      PROVE  TypeOK'
  BY <1>6 DEF Around, SyncRule, TypeOK, store, workers
<1>7. ASSUME NEW r \in Rules, CollectRule(r)
      PROVE  TypeOK'
  <2>1. rule[r] \in StoredRules
    BY <1>7, CachedRuleTyped DEF CollectRule
  <2>. QED  BY <1>7, <2>1, RuleEdits, StoreWriteTyped DEF Around, CollectRule, TypeOK
<1>8. ASSUME NEW k \in Keys, SyncIEAgAgRule(k)
      PROVE  TypeOK'
  BY <1>8 DEF Around, SyncIEAgAgRule, TypeOK, store, queues, workers
<1>9. ASSUME NEW k \in Keys, CollectIEAgAgRule(k)
      PROVE  TypeOK'
  BY <1>9, CollectedTyped, StoreWriteTyped DEF Around, CollectIEAgAgRule, TypeOK
<1>10. ASSUME NEW k \in Keys, AdoptIEAgAgRule(k)
       PROVE  TypeOK'
  <2>1. [ie[k] EXCEPT !.fin = TRUE] \in IEAgAgRules
    BY <1>10, IEAgAgRuleContents, IEAgAgRuleEdits DEF AdoptIEAgAgRule, TypeOK
  <2>2. ie' = [ie EXCEPT ![k] = [ie[k] EXCEPT !.fin = TRUE]]
    BY <1>10 DEF AdoptIEAgAgRule
  <2>. QED  BY <1>10, <2>1, <2>2, StoreWriteTyped DEF Around, AdoptIEAgAgRule, TypeOK
<1>11. ASSUME NEW k \in Keys, ReleaseIEAgAgRule(k)
       PROVE  TypeOK'
  BY <1>11, NoIEAgAgRuleTyped, StoreWriteTyped DEF Around, ReleaseIEAgAgRule, TypeOK
<1>. QED  BY <1>1, <1>2, <1>3, <1>4, <1>5, <1>6, <1>7, <1>8, <1>9, <1>10, <1>11 DEF Around

LEMMA FailedCallTyped ==
    ASSUME TypeOK, FailedCall
    PROVE  TypeOK'
<1>1. events' \subseteq events
  BY DEF FailedCall, Happens
<1>2. CASE FailedRuleCall /\ UNCHANGED aw
  BY <1>1, <1>2, FailedRuleCallTyped
<1>3. CASE aw # AliasIdle /\ AliasError /\ UNCHANGED rw
  <2>1. aw.key \in Aliases
    BY <1>3 DEF TypeOK, AliasWorkers
  <2>. QED  BY <1>1, <1>3, <2>1, AliasIdleTyped DEF AliasError, TypeOK, store, caches
<1>. QED  BY <1>2, <1>3 DEF FailedCall

LEMMA RestartTyped ==
    ASSUME TypeOK, Restart
    PROVE  TypeOK'
BY RuleIdleTyped, AliasIdleTyped DEF Restart, TypeOK, store, Happens

LEMMA InitTyped ==
    ASSUME Init
    PROVE  TypeOK
<1>1. PICK scenario \in Scenarios :
        /\ svc = InitialServices
        /\ alias = [a \in Aliases |-> IF a \in scenario.aliases THEN ExistingAlias ELSE NoAlias]
        /\ rule = [r \in Rules |-> IF r \in DOMAIN scenario.rules
                                   THEN NewRule(scenario.rules[r]) ELSE NoRule]
        /\ ie = [k \in Keys |-> NoIEAgAgRule]
        /\ cSvc = svc /\ cAlias = alias /\ cRule = rule /\ cIe = ie
        /\ rq = DOMAIN scenario.rules /\ aq = {}
        /\ rw = RuleIdle /\ aw = AliasIdle
        /\ events = scenario.events
  BY DEF Init, RInit, AInit
<1>2. rule \in [Rules -> RuleObjects]
  BY <1>1, ScenariosAssumption, NewRuleTyped, NoRuleTyped, StoredRuleContents
<1>3. alias \in [Aliases -> AliasObjects] /\ ie \in [Keys -> IEAgAgRules]
  BY <1>1, NoAliasTyped, NoIEAgAgRuleTyped
<1>4. /\ svc \in [Services -> ServiceObjects] /\ rq \subseteq Rules
      /\ \A event \in events : event.op = "SetService" => event.to \in ServiceContents
  BY <1>1, ScenariosAssumption, ServicesAssumption
<1>. QED  BY <1>1, <1>2, <1>3, <1>4, RuleIdleTyped, AliasIdleTyped DEF TypeOK

---------------------------------------------------------------------------
(* Objects, caches, queues and workers stay ones the program could hold:    *)
(* RuleS2SReconciler and ServiceAliasReconciler never store an object that  *)
(* its API type does not admit, whatever copies they computed it from.      *)
THEOREM RuleTypesHold == Spec => []TypeOK
<1>1. Init => TypeOK
  BY InitTyped
<1>2. TypeOK /\ [Next]_vars => TypeOK'
  <2>. SUFFICES ASSUME TypeOK, [Next]_vars PROVE TypeOK'
    OBVIOUS
  <2>1. CASE UNCHANGED vars
    BY <2>1 DEF vars, store, caches, queues, workers, setting, TypeOK
  <2>2. CASE RuleReconciler
    BY <2>2, ReconcileRuleTyped, RuleStepTyped DEF RuleReconciler
  <2>3. CASE AliasReconciler
    BY <2>3, ReconcileAliasTyped, AliasStepTyped DEF AliasReconciler
  <2>. QED  BY <2>1, <2>2, <2>3, UsersTyped, AroundTyped, FailedCallTyped, RestartTyped DEF Next
<1>. QED  BY <1>1, <1>2, PTL DEF Spec
=============================================================================
