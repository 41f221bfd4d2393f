------------------------- MODULE RuleS2SController -------------------------
(***************************************************************************)
(* RuleS2SReconciler: one worker that turns a RuleS2S into one IEAgAgRule  *)
(* for every pair of address groups and protocol, and takes back those it  *)
(* made when they are no longer wanted.                                    *)
(*                                                                         *)
(* Reads of caches that no write separates are one step, as in             *)
(* BindingController.  A cached Get of an IEAgAgRule and the Create or the *)
(* Patch it decides about are one step too: nothing else makes or patches  *)
(* IEAgAgRules.                                                            *)
(***************************************************************************)
EXTENDS RuleStore

VARIABLE rw     \* the worker: key, program counter, copies, what is left to do

RulePcs == {"AddFinalizer", "ListInTarget", "SetOwner", "Apply", "DeleteObsolete",
            "Report", "DeleteRelated", "RemoveFinalizer"}

(* One call of createOrUpdateIEAgAgRule.                                    *)
Calls == [pair : GroupRefs \X GroupRefs, key : Keys, body : Bodies]

(* todo: calls to make; done: keys they made (createdRules, expectedRules); *)
(* doomed: listed IEAgAgRules to delete; failed: those that would not go.   *)
RuleIdle == [key |-> None, pc |-> "Idle", rule |-> NoRule, svc |-> NoService,
             todo |-> {}, done |-> {}, doomed |-> {}, failed |-> {}, status |-> Unset]

BusyWorkers ==
    [key : Rules, pc : RulePcs, rule : StoredRules, svc : ServiceObjects,
     todo : SUBSET Calls, done : SUBSET Keys, doomed : SUBSET Keys, failed : SUBSET Keys,
     status : Statuses]

RuleWorkers == BusyWorkers \cup {RuleIdle}

RInit == rw = RuleIdle

---------------------------------------------------------------------------
(* The IEAgAgRules a rule stands for.                                      *)

(* NamespacedObjectReference.ResolveNamespace                              *)
ResolveNamespace(group, default) == IF group.ns = "" THEN default ELSE group.ns

ReceiverPorts(spec, local, target) ==
    IF spec.traffic = "ingress" THEN local.ports ELSE target.ports

KeyOf(r, traffic, localAG, targetAG, proto) ==
    [ns |-> ResolveNamespace(IF traffic = "ingress" THEN localAG ELSE targetAG, RuleNs[r]),
     traffic |-> traffic, local |-> localAG.name, target |-> targetAG.name, proto |-> proto]

(* The calls for every pair of groups and protocol with ports; none of them *)
(* when either service has no groups or the receiver has no ports.         *)
CallsFor(r, spec, local, target) ==
    LET ports == ReceiverPorts(spec, local, target)
        Call(localAG, targetAG, proto) ==
            [pair |-> <<localAG, targetAG>>,
             key  |-> KeyOf(r, spec.traffic, localAG, targetAG, proto),
             body |-> [local |-> localAG.ns, target |-> targetAG.ns, ports |-> ports[proto]]]
    IN  {Call(l, t, p) : l \in local.groups, t \in target.groups,
                         p \in {q \in Protocols : ports[q] # {}}}

inactiveConditions(spec, local, target) ==
    {s \in {LocalService(spec)} : local.groups = {}}
    \cup {s \in {TargetService(spec)} : target.groups = {}}
    \cup {x \in {None} : \A p \in Protocols : ReceiverPorts(spec, local, target)[p] = {}}

(* Seeded bug: the owner references are not looked at.                      *)
Listed(r) == {k \in Keys : Present(cIe[k])}

(* getExistingIEAgAgRules: by owner reference, in the cached list.          *)
OwnedBy(r) == {k \in Keys : cIe[k].owner = r}

---------------------------------------------------------------------------
(* Reconcile: read the caches and decide.                                  *)

Begin(r, worker) ==
    /\ rw = RuleIdle
    /\ r \in rq
    /\ rq' = rq \ {r}
    /\ rw' = worker
    /\ UNCHANGED <<store, caches, aq>>

At(r, pc) == [RuleIdle EXCEPT !.key = r, !.pc = pc, !.rule = cRule[r]]

ReconcileGoneRule(r) == ~Present(cRule[r]) /\ Begin(r, RuleIdle)

ReconcileNewRule(r) ==
    /\ Present(cRule[r]) /\ ~cRule[r].fin
    /\ Begin(r, At(r, "AddFinalizer"))

(* The worker once nothing is left to delete: a rule being deleted loses    *)
(* its finalizer, or says what could not be deleted; for an inactive rule   *)
(* failures are ignored.                                                   *)
Deleting(worker) ==
    IF worker.doomed # {} THEN [worker EXCEPT !.pc = "DeleteRelated"]
    ELSE IF worker.rule.phase # "deleting" THEN RuleIdle
    ELSE IF worker.failed = {} THEN [worker EXCEPT !.pc = "RemoveFinalizer"]
    ELSE [worker EXCEPT !.pc = "Report", !.failed = {},
                        !.status = [reason |-> "FailedToDeleteRules", about |-> worker.failed]]

ReconcileDeletedRule(r) ==
    /\ cRule[r].phase = "deleting" /\ cRule[r].fin
    /\ Begin(r, Deleting([At(r, "DeleteRelated") EXCEPT !.doomed = OwnedBy(r)]))

Live(r) == cRule[r].phase = "live" /\ cRule[r].fin

(* The first of the two aliases, then of their services, that is missing.   *)
(* The rule's IEAgAgRules stay as they are.                                *)
Missing(spec) ==
    LET aliases  == {a \in {spec.local, spec.target} : ~Present(cAlias[a])}
        services == {s \in {LocalService(spec), TargetService(spec)} : ~Present(cSvc[s])}
    IN  IF aliases # {} THEN IF spec.local \in aliases THEN {spec.local} ELSE aliases
        ELSE IF LocalService(spec) \in services THEN {LocalService(spec)} ELSE services

ReconcileDanglingRule(r) ==
    LET missing == Missing(cRule[r].spec)
    IN  /\ Live(r)
        /\ missing # {}
        /\ Begin(r, [At(r, "Report") EXCEPT
                       !.status = [reason |-> IF missing \subseteq Aliases
                                              THEN "ServiceAliasNotFound" ELSE "ServiceNotFound",
                                   about |-> missing]])

(* Once the target service or the rule refers to the other: an inactive     *)
(* rule is reported and loses its IEAgAgRules, an active one has them made. *)
Proceed(worker) ==
    IF worker.todo = {} THEN [worker EXCEPT !.pc = "Report", !.svc = NoService]
    ELSE [worker EXCEPT !.pc = "Apply", !.svc = NoService, !.doomed = OwnedBy(worker.key)]

Planned(r) ==
    LET spec   == cRule[r].spec
        local  == cSvc[LocalService(spec)]
        target == cSvc[TargetService(spec)]
        calls  == CallsFor(r, spec, local, target)
    IN  [At(r, "SetOwner") EXCEPT
           !.todo = calls,
           !.status = IF calls # {} THEN Unset
                      ELSE [reason |-> "ValidConfiguration",
                            about |-> inactiveConditions(spec, local, target)]]

(* A rule of another namespace than its target service is put on the        *)
(* service's RuleS2SDstOwnRef.                                             *)
ReconcileCrossRule(r) ==
    LET spec   == cRule[r].spec
        target == cSvc[TargetService(spec)]
    IN  /\ Live(r)
        /\ Missing(spec) = {}
        /\ CrossNamespace(r, spec)
        /\ Begin(r, IF r \in target.dstOwnRef THEN Proceed(Planned(r))
                    ELSE [Planned(r) EXCEPT !.pc = "ListInTarget", !.svc = target])

(* SetControllerReference fails, every time, for a rule that another        *)
(* service controls: the rule goes back to the queue and nothing else       *)
(* happens, a step that the guard of ReconcileSameNsRule leaves out.        *)
Wedged(object) ==
    object.owner # None /\ object.owner # TargetService(object.spec)

ReconcileSameNsRule(r) ==
    /\ Live(r)
    /\ Missing(cRule[r].spec) = {}
    /\ ~CrossNamespace(r, cRule[r].spec)
    /\ ~Wedged(cRule[r])
    /\ Begin(r, Planned(r))

ReconcileRule(r) ==
    \/ ReconcileGoneRule(r)
    \/ ReconcileNewRule(r)
    \/ ReconcileDeletedRule(r)
    \/ ReconcileDanglingRule(r)
    \/ ReconcileCrossRule(r)
    \/ ReconcileSameNsRule(r)

---------------------------------------------------------------------------
(* The writes.  An error ends the reconcile and queues the rule again.      *)

RuleError ==
    /\ rq' = rq \cup {rw.key}
    /\ rw' = RuleIdle
    /\ UNCHANGED <<store, caches, aq>>

AddRuleFinalizer ==
    LET r == rw.key
    IN  /\ rw.pc = "AddFinalizer"
        /\ IF Accepts(rule[r], rw.rule)
           THEN /\ rule' = [rule EXCEPT ![r].fin = TRUE]
                /\ rw' = RuleIdle
                /\ UNCHANGED <<svc, alias, ie, caches, queues>>
           ELSE RuleError

(* Seeded bug: the error of the update is only logged.                      *)
ListInTargetOrNot ==
    LET s == TargetService(rw.rule.spec)
    IN  /\ rw.pc = "ListInTarget"
        /\ svc' = IF Accepts(svc[s], rw.svc)
                  THEN [svc EXCEPT ![s].dstOwnRef = @ \cup {rw.key}] ELSE svc
        /\ rw' = Proceed(rw)
        /\ UNCHANGED <<alias, rule, ie, caches, queues>>

(* The whole service is stored, as read.                                   *)
ListInTarget ==
    LET s == TargetService(rw.rule.spec)
    IN  /\ rw.pc = "ListInTarget"
        /\ IF Accepts(svc[s], rw.svc)
           THEN /\ svc' = [svc EXCEPT ![s] = [rw.svc EXCEPT !.dstOwnRef = @ \cup {rw.key}]]
                /\ rw' = Proceed(rw)
                /\ UNCHANGED <<alias, rule, ie, caches, queues>>
           ELSE RuleError

(* Seeded bug: the rule is given to the alias.                              *)
OwnedByAlias(object) == [object EXCEPT !.owner = object.spec.target]

Owned(object) == [object EXCEPT !.owner = TargetService(object.spec)]

(* The copy carries the new resourceVersion from here on.                   *)
SetRuleOwner ==
    LET r == rw.key
    IN  /\ rw.pc = "SetOwner"
        /\ IF Accepts(rule[r], rw.rule)
           THEN /\ rule' = [rule EXCEPT ![r] = Owned(rw.rule)]
                /\ rw' = Proceed([rw EXCEPT !.rule = Owned(rw.rule)])
                /\ UNCHANGED <<svc, alias, ie, caches, queues>>
           ELSE RuleError

---------------------------------------------------------------------------
(* After the last call the listed rules that were not made again are        *)
(* deleted; then the outcome is reported.                                  *)
Applied(worker) ==
    LET obsolete == worker.doomed \ worker.done
    IN  IF worker.todo # {} THEN worker
        ELSE IF obsolete # {} THEN [worker EXCEPT !.pc = "DeleteObsolete", !.doomed = obsolete]
        ELSE [worker EXCEPT !.pc = "Report", !.done = {}, !.doomed = {},
                            !.status = [reason |-> IF worker.done # {} THEN "RulesCreated"
                                                   ELSE "NoRulesCreated",
                                        about |-> worker.done]]

(* The TCP call of a pair of groups comes before its UDP call.              *)
NextCalls ==
    {c \in rw.todo : c.key.proto = "UDP" =>
                       \A d \in rw.todo : d.pair = c.pair => d.key.proto = "UDP"}

Made(c) == [rw EXCEPT !.todo = @ \ {c}, !.done = @ \cup {c.key}]

(* A failed call is only logged; `continue` skips the UDP call of the pair. *)
Skipped(c) == [rw EXCEPT !.todo = {d \in @ : d.pair # c.pair}]

(* Create, with one owner that is no controller.                            *)
CreateIEAgAgRule(c) ==
    /\ cIe[c.key] = NoIEAgAgRule /\ ie[c.key] = NoIEAgAgRule
    /\ ie' = [ie EXCEPT ![c.key] = [phase |-> "live", fin |-> FALSE, owner |-> rw.key,
                                    body |-> c.body]]
    /\ rw' = Applied(Made(c))

(* client.MergeFrom: the fields in which the cached Spec differs from the   *)
(* wanted one.  The owner is left as it is.                                *)
PatchedBody(stored, cached, wanted) ==
    [f \in DOMAIN wanted |-> IF cached[f] # wanted[f] THEN wanted[f] ELSE stored[f]]

(* Seeded bug: an existing IEAgAgRule is taken to be up to date.            *)
AcceptExisting(c) ==
    /\ Present(cIe[c.key]) /\ Present(ie[c.key])
    /\ rw' = Applied(Made(c))
    /\ UNCHANGED ie

PatchIEAgAgRule(c) ==
    /\ Present(cIe[c.key]) /\ Present(ie[c.key])
    /\ ie' = [ie EXCEPT ![c.key].body = PatchedBody(@, cIe[c.key].body, c.body)]
    /\ rw' = Applied(Made(c))

(* AlreadyExists while the cache has no such rule, until the attempts are   *)
(* used up, or NotFound for a rule that is only left in the cache.          *)
FailIEAgAgRule(c) ==
    /\ Present(cIe[c.key]) # Present(ie[c.key])
    /\ rw' = Applied(Skipped(c))
    /\ UNCHANGED ie

createOrUpdateIEAgAgRule ==
    /\ rw.pc = "Apply"
    /\ \E c \in NextCalls : CreateIEAgAgRule(c) \/ PatchIEAgAgRule(c) \/ FailIEAgAgRule(c)
    /\ UNCHANGED <<svc, alias, rule, caches, queues>>

(* r.Delete by name: whatever carries the name by now is deleted.           *)
DeleteByName(k) ==
    ie' = [ie EXCEPT ![k] = IF @.phase = "live" THEN DeletedIE(@) ELSE @]

DeleteObsolete ==
    /\ rw.pc = "DeleteObsolete"
    /\ \E k \in rw.doomed :
         /\ DeleteByName(k)
         /\ rw' = Applied([rw EXCEPT !.doomed = @ \ {k}])
    /\ UNCHANGED <<svc, alias, rule, caches, queues>>

(* deleteRelatedIEAgAgRules, one listed rule: the provider's finalizer is    *)
(* taken off (an error, or the provider putting it back, changes nothing),   *)
(* then the rule is deleted.                                               *)
DeleteRelated ==
    /\ rw.pc = "DeleteRelated"
    /\ \E k \in rw.doomed :
         /\ \/ DeleteByName(k)
            \/ /\ ie[k].fin /\ Accepts(ie[k], cIe[k])
               /\ ie' = [ie EXCEPT ![k] = NoIEAgAgRule]
         /\ rw' = Deleting([rw EXCEPT !.doomed = @ \ {k}])
    /\ UNCHANGED <<svc, alias, rule, caches, queues>>

RemoveRuleFinalizer ==
    LET r == rw.key
    IN  /\ rw.pc = "RemoveFinalizer"
        /\ IF Accepts(rule[r], rw.rule)
           THEN /\ rule' = [rule EXCEPT ![r] = RemovedRule]
                /\ rw' = RuleIdle
                /\ UNCHANGED <<svc, alias, ie, caches, queues>>
           ELSE RuleError

(* Seeded bug: an inactive rule keeps its IEAgAgRules.                      *)
ReportedOnly == RuleIdle

(* The worker after its status update: an error is returned for             *)
(* RulesCreated only; an inactive rule goes on to lose its IEAgAgRules.     *)
Reported ==
    IF rw.status.reason # "ValidConfiguration" THEN RuleIdle
    ELSE Deleting([rw EXCEPT !.status = Unset, !.doomed = OwnedBy(rw.key)])

SwallowReport ==
    /\ rw' = Reported
    /\ UNCHANGED <<store, caches, queues>>

ReportStatus ==
    LET r == rw.key
    IN  /\ rw.pc = "Report"
        /\ IF Accepts(rule[r], rw.rule)
           THEN /\ rule' = [rule EXCEPT ![r].status = rw.status]
                /\ rw' = Reported
                /\ UNCHANGED <<svc, alias, ie, caches, queues>>
           ELSE IF rw.status.reason = "RulesCreated" THEN RuleError
           ELSE SwallowReport

RuleStep ==
    \/ AddRuleFinalizer
    \/ ListInTarget
    \/ SetRuleOwner
    \/ createOrUpdateIEAgAgRule
    \/ DeleteObsolete
    \/ DeleteRelated
    \/ RemoveRuleFinalizer
    \/ ReportStatus

(* One of these calls fails: an error of its own, or one that is swallowed. *)
FailedRuleCall ==
    \/ rw.pc \in {"AddFinalizer", "ListInTarget", "SetOwner", "RemoveFinalizer"} /\ RuleError
    \/ /\ rw.pc = "Report"
       /\ IF rw.status.reason = "RulesCreated" THEN RuleError ELSE SwallowReport
    \/ /\ \/ rw.pc = "Apply" /\ \E c \in NextCalls : rw' = Applied(Skipped(c))
          \/ /\ rw.pc = "DeleteObsolete"
             /\ \E k \in rw.doomed : rw' = Applied([rw EXCEPT !.doomed = @ \ {k}])
          \/ /\ rw.pc = "DeleteRelated"
             /\ \E k \in rw.doomed :
                  rw' = Deleting([rw EXCEPT !.doomed = @ \ {k}, !.failed = @ \cup {k}])
       /\ UNCHANGED <<store, caches, queues>>
=============================================================================
