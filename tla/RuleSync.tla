------------------------------ MODULE RuleSync ------------------------------
(***************************************************************************)
(* Access between services: users write RuleS2S objects about pairs of     *)
(* service aliases, and the controllers of RuleS2SController and           *)
(* ServiceAliasController turn them into IEAgAgRules of the provider.      *)
(*                                                                         *)
(* A service's groups and ports change as BindingSync lets them; here that *)
(* is one step of the environment, and live services count as Ready.       *)
(***************************************************************************)
EXTENDS RuleS2SController, ServiceAliasController

(* A scenario: the aliases that are there and reconciled, the specs of the  *)
(* rules just created, the events that may happen, each at most once, in   *)
(* any order ([op, on, to] for a request of a user, [op] for a fault), and  *)
(* the operations that may happen any number of times: "Resync" (of rules), *)
(* "Adopt" (the provider puts its finalizer on IEAgAgRules), "Validate"     *)
(* (requests pass the validating webhooks).                                *)
CONSTANTS Scenarios,        \* records [aliases, rules, events, operations]
          InitialServices   \* the services as they are at first

ServiceContents == [groups : SUBSET GroupRefs, ports : [Protocols -> PortSets \cup {{}}]]

ASSUME ScenariosAssumption ==
    \A scenario \in Scenarios :
      /\ DOMAIN scenario.rules \subseteq Rules
      /\ \A r \in DOMAIN scenario.rules : scenario.rules[r] \in RuleSpecs
      /\ \A event \in scenario.events : event.op = "SetService" => event.to \in ServiceContents

ASSUME ServicesAssumption ==
    /\ InitialServices \in [Services -> ServiceObjects]
    /\ \A s \in Services : Present(InitialServices[s])

VARIABLES events, operations

workers == <<rw, aw>>
setting == <<events, operations>>
vars    == <<store, caches, queues, workers, setting>>

ExistingAlias == [phase |-> "live", fin |-> TRUE, owned |-> TRUE, ready |-> "True"]

(* Existing rules are new ones: created, not yet reconciled.                *)
NewRule(spec) == [NoRule EXCEPT !.phase = "live", !.spec = spec]

Init ==
    \E scenario \in Scenarios :
      /\ svc = InitialServices
      /\ alias = [a \in Aliases |-> IF a \in scenario.aliases THEN ExistingAlias ELSE NoAlias]
      /\ rule = [r \in Rules |-> IF r \in DOMAIN scenario.rules
                                 THEN NewRule(scenario.rules[r]) ELSE NoRule]
      /\ ie = [k \in Keys |-> NoIEAgAgRule]
      /\ cSvc = svc /\ cAlias = alias /\ cRule = rule /\ cIe = ie
      /\ rq = DOMAIN scenario.rules /\ aq = {}
      /\ RInit /\ AInit
      /\ events = scenario.events
      /\ operations = scenario.operations

---------------------------------------------------------------------------
(* Users, through the validating webhooks, which read the caches.  The      *)
(* markers register the validators of RuleS2S and ServiceAlias for rules2s  *)
(* and servicealias, not for the plurals of their CRDs, and the manifests   *)
(* leave out the deletion of services: without "Validate" no request is     *)
(* checked.                                                                *)

Validated(check) == "Validate" \in operations => check

Happens(event) ==
    /\ event \in events
    /\ events' = events \ {event}
    /\ UNCHANGED operations

Request(event) == Happens(event) /\ UNCHANGED <<caches, queues, workers>>

(* No other live rule says the same.                                       *)
NoDuplicate(r, spec) ==
    \A q \in Rules \ {r} : cRule[q].phase = "live" => cRule[q].spec # spec

CreateRule(r, spec) ==
    /\ rule[r] = NoRule
    /\ Validated(/\ NoDuplicate(r, spec)
                 /\ \A a \in {spec.local, spec.target} :
                      Present(cAlias[a]) /\ cAlias[a].ready = "True")
    /\ rule' = [rule EXCEPT ![r] = NewRule(spec)]
    /\ UNCHANGED <<svc, alias, ie>>
    /\ Request([op |-> "CreateRule", on |-> r, to |-> spec])

(* ValidateUpdate looks for duplicates, not for the aliases; that a Ready   *)
(* rule keeps its spec is never found out (IsReadyConditionTrue does not    *)
(* know RuleS2S).                                                          *)
UpdateRule(r, spec) ==
    /\ rule[r].phase = "live"
    /\ rule[r].spec # spec
    /\ Validated(NoDuplicate(r, spec))
    /\ rule' = [rule EXCEPT ![r].spec = spec]
    /\ UNCHANGED <<svc, alias, ie>>
    /\ Request([op |-> "UpdateRule", on |-> r, to |-> spec])

DeleteRule(r) ==
    /\ rule[r].phase = "live"
    /\ rule' = [rule EXCEPT ![r] = DeletedRule(@)]
    /\ UNCHANGED <<svc, alias, ie>>
    /\ Request([op |-> "DeleteRule", on |-> r])

CreateAlias(a) ==
    /\ alias[a] = NoAlias
    /\ Validated(Present(cSvc[AliasFor[a]]))
    /\ alias' = [alias EXCEPT ![a].phase = "live"]
    /\ UNCHANGED <<svc, rule, ie>>
    /\ Request([op |-> "CreateAlias", on |-> a])

(* Refused while a cached rule names the alias.                             *)
DeleteAlias(a) ==
    /\ alias[a].phase = "live"
    /\ Validated(~Referenced(a))
    /\ alias' = [alias EXCEPT ![a] = DeletedAlias(@)]
    /\ UNCHANGED <<svc, rule, ie>>
    /\ Request([op |-> "DeleteAlias", on |-> a])

(* Bindings add and remove groups, users change ports.                      *)
SetService(s, to) ==
    /\ Present(svc[s])
    /\ svc' = [svc EXCEPT ![s].groups = to.groups, ![s].ports = to.ports]
    /\ UNCHANGED <<alias, rule, ie>>
    /\ Request([op |-> "SetService", on |-> s, to |-> to])

(* Refused while a cached rule names an alias the service owns.             *)
DeleteService(s) ==
    /\ svc[s].phase = "live"
    /\ Validated(\A a \in Aliases : AliasFor[a] = s /\ cAlias[a].owned => ~Referenced(a))
    /\ svc' = [svc EXCEPT ![s].phase = "deleting"]
    /\ UNCHANGED <<alias, rule, ie>>
    /\ Request([op |-> "DeleteService", on |-> s])

---------------------------------------------------------------------------
(* The rest of the cluster.                                                *)

(* ServiceController takes its finalizer off (BindingSync).                 *)
ServiceGone(s) ==
    /\ svc[s].phase = "deleting"
    /\ svc' = [svc EXCEPT ![s] = [NoService EXCEPT !.phase = "gone"]]
    /\ UNCHANGED <<alias, rule, ie, caches, queues>>

(* The garbage collector deletes what lost its owner; the webhooks judge    *)
(* its requests like a user's.  An owner in another namespace counts as     *)
(* lost.                                                                   *)
CollectAlias(a) ==
    /\ alias[a].phase = "live" /\ alias[a].owned
    /\ svc[AliasFor[a]].phase = "gone"
    /\ Validated(~Referenced(a))
    /\ alias' = [alias EXCEPT ![a] = DeletedAlias(@)]
    /\ UNCHANGED <<svc, rule, ie, caches, queues>>

CollectRule(r) ==
    /\ rule[r].phase = "live" /\ rule[r].owner # None
    /\ svc[rule[r].owner].phase = "gone"
    /\ rule' = [rule EXCEPT ![r] = DeletedRule(@)]
    /\ UNCHANGED <<svc, alias, ie, caches, queues>>

CollectIEAgAgRule(k) ==
    /\ ie[k].phase = "live"
    /\ ~Present(rule[ie[k].owner]) \/ RuleNs[ie[k].owner] # k.ns
    /\ DeleteByName(k)
    /\ UNCHANGED <<svc, alias, rule, caches, queues>>

(* The provider guards the IEAgAgRules it has taken over, and lets them go.  *)
AdoptIEAgAgRule(k) ==
    /\ "Adopt" \in operations
    /\ ie[k].phase = "live" /\ ~ie[k].fin
    /\ ie' = [ie EXCEPT ![k].fin = TRUE]
    /\ UNCHANGED <<svc, alias, rule, caches, queues>>

ReleaseIEAgAgRule(k) ==
    /\ ie[k].phase = "deleting"
    /\ ie' = [ie EXCEPT ![k] = NoIEAgAgRule]
    /\ UNCHANGED <<svc, alias, rule, caches, queues>>

Resync ==
    /\ "Resync" \in operations
    /\ rq' = rq \cup {r \in Rules : Present(cRule[r])}
    /\ UNCHANGED <<store, caches, aq>>

FailedCall ==
    /\ \/ FailedRuleCall /\ UNCHANGED aw
       \/ aw # AliasIdle /\ AliasError /\ UNCHANGED rw
    /\ Happens([op |-> "FailedCall"])

(* The manager loses workers, queues and caches, and reads everything anew. *)
Restart ==
    /\ rw' = RuleIdle /\ aw' = AliasIdle
    /\ cSvc' = svc /\ cAlias' = alias /\ cRule' = rule /\ cIe' = ie
    /\ rq' = {r \in Rules : Present(rule[r])}
    /\ aq' = {a \in Aliases : Present(alias[a])}
    /\ UNCHANGED store
    /\ Happens([op |-> "Restart"])

---------------------------------------------------------------------------
Users ==
    \/ \E r \in Rules :
         \/ \E spec \in RuleSpecs : CreateRule(r, spec) \/ UpdateRule(r, spec)
         \/ DeleteRule(r)
    \/ \E a \in Aliases : CreateAlias(a) \/ DeleteAlias(a)
    \/ \E s \in Services :
         \/ \E event \in {e \in events : e.op = "SetService" /\ e.on = s} : SetService(s, event.to)
         \/ DeleteService(s)

Around ==
    /\ \/ Resync
       \/ \E s \in Services : SyncService(s) \/ ServiceGone(s)
       \/ \E a \in Aliases : SyncAlias(a) \/ CollectAlias(a)
       \/ \E r \in Rules : SyncRule(r) \/ CollectRule(r)
       \/ \E k \in Keys : SyncIEAgAgRule(k) \/ CollectIEAgAgRule(k)
                          \/ AdoptIEAgAgRule(k) \/ ReleaseIEAgAgRule(k)
    /\ UNCHANGED <<workers, setting>>

RuleReconciler ==
    /\ (\E r \in Rules : ReconcileRule(r)) \/ RuleStep
    /\ UNCHANGED <<aw, setting>>

AliasReconciler ==
    /\ (\E a \in Aliases : ReconcileAlias(a)) \/ AliasStep
    /\ UNCHANGED <<rw, setting>>

Next ==
    \/ Users \/ Around
    \/ RuleReconciler \/ AliasReconciler
    \/ FailedCall \/ Restart

Spec == Init /\ [][Next]_vars

(* A worker that has begun goes on, a queued key is taken off a FIFO queue   *)
(* some time, a watch delivers, the garbage collector, the provider and the *)
(* service controller do their part, caches resync (every ten hours).        *)
(* Users, failing calls and restarts owe nothing.                           *)
Rest == UNCHANGED <<workers, setting>>

KeysOf(namespace) == {k \in Keys : k.ns = namespace}

Fairness ==
    /\ WF_vars(RuleStep /\ UNCHANGED <<aw, setting>>)
    /\ WF_vars(AliasStep /\ UNCHANGED <<rw, setting>>)
    /\ WF_vars(Resync /\ Rest)
    /\ \A r \in Rules :
         /\ SF_vars(ReconcileRule(r) /\ UNCHANGED <<aw, setting>>)
         /\ WF_vars(SyncRule(r) /\ Rest)
         /\ WF_vars(CollectRule(r) /\ Rest)
    /\ \A a \in Aliases :
         /\ SF_vars(ReconcileAlias(a) /\ UNCHANGED <<rw, setting>>)
         /\ WF_vars(SyncAlias(a) /\ Rest)
         /\ WF_vars(CollectAlias(a) /\ Rest)
    /\ \A s \in Services :
         /\ WF_vars(SyncService(s) /\ Rest)
         /\ WF_vars(ServiceGone(s) /\ Rest)
    /\ \A n \in {k.ns : k \in Keys} :
         /\ WF_vars((\E k \in KeysOf(n) : SyncIEAgAgRule(k)) /\ Rest)
         /\ WF_vars((\E k \in KeysOf(n) : CollectIEAgAgRule(k)) /\ Rest)
    /\ WF_vars((\E k \in Keys : ReleaseIEAgAgRule(k)) /\ Rest)

FairSpec == Spec /\ Fairness

---------------------------------------------------------------------------
(* What is wanted, from what is stored.                                    *)

Named(r) == {rule[r].spec.local, rule[r].spec.target}

(* A live rule that refers to aliases and services that are there.          *)
Resolved(r) ==
    /\ rule[r].phase = "live"
    /\ \A a \in Named(r) : Present(alias[a]) /\ Present(svc[AliasFor[a]])

Dangling(r) == rule[r].phase = "live" /\ ~Resolved(r)

(* The controller is stuck with a rule whose target service changed.        *)
Stuck(r) == Wedged(rule[r]) /\ ~CrossNamespace(r, rule[r].spec)

Wanted(r) ==
    IF ~Resolved(r) THEN {}
    ELSE CallsFor(r, rule[r].spec, svc[LocalService(rule[r].spec)],
                  svc[TargetService(rule[r].spec)])

(* Somebody wants another IEAgAgRule of the same key.                       *)
Contested(c) == \E r \in Rules : \E d \in Wanted(r) : d.key = c.key /\ d.body # c.body

(* The owner reference reaches into another namespace.                      *)
Foreign == {pair \in Rules \X Keys : pair[2].ns # RuleNs[pair[1]]}

InForce(c) == ie[c.key].phase = "live" /\ ie[c.key].body = c.body

---------------------------------------------------------------------------
(* Properties.                                                             *)

(* Every object, copy and queue is one the program could hold.              *)
TypeOK ==
    /\ {svc, cSvc} \subseteq [Services -> ServiceObjects]
    /\ {alias, cAlias} \subseteq [Aliases -> AliasObjects]
    /\ {rule, cRule} \subseteq [Rules -> RuleObjects]
    /\ {ie, cIe} \subseteq [Keys -> IEAgAgRules]
    /\ rq \subseteq Rules /\ aq \subseteq Aliases
    /\ rw \in RuleWorkers /\ aw \in AliasWorkers
    /\ \A event \in events : event.op = "SetService" => event.to \in ServiceContents

(* A rule gets its IEAgAgRules under the protection of its finalizer, a     *)
(* reconcile takes back those of its own rule only, and what a rule leaves  *)
(* is left to the garbage collector: RuleS2SReconciler.Reconcile and        *)
(* createOrUpdateIEAgAgRule, which read caches, implement RuleOwnership.    *)
Ownership ==
    INSTANCE RuleOwnership WITH
        guarded <- {r \in Rules : rule[r].fin},
        owner   <- [k \in Keys |-> IF ie[k].phase = "live" THEN ie[k].owner ELSE None],
        active  <- rw.key

ImplementsOwnership == Ownership!Spec

(* Whatever the order of updates, failures and restarts, a rule with both   *)
(* its services ends up with every IEAgAgRule it wants, with the groups and *)
(* ports of now; except those that somebody wants differently, those the    *)
(* garbage collector takes for orphans, and those of a stuck rule.          *)
RulesInForce ==
    <>[] \A r \in Rules : ~Stuck(r) =>
           \A c \in Wanted(r) : Contested(c) \/ <<r, c.key>> \in Foreign \/ InForce(c)

(* Access that no rule asks for any more goes: in the end an IEAgAgRule's   *)
(* owner wants it, or is one the controller does not clean up after.        *)
RevokedAccessGoes ==
    <>[] \A k \in Keys : Present(ie[k]) =>
           \/ \E c \in Wanted(ie[k].owner) : c.key = k
           \/ Dangling(ie[k].owner) \/ Stuck(ie[k].owner)

(* A live rule whose alias or service went says so in the end: the watches  *)
(* on aliases and services queue it.  Only after a status update that       *)
(* failed, which the code drops, the resync is needed.                     *)
DanglingReported ==
    <>[] \A r \in Rules : Dangling(r) =>
           rule[r].status.reason \in {"ServiceAliasNotFound", "ServiceNotFound"}

(* Deletions end: a rule gets rid of its finalizer though deletes fail and  *)
(* the provider holds on to its IEAgAgRules, an alias unless a rule that    *)
(* was created meanwhile names it.                                         *)
DeletionCompletes ==
    <>[] /\ \A r \in Rules : rule[r].phase # "deleting"
         /\ \A a \in Aliases : alias[a].phase = "deleting" =>
              \E r \in Rules : Present(rule[r]) /\ a \in Named(r)

(* The RuleS2S controller stores a whole service it read earlier to put a   *)
(* rule on RuleS2SDstOwnRef; it never undoes what a binding or a user wrote *)
(* to the service since.                                                   *)
ServiceUntouched ==
    [][\A s \in Services :
         <<svc[s].groups, svc[s].ports>> # <<svc'[s].groups, svc'[s].ports>> =>
           svc'[s].phase = "gone" \/ events' # events]_vars

(* The target service of a rule of another namespace lists the rule before  *)
(* the rule opens access to it, and goes on listing it.                     *)
ListedBeforeRules ==
    [][\A k \in Keys : ie[k] = NoIEAgAgRule /\ ie'[k] # NoIEAgAgRule =>
         LET r == ie'[k].owner
             s == TargetService(rw.rule.spec)
         IN  CrossNamespace(r, rw.rule.spec) => svc[s].phase = "gone" \/ r \in svc[s].dstOwnRef]_vars

(* What the documentation says of every rule: the ports in force are those  *)
(* of its receiver.  There is no exception for rules that share groups.     *)
ReceiverPortsInForce ==
    <>[] \A r \in Rules : \A c \in Wanted(r) : InForce(c)
=============================================================================
