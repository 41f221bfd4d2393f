--------------------------- MODULE BindingPolicy ---------------------------
(***************************************************************************)
(* AddressGroupBindingPolicy: the owner of an address group lets a service *)
(* of another namespace be bound to it.  This module composes              *)
(*   - the policy's controller, which only reports that the service and    *)
(*     the group were found (once a minute until they are);                *)
(*   - the policy's validator, which keeps a policy with bindings;         *)
(*   - the binding's validator, which asks for a policy at the creation of *)
(*     a binding and at every update, a user's or its controller's, unless *)
(*     the binding is being deleted.                                       *)
(*                                                                         *)
(* BindingSync has the rest of that controller: its writes to services and *)
(* mappings meet no policy and are left out here, and services and groups  *)
(* are there (and Ready) or not.  One manager runs, so that validators and  *)
(* controllers read the same caches.                                       *)
(***************************************************************************)
EXTENDS Naturals

CONSTANTS Services, Groups, Policies, Bindings,
          Namespace,    \* of services, groups, policies and bindings
          None          \* no object

ASSUME NoneAssumption == None \notin Policies \cup Bindings

(* The pair that a policy or a binding names.                              *)
Specs == [service : Services, group : Groups]

(* No policy is needed for this pair.                                      *)
Local(spec) == Namespace[spec.service] = Namespace[spec.group]

(* A scenario: the policies just created, the bindings long reconciled, and *)
(* the events that may happen, each at most once, in any order ([op, on] or *)
(* [op, on, to] for a user and for what comes and goes, [op] for a fault).  *)
CONSTANTS Scenarios     \* records [policies, bindings, events]

(* An existing binding has its policy.  What comes and goes is not referred *)
(* to by a binding: BindingSync is about that.                             *)
ASSUME ScenariosAssumption ==
    \A scenario \in Scenarios :
      /\ DOMAIN scenario.policies \subseteq Policies
      /\ \A p \in DOMAIN scenario.policies :
           /\ scenario.policies[p] \in Specs
           /\ Namespace[scenario.policies[p].group] = Namespace[p]
      /\ DOMAIN scenario.bindings \subseteq Bindings
      /\ \A b \in DOMAIN scenario.bindings :
           /\ scenario.bindings[b] \in Specs
           /\ Namespace[scenario.bindings[b].service] = Namespace[b]
           /\ \/ Local(scenario.bindings[b])
              \/ \E p \in DOMAIN scenario.policies : scenario.policies[p] = scenario.bindings[b]
      /\ LET Named == {scenario.bindings[b] : b \in DOMAIN scenario.bindings} \cup
                      {event.to : event \in {e \in scenario.events :
                                    e.op \in {"CreateBinding", "UpdateBinding"}}}
         IN  \A event \in scenario.events :
               event.op \in {"Leave", "Come"} =>
                 \A spec \in Named : event.on \notin {spec.service, spec.group}

VARIABLES refs, policy, bnd,        \* API server; refs: the services and groups there
          deletion,                 \* DELETE of a policy between admission and execution
          cRefs, cPolicy, cBnd,     \* informer caches
          pq, bq,                   \* work queues
          pw, bw,                   \* the two workers
          events                    \* what may still happen

store   == <<refs, policy, bnd>>
caches  == <<cRefs, cPolicy, cBnd>>
queues  == <<pq, bq>>
workers == <<pw, bw>>
vars    == <<store, deletion, caches, queues, workers, events>>

---------------------------------------------------------------------------
(* Objects.  An absent object keeps its last resourceVersion (rv).         *)

(* The controller gives a condition one status only: AddressGroupFound and  *)
(* ServiceFound False, Ready True.  It takes none back.                     *)
Conditions == {"AddressGroupFound", "ServiceFound", "Ready"}

(* A policy has no finalizer: a DELETE removes it.                          *)
NoPolicy == [phase |-> "absent", spec |-> None, conditions |-> {}, rv |-> 0]

PolicyObjects ==
    [phase : {"absent", "live"}, spec : Specs \cup {None}, conditions : SUBSET Conditions,
     rv : Nat]

(* Seeded bug: a DELETE waits for a finalizer that nobody takes off.        *)
MarkedPolicy(o) == [o EXCEPT !.phase = "deleting", !.rv = @ + 1]

RemovedPolicy(o) == [NoPolicy EXCEPT !.rv = o.rv + 1]

(* The owners are what the owner references point to.                      *)
NoBinding ==
    [phase |-> "absent", spec |-> None, fin |-> FALSE, owners |-> {}, ready |-> FALSE, rv |-> 0]

NewBinding(spec) ==
    [phase |-> "live", spec |-> spec, fin |-> FALSE, owners |-> {}, ready |-> FALSE, rv |-> 1]

MarkedBinding(o) == [o EXCEPT !.phase = "deleting", !.rv = @ + 1]

RemovedBinding(o) == [NoBinding EXCEPT !.rv = o.rv + 1]

Present(o) == o.phase # "absent"

BindingRecords ==
    [phase : {"absent", "live", "deleting"}, spec : Specs \cup {None}, fin : BOOLEAN,
     owners : SUBSET (Services \cup Groups), ready : BOOLEAN, rv : Nat]

BindingObjects == {o \in BindingRecords : Present(o) => o.spec \in Specs}

(* Seeded bug: last writer wins.                                           *)
AcceptsAny(stored, copy) == Present(stored)

(* The optimistic lock of Update and Status.Update; the retry helpers send  *)
(* the same rv again and do not get past it.                               *)
Accepts(stored, copy) == Present(stored) /\ stored.rv = copy.rv

(* A write that changes nothing leaves the object alone.                    *)
Saved(stored, new) ==
    IF [new EXCEPT !.rv = stored.rv] = stored THEN stored
    ELSE [new EXCEPT !.rv = stored.rv + 1]

(* The workers: the key, the condition or the write to come, the copy.      *)
PolicyIdle  == [key |-> None, sets |-> None, policy |-> NoPolicy]
BindingIdle == [key |-> None, write |-> None, bnd |-> NoBinding]

PolicyWorkers ==
    {PolicyIdle} \cup [key : Policies, sets : Conditions, policy : PolicyObjects]

Writes == {"AddFinalizer", "AddOwners", "SetReady", "RemoveFinalizer"}

BindingWorkers ==
    {BindingIdle} \cup [key : Bindings, write : Writes, bnd : BindingObjects]

ExistingBinding(spec) ==
    [phase |-> "live", spec |-> spec, fin |-> TRUE, owners |-> {spec.service, spec.group},
     ready |-> TRUE, rv |-> 1]

NewPolicy(spec) == [phase |-> "live", spec |-> spec, conditions |-> {}, rv |-> 1]

Init ==
    \E scenario \in Scenarios :
      /\ refs = Services \cup Groups
      /\ policy = [p \in Policies |-> IF p \in DOMAIN scenario.policies
                                      THEN NewPolicy(scenario.policies[p]) ELSE NoPolicy]
      /\ bnd = [b \in Bindings |-> IF b \in DOMAIN scenario.bindings
                                   THEN ExistingBinding(scenario.bindings[b]) ELSE NoBinding]
      /\ deletion = [p \in Policies |-> None]
      /\ cRefs = refs /\ cPolicy = policy /\ cBnd = bnd
      /\ pq = DOMAIN scenario.policies /\ bq = {}
      /\ pw = PolicyIdle /\ bw = BindingIdle
      /\ events = scenario.events

---------------------------------------------------------------------------
(* The validating webhooks.                                                *)

(* The pair a policy is created for, or changed to.                         *)
SpecAdmitted(p, spec) ==
    /\ Namespace[spec.group] = Namespace[p]
    /\ {spec.group, spec.service} \subseteq cRefs

NoDuplicatePolicy(p, spec) ==
    \A q \in Policies \ {p} : Present(cPolicy[q]) => cPolicy[q].spec # spec

(* Seeded bug: bindings are looked for in the policy's own namespace.       *)
LocalDependents(spec) ==
    {b \in Bindings : Present(cBnd[b]) /\ cBnd[b].spec = spec /\ Local(spec)}

(* The bindings that ValidateDelete of a policy finds.                      *)
Dependents(spec) == {b \in Bindings : Present(cBnd[b]) /\ cBnd[b].spec = spec}

Granted(spec, policies) ==
    Local(spec) \/ \E p \in Policies : Present(policies[p]) /\ policies[p].spec = spec

(* Bindings being deleted do not count.  The names of services, which the   *)
(* code compares, differ here; PortRegistry has the namesakes.             *)
NoDuplicateBinding(others, spec) ==
    \A c \in others : cBnd[c].phase = "live" => cBnd[c].spec # spec

(* The look-ups of ValidateCreate and ValidateUpdate of a binding.          *)
BindingAdmitted(spec) ==
    /\ {spec.service, spec.group} \subseteq cRefs
    /\ Granted(spec, cPolicy)

(* Seeded bug: a binding being deleted is validated like any other.         *)
UpdateChecked(o) == BindingAdmitted(o.spec)

(* An update that leaves the pair alone.                                    *)
UpdateAdmitted(o) == o.phase = "deleting" \/ BindingAdmitted(o.spec)

---------------------------------------------------------------------------
(* Users and the provider.                                                 *)

Happens(event) ==
    /\ event \in events
    /\ events' = events \ {event}

Request(event) == Happens(event) /\ UNCHANGED <<refs, caches, queues, workers>>

CreatePolicy(p, spec) ==
    /\ ~Present(policy[p])
    /\ SpecAdmitted(p, spec)
    /\ NoDuplicatePolicy(p, spec)
    /\ policy' = [policy EXCEPT ![p] = [NewPolicy(spec) EXCEPT !.rv = policy[p].rv + 1]]
    /\ UNCHANGED <<bnd, deletion>>
    /\ Request([op |-> "CreatePolicy", on |-> p, to |-> spec])

(* ValidateSpecNotChangedWhenReady; neither duplicates nor bindings matter. *)
UpdatePolicy(p, spec) ==
    /\ Present(policy[p]) /\ policy[p].spec # spec
    /\ "Ready" \notin policy[p].conditions
    /\ SpecAdmitted(p, spec)
    /\ policy' = [policy EXCEPT ![p].spec = spec, ![p].rv = @ + 1]
    /\ UNCHANGED <<bnd, deletion>>
    /\ Request([op |-> "UpdatePolicy", on |-> p, to |-> spec])

(* A DELETE is admitted for the version of the policy that it then removes. *)
AdmitDeletion(p) ==
    /\ Present(policy[p])
    /\ Dependents(policy[p].spec) = {}
    /\ deletion' = [deletion EXCEPT ![p] = policy[p].rv]
    /\ UNCHANGED <<policy, bnd>>
    /\ Request([op |-> "DeletePolicy", on |-> p])

DeletePolicy(p) ==
    /\ deletion[p] # None
    /\ Present(policy[p]) /\ deletion[p] = policy[p].rv
    /\ policy' = [policy EXCEPT ![p] = RemovedPolicy(@)]
    /\ deletion' = [deletion EXCEPT ![p] = None]
    /\ UNCHANGED <<refs, bnd, caches, queues, workers, events>>

(* A policy that was written since is validated again, or is gone.          *)
ReadmitDeletion(p) ==
    /\ deletion[p] # None
    /\ deletion[p] # policy[p].rv
    /\ deletion' = [deletion EXCEPT
          ![p] = IF Present(policy[p]) /\ Dependents(policy[p].spec) = {}
                 THEN policy[p].rv ELSE None]
    /\ UNCHANGED <<store, caches, queues, workers, events>>

(* The cached binding of the same name, long gone, may be in the way.       *)
CreateBinding(b, spec) ==
    /\ ~Present(bnd[b])
    /\ Namespace[spec.service] = Namespace[b]
    /\ NoDuplicateBinding(Bindings, spec)
    /\ BindingAdmitted(spec)
    /\ bnd' = [bnd EXCEPT ![b] = [NewBinding(spec) EXCEPT !.rv = bnd[b].rv + 1]]
    /\ UNCHANGED <<policy, deletion>>
    /\ Request([op |-> "CreateBinding", on |-> b, to |-> spec])

(* Until it is Ready a binding may be made to name another pair, whatever    *)
(* the controller did for the former one; a binding being deleted is not    *)
(* validated at all.                                                       *)
UpdateBinding(b, spec) ==
    /\ Present(bnd[b]) /\ bnd[b].spec # spec
    /\ Namespace[spec.service] = Namespace[b]
    /\ bnd[b].phase = "live" =>
         /\ ~bnd[b].ready
         /\ NoDuplicateBinding(Bindings \ {b}, spec)
         /\ BindingAdmitted(spec)
    /\ bnd' = [bnd EXCEPT ![b].spec = spec, ![b].rv = @ + 1]
    /\ UNCHANGED <<policy, deletion>>
    /\ Request([op |-> "UpdateBinding", on |-> b, to |-> spec])

(* Gone at once without a finalizer.                                        *)
DeleteBinding(b) ==
    /\ bnd[b].phase = "live"
    /\ bnd' = [bnd EXCEPT
          ![b] = IF bnd[b].fin THEN MarkedBinding(@) ELSE RemovedBinding(@)]
    /\ UNCHANGED <<policy, deletion>>
    /\ Request([op |-> "DeleteBinding", on |-> b])

Leave(o) ==
    /\ o \in refs /\ refs' = refs \ {o}
    /\ Happens([op |-> "Leave", on |-> o])
    /\ UNCHANGED <<policy, bnd, deletion, caches, queues, workers>>

Come(o) ==
    /\ o \notin refs /\ refs' = refs \cup {o}
    /\ Happens([op |-> "Come", on |-> o])
    /\ UNCHANGED <<policy, bnd, deletion, caches, queues, workers>>

---------------------------------------------------------------------------
(* Watches.  Neither controller watches what the other one or the provider  *)
(* writes to the objects here: a policy's keys come from policies only.     *)

SyncPolicy(p) ==
    /\ cPolicy[p] # policy[p]
    /\ cPolicy' = [cPolicy EXCEPT ![p] = policy[p]]
    /\ pq' = pq \cup {p}
    /\ UNCHANGED <<store, deletion, cRefs, cBnd, bq, workers, events>>

SyncBinding(b) ==
    /\ cBnd[b] # bnd[b]
    /\ cBnd' = [cBnd EXCEPT ![b] = bnd[b]]
    /\ bq' = bq \cup {b}
    /\ UNCHANGED <<store, deletion, cRefs, cPolicy, pq, workers, events>>

SyncRef(o) ==
    /\ (o \in cRefs) # (o \in refs)
    /\ cRefs' = IF o \in refs THEN cRefs \cup {o} ELSE cRefs \ {o}
    /\ UNCHANGED <<store, deletion, cPolicy, cBnd, queues, workers, events>>

---------------------------------------------------------------------------
(* AddressGroupBindingPolicyReconciler.                                    *)

(* What the reads of spec lead to: the group is looked up first.            *)
Verdict(spec) ==
    CASE spec.group \notin cRefs -> "AddressGroupFound"
      [] spec.group \in cRefs /\ spec.service \notin cRefs -> "ServiceFound"
      [] OTHER -> "Ready"

ReconcilePolicy(p) ==
    /\ pw = PolicyIdle
    /\ p \in pq
    /\ pq' = pq \ {p}
    /\ pw' = IF Present(cPolicy[p])
             THEN [key |-> p, sets |-> Verdict(cPolicy[p].spec), policy |-> cPolicy[p]]
             ELSE pw
    /\ UNCHANGED <<store, deletion, caches, bq, bw, events>>

PolicyDone(requeued) ==
    /\ pq' = pq \cup {p \in {pw.key} : requeued}
    /\ pw' = PolicyIdle
    /\ UNCHANGED <<refs, bnd, deletion, caches, bq, bw>>

(* Seeded bug: what is missing is waited for, and nothing tells.            *)
RequeueAfterError(accepted) == ~accepted

(* Something is missing: again in a minute.  An update of Ready that fails   *)
(* is an error; another one is only logged.                                 *)
Requeue(accepted) == pw.sets # "Ready" \/ ~accepted

(* UpdateStatusWithRetry of the copy, and the reconcile is over.            *)
SetCondition ==
    /\ pw # PolicyIdle
    /\ LET p        == pw.key
           accepted == Accepts(policy[p], pw.policy)
           new      == [pw.policy EXCEPT !.conditions = @ \cup {pw.sets}]
       IN  /\ policy' = [policy EXCEPT ![p] = IF accepted THEN Saved(@, new) ELSE @]
           /\ PolicyDone(Requeue(accepted))
    /\ UNCHANGED events

---------------------------------------------------------------------------
(* AddressGroupBindingReconciler, as far as it writes bindings.            *)

FirstWrite(binding) ==
    CASE ~binding.fin                                   -> "AddFinalizer"
      [] binding.fin /\ binding.phase = "deleting"      -> "RemoveFinalizer"
      [] binding.fin /\ binding.phase = "live"          ->
           IF {binding.spec.service, binding.spec.group} \subseteq binding.owners
           THEN "SetReady" ELSE "AddOwners"

ReconcileBinding(b) ==
    /\ bw = BindingIdle
    /\ b \in bq
    /\ bq' = bq \ {b}
    /\ bw' = IF Present(cBnd[b])
             THEN [key |-> b, write |-> FirstWrite(cBnd[b]), bnd |-> cBnd[b]]
             ELSE bw
    /\ UNCHANGED <<store, deletion, caches, pq, pw, events>>

(* Seeded bug: the error is logged and not returned.                        *)
BindingErrorLogged ==
    /\ bw' = BindingIdle
    /\ UNCHANGED <<store, deletion, caches, queues, pw>>

(* Reconcile returns the error and is tried again.                          *)
BindingError ==
    /\ bq' = bq \cup {bw.key}
    /\ bw' = BindingIdle
    /\ UNCHANGED <<store, deletion, caches, pq, pw>>

(* The write stores the binding as given, and the worker goes on as given.  *)
Write(new, admitted, next) ==
    LET b == bw.key
    IN  IF Accepts(bnd[b], bw.bnd) /\ admitted
        THEN /\ bnd' = [bnd EXCEPT ![b] = new]
             /\ bw' = next
             /\ UNCHANGED <<refs, policy, deletion, caches, queues, pw>>
        ELSE BindingError

AddFinalizer ==
    /\ bw.write = "AddFinalizer"
    /\ Write(Saved(bnd[bw.key], [bw.bnd EXCEPT !.fin = TRUE]), UpdateAdmitted(bw.bnd),
             BindingIdle)

(* The owners of a pair it named before stay.                              *)
AddOwners ==
    LET new == Saved(bnd[bw.key],
                     [bw.bnd EXCEPT !.owners = @ \cup {bw.bnd.spec.service, bw.bnd.spec.group}])
    IN  /\ bw.write = "AddOwners"
        /\ Write(new, UpdateAdmitted(bw.bnd), [bw EXCEPT !.write = "SetReady", !.bnd = new])

(* A status update is not validated.                                        *)
SetReady ==
    /\ bw.write = "SetReady"
    /\ Write(Saved(bnd[bw.key], [bw.bnd EXCEPT !.ready = TRUE]), TRUE, BindingIdle)

RemoveFinalizer ==
    /\ bw.write = "RemoveFinalizer"
    /\ Write(RemovedBinding(bnd[bw.key]), UpdateAdmitted(bw.bnd), BindingIdle)

BindingWrite ==
    /\ bw # BindingIdle
    /\ AddFinalizer \/ AddOwners \/ SetReady \/ RemoveFinalizer
    /\ UNCHANGED events

---------------------------------------------------------------------------
(* Faults.                                                                 *)

(* The write that is due fails: every error is retried, but that of a       *)
(* condition other than Ready, which is set again in a minute.              *)
FailedCall ==
    /\ \/ pw # PolicyIdle /\ PolicyDone(TRUE) /\ UNCHANGED policy
       \/ bw # BindingIdle /\ BindingError
    /\ Happens([op |-> "FailedCall"])

(* The manager starts again; the API server goes on with its requests.      *)
Restart ==
    /\ cRefs' = refs /\ cPolicy' = policy /\ cBnd' = bnd
    /\ pq' = {p \in Policies : Present(policy[p])}
    /\ bq' = {b \in Bindings : Present(bnd[b])}
    /\ pw' = PolicyIdle /\ bw' = BindingIdle
    /\ UNCHANGED <<store, deletion>>
    /\ Happens([op |-> "Restart"])

---------------------------------------------------------------------------
Users ==
    \/ \E p \in Policies :
         \/ \E spec \in Specs : CreatePolicy(p, spec) \/ UpdatePolicy(p, spec)
         \/ AdmitDeletion(p) \/ DeletePolicy(p) \/ ReadmitDeletion(p)
    \/ \E b \in Bindings :
         \/ \E spec \in Specs : CreateBinding(b, spec) \/ UpdateBinding(b, spec)
         \/ DeleteBinding(b)
    \/ \E o \in Services \cup Groups : Leave(o) \/ Come(o)

Informers ==
    \/ \E p \in Policies : SyncPolicy(p)
    \/ \E b \in Bindings : SyncBinding(b)
    \/ \E o \in Services \cup Groups : SyncRef(o)

PolicyReconciler  == (\E p \in Policies : ReconcilePolicy(p)) \/ SetCondition
BindingReconciler == (\E b \in Bindings : ReconcileBinding(b)) \/ BindingWrite

Next ==
    \/ Users \/ Informers
    \/ PolicyReconciler \/ BindingReconciler
    \/ FailedCall \/ Restart

Spec == Init /\ [][Next]_vars

(* As in BindingSync: a worker goes on, a watch delivers (WF), a queued key  *)
(* has its turn although the worker is busy in between (SF).  Nobody else    *)
(* owes anything, the API server's pending DELETE included.                 *)
Fairness ==
    /\ WF_vars(SetCondition) /\ WF_vars(BindingWrite)
    /\ \A p \in Policies : SF_vars(ReconcilePolicy(p)) /\ WF_vars(SyncPolicy(p))
    /\ \A b \in Bindings : SF_vars(ReconcileBinding(b)) /\ WF_vars(SyncBinding(b))
    /\ \A o \in Services \cup Groups : WF_vars(SyncRef(o))

FairSpec == Spec /\ Fairness

---------------------------------------------------------------------------
Versions == Nat \cup {None}

(* Every variable, cache and copy holds an object of its kind.              *)
TypeOK ==
    /\ refs \subseteq Services \cup Groups /\ cRefs \subseteq Services \cup Groups
    /\ policy \in [Policies -> PolicyObjects] /\ cPolicy \in [Policies -> PolicyObjects]
    /\ bnd \in [Bindings -> BindingObjects] /\ cBnd \in [Bindings -> BindingObjects]
    /\ deletion \in [Policies -> Versions]
    /\ pq \subseteq Policies /\ bq \subseteq Bindings
    /\ pw \in PolicyWorkers /\ bw \in BindingWorkers

(* What Ready tells the user is true of the pair the policy names: the       *)
(* controller looked that pair up, not one the policy named before, and a    *)
(* Ready policy keeps it (the spec may change between the controller's read  *)
(* and its status update, on the strength of the validator's own read).      *)
ReadyIsAboutItsSpec ==
    [][\A p \in Policies :
         "Ready" \in policy'[p].conditions =>
           \/ "Ready" \in policy[p].conditions /\ policy'[p].spec = policy[p].spec
           \/ pw.key = p /\ pw.sets = "Ready" /\ pw.policy.spec = policy'[p].spec]_vars

(* While a binding is in force no DELETE of its policy is let in, although    *)
(* the validator looks for bindings in a cache, and a binding may have named  *)
(* another pair until shortly before.  A binding with its finalizer, its     *)
(* service listed and its entry in the mapping, is not enough: the cache may  *)
(* still show the pair it named before.                                     *)
ReadyHoldsPolicy ==
    [][\A p \in Policies, b \in Bindings :
         bnd[b].phase = "live" /\ bnd[b].ready /\ bnd[b].spec = policy[p].spec
         => deletion'[p] \in {deletion[p], None}]_vars

(* A policy whose service and group are there is reported Ready in the end,  *)
(* whatever was missing, failed or conflicted before.                       *)
PolicyBecomesReady ==
    <>[](\A p \in Policies :
           Present(policy[p]) /\ {policy[p].spec.service, policy[p].spec.group} \subseteq refs
           => "Ready" \in policy[p].conditions)

(* A binding that a policy grants comes into force in the end, also when the *)
(* policy went and came back in the middle of its adoption.                 *)
GrantedBindingInForce ==
    <>[](\A b \in Bindings :
           bnd[b].phase = "live" /\ Granted(bnd[b].spec, policy) => bnd[b].ready)

(* A binding can be deleted whether its policy is still there or not.        *)
DeletionCompletes ==
    \A b \in Bindings : bnd[b].phase = "deleting" ~> bnd[b].phase # "deleting"
=============================================================================
