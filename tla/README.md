# Verification of the netguard controller

TLA+ modules, TLC runs and TLAPS proofs about the Kubernetes controller in this
repository. `Service`s declare ingress ports; an `AddressGroupBinding` puts a service
into an `AddressGroup` of the provider; the controller keeps three things in step with
the bindings: `Service.AddressGroups`, the `AddressGroupPortMapping` of the group
(`AccessPorts`: which service opens which ports), and the conditions and finalizers of
all of them. `RuleS2S` objects turn two services and their groups into `IEAgAgRule`
objects of the provider.

    tlc -config shared_group.cfg MCBindingSync.tla     # one run
    tlc -config rules.cfg MCRuleSync.tla
    tlapm BindingSafetyProofs.tla                      # one proof

`PROJECT.json` lists runs, mutants, the source lines of each definition, findings,
hazards and theorems.

## 1. Inventory

One manager process (`cmd/main.go`) runs six reconcilers. Each has one worker
(`MaxConcurrentReconciles` keeps its default, 1) and a work queue of keys without
duplicates. All of them, and the validating webhooks, use the manager's client: `Get`
and `List` read informer caches, which lag behind the API server; writes go to the API
server. So the six workers, the webhooks, the users and the garbage collector are
concurrent actors on objects that each of them knows only from some moment in the past.

| Component | State | Operations | Talks to | Correct when |
|---|---|---|---|---|
| **AddressGroupBinding controller** | finalizer, owner references, Ready | add finalizer; create the mapping; add owners; append group to the service (`Update`); add or change the entry (merge patch); Ready. On deletion: take the group off the service, the entry off the mapping, the finalizer off | Service, AddressGroup, mapping (reads, watches), writes three objects | a live binding ends in sync, an unbound service is in no mapping |
| **Service controller** | finalizer, Ready | Ready; for each listed group put the service's ports into the mapping. On deletion: delete its bindings, take its entry off every mapping, remove the finalizer | bindings, mappings; is queued by mappings that mention it | port changes reach every mapping; deletion completes |
| **AddressGroupPortMapping controller** | finalizer, Ready | drop entries of services that no longer exist; Ready; remove finalizer | list of all services | no entry of a service that is gone |
| **Retry helpers** (`utils.go`) | one call: object, base of the patch, attempt | `UpdateWithRetry`, `UpdateStatusWithRetry`, `PatchWithRetry`, `EnsureFinalizer`, `RemoveFinalizer` | API server, cache | nothing of another writer is reverted; the write gets in |
| **Port arithmetic** (`port_utils.go`, `webhook_utils.go`) | none | parse, overlap, duplicates, check a service against a mapping (pairwise, sorted), check a mapping | used by the validators | ranges overlap iff they share a port; what is stored parses |
| **Validators** of Service, Binding, Mapping | none (cached reads) | create and update checks | caches | no two services of a group share a port |
| RuleS2S controller, validator | finalizer, Ready, owned `IEAgAgRule`s, `Service.RuleS2SDstOwnRef` | create, update and delete rules for each pair of groups and protocol | aliases, services, provider | the rules are those of the services' present groups and ports |
| ServiceAlias controller, validator | finalizer, owner, Ready | refuse deletion while a rule uses the alias | services, rules | an alias outlives its rules |
| AddressGroupBindingPolicy controller, validators | Ready | admit cross-namespace bindings; refuse deletion while one exists | bindings | no cross-namespace binding without its policy |
| Manager wiring, API types, manifests, provider kinds | - | registration, watches, schema | - | - |

**What is hard.** (a) A reconcile decides from caches and then writes up to five times:
every decision may be stale. (b) The writes have three different semantics: a whole
object under an optimistic lock, the status alone under the same lock, and a merge patch
without lock that replaces a list as a whole - so the binding worker and the service
worker can erase each other's entries of one mapping. (c) The retry helpers retry with
the object that has just been refused. (d) Admission is check-then-act on caches.
(e) Deletions run across three objects with finalizers. (f) Errors, lost answers and
restarts strike between any two writes. (g) Services are identified by name and
namespace, but some checks use the name only. `PROJECT.json` "hazards" lists each one at
its line, with the properties that watch it, or the plan's step that will.

## 2. Modules

    PortUtils ──> PortRegistry ──> MCPortRegistry         ports, admission, namespaces
                      └──> PortRegistryProofs
    GroupAccess (abstract) <── PortRegistry
    Cluster ──> BindingController  ─┐
            ──> ServiceController  ─┼─> BindingSync ──> MCBindingSync   the core
            ──> PortMappingController┘      └──> BindingSyncProofs ──> BindingSafetyProofs
    RuleStore ──> RuleS2SController     ─┐
              ──> ServiceAliasController ┴─> RuleSync ──> MCRuleSync    access rules
    RuleOwnership (abstract) <── RuleSync      ├──> RuleTypeProofs ──> RuleSyncProofs
                                               └──> RuleTypeProofs ──> RuleServiceProofs
    BindingPolicy ──> MCBindingPolicy                     who may bind across namespaces
              └──> BindingPolicyProofs
    RetryUtils ──> RetryUtilsProofs                       the write helpers

**PortUtils** - the port checks as pure operators. A port literal is what both parsers
tell apart: blanks around it or not, and the integers `strconv.Atoi` finds between the
hyphens. `Parses` (ParsePortRange succeeds) and `validatePort` are two definitions because
they differ on blanks and on `""`. A negative literal is one field, as in the code.
Lists that a loop filters or sorts are described by the positions of their elements
(`Kept`, `Nth`: the entries a `continue` leaves; `SortedByStart`: the place of a range is
the number of ranges before it), which TLC evaluates and the provers can reason about.

**PortRegistry** - how those checks, the binding controller and the service controller
keep the mapping of *one* group, with fresh reads and atomic reconciles, and services
that may share a name. What breaks here breaks without any race. Bindings are objects of
their own, not a property of a service: the duplicate check skips bindings that are being
deleted, so a service may have a second one (`Admitted`), and until a binding is Ready its
user may make it name another service or another group (`UpdateBinding`; a binding that
is being deleted is not validated at all). `strays` is a history variable: the services
that list the group and that a binding was moved away from, which nobody cleans up.

**GroupAccess** - what a group promises its services, without lists, validators and
reconciles: one access per service, opened for a service that is bound, or was left behind
by a moved binding (`strays`), with exactly the ports it declares at that moment and over
no port open under another name, closed before the last binding goes unless that is moved,
and every step about one service. It does not promise that a bound service keeps its
access: the end of *one* of its bindings closes it. `PortRegistry!Access` is its instance:
`bound` are the services with a binding, `opened` the entries by service, each protocol a
set of port numbers.

**Cluster** - API server, caches, queues. Three object kinds (`svc`, `bnd`, `pm`) and the
groups (`ag`); `cSvc`, `cBnd`, `cPm`, `cAg` are what `Get` and `List` return; `bq`, `sq`,
`pq` are the queues. `Accepts`/`Saved` are PUT, `MergePatch` is
`client.MergeFrom` + PATCH, `MappingAdmits`, `BindingAdmits`, `Fits` are the validators
inside those calls, `Sync...` deliver a watch event to the cache and put the keys on the
queues that `SetupWithManager` and the `find...` functions name; `CollectMapping` is the
garbage collector.

**BindingController**, **ServiceController**, **PortMappingController** - one worker each.
A reconcile is a first action (take a key, read the caches, decide) and then one action
per write, so everybody else acts between any two writes. A refused write returns the
error, which queues the key again (`BindingError`, ...). Names of operators follow the
Go functions and steps.

**BindingSync** - the composition with users (`CreateBinding`, `UpdatePorts`, ... with
their validators), a failed API call and a manager restart as bounded faults, the
informers' resync, the fairness, and the properties.

**RetryUtils** - the retry helpers at the grain of one request and one read, for one
reconciler that adds an entry to a list while others write other fields and entries,
delete the object, or contend with the patch.

**RuleStore** - the second half of the system: services, aliases, `RuleS2S` and `IEAgAgRule`
objects, their caches, the two queues, the watches and the functions that map an event to
rules (`findRuleS2SForService`, `findRuleS2SForServiceAlias`). An `IEAgAgRule` is a slot
under a key - namespace, traffic, names of the two groups, protocol - because that is what
`generateRuleName` hashes. Nothing watches these objects: `SyncIEAgAgRule` fills a cache and
queues nobody.

**RuleS2SController** - Reconcile from its cached reads to its last status update, one
action per write, the calls of `createOrUpdateIEAgAgRule` one by one in any order of the
pairs of groups but TCP before UDP. What the code swallows is swallowed: a failed call is
left out of `done` (`expectedRules`), with the UDP call of its pair; a failed delete is
forgotten; a failed status update ends the reconcile without an error, except that of
`RulesCreated`.

**ServiceAliasController** - Reconcile, setOwnerReference and reconcileDelete, with the
cached reads between its updates.

**RuleSync** - the composition: users with their validators, the garbage collector, the
provider (which puts its finalizer on `IEAgAgRule`s and lets deleted ones go), failed calls,
restarts, resync, fairness, properties.

**RuleOwnership** - what a rule and its `IEAgAgRule`s promise each other, on three variables:
who holds a finalizer, who owns what, who is being reconciled. `RuleSync!Ownership` is its
instance: `guarded` are the stored rules with the finalizer, `owner` is the owner of every
live `IEAgAgRule`, `active` is the worker's key.

**BindingPolicy** - policies, bindings across namespaces and within one, and the pair each
policy names, which may be missing for a while. Two validators meet here: a policy is
admitted for a pair that is there, its DELETE while no cached binding names that pair; a
binding is admitted, and *every update* of it, its user's and its own controller's, while a
cached policy grants it. The pair a binding names is part of the object and may change
until the binding is Ready (`UpdateBinding`), whatever finalizer and owner references it
has by then. The
policy's controller only reports: each of its conditions has one status (`AddressGroupFound`
and `ServiceFound` False, `Ready` True) and is never taken back, so the model keeps the set of
conditions set. A DELETE is admitted (`AdmitDeletion`) and executed (`DeletePolicy`) in two
steps, for one version of the policy: between them the caches may move on, so that a later
read sees what the check did not. For every other request a cache that lags says the same.
Of the binding's controller the module has the writes of the binding itself; what it writes
to services and mappings in between is BindingSync's.

Operators called *seeded bug* in comments are used only by the mutants that show that a
property can fail.

### Which validators are called

The markers above the validators name the resources `rules2s` and `servicealias`
(`rules2s_webhook.go:53`, `servicealias_webhook.go:52`); the CRDs' plurals, which requests
carry, are `rules2ses` and `servicealiases`. `config/webhook/manifests.yaml` repeats the
markers, and leaves out the deletion of services, which the marker has. So in a cluster
the validators of `RuleS2S` and `ServiceAlias` see no request. A scenario of `RuleSync` says
with "Validate" that validators are called; the scenarios without it are the deployment.
The properties hold in both: the controllers do not rely on the validators.

### Abstractions, and why they keep the properties

* Ports are sets of numbers in `BindingSync`; `OverlapIsSharedPort` proves that the code's
  comparison of ranges means that the sets intersect. One protocol: the checks treat each
  by itself.
* One namespace in `BindingSync`; namespaces are the subject of `PortRegistry`, with the
  policies of other namespaces granted, and of `BindingPolicy`.
* The reads of one reconcile are one step. A cache that would answer a later read with
  newer data is one synced earlier; one that would answer with older data is synced later.
  A reconcile that re-reads an object just before patching it (service controller) reads
  the cache in a step of its own.
* A cache goes to the present version of an object in one step (watch events compress);
  a mapping remembers which services its undelivered events mention, since the handler
  maps the old and the new object.
* `resourceVersion` is a counter for services and bindings; for a mapping the content
  stands for it, because only its status update checks it.
* An absent object keeps its last `resourceVersion`, so a copy of it is never taken for its
  successor. A service name is used once.
* `UpdateWithRetry` is one attempt in `BindingSync`: its retries resend the refused
  version, so they fail as well (`RetryUtils`, finding `retry_conflict`).
* Writes that change only a message are left out, and so is the order of lists. Because
  of `omitempty`, the code also sends patches that change nothing when a service has no
  UDP or no TCP port; they are no-ops for the API server and are left out too.
* In `RuleStore` the content of an object stands for its `resourceVersion`: a write that
  the server refuses although the content is the same again would be tried again and store
  the same.
* In `RuleSync` the groups and ports of a service change in one step of the environment,
  which is what `BindingSync` lets a service do; services are live and Ready until deleted.
* A cached Get of an `IEAgAgRule` and the Create or Patch it decides about are one step: no
  other component makes or patches these objects, and a delete in between makes the call
  fail as `FailedCall` does. Rules made by hand are left out. A failing Create is tried five
  times from the same cache; that is one failure.
* `Spec` fields of an `IEAgAgRule` that are constants (transport, action, logs, trace,
  priority) are left out. An annotation may make a rule be requeued a minute after an
  error that queues it anyway; it is left out.
* `NoDuplicate` compares aliases; the code compares their names, so it also refuses a rule
  of another namespace whose local alias has the same name.
* In `BindingPolicy` services and groups are there (and Ready) or not, and those that come
  and go are not referred to by a binding. Policies have no finalizer: a DELETE removes
  them, and the controller's branch for one being deleted has nothing to do. Its services
  have different names, so that the duplicate check of bindings, which compares names,
  compares services; `PortRegistry` has the namesakes.
* In `PortRegistry` one binding object in another group and one that is not there look the
  same (`Elsewhere`): a binding may enter the group with a finalizer and owner references.
  The check of the finalizer's and the owner references' update is part of `AddFinalizer`
  and `ReconcileBinding`.
* Address groups are Ready, and one that is deleted stays away. In `BindingSync` a
  binding's spec does not change: not before it is Ready, which the validator allows, nor
  while it is being deleted, when nothing is validated. `PortRegistry` (what is left behind)
  and `BindingPolicy` (stale caches) have these changes. No run of `BindingSync` has two
  bindings of one service and group. The garbage collection of bindings whose service *and*
  group are gone is left out: the service's own deletion deletes them first.

## 3. Runs

| Run | Module | States | Shows |
|---|---|---|---|
| `port_registry` | MCPortRegistry | 93 k | `NamesDisjoint`, `StoredPortsParse`, `OneEntryPerService`, `OptimizedAgrees`, `EntriesHaveBindings`, `ImplementsAccess` (refinement), `TypeOK` |
| `shared_group` | MCBindingSync | 130 k | `PortsDisjoint`, `PortsAreTheUsers`, `AccessWasGranted`, `Convergence` (liveness), `TypeOK`, with a failed call or a restart |
| `two_groups` | MCBindingSync | 2285 k | `NoLostGroup`, `LiveBindingsStay` |
| `deletion` | MCBindingSync | 39 k | `DeletionCompletes` (liveness) |
| `retry` | RetryUtils | 13 k | `OtherFieldsSurvive`, `LockedListSurvives`, `EntryGetsIn`, `TypeOK` |
| `rules` | MCRuleSync | 88 k | `RulesInForce`, `RevokedAccessGoes`, `DanglingReported`, `DeletionCompletes` (liveness), `ServiceUntouched`, `ListedBeforeRules`, `ImplementsOwnership` (refinement), `TypeOK` |
| `policies` | MCBindingPolicy | 113 k | `PolicyBecomesReady`, `GrantedBindingInForce`, `DeletionCompletes` (liveness), `ReadyIsAboutItsSpec`, `ReadyHoldsPolicy`, `TypeOK` |
| `rules_shared` | MCRuleSync | | violates `ReceiverPortsInForce` |
| `port_registry_namesakes` | MCPortRegistry | | violates `ServicesDisjoint` |
| `orphans` | MCBindingSync | | violates `NoOrphans` |
| `stale_entries` | MCBindingSync | | violates `StaleEntriesRemoved` |
| `retry_conflict` | RetryUtils | | violates `RetriesResolveConflicts` |

**Safety of ports.** `PortsDisjoint` holds although a patch replaces the whole list with one
computed from a stale cache: the mapping's validator sees the list that is going to be
stored. The checks made earlier (of the binding, of the service) are advisory: they can
pass for two services with one port, and then one entry keeps the other out.

**Access of one group.** With fresh reads the list of entries is what `GroupAccess` says
(`ImplementsAccess`): the declared ports go in all at once or not at all, and no step for
one service moves another's. Two things it does not say, because the code does not keep
them. A service with two bindings, one of them being deleted, *loses* its access when the
first is cleaned up (`reconcileDelete` asks for no other binding,
`addressgroupbinding_controller.go:561`), until the second is reconciled again. And a
binding that is moved before it is Ready, or while it is being deleted, *leaves behind*
what it had opened: `EntriesHaveBindings` says that this is the only way in which that
happens. The documentation has no such moves: `docs/index.md:27` and
`docs/scenarios/scenario_7.md` call the references immutable, and the tests at
`addressgroupbinding_webhook_test.go:317` and `:325` expect a change to be denied with a
message that the code does not have; `ValidateUpdate` refuses it of Ready bindings only.

`BindingSync`, where reads are stale, keeps less: a patch
replaces the whole list and may put back what another worker has just changed. What still
holds is `AccessWasGranted`: whatever old list is written back, nobody is in a group for
whom no binding was ever created. (That an entry may outlive its binding is the finding
`orphans`.)

**Bindings that come back.** A binding's name is free again after its deletion, so a
reconcile may still work on the deleted one when its successor is stored.
`LiveBindingsStay`: only a user's request, or a service that is going or gone, ends a live
binding. The finalizer that the late reconcile takes off is not the successor's (the
update carries the old `resourceVersion`), and the service controller deletes, from its
cached list, only bindings of the service it is finishing.

**Convergence.** When users stop, each live binding of a live service and group is either
in sync - group in the service, entry with the service's present ports, Ready - or
*opposed*: another entry of the mapping holds one of its ports. The second case is real
(two bindings admitted at once); the controller retries it for ever. The entries that the
workers lose to each other's stale patches come back because the losing patch is an event
that queues the bindings of the group.

**Deletion.** Every binding, service and mapping that is being deleted goes away, whoever
is deleted first.

**Access rules.** `RulesInForce` and `RevokedAccessGoes` together say that the `IEAgAgRule`s
in the end are those of the rules, groups and ports of then: what is wanted is there with
the receiver's present ports, what nobody wants is gone. That needs the resync, because
`IEAgAgRule`s are not watched: a rule created a moment ago may not be in the cache, so that
the next reconcile creates it again, gives up and reports `NoRulesCreated`, or does not find
it when it looks for obsolete rules. TLC shows the counterexamples when "Resync" is taken
out of a scenario. The properties except, by name,

  * what two rules want differently (`Contested`): that is finding `rules_shared`;
  * `IEAgAgRule`s in another namespace than their rule (`Foreign`): their owner reference
    crosses namespaces, which the garbage collector takes for a lost owner, so that they are
    made and collected in turns;
  * a rule whose target service has changed (`Stuck`): `SetControllerReference` refuses a
    second controller, every reconcile ends there, and the old access stays;
  * in `RevokedAccessGoes`, a rule whose alias or service is gone (`Dangling`): the code
    returns before it looks at its `IEAgAgRule`s. `DanglingReported` says that at least its
    condition tells; without a resync, unless the status update fails, an error that the
    code drops.

`Service.RuleS2SDstOwnRef` is documented (`service_types.go:42`) as the rules that refer to
the service from other namespaces; entries are added and no code takes one off. The
properties ask of it only that it is complete (`ListedBeforeRules`) and that the whole-object
update that writes it reverts nothing (`ServiceUntouched`). `DeletionCompletes` holds although
a delete that fails ends a reconcile without an error: the status update that reports it is
the event that queues the rule again, and the resync does when that update fails too.

`docs/scenarios/scenario_9.md:193` says that the rules of other namespaces, which are listed
in `RuleS2SDstOwnRef`, are removed when their target service is. The code does not do that:
a rule gets an owner reference to its target service only within one namespace
(`rules2s_controller.go:275`), so the garbage collector leaves it alone, and nothing that
deletes a service looks at `RuleS2SDstOwnRef`. Scenario `TargetGoes` of `rules` deletes such a
service: the rule stays and is one of the `Dangling` ones. `DanglingReported` says that its
condition tells; its `IEAgAgRule`s stay too.

**Policies.** `docs/index.md:26` and `docs/scenarios/scenario_5.md` say that a policy with
bindings stays. What holds is `ReadyHoldsPolicy`: no DELETE is let in while a live binding
of its pair is Ready. The validator looks for bindings in a cache, but the pair of a Ready
binding is fixed, and the cache the controller took the binding from, before it set Ready,
shows it. To be *adopted* (finalizer, service listed, entry in the mapping) is not enough: a
user may change the pair of an adopted binding that is not Ready - the mapping's validator
has refused its entry, say - and while the cache shows the former pair, the DELETE of the
policy for the present one is let in. (With a finalizer in the place of Ready, TLC violates
the property in a few steps: create, sync, AddFinalizer, UpdateBinding, AdmitDeletion.)
So a binding that is not Ready may lose its policy: that way, while the cache does
not show the binding at all, or when the policy, not Ready itself, is given another pair
(`ValidateUpdate` looks for no bindings; the test at `addressgroupbindingpolicy_webhook_test.go:213`
expects the change of a policy that is not Ready to be refused, which the code does not).
Such a binding stays half adopted, since its controller's updates are refused, comes into
force when a policy returns (`GrantedBindingInForce`), and can be deleted without one
(`DeletionCompletes`). `ReadyIsAboutItsSpec` relies on the lock of the status update.

**What fails** (see "findings"): `NoOrphans`, because a deletion decides from the cache;
`StaleEntriesRemoved`, because the cleanup patch is empty; `RetriesResolveConflicts`,
because the retries ignore the object they read; `ServicesDisjoint`, for namesakes of two
namespaces, as long as one of the two is being unbound. Together the first two mean that
an orphaned entry is permanent and keeps its ports closed to other services.
`ReceiverPortsInForce`, because the name of an `IEAgAgRule` does not know its rule: two rules
whose services share groups own one object and overwrite each other's ports in turns.

### Bounds

`MaxOps` (requests of users) and `MaxFaults` (failed calls and restarts) are the only
bounds in `BindingSync`; everything the controllers do is unbounded, and they come to
rest by themselves, which is why these runs set `CHECK_DEADLOCK FALSE`. Each run starts
from objects already reconciled and applies the requests its property is about. Two
services and one group are the least in which one entry can be lost or opposed; one
service and two groups the least in which a group can be lost, and a binding be created
again while the reconcile of its predecessor runs; two ports let a service move into a
conflict and back. With two to four requests the workers overlap with
the next request at every point. `retry` has three attempts where the code has
five, and as many foreign writes as attempts, so that every attempt can be defeated.
`two_groups` deletes no service; the clause of `LiveBindingsStay` about services that go is
covered by its proof. `port_registry` has ports 0..3 - single ports, nested, touching and
adjacent ranges, both ends of the port space - and every kind of literal a validator should
refuse; a service without ports, about which no property says much, is not in the run. Its
three bindings are two for one service (symmetric, in one namespace) and one that moves
between two services. `MaxStrays` = 1 bounds the services left behind at a time: a binding
is not moved again before the first is cleaned up. The proofs have no such bounds.

`BindingPolicy` has scenarios too (below), eight of them: a revocation with a binding being
adopted, a policy changed before it is Ready, a pair that is missing, two policies for one
pair, bindings in force, a binding within its namespace, a binding changed to another pair
and back before it is Ready, one changed while it is being deleted. Two policies are the least for a
duplicate, two bindings the least for one across and one within namespaces. Events happen
once each, so that a policy is revoked and granted again at most.

`RuleSync` has no counters. A run is a set of scenarios - which rules and aliases are there,
which requests and faults may happen, each once, in any order and at any moment - and TLC
explores all of them as initial states; the twelve of `rules` are in MCRuleSync, each with
the question it asks. Two services of one namespace and one of another, one alias each, two
rules: two rules are the least that share an `IEAgAgRule`, the third service is the least
for a rule that crosses namespaces or changes its target. Groups `gb` of two namespaces
have one name, since the key of an `IEAgAgRule` has no namespaces in it. Ports are opaque:
two values tell old from new. Two requests and a fault per scenario let every step of a
reconcile meet every request; more of them only repeat the same overlaps in sequence, and
the proofs below do not depend on them.

### Fairness

Weak fairness of each worker's next write and of each watch: a goroutine that can run
runs, and an undelivered event does not go away. Strong fairness of taking a given key
off a queue: the queue is FIFO and the worker, busy in between, returns to it. The
periodic resync is weakly fair in the runs that have it (`Resync` in `Operations`;
controller-runtime resyncs every ten hours by default). Users, failing calls, restarts
and foreign writers owe nothing. In `RuleSync` the watch of `IEAgAgRule`s and the garbage
collector are fair for each namespace, not each object: with two objects that keep being
made and collected, one of them alone may stay unseen. The provider releases deleted
`IEAgAgRule`s, but need not adopt any. ServiceController takes the finalizer off a deleted
service (`DeletionCompletes` of `BindingSync`). In `BindingPolicy` the API server need not
execute an admitted DELETE, and there is no resync.

## 4. Proofs

For every value of the constants, under their named assumptions (`RefAssumption`,
`NoneAssumption`, `PortsAssumption`, `ExistingAssumption`, `BoundAssumption`;
`MaxPortAssumption`, `NaNAssumption`, `IdentityAssumption` (a name and a namespace are one
service), `PortListsAssumption` (what users submit are lists of ports); `NamesAssumption`, `ScenariosAssumption`,
`ServicesAssumption`; `RetryAssumption`):

* `PortRegistryProofs`, the port arithmetic: `OverlapIsSharedPort` - the comparison of four
  boundaries is true exactly when a port number lies in both ranges; `ParsedIsRange`;
  `CheckedNamesShareNoPort` - a list the mapping's validator accepts opens no port under two
  names; and `SortedCheck` - sorting by start port and comparing neighbours finds an overlap
  exactly when some two ranges of the list overlap, whatever its length and the order of
  equal starts. The last one needs that the sort is a permutation (the number of ranges
  before a range is different for each: counting, with the library's facts on
  cardinality), and that neighbours that do not overlap bound all that follow: an induction
  over positions, done as "the least counterexample" of a *set* of numbers, since the
  provers cannot take an induction theorem about a predicate.
* `PortRegistryProofs`, the registry: all its properties, from three inductive invariants.
  `TypeOK` is inductive as it stands (`PortTypes`). `Checked`, *the stored list passes its
  validator*, gives `NamesDisjointHolds` and `StoredPortsParseHolds`: each action keeps the
  list, takes entries off it or stores one that was checked. `Backed` says that a service
  that lists the group has a binding *with a finalizer*, or a binding was moved away from
  it, and `Recorded` that entries are of such services only; `EntriesHaveBindings` is content
  with any binding and is not inductive, because a new binding is deleted without any
  clean-up. `OneEntryPerServiceHolds` follows from what the three ways of writing a list
  (append, replace, filter) do to the entry of each service. `OptimizedAgreesHolds` reduces the
  sorting variant to the pairwise one by `SortedCheck`: the stored ranges are apart
  because the list is `Checked`, the service's own because its ports were validated.
  Without namesakes, that is: the validator never compares two entries of one name, the
  sorting variant compares all it gathered.
* `PortRegistryImplementsAccess`: with one entry per service the list is a function from
  services to sets of ports, and each action is `Declare`, `Bind`, `Unbind`, `Move`, `Open` or
  `Close` of `GroupAccess` for its service, or a stutter (the second binding of a service
  changes no set). `Open` needs `CheckedNamesShareNoPort` for the new list, and that declared
  ports passed their validator (`Valid`); that the service's own reconcile opens for services
  only that are bound or were left behind, and that a binding which is still new goes without
  clean-up, need `Backed` and `Recorded`.
* `BindingSyncProofs`: `TypeOKHolds`. `TypeOK` alone is not inductive: a worker that
  is about to write uses `key` as an index, and the mapping worker uses `group`. `TypeInv`
  adds `KeysOK`, that a busy worker has a key (and a patching one a group). One lemma
  per operator that builds an object, one per action.
* `BindingSafetyProofs`, first part: `PortsDisjointHolds`, from `TypeInv` and the fact that every
  write of a mapping either keeps its entries, is admitted by its validator, or leaves a
  mapping that is being deleted - and that nothing brings such a mapping back to life with
  its old entries.
* `BindingSafetyProofs`, second part: `PortsAreTheUsersHolds` and `NoLostGroupHolds`. The controller stores
  whole Services that it read from a cache, possibly long ago. `CopyInv` says that a copy
  with the stored `resourceVersion` *is* the stored object, for the cached services
  (`CachesFaithful`) and for the copy of a worker that has yet to write the list
  (`WorkerFaithful`), and that version 0 means never created (`Unborn`). It is inductive
  because a step leaves a service alone or makes a version that no copy has (`Changed`),
  and because a copy is only ever replaced by a cached one or by the stored object.
* `BindingSafetyProofs`, third part: `LiveBindingsStayHolds`. `StayInv` adds the same for
  bindings (`BindingCachesFaithful`, `BindingCopyFaithful`); that a worker about to take the
  finalizer off holds a copy that is being deleted (`RemovesDeleted`), so that a request that
  gets through is about a stored binding being deleted; and that a worker that deletes
  bindings does so for a service that is going or gone (`DeletesItsOwn`), which it knew
  from a cache (`CachedDoomed`: a deletion is never taken back).
* `BindingSafetyProofs`, fourth part: `AccessWasGrantedHolds`. The property is about the store
  and is not inductive, since everything written comes out of copies. `GrantInv` says it of
  every list that may be written: the cached services and mappings, the copies of both
  workers and the groups the service worker still has to visit, on top of `StayInv` and
  `Born` (a binding somebody sees was created). Per step, it asks where the entries of
  each list come from (`EntriesFrom`, `Changed`).
* `BindingPolicyProofs`: `ReadyHoldsPolicyHolds`, `ReadyIsAboutItsSpecHolds` and
  `PolicyTypes`. The validator of a DELETE looks for bindings in a cache, and a binding that
  was just created, or changed to another pair, is not in it as it is. `PInv` says why one in
  force is: a worker took its binding from the cache, and the cache still shows that pair, or
  the binding was written since and the worker's write, of Ready too, will be refused; and
  from Ready on the pair cannot change (`Seen`); a copy with the stored `resourceVersion` is
  the stored object (`CachesOlder`, `WorkersOlder`), which is also why a status update made
  for the pair a policy named before does not get through.
* `RuleTypeProofs`: `RuleTypesHold`. `TypeOK` says `rw \in RuleWorkers`, a busy worker with a
  key and a stored rule or the idle one, and is inductive as it stands. One lemma per
  function that makes a worker (`Deleting`, `Proceed`, `Applied`, ...), one per action.
* `RuleSyncProofs`: `RuleSyncImplementsOwnership`, the refinement. That a reconcile takes back
  only its own rule's objects depends on what a *cached* list said when it began: the
  object might belong to somebody else by now. The inductive invariant `IInv` says why it
  does not: a live `IEAgAgRule` has the owner that the cache shows for its key, if it shows
  one (`CachedOwners`); a cached live rule with a finalizer still holds it, and one that the
  cache shows being deleted or gone is so (`CachedRules`); and so a
  worker's list of doomed objects (`WorkerOK`) holds no live object of another rule. Each action
  of `RuleSync` is then shown to be an action of `RuleOwnership` or a stutter.
* `RuleServiceProofs`: `ServicesAreUntouched` and `RulesAreListedFirst`. Their invariant `LInv`
  says that a cached service that lists a rule is listed in the store, unless the service
  is gone (`CachedListing`: entries are never taken off), and that a worker past
  `ListInTarget` has its rule listed (`ListedFor`).

* `RetryUtilsProofs`: `RetryTypesHold`, `OtherFieldsSurviveHolds` and
  `LockedListSurvivesHolds`. The invariant `RInv` says what a copy is worth: a version of
  the object with the `resourceVersion` of the caller's copy - the stored one, the cached
  one or the patch's base - is what that copy was made from (`CallCoherent`), and so is
  the cached one (`CacheCoherent`). Hence a request that passes the check of versions
  reverts nothing.

Every safety and action property and both refinements that a passing run checks are proved.
Only model-checked are the liveness properties - `Convergence`, `DeletionCompletes` (of three
modules), `EntryGetsIn`, `RulesInForce`, `RevokedAccessGoes`, `DanglingReported`,
`PolicyBecomesReady`, `GrantedBindingInForce` - since the prover has no rule for liveness
under fairness here and no `ENABLED`.

## 5. Plan

1. PortUtils, PortRegistry: admission of ports. *Done.*
2. Cluster and the three controllers, BindingSync: the core. *Done.*
3. RetryUtils. *Done*, and its safety properties proved.
4. Typing and `PortsDisjoint` proved. *Done.*
5. Coherence of copies (`copy.rv = stored.rv => copy = stored`) as an inductive invariant,
   and from it `PortsAreTheUsers` and `NoLostGroup`. *Done.*
6. RuleS2S and ServiceAlias with their validators: naming and ownership of `IEAgAgRule`, the
   skipped UDP rule, obsolete rules, deletion that gives up, `RuleS2SDstOwnRef`, aliases that
   go while rules come; the abstract RuleOwnership and the refinement proved. *Done.*
7. An abstract specification of access - *a binding of a live service gives the group
   exactly that service's ports* - and PortRegistry shown to implement it: GroupAccess.
   *Done*, proved, and the remaining invariants of PortRegistry with it.
8. AddressGroupBindingPolicy with the admission of bindings across namespaces. *Done*, and
   its two action properties proved.
9. Bindings whose name is used again, and where access comes from: `LiveBindingsStay` and
   `AccessWasGranted`. *Done*, and proved.
10. Address groups that come back; the AddressGroupNotFound path as a liveness property.
11. An abstract specification of a binding's life across its three objects, and the safety
    part of BindingSync's deletions shown to implement it.
12. Bindings changed to another pair, and second bindings of one service and group, with
    stale reads: in BindingSync, as they are in PortRegistry and BindingPolicy.

## 6. Not modelled

* `SafeDeleteAndWait` (not called), the syntax checks of object references, changes of
  an alias's `serviceRef` (refused once it is Ready).
* `IEAgAgRule`s or owner references edited by hand.
* Flags, certificates, metrics, health probes, leader election (one manager is assumed, as
  the default has it); generated code; manifests, beyond which requests reach a validator.
