---------------------------- MODULE BindingSync ----------------------------
(***************************************************************************)
(* The core of the controller: services bound to address groups.  Users    *)
(* create, change and delete services and bindings; the three reconcilers  *)
(* of BindingController, ServiceController and PortMappingController keep   *)
(* Service.AddressGroups and AddressGroupPortMapping.AccessPorts in step    *)
(* with the bindings, each reading caches that lag behind the API server.   *)
(***************************************************************************)
EXTENDS BindingController, ServiceController, PortMappingController

CONSTANTS Existing,       \* objects reconciled before the run starts (a group: its mapping)
          InitialPorts,   \* the ports of those services
          Operations,     \* what users do in this run, and whether caches resync
          MaxOps,         \* bound: how many times
          MaxFaults       \* bound: failed API calls and manager restarts

ASSUME BoundAssumption == MaxOps \in Nat /\ MaxFaults \in Nat
ASSUME PortsAssumption == InitialPorts \in [Services -> PortSets]

VARIABLES ops, faults

workers == <<bw, sw, pw>>
vars    == <<store, caches, queues, workers, ops, faults>>

ExistingBindings == Bindings \cap Existing

(* The services that existing bindings bind to a group.                     *)
BoundTo(g) == {ServiceRef[b] : b \in {c \in ExistingBindings : AddressGroupRef[c] = g}}

(* An existing binding has its service and its mapping; existing bindings   *)
(* of one group do not share a port.                                        *)
ASSUME ExistingAssumption ==
    /\ Existing \subseteq Services \cup Groups \cup Bindings
    /\ \A b \in ExistingBindings : {ServiceRef[b], AddressGroupRef[b]} \subseteq Existing
    /\ \A g \in Groups : Disjoint([s \in BoundTo(g) |-> InitialPorts[s]])

ExistingService(s) ==
    [NoService EXCEPT !.phase = "live", !.fin = TRUE, !.ready = TRUE,
                      !.ports = InitialPorts[s], !.groups = {g \in Groups : s \in BoundTo(g)},
                      !.rv = 1]

ExistingBinding ==
    [NoBinding EXCEPT !.phase = "live", !.fin = TRUE, !.owned = TRUE, !.ready = "True",
                      !.rv = 1]

(* A mapping outlives the bindings it was created for.                      *)
ExistingMapping(g) ==
    [NoMapping EXCEPT !.phase = "live", !.fin = TRUE, !.ready = TRUE,
                      !.items = [s \in BoundTo(g) |-> InitialPorts[s]]]

(* The manager has started and caught up with the existing objects; the     *)
(* address groups are there (and Ready).                                    *)
Init ==
    /\ svc = [s \in Services |-> IF s \in Existing THEN ExistingService(s) ELSE NoService]
    /\ bnd = [b \in Bindings |-> IF b \in Existing THEN ExistingBinding ELSE NoBinding]
    /\ pm = [g \in Groups |-> IF g \in Existing THEN ExistingMapping(g) ELSE NoMapping]
    /\ ag = [g \in Groups |-> TRUE]
    /\ cSvc = svc /\ cBnd = bnd /\ cPm = pm /\ cAg = ag
    /\ bq = {} /\ sq = {} /\ pq = {}
    /\ BInit /\ SInit /\ PInit
    /\ ops = 0 /\ faults = 0

---------------------------------------------------------------------------
(* Users, through the API server and the validating webhooks.              *)

Request(kind) ==
    /\ kind \in Operations
    /\ ops < MaxOps
    /\ ops' = ops + 1
    /\ UNCHANGED <<ag, caches, queues, workers, faults>>

(* A service name is used once.                                            *)
CreateService(s, ports) ==
    /\ svc[s].rv = 0
    /\ svc' = [svc EXCEPT ![s] = [NoService EXCEPT !.phase = "live", !.ports = ports,
                                                   !.rv = 1]]
    /\ UNCHANGED <<bnd, pm>>
    /\ Request("CreateService")

(* ServiceCustomValidator.ValidateUpdate: the mapping of every group of the *)
(* service must be there and have room for the new ports.                   *)
UpdatePorts(s, ports) ==
    /\ svc[s].phase = "live"
    /\ ports # svc[s].ports
    /\ \A g \in svc[s].groups : Present(cPm[g]) /\ Fits(s, ports, cPm[g].items)
    /\ svc' = [svc EXCEPT ![s].ports = ports, ![s].rv = @ + 1]
    /\ UNCHANGED <<bnd, pm>>
    /\ Request("UpdatePorts")

DeleteService(s) ==
    /\ svc[s].phase = "live"
    /\ svc' = [svc EXCEPT ![s] = DeletedService(@)]
    /\ UNCHANGED <<bnd, pm>>
    /\ Request("DeleteService")

(* AddressGroupBindingCustomValidator.ValidateCreate: no live duplicate     *)
(* among the cached bindings.                                               *)
CreateBinding(b) ==
    /\ ~Present(bnd[b])
    /\ \A c \in Bindings : cBnd[c].phase = "live"
         => ServiceRef[c] # ServiceRef[b] \/ AddressGroupRef[c] # AddressGroupRef[b]
    /\ BindingRefsAdmitted(b)
    /\ bnd' = [bnd EXCEPT ![b] = [NoBinding EXCEPT !.phase = "live", !.rv = bnd[b].rv + 1]]
    /\ UNCHANGED <<svc, pm>>
    /\ Request("CreateBinding")

DeleteBinding(b) ==
    /\ bnd[b].phase = "live"
    /\ bnd' = [bnd EXCEPT ![b] = DeletedBinding(@)]
    /\ UNCHANGED <<svc, pm>>
    /\ Request("DeleteBinding")

(* The provider's address group is deleted; it does not come back.          *)
DeleteGroup(g) ==
    /\ "DeleteGroup" \in Operations
    /\ ag[g]
    /\ ops < MaxOps
    /\ ops' = ops + 1
    /\ ag' = [ag EXCEPT ![g] = FALSE]
    /\ UNCHANGED <<svc, bnd, pm, caches, queues, workers, faults>>

---------------------------------------------------------------------------
(* Faults.  A call that fails, or whose answer is lost, ends the reconcile  *)
(* with an error; a restart of the manager loses workers, queues and        *)
(* caches, and starts with every object read and queued.                    *)

Fault == faults < MaxFaults /\ faults' = faults + 1 /\ UNCHANGED ops

FailedCall ==
    /\ \/ bw # BindingIdle /\ BindingError /\ UNCHANGED <<sw, pw>>
       \/ sw # ServiceIdle /\ ServiceError /\ UNCHANGED <<bw, pw>>
       \/ pw # MappingIdle /\ MappingError /\ UNCHANGED <<bw, sw>>
    /\ Fault

Restart ==
    /\ bw' = BindingIdle /\ sw' = ServiceIdle /\ pw' = MappingIdle
    /\ pm' = [g \in Groups |-> Content(pm[g])]
    /\ cSvc' = svc /\ cBnd' = bnd /\ cPm' = pm' /\ cAg' = ag
    /\ bq' = {b \in Bindings : Present(bnd[b])}
    /\ sq' = {s \in Services : Present(svc[s])}
    /\ pq' = {g \in Groups : Present(pm[g])}
    /\ UNCHANGED <<svc, bnd, ag>>
    /\ Fault

---------------------------------------------------------------------------
Users ==
    \/ \E s \in Services :
         \/ \E ports \in PortSets : CreateService(s, ports) \/ UpdatePorts(s, ports)
         \/ DeleteService(s)
    \/ \E b \in Bindings : CreateBinding(b) \/ DeleteBinding(b)
    \/ \E g \in Groups : DeleteGroup(g)

(* The informers' periodic resync: every cached object is queued again.      *)
Resync ==
    /\ "Resync" \in Operations
    /\ bq' = bq \cup {b \in Bindings : Present(cBnd[b])}
    /\ sq' = sq \cup {s \in Services : Present(cSvc[s])}
    /\ pq' = pq \cup {g \in Groups : Present(cPm[g])}
    /\ UNCHANGED <<store, caches>>

Informers ==
    /\ \/ Resync
       \/ \E s \in Services : SyncService(s)
       \/ \E b \in Bindings : SyncBinding(b)
       \/ \E g \in Groups : SyncMapping(g) \/ SyncGroup(g) \/ CollectMapping(g)
    /\ UNCHANGED <<workers, ops, faults>>

BindingReconciler ==
    /\ (\E b \in Bindings : BindingStart(b)) \/ BindingWrite
    /\ UNCHANGED <<sw, pw, ops, faults>>

ServiceReconciler ==
    /\ (\E s \in Services : ReconcileService(s)) \/ ServiceStep
    /\ UNCHANGED <<bw, pw, ops, faults>>

MappingReconciler ==
    /\ (\E g \in Groups : ReconcileMapping(g)) \/ MappingStep
    /\ UNCHANGED <<bw, sw, ops, faults>>

Next ==
    \/ Users \/ Informers
    \/ BindingReconciler \/ ServiceReconciler \/ MappingReconciler
    \/ FailedCall \/ Restart

Spec == Init /\ [][Next]_vars

(* A worker that has begun goes on (WF); a queued key is taken off a FIFO    *)
(* queue some time (SF, as the worker is busy in between); a watch delivers  *)
(* every change some time (WF, an undelivered event does not go away).       *)
(* Users, failing calls and restarts owe nothing.                           *)
Rest == UNCHANGED <<workers, ops, faults>>

Fairness ==
    /\ WF_vars(BindingWrite /\ UNCHANGED <<sw, pw, ops, faults>>)
    /\ WF_vars(ServiceStep /\ UNCHANGED <<bw, pw, ops, faults>>)
    /\ WF_vars(MappingStep /\ UNCHANGED <<bw, sw, ops, faults>>)
    /\ WF_vars(Resync /\ Rest)
    /\ \A b \in Bindings :
         /\ SF_vars(BindingStart(b) /\ UNCHANGED <<sw, pw, ops, faults>>)
         /\ WF_vars(SyncBinding(b) /\ Rest)
    /\ \A s \in Services :
         /\ SF_vars(ReconcileService(s) /\ UNCHANGED <<bw, pw, ops, faults>>)
         /\ WF_vars(SyncService(s) /\ Rest)
    /\ \A g \in Groups :
         /\ SF_vars(ReconcileMapping(g) /\ UNCHANGED <<bw, sw, ops, faults>>)
         /\ WF_vars(SyncMapping(g) /\ Rest)
         /\ WF_vars(SyncGroup(g) /\ Rest)
         /\ WF_vars(CollectMapping(g) /\ Rest)

FairSpec == Spec /\ Fairness

---------------------------------------------------------------------------
StoreOK ==
    /\ svc \in [Services -> ServiceObjects]
    /\ bnd \in [Bindings -> BindingObjects]
    /\ pm \in [Groups -> MappingObjects]
    /\ ag \in [Groups -> BOOLEAN]

CachesOK ==
    /\ cSvc \in [Services -> ServiceObjects]
    /\ cBnd \in [Bindings -> BindingObjects]
    /\ cPm \in [Groups -> MappingObjects]
    /\ cAg \in [Groups -> BOOLEAN]

QueuesOK == bq \subseteq Bindings /\ sq \subseteq Services /\ pq \subseteq Groups

WorkersOK == bw \in BindingWorkers /\ sw \in ServiceWorkers /\ pw \in MappingWorkers

BoundsOK == ops \in 0..MaxOps /\ faults \in 0..MaxFaults

(* Every variable, cache and copy holds an object of its kind.              *)
TypeOK == StoreOK /\ CachesOK /\ QueuesOK /\ WorkersOK /\ BoundsOK

(* The stored mapping of a group never opens one port for two services,     *)
(* although every patch replaces the whole list with one computed from a    *)
(* stale cache, and services change their ports meanwhile.                  *)
PortsDisjoint == \A g \in Groups : pm[g].phase = "live" => Disjoint(pm[g].items)

(* Two groups bound at the same time are both recorded: a step adds or      *)
(* removes at most one group of a live service, whatever stale copy of the  *)
(* service it started from (AddGroup and RemoveGroup store the whole list). *)
NoLostGroup ==
    [][\A s \in Services :
         svc[s].phase = "live" /\ svc'[s].phase = "live" /\ svc'[s].groups # svc[s].groups
         => \E b \in Bindings :
              /\ ServiceRef[b] = s
              /\ \/ svc'[s].groups = svc[s].groups \cup {AddressGroupRef[b]}
                 \/ svc'[s].groups = svc[s].groups \ {AddressGroupRef[b]}]_vars

(* No update of the controllers reverts what a user declares: the ports of   *)
(* a service change only by a request (every other step that stores the      *)
(* whole service stores the ports it read, possibly long ago).               *)
PortsAreTheUsers ==
    [][\A s \in Services : Present(svc[s]) /\ svc'[s].ports # svc[s].ports
                           => ops' = ops + 1 \/ ~Present(svc'[s])]_vars

(* Only its user or the deletion of its service ends a live binding: no      *)
(* reconcile that still works on a deleted predecessor removes it, and the   *)
(* bindings that the service controller deletes from its cached list are     *)
(* those of a service that is going or gone.                                *)
LiveBindingsStay ==
    [][\A b \in Bindings :
         bnd[b].phase = "live" /\ bnd'[b].phase # "live"
         => ops' = ops + 1 \/ svc[ServiceRef[b]].phase # "live"]_vars

(* Nobody gets in unbound: a group lists, and its mapping opens ports of,    *)
(* only services that a binding put into the group at some time, whatever    *)
(* old lists the controllers write back.                                    *)
Granted(s, g) ==
    \E b \in Bindings : ServiceRef[b] = s /\ AddressGroupRef[b] = g /\ bnd[b].rv > 0

AccessWasGranted ==
    \A g \in Groups :
      /\ \A s \in DOMAIN pm[g].items : Granted(s, g)
      /\ \A s \in Services : g \in svc[s].groups => Granted(s, g)

(* What a live binding promises: the service lists the group, the mapping    *)
(* lists the service with the ports it declares now, and the binding says    *)
(* so -- unless another entry of the mapping holds one of those ports.       *)
Opposed(b) ==
    LET s == ServiceRef[b]
    IN  ~Fits(s, svc[s].ports, pm[AddressGroupRef[b]].items)

InSync(b) ==
    LET s == ServiceRef[b]
        g == AddressGroupRef[b]
    IN  /\ g \in svc[s].groups
        /\ EntryCurrent(pm[g].items, s, svc[s].ports)
        /\ bnd[b].ready = "True"

Bound(b) ==
    bnd[b].phase = "live" /\ svc[ServiceRef[b]].phase = "live" /\ ag[AddressGroupRef[b]]

(* Once users are done, every live binding comes into sync and stays so,     *)
(* whatever the three workers overwrote of each other's on the way: an       *)
(* entry lost to a stale patch is put back.                                  *)
Convergence == <>[](\A b \in Bindings : Bound(b) => InSync(b) \/ Opposed(b))

(* A deletion is carried through: no finalizer stays behind.                 *)
DeletionCompletes ==
    /\ \A b \in Bindings : bnd[b].phase = "deleting" ~> ~Present(bnd[b])
    /\ \A s \in Services : svc[s].phase = "deleting" ~> ~Present(svc[s])
    /\ \A g \in Groups : pm[g].phase = "deleting" ~> ~Present(pm[g])

(* The controller's deletion test: deleting a binding removes the group from *)
(* the service and the service from the mapping.                             *)
Unbound(s, g) ==
    \A b \in Bindings : ServiceRef[b] = s /\ AddressGroupRef[b] = g => ~Present(bnd[b])

NoOrphans ==
    <>[](\A s \in Services, g \in Groups :
           Unbound(s, g) => g \notin svc[s].groups /\ s \notin DOMAIN pm[g].items)

(* The comment on cleanupStalePortMappings: entries of services that no      *)
(* longer exist are removed.                                                 *)
StaleEntriesRemoved ==
    <>[](\A g \in Groups : \A s \in DOMAIN pm[g].items : Present(svc[s]))
=============================================================================
