------------------------ MODULE BindingSafetyProofs ------------------------
(***************************************************************************)
(* What BindingSync never does, for any number of services, groups and     *)
(* bindings, whatever the three workers overwrite of each other's, and     *)
(* with any number of failed calls and restarts.  In this order:            *)
(*   PortsDisjoint                   from the mapping's validator;          *)
(*   PortsAreTheUsers, NoLostGroup   from the lock of a service;            *)
(*   LiveBindingsStay                from the lock of a binding, and what    *)
(*                                   deletes bindings;                      *)
(*   AccessWasGranted                from where copied lists come from.     *)
(***************************************************************************)
EXTENDS BindingSyncProofs

---------------------------------------------------------------------------
(* No mapping ever opens one port for two services.  PortsDisjoint is       *)
(* inductive over typed states.  The reason is the mapping's validator      *)
(* alone: a patch stores the list the validator saw, and the two writes it  *)
(* does not judge (of a mapping being deleted) never bring that mapping     *)
(* back to life.                                                           *)

Good(mapping) == mapping.phase = "live" => Disjoint(mapping.items)

LEMMA SavedMappingIs ==
    ASSUME NEW o \in MappingObjects, NEW new \in MappingObjects
    PROVE  /\ SavedMapping(o, new).phase = new.phase
           /\ SavedMapping(o, new).items = new.items
<1>1. CASE Content(new) = Content(o)
  <2>1. /\ Content(new).phase = new.phase /\ Content(new).items = new.items
        /\ Content(o).phase = o.phase /\ Content(o).items = o.items
    BY DEF Content, MappingObjects
  <2> QED BY <1>1, <2>1 DEF SavedMapping
<1>2. CASE Content(new) # Content(o)
  BY <1>2 DEF SavedMapping, MappingObjects
<1> QED BY <1>1, <1>2

LEMMA GoodPatch ==
    ASSUME NEW o \in MappingObjects, Good(o),
           NEW base \in AccessPorts, NEW modified \in AccessPorts,
           MappingAdmits(o, modified)
    PROVE  Good(MergePatch(o, base, modified))
<1>1. CASE base = modified
  BY <1>1 DEF MergePatch
<1>2. CASE base # modified
  <2> DEFINE new == [o EXCEPT !.items = modified]
  <2>1. new \in MappingObjects /\ new.phase = o.phase /\ new.items = modified
    BY DEF MappingObjects
  <2>2. /\ SavedMapping(o, new).phase = o.phase
        /\ SavedMapping(o, new).items = modified
    BY <2>1, SavedMappingIs
  <2> QED BY <1>2, <2>2 DEF MergePatch, MappingAdmits, Good
<1> QED BY <1>1, <1>2

LEMMA GoodRest ==
    ASSUME NEW o \in MappingObjects, Good(o)
    PROVE  /\ Good(Content(o))
           /\ Good(NoMapping)
           /\ Good(SavedMapping(o, NoMapping))
           /\ Good(SavedMapping(o, [NoMapping EXCEPT !.phase = "live"]))
           /\ Good(SavedMapping(o, [o EXCEPT !.fin = TRUE]))
           /\ Good(SavedMapping(o, [o EXCEPT !.fin = FALSE]))
           /\ Good(SavedMapping(o, [o EXCEPT !.ready = TRUE]))
           /\ Good(SavedMapping(o, DeletedMapping(o)))
<1>1. Disjoint(NoItems)
  BY DEF Disjoint, NoItems
<1>2. Good(Content(o))
  BY DEF Good, Content, MappingObjects
<1>3. /\ Good(NoMapping)
      /\ Good([NoMapping EXCEPT !.phase = "live"])
  BY <1>1 DEF Good, NoMapping
<1>4. /\ Good([o EXCEPT !.fin = TRUE])
      /\ Good([o EXCEPT !.fin = FALSE])
      /\ Good([o EXCEPT !.ready = TRUE])
  BY DEF Good, MappingObjects
<1>5. Good(DeletedMapping(o))
  BY <1>3 DEF DeletedMapping, Good, MappingObjects
<1>6. /\ [NoMapping EXCEPT !.phase = "live"] \in MappingObjects
      /\ [o EXCEPT !.fin = TRUE] \in MappingObjects
      /\ [o EXCEPT !.fin = FALSE] \in MappingObjects
      /\ [o EXCEPT !.ready = TRUE] \in MappingObjects
  BY NothingTypes DEF MappingObjects, Phases
<1>7. \A new \in MappingObjects : Good(new) => Good(SavedMapping(o, new))
  BY SavedMappingIs DEF Good
<1> QED BY <1>2, <1>3, <1>4, <1>5, <1>6, <1>7, NothingTypes, MappingTypes

(* Replacing one mapping by a good one.                                     *)
LEMMA GoodStore ==
    ASSUME TypeInv, PortsDisjoint, NEW g \in Groups, NEW new, Good(new),
           pm' = [pm EXCEPT ![g] = new]
    PROVE  PortsDisjoint'
BY DEF PortsDisjoint, Good, TypeInv, TypeOK, StoreOK

LEMMA AllGood ==
    ASSUME TypeInv, PortsDisjoint, NEW g \in Groups
    PROVE  pm[g] \in MappingObjects /\ Good(pm[g])
BY DEF TypeInv, TypeOK, StoreOK, PortsDisjoint, Good

---------------------------------------------------------------------------
LEMMA InitDisjoint == Init => PortsDisjoint
<1> SUFFICES ASSUME Init, NEW g \in Groups, pm[g].phase = "live"
             PROVE  Disjoint(pm[g].items)
  BY DEF PortsDisjoint
<1>1. CASE g \in Existing
  <2>1. pm[g].items = [s \in BoundTo(g) |-> InitialPorts[s]]
    BY <1>1 DEF Init, ExistingMapping, NoMapping
  <2> QED BY <2>1, ExistingAssumption
<1>2. CASE g \notin Existing
  BY <1>2 DEF Init, NoMapping
<1> QED BY <1>1, <1>2

(* The binding controller: CreateMapping and the two patches.               *)
LEMMA BindingDisjoint ==
    ASSUME TypeInv, PortsDisjoint, BindingReconciler
    PROVE  PortsDisjoint'
<1>1. CASE UNCHANGED pm
  BY <1>1 DEF PortsDisjoint
<1>2. ASSUME CreateMapping, ~BindingError PROVE PortsDisjoint'
  <2> DEFINE g == AddressGroupRef[bw.key]
  <2>1. g \in Groups
    BY <1>2, DueKey DEF CreateMapping
  <2>2. pm' = [pm EXCEPT ![g] = SavedMapping(pm[g], [NoMapping EXCEPT !.phase = "live"])]
    BY <1>2 DEF CreateMapping
  <2> QED BY <2>1, <2>2, AllGood, GoodRest, GoodStore
<1>3. ASSUME NEW w, NEW items \in AccessPorts, Due(w), PatchMapping(w, items), ~BindingError
      PROVE  PortsDisjoint'
  <2> DEFINE g == AddressGroupRef[bw.key]
  <2>1. g \in Groups /\ bw.items \in AccessPorts
    BY <1>3, DueKey
  <2>2. /\ MappingAdmits(pm[g], items)
        /\ pm' = [pm EXCEPT ![g] = MergePatch(pm[g], bw.items, items)]
    BY <1>3 DEF PatchMapping
  <2>3. Good(MergePatch(pm[g], bw.items, items))
    BY <2>1, <2>2, AllGood, GoodPatch
  <2> QED BY <2>1, <2>2, <2>3, GoodStore
<1>4. ASSUME PutServiceEntry, ~BindingError PROVE PortsDisjoint'
  <2>1. Due("PutEntry")
    BY <1>4 DEF PutServiceEntry
  <2>2. PutEntry(bw.items, ServiceRef[bw.key], bw.ports) \in AccessPorts
    BY <2>1, DueKey, ItemsTypes
  <2> QED BY <1>3, <1>4, <2>1, <2>2 DEF PutServiceEntry
<1>5. ASSUME RemoveServiceEntry, ~BindingError PROVE PortsDisjoint'
  <2>1. Due("RemoveEntry")
    BY <1>5 DEF RemoveServiceEntry
  <2>2. DropEntry(bw.items, ServiceRef[bw.key]) \in AccessPorts
    BY <2>1, DueKey, ItemsTypes
  <2> QED BY <1>3, <1>5, <2>1, <2>2 DEF RemoveServiceEntry
<1>6. BindingError => UNCHANGED pm
  BY DEF BindingError, store
<1>7. (\E b \in Bindings : BindingStart(b)) => UNCHANGED pm
  BY DEF BindingStart, ReconcileGoneBinding, ReconcileNewBinding, reconcileDelete,
         ReconcileWithoutService, ReconcileWithoutGroup, reconcileNormal, Begin, store
<1>8. (AddFinalizer \/ AddOwners \/ SetReady \/ AddGroup \/ RemoveGroup
        \/ RemoveBindingFinalizer \/ ReportServiceNotFound \/ ReportAddressGroupNotFound)
      => UNCHANGED pm
  BY <1>6 DEF AddFinalizer, AddOwners, SetReady, UpdateBinding, AddGroup, RemoveGroup,
              UpdateServiceGroups, RemoveBindingFinalizer, ReportServiceNotFound,
              ReportAddressGroupNotFound, ReportMissing
<1> QED
  BY <1>1, <1>2, <1>4, <1>5, <1>6, <1>7, <1>8 DEF BindingReconciler, BindingWrite

(* The service controller: its patch.                                       *)
LEMMA ServiceDisjoint ==
    ASSUME TypeInv, PortsDisjoint, ServiceReconciler
    PROVE  PortsDisjoint'
<1>1. CASE UNCHANGED pm
  BY <1>1 DEF PortsDisjoint
<1>2. ServiceError => UNCHANGED pm
  BY DEF ServiceError, store
<1>3. ASSUME PatchServiceEntry, ~ServiceError PROVE PortsDisjoint'
  <2> DEFINE g     == sw.group
             items == IF sw.deleting THEN DropEntry(sw.items, sw.key)
                      ELSE PutEntry(sw.items, sw.key, sw.ports)
  <2>1. sw # ServiceIdle
    BY <1>3 DEF PatchServiceEntry, ServiceIdle
  <2>2. /\ g \in Groups /\ sw.key \in Services
        /\ sw.items \in AccessPorts /\ sw.ports \in Ports
    BY <1>3, <2>1 DEF PatchServiceEntry, TypeInv, TypeOK, KeysOK, WorkersOK, ServiceWorkers
  <2>3. items \in AccessPorts
    BY <2>2, ItemsTypes
  <2>4. /\ MappingAdmits(pm[g], items)
        /\ pm' = [pm EXCEPT ![g] = MergePatch(pm[g], sw.items, items)]
    BY <1>3 DEF PatchServiceEntry
  <2>5. Good(MergePatch(pm[g], sw.items, items))
    BY <2>2, <2>3, <2>4, AllGood, GoodPatch
  <2> QED BY <2>2, <2>4, <2>5, GoodStore
<1>4. (\E s \in Services : ReconcileService(s)) => UNCHANGED pm
  BY DEF ReconcileService, store
<1>5. (EnsureServiceFinalizer \/ SetServiceReady \/ DeleteOneBinding \/ BindingsDeleted
        \/ ReadMapping \/ RemoveServiceFinalizer) => UNCHANGED pm
  BY <1>2 DEF EnsureServiceFinalizer, SetServiceReady, DeleteOneBinding, BindingsDeleted,
              ReadMapping, RemoveServiceFinalizer, store
<1> QED BY <1>1, <1>2, <1>3, <1>4, <1>5 DEF ServiceReconciler, ServiceStep

(* The mapping controller: none of its writes touches the entries.          *)
LEMMA MappingDisjoint ==
    ASSUME TypeInv, PortsDisjoint, MappingReconciler
    PROVE  PortsDisjoint'
<1> DEFINE g == pw.key
<1>1. CASE UNCHANGED pm
  BY <1>1 DEF PortsDisjoint
<1>2. MappingError => UNCHANGED pm
  BY DEF MappingError, store
<1>3. ASSUME MappingStep, ~MappingError PROVE PortsDisjoint'
  <2>1. pw # MappingIdle
    BY <1>3 DEF MappingStep, EnsureMappingFinalizer, cleanupStalePortMappings,
                SetMappingReady, RemoveMappingFinalizer, MappingIdle
  <2>2. g \in Groups
    BY <2>1 DEF TypeInv, KeysOK
  <2>3. CASE EnsureMappingFinalizer
    <3>1. pm' = [pm EXCEPT ![g] = SavedMapping(pm[g], [pm[g] EXCEPT !.fin = TRUE])]
      BY <1>3, <2>2, <2>3 DEF EnsureMappingFinalizer, TypeInv, TypeOK, StoreOK
    <3> QED BY <2>2, <3>1, AllGood, GoodRest, GoodStore
  <2>4. CASE cleanupStalePortMappings
    <3>1. pm' = [pm EXCEPT ![g] = CleanupPatch(pm[g], cPm[g], pw.valid)]
      BY <1>3, <2>4 DEF cleanupStalePortMappings
    <3>2. CleanupPatch(pm[g], cPm[g], pw.valid) = pm[g]
      BY <2>2, AllGood, CleanupType
    <3> QED BY <2>2, <3>1, <3>2, AllGood, GoodStore
  <2>5. CASE SetMappingReady
    <3>1. pm' = [pm EXCEPT ![g] = SavedMapping(pm[g], [pm[g] EXCEPT !.ready = TRUE])]
      BY <1>3, <2>2, <2>5 DEF SetMappingReady, TypeInv, TypeOK, StoreOK
    <3> QED BY <2>2, <3>1, AllGood, GoodRest, GoodStore
  <2>6. CASE RemoveMappingFinalizer
    <3>1. \/ UNCHANGED pm
          \/ pm' = [pm EXCEPT ![g] = SavedMapping(pm[g], NoMapping)]
          \/ pm' = [pm EXCEPT ![g] = SavedMapping(pm[g], [pm[g] EXCEPT !.fin = FALSE])]
      BY <1>3, <2>2, <2>6 DEF RemoveMappingFinalizer, TypeInv, TypeOK, StoreOK, store
    <3> QED BY <1>1, <2>2, <3>1, AllGood, GoodRest, GoodStore
  <2> QED BY <1>3, <2>3, <2>4, <2>5, <2>6 DEF MappingStep
<1>4. (\E h \in Groups : ReconcileMapping(h)) => UNCHANGED pm
  BY DEF ReconcileMapping, store
<1> QED BY <1>1, <1>2, <1>3, <1>4 DEF MappingReconciler

LEMMA InformersDisjoint ==
    ASSUME TypeInv, PortsDisjoint, Informers
    PROVE  PortsDisjoint'
<1>1. CASE UNCHANGED pm
  BY <1>1 DEF PortsDisjoint
<1>2. ASSUME NEW g \in Groups, SyncMapping(g) PROVE PortsDisjoint'
  BY <1>2, AllGood, GoodRest, GoodStore DEF SyncMapping
<1>3. ASSUME NEW g \in Groups, CollectMapping(g) PROVE PortsDisjoint'
  BY <1>3, AllGood, GoodRest, GoodStore DEF CollectMapping
<1> QED
  BY <1>1, <1>2, <1>3 DEF Informers, Resync, SyncService, SyncBinding, SyncGroup, store

LEMMA NextDisjoint == TypeInv /\ PortsDisjoint /\ [Next]_vars => PortsDisjoint'
<1> SUFFICES ASSUME TypeInv, PortsDisjoint, [Next]_vars PROVE PortsDisjoint'
  OBVIOUS
<1>1. CASE UNCHANGED pm
  BY <1>1 DEF PortsDisjoint
<1>2. Users => UNCHANGED pm
  BY DEF Users, CreateService, UpdatePorts, DeleteService, CreateBinding, DeleteBinding,
         DeleteGroup
<1>3. FailedCall => UNCHANGED pm
  BY DEF FailedCall, BindingError, ServiceError, MappingError, store
<1>4. CASE Restart
  <2>1. pm' = [g \in Groups |-> Content(pm[g])]
    BY <1>4 DEF Restart
  <2>2. ASSUME NEW g \in Groups PROVE Good(Content(pm[g]))
    BY AllGood, GoodRest
  <2> QED BY <2>1, <2>2 DEF PortsDisjoint, Good
<1>5. CASE UNCHANGED vars
  BY <1>1, <1>5 DEF vars, store
<1> QED
  BY <1>1, <1>2, <1>3, <1>4, <1>5, BindingDisjoint, ServiceDisjoint, MappingDisjoint,
     InformersDisjoint DEF Next

(* The stored mapping of a group never opens one port for two services.      *)
THEOREM PortsDisjointHolds == Spec => []PortsDisjoint
BY AlwaysTypeInv, InitDisjoint, NextDisjoint, PTL DEF Spec

---------------------------------------------------------------------------
(* What the optimistic lock of a Service is worth.  AddGroup and            *)
(* RemoveGroup store a whole Service that was read from a cache, possibly   *)
(* long ago; the lock lets them through only while that copy still is the   *)
(* stored object, so that what others wrote to it is kept.                  *)

(* A copy that the lock accepts is the stored object.                       *)
Faithful(copy, stored) ==
    /\ copy.rv <= stored.rv
    /\ copy.rv = stored.rv => copy = stored

ListWrites == {"AddGroup", "RemoveGroup"}

CachesFaithful == \A s \in Services : Faithful(cSvc[s], svc[s])

WorkerFaithful ==
    bw.todo \cap ListWrites # {} => Faithful(bw.svc, svc[ServiceRef[bw.key]])

Unborn == \A s \in Services : svc[s].rv = 0 => ~Present(svc[s])

CopyInv == TypeInv /\ CachesFaithful /\ WorkerFaithful /\ Unborn

---------------------------------------------------------------------------
(* What a step may do to a service, and what it may make of the copies.     *)

(* The worker's binding puts its group on the list, or takes it off.         *)
OneGroup(s) ==
    /\ bw # BindingIdle /\ bw.key \in Bindings /\ ServiceRef[bw.key] = s
    /\ \/ svc'[s].groups = svc[s].groups \cup {AddressGroupRef[bw.key]}
       \/ svc'[s].groups = svc[s].groups \ {AddressGroupRef[bw.key]}

(* A service that is going or gone does not come back.                      *)
NoReturn(s) == svc[s].rv # 0 /\ svc[s].phase # "live" => svc'[s].phase # "live"

Changed(s) ==
    \/ svc'[s] = svc[s]
    \/ /\ svc'[s].rv = svc[s].rv + 1
       /\ NoReturn(s)
       /\ \/ ~Present(svc'[s]) /\ svc'[s].groups = {}
          \/ svc[s].rv = 0 /\ svc'[s].groups = {} /\ ops' = ops + 1
          \/ svc'[s].groups = svc[s].groups /\ (svc'[s].ports = svc[s].ports \/ ops' = ops + 1)
          \/ svc'[s].ports = svc[s].ports /\ OneGroup(s)

CacheChanged(s) == cSvc'[s] = cSvc[s] \/ cSvc'[s] = svc'[s]

WorkerChanged ==
    \/ bw'.todo \cap ListWrites = {}
    \/ bw'.key = bw.key /\ bw'.svc = bw.svc /\ bw'.todo \subseteq bw.todo
    \/ bw'.key \in Bindings /\ bw'.svc = cSvc[ServiceRef[bw'.key]] /\ UNCHANGED svc

LEMMA Typed ==
    ASSUME TypeInv, NEW s \in Services
    PROVE  /\ svc[s] \in ServiceObjects /\ cSvc[s] \in ServiceObjects
           /\ DOMAIN svc = Services /\ DOMAIN cSvc = Services
           /\ bw \in BindingWorkers
BY DEF TypeInv, TypeOK, StoreOK, CachesOK, WorkersOK

(* Storing an object: unchanged, or one version on.                         *)
LEMMA SavedIs ==
    ASSUME NEW o \in ServiceObjects, NEW new \in ServiceObjects
    PROVE  \/ Saved(o, new) = o
           \/ /\ Saved(o, new).rv = o.rv + 1
              /\ Saved(o, new).phase = new.phase
              /\ Saved(o, new).ports = new.ports
              /\ Saved(o, new).groups = new.groups
BY DEF Saved, ServiceObjects

LEMMA DeletedIs ==
    ASSUME NEW o \in ServiceObjects
    PROVE  /\ RemovedService(o).rv = o.rv + 1 /\ ~Present(RemovedService(o))
           /\ RemovedService(o).phase # "live" /\ RemovedService(o).groups = {}
           /\ \/ DeletedService(o) = o
              \/ /\ DeletedService(o).rv = o.rv + 1
                 /\ DeletedService(o).phase # "live"
                 /\ \/ ~Present(DeletedService(o)) /\ DeletedService(o).groups = {}
                    \/ /\ DeletedService(o).ports = o.ports
                       /\ DeletedService(o).groups = o.groups
<1>1. /\ RemovedService(o).rv = o.rv + 1 /\ ~Present(RemovedService(o))
      /\ RemovedService(o).phase # "live" /\ RemovedService(o).groups = {}
  BY DEF RemovedService, NoService, Present
<1>2. CASE o.phase = "deleting"
  BY <1>1, <1>2 DEF DeletedService
<1>3. CASE o.phase # "deleting" /\ o.fin
  BY <1>1, <1>3 DEF DeletedService, ServiceObjects
<1>4. CASE o.phase # "deleting" /\ ~o.fin
  BY <1>1, <1>4 DEF DeletedService
<1>. QED  BY <1>2, <1>3, <1>4

(* Only one service is written in a step.                                   *)
LEMMA OneWritten ==
    ASSUME TypeInv, NEW t \in Services, NEW new, svc' = [svc EXCEPT ![t] = new], Changed(t)
    PROVE  \A s \in Services : Changed(s)
<1>1. \A s \in Services \ {t} : svc'[s] = svc[s]
  BY Typed
<1>. QED  BY <1>1 DEF Changed, NoReturn, OneGroup

LEMMA NoneWritten ==
    ASSUME UNCHANGED svc
    PROVE  \A s \in Services : Changed(s)
BY DEF Changed, NoReturn, OneGroup

---------------------------------------------------------------------------
(* A service that the lock accepts is stored as it is, but for its list.    *)
LEMMA UpdateChanges ==
    ASSUME CopyInv, NEW w \in ListWrites, Due(w), NEW groups \in SUBSET Groups,
           groups \in {bw.svc.groups \cup {AddressGroupRef[bw.key]},
                       bw.svc.groups \ {AddressGroupRef[bw.key]}},
           UpdateServiceGroups(w, groups)
    PROVE  \A s \in Services : Changed(s)
<1> DEFINE s   == ServiceRef[bw.key]
           new == [bw.svc EXCEPT !.groups = groups]
<1>1. /\ bw # BindingIdle /\ bw.key \in Bindings
      /\ s \in Services /\ bw.svc \in ServiceObjects
  BY DueKey DEF CopyInv, Due, BindingIdle
<1>2. svc[s] \in ServiceObjects /\ DOMAIN svc = Services
  BY <1>1, Typed DEF CopyInv
<1>3. CASE BindingError
  BY <1>3, NoneWritten DEF BindingError, store
<1>4. CASE Accepts(svc[s], bw.svc) /\ svc' = [svc EXCEPT ![s] = Saved(svc[s], new)]
  <2>1. bw.svc = svc[s]
    BY <1>4 DEF Due, CopyInv, WorkerFaithful, Faithful, Accepts
  <2>2. /\ new \in ServiceObjects
        /\ new.phase = svc[s].phase /\ new.ports = svc[s].ports /\ new.groups = groups
    BY <1>2, <2>1 DEF ServiceObjects
  <2>3. svc'[s] = Saved(svc[s], new)
    BY <1>1, <1>2, <1>4
  <2> HIDE DEF new
  <2>4. \/ svc'[s] = svc[s]
        \/ /\ svc'[s].rv = svc[s].rv + 1 /\ svc'[s].phase = svc[s].phase
           /\ svc'[s].ports = svc[s].ports /\ svc'[s].groups = groups
    BY <1>2, <2>2, <2>3, SavedIs
  <2>5. svc'[s].groups = groups => OneGroup(s)
    BY <1>1, <2>1 DEF OneGroup
  <2>6. Changed(s)
    BY <2>4, <2>5 DEF Changed, NoReturn
  <2>. QED  BY <1>1, <1>4, <2>6, OneWritten DEF CopyInv
<1>. QED  BY <1>3, <1>4 DEF UpdateServiceGroups

LEMMA BindingChanges ==
    ASSUME CopyInv, BindingReconciler
    PROVE  \A s \in Services : Changed(s)
<1>1. CASE UNCHANGED svc
  BY <1>1, NoneWritten
<1>2. ASSUME AddGroup PROVE \A s \in Services : Changed(s)
  <2>1. /\ Due("AddGroup")
        /\ UpdateServiceGroups("AddGroup", bw.svc.groups \cup {AddressGroupRef[bw.key]})
    BY <1>2 DEF AddGroup
  <2>2. bw.svc.groups \cup {AddressGroupRef[bw.key]} \in SUBSET Groups
    BY <2>1, DueKey DEF CopyInv, ServiceObjects
  <2>. QED  BY <2>1, <2>2, UpdateChanges DEF ListWrites
<1>3. ASSUME RemoveGroup PROVE \A s \in Services : Changed(s)
  <2>1. /\ Due("RemoveGroup")
        /\ UpdateServiceGroups("RemoveGroup", bw.svc.groups \ {AddressGroupRef[bw.key]})
    BY <1>3 DEF RemoveGroup
  <2>2. bw.svc.groups \ {AddressGroupRef[bw.key]} \in SUBSET Groups
    BY <2>1, DueKey DEF CopyInv, ServiceObjects
  <2>. QED  BY <2>1, <2>2, UpdateChanges DEF ListWrites
<1>4. (\E b \in Bindings : BindingStart(b)) => UNCHANGED svc
  BY DEF BindingStart, ReconcileGoneBinding, ReconcileNewBinding, reconcileDelete,
         ReconcileWithoutService, ReconcileWithoutGroup, reconcileNormal, Begin, store
<1>5. BindingError => UNCHANGED svc
  BY DEF BindingError, store
<1>6. (AddFinalizer \/ AddOwners \/ SetReady \/ CreateMapping \/ PutServiceEntry
        \/ RemoveServiceEntry \/ RemoveBindingFinalizer \/ ReportServiceNotFound
        \/ ReportAddressGroupNotFound) => UNCHANGED svc
  BY <1>5 DEF AddFinalizer, AddOwners, SetReady, UpdateBinding, CreateMapping, PutServiceEntry,
              RemoveServiceEntry, PatchMapping, RemoveBindingFinalizer, ReportServiceNotFound,
              ReportAddressGroupNotFound, ReportMissing
<1>. QED  BY <1>1, <1>2, <1>3, <1>4, <1>6 DEF BindingReconciler, BindingWrite

(* The finalizer and the status are written into whatever is stored.        *)
LEMMA ServiceChanges ==
    ASSUME CopyInv, ServiceReconciler
    PROVE  \A s \in Services : Changed(s)
<1> DEFINE s == sw.key
<1>1. CASE UNCHANGED svc
  BY <1>1, NoneWritten
<1>2. ServiceError => UNCHANGED svc
  BY DEF ServiceError, store
<1>3. ASSUME sw.pc # "Idle" PROVE s \in Services /\ svc[s] \in ServiceObjects
  BY <1>3, Typed DEF CopyInv, TypeInv, KeysOK, ServiceIdle
<1>4. ASSUME NEW new \in ServiceObjects, s \in Services, svc[s] \in ServiceObjects,
             new.phase = svc[s].phase, new.ports = svc[s].ports, new.groups = svc[s].groups,
             svc' = [svc EXCEPT ![s] = Saved(svc[s], new)]
      PROVE  \A t \in Services : Changed(t)
  <2>1. svc'[s] = Saved(svc[s], new)
    BY <1>4, Typed DEF CopyInv
  <2>2. Changed(s)
    BY <1>4, <2>1, SavedIs DEF Changed, NoReturn
  <2>. QED  BY <1>4, <2>2, OneWritten DEF CopyInv
<1>5. ASSUME EnsureServiceFinalizer, ~ServiceError PROVE \A t \in Services : Changed(t)
  <2> DEFINE new == [svc[s] EXCEPT !.fin = TRUE]
  <2>1. s \in Services /\ svc[s] \in ServiceObjects
    BY <1>3, <1>5 DEF EnsureServiceFinalizer
  <2>2. svc' = [svc EXCEPT ![s] = Saved(svc[s], new)]
    BY <1>5 DEF EnsureServiceFinalizer
  <2>3. /\ new \in ServiceObjects /\ new.phase = svc[s].phase
        /\ new.ports = svc[s].ports /\ new.groups = svc[s].groups
    BY <2>1 DEF ServiceObjects
  <2>. QED  BY <1>4, <2>1, <2>2, <2>3
<1>6. ASSUME SetServiceReady, ~ServiceError PROVE \A t \in Services : Changed(t)
  <2> DEFINE new == [svc[s] EXCEPT !.ready = TRUE]
  <2>1. s \in Services /\ svc[s] \in ServiceObjects
    BY <1>3, <1>6 DEF SetServiceReady
  <2>2. svc' = [svc EXCEPT ![s] = Saved(svc[s], new)]
    BY <1>6 DEF SetServiceReady
  <2>3. /\ new \in ServiceObjects /\ new.phase = svc[s].phase
        /\ new.ports = svc[s].ports /\ new.groups = svc[s].groups
    BY <2>1 DEF ServiceObjects
  <2>. QED  BY <1>4, <2>1, <2>2, <2>3
<1>7. ASSUME RemoveServiceFinalizer, svc' # svc PROVE \A t \in Services : Changed(t)
  <2>1. s \in Services /\ svc[s] \in ServiceObjects /\ DOMAIN svc = Services
    BY <1>3, <1>7, Typed DEF RemoveServiceFinalizer, CopyInv
  <2>2. svc' = [svc EXCEPT ![s] = RemovedService(svc[s])]
    BY <1>2, <1>7 DEF RemoveServiceFinalizer, store
  <2>3. Changed(s)
    BY <2>1, <2>2, DeletedIs DEF Changed, NoReturn
  <2>. QED  BY <2>1, <2>2, <2>3, OneWritten DEF CopyInv
<1>8. (\E t \in Services : ReconcileService(t)) => UNCHANGED svc
  BY DEF ReconcileService, store
<1>9. (DeleteOneBinding \/ BindingsDeleted \/ ReadMapping \/ PatchServiceEntry)
      => UNCHANGED svc
  BY <1>2 DEF DeleteOneBinding, BindingsDeleted, ReadMapping, PatchServiceEntry, store
<1>. QED
  BY <1>1, <1>2, <1>5, <1>6, <1>7, <1>8, <1>9 DEF ServiceReconciler, ServiceStep

LEMMA UsersChange ==
    ASSUME CopyInv, Users
    PROVE  \A s \in Services : Changed(s)
<1>1. CASE UNCHANGED svc
  BY <1>1, NoneWritten
<1>2. ASSUME NEW t \in Services, NEW ports \in PortSets, CreateService(t, ports)
      PROVE  \A s \in Services : Changed(s)
  <2> DEFINE new == [NoService EXCEPT !.phase = "live", !.ports = ports, !.rv = 1]
  <2>1. svc[t].rv = 0 /\ svc' = [svc EXCEPT ![t] = new] /\ ops' = ops + 1
    BY <1>2 DEF CreateService, Request
  <2>2. svc'[t].rv = svc[t].rv + 1 /\ svc'[t].groups = {}
    BY <2>1, Typed DEF CopyInv, NoService
  <2>3. Changed(t)
    BY <2>1, <2>2 DEF Changed, NoReturn
  <2>. QED  BY <2>1, <2>3, OneWritten DEF CopyInv
<1>3. ASSUME NEW t \in Services, NEW ports \in PortSets, UpdatePorts(t, ports)
      PROVE  \A s \in Services : Changed(s)
  <2> DEFINE new == [svc[t] EXCEPT !.ports = ports, !.rv = @ + 1]
  <2>1. svc' = [svc EXCEPT ![t] = new] /\ ops' = ops + 1 /\ svc[t].phase = "live"
    BY <1>3 DEF UpdatePorts, Request
  <2>2. new.rv = svc[t].rv + 1 /\ new.groups = svc[t].groups
    BY Typed DEF CopyInv, ServiceObjects
  <2>3. svc'[t] = new
    BY <2>1, Typed DEF CopyInv
  <2>4. Changed(t)
    BY <2>1, <2>2, <2>3 DEF Changed, NoReturn
  <2>. QED  BY <2>1, <2>4, OneWritten DEF CopyInv
<1>4. ASSUME NEW t \in Services, DeleteService(t) PROVE \A s \in Services : Changed(s)
  <2>1. svc' = [svc EXCEPT ![t] = DeletedService(svc[t])] /\ svc[t] \in ServiceObjects
    BY <1>4, Typed DEF DeleteService, CopyInv
  <2>2. svc'[t] = DeletedService(svc[t])
    BY <2>1, Typed DEF CopyInv
  <2>3. Changed(t)
    BY <2>1, <2>2, DeletedIs DEF Changed, NoReturn
  <2>. QED  BY <2>1, <2>3, OneWritten DEF CopyInv
<1>. QED
  BY <1>1, <1>2, <1>3, <1>4 DEF Users, CreateBinding, DeleteBinding, DeleteGroup

LEMMA NextChanges ==
    ASSUME CopyInv, [Next]_vars
    PROVE  \A s \in Services : Changed(s)
<1>1. (Informers \/ MappingReconciler \/ FailedCall \/ Restart \/ UNCHANGED vars)
      => UNCHANGED svc
  BY MappingFrame DEF Informers, Resync, SyncService, SyncBinding, SyncMapping, SyncGroup,
         CollectMapping, MappingReconciler, FailedCall, BindingError, ServiceError,
         MappingError, Restart, vars, store
<1>. QED  BY <1>1, NoneWritten, BindingChanges, ServiceChanges, UsersChange DEF Next

---------------------------------------------------------------------------
(* The copies.                                                             *)

LEMMA NextCaches ==
    ASSUME CopyInv, [Next]_vars
    PROVE  \A s \in Services : CacheChanged(s)
<1>1. CASE UNCHANGED cSvc
  BY <1>1 DEF CacheChanged
<1>2. ASSUME NEW t \in Services, SyncService(t) PROVE \A s \in Services : CacheChanged(s)
  BY <1>2, Typed DEF SyncService, store, CacheChanged, CopyInv
<1>3. CASE Restart
  BY <1>3 DEF Restart, CacheChanged
<1>4. (BindingReconciler \/ ServiceReconciler \/ MappingReconciler) => UNCHANGED cSvc
  BY BindingFrame, ServiceFrame, MappingFrame
     DEF BindingReconciler, ServiceReconciler, MappingReconciler, caches
<1>5. (Users \/ FailedCall \/ UNCHANGED vars) => UNCHANGED cSvc
  BY DEF Users, CreateService, UpdatePorts, DeleteService, CreateBinding, DeleteBinding,
         DeleteGroup, Request, FailedCall, BindingError, ServiceError, MappingError, vars, caches
<1>6. Informers => UNCHANGED cSvc \/ \E t \in Services : SyncService(t)
  BY DEF Informers, Resync, SyncBinding, SyncMapping, SyncGroup, CollectMapping, caches
<1>. QED  BY <1>1, <1>2, <1>3, <1>4, <1>5, <1>6 DEF Next

(* A copy is kept while a write of the list is left, or made from a cache.  *)
LEMMA TrimKeeps ==
    ASSUME NEW worker \in BindingWorkers
    PROVE  /\ Trim(worker).todo = worker.todo
           /\ Trim(worker).key = worker.key
           /\ worker.todo \cap ListWrites # {} => Trim(worker).svc = worker.svc
BY DEF Trim, BindingWorkers, ListWrites

LEMMA IdleChanges == ASSUME bw' = BindingIdle PROVE WorkerChanged
BY DEF BindingIdle, WorkerChanged

LEMMA AdvanceChanges ==
    ASSUME bw \in BindingWorkers, NEW w, NEW worker \in BindingWorkers, Advance(w, worker),
           worker.key = bw.key, worker.svc = bw.svc, worker.todo = bw.todo
    PROVE  WorkerChanged
<1> DEFINE next == [worker EXCEPT !.todo = @ \ {w}]
<1>1. next \in BindingWorkers /\ next.key = bw.key /\ next.svc = bw.svc
      /\ next.todo = bw.todo \ {w}
  BY DEF BindingWorkers
<1>2. CASE bw' = Trim(next)
  <2>1. bw'.todo = bw.todo \ {w} /\ bw'.key = bw.key
        /\ (bw'.todo \cap ListWrites # {} => bw'.svc = bw.svc)
    BY <1>1, <1>2, TrimKeeps
  <2>. QED  BY <2>1 DEF WorkerChanged
<1>. QED  BY <1>2, IdleChanges DEF Advance

LEMMA BeginChanges ==
    ASSUME CopyInv, NEW b \in Bindings, NEW writes \in SUBSET Writes, Begin(b, writes)
    PROVE  WorkerChanged
<1> DEFINE worker == [key |-> b, todo |-> writes, bnd |-> cBnd[b],
                      svc |-> cSvc[ServiceRef[b]], ports |-> cSvc[ServiceRef[b]].ports,
                      items |-> cPm[AddressGroupRef[b]].items]
<1>1. /\ cBnd[b] \in BindingObjects
      /\ cSvc[ServiceRef[b]] \in ServiceObjects
      /\ cPm[AddressGroupRef[b]] \in MappingObjects
  BY RefAssumption DEF CopyInv, TypeInv, TypeOK, CachesOK
<1>2. worker \in BindingWorkers
  BY <1>1 DEF BindingWorkers, ServiceObjects, MappingObjects
<1>3. CASE bw' = Trim(worker)
  <2>1. bw'.key = b /\ (bw'.todo \cap ListWrites # {} => bw'.svc = cSvc[ServiceRef[b]])
    BY <1>2, <1>3, TrimKeeps
  <2>. QED  BY <2>1 DEF WorkerChanged, Begin, store
<1>4. CASE bw' = bw
  BY <1>4 DEF WorkerChanged
<1>. QED  BY <1>3, <1>4 DEF Begin

LEMMA NextWorker ==
    ASSUME CopyInv, [Next]_vars
    PROVE  WorkerChanged
<1>1. bw' = bw => WorkerChanged
  BY DEF WorkerChanged
<1>2. ASSUME NEW b \in Bindings, BindingStart(b) PROVE WorkerChanged
  BY <1>2, BeginChanges
     DEF BindingStart, ReconcileGoneBinding, ReconcileNewBinding, reconcileDelete,
         ReconcileWithoutService, ReconcileWithoutGroup, reconcileNormal, Writes, Order
<1>3. BindingError => WorkerChanged
  BY IdleChanges DEF BindingError
<1>4. ASSUME NEW w, Advance(w, bw) PROVE WorkerChanged
  BY <1>4, AdvanceChanges DEF CopyInv, TypeInv, TypeOK, WorkersOK
<1>5. ASSUME NEW w, NEW new \in BindingObjects, NEW admitted, Due(w),
             UpdateBinding(w, new, admitted)
      PROVE  WorkerChanged
  <2> DEFINE copy   == Saved(bnd[bw.key], new)
             worker == [bw EXCEPT !.bnd = copy]
  <2>1. BindingError \/ Advance(w, worker)
    BY <1>5 DEF UpdateBinding
  <2>2. bw \in BindingWorkers /\ copy \in BindingObjects
    BY <1>5, DueKey, BindingTypes DEF CopyInv, BindingPart
  <2> HIDE DEF copy
  <2>3. worker \in BindingWorkers /\ worker.key = bw.key /\ worker.svc = bw.svc
        /\ worker.todo = bw.todo
    BY <2>2 DEF BindingWorkers
  <2>. QED  BY <1>3, <2>1, <2>2, <2>3, AdvanceChanges
<1>6. ASSUME AddFinalizer \/ AddOwners \/ SetReady PROVE WorkerChanged
  <2>1. ASSUME NEW w, Due(w) PROVE /\ [bw.bnd EXCEPT !.fin = TRUE] \in BindingObjects
                                   /\ [bw.bnd EXCEPT !.owned = TRUE] \in BindingObjects
                                   /\ [bw.bnd EXCEPT !.ready = "True"] \in BindingObjects
    BY <2>1, DueKey DEF CopyInv, BindingObjects, ReadyStates
  <2>. QED  BY <1>5, <1>6, <2>1 DEF AddFinalizer, AddOwners, SetReady
<1>7. ASSUME AddGroup \/ RemoveGroup PROVE WorkerChanged
  BY <1>3, <1>4, <1>7 DEF AddGroup, RemoveGroup, UpdateServiceGroups
<1>8. ASSUME CreateMapping \/ PutServiceEntry \/ RemoveServiceEntry PROVE WorkerChanged
  BY <1>3, <1>4, <1>8 DEF CreateMapping, PutServiceEntry, RemoveServiceEntry, PatchMapping
<1>9. ASSUME RemoveBindingFinalizer \/ ReportServiceNotFound \/ ReportAddressGroupNotFound
      PROVE  WorkerChanged
  BY <1>3, <1>9, IdleChanges DEF RemoveBindingFinalizer, ReportServiceNotFound,
     ReportAddressGroupNotFound, ReportMissing
<1>10. BindingReconciler => WorkerChanged
  BY <1>2, <1>6, <1>7, <1>8, <1>9 DEF BindingReconciler, BindingWrite
<1>11. FailedCall \/ Restart => WorkerChanged
  BY <1>1, <1>3, IdleChanges DEF FailedCall, Restart
<1>12. (Users \/ Informers \/ ServiceReconciler \/ MappingReconciler \/ UNCHANGED vars)
       => bw' = bw
  BY DEF Users, CreateService, UpdatePorts, DeleteService, CreateBinding, DeleteBinding,
         DeleteGroup, Request, Informers, ServiceReconciler, MappingReconciler, vars, workers
<1>. QED  BY <1>1, <1>10, <1>11, <1>12 DEF Next

---------------------------------------------------------------------------
LEMMA InitCopies == Init => CopyInv
<1>. SUFFICES ASSUME Init PROVE CopyInv
  OBVIOUS
<1>1. TypeInv
  BY InitTypeInv
<1>2. CachesFaithful
  BY <1>1, Typed DEF Init, CachesFaithful, Faithful, ServiceObjects
<1>3. WorkerFaithful
  BY DEF Init, BInit, WorkerFaithful, BindingIdle
<1>4. Unborn
  <2>1. ASSUME NEW s \in Services PROVE svc[s].rv = 0 => ~Present(svc[s])
    <3>1. svc[s] = ExistingService(s) \/ svc[s] = NoService
      BY DEF Init
    <3>2. ExistingService(s).rv = 1 /\ NoService.phase = "absent"
      BY DEF ExistingService, NoService
    <3>. QED  BY <3>1, <3>2 DEF Present
  <2>. QED  BY <2>1 DEF Unborn
<1>. QED  BY <1>1, <1>2, <1>3, <1>4 DEF CopyInv

(* A faithful copy stays faithful: a write makes a version no copy has.     *)
LEMMA StaysFaithful ==
    ASSUME TypeInv, NEW s \in Services, NEW copy \in ServiceObjects, Faithful(copy, svc[s]),
           Changed(s)
    PROVE  Faithful(copy, svc'[s])
<1>1. svc[s].rv \in Nat /\ copy.rv \in Nat
  BY Typed DEF ServiceObjects
<1>. QED  BY <1>1 DEF Changed, Faithful

LEMMA NextCopies == CopyInv /\ [Next]_vars => CopyInv'
<1>. SUFFICES ASSUME CopyInv, [Next]_vars PROVE CopyInv'
  OBVIOUS
<1>1. TypeInv'
  BY NextTypeInv DEF CopyInv
<1>2. /\ \A s \in Services : Changed(s) /\ CacheChanged(s)
      /\ WorkerChanged
  BY NextChanges, NextCaches, NextWorker
<1>3. ASSUME NEW s \in Services PROVE Faithful(cSvc'[s], svc'[s])
  <2>1. Faithful(cSvc[s], svc'[s])
    BY <1>2, Typed, StaysFaithful DEF CopyInv, CachesFaithful
  <2>2. svc'[s].rv \in Nat
    BY <1>1 DEF TypeInv, TypeOK, StoreOK, ServiceObjects
  <2>. QED  BY <1>2, <2>1, <2>2 DEF CacheChanged, Faithful
<1>4. WorkerFaithful'
  <2>. SUFFICES ASSUME bw'.todo \cap ListWrites # {}
                PROVE  Faithful(bw'.svc, svc'[ServiceRef[bw'.key]])
    BY DEF WorkerFaithful
  <2>1. CASE bw'.key = bw.key /\ bw'.svc = bw.svc /\ bw'.todo \subseteq bw.todo
    <3>1. bw.todo \cap ListWrites # {} /\ bw # BindingIdle
      BY <2>1 DEF BindingIdle
    <3>2. /\ ServiceRef[bw.key] \in Services /\ bw.svc \in ServiceObjects
          /\ Faithful(bw.svc, svc[ServiceRef[bw.key]])
      BY <3>1, RefAssumption
         DEF CopyInv, WorkerFaithful, TypeInv, TypeOK, KeysOK, WorkersOK, BindingWorkers
    <3>. QED  BY <1>2, <2>1, <3>2, StaysFaithful DEF CopyInv
  <2>2. CASE /\ bw'.key \in Bindings /\ bw'.svc = cSvc[ServiceRef[bw'.key]]
             /\ UNCHANGED svc
    BY <2>2, RefAssumption DEF CopyInv, CachesFaithful
  <2>. QED  BY <1>2, <2>1, <2>2 DEF WorkerChanged
<1>5. Unborn'
  <2>1. ASSUME NEW s \in Services, svc'[s].rv = 0 PROVE ~Present(svc'[s])
    <3>1. svc[s].rv \in Nat
      BY Typed DEF CopyInv, ServiceObjects
    <3>2. svc'[s] = svc[s]
      BY <1>2, <2>1, <3>1 DEF Changed
    <3>. QED  BY <2>1, <3>2 DEF CopyInv, Unborn
  <2>. QED  BY <2>1 DEF Unborn, Present
<1>. QED  BY <1>1, <1>3, <1>4, <1>5 DEF CopyInv, CachesFaithful

---------------------------------------------------------------------------
(* No write of the controllers reverts the ports that users declared, not    *)
(* even AddGroup and RemoveGroup, which store the whole Service they read.   *)
THEOREM PortsAreTheUsersHolds == Spec => PortsAreTheUsers
<1> DEFINE Step == \A s \in Services : Present(svc[s]) /\ svc'[s].ports # svc[s].ports
                     => ops' = ops + 1 \/ ~Present(svc'[s])
<1>1. CopyInv /\ [Next]_vars => [Step]_vars
  BY NextChanges DEF Changed, CopyInv, Unborn
<1>. QED  BY <1>1, InitCopies, NextCopies, PTL DEF Spec, PortsAreTheUsers

(* A step adds or removes one group of a live service at most: a write from  *)
(* a stale copy of AddressGroups, which would drop another, is refused.      *)
THEOREM NoLostGroupHolds == Spec => NoLostGroup
<1> DEFINE Step == \A s \in Services :
                     svc[s].phase = "live" /\ svc'[s].phase = "live"
                       /\ svc'[s].groups # svc[s].groups
                     => \E b \in Bindings :
                          /\ ServiceRef[b] = s
                          /\ \/ svc'[s].groups = svc[s].groups \cup {AddressGroupRef[b]}
                             \/ svc'[s].groups = svc[s].groups \ {AddressGroupRef[b]}
<1>1. CopyInv /\ [Next]_vars => [Step]_vars
  <2>. SUFFICES ASSUME CopyInv, [Next]_vars, NEW s \in Services,
                       svc[s].phase = "live", svc'[s].phase = "live",
                       svc'[s].groups # svc[s].groups
                PROVE  OneGroup(s)
    BY DEF OneGroup
  <2>1. Changed(s)
    BY NextChanges
  <2>2. Present(svc'[s]) /\ Present(svc[s])
    BY DEF Present
  <2>3. svc[s].rv # 0
    BY <2>2 DEF CopyInv, Unborn
  <2>. QED  BY <2>1, <2>2, <2>3 DEF Changed
<1>. QED  BY <1>1, InitCopies, NextCopies, PTL DEF Spec, NoLostGroup

---------------------------------------------------------------------------
(* What the lock of a binding is worth.  A binding's name is used again: a   *)
(* reconcile may still hold the deleted binding of that name while a new     *)
(* one is stored, and ends by removing "its" finalizer.  The lock refuses    *)
(* that, because the copy it was decided on was being deleted and the        *)
(* stored object is another version.                                       *)

BindingCachesFaithful == \A b \in Bindings : Faithful(cBnd[b], bnd[b])

BindingCopyFaithful == bw # BindingIdle => Faithful(bw.bnd, bnd[bw.key])

(* A service that is going or gone, for good: a name of a service is used    *)
(* once.                                                                   *)
Doomed(s) == svc[s].rv # 0 /\ svc[s].phase # "live"

(* Who removes a finalizer holds a copy being deleted, who deletes bindings  *)
(* does so for their service, on its way out.                              *)
RemovesDeleted == "RemoveFinalizer" \in bw.todo => bw.bnd.phase = "deleting"

CachedDoomed == \A s \in Services : cSvc[s].phase = "deleting" => Doomed(s)

DeletesItsOwn ==
    sw.pc = "DeleteBindings" => /\ Doomed(sw.key)
                                /\ \A b \in sw.bindings : ServiceRef[b] = sw.key

StayInv ==
    /\ CopyInv
    /\ BindingCachesFaithful /\ BindingCopyFaithful /\ RemovesDeleted
    /\ CachedDoomed /\ DeletesItsOwn

(* What a step may do to a binding, and what it may make of its copies.      *)
Stays(b) ==
    bnd[b].phase = "live"
    => bnd'[b].phase = "live" \/ ops' = ops + 1 \/ svc[ServiceRef[b]].phase # "live"

BindingChanged(b) == bnd'[b] = bnd[b] \/ (bnd'[b].rv = bnd[b].rv + 1 /\ Stays(b))

BindingCacheChanged(b) == cBnd'[b] = cBnd[b] \/ cBnd'[b] = bnd'[b]

Continues ==
    /\ bw # BindingIdle
    /\ bw'.key = bw.key /\ bw'.todo \subseteq bw.todo
    /\ bw'.bnd.phase = bw.bnd.phase
    /\ bw'.bnd \in {bw.bnd, bnd'[bw.key]}
    /\ bw'.svc \in {bw.svc, NoService} /\ bw'.items \in {bw.items, NoItems}

Begins ==
    /\ bw'.key \in Bindings /\ Present(cBnd[bw'.key]) /\ UNCHANGED bnd
    /\ bw'.bnd = cBnd[bw'.key]
    /\ bw'.svc \in {cSvc[ServiceRef[bw'.key]], NoService}
    /\ bw'.items \in {cPm[AddressGroupRef[bw'.key]].items, NoItems}
    /\ "RemoveFinalizer" \in bw'.todo => cBnd[bw'.key].phase = "deleting"

CopyChanged == bw' = BindingIdle \/ Continues \/ Begins

LEMMA TypedBinding ==
    ASSUME TypeInv, NEW b \in Bindings
    PROVE  /\ bnd[b] \in BindingObjects /\ cBnd[b] \in BindingObjects
           /\ DOMAIN bnd = Bindings /\ DOMAIN cBnd = Bindings
BY DEF TypeInv, TypeOK, StoreOK, CachesOK

LEMMA SavedBindingIs ==
    ASSUME NEW o \in BindingObjects, NEW new \in BindingObjects
    PROVE  /\ Saved(o, new).phase = new.phase
           /\ Saved(o, new) = o \/ Saved(o, new).rv = o.rv + 1
<1>1. CASE [new EXCEPT !.rv = o.rv] = o
  <2>1. [new EXCEPT !.rv = o.rv].phase = new.phase
    BY DEF BindingObjects
  <2>. QED  BY <1>1, <2>1 DEF Saved
<1>2. CASE [new EXCEPT !.rv = o.rv] # o
  BY <1>2 DEF Saved, BindingObjects
<1>. QED  BY <1>1, <1>2

LEMMA DeletedBindingIs ==
    ASSUME NEW o \in BindingObjects
    PROVE  /\ RemovedBinding(o).rv = o.rv + 1
           /\ DeletedBinding(o) = o \/ DeletedBinding(o).rv = o.rv + 1
<1>1. RemovedBinding(o).rv = o.rv + 1
  BY DEF RemovedBinding, NoBinding
<1>2. CASE o.phase = "deleting"
  BY <1>1, <1>2 DEF DeletedBinding
<1>3. CASE o.phase # "deleting" /\ o.fin
  BY <1>1, <1>3 DEF DeletedBinding, BindingObjects
<1>4. CASE o.phase # "deleting" /\ ~o.fin
  BY <1>1, <1>4 DEF DeletedBinding
<1>. QED  BY <1>1, <1>2, <1>3, <1>4

(* Only one binding is written in a step.                                   *)
LEMMA OneBindingWritten ==
    ASSUME TypeInv, NEW c \in Bindings, NEW new, bnd' = [bnd EXCEPT ![c] = new],
           BindingChanged(c)
    PROVE  \A b \in Bindings : BindingChanged(b)
<1>1. \A b \in Bindings \ {c} : bnd'[b] = bnd[b]
  BY TypedBinding
<1>. QED  BY <1>1 DEF BindingChanged, Stays

LEMMA NoBindingWritten ==
    ASSUME UNCHANGED bnd
    PROVE  \A b \in Bindings : BindingChanged(b)
BY DEF BindingChanged, Stays

(* A binding that the lock accepts keeps its phase.                         *)
LEMMA LockedWrite ==
    ASSUME StayInv, NEW w, Due(w), NEW new \in BindingObjects, new.phase = bw.bnd.phase,
           Accepts(bnd[bw.key], bw.bnd), bnd' = [bnd EXCEPT ![bw.key] = Saved(@, new)]
    PROVE  \A b \in Bindings : BindingChanged(b)
<1> DEFINE b == bw.key
<1>1. b \in Bindings /\ bw # BindingIdle
  BY DueKey DEF StayInv, CopyInv, Due, BindingIdle
<1>2. bnd[b] \in BindingObjects /\ DOMAIN bnd = Bindings
  BY <1>1, TypedBinding DEF StayInv, CopyInv
<1>3. bw.bnd = bnd[b]
  BY <1>1 DEF StayInv, BindingCopyFaithful, Faithful, Accepts
<1>4. bnd'[b] = Saved(bnd[b], new)
  BY <1>1, <1>2
<1>5. BindingChanged(b)
  BY <1>2, <1>3, <1>4, SavedBindingIs DEF BindingChanged, Stays
<1>. QED  BY <1>1, <1>2, <1>5, OneBindingWritten DEF StayInv, CopyInv

(* The copies of a binding that its worker's updates store.                 *)
LEMMA NewBindings ==
    ASSUME TypeInv, NEW w, Due(w), NEW ready \in ReadyStates
    PROVE  \A new \in {[bw.bnd EXCEPT !.fin = TRUE], [bw.bnd EXCEPT !.owned = TRUE],
                       [bw.bnd EXCEPT !.ready = ready]} :
             new \in BindingObjects /\ new.phase = bw.bnd.phase
BY DueKey DEF BindingObjects

LEMMA BindingStays ==
    ASSUME StayInv, BindingReconciler
    PROVE  \A b \in Bindings : BindingChanged(b)
<1>1. CASE UNCHANGED bnd
  BY <1>1, NoBindingWritten
<1>2. TypeInv /\ "True" \in ReadyStates
  BY DEF StayInv, CopyInv, ReadyStates
<1>3. ASSUME AddFinalizer \/ AddOwners \/ SetReady, ~BindingError
      PROVE  \A b \in Bindings : BindingChanged(b)
  <2> DEFINE Stored(w, new) == /\ Due(w) /\ Accepts(bnd[bw.key], bw.bnd)
                               /\ bnd' = [bnd EXCEPT ![bw.key] = Saved(@, new)]
  <2>0. \/ Stored("AddFinalizer", [bw.bnd EXCEPT !.fin = TRUE])
        \/ Stored("AddOwners", [bw.bnd EXCEPT !.owned = TRUE])
        \/ Stored("SetReady", [bw.bnd EXCEPT !.ready = "True"])
    BY <1>3 DEF AddFinalizer, AddOwners, SetReady, UpdateBinding
  <2>1. ASSUME NEW w, NEW new \in {[bw.bnd EXCEPT !.fin = TRUE], [bw.bnd EXCEPT !.owned = TRUE],
                                   [bw.bnd EXCEPT !.ready = "True"]}, Stored(w, new)
        PROVE  \A b \in Bindings : BindingChanged(b)
    <3>1. new \in BindingObjects /\ new.phase = bw.bnd.phase
      BY <1>2, <2>1, NewBindings
    <3>. QED  BY <2>1, <3>1, LockedWrite
  <2>. QED  BY <2>0, <2>1
<1>4. ASSUME ReportServiceNotFound \/ ReportAddressGroupNotFound, ~BindingError
      PROVE  \A b \in Bindings : BindingChanged(b)
  <2>1. PICK w, ready \in {"ServiceNotFound", "AddressGroupNotFound", bw.bnd.ready} :
          /\ Due(w) /\ Accepts(bnd[bw.key], bw.bnd)
          /\ bnd' = [bnd EXCEPT ![bw.key] = Saved(@, [bw.bnd EXCEPT !.ready = ready])]
    BY <1>4 DEF ReportServiceNotFound, ReportAddressGroupNotFound, ReportMissing
  <2>2. ready \in ReadyStates
    BY <1>2, <2>1, DueKey DEF ReadyStates, BindingObjects
  <2>3. /\ [bw.bnd EXCEPT !.ready = ready] \in BindingObjects
        /\ [bw.bnd EXCEPT !.ready = ready].phase = bw.bnd.phase
    BY <1>2, <2>1, <2>2, NewBindings
  <2>. QED  BY <2>1, <2>3, LockedWrite
<1>5. ASSUME RemoveBindingFinalizer, ~BindingError PROVE \A b \in Bindings : BindingChanged(b)
  <2> DEFINE b == bw.key
  <2>1. /\ Due("RemoveFinalizer") /\ Accepts(bnd[b], bw.bnd)
        /\ bnd' = [bnd EXCEPT ![b] = RemovedBinding(bnd[b])]
    BY <1>5 DEF RemoveBindingFinalizer
  <2>2. b \in Bindings /\ bnd[b] \in BindingObjects /\ DOMAIN bnd = Bindings
    BY <1>2, <2>1, DueKey, TypedBinding
  <2>3. bw.bnd = bnd[b] /\ bw.bnd.phase = "deleting"
    <3>1. "RemoveFinalizer" \in bw.todo /\ bw # BindingIdle
      BY <2>1 DEF Due, BindingIdle
    <3>. QED  BY <2>1, <3>1 DEF StayInv, BindingCopyFaithful, RemovesDeleted, Faithful, Accepts
  <2>4. bnd'[b] = RemovedBinding(bnd[b])
    BY <2>1, <2>2
  <2>5. BindingChanged(b)
    BY <2>2, <2>3, <2>4, DeletedBindingIs DEF BindingChanged, Stays
  <2>. QED  BY <1>2, <2>1, <2>2, <2>5, OneBindingWritten
<1>6. BindingError => UNCHANGED bnd
  BY DEF BindingError, store
<1>7. (\E b \in Bindings : BindingStart(b)) => UNCHANGED bnd
  BY DEF BindingStart, ReconcileGoneBinding, ReconcileNewBinding, reconcileDelete,
         ReconcileWithoutService, ReconcileWithoutGroup, reconcileNormal, Begin, store
<1>8. (AddGroup \/ RemoveGroup \/ CreateMapping \/ PutServiceEntry \/ RemoveServiceEntry)
      => UNCHANGED bnd
  BY <1>6 DEF AddGroup, RemoveGroup, UpdateServiceGroups, CreateMapping, PutServiceEntry,
              RemoveServiceEntry, PatchMapping
<1>. QED
  BY <1>1, <1>3, <1>4, <1>5, <1>6, <1>7, <1>8 DEF BindingReconciler, BindingWrite

LEMMA NextStays ==
    ASSUME StayInv, [Next]_vars
    PROVE  \A b \in Bindings : BindingChanged(b)
<1>1. CASE UNCHANGED bnd
  BY <1>1, NoBindingWritten
<1>2. TypeInv
  BY DEF StayInv, CopyInv
<1>3. ASSUME DeleteOneBinding, ~ServiceError PROVE \A b \in Bindings : BindingChanged(b)
  <2>1. PICK b \in sw.bindings : /\ sw.pc = "DeleteBindings"
                                 /\ bnd' = [bnd EXCEPT ![b] = DeletedBinding(bnd[b])]
    BY <1>3 DEF DeleteOneBinding
  <2>2. b \in Bindings /\ bnd[b] \in BindingObjects /\ DOMAIN bnd = Bindings
    BY <1>2, <2>1, TypedBinding DEF TypeInv, TypeOK, WorkersOK, ServiceWorkers
  <2>3. bnd'[b] = DeletedBinding(bnd[b])
    BY <2>1, <2>2
  <2>4. svc[ServiceRef[b]].phase # "live"
    BY <2>1 DEF StayInv, DeletesItsOwn, Doomed
  <2>5. BindingChanged(b)
    BY <2>2, <2>3, <2>4, DeletedBindingIs DEF BindingChanged, Stays
  <2>. QED  BY <1>2, <2>1, <2>2, <2>5, OneBindingWritten
<1>4. ServiceReconciler => UNCHANGED bnd \/ (DeleteOneBinding /\ ~ServiceError)
  <2>1. ServiceError => UNCHANGED bnd
    BY DEF ServiceError, store
  <2>. QED
    BY <2>1 DEF ServiceReconciler, ReconcileService, ServiceStep, EnsureServiceFinalizer,
       SetServiceReady, BindingsDeleted, ReadMapping, PatchServiceEntry,
       RemoveServiceFinalizer, store
<1>5. ASSUME NEW b \in Bindings, CreateBinding(b) \/ DeleteBinding(b)
      PROVE  \A c \in Bindings : BindingChanged(c)
  <2>1. bnd[b] \in BindingObjects /\ DOMAIN bnd = Bindings
    BY <1>2, TypedBinding
  <2>2. PICK new : bnd' = [bnd EXCEPT ![b] = new] /\ (new = bnd[b] \/ new.rv = bnd[b].rv + 1)
    BY <1>5, <2>1, DeletedBindingIs DEF CreateBinding, DeleteBinding, NoBinding
  <2>3. ops' = ops + 1
    BY <1>5 DEF CreateBinding, DeleteBinding, Request
  <2>4. BindingChanged(b)
    BY <2>1, <2>2, <2>3 DEF BindingChanged, Stays
  <2>. QED  BY <1>2, <2>2, <2>4, OneBindingWritten
<1>6. Users => UNCHANGED bnd \/ \E b \in Bindings : CreateBinding(b) \/ DeleteBinding(b)
  BY DEF Users, CreateService, UpdatePorts, DeleteService, DeleteGroup
<1>7. (Informers \/ MappingReconciler \/ FailedCall \/ Restart \/ UNCHANGED vars)
      => UNCHANGED bnd
  BY MappingFrame DEF Informers, Resync, SyncService, SyncBinding, SyncMapping, SyncGroup,
     CollectMapping, MappingReconciler, FailedCall, BindingError, ServiceError,
     MappingError, Restart, vars, store
<1>. QED  BY <1>1, <1>3, <1>4, <1>5, <1>6, <1>7, BindingStays DEF Next

---------------------------------------------------------------------------
(* The copies of bindings.                                                 *)
LEMMA NextBindingCaches ==
    ASSUME StayInv, [Next]_vars
    PROVE  \A b \in Bindings : BindingCacheChanged(b)
<1>1. CASE UNCHANGED cBnd
  BY <1>1 DEF BindingCacheChanged
<1>2. ASSUME NEW c \in Bindings, SyncBinding(c) PROVE \A b \in Bindings : BindingCacheChanged(b)
  BY <1>2, TypedBinding DEF SyncBinding, store, BindingCacheChanged, StayInv, CopyInv
<1>3. CASE Restart
  BY <1>3 DEF Restart, BindingCacheChanged
<1>4. (BindingReconciler \/ ServiceReconciler \/ MappingReconciler) => UNCHANGED cBnd
  BY BindingFrame, ServiceFrame, MappingFrame
     DEF BindingReconciler, ServiceReconciler, MappingReconciler, caches
<1>5. (Users \/ FailedCall \/ UNCHANGED vars) => UNCHANGED cBnd
  BY DEF Users, CreateService, UpdatePorts, DeleteService, CreateBinding, DeleteBinding,
         DeleteGroup, Request, FailedCall, BindingError, ServiceError, MappingError, vars, caches
<1>6. Informers => UNCHANGED cBnd \/ \E b \in Bindings : SyncBinding(b)
  BY DEF Informers, Resync, SyncService, SyncMapping, SyncGroup, CollectMapping, caches
<1>. QED  BY <1>1, <1>2, <1>3, <1>4, <1>5, <1>6 DEF Next

LEMMA AdvanceContinues ==
    ASSUME bw \in BindingWorkers, bw # BindingIdle, NEW w, NEW worker \in BindingWorkers,
           Advance(w, worker), worker.key = bw.key, worker.todo = bw.todo,
           worker.svc = bw.svc, worker.items = bw.items,
           worker.bnd.phase = bw.bnd.phase, worker.bnd \in {bw.bnd, bnd'[bw.key]}
    PROVE  CopyChanged
<1> DEFINE next == [worker EXCEPT !.todo = @ \ {w}]
<1>1. next \in BindingWorkers /\ next.key = bw.key /\ next.bnd = worker.bnd
      /\ next.todo = bw.todo \ {w} /\ next.svc = bw.svc /\ next.items = bw.items
  BY DEF BindingWorkers
<1>2. CASE bw' = Trim(next)
  <2>1. /\ bw'.todo = bw.todo \ {w} /\ bw'.key = bw.key /\ bw'.bnd = worker.bnd
        /\ bw'.svc \in {bw.svc, NoService} /\ bw'.items \in {bw.items, NoItems}
    BY <1>1, <1>2 DEF Trim, BindingWorkers
  <2>. QED  BY <2>1 DEF CopyChanged, Continues
<1>. QED  BY <1>2 DEF Advance, CopyChanged

LEMMA BeginBegins ==
    ASSUME StayInv, NEW b \in Bindings, NEW writes \in SUBSET Writes, Begin(b, writes),
           "RemoveFinalizer" \in writes => cBnd[b].phase = "deleting",
           writes # {} => Present(cBnd[b])
    PROVE  CopyChanged
<1> DEFINE worker == [key |-> b, todo |-> writes, bnd |-> cBnd[b],
                      svc |-> cSvc[ServiceRef[b]], ports |-> cSvc[ServiceRef[b]].ports,
                      items |-> cPm[AddressGroupRef[b]].items]
<1>1. CASE bw' = Trim(worker) /\ writes # {}
  <2>1. /\ bw'.key = b /\ bw'.bnd = cBnd[b] /\ bw'.todo = writes
        /\ bw'.svc \in {cSvc[ServiceRef[b]], NoService}
        /\ bw'.items \in {cPm[AddressGroupRef[b]].items, NoItems}
    BY <1>1 DEF Trim
  <2>. QED  BY <2>1 DEF CopyChanged, Begins, Begin, store
<1>2. CASE bw' = bw
  BY <1>2 DEF CopyChanged, Begin
<1>. QED  BY <1>1, <1>2 DEF Begin

LEMMA NextCopy ==
    ASSUME StayInv, [Next]_vars
    PROVE  CopyChanged
<1>1. bw' = bw => CopyChanged
  BY DEF CopyChanged, Continues
<1>2. ASSUME NEW b \in Bindings, BindingStart(b) PROVE CopyChanged
  BY <1>2, BeginBegins
     DEF BindingStart, ReconcileGoneBinding, ReconcileNewBinding, reconcileDelete,
         ReconcileWithoutService, ReconcileWithoutGroup, reconcileNormal, Writes, Order,
         Reconcilable, Present
<1>3. BindingError => CopyChanged
  BY DEF BindingError, CopyChanged
<1>4. bw \in BindingWorkers /\ \A w : Due(w) => bw # BindingIdle
  BY DEF StayInv, CopyInv, TypeInv, TypeOK, WorkersOK, Due, BindingIdle
<1>5. ASSUME NEW w, Due(w), Advance(w, bw) PROVE CopyChanged
  BY <1>4, <1>5, AdvanceContinues
<1>6. ASSUME NEW w, NEW new \in BindingObjects, new.phase = bw.bnd.phase, NEW admitted, Due(w),
             UpdateBinding(w, new, admitted), ~BindingError
      PROVE  CopyChanged
  <2> DEFINE copy   == Saved(bnd[bw.key], new)
             worker == [bw EXCEPT !.bnd = copy]
  <2>1. bnd' = [bnd EXCEPT ![bw.key] = copy] /\ Advance(w, worker)
    BY <1>6 DEF UpdateBinding
  <2>2. bw.key \in Bindings /\ bnd[bw.key] \in BindingObjects /\ DOMAIN bnd = Bindings
    BY <1>6, DueKey, TypedBinding DEF StayInv, CopyInv
  <2>3. copy \in BindingObjects /\ copy.phase = bw.bnd.phase
    BY <1>6, <2>2, BindingTypes, SavedBindingIs
  <2>4. copy = bnd'[bw.key]
    BY <2>1, <2>2
  <2> HIDE DEF copy
  <2>5. worker \in BindingWorkers /\ worker.key = bw.key /\ worker.bnd = copy
        /\ worker.todo = bw.todo /\ worker.svc = bw.svc /\ worker.items = bw.items
    BY <1>4, <2>3 DEF BindingWorkers
  <2>. QED  BY <1>4, <1>6, <2>1, <2>3, <2>4, <2>5, AdvanceContinues
<1>7. ASSUME AddFinalizer \/ AddOwners \/ SetReady PROVE CopyChanged
  <2>1. TypeInv /\ "True" \in ReadyStates
    BY DEF StayInv, CopyInv, ReadyStates
  <2>2. ASSUME NEW w, Due(w)
        PROVE  \A new \in {[bw.bnd EXCEPT !.fin = TRUE], [bw.bnd EXCEPT !.owned = TRUE],
                           [bw.bnd EXCEPT !.ready = "True"]} :
                 new \in BindingObjects /\ new.phase = bw.bnd.phase
    BY <2>1, <2>2, NewBindings
  <2>. QED  BY <1>3, <1>6, <1>7, <2>2 DEF AddFinalizer, AddOwners, SetReady
<1>8. ASSUME AddGroup \/ RemoveGroup PROVE CopyChanged
  BY <1>3, <1>5, <1>8 DEF AddGroup, RemoveGroup, UpdateServiceGroups
<1>9. ASSUME CreateMapping \/ PutServiceEntry \/ RemoveServiceEntry PROVE CopyChanged
  BY <1>3, <1>5, <1>9 DEF CreateMapping, PutServiceEntry, RemoveServiceEntry, PatchMapping
<1>10. ASSUME RemoveBindingFinalizer \/ ReportServiceNotFound \/ ReportAddressGroupNotFound
       PROVE  CopyChanged
  BY <1>3, <1>10 DEF RemoveBindingFinalizer, ReportServiceNotFound,
     ReportAddressGroupNotFound, ReportMissing, CopyChanged
<1>11. BindingReconciler => CopyChanged
  BY <1>2, <1>7, <1>8, <1>9, <1>10 DEF BindingReconciler, BindingWrite
<1>12. FailedCall \/ Restart => CopyChanged
  BY <1>1, <1>3 DEF FailedCall, Restart, CopyChanged
<1>13. (Users \/ Informers \/ ServiceReconciler \/ MappingReconciler \/ UNCHANGED vars)
       => bw' = bw
  BY DEF Users, CreateService, UpdatePorts, DeleteService, CreateBinding, DeleteBinding,
         DeleteGroup, Request, Informers, ServiceReconciler, MappingReconciler, vars, workers
<1>. QED  BY <1>1, <1>11, <1>12, <1>13 DEF Next

---------------------------------------------------------------------------
(* The service worker: a reconcile goes on with the groups and bindings it   *)
(* has, or begins with those of a cached service; it deletes the bindings    *)
(* of a service that it read as being deleted.                             *)
GoesOn ==
    /\ sw # ServiceIdle
    /\ sw'.key = sw.key /\ sw'.svc \in {sw.svc, NoService}
    /\ sw'.groups \subseteq sw.groups \cup sw.svc.groups
    /\ sw'.pc = "DeleteBindings" => sw.pc = "DeleteBindings" /\ sw'.bindings \subseteq sw.bindings
    /\ sw'.pc = "Patch" =>
         /\ sw'.group \in sw'.groups
         /\ \/ sw.pc = "Patch" /\ sw'.group = sw.group /\ sw'.items = sw.items
            \/ sw'.items = cPm[sw'.group].items

StartsWith(s) ==
    /\ sw'.key = s /\ sw'.svc \in {cSvc[s], NoService}
    /\ sw'.groups \subseteq cSvc[s].groups
    /\ sw'.pc # "Patch"
    /\ sw'.pc = "DeleteBindings" => /\ cSvc[s].phase = "deleting"
                                   /\ sw'.bindings = findBindingsForService(s)

ServiceCopyChanged ==
    sw' = ServiceIdle \/ sw' = sw \/ GoesOn \/ \E s \in Services : StartsWith(s)

LEMMA VisitingIs ==
    ASSUME NEW worker \in ServiceWorkers, NEW groups, NEW next, next = Visiting(worker, groups)
    PROVE  \/ next = ServiceIdle
           \/ /\ next.key = worker.key /\ next.svc = worker.svc
              /\ next.groups \subseteq groups
              /\ next.pc \in {"Mappings", "RemoveFinalizer"}
BY DEF Visiting, ServiceWorkers

LEMMA DispatchStarts ==
    ASSUME NEW s \in Services, cSvc[s] \in ServiceObjects, sw' = Dispatch(s, cSvc[s])
    PROVE  ServiceCopyChanged
<1>1. CASE cSvc[s].phase = "deleting"
  BY <1>1 DEF Dispatch, ServiceIdle, StartsWith, ServiceCopyChanged
<1>2. CASE cSvc[s].phase # "deleting" /\ ~cSvc[s].ready
  BY <1>2 DEF Dispatch, ServiceIdle, StartsWith, ServiceCopyChanged
<1>3. CASE cSvc[s].phase # "deleting" /\ cSvc[s].ready
  <2> DEFINE worker == [ServiceIdle EXCEPT !.key = s, !.ports = cSvc[s].ports]
             groups == IF cSvc[s].ports = {} THEN {} ELSE cSvc[s].groups
  <2>1. worker \in ServiceWorkers /\ worker.key = s /\ worker.svc = NoService
    BY IdleTypes DEF ServiceWorkers, ServiceObjects, ServiceIdle
  <2>2. sw' = Visiting(worker, groups) /\ groups \subseteq cSvc[s].groups
    BY <1>3 DEF Dispatch, UpdateMappings
  <2> HIDE DEF worker, groups
  <2>3. \/ sw' = ServiceIdle
        \/ /\ sw'.key = s /\ sw'.svc = NoService /\ sw'.groups \subseteq cSvc[s].groups
           /\ sw'.pc \in {"Mappings", "RemoveFinalizer"}
    BY <2>1, <2>2, VisitingIs
  <2>. QED  BY <2>3 DEF StartsWith, ServiceCopyChanged
<1>. QED  BY <1>1, <1>2, <1>3

LEMMA VisitingGoesOn ==
    ASSUME sw \in ServiceWorkers, sw # ServiceIdle, NEW worker \in ServiceWorkers,
           worker.key = sw.key, worker.svc \in {sw.svc, NoService},
           NEW groups \in SUBSET (sw.groups \cup sw.svc.groups), sw' = Visiting(worker, groups)
    PROVE  ServiceCopyChanged
<1>1. \/ sw' = ServiceIdle
      \/ /\ sw'.key = sw.key /\ sw'.svc \in {sw.svc, NoService}
         /\ sw'.groups \subseteq sw.groups \cup sw.svc.groups
         /\ sw'.pc \in {"Mappings", "RemoveFinalizer"}
  BY VisitingIs
<1>. QED  BY <1>1 DEF ServiceCopyChanged, GoesOn

LEMMA NextServiceCopy ==
    ASSUME TypeInv, [Next]_vars
    PROVE  ServiceCopyChanged
<1>1. sw' = sw \/ sw' = ServiceIdle => ServiceCopyChanged
  BY DEF ServiceCopyChanged
<1>2. sw \in ServiceWorkers /\ (sw.pc # "Idle" => sw # ServiceIdle /\ sw.key \in Services)
  BY DEF TypeInv, TypeOK, KeysOK, WorkersOK, ServiceIdle
<1>3. \A s \in Services : cSvc[s] \in ServiceObjects
  BY Typed
<1>4. ASSUME NEW s \in Services, ReconcileService(s) PROVE ServiceCopyChanged
  <2>1. CASE sw' = [ServiceIdle EXCEPT !.key = s, !.pc = "EnsureFinalizer"]
    BY <2>1 DEF ServiceIdle, StartsWith, ServiceCopyChanged
  <2>. QED  BY <1>1, <1>3, <1>4, <2>1, DispatchStarts DEF ReconcileService
<1>5. ServiceError => ServiceCopyChanged
  BY <1>1 DEF ServiceError
<1>6. CASE EnsureServiceFinalizer
  BY <1>1, <1>2, <1>3, <1>5, <1>6, DispatchStarts DEF EnsureServiceFinalizer
<1>7. ASSUME SetServiceReady, ~ServiceError PROVE ServiceCopyChanged
  <2> DEFINE worker == [ServiceIdle EXCEPT !.key = sw.key, !.ports = sw.svc.ports]
             groups == IF sw.svc.ports = {} THEN {} ELSE sw.svc.groups
  <2>1. worker \in ServiceWorkers /\ worker.key = sw.key /\ worker.svc = NoService
    BY <1>2, <1>7, IdleTypes DEF SetServiceReady, ServiceWorkers, ServiceObjects, ServiceIdle
  <2>2. sw' = Visiting(worker, groups) /\ groups \in SUBSET (sw.groups \cup sw.svc.groups)
    BY <1>7 DEF SetServiceReady, UpdateMappings
  <2>3. sw # ServiceIdle
    BY <1>2, <1>7 DEF SetServiceReady
  <2> HIDE DEF worker, groups
  <2>. QED  BY <1>2, <2>1, <2>2, <2>3, VisitingGoesOn
<1>8. ASSUME DeleteOneBinding, ~ServiceError PROVE ServiceCopyChanged
  <2>1. PICK b : sw' = [sw EXCEPT !.bindings = @ \ {b}] /\ sw.pc = "DeleteBindings"
    BY <1>8 DEF DeleteOneBinding
  <2>2. /\ sw # ServiceIdle /\ sw'.key = sw.key /\ sw'.svc = sw.svc /\ sw'.groups = sw.groups
        /\ sw'.bindings = sw.bindings \ {b} /\ sw'.pc = "DeleteBindings"
    BY <1>2, <2>1 DEF ServiceWorkers
  <2>. QED  BY <2>1, <2>2 DEF GoesOn, ServiceCopyChanged
<1>9. CASE BindingsDeleted
  BY <1>2, <1>9, VisitingGoesOn DEF BindingsDeleted
<1>10. CASE ReadMapping
  <2>1. PICK g \in sw.groups :
           \/ sw' = [sw EXCEPT !.pc = "Patch", !.group = g, !.items = cPm[g].items]
           \/ sw' = Visiting(sw, sw.groups \ {g})
    BY <1>10 DEF ReadMapping
  <2>2. sw # ServiceIdle
    BY <1>2, <1>10 DEF ReadMapping
  <2>3. CASE sw' = [sw EXCEPT !.pc = "Patch", !.group = g, !.items = cPm[g].items]
    <3>1. /\ sw'.key = sw.key /\ sw'.svc = sw.svc /\ sw'.groups = sw.groups
          /\ sw'.pc = "Patch" /\ sw'.group = g /\ sw'.items = cPm[g].items
      BY <1>2, <2>3 DEF ServiceWorkers
    <3>. QED  BY <2>1, <2>2, <3>1 DEF GoesOn, ServiceCopyChanged
  <2>. QED  BY <1>2, <2>1, <2>2, <2>3, VisitingGoesOn
<1>11. CASE PatchServiceEntry
  BY <1>2, <1>5, <1>11, VisitingGoesOn DEF PatchServiceEntry
<1>12. CASE RemoveServiceFinalizer
  BY <1>1, <1>5, <1>12 DEF RemoveServiceFinalizer
<1>13. ServiceReconciler => ServiceCopyChanged
  BY <1>4, <1>5, <1>6, <1>7, <1>8, <1>9, <1>10, <1>11, <1>12
     DEF ServiceReconciler, ServiceStep
<1>14. FailedCall \/ Restart => ServiceCopyChanged
  BY <1>1, <1>5 DEF FailedCall, Restart
<1>15. (Users \/ Informers \/ BindingReconciler \/ MappingReconciler \/ UNCHANGED vars)
       => sw' = sw
  BY DEF Users, CreateService, UpdatePorts, DeleteService, CreateBinding, DeleteBinding,
         DeleteGroup, Request, Informers, BindingReconciler, MappingReconciler, vars, workers
<1>. QED  BY <1>1, <1>13, <1>14, <1>15 DEF Next

LEMMA InitStays == Init => StayInv
<1>. SUFFICES ASSUME Init PROVE StayInv
  OBVIOUS
<1>1. CopyInv
  BY InitCopies
<1>2. BindingCachesFaithful
  BY <1>1, TypedBinding DEF Init, BindingCachesFaithful, Faithful, BindingObjects, CopyInv
<1>3. BindingCopyFaithful /\ RemovesDeleted /\ DeletesItsOwn
  BY DEF Init, BInit, SInit, BindingCopyFaithful, RemovesDeleted, DeletesItsOwn, BindingIdle,
         ServiceIdle
<1>4. CachedDoomed
  <2>1. \A s \in Services : ExistingService(s).phase = "live" /\ NoService.phase = "absent"
    BY DEF ExistingService, NoService
  <2>. QED  BY <2>1 DEF Init, CachedDoomed
<1>. QED  BY <1>1, <1>2, <1>3, <1>4 DEF StayInv

LEMMA BindingStaysFaithful ==
    ASSUME TypeInv, NEW b \in Bindings, NEW copy \in BindingObjects, Faithful(copy, bnd[b]),
           BindingChanged(b)
    PROVE  Faithful(copy, bnd'[b])
<1>1. bnd[b].rv \in Nat /\ copy.rv \in Nat
  BY TypedBinding DEF BindingObjects
<1>. QED  BY <1>1 DEF BindingChanged, Faithful

LEMMA StaysDoomed ==
    ASSUME TypeInv, NEW s \in Services, Changed(s), Doomed(s)
    PROVE  Doomed(s)'
<1>1. svc[s].rv \in Nat
  BY Typed DEF ServiceObjects
<1>. QED  BY <1>1 DEF Changed, NoReturn, Doomed

LEMMA NextStayInv == StayInv /\ [Next]_vars => StayInv'
<1>. SUFFICES ASSUME StayInv, [Next]_vars PROVE StayInv'
  OBVIOUS
<1>1. CopyInv' /\ CopyInv /\ TypeInv /\ TypeInv'
  BY NextCopies DEF StayInv, CopyInv
<1>2. \A s \in Services : Changed(s) /\ CacheChanged(s)
  BY <1>1, NextChanges, NextCaches
<1>3. \A b \in Bindings : BindingChanged(b) /\ BindingCacheChanged(b)
  BY NextStays, NextBindingCaches
<1>4. CopyChanged /\ ServiceCopyChanged
  BY <1>1, NextCopy, NextServiceCopy
<1>5. ASSUME NEW b \in Bindings PROVE Faithful(cBnd'[b], bnd'[b])
  <2>1. Faithful(cBnd[b], bnd'[b])
    BY <1>1, <1>3, TypedBinding, BindingStaysFaithful DEF StayInv, BindingCachesFaithful
  <2>2. bnd'[b].rv \in Nat
    BY <1>1 DEF TypeInv, TypeOK, StoreOK, BindingObjects
  <2>. QED  BY <1>3, <2>1, <2>2 DEF BindingCacheChanged, Faithful
<1>6. ASSUME bw' = BindingIdle PROVE BindingCopyFaithful' /\ RemovesDeleted'
  BY <1>6 DEF BindingCopyFaithful, RemovesDeleted, BindingIdle
<1>7. ASSUME Continues PROVE BindingCopyFaithful' /\ RemovesDeleted'
  <2>1. bw.key \in Bindings /\ bw.bnd \in BindingObjects
    BY <1>1, <1>7 DEF Continues, TypeInv, TypeOK, KeysOK, WorkersOK, BindingWorkers
  <2>2. Faithful(bw.bnd, bnd'[bw.key])
    BY <1>1, <1>3, <1>7, <2>1, BindingStaysFaithful DEF Continues, StayInv, BindingCopyFaithful
  <2>3. bnd'[bw.key].rv \in Nat
    BY <1>1, <2>1 DEF TypeInv, TypeOK, StoreOK, BindingObjects
  <2>4. Faithful(bw'.bnd, bnd'[bw'.key])
    BY <1>7, <2>2, <2>3 DEF Continues, Faithful
  <2>. QED  BY <1>7, <2>4 DEF Continues, BindingCopyFaithful, RemovesDeleted, StayInv
<1>8. ASSUME Begins PROVE BindingCopyFaithful' /\ RemovesDeleted'
  BY <1>8 DEF Begins, BindingCopyFaithful, RemovesDeleted, StayInv, BindingCachesFaithful
<1>9. CachedDoomed'
  <2>1. ASSUME NEW s \in Services, cSvc'[s].phase = "deleting" PROVE Doomed(s)'
    <3>1. CASE cSvc'[s] = cSvc[s]
      BY <1>1, <1>2, <2>1, <3>1, StaysDoomed DEF StayInv, CachedDoomed
    <3>2. CASE cSvc'[s] = svc'[s]
      BY <1>1, <2>1, <3>2 DEF CopyInv, Unborn, Present, Doomed
    <3>. QED  BY <1>2, <3>1, <3>2 DEF CacheChanged
  <2>. QED  BY <2>1 DEF CachedDoomed
<1>10. DeletesItsOwn'
  <2>. SUFFICES ASSUME sw'.pc = "DeleteBindings"
                PROVE  Doomed(sw.key)' /\ \A b \in sw'.bindings : ServiceRef[b] = sw'.key
    BY DEF DeletesItsOwn
  <2>1. ASSUME sw.pc = "DeleteBindings", sw'.key = sw.key, sw'.bindings \subseteq sw.bindings
        PROVE  Doomed(sw.key)' /\ \A b \in sw'.bindings : ServiceRef[b] = sw'.key
    <3>1. sw.key \in Services /\ Doomed(sw.key)
      BY <1>1, <2>1 DEF TypeInv, KeysOK, ServiceIdle, StayInv, DeletesItsOwn
    <3>2. svc'[sw.key].rv # 0 /\ svc'[sw.key].phase # "live"
      BY <1>1, <1>2, <3>1, StaysDoomed DEF Doomed
    <3>. QED  BY <2>1, <3>2 DEF Doomed, StayInv, DeletesItsOwn
  <2>2. CASE sw' = sw \/ GoesOn
    BY <2>1, <2>2 DEF GoesOn
  <2>3. ASSUME NEW s \in Services, StartsWith(s)
        PROVE  Doomed(sw.key)' /\ \A b \in sw'.bindings : ServiceRef[b] = sw'.key
    <3>1. Doomed(s)
      BY <2>3 DEF StartsWith, StayInv, CachedDoomed
    <3>2. svc'[s].rv # 0 /\ svc'[s].phase # "live"
      BY <1>1, <1>2, <3>1, StaysDoomed DEF Doomed
    <3>. QED  BY <2>3, <3>2 DEF StartsWith, Doomed, findBindingsForService
  <2>4. sw' # ServiceIdle
    BY DEF ServiceIdle
  <2>. QED  BY <1>4, <2>2, <2>3, <2>4 DEF ServiceCopyChanged
<1>11. BindingCopyFaithful' /\ RemovesDeleted'
  BY <1>4, <1>6, <1>7, <1>8 DEF CopyChanged
<1>. QED
  BY <1>1, <1>5, <1>9, <1>10, <1>11 DEF StayInv, BindingCachesFaithful

(* A live binding ends only by a user's request or with its service: no      *)
(* worker that still works on a deleted binding of that name takes it away.  *)
THEOREM LiveBindingsStayHolds == Spec => LiveBindingsStay
<1> DEFINE Step == \A b \in Bindings :
                     bnd[b].phase = "live" /\ bnd'[b].phase # "live"
                     => ops' = ops + 1 \/ svc[ServiceRef[b]].phase # "live"
<1>1. StayInv /\ [Next]_vars => [Step]_vars
  BY NextStays DEF BindingChanged, Stays
<1>. QED  BY <1>1, InitStays, NextStayInv, PTL DEF Spec, LiveBindingsStay

---------------------------------------------------------------------------
(* Who is let in.  Lists of groups and of entries are copied from caches to  *)
(* workers and from workers to the store, whole; a service gets onto one     *)
(* only through a worker with a binding of it, or from another such list.    *)
(* GrantInv says of every copy what AccessWasGranted says of the store.      *)

GroupsGranted(groups, s) == \A g \in groups : Granted(s, g)

ItemsGranted(items, g) == \A s \in DOMAIN items : Granted(s, g)

ServicesGranted ==
    \A s \in Services : GroupsGranted(svc[s].groups, s) /\ GroupsGranted(cSvc[s].groups, s)

MappingsGranted ==
    \A g \in Groups : ItemsGranted(pm[g].items, g) /\ ItemsGranted(cPm[g].items, g)

BindingWorkerGranted ==
    bw # BindingIdle => /\ bnd[bw.key].rv # 0
                        /\ GroupsGranted(bw.svc.groups, ServiceRef[bw.key])
                        /\ ItemsGranted(bw.items, AddressGroupRef[bw.key])

ServiceWorkerGranted ==
    sw # ServiceIdle => /\ GroupsGranted(sw.svc.groups, sw.key)
                        /\ GroupsGranted(sw.groups, sw.key)
                        /\ sw.pc = "Patch" => /\ sw.group \in sw.groups
                                              /\ ItemsGranted(sw.items, sw.group)

(* A binding that somebody sees has been created.                           *)
Born == \A b \in Bindings : Present(bnd[b]) \/ Present(cBnd[b]) => bnd[b].rv # 0

GrantInv ==
    /\ StayInv /\ Born
    /\ ServicesGranted /\ MappingsGranted
    /\ BindingWorkerGranted /\ ServiceWorkerGranted

(* Where the entries of a mapping come from in a step.                      *)
EntriesFrom(g) ==
    \/ DOMAIN pm'[g].items \subseteq DOMAIN pm[g].items
    \/ /\ bw # BindingIdle /\ bw.key \in Bindings /\ AddressGroupRef[bw.key] = g
       /\ DOMAIN pm'[g].items \subseteq DOMAIN bw.items \cup {ServiceRef[bw.key]}
    \/ /\ sw # ServiceIdle /\ sw.key \in Services /\ sw.pc = "Patch" /\ sw.group = g
       /\ DOMAIN pm'[g].items \subseteq DOMAIN sw.items \cup {sw.key}

MappingCacheChanged(g) == cPm'[g].items \in {cPm[g].items, pm[g].items}

LEMMA TypedMapping ==
    ASSUME TypeInv, NEW g \in Groups
    PROVE  /\ pm[g] \in MappingObjects /\ cPm[g] \in MappingObjects
           /\ DOMAIN pm = Groups /\ DOMAIN cPm = Groups
BY DEF TypeInv, TypeOK, StoreOK, CachesOK

LEMMA OneMappingWritten ==
    ASSUME TypeInv, NEW g \in Groups, NEW new, pm' = [pm EXCEPT ![g] = new],
           pm'[g] = new => EntriesFrom(g)
    PROVE  \A h \in Groups : EntriesFrom(h)
<1>1. pm'[g] = new /\ \A h \in Groups \ {g} : pm'[h] = pm[h]
  BY TypedMapping
<1>. QED  BY <1>1 DEF EntriesFrom

LEMMA NoMappingWritten ==
    ASSUME UNCHANGED pm
    PROVE  \A h \in Groups : EntriesFrom(h)
BY DEF EntriesFrom

LEMMA PatchIs ==
    ASSUME NEW o \in MappingObjects, NEW base \in AccessPorts, NEW modified \in AccessPorts
    PROVE  MergePatch(o, base, modified).items \in {o.items, modified}
<1>1. [o EXCEPT !.items = modified] \in MappingObjects
      /\ [o EXCEPT !.items = modified].items = modified
  BY DEF MappingObjects
<1>2. SavedMapping(o, [o EXCEPT !.items = modified]).items = modified
  BY <1>1, SavedMappingIs
<1>. QED  BY <1>2 DEF MergePatch

(* The writes that leave the entries alone, or take all of them away.        *)
LEMMA RestIs ==
    ASSUME NEW o \in MappingObjects,
           NEW new \in {Content(o), NoMapping, SavedMapping(o, NoMapping),
                        SavedMapping(o, [NoMapping EXCEPT !.phase = "live"]),
                        SavedMapping(o, [o EXCEPT !.fin = TRUE]),
                        SavedMapping(o, [o EXCEPT !.fin = FALSE]),
                        SavedMapping(o, [o EXCEPT !.ready = TRUE]),
                        SavedMapping(o, DeletedMapping(o))}
    PROVE  new.items \in {o.items, NoItems}
<1>1. Content(o).items = o.items /\ NoMapping.items = NoItems
  BY DEF Content, NoMapping, MappingObjects
<1>2. \A m \in {NoMapping, [NoMapping EXCEPT !.phase = "live"], [o EXCEPT !.fin = TRUE],
                [o EXCEPT !.fin = FALSE], [o EXCEPT !.ready = TRUE], DeletedMapping(o)} :
        m.items \in {o.items, NoItems}
  BY <1>1 DEF DeletedMapping, MappingObjects, NoMapping
<1>3. /\ [NoMapping EXCEPT !.phase = "live"] \in MappingObjects
      /\ [o EXCEPT !.fin = TRUE] \in MappingObjects
      /\ [o EXCEPT !.fin = FALSE] \in MappingObjects
      /\ [o EXCEPT !.ready = TRUE] \in MappingObjects
  BY NothingTypes DEF MappingObjects, Phases
<1>4. \A m \in MappingObjects : SavedMapping(o, m).items = m.items
  BY SavedMappingIs
<1>. QED  BY <1>1, <1>2, <1>3, <1>4, NothingTypes, MappingTypes

LEMMA EntriesKept ==
    ASSUME NEW g \in Groups, pm'[g].items \in {pm[g].items, NoItems}
    PROVE  EntriesFrom(g)
BY DEF EntriesFrom, NoItems

LEMMA BindingEntries ==
    ASSUME TypeInv, BindingReconciler
    PROVE  \A h \in Groups : EntriesFrom(h)
<1> DEFINE g == AddressGroupRef[bw.key]
<1>1. CASE UNCHANGED pm
  BY <1>1, NoMappingWritten
<1>2. ASSUME CreateMapping, ~BindingError PROVE \A h \in Groups : EntriesFrom(h)
  <2>1. g \in Groups /\ pm[g] \in MappingObjects
    BY <1>2, DueKey, TypedMapping DEF CreateMapping
  <2>2. pm' = [pm EXCEPT ![g] = SavedMapping(pm[g], [NoMapping EXCEPT !.phase = "live"])]
    BY <1>2 DEF CreateMapping
  <2>3. pm'[g] = SavedMapping(pm[g], [NoMapping EXCEPT !.phase = "live"])
    BY <2>1, <2>2, TypedMapping
  <2>4. pm'[g].items \in {pm[g].items, NoItems}
    BY <2>1, <2>3, RestIs
  <2>. QED  BY <2>1, <2>2, <2>4, EntriesKept, OneMappingWritten
<1>3. ASSUME NEW w, NEW items \in AccessPorts, Due(w), PatchMapping(w, items), ~BindingError,
             DOMAIN items \subseteq DOMAIN bw.items \cup {ServiceRef[bw.key]}
      PROVE  \A h \in Groups : EntriesFrom(h)
  <2>1. /\ g \in Groups /\ pm[g] \in MappingObjects /\ bw.items \in AccessPorts
        /\ bw.key \in Bindings /\ bw # BindingIdle
    BY <1>3, DueKey, TypedMapping DEF Due, BindingIdle
  <2>2. pm' = [pm EXCEPT ![g] = MergePatch(pm[g], bw.items, items)]
    BY <1>3 DEF PatchMapping
  <2>3. pm'[g] = MergePatch(pm[g], bw.items, items)
    BY <2>1, <2>2, TypedMapping
  <2>4. pm'[g].items = pm[g].items \/ pm'[g].items = items
    BY <1>3, <2>1, <2>3, PatchIs
  <2>5. EntriesFrom(g)
    BY <1>3, <2>1, <2>4 DEF EntriesFrom
  <2>. QED  BY <2>1, <2>2, <2>5, OneMappingWritten
<1>4. ASSUME PutServiceEntry \/ RemoveServiceEntry, ~BindingError
      PROVE  \A h \in Groups : EntriesFrom(h)
  <2>1. PICK w : Due(w)
    BY <1>4 DEF PutServiceEntry, RemoveServiceEntry
  <2>2. /\ PutEntry(bw.items, ServiceRef[bw.key], bw.ports) \in AccessPorts
        /\ DropEntry(bw.items, ServiceRef[bw.key]) \in AccessPorts
    BY <2>1, DueKey, ItemsTypes
  <2>3. /\ DOMAIN PutEntry(bw.items, ServiceRef[bw.key], bw.ports)
             = DOMAIN bw.items \cup {ServiceRef[bw.key]}
        /\ DOMAIN DropEntry(bw.items, ServiceRef[bw.key]) \subseteq DOMAIN bw.items
    BY DEF PutEntry, DropEntry
  <2>. QED  BY <1>3, <1>4, <2>2, <2>3 DEF PutServiceEntry, RemoveServiceEntry
<1>5. BindingError => UNCHANGED pm
  BY DEF BindingError, store
<1>6. (\E b \in Bindings : BindingStart(b)) => UNCHANGED pm
  BY DEF BindingStart, ReconcileGoneBinding, ReconcileNewBinding, reconcileDelete,
         ReconcileWithoutService, ReconcileWithoutGroup, reconcileNormal, Begin, store
<1>7. (AddFinalizer \/ AddOwners \/ SetReady \/ AddGroup \/ RemoveGroup
        \/ RemoveBindingFinalizer \/ ReportServiceNotFound \/ ReportAddressGroupNotFound)
      => UNCHANGED pm
  BY <1>5 DEF AddFinalizer, AddOwners, SetReady, UpdateBinding, AddGroup, RemoveGroup,
              UpdateServiceGroups, RemoveBindingFinalizer, ReportServiceNotFound,
              ReportAddressGroupNotFound, ReportMissing
<1>. QED
  BY <1>1, <1>2, <1>4, <1>5, <1>6, <1>7 DEF BindingReconciler, BindingWrite

LEMMA ServiceEntries ==
    ASSUME TypeInv, ServiceReconciler
    PROVE  \A h \in Groups : EntriesFrom(h)
<1>1. CASE UNCHANGED pm
  BY <1>1, NoMappingWritten
<1>2. ServiceError => UNCHANGED pm
  BY DEF ServiceError, store
<1>3. ASSUME PatchServiceEntry, ~ServiceError PROVE \A h \in Groups : EntriesFrom(h)
  <2> DEFINE g     == sw.group
             items == IF sw.deleting THEN DropEntry(sw.items, sw.key)
                      ELSE PutEntry(sw.items, sw.key, sw.ports)
  <2>1. sw # ServiceIdle /\ sw.pc = "Patch"
    BY <1>3 DEF PatchServiceEntry, ServiceIdle
  <2>2. /\ g \in Groups /\ sw.key \in Services /\ pm[g] \in MappingObjects
        /\ sw.items \in AccessPorts /\ sw.ports \in Ports
    BY <2>1, TypedMapping DEF TypeInv, TypeOK, KeysOK, WorkersOK, ServiceWorkers
  <2>3. items \in AccessPorts /\ DOMAIN items \subseteq DOMAIN sw.items \cup {sw.key}
    BY <2>2, ItemsTypes DEF PutEntry, DropEntry
  <2>4. pm' = [pm EXCEPT ![g] = MergePatch(pm[g], sw.items, items)]
    BY <1>3 DEF PatchServiceEntry
  <2>5. pm'[g] = MergePatch(pm[g], sw.items, items)
    BY <2>2, <2>4, TypedMapping
  <2> HIDE DEF items
  <2>6. pm'[g].items = pm[g].items \/ pm'[g].items = items
    BY <2>2, <2>3, <2>5, PatchIs
  <2>7. EntriesFrom(g)
    BY <2>1, <2>2, <2>3, <2>6 DEF EntriesFrom
  <2>. QED  BY <2>2, <2>4, <2>7, OneMappingWritten
<1>4. (\E s \in Services : ReconcileService(s)) => UNCHANGED pm
  BY DEF ReconcileService, store
<1>5. (EnsureServiceFinalizer \/ SetServiceReady \/ DeleteOneBinding \/ BindingsDeleted
        \/ ReadMapping \/ RemoveServiceFinalizer) => UNCHANGED pm
  BY <1>2 DEF EnsureServiceFinalizer, SetServiceReady, DeleteOneBinding, BindingsDeleted,
              ReadMapping, RemoveServiceFinalizer, store
<1>. QED  BY <1>1, <1>2, <1>3, <1>4, <1>5 DEF ServiceReconciler, ServiceStep

LEMMA MappingEntries ==
    ASSUME TypeInv, MappingReconciler
    PROVE  \A h \in Groups : EntriesFrom(h)
<1> DEFINE g == pw.key
<1>1. CASE UNCHANGED pm
  BY <1>1, NoMappingWritten
<1>2. MappingError => UNCHANGED pm
  BY DEF MappingError, store
<1>3. ASSUME MappingStep, ~MappingError, ~UNCHANGED pm PROVE \A h \in Groups : EntriesFrom(h)
  <2>1. g \in Groups
    BY <1>3 DEF MappingStep, EnsureMappingFinalizer, cleanupStalePortMappings,
                SetMappingReady, RemoveMappingFinalizer, MappingIdle, TypeInv, KeysOK
  <2>2. pm[g] \in MappingObjects /\ DOMAIN pm = Groups
    BY <2>1, TypedMapping
  <2>3. CleanupPatch(pm[g], cPm[g], pw.valid) = pm[g]
    BY <2>2, CleanupType
  <2>4. \/ pm' = [pm EXCEPT ![g] = pm[g]]
        \/ pm' = [pm EXCEPT ![g] = SavedMapping(pm[g], [pm[g] EXCEPT !.fin = TRUE])]
        \/ pm' = [pm EXCEPT ![g] = SavedMapping(pm[g], [pm[g] EXCEPT !.ready = TRUE])]
        \/ pm' = [pm EXCEPT ![g] = SavedMapping(pm[g], NoMapping)]
        \/ pm' = [pm EXCEPT ![g] = SavedMapping(pm[g], [pm[g] EXCEPT !.fin = FALSE])]
    BY <1>3, <2>1, <2>2, <2>3 DEF MappingStep, EnsureMappingFinalizer, cleanupStalePortMappings,
       SetMappingReady, RemoveMappingFinalizer, store
  <2>5. pm'[g].items \in {pm[g].items, NoItems}
    BY <2>1, <2>2, <2>4, RestIs
  <2>. QED  BY <2>1, <2>4, <2>5, EntriesKept, OneMappingWritten
<1>4. (\E h \in Groups : ReconcileMapping(h)) => UNCHANGED pm
  BY DEF ReconcileMapping, store
<1>. QED  BY <1>1, <1>2, <1>3, <1>4 DEF MappingReconciler

LEMMA InformersEntries ==
    ASSUME TypeInv, Informers
    PROVE  \A h \in Groups : EntriesFrom(h)
<1>1. CASE UNCHANGED pm
  BY <1>1, NoMappingWritten
<1>2. ASSUME NEW g \in Groups, SyncMapping(g) \/ CollectMapping(g)
      PROVE  \A h \in Groups : EntriesFrom(h)
  <2>1. pm[g] \in MappingObjects /\ DOMAIN pm = Groups
    BY TypedMapping
  <2>2. PICK new \in {Content(pm[g]), SavedMapping(pm[g], DeletedMapping(pm[g]))} :
          pm' = [pm EXCEPT ![g] = new]
    BY <1>2 DEF SyncMapping, CollectMapping
  <2>3. pm'[g].items \in {pm[g].items, NoItems}
    BY <2>1, <2>2, RestIs
  <2>. QED  BY <2>2, <2>3, EntriesKept, OneMappingWritten
<1>. QED
  BY <1>1, <1>2 DEF Informers, Resync, SyncService, SyncBinding, SyncGroup, store

LEMMA NextEntries ==
    ASSUME TypeInv, [Next]_vars
    PROVE  \A g \in Groups : EntriesFrom(g)
<1>1. CASE UNCHANGED pm
  BY <1>1, NoMappingWritten
<1>2. Users \/ FailedCall \/ UNCHANGED vars => UNCHANGED pm
  BY DEF Users, CreateService, UpdatePorts, DeleteService, CreateBinding, DeleteBinding,
         DeleteGroup, FailedCall, BindingError, ServiceError, MappingError, vars, store
<1>3. ASSUME Restart, NEW g \in Groups PROVE EntriesFrom(g)
  BY <1>3, TypedMapping, RestIs, EntriesKept DEF Restart
<1>. QED
  BY <1>1, <1>2, <1>3, BindingEntries, ServiceEntries, MappingEntries, InformersEntries DEF Next

LEMMA NextMappingCaches ==
    ASSUME TypeInv, [Next]_vars
    PROVE  \A g \in Groups : MappingCacheChanged(g)
<1>1. CASE UNCHANGED cPm
  BY <1>1 DEF MappingCacheChanged
<1>2. \A g \in Groups : Content(pm[g]).items = pm[g].items
  BY TypedMapping DEF Content, MappingObjects
<1>3. ASSUME NEW h \in Groups, SyncMapping(h) PROVE \A g \in Groups : MappingCacheChanged(g)
  BY <1>2, <1>3, TypedMapping DEF SyncMapping, MappingCacheChanged
<1>4. CASE Restart
  BY <1>2, <1>4 DEF Restart, MappingCacheChanged
<1>5. (BindingReconciler \/ ServiceReconciler \/ MappingReconciler) => UNCHANGED cPm
  BY BindingFrame, ServiceFrame, MappingFrame
     DEF BindingReconciler, ServiceReconciler, MappingReconciler, caches
<1>6. (Users \/ FailedCall \/ UNCHANGED vars) => UNCHANGED cPm
  BY DEF Users, CreateService, UpdatePorts, DeleteService, CreateBinding, DeleteBinding,
         DeleteGroup, Request, FailedCall, BindingError, ServiceError, MappingError, vars, caches
<1>7. Informers => UNCHANGED cPm \/ \E h \in Groups : SyncMapping(h)
  BY DEF Informers, Resync, SyncService, SyncBinding, SyncGroup, CollectMapping, caches
<1>. QED  BY <1>1, <1>3, <1>4, <1>5, <1>6, <1>7 DEF Next

LEMMA InitGrant == Init => GrantInv
<1>. SUFFICES ASSUME Init PROVE GrantInv
  OBVIOUS
<1>1. StayInv
  BY InitStays
<1>2. /\ ExistingBinding.rv = 1
      /\ NoBinding.phase = "absent" /\ NoService.groups = {} /\ NoMapping.items = NoItems
  BY DEF ExistingBinding, NoBinding, NoService, NoMapping
<1>3. Born
  BY <1>2 DEF Init, Born, Present
<1>4. ASSUME NEW s \in Services, NEW g \in Groups, s \in BoundTo(g) PROVE Granted(s, g)
  <2>1. PICK b \in ExistingBindings : ServiceRef[b] = s /\ AddressGroupRef[b] = g
    BY <1>4 DEF BoundTo
  <2>2. b \in Bindings /\ bnd[b].rv = 1
    BY <1>2, <2>1 DEF ExistingBindings, Init
  <2>. QED  BY <2>1, <2>2 DEF Granted
<1>5. ServicesGranted
  <2>1. \A s \in Services : ExistingService(s).groups = {g \in Groups : s \in BoundTo(g)}
    BY DEF ExistingService, NoService
  <2>2. ASSUME NEW s \in Services PROVE GroupsGranted(svc[s].groups, s)
    <3>1. svc[s].groups \subseteq {g \in Groups : s \in BoundTo(g)}
      BY <1>2, <2>1 DEF Init
    <3>. QED  BY <1>4, <3>1 DEF GroupsGranted
  <2>. QED  BY <2>2 DEF Init, ServicesGranted
<1>6. MappingsGranted
  <2>1. \A g \in Groups : DOMAIN ExistingMapping(g).items = BoundTo(g)
    BY DEF ExistingMapping, NoMapping
  <2>2. ASSUME NEW g \in Groups PROVE ItemsGranted(pm[g].items, g)
    <3>1. DOMAIN pm[g].items \subseteq BoundTo(g) /\ BoundTo(g) \subseteq Services
      BY <1>2, <2>1, RefAssumption DEF Init, NoItems, BoundTo, ExistingBindings
    <3>. QED  BY <1>4, <3>1 DEF ItemsGranted
  <2>. QED  BY <2>2 DEF Init, MappingsGranted
<1>7. BindingWorkerGranted /\ ServiceWorkerGranted
  BY DEF Init, BInit, SInit, BindingWorkerGranted, ServiceWorkerGranted
<1>. QED  BY <1>1, <1>3, <1>5, <1>6, <1>7 DEF GrantInv

(* What was granted stays so: a version never goes back to 0.               *)
StillGranted(s, g) ==
    \E b \in Bindings : ServiceRef[b] = s /\ AddressGroupRef[b] = g /\ bnd'[b].rv > 0

LEMMA GrantsStay ==
    ASSUME TypeInv, \A b \in Bindings : BindingChanged(b)
    PROVE  /\ \A b \in Bindings : bnd[b].rv # 0 => bnd'[b].rv # 0
           /\ \A s \in Services, g \in Groups : Granted(s, g) => StillGranted(s, g)
<1>1. ASSUME NEW b \in Bindings PROVE bnd'[b].rv = bnd[b].rv \/ bnd'[b].rv = bnd[b].rv + 1
  BY DEF BindingChanged
<1>2. \A b \in Bindings : bnd[b].rv \in Nat
  BY TypedBinding DEF BindingObjects
<1>3. \A b \in Bindings : (bnd[b].rv # 0 => bnd'[b].rv # 0) /\ (bnd[b].rv > 0 => bnd'[b].rv > 0)
  BY <1>1, <1>2
<1>. QED  BY <1>3 DEF Granted, StillGranted

LEMMA BindingWorkerGrants ==
    ASSUME GrantInv, bw # BindingIdle
    PROVE  /\ bw.key \in Bindings
           /\ Granted(ServiceRef[bw.key], AddressGroupRef[bw.key])
<1>1. bw.key \in Bindings
  BY DEF GrantInv, StayInv, CopyInv, TypeInv, KeysOK
<1>2. bnd[bw.key].rv \in Nat /\ bnd[bw.key].rv # 0
  BY <1>1, TypedBinding DEF GrantInv, StayInv, CopyInv, BindingWorkerGranted, BindingObjects
<1>. QED  BY <1>1, <1>2 DEF Granted

LEMMA NextGrantInv == GrantInv /\ [Next]_vars => GrantInv'
<1>. SUFFICES ASSUME GrantInv, [Next]_vars PROVE GrantInv'
  OBVIOUS
<1>1. StayInv /\ StayInv' /\ CopyInv /\ TypeInv /\ TypeInv'
  BY NextStayInv DEF GrantInv, StayInv, CopyInv
<1>2. \A s \in Services : Changed(s) /\ CacheChanged(s)
  BY <1>1, NextChanges, NextCaches
<1>3. \A b \in Bindings : BindingChanged(b) /\ BindingCacheChanged(b)
  BY <1>1, NextStays, NextBindingCaches
<1>4. CopyChanged /\ ServiceCopyChanged
  BY <1>1, NextCopy, NextServiceCopy
<1>5. \A g \in Groups : EntriesFrom(g) /\ MappingCacheChanged(g)
  BY <1>1, NextEntries, NextMappingCaches
<1>6. /\ \A b \in Bindings : bnd[b].rv # 0 => bnd'[b].rv # 0
      /\ \A s \in Services, g \in Groups : Granted(s, g) => StillGranted(s, g)
  BY <1>1, <1>3, GrantsStay
<1>7. /\ \A s \in Services, groups \in SUBSET Groups :
           GroupsGranted(groups, s) => \A h \in groups : StillGranted(s, h)
      /\ \A g \in Groups, items \in AccessPorts :
           ItemsGranted(items, g) => \A s \in DOMAIN items : StillGranted(s, g)
  <2>1. \A items \in AccessPorts : DOMAIN items \subseteq Services
    BY DEF AccessPorts
  <2>. QED  BY <1>6, <2>1 DEF GroupsGranted, ItemsGranted
<1>8. Born'
  <2>1. ASSUME NEW b \in Bindings, Present(bnd'[b]) \/ Present(cBnd'[b])
        PROVE  bnd'[b].rv # 0
    <3>1. bnd[b].rv \in Nat
      BY <1>1, TypedBinding DEF BindingObjects
    <3>2. CASE bnd'[b].rv = bnd[b].rv + 1
      BY <3>1, <3>2
    <3>3. CASE bnd'[b] = bnd[b]
      BY <1>3, <2>1, <3>3 DEF BindingCacheChanged, GrantInv, Born
    <3>. QED  BY <1>3, <3>2, <3>3 DEF BindingChanged
  <2>. QED  BY <2>1 DEF Born, Present
<1>9. ServicesGranted'
  <2>1. ASSUME NEW s \in Services PROVE \A h \in svc'[s].groups : StillGranted(s, h)
    <3>1. \A h \in svc[s].groups : StillGranted(s, h)
      BY <1>1, <1>7, Typed DEF GrantInv, ServicesGranted, ServiceObjects
    <3>2. CASE svc'[s].groups \subseteq svc[s].groups
      BY <3>1, <3>2
    <3>3. CASE OneGroup(s)
      <4>1. /\ bw # BindingIdle /\ bw.key \in Bindings /\ s = ServiceRef[bw.key]
            /\ svc'[s].groups \subseteq svc[s].groups \cup {AddressGroupRef[bw.key]}
        BY <3>3 DEF OneGroup
      <4>2. StillGranted(s, AddressGroupRef[bw.key])
        BY <1>6, <4>1, BindingWorkerGrants, RefAssumption
      <4>. QED  BY <3>1, <4>1, <4>2
    <3>. QED  BY <1>2, <3>2, <3>3 DEF Changed
  <2>2. ASSUME NEW s \in Services PROVE \A h \in cSvc'[s].groups : StillGranted(s, h)
    <3>1. \A h \in cSvc[s].groups : StillGranted(s, h)
      BY <1>1, <1>7, Typed DEF GrantInv, ServicesGranted, ServiceObjects
    <3>. QED  BY <1>2, <2>1, <3>1 DEF CacheChanged
  <2>. QED  BY <2>1, <2>2 DEF ServicesGranted, GroupsGranted, Granted, StillGranted
<1>10. MappingsGranted'
  <2>. SUFFICES ASSUME NEW g \in Groups
                PROVE  /\ \A s \in DOMAIN pm'[g].items : StillGranted(s, g)
                       /\ \A s \in DOMAIN cPm'[g].items : StillGranted(s, g)
    BY DEF MappingsGranted, ItemsGranted, Granted, StillGranted
  <2>1. /\ \A s \in DOMAIN pm[g].items : StillGranted(s, g)
        /\ \A s \in DOMAIN cPm[g].items : StillGranted(s, g)
    BY <1>1, <1>7, TypedMapping DEF GrantInv, MappingsGranted, MappingObjects
  <2>2. ASSUME bw # BindingIdle, bw.key \in Bindings, AddressGroupRef[bw.key] = g
        PROVE  \A s \in DOMAIN bw.items \cup {ServiceRef[bw.key]} : StillGranted(s, g)
    <3>1. bw.items \in AccessPorts /\ ItemsGranted(bw.items, g)
      BY <1>1, <2>2 DEF GrantInv, BindingWorkerGranted, TypeInv, TypeOK, WorkersOK, BindingWorkers
    <3>2. StillGranted(ServiceRef[bw.key], g)
      BY <1>6, <2>2, BindingWorkerGrants, RefAssumption
    <3>. QED  BY <1>7, <3>1, <3>2
  <2>3. ASSUME sw # ServiceIdle, sw.key \in Services, sw.pc = "Patch", sw.group = g
        PROVE  \A s \in DOMAIN sw.items \cup {sw.key} : StillGranted(s, g)
    <3>1. sw.items \in AccessPorts /\ ItemsGranted(sw.items, g) /\ Granted(sw.key, g)
      BY <1>1, <2>3 DEF GrantInv, ServiceWorkerGranted, GroupsGranted, TypeInv, TypeOK, WorkersOK,
                        ServiceWorkers
    <3>2. StillGranted(sw.key, g)
      BY <1>6, <2>3, <3>1
    <3>. QED  BY <1>7, <3>1, <3>2
  <2>4. \A s \in DOMAIN pm'[g].items : StillGranted(s, g)
    BY <1>5, <2>1, <2>2, <2>3 DEF EntriesFrom
  <2>. QED  BY <1>5, <2>1, <2>4 DEF MappingCacheChanged
<1>11. NoService.groups = {} /\ DOMAIN NoItems = {}
  BY DEF NoService, NoItems
<1>12. BindingWorkerGranted'
  <2>1. CASE bw' = BindingIdle
    BY <2>1 DEF BindingWorkerGranted, BindingIdle
  <2> DEFINE b == bw'.key
             Kept == /\ bnd'[b].rv # 0
                     /\ \A h \in bw'.svc.groups : StillGranted(ServiceRef[b], h)
                     /\ \A s \in DOMAIN bw'.items : StillGranted(s, AddressGroupRef[b])
  <2>2. ASSUME Continues PROVE Kept
    <3>1. /\ bw.key \in Bindings /\ b = bw.key
          /\ bw.svc \in ServiceObjects /\ bw.items \in AccessPorts
      BY <1>1, <2>2, BindingWorkerGrants DEF Continues, TypeInv, TypeOK, WorkersOK, BindingWorkers
    <3>2. /\ bnd[b].rv # 0
          /\ GroupsGranted(bw.svc.groups, ServiceRef[b])
          /\ ItemsGranted(bw.items, AddressGroupRef[b])
      BY <2>2, <3>1 DEF Continues, GrantInv, BindingWorkerGranted
    <3>3. bw.svc.groups \in SUBSET Groups
      BY <3>1 DEF ServiceObjects
    <3>4. /\ \A h \in bw.svc.groups : StillGranted(ServiceRef[b], h)
          /\ \A s \in DOMAIN bw.items : StillGranted(s, AddressGroupRef[b])
      BY <1>7, <3>1, <3>2, <3>3, RefAssumption
    <3>. QED  BY <1>6, <1>11, <2>2, <3>1, <3>2, <3>4 DEF Continues
  <2>3. ASSUME Begins PROVE Kept
    <3>1. /\ b \in Bindings /\ bnd[b].rv # 0
          /\ ServiceRef[b] \in Services /\ AddressGroupRef[b] \in Groups
      BY <2>3, RefAssumption DEF Begins, GrantInv, Born
    <3>2. /\ cSvc[ServiceRef[b]].groups \in SUBSET Groups
          /\ cPm[AddressGroupRef[b]].items \in AccessPorts
      BY <1>1, <3>1, Typed, TypedMapping DEF ServiceObjects, MappingObjects
    <3>3. /\ \A h \in cSvc[ServiceRef[b]].groups : StillGranted(ServiceRef[b], h)
          /\ \A s \in DOMAIN cPm[AddressGroupRef[b]].items : StillGranted(s, AddressGroupRef[b])
      BY <1>7, <3>1, <3>2 DEF GrantInv, ServicesGranted, MappingsGranted
    <3>. QED  BY <1>6, <1>11, <2>3, <3>1, <3>3 DEF Begins
  <2>. QED
    BY <1>4, <2>1, <2>2, <2>3
       DEF CopyChanged, BindingWorkerGranted, GroupsGranted, ItemsGranted, Granted, StillGranted
<1>13. ServiceWorkerGranted'
  <2> DEFINE t == sw'.key
             Kept == /\ \A h \in sw'.svc.groups : StillGranted(t, h)
                     /\ \A h \in sw'.groups : StillGranted(t, h)
                     /\ sw'.pc = "Patch" =>
                          /\ sw'.group \in sw'.groups
                          /\ \A s \in DOMAIN sw'.items : StillGranted(s, sw'.group)
  <2>1. CASE sw' = ServiceIdle
    BY <2>1 DEF ServiceWorkerGranted, ServiceIdle
  <2>2. ASSUME sw # ServiceIdle
        PROVE  /\ sw.key \in Services /\ sw.items \in AccessPorts
               /\ sw.svc.groups \in SUBSET Groups /\ sw.groups \in SUBSET Groups
               /\ \A h \in sw.groups \cup sw.svc.groups : StillGranted(sw.key, h)
               /\ sw.pc = "Patch" => /\ sw.group \in sw.groups
                                     /\ \A s \in DOMAIN sw.items : StillGranted(s, sw.group)
    <3>1. /\ sw.key \in Services /\ sw.items \in AccessPorts
          /\ sw.svc.groups \in SUBSET Groups /\ sw.groups \in SUBSET Groups
      BY <1>1, <2>2 DEF TypeInv, TypeOK, KeysOK, WorkersOK, ServiceWorkers, ServiceObjects
    <3>2. /\ GroupsGranted(sw.svc.groups, sw.key) /\ GroupsGranted(sw.groups, sw.key)
          /\ sw.pc = "Patch" => sw.group \in sw.groups /\ ItemsGranted(sw.items, sw.group)
      BY <2>2 DEF GrantInv, ServiceWorkerGranted
    <3>. QED  BY <1>7, <3>1, <3>2
  <2>3. CASE sw' = sw /\ sw # ServiceIdle
    <3>1. Kept
      BY <2>2, <2>3
    <3>. QED
      BY <3>1 DEF ServiceWorkerGranted, GroupsGranted, ItemsGranted, Granted, StillGranted
  <2>4. CASE GoesOn
    <3>1. /\ \A h \in sw'.svc.groups : StillGranted(t, h)
          /\ \A h \in sw'.groups : StillGranted(t, h)
          /\ sw'.groups \in SUBSET Groups
      BY <1>11, <2>2, <2>4 DEF GoesOn
    <3>2. ASSUME sw'.pc = "Patch"
          PROVE  /\ sw'.group \in sw'.groups
                 /\ \A s \in DOMAIN sw'.items : StillGranted(s, sw'.group)
      <4>1. CASE sw'.items = cPm[sw'.group].items
        <5>1. sw'.group \in Groups /\ sw'.group \in sw'.groups
          BY <2>4, <3>1, <3>2 DEF GoesOn
        <5>2. cPm[sw'.group].items \in AccessPorts /\ ItemsGranted(cPm[sw'.group].items, sw'.group)
          BY <1>1, <5>1, TypedMapping DEF GrantInv, MappingsGranted, MappingObjects
        <5>. QED  BY <1>7, <4>1, <5>1, <5>2
      <4>2. CASE sw.pc = "Patch" /\ sw'.group = sw.group /\ sw'.items = sw.items
        BY <2>2, <2>4, <3>2, <4>2 DEF GoesOn
      <4>. QED  BY <2>4, <3>2, <4>1, <4>2 DEF GoesOn
    <3>3. Kept
      BY <3>1, <3>2
    <3>. QED
      BY <3>3 DEF ServiceWorkerGranted, GroupsGranted, ItemsGranted, Granted, StillGranted
  <2>5. ASSUME NEW s \in Services, StartsWith(s) PROVE ServiceWorkerGranted'
    <3>1. \A h \in cSvc[s].groups : StillGranted(s, h)
      BY <1>1, <1>7, Typed DEF GrantInv, ServicesGranted, ServiceObjects
    <3>2. Kept
      BY <1>11, <2>5, <3>1 DEF StartsWith
    <3>. QED
      BY <3>2 DEF ServiceWorkerGranted, GroupsGranted, ItemsGranted, Granted, StillGranted
  <2>. QED  BY <1>4, <2>1, <2>3, <2>4, <2>5 DEF ServiceCopyChanged
<1>. QED  BY <1>1, <1>8, <1>9, <1>10, <1>12, <1>13 DEF GrantInv

(* A group lists a service, and a mapping opens its ports, only if a binding *)
(* of that service to that group was created: no stale list, whoever writes  *)
(* it whole, lets in a service that nobody bound.                           *)
THEOREM AccessWasGrantedHolds == Spec => []AccessWasGranted
<1>1. GrantInv => AccessWasGranted
  BY DEF GrantInv, ServicesGranted, MappingsGranted, GroupsGranted, ItemsGranted, AccessWasGranted
<1>. QED  BY <1>1, InitGrant, NextGrantInv, PTL DEF Spec
=============================================================================
