------------------------- MODULE BindingSyncProofs -------------------------
(***************************************************************************)
(* BindingSync for any services, groups, bindings, ports, requests, faults: *)
(* its typing, and the lemmas that the proofs of its properties share.     *)
(***************************************************************************)
EXTENDS BindingSync, TLAPS

(* The operators that build objects build objects of their kind.            *)

LEMMA ItemsTypes ==
    ASSUME NEW items \in AccessPorts, NEW s \in Services, NEW ports \in Ports
    PROVE  /\ PutEntry(items, s, ports) \in AccessPorts
           /\ DropEntry(items, s) \in AccessPorts
           /\ DOMAIN items \subseteq Services
<1>1. PICK S \in SUBSET Services : items \in [S -> Ports]
  BY DEF AccessPorts
<1>2. PutEntry(items, s, ports) \in [S \cup {s} -> Ports]
  BY <1>1 DEF PutEntry
<1>3. DropEntry(items, s) \in [S \ {s} -> Ports]
  BY <1>1 DEF DropEntry
<1> QED BY <1>1, <1>2, <1>3 DEF AccessPorts

LEMMA NothingTypes ==
    /\ NoItems \in AccessPorts
    /\ NoService \in ServiceObjects
    /\ NoBinding \in BindingObjects
    /\ NoMapping \in MappingObjects
<1>1. NoItems \in [{} -> Ports]
  BY DEF NoItems
<1>2. NoItems \in AccessPorts
  BY <1>1 DEF AccessPorts
<1> QED
  BY <1>2 DEF NoService, NoBinding, NoMapping, ServiceObjects, BindingObjects,
              MappingObjects, Phases, ReadyStates, Ports

LEMMA ServiceTypes ==
    ASSUME NEW o \in ServiceObjects
    PROVE  /\ RemovedService(o) \in ServiceObjects
           /\ DeletedService(o) \in ServiceObjects
           /\ \A new \in ServiceObjects : Saved(o, new) \in ServiceObjects
<1>1. RemovedService(o) \in ServiceObjects
  BY NothingTypes DEF RemovedService, ServiceObjects
<1>2. DeletedService(o) \in ServiceObjects
  <2>1. [o EXCEPT !.phase = "deleting", !.rv = @ + 1] \in ServiceObjects
    <3>1. "deleting" \in Phases /\ o.rv + 1 \in Nat
      BY DEF ServiceObjects, Phases
    <3> QED BY <3>1 DEF ServiceObjects
  <2> QED BY <1>1, <2>1, Zenon DEF DeletedService
<1>3. ASSUME NEW new \in ServiceObjects PROVE Saved(o, new) \in ServiceObjects
  BY DEF Saved, ServiceObjects
<1> QED BY <1>1, <1>2, <1>3

LEMMA BindingTypes ==
    ASSUME NEW o \in BindingObjects
    PROVE  /\ RemovedBinding(o) \in BindingObjects
           /\ DeletedBinding(o) \in BindingObjects
           /\ \A new \in BindingObjects : Saved(o, new) \in BindingObjects
<1>1. RemovedBinding(o) \in BindingObjects
  BY NothingTypes DEF RemovedBinding, BindingObjects
<1>2. DeletedBinding(o) \in BindingObjects
  <2>1. [o EXCEPT !.phase = "deleting", !.rv = @ + 1] \in BindingObjects
    <3>1. "deleting" \in Phases /\ o.rv + 1 \in Nat
      BY DEF BindingObjects, Phases
    <3> QED BY <3>1 DEF BindingObjects
  <2> QED BY <1>1, <2>1, Zenon DEF DeletedBinding
<1>3. ASSUME NEW new \in BindingObjects PROVE Saved(o, new) \in BindingObjects
  BY DEF Saved, BindingObjects
<1> QED BY <1>1, <1>2, <1>3

LEMMA SavedMappingType ==
    ASSUME NEW o \in MappingObjects, NEW new \in MappingObjects
    PROVE  SavedMapping(o, new) \in MappingObjects
<1>1. o.items \in AccessPorts /\ new.items \in AccessPorts
  BY DEF MappingObjects
<1>2. DOMAIN o.items \subseteq Services /\ DOMAIN new.items \subseteq Services
  BY <1>1 DEF AccessPorts
<1> QED BY <1>2 DEF SavedMapping, MappingObjects

LEMMA MappingTypes ==
    ASSUME NEW o \in MappingObjects
    PROVE  /\ Content(o) \in MappingObjects
           /\ DeletedMapping(o) \in MappingObjects
           /\ \A base, modified \in AccessPorts : MergePatch(o, base, modified) \in MappingObjects
<1>1. Content(o) \in MappingObjects
  BY DEF Content, MappingObjects
<1>2. DeletedMapping(o) \in MappingObjects
  BY NothingTypes DEF DeletedMapping, MappingObjects, Phases
<1>3. ASSUME NEW base \in AccessPorts, NEW modified \in AccessPorts
      PROVE  MergePatch(o, base, modified) \in MappingObjects
  <2>1. [o EXCEPT !.items = modified] \in MappingObjects
    BY DEF MappingObjects
  <2> QED BY <2>1, SavedMappingType DEF MergePatch
<1> QED BY <1>1, <1>2, <1>3

LEMMA CleanupType ==
    ASSUME NEW stored \in MappingObjects, NEW latest, NEW valid
    PROVE  CleanupPatch(stored, latest, valid) = stored
BY Zenon DEF CleanupPatch, MergePatch

---------------------------------------------------------------------------
(* TypeOK is not inductive as it stands: that an error queues a key of the   *)
(* right kind rests on a worker that is not idle having one.               *)

KeysOK ==
    /\ bw = BindingIdle \/ bw.key \in Bindings
    /\ sw = ServiceIdle \/ sw.key \in Services
    /\ pw = MappingIdle \/ pw.key \in Groups
    /\ sw.pc = "Patch" => sw.group \in Groups

TypeInv == TypeOK /\ KeysOK

LEMMA IdleTypes ==
    /\ BindingIdle \in BindingWorkers
    /\ ServiceIdle \in ServiceWorkers
    /\ MappingIdle \in MappingWorkers
<1>1. BindingIdle \in BindingWorkers
  BY NothingTypes DEF BindingIdle, BindingWorkers, Ports
<1>2. ServiceIdle \in ServiceWorkers
  BY NothingTypes DEF ServiceIdle, ServiceWorkers, ServicePcs, Ports
<1>3. MappingIdle \in MappingWorkers
  BY NothingTypes DEF MappingIdle, MappingWorkers, MappingPcs
<1> QED BY <1>1, <1>2, <1>3

LEMMA InitTypeInv == Init => TypeInv
<1> SUFFICES ASSUME Init PROVE TypeInv
  OBVIOUS
<1>1. svc \in [Services -> ServiceObjects]
  <2>1. ASSUME NEW s \in Services PROVE ExistingService(s) \in ServiceObjects
    <3>1. InitialPorts[s] \in Ports
      BY PortsAssumption DEF Ports
    <3> QED BY <3>1, NothingTypes DEF ExistingService, ServiceObjects, Phases
  <2> QED BY <2>1, NothingTypes DEF Init
<1>2. bnd \in [Bindings -> BindingObjects]
  <2>1. ExistingBinding \in BindingObjects
    BY NothingTypes DEF ExistingBinding, BindingObjects, Phases, ReadyStates
  <2> QED BY <2>1, NothingTypes DEF Init
<1>3. pm \in [Groups -> MappingObjects]
  <2>1. ASSUME NEW g \in Groups PROVE ExistingMapping(g) \in MappingObjects
    <3>1. BoundTo(g) \subseteq Services
      BY RefAssumption DEF BoundTo, ExistingBindings
    <3>2. [s \in BoundTo(g) |-> InitialPorts[s]] \in [BoundTo(g) -> Ports]
      BY <3>1, PortsAssumption DEF Ports
    <3>3. [s \in BoundTo(g) |-> InitialPorts[s]] \in AccessPorts
      BY <3>1, <3>2 DEF AccessPorts
    <3> QED BY <3>3, NothingTypes DEF ExistingMapping, MappingObjects, Phases
  <2> QED BY <2>1, NothingTypes DEF Init
<1>4. ag \in [Groups -> BOOLEAN]
  BY DEF Init
<1>5. CachesOK
  BY <1>1, <1>2, <1>3, <1>4 DEF Init, CachesOK
<1>6. QueuesOK /\ BoundsOK
  BY BoundAssumption DEF Init, QueuesOK, BoundsOK
<1>7. WorkersOK
  BY IdleTypes DEF Init, BInit, SInit, PInit, WorkersOK
<1>8. KeysOK
  BY DEF Init, BInit, SInit, PInit, KeysOK, ServiceIdle
<1> QED BY <1>1, <1>2, <1>3, <1>4, <1>5, <1>6, <1>7, <1>8 DEF TypeInv, TypeOK, StoreOK

---------------------------------------------------------------------------
(* The binding controller.                                                 *)

(* What its steps may change, and what they leave alone.                    *)
BindingPart ==
    /\ svc \in [Services -> ServiceObjects]
    /\ bnd \in [Bindings -> BindingObjects]
    /\ pm \in [Groups -> MappingObjects]
    /\ bq \subseteq Bindings
    /\ bw \in BindingWorkers
    /\ bw = BindingIdle \/ bw.key \in Bindings

LEMMA TrimType ==
    ASSUME NEW worker \in BindingWorkers
    PROVE  Trim(worker) \in BindingWorkers /\ Trim(worker).key = worker.key
BY NothingTypes DEF Trim, BindingWorkers, Ports

LEMMA AdvanceType ==
    ASSUME NEW w, NEW worker \in BindingWorkers, worker.key \in Bindings,
           Advance(w, worker)
    PROVE  bw' \in BindingWorkers /\ (bw' = BindingIdle \/ bw'.key \in Bindings)
<1> DEFINE next == [worker EXCEPT !.todo = @ \ {w}]
<1>1. next \in BindingWorkers /\ next.key = worker.key
  BY DEF BindingWorkers
<1>2. Trim(next) \in BindingWorkers /\ Trim(next).key \in Bindings
  BY <1>1, TrimType
<1> QED BY <1>2, IdleTypes DEF Advance

LEMMA BindingErrorType ==
    ASSUME BindingPart, bw.key \in Bindings, BindingError
    PROVE  BindingPart'
BY IdleTypes DEF BindingPart, BindingError, store

LEMMA BeginType ==
    ASSUME TypeInv, NEW b \in Bindings, NEW writes \in SUBSET Writes, Begin(b, writes)
    PROVE  BindingPart'
<1> DEFINE worker == [key |-> b, todo |-> writes, bnd |-> cBnd[b],
                      svc |-> cSvc[ServiceRef[b]], ports |-> cSvc[ServiceRef[b]].ports,
                      items |-> cPm[AddressGroupRef[b]].items]
<1>1. /\ cBnd[b] \in BindingObjects
      /\ cSvc[ServiceRef[b]] \in ServiceObjects
      /\ cPm[AddressGroupRef[b]] \in MappingObjects
  BY RefAssumption DEF TypeInv, TypeOK, CachesOK
<1>2. worker \in BindingWorkers /\ worker.key \in Bindings
  BY <1>1 DEF BindingWorkers, ServiceObjects, MappingObjects
<1>3. Trim(worker) \in BindingWorkers /\ Trim(worker).key \in Bindings
  BY <1>2, TrimType
<1>4. bw' \in BindingWorkers /\ (bw' = BindingIdle \/ bw'.key \in Bindings)
  BY <1>3 DEF Begin, TypeInv, TypeOK, WorkersOK, KeysOK
<1> QED
  BY <1>4 DEF Begin, TypeInv, TypeOK, StoreOK, QueuesOK, BindingPart, store

LEMMA BindingStartType ==
    ASSUME TypeInv, NEW b \in Bindings, BindingStart(b)
    PROVE  BindingPart'
<1> USE BeginType
<1>1. CASE ReconcileGoneBinding(b)
  BY <1>1 DEF ReconcileGoneBinding
<1>2. CASE ReconcileNewBinding(b)
  BY <1>2 DEF ReconcileNewBinding, Writes, Order
<1>3. CASE reconcileDelete(b)
  BY <1>3 DEF reconcileDelete, Writes, Order
<1>4. CASE ReconcileWithoutService(b)
  BY <1>4 DEF ReconcileWithoutService, Writes, Order
<1>5. CASE ReconcileWithoutGroup(b)
  BY <1>5 DEF ReconcileWithoutGroup, Writes, Order
<1>6. CASE reconcileNormal(b)
  BY <1>6 DEF reconcileNormal, Writes, Order
<1> QED BY <1>1, <1>2, <1>3, <1>4, <1>5, <1>6 DEF BindingStart

(* A write that is due belongs to a worker that has a key.                  *)
LEMMA DueKey ==
    ASSUME TypeInv, NEW w, Due(w)
    PROVE  /\ BindingPart
           /\ bw.key \in Bindings
           /\ ServiceRef[bw.key] \in Services
           /\ AddressGroupRef[bw.key] \in Groups
           /\ bw.bnd \in BindingObjects
           /\ bw.svc \in ServiceObjects
           /\ bw.ports \in Ports
           /\ bw.items \in AccessPorts
<1>1. bw # BindingIdle
  BY DEF Due, BindingIdle
<1>2. BindingPart /\ bw.key \in Bindings
  BY <1>1 DEF TypeInv, TypeOK, KeysOK, StoreOK, QueuesOK, WorkersOK, BindingPart
<1> QED BY <1>2, RefAssumption DEF BindingPart, BindingWorkers

LEMMA UpdateBindingType ==
    ASSUME BindingPart, bw.key \in Bindings, bw.bnd \in BindingObjects,
           NEW w, NEW new \in BindingObjects, NEW admitted, UpdateBinding(w, new, admitted)
    PROVE  BindingPart'
<1>1. CASE BindingError
  BY <1>1, BindingErrorType
<1>2. CASE /\ bnd' = [bnd EXCEPT ![bw.key] = Saved(@, new)]
           /\ Advance(w, [bw EXCEPT !.bnd = Saved(bnd[bw.key], new)])
           /\ UNCHANGED <<svc, pm, ag, caches, queues>>
  <2>1. Saved(bnd[bw.key], new) \in BindingObjects
    BY BindingTypes DEF BindingPart
  <2>2. [bw EXCEPT !.bnd = Saved(bnd[bw.key], new)] \in BindingWorkers
    BY <2>1 DEF BindingPart, BindingWorkers
  <2>3. [bw EXCEPT !.bnd = Saved(bnd[bw.key], new)].key = bw.key
    BY DEF BindingPart, BindingWorkers
  <2>4. bw' \in BindingWorkers /\ (bw' = BindingIdle \/ bw'.key \in Bindings)
    BY <1>2, <2>2, <2>3, AdvanceType
  <2>5. bnd' \in [Bindings -> BindingObjects]
    BY <1>2, <2>1 DEF BindingPart
  <2> QED BY <1>2, <2>4, <2>5 DEF BindingPart, queues
<1> QED BY <1>1, <1>2 DEF UpdateBinding

LEMMA UpdateServiceGroupsType ==
    ASSUME BindingPart, bw.key \in Bindings, ServiceRef[bw.key] \in Services,
           bw.svc \in ServiceObjects,
           NEW w, NEW groups \in SUBSET Groups, UpdateServiceGroups(w, groups)
    PROVE  BindingPart'
<1> DEFINE s   == ServiceRef[bw.key]
           new == [bw.svc EXCEPT !.groups = groups]
<1>1. CASE BindingError
  BY <1>1, BindingErrorType
<1>2. CASE /\ svc' = [svc EXCEPT ![s] = Saved(@, new)]
           /\ Advance(w, bw)
           /\ UNCHANGED <<bnd, pm, ag, caches, queues>>
  <2>1. new \in ServiceObjects
    BY DEF ServiceObjects
  <2>2. Saved(svc[s], new) \in ServiceObjects
    BY <2>1, ServiceTypes DEF BindingPart
  <2>3. svc' \in [Services -> ServiceObjects]
    BY <1>2, <2>2 DEF BindingPart
  <2>4. bw' \in BindingWorkers /\ (bw' = BindingIdle \/ bw'.key \in Bindings)
    BY <1>2, AdvanceType DEF BindingPart
  <2> QED BY <1>2, <2>3, <2>4 DEF BindingPart, queues
<1> QED BY <1>1, <1>2 DEF UpdateServiceGroups

LEMMA PatchMappingType ==
    ASSUME BindingPart, bw.key \in Bindings, AddressGroupRef[bw.key] \in Groups,
           bw.items \in AccessPorts,
           NEW w, NEW items \in AccessPorts, PatchMapping(w, items)
    PROVE  BindingPart'
<1> DEFINE g == AddressGroupRef[bw.key]
<1>1. CASE BindingError
  BY <1>1, BindingErrorType
<1>2. CASE /\ pm' = [pm EXCEPT ![g] = MergePatch(@, bw.items, items)]
           /\ Advance(w, bw)
           /\ UNCHANGED <<svc, bnd, ag, caches, queues>>
  <2>1. MergePatch(pm[g], bw.items, items) \in MappingObjects
    BY MappingTypes DEF BindingPart
  <2>2. pm' \in [Groups -> MappingObjects]
    BY <1>2, <2>1 DEF BindingPart
  <2>3. bw' \in BindingWorkers /\ (bw' = BindingIdle \/ bw'.key \in Bindings)
    BY <1>2, AdvanceType DEF BindingPart
  <2> QED BY <1>2, <2>2, <2>3 DEF BindingPart, queues
<1> QED BY <1>1, <1>2 DEF PatchMapping

LEMMA ReportMissingType ==
    ASSUME BindingPart, bw.key \in Bindings, bw.bnd \in BindingObjects,
           NEW w, NEW ready \in ReadyStates, NEW again, ReportMissing(w, ready, again)
    PROVE  BindingPart'
<1> DEFINE b   == bw.key
           new == [bw.bnd EXCEPT !.ready = ready]
<1>1. CASE BindingError
  BY <1>1, BindingErrorType
<1>2. CASE /\ bnd' = [bnd EXCEPT ![b] = Saved(@, new)]
           /\ bw' = BindingIdle
           /\ bq' = IF again THEN bq \cup {b} ELSE bq
           /\ UNCHANGED <<svc, pm, ag, caches, sq, pq>>
  <2>1. Saved(bnd[b], new) \in BindingObjects
    <3>1. new \in BindingObjects
      BY DEF BindingObjects
    <3> QED BY <3>1, BindingTypes DEF BindingPart
  <2>2. bnd' \in [Bindings -> BindingObjects]
    BY <1>2, <2>1 DEF BindingPart
  <2>3. bq' \subseteq Bindings
    BY <1>2 DEF BindingPart
  <2> QED BY <1>2, <2>2, <2>3, IdleTypes DEF BindingPart
<1> QED BY <1>1, <1>2 DEF ReportMissing

LEMMA BindingWriteType ==
    ASSUME TypeInv, BindingWrite
    PROVE  BindingPart'
<1>1. CASE AddFinalizer
  <2>1. Due("AddFinalizer")
    BY <1>1 DEF AddFinalizer
  <2>2. [bw.bnd EXCEPT !.fin = TRUE] \in BindingObjects
    BY <2>1, DueKey DEF BindingObjects
  <2> QED BY <1>1, <2>1, <2>2, DueKey, UpdateBindingType DEF AddFinalizer
<1>2. CASE AddOwners
  <2>1. Due("AddOwners")
    BY <1>2 DEF AddOwners
  <2>2. [bw.bnd EXCEPT !.owned = TRUE] \in BindingObjects
    BY <2>1, DueKey DEF BindingObjects
  <2> QED BY <1>2, <2>1, <2>2, DueKey, UpdateBindingType DEF AddOwners
<1>3. CASE SetReady
  <2>1. Due("SetReady")
    BY <1>3 DEF SetReady
  <2>2. [bw.bnd EXCEPT !.ready = "True"] \in BindingObjects
    BY <2>1, DueKey DEF BindingObjects, ReadyStates
  <2> QED BY <1>3, <2>1, <2>2, DueKey, UpdateBindingType DEF SetReady
<1>4. CASE AddGroup
  <2>1. Due("AddGroup")
    BY <1>4 DEF AddGroup
  <2>2. bw.svc.groups \cup {AddressGroupRef[bw.key]} \in SUBSET Groups
    BY <2>1, DueKey DEF ServiceObjects
  <2> QED BY <1>4, <2>1, <2>2, DueKey, UpdateServiceGroupsType DEF AddGroup
<1>5. CASE RemoveGroup
  <2>1. Due("RemoveGroup")
    BY <1>5 DEF RemoveGroup
  <2>2. bw.svc.groups \ {AddressGroupRef[bw.key]} \in SUBSET Groups
    BY <2>1, DueKey DEF ServiceObjects
  <2> QED BY <1>5, <2>1, <2>2, DueKey, UpdateServiceGroupsType DEF RemoveGroup
<1>6. CASE CreateMapping
  <2> DEFINE g == AddressGroupRef[bw.key]
  <2>1. Due("CreateMapping")
    BY <1>6 DEF CreateMapping
  <2>2. CASE BindingError
    BY <2>1, <2>2, DueKey, BindingErrorType
  <2>3. CASE /\ pm' = [pm EXCEPT ![g] = SavedMapping(@, [NoMapping EXCEPT !.phase = "live"])]
             /\ Advance("CreateMapping", bw)
             /\ UNCHANGED <<svc, bnd, ag, caches, queues>>
    <3>1. [NoMapping EXCEPT !.phase = "live"] \in MappingObjects
      BY NothingTypes DEF MappingObjects, Phases
    <3>2. SavedMapping(pm[g], [NoMapping EXCEPT !.phase = "live"]) \in MappingObjects
      BY <2>1, <3>1, DueKey, SavedMappingType DEF BindingPart
    <3>3. pm' \in [Groups -> MappingObjects]
      BY <2>1, <2>3, <3>2, DueKey DEF BindingPart
    <3>4. bw' \in BindingWorkers /\ (bw' = BindingIdle \/ bw'.key \in Bindings)
      BY <2>1, <2>3, DueKey, AdvanceType DEF BindingPart
    <3> QED BY <2>1, <2>3, <3>3, <3>4, DueKey DEF BindingPart, queues
  <2> QED BY <1>6, <2>2, <2>3 DEF CreateMapping
<1>7. CASE PutServiceEntry
  <2>1. Due("PutEntry")
    BY <1>7 DEF PutServiceEntry
  <2>2. PutEntry(bw.items, ServiceRef[bw.key], bw.ports) \in AccessPorts
    BY <2>1, DueKey, ItemsTypes
  <2> QED BY <1>7, <2>1, <2>2, DueKey, PatchMappingType DEF PutServiceEntry
<1>8. CASE RemoveServiceEntry
  <2>1. Due("RemoveEntry")
    BY <1>8 DEF RemoveServiceEntry
  <2>2. DropEntry(bw.items, ServiceRef[bw.key]) \in AccessPorts
    BY <2>1, DueKey, ItemsTypes
  <2> QED BY <1>8, <2>1, <2>2, DueKey, PatchMappingType DEF RemoveServiceEntry
<1>9. CASE RemoveBindingFinalizer
  <2> DEFINE b == bw.key
  <2>1. Due("RemoveFinalizer")
    BY <1>9 DEF RemoveBindingFinalizer
  <2>2. CASE BindingError
    BY <2>1, <2>2, DueKey, BindingErrorType
  <2>3. CASE /\ bnd' = [bnd EXCEPT ![b] = RemovedBinding(@)]
             /\ bw' = BindingIdle
             /\ UNCHANGED <<svc, pm, ag, caches, queues>>
    <3>1. RemovedBinding(bnd[b]) \in BindingObjects
      BY <2>1, DueKey, BindingTypes DEF BindingPart
    <3>2. bnd' \in [Bindings -> BindingObjects]
      BY <2>1, <2>3, <3>1, DueKey DEF BindingPart
    <3> QED BY <2>1, <2>3, <3>2, DueKey, IdleTypes DEF BindingPart, queues
  <2> QED BY <1>9, <2>2, <2>3 DEF RemoveBindingFinalizer
<1>10. CASE ReportServiceNotFound
  <2>1. Due("ServiceNotFound")
    BY <1>10 DEF ReportServiceNotFound
  <2> DEFINE ready == IF bw.bnd.ready \in {"Unset", "True"} THEN "ServiceNotFound"
                      ELSE bw.bnd.ready
  <2>2. ready \in ReadyStates
    BY <2>1, DueKey DEF BindingObjects, ReadyStates
  <2> QED BY <1>10, <2>1, <2>2, DueKey, ReportMissingType DEF ReportServiceNotFound
<1>11. CASE ReportAddressGroupNotFound
  <2>1. Due("AddressGroupNotFound")
    BY <1>11 DEF ReportAddressGroupNotFound
  <2>2. "AddressGroupNotFound" \in ReadyStates
    BY DEF ReadyStates
  <2> QED BY <1>11, <2>1, <2>2, DueKey, ReportMissingType DEF ReportAddressGroupNotFound
<1> QED
  BY <1>1, <1>2, <1>3, <1>4, <1>5, <1>6, <1>7, <1>8, <1>9, <1>10, <1>11 DEF BindingWrite

LEMMA BindingFrame ==
    ASSUME (\E b \in Bindings : BindingStart(b)) \/ BindingWrite
    PROVE  UNCHANGED <<ag, caches, sq, pq>>
<1>1. CASE \E b \in Bindings : BindingStart(b)
  BY <1>1 DEF BindingStart, ReconcileGoneBinding, ReconcileNewBinding, reconcileDelete,
              ReconcileWithoutService, ReconcileWithoutGroup, reconcileNormal, Begin, store
<1>2. BindingError => UNCHANGED <<ag, caches, sq, pq>>
  BY DEF BindingError, store
<1>3. CASE BindingWrite
  BY <1>2, <1>3
     DEF BindingWrite, AddFinalizer, AddOwners, SetReady, UpdateBinding,
         AddGroup, RemoveGroup, UpdateServiceGroups, CreateMapping,
         PutServiceEntry, RemoveServiceEntry, PatchMapping, RemoveBindingFinalizer,
         ReportServiceNotFound, ReportAddressGroupNotFound, ReportMissing, queues
<1> QED BY <1>1, <1>3

---------------------------------------------------------------------------
(* The service controller.                                                 *)

ServicePart ==
    /\ svc \in [Services -> ServiceObjects]
    /\ bnd \in [Bindings -> BindingObjects]
    /\ pm \in [Groups -> MappingObjects]
    /\ sq \subseteq Services
    /\ sw \in ServiceWorkers
    /\ sw = ServiceIdle \/ sw.key \in Services
    /\ sw.pc = "Patch" => sw.group \in Groups

(* A worker the next action may find.                                      *)
GoodWorker(worker) ==
    /\ worker \in ServiceWorkers
    /\ worker = ServiceIdle \/ worker.key \in Services
    /\ worker.pc = "Patch" => worker.group \in Groups

LEMMA ServiceIdleGood == GoodWorker(ServiceIdle)
BY IdleTypes DEF GoodWorker, ServiceIdle

LEMMA VisitingType ==
    ASSUME NEW worker \in ServiceWorkers, worker.key \in Services,
           NEW groups \in SUBSET Groups
    PROVE  GoodWorker(Visiting(worker, groups))
<1>1. CASE groups # {}
  <2> DEFINE next == [worker EXCEPT !.pc = "Mappings", !.groups = groups, !.group = None,
                                    !.items = NoItems]
  <2>1. next \in ServiceWorkers /\ next.key = worker.key /\ next.pc = "Mappings"
    BY NothingTypes DEF ServiceWorkers, ServicePcs
  <2> QED BY <1>1, <2>1 DEF Visiting, GoodWorker
<1>2. CASE groups = {} /\ worker.deleting
  <2> DEFINE next == [worker EXCEPT !.pc = "RemoveFinalizer", !.groups = {}, !.group = None,
                                    !.items = NoItems]
  <2>1. next \in ServiceWorkers /\ next.key = worker.key /\ next.pc = "RemoveFinalizer"
    BY NothingTypes DEF ServiceWorkers, ServicePcs
  <2> QED BY <1>2, <2>1 DEF Visiting, GoodWorker
<1>3. CASE groups = {} /\ ~worker.deleting
  BY <1>3, ServiceIdleGood DEF Visiting
<1> QED BY <1>1, <1>2, <1>3

LEMMA UpdateMappingsType ==
    ASSUME NEW s \in Services, NEW copy \in ServiceObjects
    PROVE  GoodWorker(UpdateMappings(s, copy))
<1> DEFINE worker == [ServiceIdle EXCEPT !.key = s, !.ports = copy.ports]
<1>1. copy.groups \in SUBSET Groups /\ copy.ports \in Ports
  BY DEF ServiceObjects
<1>2. worker \in ServiceWorkers /\ worker.key = s
  BY <1>1, IdleTypes DEF ServiceWorkers, ServiceIdle
<1>3. (IF copy.ports = {} THEN {} ELSE copy.groups) \in SUBSET Groups
  BY <1>1
<1> QED BY <1>2, <1>3, VisitingType DEF UpdateMappings

LEMMA DispatchType ==
    ASSUME NEW s \in Services, NEW copy \in ServiceObjects
    PROVE  GoodWorker(Dispatch(s, copy))
<1>1. CASE copy.phase = "deleting"
  <2> DEFINE next == [ServiceIdle EXCEPT !.key = s, !.pc = "DeleteBindings",
                        !.deleting = TRUE, !.bindings = findBindingsForService(s),
                        !.groups = copy.groups]
  <2>1. findBindingsForService(s) \in SUBSET Bindings /\ copy.groups \in SUBSET Groups
    BY DEF findBindingsForService, ServiceObjects
  <2>2. next \in ServiceWorkers /\ next.key = s /\ next.pc = "DeleteBindings"
    BY <2>1, IdleTypes DEF ServiceWorkers, ServiceIdle, ServicePcs
  <2> QED BY <1>1, <2>2 DEF Dispatch, GoodWorker
<1>2. CASE copy.phase # "deleting" /\ ~copy.ready
  <2> DEFINE next == [ServiceIdle EXCEPT !.key = s, !.pc = "SetReady", !.svc = copy]
  <2>1. next \in ServiceWorkers /\ next.key = s /\ next.pc = "SetReady"
    BY IdleTypes DEF ServiceWorkers, ServiceIdle, ServicePcs
  <2> QED BY <1>2, <2>1 DEF Dispatch, GoodWorker
<1>3. CASE copy.phase # "deleting" /\ copy.ready
  BY <1>3, UpdateMappingsType DEF Dispatch
<1> QED BY <1>1, <1>2, <1>3

LEMMA ServiceErrorType ==
    ASSUME ServicePart, sw.key \in Services, ServiceError
    PROVE  ServicePart'
BY ServiceIdleGood DEF ServicePart, ServiceError, GoodWorker, store

LEMMA ReconcileServiceType ==
    ASSUME TypeInv, NEW s \in Services, ReconcileService(s)
    PROVE  ServicePart'
<1>1. cSvc[s] \in ServiceObjects
  BY DEF TypeInv, TypeOK, CachesOK
<1>2. GoodWorker([ServiceIdle EXCEPT !.key = s, !.pc = "EnsureFinalizer"])
  BY IdleTypes DEF GoodWorker, ServiceWorkers, ServiceIdle, ServicePcs
<1>3. GoodWorker(sw')
  BY <1>1, <1>2, ServiceIdleGood, DispatchType DEF ReconcileService
<1> QED
  BY <1>3 DEF ReconcileService, ServicePart, GoodWorker, TypeInv, TypeOK, StoreOK, QueuesOK,
              store

LEMMA ServiceStepType ==
    ASSUME TypeInv, ServiceStep
    PROVE  ServicePart'
<1> DEFINE s == sw.key
<1>1. /\ ServicePart
      /\ sw.key \in Services
      /\ svc[s] \in ServiceObjects
      /\ cSvc[s] \in ServiceObjects
      /\ sw.svc \in ServiceObjects
      /\ sw.groups \in SUBSET Groups
      /\ sw.items \in AccessPorts
      /\ sw.ports \in Ports
  <2>1. sw.pc # "Idle"
    BY DEF ServiceStep, EnsureServiceFinalizer, SetServiceReady, DeleteOneBinding,
           BindingsDeleted, ReadMapping, PatchServiceEntry, RemoveServiceFinalizer
  <2>2. sw # ServiceIdle
    BY <2>1 DEF ServiceIdle
  <2>3. ServicePart /\ sw.key \in Services
    BY <2>2 DEF TypeInv, TypeOK, KeysOK, StoreOK, QueuesOK, WorkersOK, ServicePart
  <2> QED BY <2>3 DEF TypeInv, TypeOK, CachesOK, ServicePart, ServiceWorkers
<1>2. CASE ServiceError
  BY <1>1, <1>2, ServiceErrorType
<1>3. ASSUME EnsureServiceFinalizer, ~ServiceError PROVE ServicePart'
  <2> DEFINE new == Saved(svc[s], [svc[s] EXCEPT !.fin = TRUE])
  <2>1. svc' = [svc EXCEPT ![s] = new]
    BY <1>1, <1>3 DEF EnsureServiceFinalizer, ServicePart
  <2>2. new \in ServiceObjects
    <3>1. [svc[s] EXCEPT !.fin = TRUE] \in ServiceObjects
      BY <1>1 DEF ServiceObjects
    <3> QED BY <1>1, <3>1, ServiceTypes
  <2>3. svc' \in [Services -> ServiceObjects]
    BY <1>1, <2>1, <2>2 DEF ServicePart
  <2>4. GoodWorker(sw')
    BY <1>1, <1>3, ServiceIdleGood, DispatchType DEF EnsureServiceFinalizer
  <2>5. sq' \subseteq Services
    BY <1>1, <1>3 DEF EnsureServiceFinalizer, ServicePart
  <2> QED
    BY <1>1, <1>3, <2>3, <2>4, <2>5 DEF EnsureServiceFinalizer, ServicePart, GoodWorker
<1>4. ASSUME SetServiceReady, ~ServiceError PROVE ServicePart'
  <2> DEFINE new == Saved(svc[s], [svc[s] EXCEPT !.ready = TRUE])
  <2>1. svc' = [svc EXCEPT ![s] = new]
    BY <1>1, <1>4 DEF SetServiceReady, ServicePart
  <2>2. new \in ServiceObjects
    <3>1. [svc[s] EXCEPT !.ready = TRUE] \in ServiceObjects
      BY <1>1 DEF ServiceObjects
    <3> QED BY <1>1, <3>1, ServiceTypes
  <2>3. svc' \in [Services -> ServiceObjects]
    BY <1>1, <2>1, <2>2 DEF ServicePart
  <2>4. GoodWorker(sw')
    BY <1>1, <1>4, UpdateMappingsType DEF SetServiceReady
  <2> QED BY <1>1, <1>4, <2>3, <2>4 DEF SetServiceReady, ServicePart, GoodWorker, queues
<1>5. ASSUME DeleteOneBinding, ~ServiceError PROVE ServicePart'
  <2>1. PICK b \in sw.bindings :
          /\ bnd' = [bnd EXCEPT ![b] = DeletedBinding(@)]
          /\ sw' = [sw EXCEPT !.bindings = @ \ {b}]
          /\ UNCHANGED <<svc, pm, ag, caches, queues>>
    BY <1>5 DEF DeleteOneBinding
  <2>2. b \in Bindings
    BY <1>1 DEF ServicePart, ServiceWorkers
  <2>3. bnd' \in [Bindings -> BindingObjects]
    BY <1>1, <2>1, <2>2, BindingTypes DEF ServicePart
  <2>4. /\ sw' \in ServiceWorkers
        /\ sw'.key = sw.key
        /\ sw'.pc = "DeleteBindings"
    BY <1>1, <1>5, <2>1 DEF ServicePart, ServiceWorkers, DeleteOneBinding
  <2> QED BY <1>1, <2>1, <2>3, <2>4 DEF ServicePart, queues
<1>6. ASSUME BindingsDeleted PROVE ServicePart'
  <2>1. GoodWorker(sw')
    BY <1>1, <1>6, VisitingType DEF BindingsDeleted, ServicePart
  <2> QED BY <1>1, <1>6, <2>1 DEF BindingsDeleted, ServicePart, GoodWorker, store, queues
<1>7. ASSUME ReadMapping PROVE ServicePart'
  <2>1. PICK g \in sw.groups :
          sw' = IF NeedsPatch(g)
                THEN [sw EXCEPT !.pc = "Patch", !.group = g, !.items = cPm[g].items]
                ELSE Visiting(sw, sw.groups \ {g})
    BY <1>7 DEF ReadMapping
  <2>2. g \in Groups /\ cPm[g].items \in AccessPorts
    BY <1>1 DEF TypeInv, TypeOK, CachesOK, MappingObjects
  <2>3. GoodWorker([sw EXCEPT !.pc = "Patch", !.group = g, !.items = cPm[g].items])
    BY <1>1, <2>2 DEF ServicePart, ServiceWorkers, ServicePcs, GoodWorker
  <2>4. GoodWorker(Visiting(sw, sw.groups \ {g}))
    BY <1>1, VisitingType DEF ServicePart
  <2>5. GoodWorker(sw')
    BY <2>1, <2>3, <2>4
  <2> QED BY <1>1, <1>7, <2>5 DEF ReadMapping, ServicePart, GoodWorker, store, queues
<1>8. ASSUME PatchServiceEntry, ~ServiceError PROVE ServicePart'
  <2> DEFINE g     == sw.group
             items == IF sw.deleting THEN DropEntry(sw.items, sw.key)
                      ELSE PutEntry(sw.items, sw.key, sw.ports)
  <2>1. g \in Groups
    BY <1>1, <1>8 DEF PatchServiceEntry, ServicePart
  <2>2. items \in AccessPorts
    BY <1>1, ItemsTypes
  <2>3. MergePatch(pm[g], sw.items, items) \in MappingObjects
    BY <1>1, <2>1, <2>2, MappingTypes DEF ServicePart
  <2>4. pm' \in [Groups -> MappingObjects]
    BY <1>1, <1>8, <2>1, <2>3 DEF PatchServiceEntry, ServicePart
  <2>5. GoodWorker(sw')
    BY <1>1, <1>8, VisitingType DEF PatchServiceEntry, ServicePart
  <2> QED BY <1>1, <1>8, <2>4, <2>5 DEF PatchServiceEntry, ServicePart, GoodWorker, queues
<1>9. ASSUME RemoveServiceFinalizer, ~ServiceError PROVE ServicePart'
  <2>1. svc' \in [Services -> ServiceObjects]
    BY <1>1, <1>9, ServiceTypes DEF RemoveServiceFinalizer, ServicePart, store
  <2>2. GoodWorker(sw')
    BY <1>9, ServiceIdleGood DEF RemoveServiceFinalizer
  <2> QED
    BY <1>1, <1>9, <2>1, <2>2
       DEF RemoveServiceFinalizer, ServicePart, GoodWorker, store, queues
<1> QED
  BY <1>2, <1>3, <1>4, <1>5, <1>6, <1>7, <1>8, <1>9 DEF ServiceStep

LEMMA ServiceFrame ==
    ASSUME (\E s \in Services : ReconcileService(s)) \/ ServiceStep
    PROVE  UNCHANGED <<ag, caches, bq, pq>>
<1>1. CASE \E s \in Services : ReconcileService(s)
  BY <1>1 DEF ReconcileService, store
<1>2. ServiceError => UNCHANGED <<ag, caches, bq, pq>>
  BY DEF ServiceError, store
<1>3. CASE ServiceStep
  BY <1>2, <1>3
     DEF ServiceStep, EnsureServiceFinalizer, SetServiceReady, DeleteOneBinding,
         BindingsDeleted, ReadMapping, PatchServiceEntry, RemoveServiceFinalizer,
         store, queues
<1> QED BY <1>1, <1>3

---------------------------------------------------------------------------
(* The mapping controller.                                                 *)

MappingPart ==
    /\ pm \in [Groups -> MappingObjects]
    /\ pq \subseteq Groups
    /\ pw \in MappingWorkers
    /\ pw = MappingIdle \/ pw.key \in Groups

LEMMA AfterFinalizerType ==
    ASSUME NEW g \in Groups, NEW copy \in MappingObjects
    PROVE  AfterFinalizer(g, copy) \in MappingWorkers /\ AfterFinalizer(g, copy).key = g
<1> DEFINE worker == [MappingIdle EXCEPT !.key = g, !.pm = copy]
           stale  == StaleEntries(copy.items)
           valid  == [s \in DOMAIN copy.items \ stale |-> copy.items[s]]
<1>1. worker \in MappingWorkers /\ worker.key = g
  BY IdleTypes DEF MappingWorkers, MappingIdle
<1>2. valid \in AccessPorts
  <2>1. copy.items \in AccessPorts
    BY DEF MappingObjects
  <2>2. PICK S \in SUBSET Services : copy.items \in [S -> Ports]
    BY <2>1 DEF AccessPorts
  <2>3. valid \in [S \ stale -> Ports]
    BY <2>2
  <2> QED BY <2>3 DEF AccessPorts
<1>3. [worker EXCEPT !.pc = "RemoveFinalizer", !.pm = NoMapping] \in MappingWorkers
  BY <1>1, NothingTypes DEF MappingWorkers, MappingPcs
<1>4. [worker EXCEPT !.pc = "SetReady"] \in MappingWorkers
  BY <1>1 DEF MappingWorkers, MappingPcs
<1>5. [worker EXCEPT !.pc = "Cleanup", !.valid = valid] \in MappingWorkers
  BY <1>1, <1>2 DEF MappingWorkers, MappingPcs
<1>6. /\ [worker EXCEPT !.pc = "RemoveFinalizer", !.pm = NoMapping].key = g
      /\ [worker EXCEPT !.pc = "SetReady"].key = g
      /\ [worker EXCEPT !.pc = "Cleanup", !.valid = valid].key = g
  BY <1>1 DEF MappingWorkers
<1> QED BY <1>3, <1>4, <1>5, <1>6 DEF AfterFinalizer

LEMMA ReconcileMappingType ==
    ASSUME TypeInv, NEW g \in Groups, ReconcileMapping(g)
    PROVE  MappingPart'
<1>1. cPm[g] \in MappingObjects
  BY DEF TypeInv, TypeOK, CachesOK
<1>2. [MappingIdle EXCEPT !.key = g, !.pc = "EnsureFinalizer"] \in MappingWorkers
  BY IdleTypes DEF MappingWorkers, MappingPcs
<1>3. [MappingIdle EXCEPT !.key = g, !.pc = "EnsureFinalizer"].key = g
  BY DEF MappingIdle
<1>4. pw' \in MappingWorkers /\ (pw' = MappingIdle \/ pw'.key \in Groups)
  BY <1>1, <1>2, <1>3, IdleTypes, AfterFinalizerType DEF ReconcileMapping
<1> QED
  BY <1>4 DEF ReconcileMapping, MappingPart, TypeInv, TypeOK, StoreOK, QueuesOK, store

LEMMA MappingErrorType ==
    ASSUME MappingPart, pw.key \in Groups, MappingError
    PROVE  MappingPart'
BY IdleTypes DEF MappingPart, MappingError, store

LEMMA MappingStepType ==
    ASSUME TypeInv, MappingStep
    PROVE  MappingPart'
<1> DEFINE g == pw.key
<1>1. /\ MappingPart
      /\ pw.key \in Groups
      /\ pm[g] \in MappingObjects
      /\ cPm[g] \in MappingObjects
  <2>1. pw.pc # "Idle"
    BY DEF MappingStep, EnsureMappingFinalizer, cleanupStalePortMappings, SetMappingReady,
           RemoveMappingFinalizer
  <2>2. pw # MappingIdle
    BY <2>1 DEF MappingIdle
  <2>3. MappingPart /\ pw.key \in Groups
    BY <2>2 DEF TypeInv, TypeOK, KeysOK, StoreOK, QueuesOK, WorkersOK, MappingPart
  <2> QED BY <2>3 DEF TypeInv, TypeOK, CachesOK, MappingPart
<1>2. CASE MappingError
  BY <1>1, <1>2, MappingErrorType
<1>3. /\ SavedMapping(pm[g], [pm[g] EXCEPT !.fin = TRUE]) \in MappingObjects
      /\ SavedMapping(pm[g], [pm[g] EXCEPT !.fin = FALSE]) \in MappingObjects
      /\ SavedMapping(pm[g], [pm[g] EXCEPT !.ready = TRUE]) \in MappingObjects
      /\ SavedMapping(pm[g], NoMapping) \in MappingObjects
  <2>1. /\ [pm[g] EXCEPT !.fin = TRUE] \in MappingObjects
        /\ [pm[g] EXCEPT !.fin = FALSE] \in MappingObjects
        /\ [pm[g] EXCEPT !.ready = TRUE] \in MappingObjects
    BY <1>1 DEF MappingObjects
  <2> QED BY <1>1, <2>1, NothingTypes, SavedMappingType
<1>4. ASSUME EnsureMappingFinalizer, ~MappingError PROVE MappingPart'
  <2>1. pm' \in [Groups -> MappingObjects]
    BY <1>1, <1>3, <1>4 DEF EnsureMappingFinalizer, MappingPart
  <2>2. pw' \in MappingWorkers /\ (pw' = MappingIdle \/ pw'.key \in Groups)
    BY <1>1, <1>4, IdleTypes, AfterFinalizerType DEF EnsureMappingFinalizer
  <2>3. pq' \subseteq Groups
    BY <1>1, <1>4 DEF EnsureMappingFinalizer, MappingPart
  <2> QED BY <2>1, <2>2, <2>3 DEF MappingPart
<1>5. ASSUME cleanupStalePortMappings, ~MappingError PROVE MappingPart'
  <2>1. pm' = [pm EXCEPT ![g] = CleanupPatch(pm[g], cPm[g], pw.valid)]
    BY <1>1, <1>5 DEF cleanupStalePortMappings
  <2>2. pm' \in [Groups -> MappingObjects]
    BY <1>1, <2>1, CleanupType DEF MappingPart
  <2>3. [pw EXCEPT !.pc = "SetReady", !.valid = NoItems] \in MappingWorkers
    BY <1>1, NothingTypes DEF MappingPart, MappingWorkers, MappingPcs
  <2>4. [pw EXCEPT !.pc = "SetReady", !.valid = NoItems].key = g
    BY <1>1 DEF MappingPart, MappingWorkers
  <2> QED
    BY <1>1, <1>5, <2>2, <2>3, <2>4 DEF cleanupStalePortMappings, MappingPart, queues
<1>6. ASSUME SetMappingReady, ~MappingError PROVE MappingPart'
  <2>1. pm' \in [Groups -> MappingObjects]
    BY <1>1, <1>3, <1>6 DEF SetMappingReady, MappingPart
  <2> QED BY <1>1, <1>6, <2>1, IdleTypes DEF SetMappingReady, MappingPart, queues
<1>7. ASSUME RemoveMappingFinalizer, ~MappingError PROVE MappingPart'
  <2>1. pm' \in [Groups -> MappingObjects]
    BY <1>1, <1>3, <1>7 DEF RemoveMappingFinalizer, MappingPart, store
  <2> QED BY <1>1, <1>7, <2>1, IdleTypes DEF RemoveMappingFinalizer, MappingPart, store, queues
<1> QED BY <1>2, <1>4, <1>5, <1>6, <1>7 DEF MappingStep

LEMMA MappingFrame ==
    ASSUME (\E g \in Groups : ReconcileMapping(g)) \/ MappingStep
    PROVE  UNCHANGED <<svc, bnd, ag, caches, bq, sq>>
<1>1. CASE \E g \in Groups : ReconcileMapping(g)
  BY <1>1 DEF ReconcileMapping, store
<1>2. MappingError => UNCHANGED <<svc, bnd, ag, caches, bq, sq>>
  BY DEF MappingError, store
<1>3. CASE MappingStep
  BY <1>2, <1>3
     DEF MappingStep, EnsureMappingFinalizer, cleanupStalePortMappings, SetMappingReady,
         RemoveMappingFinalizer, store, queues
<1> QED BY <1>1, <1>3

---------------------------------------------------------------------------
(* Informers, users and faults.                                            *)

LEMMA InformersType ==
    ASSUME TypeInv, Informers
    PROVE  TypeInv'
<1> USE DEF TypeInv, TypeOK, KeysOK, StoreOK, CachesOK, QueuesOK, WorkersOK, BoundsOK,
            store, workers
<1>1. CASE Resync
  BY <1>1 DEF Informers, Resync, caches
<1>2. ASSUME NEW s \in Services, SyncService(s) PROVE TypeInv'
  BY <1>2 DEF Informers, SyncService, findBindingsForService
<1>3. ASSUME NEW b \in Bindings, SyncBinding(b) PROVE TypeInv'
  BY <1>3 DEF Informers, SyncBinding
<1>4. ASSUME NEW g \in Groups, SyncMapping(g) PROVE TypeInv'
  <2>1. Content(pm[g]) \in MappingObjects
    BY MappingTypes
  <2>2. pm[g].mentions \subseteq Services
    BY DEF MappingObjects
  <2>3. pm' \in [Groups -> MappingObjects] /\ cPm' \in [Groups -> MappingObjects]
    BY <1>4, <2>1 DEF SyncMapping
  <2>4. QueuesOK'
    BY <1>4, <2>2 DEF SyncMapping, findServicesForPortMapping, findBindingsForGroup
  <2> QED BY <1>4, <2>3, <2>4 DEF Informers, SyncMapping
<1>5. ASSUME NEW g \in Groups, SyncGroup(g) PROVE TypeInv'
  BY <1>5 DEF Informers, SyncGroup, findBindingsForGroup
<1>6. ASSUME NEW g \in Groups, CollectMapping(g) PROVE TypeInv'
  <2>1. SavedMapping(pm[g], DeletedMapping(pm[g])) \in MappingObjects
    BY MappingTypes, SavedMappingType
  <2>2. pm' \in [Groups -> MappingObjects]
    BY <1>6, <2>1 DEF CollectMapping
  <2> QED BY <1>6, <2>2 DEF Informers, CollectMapping, caches, queues
<1> QED BY <1>1, <1>2, <1>3, <1>4, <1>5, <1>6 DEF Informers

LEMMA UsersType ==
    ASSUME TypeInv, Users
    PROVE  TypeInv'
<1> USE DEF TypeInv, TypeOK, KeysOK, StoreOK, CachesOK, QueuesOK, WorkersOK, BoundsOK,
            caches, queues, workers
<1> USE BoundAssumption
<1>1. ASSUME NEW s \in Services, NEW ports \in PortSets, CreateService(s, ports)
      PROVE  TypeInv'
  <2>1. [NoService EXCEPT !.phase = "live", !.ports = ports, !.rv = 1] \in ServiceObjects
    BY NothingTypes DEF ServiceObjects, Phases, Ports
  <2> QED BY <1>1, <2>1 DEF CreateService, Request
<1>2. ASSUME NEW s \in Services, NEW ports \in PortSets, UpdatePorts(s, ports)
      PROVE  TypeInv'
  <2>1. [svc[s] EXCEPT !.ports = ports, !.rv = @ + 1] \in ServiceObjects
    <3>1. svc[s] \in ServiceObjects /\ svc[s].rv + 1 \in Nat /\ ports \in Ports
      BY DEF ServiceObjects, Ports
    <3> QED BY <3>1 DEF ServiceObjects
  <2>2. svc' = [svc EXCEPT ![s] = [svc[s] EXCEPT !.ports = ports, !.rv = @ + 1]]
    BY <1>2 DEF UpdatePorts
  <2> QED BY <1>2, <2>1, <2>2 DEF UpdatePorts, Request
<1>3. ASSUME NEW s \in Services, DeleteService(s) PROVE TypeInv'
  BY <1>3, ServiceTypes DEF DeleteService, Request
<1>4. ASSUME NEW b \in Bindings, CreateBinding(b) PROVE TypeInv'
  <2>1. [NoBinding EXCEPT !.phase = "live", !.rv = bnd[b].rv + 1] \in BindingObjects
    <3>1. bnd[b].rv + 1 \in Nat
      BY DEF BindingObjects
    <3> QED BY <3>1, NothingTypes DEF BindingObjects, Phases
  <2> QED BY <1>4, <2>1 DEF CreateBinding, Request
<1>5. ASSUME NEW b \in Bindings, DeleteBinding(b) PROVE TypeInv'
  BY <1>5, BindingTypes DEF DeleteBinding, Request
<1>6. ASSUME NEW g \in Groups, DeleteGroup(g) PROVE TypeInv'
  BY <1>6 DEF DeleteGroup
<1> QED BY <1>1, <1>2, <1>3, <1>4, <1>5, <1>6 DEF Users

LEMMA FaultsType ==
    ASSUME TypeInv, FailedCall \/ Restart
    PROVE  TypeInv'
<1> USE DEF TypeInv, TypeOK, KeysOK, StoreOK, CachesOK, QueuesOK, WorkersOK, BoundsOK
<1>1. BoundsOK' /\ UNCHANGED ops
  BY BoundAssumption DEF FailedCall, Restart, Fault
<1>2. CASE Restart
  <2>1. pm' \in [Groups -> MappingObjects]
    BY <1>2, MappingTypes DEF Restart
  <2> QED BY <1>1, <1>2, <2>1, IdleTypes DEF Restart, ServiceIdle
<1>3. CASE bw # BindingIdle /\ BindingError /\ UNCHANGED <<sw, pw>>
  BY <1>1, <1>3, IdleTypes DEF BindingError, store, caches
<1>4. CASE sw # ServiceIdle /\ ServiceError /\ UNCHANGED <<bw, pw>>
  BY <1>1, <1>4, IdleTypes DEF ServiceError, store, caches, ServiceIdle
<1>5. CASE pw # MappingIdle /\ MappingError /\ UNCHANGED <<bw, sw>>
  BY <1>1, <1>5, IdleTypes DEF MappingError, store, caches
<1> QED BY <1>2, <1>3, <1>4, <1>5 DEF FailedCall

---------------------------------------------------------------------------
LEMMA NextTypeInv == TypeInv /\ [Next]_vars => TypeInv'
<1> SUFFICES ASSUME TypeInv, [Next]_vars PROVE TypeInv'
  OBVIOUS
<1>1. CASE BindingReconciler
  <2>1. BindingPart'
    BY <1>1, BindingStartType, BindingWriteType DEF BindingReconciler
  <2>2. UNCHANGED <<ag, caches, sq, pq, sw, pw, ops, faults>>
    BY <1>1, BindingFrame DEF BindingReconciler
  <2> QED
    BY <2>1, <2>2 DEF BindingPart, TypeInv, TypeOK, KeysOK, StoreOK, CachesOK, QueuesOK,
                      WorkersOK, BoundsOK, caches
<1>2. CASE ServiceReconciler
  <2>1. ServicePart'
    BY <1>2, ReconcileServiceType, ServiceStepType DEF ServiceReconciler
  <2>2. UNCHANGED <<ag, caches, bq, pq, bw, pw, ops, faults>>
    BY <1>2, ServiceFrame DEF ServiceReconciler
  <2> QED
    BY <2>1, <2>2 DEF ServicePart, TypeInv, TypeOK, KeysOK, StoreOK, CachesOK, QueuesOK,
                      WorkersOK, BoundsOK, caches
<1>3. CASE MappingReconciler
  <2>1. MappingPart'
    BY <1>3, ReconcileMappingType, MappingStepType DEF MappingReconciler
  <2>2. UNCHANGED <<svc, bnd, ag, caches, bq, sq, bw, sw, ops, faults>>
    BY <1>3, MappingFrame DEF MappingReconciler
  <2> QED
    BY <2>1, <2>2 DEF MappingPart, TypeInv, TypeOK, KeysOK, StoreOK, CachesOK, QueuesOK,
                      WorkersOK, BoundsOK, caches
<1>4. CASE UNCHANGED vars
  BY <1>4 DEF vars, store, caches, queues, workers, TypeInv, TypeOK, KeysOK, StoreOK,
              CachesOK, QueuesOK, WorkersOK, BoundsOK
<1> QED
  BY <1>1, <1>2, <1>3, <1>4, InformersType, UsersType, FaultsType DEF Next

LEMMA AlwaysTypeInv == Spec => []TypeInv
BY InitTypeInv, NextTypeInv, PTL DEF Spec

(* Every variable, cache and copy always holds an object of its kind.       *)
THEOREM TypeOKHolds == Spec => []TypeOK
<1>1. TypeInv => TypeOK
  BY DEF TypeInv
<1> QED BY <1>1, AlwaysTypeInv, PTL
=============================================================================
