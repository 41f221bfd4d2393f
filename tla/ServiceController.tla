------------------------- MODULE ServiceController -------------------------
(***************************************************************************)
(* ServiceReconciler: one worker that makes a service Ready, copies its    *)
(* ports into the mapping of every group the service lists, and on         *)
(* deletion deletes the service's bindings, takes the service out of the   *)
(* mappings and removes its own finalizer.                                 *)
(*                                                                         *)
(* The finalizers are merge patches (EnsureFinalizer, RemoveFinalizer) and *)
(* the mapping of a group is read right before it is patched, but still    *)
(* from the cache.                                                         *)
(***************************************************************************)
EXTENDS Cluster

VARIABLE sw     \* the worker: key, program counter, copies, what is left to do

ServicePcs == {"Idle", "EnsureFinalizer", "SetReady", "DeleteBindings", "Mappings",
               "Patch", "RemoveFinalizer"}

(* svc is the copy whose status is updated; the rest of a reconcile needs   *)
(* its ports, whether it is being deleted, and what is left to visit.      *)
ServiceIdle == [key |-> None, pc |-> "Idle", svc |-> NoService, deleting |-> FALSE,
                ports |-> {}, bindings |-> {}, groups |-> {}, group |-> None,
                items |-> NoItems]

ServiceWorkers ==
    [key : Services \cup {None}, pc : ServicePcs, svc : ServiceObjects,
     deleting : BOOLEAN, ports : Ports, bindings : SUBSET Bindings,
     groups : SUBSET Groups, group : Groups \cup {None}, items : AccessPorts]

SInit == sw = ServiceIdle

---------------------------------------------------------------------------
(* The worker once the groups still to visit are `groups`: the loop over   *)
(* service.AddressGroups.Items ends with the reconcile, or, for a service  *)
(* being deleted, with the removal of the finalizer.                       *)
Visiting(worker, groups) ==
    IF groups # {}
    THEN [worker EXCEPT !.pc = "Mappings", !.groups = groups, !.group = None,
                        !.items = NoItems]
    ELSE IF worker.deleting
         THEN [worker EXCEPT !.pc = "RemoveFinalizer", !.groups = {}, !.group = None,
                             !.items = NoItems]
         ELSE ServiceIdle

(* Seeded bug: the ports go into every mapping, not those of the groups     *)
(* that the service lists.                                                 *)
UpdateAllMappings(s, copy) ==
    Visiting([ServiceIdle EXCEPT !.key = s, !.ports = copy.ports],
             IF copy.ports = {} THEN {} ELSE Groups)

(* Once the service is Ready; mappings are only touched for a service with *)
(* ports.                                                                  *)
UpdateMappings(s, copy) ==
    Visiting([ServiceIdle EXCEPT !.key = s, !.ports = copy.ports],
             IF copy.ports = {} THEN {} ELSE copy.groups)

(* reconcileNormal and reconcileDelete, up to their first write.           *)
Dispatch(s, copy) ==
    IF copy.phase = "deleting"
    THEN [ServiceIdle EXCEPT !.key = s, !.pc = "DeleteBindings", !.deleting = TRUE,
                             !.bindings = findBindingsForService(s),
                             !.groups = copy.groups]
    ELSE IF ~copy.ready
    THEN [ServiceIdle EXCEPT !.key = s, !.pc = "SetReady", !.svc = copy]
    ELSE UpdateMappings(s, copy)

ReconcileService(s) ==
    /\ sw = ServiceIdle
    /\ s \in sq
    /\ sq' = sq \ {s}
    /\ sw' = IF ~Present(cSvc[s]) THEN sw
             ELSE IF ~cSvc[s].fin
                  THEN [ServiceIdle EXCEPT !.key = s, !.pc = "EnsureFinalizer"]
             ELSE Dispatch(s, cSvc[s])
    /\ UNCHANGED <<store, caches, bq, pq>>

ServiceError ==
    /\ sq' = sq \cup {sw.key}
    /\ sw' = ServiceIdle
    /\ UNCHANGED <<store, caches, bq, pq>>

(* The patch adds the finalizer to whatever is stored; the service is then *)
(* read again, from the cache, which need not have seen the patch yet.     *)
EnsureServiceFinalizer ==
    LET s == sw.key
    IN  /\ sw.pc = "EnsureFinalizer"
        /\ IF Present(svc[s])
           THEN /\ svc' = [svc EXCEPT ![s] = Saved(@, [@ EXCEPT !.fin = TRUE])]
                /\ IF Present(cSvc[s])
                   THEN sw' = Dispatch(s, cSvc[s]) /\ UNCHANGED sq
                   ELSE sw' = ServiceIdle /\ sq' = sq \cup {s}
                /\ UNCHANGED <<bnd, pm, ag, caches, bq, pq>>
           ELSE ServiceError

(* Status().Update: only the status is stored.                             *)
SetServiceReady ==
    LET s == sw.key
    IN  /\ sw.pc = "SetReady"
        /\ IF Accepts(svc[s], sw.svc)
           THEN /\ svc' = [svc EXCEPT ![s] = Saved(@, [@ EXCEPT !.ready = TRUE])]
                /\ sw' = UpdateMappings(s, sw.svc)
                /\ UNCHANGED <<bnd, pm, ag, caches, queues>>
           ELSE ServiceError

(* r.Delete of one listed binding, by name: a successor of the same name   *)
(* is deleted as well, a binding that is gone is an error.                 *)
DeleteOneBinding ==
    /\ sw.pc = "DeleteBindings"
    /\ \E b \in sw.bindings :
         IF Present(bnd[b])
         THEN /\ bnd' = [bnd EXCEPT ![b] = DeletedBinding(@)]
              /\ sw' = [sw EXCEPT !.bindings = @ \ {b}]
              /\ UNCHANGED <<svc, pm, ag, caches, queues>>
         ELSE ServiceError

BindingsDeleted ==
    /\ sw.pc = "DeleteBindings"
    /\ sw.bindings = {}
    /\ sw' = Visiting(sw, sw.groups)
    /\ UNCHANGED <<store, caches, queues>>

(* Whether the cached mapping of a group calls for a patch.                *)
NeedsPatch(g) ==
    LET items == cPm[g].items
        s     == sw.key
    IN  IF sw.deleting THEN s \in DOMAIN items
        ELSE Present(cPm[g]) /\ ~(s \in DOMAIN items /\ items[s] = sw.ports)

ReadMapping ==
    /\ sw.pc = "Mappings"
    /\ \E g \in sw.groups :
         sw' = IF NeedsPatch(g)
               THEN [sw EXCEPT !.pc = "Patch", !.group = g, !.items = cPm[g].items]
               ELSE Visiting(sw, sw.groups \ {g})
    /\ UNCHANGED <<store, caches, queues>>

(* The list as read, with the service put in or taken out, replaces the    *)
(* stored list.                                                            *)
PatchServiceEntry ==
    LET g     == sw.group
        items == IF sw.deleting THEN DropEntry(sw.items, sw.key)
                 ELSE PutEntry(sw.items, sw.key, sw.ports)
    IN  /\ sw.pc = "Patch"
        /\ IF MappingAdmits(pm[g], items)
           THEN /\ pm' = [pm EXCEPT ![g] = MergePatch(@, sw.items, items)]
                /\ sw' = Visiting(sw, sw.groups \ {g})
                /\ UNCHANGED <<svc, bnd, ag, caches, queues>>
           ELSE ServiceError

(* The patch removes the finalizer from whatever is stored, the service    *)
(* being deleted; nothing is done when the service is already gone.        *)
RemoveServiceFinalizer ==
    LET s == sw.key
    IN  /\ sw.pc = "RemoveFinalizer"
        /\ IF ~Present(cSvc[s]) \/ ~cSvc[s].fin
           THEN sw' = ServiceIdle /\ UNCHANGED <<store, caches, queues>>
           ELSE IF Present(svc[s])
                THEN /\ svc' = [svc EXCEPT ![s] = RemovedService(@)]
                     /\ sw' = ServiceIdle
                     /\ UNCHANGED <<bnd, pm, ag, caches, queues>>
                ELSE ServiceError

ServiceStep ==
    \/ EnsureServiceFinalizer
    \/ SetServiceReady
    \/ DeleteOneBinding
    \/ BindingsDeleted
    \/ ReadMapping
    \/ PatchServiceEntry
    \/ RemoveServiceFinalizer
=============================================================================
