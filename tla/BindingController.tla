------------------------- MODULE BindingController -------------------------
(***************************************************************************)
(* AddressGroupBindingReconciler: one worker (MaxConcurrentReconciles is   *)
(* 1) that takes a binding off the queue, reads the binding, its Service,  *)
(* AddressGroup and AddressGroupPortMapping from the caches, and then      *)
(* performs up to five writes, one action each, on those copies.           *)
(*                                                                         *)
(* Which writes a reconcile performs is decided by the copies, so the      *)
(* worker carries the set of writes still to do, in the order of Order.    *)
(* The reads are one step: a cache that answers a later read with newer    *)
(* data is a cache that was synced before the step, and one that answers   *)
(* with older data was synced after it.                                    *)
(***************************************************************************)
EXTENDS Cluster

VARIABLE bw     \* the worker: key, writes to do, and its copies

Order == [AddFinalizer |-> 1,
          ServiceNotFound |-> 1, AddressGroupNotFound |-> 1,
          CreateMapping |-> 1, AddOwners |-> 2, AddGroup |-> 3,
          PutEntry |-> 4, SetReady |-> 5,
          RemoveGroup |-> 1, RemoveEntry |-> 2, RemoveFinalizer |-> 3]

Writes == DOMAIN Order

(* The copies: the binding, the service as AddGroup and RemoveGroup store   *)
(* it, its ports and the mapping's list as the patches use them.           *)
BindingIdle == [key |-> None, todo |-> {}, bnd |-> NoBinding, svc |-> NoService,
                ports |-> {}, items |-> NoItems]

BindingWorkers ==
    [key : Bindings \cup {None}, todo : SUBSET Writes, bnd : BindingObjects,
     svc : ServiceObjects, ports : Ports, items : AccessPorts]

(* A copy is forgotten when no write that is left uses it.                  *)
Trim(worker) ==
    [worker EXCEPT
       !.svc   = IF worker.todo \cap {"AddGroup", "RemoveGroup"} = {} THEN NoService ELSE @,
       !.ports = IF "PutEntry" \notin worker.todo THEN {} ELSE @,
       !.items = IF worker.todo \cap {"PutEntry", "RemoveEntry"} = {} THEN NoItems ELSE @]

BInit == bw = BindingIdle

---------------------------------------------------------------------------
(* Reconcile: read the caches and decide.                                  *)

(* Pick b off the queue and go on with the given writes.                   *)
Begin(b, writes) ==
    /\ bw = BindingIdle
    /\ b \in bq
    /\ bq' = bq \ {b}
    /\ bw' = IF writes = {} THEN bw
             ELSE Trim([key |-> b, todo |-> writes, bnd |-> cBnd[b],
                        svc |-> cSvc[ServiceRef[b]], ports |-> cSvc[ServiceRef[b]].ports,
                        items |-> cPm[AddressGroupRef[b]].items])
    /\ UNCHANGED <<store, caches, sq, pq>>

ReconcileGoneBinding(b) == ~Present(cBnd[b]) /\ Begin(b, {})

ReconcileNewBinding(b) ==
    /\ Present(cBnd[b]) /\ ~cBnd[b].fin
    /\ Begin(b, {"AddFinalizer"})

(* Seeded bug: a binding whose service is gone is left alone.              *)
DeleteWithService(b) ==
    LET s == ServiceRef[b]
        g == AddressGroupRef[b]
    IN  /\ cBnd[b].phase = "deleting" /\ cBnd[b].fin
        /\ Begin(b, IF ~Present(cSvc[s]) THEN {}
                    ELSE {"RemoveFinalizer"}
                         \cup {w \in {"RemoveGroup"} : g \in cSvc[s].groups}
                         \cup {w \in {"RemoveEntry"} : s \in DOMAIN cPm[g].items})

reconcileDelete(b) ==
    LET s == ServiceRef[b]
        g == AddressGroupRef[b]
    IN  /\ cBnd[b].phase = "deleting" /\ cBnd[b].fin
        /\ Begin(b, {"RemoveFinalizer"}
                    \cup {w \in {"RemoveGroup"} : Present(cSvc[s]) /\ g \in cSvc[s].groups}
                    \cup {w \in {"RemoveEntry"} : s \in DOMAIN cPm[g].items})

Reconcilable(b) == cBnd[b].phase = "live" /\ cBnd[b].fin

ReconcileWithoutService(b) ==
    /\ Reconcilable(b) /\ ~Present(cSvc[ServiceRef[b]])
    /\ Begin(b, {"ServiceNotFound"})

ReconcileWithoutGroup(b) ==
    /\ Reconcilable(b) /\ Present(cSvc[ServiceRef[b]]) /\ ~cAg[AddressGroupRef[b]]
    /\ Begin(b, {"AddressGroupNotFound"})

EntryCurrent(items, s, ports) == s \in DOMAIN items /\ items[s] = ports

reconcileNormal(b) ==
    LET s == ServiceRef[b]
        g == AddressGroupRef[b]
    IN  /\ Reconcilable(b) /\ Present(cSvc[s]) /\ cAg[g]
        /\ Begin(b, {"SetReady"}
                    \cup {w \in {"CreateMapping"} : ~Present(cPm[g])}
                    \cup {w \in {"AddOwners"} : ~cBnd[b].owned}
                    \cup {w \in {"AddGroup"} : g \notin cSvc[s].groups}
                    \cup {w \in {"PutEntry"} : ~EntryCurrent(cPm[g].items, s, cSvc[s].ports)})

---------------------------------------------------------------------------
(* The writes.  Each one either succeeds and the worker goes on, or fails  *)
(* -- a conflict on a stale copy, an object that is gone, a webhook that    *)
(* refuses -- and Reconcile returns the error: the key is queued again and *)
(* everything is read anew.  UpdateWithRetry never gets past a conflict:   *)
(* its retries send the same resourceVersion (see RetryUtils).             *)

Due(w) == w \in bw.todo /\ \A v \in bw.todo : Order[w] <= Order[v]

(* The worker after write w, with its copies as the given record has them. *)
Advance(w, worker) ==
    bw' = IF worker.todo = {w} THEN BindingIdle
          ELSE Trim([worker EXCEPT !.todo = @ \ {w}])

BindingError ==
    /\ bq' = bq \cup {bw.key}
    /\ bw' = BindingIdle
    /\ UNCHANGED <<store, caches, sq, pq>>

(* r.Update / r.Status().Update of the binding itself.                     *)
UpdateBinding(w, new, admitted) ==
    LET b == bw.key
    IN  IF Accepts(bnd[b], bw.bnd) /\ admitted
        THEN /\ bnd' = [bnd EXCEPT ![b] = Saved(@, new)]
             /\ Advance(w, [bw EXCEPT !.bnd = Saved(bnd[b], new)])
             /\ UNCHANGED <<svc, pm, ag, caches, queues>>
        ELSE BindingError

AddFinalizer ==
    /\ Due("AddFinalizer")
    /\ UpdateBinding("AddFinalizer", [bw.bnd EXCEPT !.fin = TRUE], BindingAdmits(bw.key))

AddOwners ==
    /\ Due("AddOwners")
    /\ UpdateBinding("AddOwners", [bw.bnd EXCEPT !.owned = TRUE], BindingAdmits(bw.key))

(* setCondition changes the condition only when its Status differs.        *)
SetReady ==
    /\ Due("SetReady")
    /\ UpdateBinding("SetReady", [bw.bnd EXCEPT !.ready = "True"], TRUE)

(* r.Update of the whole Service with the edited AddressGroups.            *)
UpdateServiceGroups(w, groups) ==
    LET s == ServiceRef[bw.key]
        new == [bw.svc EXCEPT !.groups = groups]
    IN  IF Accepts(svc[s], bw.svc)
        THEN /\ svc' = [svc EXCEPT ![s] = Saved(@, new)]
             /\ Advance(w, bw)
             /\ UNCHANGED <<bnd, pm, ag, caches, queues>>
        ELSE BindingError

AddGroup ==
    /\ Due("AddGroup")
    /\ UpdateServiceGroups("AddGroup", bw.svc.groups \cup {AddressGroupRef[bw.key]})

RemoveGroup ==
    /\ Due("RemoveGroup")
    /\ UpdateServiceGroups("RemoveGroup", bw.svc.groups \ {AddressGroupRef[bw.key]})

(* r.Create: AlreadyExists is an error like any other.                     *)
CreateMapping ==
    LET g == AddressGroupRef[bw.key]
    IN  /\ Due("CreateMapping")
        /\ IF Present(pm[g]) THEN BindingError
           ELSE /\ pm' = [pm EXCEPT ![g] = SavedMapping(@, [NoMapping EXCEPT !.phase = "live"])]
                /\ Advance("CreateMapping", bw)
                /\ UNCHANGED <<svc, bnd, ag, caches, queues>>

(* PatchWithRetry of the list of entries as it was READ at the start.      *)
PatchMapping(w, items) ==
    LET g == AddressGroupRef[bw.key]
    IN  IF MappingAdmits(pm[g], items)
        THEN /\ pm' = [pm EXCEPT ![g] = MergePatch(@, bw.items, items)]
             /\ Advance(w, bw)
             /\ UNCHANGED <<svc, bnd, ag, caches, queues>>
        ELSE BindingError

PutServiceEntry ==
    /\ Due("PutEntry")
    /\ PatchMapping("PutEntry", PutEntry(bw.items, ServiceRef[bw.key], bw.ports))

RemoveServiceEntry ==
    /\ Due("RemoveEntry")
    /\ PatchMapping("RemoveEntry", DropEntry(bw.items, ServiceRef[bw.key]))

(* Removing the last finalizer of an object being deleted removes it.      *)
RemoveBindingFinalizer ==
    LET b == bw.key
    IN  /\ Due("RemoveFinalizer")
        /\ IF Accepts(bnd[b], bw.bnd) /\ BindingAdmits(b)
           THEN /\ bnd' = [bnd EXCEPT ![b] = RemovedBinding(@)]
                /\ bw' = BindingIdle
                /\ UNCHANGED <<svc, pm, ag, caches, queues>>
           ELSE BindingError

(* The status of a binding whose service, or group, is missing, and the    *)
(* RequeueAfter: one minute while the service is missing; once, to update  *)
(* the message, while the group is.                                        *)
ReportMissing(w, ready, again) ==
    LET b == bw.key
        new == [bw.bnd EXCEPT !.ready = ready]
    IN  IF Accepts(bnd[b], bw.bnd)
        THEN /\ bnd' = [bnd EXCEPT ![b] = Saved(@, new)]
             /\ bw' = BindingIdle
             /\ bq' = IF again THEN bq \cup {b} ELSE bq
             /\ UNCHANGED <<svc, pm, ag, caches, sq, pq>>
        ELSE BindingError

ReportServiceNotFound ==
    /\ Due("ServiceNotFound")
    /\ ReportMissing("ServiceNotFound",
                     IF bw.bnd.ready \in {"Unset", "True"} THEN "ServiceNotFound"
                     ELSE bw.bnd.ready,
                     TRUE)

ReportAddressGroupNotFound ==
    /\ Due("AddressGroupNotFound")
    /\ ReportMissing("AddressGroupNotFound", "AddressGroupNotFound",
                     bw.bnd.ready # "AddressGroupNotFound")

---------------------------------------------------------------------------
BindingStart(b) ==
    \/ ReconcileGoneBinding(b)
    \/ ReconcileNewBinding(b)
    \/ reconcileDelete(b)
    \/ ReconcileWithoutService(b)
    \/ ReconcileWithoutGroup(b)
    \/ reconcileNormal(b)

BindingWrite ==
    \/ AddFinalizer \/ AddOwners \/ SetReady
    \/ AddGroup \/ RemoveGroup
    \/ CreateMapping \/ PutServiceEntry \/ RemoveServiceEntry
    \/ RemoveBindingFinalizer
    \/ ReportServiceNotFound \/ ReportAddressGroupNotFound
=============================================================================
