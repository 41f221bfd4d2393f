----------------------- MODULE PortMappingController -----------------------
(***************************************************************************)
(* AddressGroupPortMappingReconciler: one worker that keeps a finalizer on *)
(* every mapping, tries to drop entries of services that no longer exist,  *)
(* and marks the mapping Ready.                                            *)
(***************************************************************************)
EXTENDS Cluster

VARIABLE pw     \* the worker: key, program counter, its copy, the entries to keep

MappingPcs == {"Idle", "EnsureFinalizer", "Cleanup", "SetReady", "RemoveFinalizer"}

MappingIdle == [key |-> None, pc |-> "Idle", pm |-> NoMapping, valid |-> NoItems]

MappingWorkers ==
    [key : Groups \cup {None}, pc : MappingPcs, pm : MappingObjects, valid : AccessPorts]

PInit == pw = MappingIdle

---------------------------------------------------------------------------
(* Entries of services the cached list of all services does not hold.      *)
StaleEntries(items) == {s \in DOMAIN items : ~Present(cSvc[s])}

AfterFinalizer(g, copy) ==
    LET stale  == StaleEntries(copy.items)
        worker == [MappingIdle EXCEPT !.key = g, !.pm = copy]
    IN  IF copy.phase = "deleting" THEN [worker EXCEPT !.pc = "RemoveFinalizer", !.pm = NoMapping]
        ELSE IF stale = {} THEN [worker EXCEPT !.pc = "SetReady"]
        ELSE [worker EXCEPT !.pc = "Cleanup",
                            !.valid = [s \in DOMAIN copy.items \ stale |-> copy.items[s]]]

ReconcileMapping(g) ==
    /\ pw = MappingIdle
    /\ g \in pq
    /\ pq' = pq \ {g}
    /\ pw' = IF ~Present(cPm[g]) THEN pw
             ELSE IF ~cPm[g].fin
                  THEN [MappingIdle EXCEPT !.key = g, !.pc = "EnsureFinalizer"]
             ELSE AfterFinalizer(g, cPm[g])
    /\ UNCHANGED <<store, caches, bq, sq>>

MappingError ==
    /\ pq' = pq \cup {pw.key}
    /\ pw' = MappingIdle
    /\ UNCHANGED <<store, caches, bq, sq>>

EnsureMappingFinalizer ==
    LET g == pw.key
    IN  /\ pw.pc = "EnsureFinalizer"
        /\ IF MappingAdmits(pm[g], pm[g].items)
           THEN /\ pm' = [pm EXCEPT ![g] = SavedMapping(@, [@ EXCEPT !.fin = TRUE])]
                /\ IF Present(cPm[g])
                   THEN pw' = AfterFinalizer(g, cPm[g]) /\ UNCHANGED pq
                   ELSE pw' = MappingIdle /\ pq' = pq \cup {g}
                /\ UNCHANGED <<svc, bnd, ag, caches, bq, sq>>
           ELSE MappingError

(* The edit is applied to `latest` BEFORE the base of the patch is copied  *)
(* from it: both sides of the patch are the edited list.                   *)
CleanupPatch(stored, latest, valid) ==
    LET edited   == [latest EXCEPT !.items = valid]
        original == edited
    IN  MergePatch(stored, original.items, edited.items)

cleanupStalePortMappings ==
    LET g       == pw.key
        cleaned == CleanupPatch(pm[g], cPm[g], pw.valid)
    IN  /\ pw.pc = "Cleanup"
        /\ IF Present(cPm[g]) /\ MappingAdmits(pm[g], cleaned.items)
           THEN /\ pm' = [pm EXCEPT ![g] = cleaned]
                /\ pw' = [pw EXCEPT !.pc = "SetReady", !.valid = NoItems]
                /\ UNCHANGED <<svc, bnd, ag, caches, queues>>
           ELSE MappingError

(* Status().Update of the copy read at the start: refused when the mapping *)
(* has changed since.                                                      *)
SetMappingReady ==
    LET g == pw.key
    IN  /\ pw.pc = "SetReady"
        /\ IF Present(pm[g]) /\ Content(pm[g]) = pw.pm
           THEN /\ pm' = [pm EXCEPT ![g] = SavedMapping(@, [@ EXCEPT !.ready = TRUE])]
                /\ pw' = MappingIdle
                /\ UNCHANGED <<svc, bnd, ag, caches, queues>>
           ELSE MappingError

(* reconcileDelete: the mapping is read again and its finalizer patched    *)
(* away.                                                                   *)
RemoveMappingFinalizer ==
    LET g == pw.key
    IN  /\ pw.pc = "RemoveFinalizer"
        /\ IF ~Present(cPm[g]) \/ ~cPm[g].fin
           THEN pw' = MappingIdle /\ UNCHANGED <<store, caches, queues>>
           ELSE IF Present(pm[g])
                THEN /\ pm' = [pm EXCEPT ![g] =
                                 SavedMapping(@, IF @.phase = "deleting" THEN NoMapping
                                                 ELSE [@ EXCEPT !.fin = FALSE])]
                     /\ pw' = MappingIdle
                     /\ UNCHANGED <<svc, bnd, ag, caches, queues>>
                ELSE MappingError

MappingStep ==
    \/ EnsureMappingFinalizer
    \/ cleanupStalePortMappings
    \/ SetMappingReady
    \/ RemoveMappingFinalizer
=============================================================================
