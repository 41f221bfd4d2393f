------------------------------ MODULE Cluster ------------------------------
(***************************************************************************)
(* What the controllers of the manager process share: the objects in the   *)
(* API server, the informer caches that every Get and List of the manager's *)
(* client reads, and the three work queues.  The controllers themselves    *)
(* are BindingController, ServiceController and PortMappingController.     *)
(*                                                                         *)
(* Objects are written with the three calls the code makes:                *)
(*   Update        the whole object, refused unless the resourceVersion    *)
(*                 (rv) of the writer's copy is the stored one;            *)
(*   Status.Update the same lock, but only the status is stored;           *)
(*   merge Patch   no lock: the fields that differ between the copy before *)
(*                 and the copy after the edit replace the stored ones,    *)
(*                 a list as a whole.                                      *)
(* Validating webhooks run inside these calls and read the caches too.     *)
(*                                                                         *)
(* One namespace.  Ports are sets of port numbers: PortUtils justifies     *)
(* reading "the ranges overlap" as "the sets intersect".                   *)
(***************************************************************************)
EXTENDS Naturals, FiniteSets

CONSTANTS Services, Groups, Bindings,
          ServiceRef, AddressGroupRef,   \* Spec of every binding
          PortSets,                      \* the ports a service may declare
          None                           \* no object

ASSUME RefAssumption == /\ ServiceRef \in [Bindings -> Services]
                        /\ AddressGroupRef \in [Bindings -> Groups]
ASSUME NoneAssumption == None \notin Services \cup Groups \cup Bindings

VARIABLES svc, bnd, pm, ag,         \* API server
          cSvc, cBnd, cPm, cAg,     \* informer caches
          bq, sq, pq                \* work queues of the three controllers

store  == <<svc, bnd, pm, ag>>
caches == <<cSvc, cBnd, cPm, cAg>>
queues == <<bq, sq, pq>>

---------------------------------------------------------------------------
(* Objects.  An absent object keeps its last rv, so that a copy of a       *)
(* deleted object is never taken for a copy of its successor.              *)

Phases == {"absent", "live", "deleting"}

ReadyStates == {"Unset", "True", "ServiceNotFound", "AddressGroupNotFound"}

(* An absent service has no ports.                                         *)
Ports == PortSets \cup {{}}

(* The partial functions from services to ports.                           *)
AccessPorts == UNION {[S -> Ports] : S \in SUBSET Services}

ServiceObjects ==
    [phase : Phases, fin : BOOLEAN, ready : BOOLEAN, ports : Ports,
     groups : SUBSET Groups, rv : Nat]

BindingObjects ==
    [phase : Phases, fin : BOOLEAN, owned : BOOLEAN, ready : ReadyStates, rv : Nat]

(* The rv of a mapping is stood for by its content: the only write that     *)
(* checks it (its status) gives the same result either way.  Since content  *)
(* may change back before a watch delivers it, a mapping says whether there *)
(* is an event to deliver, and which services its events mention.           *)
MappingObjects ==
    [phase : Phases, fin : BOOLEAN, ready : BOOLEAN, items : AccessPorts,
     event : BOOLEAN, mentions : SUBSET Services]

NoItems == [s \in {} |-> {}]

NoService == [phase |-> "absent", fin |-> FALSE, ready |-> FALSE, ports |-> {},
              groups |-> {}, rv |-> 0]
NoBinding == [phase |-> "absent", fin |-> FALSE, owned |-> FALSE,
              ready |-> "Unset", rv |-> 0]
NoMapping == [phase |-> "absent", fin |-> FALSE, ready |-> FALSE, items |-> NoItems,
              event |-> FALSE, mentions |-> {}]

Present(o) == o.phase # "absent"

(* The object after its last finalizer is gone, or after a delete request.  *)
RemovedService(o) == [NoService EXCEPT !.rv = o.rv + 1]
RemovedBinding(o) == [NoBinding EXCEPT !.rv = o.rv + 1]

DeletedService(o) ==
    IF o.phase = "deleting" THEN o
    ELSE IF o.fin THEN [o EXCEPT !.phase = "deleting", !.rv = @ + 1] ELSE RemovedService(o)

DeletedBinding(o) ==
    IF o.phase = "deleting" THEN o
    ELSE IF o.fin THEN [o EXCEPT !.phase = "deleting", !.rv = @ + 1] ELSE RemovedBinding(o)

DeletedMapping(o) == IF o.fin THEN [o EXCEPT !.phase = "deleting"] ELSE NoMapping

---------------------------------------------------------------------------
(* Update and Status.Update: the optimistic lock.                          *)

(* Seeded bug: last writer wins.                                           *)
AcceptsAny(stored, copy) == Present(stored)

Accepts(stored, copy) == Present(stored) /\ stored.rv = copy.rv

(* The API server leaves an object alone that a write does not change.      *)
Saved(stored, new) ==
    IF [new EXCEPT !.rv = stored.rv] = stored THEN stored
    ELSE [new EXCEPT !.rv = stored.rv + 1]

(* A mapping without its undelivered events, and the same for a write: an   *)
(* update event is mapped for the old object and for the new one.           *)
Content(mapping) == [mapping EXCEPT !.event = FALSE, !.mentions = {}]

SavedMapping(stored, new) ==
    IF Content(new) = Content(stored) THEN stored
    ELSE [new EXCEPT !.event = TRUE,
                     !.mentions = stored.mentions \cup DOMAIN stored.items \cup DOMAIN new.items]

---------------------------------------------------------------------------
(* The entries of a mapping, and client.MergeFrom on them.                 *)

PutEntry(items, s, ports) ==
    [t \in DOMAIN items \cup {s} |-> IF t = s THEN ports ELSE items[t]]

DropEntry(items, s) == [t \in DOMAIN items \ {s} |-> items[t]]

MergePatch(stored, base, modified) ==
    IF base = modified THEN stored
    ELSE SavedMapping(stored, [stored EXCEPT !.items = modified])

(* checkInternalPortOverlaps *)
Disjoint(items) ==
    \A s, t \in DOMAIN items : s # t => items[s] \cap items[t] = {}

(* CheckPortOverlaps of a service against a mapping.                        *)
Fits(s, ports, items) ==
    \A t \in DOMAIN items : t # s => ports \cap items[t] = {}

(* Seeded bug: the mapping's validator is not called for updates.           *)
MappingUnchecked(stored, items) == Present(stored)

(* AddressGroupPortMappingCustomValidator.ValidateUpdate lets the patch in. *)
MappingAdmits(stored, items) ==
    Present(stored) /\ (stored.phase = "deleting" \/ Disjoint(items))

(* What ValidateCreate and ValidateUpdate of a binding look up: a Ready     *)
(* service, the address group, room for the service's ports.                *)
BindingRefsAdmitted(b) ==
    LET s == ServiceRef[b]
        g == AddressGroupRef[b]
    IN  /\ Present(cSvc[s]) /\ cSvc[s].ready
        /\ cAg[g]
        /\ Present(cPm[g]) => Fits(s, cSvc[s].ports, cPm[g].items)

(* ValidateUpdate lets everything pass once the object is being deleted.     *)
BindingAdmits(b) == bnd[b].phase = "deleting" \/ BindingRefsAdmitted(b)

---------------------------------------------------------------------------
(* Watches: which keys a changed object puts on which queue.               *)

findBindingsForService(s) ==
    {b \in Bindings : Present(cBnd[b]) /\ ServiceRef[b] = s}

(* Seeded bug: the group's own key is queued in place of its bindings'.     *)
GroupKey(g) == {g}

findBindingsForGroup(g) ==
    {b \in Bindings : Present(cBnd[b]) /\ AddressGroupRef[b] = g}

findServicesForPortMapping(mapping) == mapping.mentions

SyncService(s) ==
    /\ cSvc[s] # svc[s]
    /\ cSvc' = [cSvc EXCEPT ![s] = svc[s]]
    /\ sq' = sq \cup {s}
    /\ bq' = bq \cup findBindingsForService(s)
    /\ UNCHANGED <<store, cBnd, cPm, cAg, pq>>

SyncBinding(b) ==
    /\ cBnd[b] # bnd[b]
    /\ cBnd' = [cBnd EXCEPT ![b] = bnd[b]]
    /\ bq' = bq \cup {b}
    /\ UNCHANGED <<store, cSvc, cPm, cAg, sq, pq>>

(* Seeded bug: only the mapping's own controller watches it.                *)
SyncMappingAlone(g) ==
    /\ pm[g].event
    /\ pm' = [pm EXCEPT ![g] = Content(@)]
    /\ cPm' = [cPm EXCEPT ![g] = Content(pm[g])]
    /\ pq' = pq \cup {g}
    /\ UNCHANGED <<svc, bnd, ag, cSvc, cBnd, cAg, bq, sq>>

SyncMapping(g) ==
    /\ pm[g].event
    /\ pm' = [pm EXCEPT ![g] = Content(@)]
    /\ cPm' = [cPm EXCEPT ![g] = Content(pm[g])]
    /\ bq' = bq \cup findBindingsForGroup(g)
    /\ sq' = sq \cup findServicesForPortMapping(pm[g])
    /\ pq' = pq \cup {g}
    /\ UNCHANGED <<svc, bnd, ag, cSvc, cBnd, cAg>>

SyncGroup(g) ==
    /\ cAg[g] # ag[g]
    /\ cAg' = [cAg EXCEPT ![g] = ag[g]]
    /\ bq' = bq \cup findBindingsForGroup(g)
    /\ UNCHANGED <<store, cSvc, cBnd, cPm, sq, pq>>

(* The garbage collector deletes a mapping whose controller owner, the      *)
(* address group, is gone.                                                  *)
CollectMapping(g) ==
    /\ ~ag[g]
    /\ pm[g].phase = "live"
    /\ pm' = [pm EXCEPT ![g] = SavedMapping(@, DeletedMapping(@))]
    /\ UNCHANGED <<svc, bnd, ag, caches, queues>>
=============================================================================
