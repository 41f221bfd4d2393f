--------------------------- MODULE PortRegistry ---------------------------
(***************************************************************************)
(* How ports get into the AddressGroupPortMapping of ONE address group,    *)
(* with the best possible timing: every webhook and every reconcile reads  *)
(* fresh objects and runs as one step.  What goes wrong here goes wrong    *)
(* without any race; races are the subject of BindingSync.                 *)
(*                                                                         *)
(* A service is identified by its name AND its namespace; the checks of    *)
(* the code identify it, in places, by its name only.  The policies that   *)
(* let a service of another namespace bind are taken as granted.           *)
(***************************************************************************)
EXTENDS PortUtils

CONSTANTS Services,     \* records [name, ns]
          PortLists,    \* the ingress-port lists users submit
          Bindings,     \* AddressGroupBinding objects
          Namespace,    \* of every binding
          None,         \* no service
          MaxStrays     \* bound: services left behind at a time

ASSUME IdentityAssumption ==
    \A s, t \in Services : s.name = t.name /\ s.ns = t.ns => s = t
ASSUME PortListsAssumption == PortLists \subseteq Seq(IngressPorts)
ASSUME NoneAssumption == None \notin Services

VARIABLES spec,         \* Service.Spec.IngressPorts
          binding,      \* the bindings that name the group
          listed,       \* services whose Service.AddressGroups has the group
          items,        \* AddressGroupPortMapping.AccessPorts.Items
          strays        \* history: listed services that a binding was moved away from

vars == <<spec, binding, listed, items, strays>>

(* A binding gets its finalizer, then the owner references for the pair it *)
(* names, then Ready.  Until it is Ready a user may change the pair.       *)
Unready == {"new", "finalized", "owned"}
Live    == Unready \cup {"ready"}

(* The binding is not there, or it names another group.                    *)
Elsewhere == [phase |-> "absent", service |-> None]

BindingObjects ==
    {Elsewhere} \cup [phase : Live \cup {"deleting"}, service : Services]

To(b, phase) == [binding EXCEPT ![b].phase = phase]

(* Seeded bug: the namespace defaults instead of being the service's.      *)
EntryInDefault(s) == [name |-> s.name, ns |-> "default",
                      ports |-> ConvertIngressPortsToProtocolPorts(spec[s])]

EntryOf(s) == [name |-> s.name, ns |-> s.ns,
               ports |-> ConvertIngressPortsToProtocolPorts(spec[s])]

IsFor(e, s) == e.name = s.name /\ e.ns = s.ns

(* Seeded bug: entries are told apart by name when one is taken off.       *)
WithoutName(s) == Kept(items, {k \in DOMAIN items : items[k].name # s.name})

Without(s) == Kept(items, {k \in DOMAIN items : ~IsFor(items[k], s)})

(* The lists that ServiceCustomValidator lets in.                          *)
ValidLists == {ports \in PortLists : ServicePortsValid(ports)}

(* ServiceCustomValidator.ValidateCreate                                   *)
Init ==
    /\ spec \in [Services -> ValidLists]
    /\ binding = [b \in Bindings |-> Elsewhere]
    /\ listed = {}
    /\ items = <<>>
    /\ strays = {}

(* ServiceCustomValidator.ValidateUpdate: overlaps are looked for only     *)
(* once the service lists the group.                                       *)
UpdatePorts(s, ports) ==
    /\ ports \in ValidLists \ {spec[s]}
    /\ s \in listed => CheckPortOverlaps(s.name, ports, Without(s))
    /\ spec' = [spec EXCEPT ![s] = ports]
    /\ UNCHANGED <<binding, listed, items, strays>>

(* What AddressGroupBindingCustomValidator asks of a pair that is new to a *)
(* binding: the duplicate check skips bindings being deleted and compares  *)
(* service NAMES.                                                          *)
Admitted(b, s) ==
    /\ s.ns = Namespace[b]
    /\ \A c \in Bindings \ {b} :
         binding[c].phase \in Live => binding[c].service.name # s.name
    /\ CheckPortOverlaps(s.name, spec[s], items)

CreateBinding(b, s) ==
    /\ binding[b] = Elsewhere
    /\ Admitted(b, s)
    /\ binding' = [binding EXCEPT ![b] = [phase |-> "new", service |-> s]]
    /\ UNCHANGED <<spec, listed, items, strays>>

(* A user makes a binding name another service, or leave the group for     *)
(* another one, or enter it.  Finalizer and owner references it may have   *)
(* from any pair it named before; a binding being deleted is not validated *)
(* at all.  Nobody takes the group off the service it names no more.       *)
UpdateBinding(b, to) ==
    /\ Cardinality(strays) < MaxStrays
    /\ to.service # binding[b].service
    /\ to.service # None => to.service.ns = Namespace[b]
    /\ CASE binding[b] = Elsewhere           -> to.phase # "ready"
         [] binding[b].phase = "deleting"    -> to.phase \in {"absent", "deleting"}
         [] binding[b].phase = "new"         -> to.phase \in {"absent", "new"}
         [] binding[b].phase \in {"finalized", "owned"} ->
              to.phase \in {"absent", "finalized", "owned"}
         [] OTHER                            -> FALSE
    /\ to.phase \in Unready => Admitted(b, to.service)
    /\ binding' = [binding EXCEPT ![b] = to]
    /\ strays' = strays \cup ({binding[b].service} \cap listed)
    /\ UNCHANGED <<spec, listed, items>>

(* Without a finalizer the binding is gone at once.                        *)
DeleteBinding(b) ==
    /\ binding[b].phase \in Live
    /\ binding' = IF binding[b].phase = "new" THEN [binding EXCEPT ![b] = Elsewhere]
                                              ELSE To(b, "deleting")
    /\ UNCHANGED <<spec, listed, items, strays>>

(* The finalizer, an update that ValidateUpdate checks again.              *)
AddFinalizer(b) ==
    /\ binding[b].phase = "new"
    /\ CheckPortOverlaps(binding[b].service.name, spec[binding[b].service], items)
    /\ binding' = To(b, "finalized")
    /\ UNCHANGED <<spec, listed, items, strays>>

(* Seeded bug: an update appends instead of replacing.                     *)
AppendEntry(s) == Append(items, EntryOf(s))

(* The list with the service's entry replaced in place, or appended.       *)
WithEntry(s) ==
    IF \E k \in DOMAIN items : IsFor(items[k], s)
    THEN [k \in DOMAIN items |-> IF IsFor(items[k], s) THEN EntryOf(s) ELSE items[k]]
    ELSE Append(items, EntryOf(s))

(* reconcileNormal of the binding: the owner references, checked like the  *)
(* finalizer; the group is recorded in the service; the mapping is patched, *)
(* and its validator may reject the patch, which leaves the group recorded  *)
(* and the binding not Ready.                                              *)
ReconcileBinding(b) ==
    LET s        == binding[b].service
        admitted == checkInternalPortOverlaps(WithEntry(s))
    IN  /\ binding[b].phase \in {"finalized", "owned", "ready"}
        /\ binding[b].phase = "finalized" => CheckPortOverlaps(s.name, spec[s], items)
        /\ binding' = To(b, IF admitted THEN "ready"
                            ELSE IF binding[b].phase = "ready" THEN "ready" ELSE "owned")
        /\ listed' = listed \cup {s}
        /\ items' = IF admitted THEN WithEntry(s) ELSE items
        /\ UNCHANGED <<spec, strays>>

(* reconcileNormal of the service: bring the entry of a service that has   *)
(* ports and lists the group up to date, or add it.                        *)
ReconcileService(s) ==
    /\ s \in listed
    /\ spec[s] # <<>>
    /\ checkInternalPortOverlaps(WithEntry(s))
    /\ items' = WithEntry(s)
    /\ UNCHANGED <<spec, binding, listed, strays>>

(* Seeded bug: the entry stays in the mapping.                             *)
ForgetEntry(b) ==
    /\ binding[b].phase = "deleting"
    /\ binding' = [binding EXCEPT ![b] = Elsewhere]
    /\ listed' = listed \ {binding[b].service}
    /\ strays' = strays \ {binding[b].service}
    /\ UNCHANGED <<spec, items>>

(* reconcileDelete of the binding: whoever else binds the service, the     *)
(* group is taken off it and its entry off the mapping.                    *)
ReconcileDeletedBinding(b) ==
    LET s == binding[b].service
    IN  /\ binding[b].phase = "deleting"
        /\ checkInternalPortOverlaps(Without(s))
        /\ binding' = [binding EXCEPT ![b] = Elsewhere]
        /\ listed' = listed \ {s}
        /\ items' = Without(s)
        /\ strays' = strays \ {s}
        /\ UNCHANGED spec

Next ==
    \/ \E s \in Services :
         \/ \E ports \in PortLists : UpdatePorts(s, ports)
         \/ ReconcileService(s)
    \/ \E b \in Bindings :
         \/ \E s \in Services : CreateBinding(b, s)
         \/ \E to \in BindingObjects : UpdateBinding(b, to)
         \/ DeleteBinding(b)
         \/ AddFinalizer(b)
         \/ ReconcileBinding(b)
         \/ ReconcileDeletedBinding(b)

Spec == Init /\ [][Next]_vars

---------------------------------------------------------------------------
(* The entries that some service with some list of ports would have.        *)
Entries ==
    {[name |-> s.name, ns |-> s.ns, ports |-> ConvertIngressPortsToProtocolPorts(ports)] :
       s \in Services, ports \in PortLists}

(* Every variable holds what the API server can hold.                      *)
TypeOK ==
    /\ spec \in [Services -> PortLists]
    /\ binding \in [Bindings -> BindingObjects]
    /\ listed \subseteq Services /\ strays \subseteq Services
    /\ items \in Seq(Entries)

(* The port numbers of a list of literals.                                 *)
Numbers(texts) ==
    UNION {LET r == ParsePortRange(texts[i]) IN r.start..r.end : i \in DOMAIN texts}

(* The port numbers an entry opens for a protocol.                         *)
PortsOpened(e, proto) == Numbers(e.ports[proto])

(* No port of the group is opened by two services of different names, in   *)
(* whatever order bindings, port changes and reconciles come; "port" is a  *)
(* number here, while the code only ever compares range boundaries.        *)
NamesDisjoint ==
    \A k, m \in DOMAIN items, proto \in Protocols :
        items[k].name # items[m].name
        => PortsOpened(items[k], proto) \cap PortsOpened(items[m], proto) = {}

(* Everything stored in a mapping parses again: the parse errors that the  *)
(* overlap checks report about the mapping itself cannot occur, so one     *)
(* service can never lock the others out of the group.                     *)
StoredPortsParse ==
    \A k \in DOMAIN items, proto \in Protocols : AllParse(items[k].ports[proto])

(* One entry per service, however often it is bound and unbound.           *)
OneEntryPerService ==
    \A k, m \in DOMAIN items :
        (\E s \in Services : IsFor(items[k], s) /\ IsFor(items[m], s)) => k = m

(* The sorting variant (CheckPortOverlapsOptimized) decides as the pairwise *)
(* one does on any group whose entries all have different names.           *)
OptimizedAgrees ==
    (\A k, m \in DOMAIN items : items[k].name = items[m].name => k = m)
    => \A s \in Services, ports \in ValidLists :
         CheckPortOverlaps(s.name, ports, items)
         <=> CheckPortOverlapsOptimized(s.name, ports, items)

Bound == {binding[b].service : b \in {c \in Bindings : binding[c].phase # "absent"}}

(* An entry is left behind in one way only: a service that is in the       *)
(* mapping, or lists the group, has a binding, live or still being deleted, *)
(* unless a user made a binding of it name another pair.  A second binding *)
(* of the service, deleted while it is new, and a clean-up that takes the  *)
(* entry off a service that is bound by another one leave nothing.         *)
EntriesHaveBindings ==
    \A s \in Services \ (Bound \cup strays) :
        s \notin listed /\ \A k \in DOMAIN items : ~IsFor(items[k], s)

(* The port numbers that a service's ports declare for a protocol.         *)
PortsDeclared(ports, proto) ==
    UNION {LET r == ParsePortRange(ports[i].port) IN r.start..r.end :
             i \in {j \in DOMAIN ports : ports[j].protocol = proto}}

Declared ==
    [ports \in ValidLists |->
       [proto \in Protocols |-> PortsDeclared(ports, proto)]]

Wanted == [s \in Services |-> Declared[spec[s]]]

(* Each service that has an entry, with the ports of its entry.            *)
Opened ==
    LET Shown       == {s \in Services : \E k \in DOMAIN items : IsFor(items[k], s)}
        EntryFor(s) == items[CHOOSE k \in DOMAIN items : IsFor(items[k], s)]
    IN  [s \in Shown |-> [proto \in Protocols |-> PortsOpened(EntryFor(s), proto)]]

(* Lists of entries, found by name and namespace, replaced in place and    *)
(* filtered, with the checks on range boundaries, implement GroupAccess:   *)
(* no write of the mapping touches the ports of another service, or opens  *)
(* other ports than the service declares at that moment; the last binding  *)
(* of a service goes with its access, unless it is moved.                  *)
Access ==
    INSTANCE GroupAccess WITH
      Ports <- 0..MaxPort, wanted <- Wanted, bound <- Bound, strays <- strays, opened <- Opened

ImplementsAccess == Access!Spec

(* docs/index.md, rule 2: the system prevents port conflicts between       *)
(* services in one address group -- services, not service names.           *)
ServicesDisjoint ==
    \A k, m \in DOMAIN items, proto \in Protocols :
        k # m => PortsOpened(items[k], proto) \cap PortsOpened(items[m], proto) = {}
=============================================================================
