---------------------------- MODULE GroupAccess ----------------------------
(***************************************************************************)
(* What an address group promises its services, without lists of entries,  *)
(* validators and reconciles: one access per service, for each protocol a  *)
(* set of port numbers.                                                    *)
(*   - access is opened for a service only that is bound, or that a        *)
(*     binding was moved away from, with exactly the ports the service     *)
(*     declares at that moment;                                            *)
(*   - a port that is open under another name is never opened;             *)
(*   - a step that opens or closes one service leaves all others alone;    *)
(*   - the last binding of a service does not go before its access is      *)
(*     closed, unless it is moved.                                         *)
(* Not promised: that a bound service keeps its access.  The end of one    *)
(* binding closes it, whoever else binds the service.                      *)
(***************************************************************************)
CONSTANTS Services,     \* records with a name
          Protocols,
          Ports

VARIABLES wanted,       \* the ports each service declares
          bound,        \* the services that have a binding
          strays,       \* services that a binding was moved away from
          opened        \* access, for the services that have some

vars == <<wanted, bound, strays, opened>>

PortSets == [Protocols -> SUBSET Ports]

Init ==
    /\ wanted \in [Services -> PortSets]
    /\ bound = {}
    /\ strays = {}
    /\ opened = [s \in {} |-> {}]

Declare(s) ==
    /\ UNCHANGED <<bound, strays>>
    /\ wanted'[s] \in PortSets \ {wanted[s]}
    /\ wanted' = [wanted EXCEPT ![s] = wanted'[s]]
    /\ UNCHANGED opened

Bind(s) ==
    /\ s \notin bound
    /\ bound' = bound \cup {s}
    /\ UNCHANGED <<wanted, strays, opened>>

Unbind(s) ==
    /\ s \in bound
    /\ s \in DOMAIN opened => s \in strays
    /\ bound' = bound \ {s}
    /\ UNCHANGED <<wanted, strays, opened>>

(* A binding of s, the last one or not, is given to another service or to   *)
(* none; access stays open until another binding of s ends.                *)
Move(s, to) ==
    /\ s \in bound
    /\ bound' \in {bound \cup to, (bound \ {s}) \cup to}
    /\ strays' \in {strays, strays \cup {s}}
    /\ s \in DOMAIN opened => s \in strays'
    /\ UNCHANGED <<wanted, opened>>

Open(s) ==
    /\ s \in bound \cup strays
    /\ UNCHANGED <<bound, strays>>
    /\ UNCHANGED wanted
    /\ \A t \in DOMAIN opened, proto \in Protocols :
         t.name # s.name => opened[t][proto] \cap wanted[s][proto] = {}
    /\ opened' = [t \in DOMAIN opened \cup {s} |->
                    IF t = s THEN wanted[s] ELSE opened[t]]

(* A binding of s, the last one or not, ends.                               *)
Close(s) ==
    /\ s \in bound
    /\ bound' \in {bound, bound \ {s}}
    /\ strays' = strays \ {s}
    /\ opened' = [t \in DOMAIN opened \ {s} |-> opened[t]]
    /\ UNCHANGED wanted

Next ==
    \E s \in Services :
        \/ Declare(s) \/ Bind(s) \/ Unbind(s) \/ Open(s) \/ Close(s)
        \/ Move(s, {}) \/ \E t \in Services : Move(s, {t})

Spec == Init /\ [][Next]_vars
=============================================================================
