----------------------- MODULE ServiceAliasController -----------------------
(***************************************************************************)
(* ServiceAliasReconciler: one worker that hands every alias to its        *)
(* service (an owner reference), marks it Ready, and lets an alias being   *)
(* deleted go once no cached RuleS2S names it.                             *)
(***************************************************************************)
EXTENDS RuleStore

VARIABLE aw     \* the worker: key, program counter, its copy of the alias

AliasPcs == {"AddFinalizer", "ReportMissing", "SetOwner", "SetReady", "RemoveFinalizer"}

AliasIdle == [key |-> None, pc |-> "Idle", alias |-> NoAlias]

AliasWorkers == [key : Aliases, pc : AliasPcs, alias : AliasObjects] \cup {AliasIdle}

AInit == aw = AliasIdle

---------------------------------------------------------------------------
AliasError ==
    /\ aq' = aq \cup {aw.key}
    /\ aw' = AliasIdle
    /\ UNCHANGED <<store, caches, rq>>

Referenced(a) == findRuleS2SForServiceAlias(a) # {}

(* Reconcile and reconcileDelete after the finalizer, up to the next write; *)
(* an alias that a rule names is queued again with an error.               *)
AliasAt(a, pc) == [key |-> a, pc |-> pc, alias |-> cAlias[a]]

Dispatch(a) ==
    IF cAlias[a].phase = "deleting"
    THEN IF ~cAlias[a].fin THEN AliasIdle ELSE AliasAt(a, "RemoveFinalizer")
    ELSE IF ~Present(cSvc[AliasFor[a]]) THEN AliasAt(a, "ReportMissing")
    ELSE IF cAlias[a].owned THEN AliasAt(a, "SetReady") ELSE AliasAt(a, "SetOwner")

Blocked(a) == cAlias[a].phase = "deleting" /\ cAlias[a].fin /\ Referenced(a)

BeginAlias(a, worker) ==
    /\ aw = AliasIdle
    /\ a \in aq
    /\ aq' = aq \ {a}
    /\ aw' = worker
    /\ UNCHANGED <<store, caches, rq>>

Fetched(a) ==
    IF ~Present(cAlias[a]) THEN AliasIdle
    ELSE IF ~cAlias[a].fin THEN AliasAt(a, "AddFinalizer")
    ELSE Dispatch(a)

(* Seeded bug: an alias that a rule names is not queued again.              *)
ReconcileAliasOnce(a) == BeginAlias(a, IF Blocked(a) THEN AliasIdle ELSE Fetched(a))

ReconcileAlias(a) == ~Blocked(a) /\ BeginAlias(a, Fetched(a))

(* The alias is read again after each of these updates, from the cache,     *)
(* which need not have seen them yet.                                      *)
Reread(pc) ==
    LET a == aw.key
    IN  IF ~Present(cAlias[a]) \/ Blocked(a) THEN aw' = AliasIdle /\ aq' = aq \cup {a}
        ELSE aw' = (IF pc = "Dispatch" THEN Dispatch(a) ELSE AliasAt(a, pc)) /\ UNCHANGED aq

AddAliasFinalizer ==
    LET a == aw.key
    IN  /\ aw.pc = "AddFinalizer"
        /\ IF Accepts(alias[a], aw.alias)
           THEN /\ alias' = [alias EXCEPT ![a].fin = TRUE]
                /\ Reread("Dispatch")
                /\ UNCHANGED <<svc, rule, ie, caches, rq>>
           ELSE AliasError

(* setOwnerReference                                                       *)
SetAliasOwner ==
    LET a == aw.key
    IN  /\ aw.pc = "SetOwner"
        /\ IF Accepts(alias[a], aw.alias)
           THEN /\ alias' = [alias EXCEPT ![a].owned = TRUE]
                /\ Reread("SetReady")
                /\ UNCHANGED <<svc, rule, ie, caches, rq>>
           ELSE AliasError

SetAliasReady ==
    LET a == aw.key
    IN  /\ aw.pc = "SetReady"
        /\ IF Accepts(alias[a], aw.alias)
           THEN /\ alias' = [alias EXCEPT ![a].ready = "True"]
                /\ aw' = AliasIdle
                /\ UNCHANGED <<svc, rule, ie, caches, queues>>
           ELSE AliasError

(* The status is updated, and Reconcile returns an error all the same.      *)
ReportMissingService ==
    LET a == aw.key
    IN  /\ aw.pc = "ReportMissing"
        /\ alias' = IF Accepts(alias[a], aw.alias)
                    THEN [alias EXCEPT ![a].ready = "ServiceNotFound"] ELSE alias
        /\ aq' = aq \cup {a}
        /\ aw' = AliasIdle
        /\ UNCHANGED <<svc, rule, ie, caches, rq>>

RemoveAliasFinalizer ==
    LET a == aw.key
    IN  /\ aw.pc = "RemoveFinalizer"
        /\ IF Accepts(alias[a], aw.alias)
           THEN /\ alias' = [alias EXCEPT ![a] = RemovedAlias]
                /\ aw' = AliasIdle
                /\ UNCHANGED <<svc, rule, ie, caches, queues>>
           ELSE AliasError

AliasStep ==
    \/ AddAliasFinalizer
    \/ SetAliasOwner
    \/ SetAliasReady
    \/ ReportMissingService
    \/ RemoveAliasFinalizer
=============================================================================
