-------------------------- MODULE RuleServiceProofs --------------------------
(***************************************************************************)
(* What the RuleS2S controller does to services, for every value of the    *)
(* constants of RuleSync: it adds rules to RuleS2SDstOwnRef, and makes the  *)
(* IEAgAgRules of a rule of another namespace after that only.             *)
(***************************************************************************)
EXTENDS RuleTypeProofs

USE DEF Present

(* Nothing is taken off RuleS2SDstOwnRef as long as the service is there.   *)
ServicesKept ==
    \A s \in Services :
      /\ svc[s].phase = "gone" => svc'[s].phase = "gone"
      /\ svc'[s].phase = "gone" \/ svc[s].dstOwnRef \subseteq svc'[s].dstOwnRef

CachedListing ==
    \A s \in Services : svc[s].phase = "gone" \/ cSvc[s].dstOwnRef \subseteq svc[s].dstOwnRef

Lists(s, r) == svc[s].phase = "gone" \/ r \in svc[s].dstOwnRef

(* The worker is past ListInTarget.                                        *)
ListedFor(worker) ==
    worker.pc \in {"SetOwner", "Apply"} /\ CrossNamespace(worker.key, worker.rule.spec) =>
      Lists(TargetService(worker.rule.spec), worker.key)

LInv ==
    /\ TypeOK
    /\ CachedListing
    /\ ListedFor(rw)

LEMMA ListingKept ==
    ASSUME LInv, TypeOK', ServicesKept, UNCHANGED cSvc, ListedFor(rw')
    PROVE  LInv'
<1>1. CachedListing'
  BY DEF LInv, CachedListing, ServicesKept
<1>2. ListedFor(rw)'
  <2>1. rw' = RuleIdle \/ rw' \in BusyWorkers
    BY DEF TypeOK, RuleWorkers
  <2>2. CASE rw' = RuleIdle
    BY <2>2 DEF RuleIdle, ListedFor
  <2>3. CASE rw' \in BusyWorkers
    <3>1. TargetService(rw'.rule.spec) \in Services
      BY <2>3, SpecNames DEF BusyWorkers, StoredRules
    <3>. QED  BY <3>1 DEF ServicesKept, ListedFor, Lists, CrossNamespace, TargetService
  <2>. QED  BY <2>1, <2>2, <2>3
<1>. QED  BY <1>1, <1>2 DEF LInv

LEMMA SameServicesKeep ==
    ASSUME LInv, TypeOK', UNCHANGED <<svc, cSvc>>, ListedFor(rw')
    PROVE  LInv'
BY ListingKept DEF ServicesKept

LEMMA IdleListed == ListedFor(RuleIdle)
BY DEF ListedFor, RuleIdle

LEMMA ElsewhereListed ==
    ASSUME NEW w, w.pc \notin {"SetOwner", "Apply"}
    PROVE  ListedFor(w)
BY DEF ListedFor

LEMMA DeletingListed ==
    ASSUME NEW w \in BusyWorkers
    PROVE  ListedFor(Deleting(w))
<1>1. Deleting(w) = RuleIdle \/ Deleting(w).pc \in {"DeleteRelated", "RemoveFinalizer", "Report"}
  BY DeletingTyped
<1>. QED  BY <1>1, IdleListed, ElsewhereListed

LEMMA ReconcileRuleListed ==
    ASSUME LInv, NEW r \in Rules, ReconcileRule(r)
    PROVE  ListedFor(rw') /\ UNCHANGED <<svc, ie, cSvc>>
<1>. TypeOK
  BY DEF LInv
<1>0. ASSUME NEW w, Begin(r, w), ListedFor(w)
      PROVE  ListedFor(rw') /\ UNCHANGED <<svc, ie, cSvc>>
  BY <1>0 DEF Begin, store, caches
<1>1. CASE ReconcileGoneRule(r)
  BY <1>0, <1>1, IdleListed DEF ReconcileGoneRule
<1>2. CASE ReconcileNewRule(r)
  <2>1. At(r, "AddFinalizer").pc = "AddFinalizer"
    BY <1>2, CachedRuleTyped, AtTyped DEF ReconcileNewRule, RulePcs
  <2>. QED  BY <1>0, <1>2, <2>1, ElsewhereListed DEF ReconcileNewRule
<1>3. CASE ReconcileDeletedRule(r)
  <2>1. At(r, "DeleteRelated") \in BusyWorkers
    BY <1>3, CachedRuleTyped, AtTyped DEF ReconcileDeletedRule, RulePcs
  <2>2. [At(r, "DeleteRelated") EXCEPT !.doomed = OwnedBy(r)] \in BusyWorkers
    BY <2>1, OwnedByTyped DEF BusyWorkers
  <2>. QED  BY <1>0, <1>3, <2>2, DeletingListed DEF ReconcileDeletedRule
<1>4. CASE ReconcileDanglingRule(r)
  <2>1. At(r, "Report") \in BusyWorkers /\ At(r, "Report").pc = "Report"
    BY <1>4, CachedRuleTyped, AtTyped DEF ReconcileDanglingRule, Live, RulePcs
  <2>2. PICK status : Begin(r, [At(r, "Report") EXCEPT !.status = status])
    BY <1>4 DEF ReconcileDanglingRule
  <2>3. [At(r, "Report") EXCEPT !.status = status].pc = "Report"
    BY <2>1 DEF BusyWorkers
  <2>. QED  BY <1>0, <2>2, <2>3, ElsewhereListed
<1>5. ASSUME Live(r)
      PROVE  /\ cRule[r].spec \in RuleSpecs
             /\ Planned(r) \in BusyWorkers /\ Planned(r).key = r /\ Planned(r).rule = cRule[r]
             /\ Proceed(Planned(r)).key = r /\ Proceed(Planned(r)).rule = cRule[r]
  BY <1>5, CachedRuleTyped, StoredRuleContents, PlannedTyped, ProceedTyped DEF Live
<1>6. CASE ReconcileCrossRule(r)
  <2>. DEFINE s == TargetService(cRule[r].spec)
  <2>1. Live(r) /\ s \in Services
    BY <1>5, <1>6, SpecNames DEF ReconcileCrossRule
  <2>2. CASE r \in cSvc[s].dstOwnRef
    <3>1. ListedFor(Proceed(Planned(r)))
      BY <1>5, <2>1, <2>2 DEF LInv, CachedListing, ListedFor, Lists
    <3>. QED  BY <1>0, <1>6, <2>2, <3>1 DEF ReconcileCrossRule
  <2>3. CASE r \notin cSvc[s].dstOwnRef
    <3>1. [Planned(r) EXCEPT !.pc = "ListInTarget", !.svc = cSvc[s]].pc = "ListInTarget"
      BY <1>5, <2>1 DEF BusyWorkers
    <3>. QED  BY <1>0, <1>6, <2>3, <3>1, ElsewhereListed DEF ReconcileCrossRule
  <2>. QED  BY <2>2, <2>3
<1>7. CASE ReconcileSameNsRule(r)
  <2>1. Live(r) /\ ~CrossNamespace(r, cRule[r].spec) /\ Begin(r, Planned(r))
    BY <1>7 DEF ReconcileSameNsRule
  <2>2. ListedFor(Planned(r))
    BY <1>5, <2>1 DEF ListedFor
  <2>. QED  BY <1>0, <2>1, <2>2
<1>. QED  BY <1>1, <1>2, <1>3, <1>4, <1>6, <1>7 DEF ReconcileRule

---------------------------------------------------------------------------
(* The writes of the worker.                                               *)

NothingMade == \A k \in Keys : ie[k] = NoIEAgAgRule => ie'[k] = NoIEAgAgRule

LEMMA RuleErrorListed ==
    ASSUME LInv, RuleError
    PROVE  ListedFor(rw') /\ UNCHANGED <<svc, ie, cSvc>>
BY IdleListed DEF RuleError, store, caches

LEMMA AppliedListed ==
    ASSUME LInv, NEW w \in BusyWorkers, w.key = rw.key, w.rule = rw.rule, w.pc = rw.pc
    PROVE  ListedFor(Applied(w))
<1>1. /\ Applied(w).key = rw.key /\ Applied(w).rule = rw.rule
      /\ Applied(w).pc \in {rw.pc, "DeleteObsolete", "Report"}
  BY AppliedTyped
<1>. QED  BY <1>1 DEF LInv, ListedFor

LEMMA DeleteByNameMakesNone ==
    ASSUME TypeOK, NEW k \in Keys, DeleteByName(k)
    PROVE  NothingMade
<1>1. NoIEAgAgRule.phase # "live"
  BY DEF NoIEAgAgRule
<1>. QED  BY <1>1 DEF DeleteByName, NothingMade, TypeOK

LEMMA ReportedListed ==
    ASSUME LInv, rw.pc = "Report"
    PROVE  ListedFor(Reported)
<1>1. [rw EXCEPT !.status = Unset, !.doomed = OwnedBy(rw.key)] \in BusyWorkers
  BY Busy, UnsetTyped, OwnedByTyped DEF LInv, BusyWorkers
<1>. QED  BY <1>1, DeletingListed, IdleListed DEF Reported

LEMMA MadeListed ==
    ASSUME LInv, rw.pc = "Apply", NEW c \in rw.todo
    PROVE  ListedFor(Applied(Made(c))) /\ ListedFor(Applied(Skipped(c)))
<1>1. /\ Made(c) \in BusyWorkers /\ Made(c).key = rw.key /\ Made(c).rule = rw.rule
      /\ Made(c).pc = rw.pc
      /\ Skipped(c) \in BusyWorkers /\ Skipped(c).key = rw.key /\ Skipped(c).rule = rw.rule
      /\ Skipped(c).pc = rw.pc
  BY Busy, MadeTyped DEF LInv, Made, Skipped, BusyWorkers
<1>. QED  BY <1>1, AppliedListed

LEMMA FewerDoomedListed ==
    ASSUME LInv, rw.pc # "Idle", NEW k \in rw.doomed
    PROVE  /\ ListedFor(Applied([rw EXCEPT !.doomed = @ \ {k}]))
           /\ ListedFor(Deleting([rw EXCEPT !.doomed = @ \ {k}]))
           /\ ListedFor(Deleting([rw EXCEPT !.doomed = @ \ {k}, !.failed = @ \cup {k}]))
<1>1. rw \in BusyWorkers
  BY Busy DEF LInv
<1>2. /\ [rw EXCEPT !.doomed = @ \ {k}] \in BusyWorkers
      /\ [rw EXCEPT !.doomed = @ \ {k}, !.failed = @ \cup {k}] \in BusyWorkers
  BY FewerDoomedTyped DEF LInv
<1>3. /\ [rw EXCEPT !.doomed = @ \ {k}].key = rw.key
      /\ [rw EXCEPT !.doomed = @ \ {k}].rule = rw.rule
      /\ [rw EXCEPT !.doomed = @ \ {k}].pc = rw.pc
  BY <1>1 DEF BusyWorkers
<1>. QED  BY <1>2, <1>3, AppliedListed, DeletingListed

(* All but ListInTarget and createOrUpdateIEAgAgRule.                       *)
LEMMA OtherStepListed ==
    ASSUME LInv, RuleStep, ~ListInTarget, ~createOrUpdateIEAgAgRule
    PROVE  ListedFor(rw') /\ UNCHANGED <<svc, cSvc>> /\ NothingMade
<1>. TypeOK
  BY DEF LInv
<1>. USE DEF caches
<1>1. ASSUME UNCHANGED ie PROVE NothingMade
  BY <1>1 DEF NothingMade
<1>2. CASE RuleError
  BY <1>1, <1>2, RuleErrorListed
<1>3. CASE AddRuleFinalizer
  BY <1>1, <1>3, RuleErrorListed, IdleListed DEF AddRuleFinalizer
<1>4. CASE SetRuleOwner /\ Accepts(rule[rw.key], rw.rule)
  <2>. DEFINE w == [rw EXCEPT !.rule = Owned(rw.rule)]
  <2>1. rw.pc = "SetOwner" /\ rw \in BusyWorkers /\ rw.rule \in StoredRules
    BY <1>4, Busy DEF SetRuleOwner
  <2>2. Owned(rw.rule) \in StoredRules /\ Owned(rw.rule).spec = rw.rule.spec
    BY <2>1, RuleEdits DEF Owned, StoredRules
  <2>3. w \in BusyWorkers /\ w.key = rw.key /\ w.rule.spec = rw.rule.spec
    BY <2>1, <2>2 DEF BusyWorkers
  <2>4. Proceed(w).key = rw.key /\ Proceed(w).rule.spec = rw.rule.spec
    BY <2>3, ProceedTyped
  <2>5. ListedFor(Proceed(w))
    BY <2>1, <2>4 DEF LInv, ListedFor
  <2>. QED  BY <1>1, <1>4, <2>5 DEF SetRuleOwner
<1>5. CASE DeleteObsolete
  <2>1. PICK k \in rw.doomed : DeleteByName(k) /\ rw' = Applied([rw EXCEPT !.doomed = @ \ {k}])
    BY <1>5 DEF DeleteObsolete
  <2>2. rw.pc # "Idle" /\ UNCHANGED <<svc, cSvc>>
    BY <1>5 DEF DeleteObsolete
  <2>. QED  BY <2>1, <2>2, FewerDoomedListed, FewerDoomedTyped, DeleteByNameMakesNone
<1>6. CASE DeleteRelated
  <2>1. PICK k \in rw.doomed :
          /\ DeleteByName(k) \/ ie' = [ie EXCEPT ![k] = NoIEAgAgRule]
          /\ rw' = Deleting([rw EXCEPT !.doomed = @ \ {k}])
    BY <1>6 DEF DeleteRelated
  <2>2. rw.pc # "Idle" /\ UNCHANGED <<svc, cSvc>>
    BY <1>6 DEF DeleteRelated
  <2>3. k \in Keys
    BY <2>2, FewerDoomedTyped
  <2>4. NothingMade
    BY <2>1, <2>3, DeleteByNameMakesNone DEF NothingMade, TypeOK
  <2>. QED  BY <2>1, <2>2, <2>4, FewerDoomedListed
<1>7. CASE RemoveRuleFinalizer
  BY <1>1, <1>7, RuleErrorListed, IdleListed DEF RemoveRuleFinalizer
<1>8. CASE ReportStatus
  BY <1>1, <1>8, RuleErrorListed, ReportedListed DEF ReportStatus, SwallowReport, store
<1>. QED  BY <1>2, <1>3, <1>4, <1>5, <1>6, <1>7, <1>8 DEF RuleStep, SetRuleOwner

LEMMA FailedRuleCallListed ==
    ASSUME LInv, FailedRuleCall
    PROVE  ListedFor(rw') /\ UNCHANGED <<svc, ie, cSvc>>
<1>. DEFINE Same == UNCHANGED <<store, caches, queues>>
<1>. TypeOK
  BY DEF LInv
<1>1. CASE RuleError
  BY <1>1, RuleErrorListed
<1>2. CASE rw.pc = "Report" /\ SwallowReport
  BY <1>2, ReportedListed DEF SwallowReport, store, caches
<1>3. CASE Same /\ rw.pc = "Apply" /\ \E c \in NextCalls : rw' = Applied(Skipped(c))
  BY <1>3, MadeListed DEF NextCalls, store, caches
<1>4. CASE /\ Same /\ rw.pc = "DeleteObsolete"
           /\ \E k \in rw.doomed : rw' = Applied([rw EXCEPT !.doomed = @ \ {k}])
  BY <1>4, FewerDoomedListed DEF store, caches
<1>5. CASE /\ Same /\ rw.pc = "DeleteRelated"
           /\ \E k \in rw.doomed :
                rw' = Deleting([rw EXCEPT !.doomed = @ \ {k}, !.failed = @ \cup {k}])
  BY <1>5, FewerDoomedListed DEF store, caches
<1>. HIDE DEF Same
<1>6. \/ RuleError
      \/ rw.pc = "Report" /\ SwallowReport
      \/ Same /\ rw.pc = "Apply" /\ \E c \in NextCalls : rw' = Applied(Skipped(c))
      \/ /\ Same /\ rw.pc = "DeleteObsolete"
         /\ \E k \in rw.doomed : rw' = Applied([rw EXCEPT !.doomed = @ \ {k}])
      \/ /\ Same /\ rw.pc = "DeleteRelated"
         /\ \E k \in rw.doomed :
              rw' = Deleting([rw EXCEPT !.doomed = @ \ {k}, !.failed = @ \cup {k}])
  BY Zenon DEF FailedRuleCall, Same
<1>. QED  BY <1>1, <1>2, <1>3, <1>4, <1>5, <1>6

---------------------------------------------------------------------------
(* What a step does to services and IEAgAgRules.                            *)

UntouchedStep ==
    \A s \in Services :
      <<svc[s].groups, svc[s].ports>> # <<svc'[s].groups, svc'[s].ports>> =>
        svc'[s].phase = "gone" \/ events' # events

ListedStep ==
    \A k \in Keys : ie[k] = NoIEAgAgRule /\ ie'[k] # NoIEAgAgRule =>
      LET r == ie'[k].owner
          s == TargetService(rw.rule.spec)
      IN  CrossNamespace(r, rw.rule.spec) => svc[s].phase = "gone" \/ r \in svc[s].dstOwnRef

LEMMA MakesNone ==
    ASSUME NothingMade
    PROVE  ListedStep
BY DEF NothingMade, ListedStep

LEMMA SameSteps ==
    ASSUME LInv, TypeOK', UNCHANGED <<svc, cSvc>>, ListedFor(rw'), NothingMade
    PROVE  LInv' /\ UntouchedStep /\ ListedStep
BY SameServicesKeep, MakesNone DEF UntouchedStep

LEMMA ListInTargetListed ==
    ASSUME LInv, TypeOK', ListInTarget
    PROVE  LInv' /\ UntouchedStep /\ ListedStep
<1>. DEFINE s == TargetService(rw.rule.spec)
<1>1. /\ rw.pc = "ListInTarget" /\ rw \in BusyWorkers /\ s \in Services
      /\ svc \in [Services -> ServiceObjects]
  BY Busy, StoredRuleContents, SpecNames DEF ListInTarget, LInv, TypeOK
<1>2. CASE Accepts(svc[s], rw.svc)
  <2>1. /\ svc' = [svc EXCEPT ![s] = [rw.svc EXCEPT !.dstOwnRef = @ \cup {rw.key}]]
        /\ rw' = Proceed(rw) /\ UNCHANGED <<ie, cSvc>>
    BY <1>2 DEF ListInTarget, caches
  <2>2. svc[s] = rw.svc /\ svc[s] \in ServiceObjects /\ svc[s].phase # "gone"
    BY <1>1, <1>2 DEF Accepts
  <2>3. /\ svc'[s].phase = svc[s].phase /\ svc'[s].groups = svc[s].groups
        /\ svc'[s].ports = svc[s].ports /\ svc'[s].dstOwnRef = svc[s].dstOwnRef \cup {rw.key}
        /\ \A t \in Services \ {s} : svc'[t] = svc[t]
    BY <1>1, <2>1, <2>2 DEF ServiceObjects
  <2>4. CachedListing'
    BY <2>1, <2>3 DEF LInv, CachedListing
  <2>5. ListedFor(rw)'
    <3>1. rw'.key = rw.key /\ rw'.rule = rw.rule
      BY <1>1, <2>1, ProceedTyped
    <3>. QED  BY <1>1, <2>3, <3>1 DEF ListedFor, Lists, TargetService
  <2>6. UntouchedStep
    BY <1>1, <2>3 DEF UntouchedStep
  <2>7. ListedStep
    BY <2>1, MakesNone DEF NothingMade
  <2>. QED  BY <2>4, <2>5, <2>6, <2>7 DEF LInv
<1>3. CASE ~Accepts(svc[s], rw.svc)
  BY <1>3, RuleErrorListed, SameSteps DEF ListInTarget, NothingMade
<1>. QED  BY <1>2, <1>3

LEMMA createOrUpdateIEAgAgRuleListed ==
    ASSUME LInv, TypeOK', createOrUpdateIEAgAgRule
    PROVE  LInv' /\ UntouchedStep /\ ListedStep
<1>1. rw.pc = "Apply" /\ UNCHANGED <<svc, cSvc>>
  BY DEF createOrUpdateIEAgAgRule, caches
<1>2. PICK c \in rw.todo : CreateIEAgAgRule(c) \/ PatchIEAgAgRule(c) \/ FailIEAgAgRule(c)
  BY DEF createOrUpdateIEAgAgRule, NextCalls
<1>3. ListedFor(rw') /\ c.key \in Keys
  BY <1>1, <1>2, MadeListed, MadeTyped DEF CreateIEAgAgRule, PatchIEAgAgRule, FailIEAgAgRule, LInv
<1>4. LInv' /\ UntouchedStep
  BY <1>1, <1>3, SameServicesKeep DEF UntouchedStep
<1>5. CASE CreateIEAgAgRule(c)
  <2>1. ie' = [ie EXCEPT ![c.key] = [phase |-> "live", fin |-> FALSE, owner |-> rw.key,
                                     body |-> c.body]]
    BY <1>5 DEF CreateIEAgAgRule
  <2>2. ie'[c.key].owner = rw.key /\ \A k \in Keys \ {c.key} : ie'[k] = ie[k]
    BY <1>3, <2>1 DEF LInv, TypeOK
  <2>. QED  BY <1>1, <1>4, <2>2 DEF ListedStep, LInv, ListedFor, Lists
<1>6. CASE PatchIEAgAgRule(c)
  <2>1. ie[c.key] # NoIEAgAgRule /\ \A k \in Keys \ {c.key} : ie'[k] = ie[k]
    BY <1>6 DEF PatchIEAgAgRule, NoIEAgAgRule, LInv, TypeOK
  <2>. QED  BY <1>4, <2>1, MakesNone DEF NothingMade
<1>7. CASE FailIEAgAgRule(c)
  BY <1>4, <1>7, MakesNone DEF FailIEAgAgRule, NothingMade
<1>. QED  BY <1>2, <1>5, <1>6, <1>7

(* Users and the service controller.                                       *)
LEMMA ServiceWriteListed ==
    ASSUME LInv, TypeOK', NEW s \in Services, NEW object,
           svc' = [svc EXCEPT ![s] = object], UNCHANGED <<ie, cSvc, rw>>,
           svc[s].phase # "gone",
           \/ object.phase = "gone"
           \/ /\ object.dstOwnRef = svc[s].dstOwnRef
              /\ \/ events' # events
                 \/ object.groups = svc[s].groups /\ object.ports = svc[s].ports
    PROVE  LInv' /\ UntouchedStep /\ ListedStep
<1>1. svc'[s] = object /\ \A t \in Services \ {s} : svc'[t] = svc[t]
  BY DEF LInv, TypeOK
<1>2. ServicesKept
  BY <1>1 DEF ServicesKept
<1>3. ListedFor(rw')
  BY DEF LInv
<1>4. UntouchedStep
  BY <1>1 DEF UntouchedStep
<1>. QED  BY <1>2, <1>3, <1>4, ListingKept, MakesNone DEF NothingMade

LEMMA UsersListed ==
    ASSUME LInv, TypeOK', Users
    PROVE  LInv' /\ UntouchedStep /\ ListedStep
<1>. USE DEF Request, Happens, caches, workers
<1>1. ASSUME NEW s \in Services, NEW event \in events, SetService(s, event.to)
      PROVE  LInv' /\ UntouchedStep /\ ListedStep
  <2>. DEFINE object == [svc[s] EXCEPT !.groups = event.to.groups, !.ports = event.to.ports]
  <2>1. svc[s] \in ServiceObjects /\ svc[s].phase # "gone"
    BY <1>1 DEF SetService, LInv, TypeOK
  <2>2. svc' = [svc EXCEPT ![s] = object]
    BY <1>1, <2>1 DEF SetService, LInv, TypeOK, ServiceObjects
  <2>3. object.dstOwnRef = svc[s].dstOwnRef /\ events' # events /\ UNCHANGED <<ie, cSvc, rw>>
    BY <1>1, <2>1 DEF SetService, ServiceObjects
  <2>. QED  BY <2>1, <2>2, <2>3, ServiceWriteListed
<1>2. ASSUME NEW s \in Services, DeleteService(s)
      PROVE  LInv' /\ UntouchedStep /\ ListedStep
  <2>. DEFINE object == [svc[s] EXCEPT !.phase = "deleting"]
  <2>1. /\ svc[s] \in ServiceObjects /\ svc[s].phase # "gone" /\ UNCHANGED <<ie, cSvc, rw>>
        /\ svc' = [svc EXCEPT ![s] = object]
    BY <1>2 DEF DeleteService, LInv, TypeOK
  <2>2. /\ object.dstOwnRef = svc[s].dstOwnRef
        /\ object.groups = svc[s].groups /\ object.ports = svc[s].ports
    BY <2>1 DEF ServiceObjects
  <2>. QED  BY <2>1, <2>2, ServiceWriteListed
<1>3. CASE UNCHANGED <<svc, ie, cSvc, rw>>
  BY <1>3, SameSteps DEF LInv, NothingMade
<1>. QED  BY <1>1, <1>2, <1>3 DEF Users, CreateRule, UpdateRule, DeleteRule, CreateAlias, DeleteAlias

LEMMA AroundListed ==
    ASSUME LInv, TypeOK', Around
    PROVE  LInv' /\ UntouchedStep /\ ListedStep
<1>. USE DEF store, caches, workers
<1>1. ASSUME NEW s \in Services, SyncService(s)
      PROVE  LInv' /\ UntouchedStep /\ ListedStep
  <2>1. cSvc' = [cSvc EXCEPT ![s] = svc[s]] /\ UNCHANGED <<svc, ie, rw>>
    BY <1>1 DEF SyncService, Around
  <2>2. CachedListing' /\ ListedFor(rw)'
    BY <2>1 DEF LInv, TypeOK, CachedListing, ListedFor, Lists
  <2>. QED  BY <2>1, <2>2, MakesNone DEF LInv, UntouchedStep, NothingMade
<1>2. ASSUME NEW s \in Services, ServiceGone(s)
      PROVE  LInv' /\ UntouchedStep /\ ListedStep
  <2>. DEFINE object == [NoService EXCEPT !.phase = "gone"]
  <2>1. object.phase = "gone"
    BY DEF NoService
  <2>2. svc[s].phase # "gone" /\ svc' = [svc EXCEPT ![s] = object] /\ UNCHANGED <<ie, cSvc, rw>>
    BY <1>2 DEF ServiceGone, Around
  <2>. QED  BY <2>1, <2>2, ServiceWriteListed
<1>3. ASSUME UNCHANGED <<svc, cSvc, rw>>, NothingMade
      PROVE  LInv' /\ UntouchedStep /\ ListedStep
  BY <1>3, SameSteps DEF LInv
<1>4. CASE UNCHANGED <<svc, ie, cSvc, rw>>
  BY <1>3, <1>4 DEF NothingMade
<1>5. ASSUME NEW k \in Keys, CollectIEAgAgRule(k)
      PROVE  LInv' /\ UntouchedStep /\ ListedStep
  BY <1>3, <1>5, DeleteByNameMakesNone DEF CollectIEAgAgRule, Around, LInv
<1>6. ASSUME NEW k \in Keys, AdoptIEAgAgRule(k) \/ ReleaseIEAgAgRule(k)
      PROVE  LInv' /\ UntouchedStep /\ ListedStep
  <2>1. ie[k] # NoIEAgAgRule /\ (\A j \in Keys \ {k} : ie'[j] = ie[j]) /\ UNCHANGED <<svc, cSvc, rw>>
    BY <1>6 DEF AdoptIEAgAgRule, ReleaseIEAgAgRule, NoIEAgAgRule, Around, LInv, TypeOK
  <2>. QED  BY <1>3, <2>1 DEF NothingMade
<1>7. ASSUME NEW a \in Aliases, SyncAlias(a) \/ CollectAlias(a)
      PROVE  UNCHANGED <<svc, ie, cSvc, rw>>
  BY <1>7 DEF SyncAlias, CollectAlias, Around
<1>8. ASSUME NEW r \in Rules, SyncRule(r) \/ CollectRule(r)
      PROVE  UNCHANGED <<svc, ie, cSvc, rw>>
  BY <1>8 DEF SyncRule, CollectRule, Around
<1>9. ASSUME NEW k \in Keys, SyncIEAgAgRule(k)
      PROVE  UNCHANGED <<svc, ie, cSvc, rw>>
  BY <1>9 DEF SyncIEAgAgRule, Around
<1>10. ASSUME Resync
       PROVE  UNCHANGED <<svc, ie, cSvc, rw>>
  BY <1>10 DEF Resync, Around
<1>. QED  BY <1>1, <1>2, <1>4, <1>5, <1>6, <1>7, <1>8, <1>9, <1>10 DEF Around

LEMMA RestartListed ==
    ASSUME LInv, TypeOK', Restart
    PROVE  LInv' /\ UntouchedStep /\ ListedStep
<1>1. rw' = RuleIdle /\ cSvc' = svc /\ UNCHANGED <<svc, ie>>
  BY DEF Restart, store
<1>2. CachedListing' /\ ListedFor(rw)'
  BY <1>1 DEF CachedListing, ListedFor, RuleIdle
<1>. QED  BY <1>1, <1>2, MakesNone DEF LInv, UntouchedStep, NothingMade

LEMMA NextListed ==
    ASSUME LInv, TypeOK', [Next]_vars
    PROVE  LInv' /\ UntouchedStep /\ ListedStep
<1>1. CASE UNCHANGED vars
  <2>1. UNCHANGED <<svc, ie, cSvc, rw>>
    BY <1>1 DEF vars, store, caches, workers
  <2>. QED  BY <2>1, SameSteps DEF LInv, NothingMade
<1>2. CASE RuleReconciler
  <2>1. ASSUME NEW r \in Rules, ReconcileRule(r)
        PROVE  LInv' /\ UntouchedStep /\ ListedStep
    BY <2>1, ReconcileRuleListed, SameSteps DEF NothingMade
  <2>2. CASE RuleStep /\ ~ListInTarget /\ ~createOrUpdateIEAgAgRule
    BY <2>2, OtherStepListed, SameSteps
  <2>. QED  BY <1>2, <2>1, <2>2, ListInTargetListed, createOrUpdateIEAgAgRuleListed
            DEF RuleReconciler
<1>3. CASE AliasReconciler
  <2>1. UNCHANGED <<svc, ie, cSvc, rw>>
    BY <1>3 DEF AliasReconciler, ReconcileAlias, BeginAlias, AliasStep, AddAliasFinalizer,
       SetAliasOwner, SetAliasReady, ReportMissingService, RemoveAliasFinalizer, AliasError,
       store, caches
  <2>. QED  BY <2>1, SameSteps DEF LInv, NothingMade
<1>4. CASE FailedCall
  <2>1. CASE FailedRuleCall
    BY <2>1, FailedRuleCallListed, SameSteps DEF NothingMade
  <2>2. CASE AliasError /\ UNCHANGED rw
    BY <2>2, SameSteps DEF AliasError, store, caches, LInv, NothingMade
  <2>. QED  BY <1>4, <2>1, <2>2 DEF FailedCall
<1>. QED  BY <1>1, <1>2, <1>3, <1>4, UsersListed, AroundListed, RestartListed DEF Next

LEMMA InitListed ==
    ASSUME Init
    PROVE  LInv
<1>1. TypeOK /\ cSvc = svc /\ rw = RuleIdle
  BY InitTyped DEF Init, RInit
<1>. QED  BY <1>1, IdleListed DEF LInv, CachedListing

---------------------------------------------------------------------------
(* ListInTarget, which stores a whole service as the cache had it, never    *)
(* undoes a change of groups or ports: conflicts are found out and the rule  *)
(* goes back to the queue.                                                 *)
THEOREM ServicesAreUntouched == Spec => ServiceUntouched
<1>1. Init => LInv
  BY InitListed
<1>2. LInv /\ TypeOK' /\ [Next]_vars => LInv' /\ [UntouchedStep]_vars
  BY NextListed
<1>. QED  BY <1>1, <1>2, RuleTypesHold, PTL DEF Spec, ServiceUntouched, UntouchedStep

(* A rule of another namespace gets an IEAgAgRule only while its target      *)
(* service lists it in RuleS2SDstOwnRef (or is gone), for all that the       *)
(* controller judges that by a cached service.                             *)
THEOREM RulesAreListedFirst == Spec => ListedBeforeRules
<1>1. Init => LInv
  BY InitListed
<1>2. LInv /\ TypeOK' /\ [Next]_vars => LInv' /\ [ListedStep]_vars
  BY NextListed
<1>. QED  BY <1>1, <1>2, RuleTypesHold, PTL DEF Spec, ListedBeforeRules, ListedStep
=============================================================================
