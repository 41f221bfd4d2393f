--------------------------- MODULE RuleSyncProofs ---------------------------
(***************************************************************************)
(* RuleSync implements RuleOwnership, for every value of its constants:    *)
(* what the worker makes and deletes on the word of its caches is right    *)
(* for the API server.                                                     *)
(*                                                                         *)
(* Caches and copies are behind the store, yet not in everything:          *)
(*   - a rule seen live with its finalizer still has the finalizer, since  *)
(*     only a worker that saw it being deleted takes the finalizer off;     *)
(*   - an IEAgAgRule in the cache has the owner of the stored one, since    *)
(*     its name is made again only once the cache lost it.                 *)
(* IInv says so of the caches and of what the worker computed from them.   *)
(***************************************************************************)
EXTENDS RuleTypeProofs

USE DEF Present

Ending == {"deleting", "gone"}

(* Where a rule is about to get IEAgAgRules.                                *)
Making == {"ListInTarget", "SetOwner", "Apply"}

CachedRules ==
    \A r \in Rules :
      /\ cRule[r].phase = "live" /\ cRule[r].fin => rule[r].fin
      /\ cRule[r].phase \in Ending => rule[r].phase \in Ending

CachedOwners ==
    \A k \in Keys : cIe[k] # NoIEAgAgRule /\ ie[k].phase = "live" => ie[k].owner = cIe[k].owner

WorkerOK(worker) ==
    /\ worker.rule.phase = "deleting" => cRule[worker.key].phase \in Ending
    /\ worker.pc = "RemoveFinalizer" => worker.rule.phase = "deleting"
    /\ worker.pc \in Making => rule[worker.key].fin
    /\ \A k \in worker.doomed : ie[k].phase = "live" => ie[k].owner = worker.key

IInv ==
    /\ TypeOK
    /\ CachedRules
    /\ CachedOwners
    /\ WorkerOK(rw)

---------------------------------------------------------------------------
(* What most steps do to the store: no rule loses or gets its finalizer, no *)
(* IEAgAgRule is made.                                                     *)

FinsKept ==
    \A r \in Rules : /\ rule'[r].fin = rule[r].fin
                     /\ rule[r].phase \in Ending => rule'[r].phase \in Ending

OwnersKept ==
    \A k \in Keys : ie'[k].phase = "live" => ie[k].phase = "live" /\ ie'[k].owner = ie[k].owner

LEMMA WorkerMoves ==
    ASSUME IInv, TypeOK', FinsKept, OwnersKept, UNCHANGED <<cRule, cIe>>, WorkerOK(rw')
    PROVE  IInv'
<1>1. CachedRules'
  BY DEF IInv, CachedRules, FinsKept
<1>2. CachedOwners'
  BY DEF IInv, CachedOwners, OwnersKept
<1>3. WorkerOK(rw)'
  <2>1. rw' = RuleIdle \/ rw' \in BusyWorkers
    BY DEF TypeOK, RuleWorkers
  <2>2. CASE rw' = RuleIdle
    BY <2>2 DEF RuleIdle, WorkerOK, NoRule, Making
  <2>3. CASE rw' \in BusyWorkers
    <3>1. rw'.key \in Rules /\ rw'.doomed \subseteq Keys
      BY <2>3 DEF BusyWorkers
    <3>. QED  BY <3>1 DEF WorkerOK, FinsKept, OwnersKept
  <2>. QED  BY <2>1, <2>2, <2>3
<1>. QED  BY <1>1, <1>2, <1>3 DEF IInv

LEMMA IdleOK == WorkerOK(RuleIdle)
BY DEF WorkerOK, RuleIdle, NoRule, Making

(* What the cache lists as a rule's own may be deleted in its name.         *)
LEMMA OwnedMayGo ==
    ASSUME IInv, NEW r \in Rules, NEW k \in OwnedBy(r), ie[k].phase = "live"
    PROVE  ie[k].owner = r
BY NoneIsNobody DEF IInv, OwnedBy, CachedOwners, NoIEAgAgRule

(* A worker that goes on with the same rule.                                *)
LEMMA WorkerGoesOn ==
    ASSUME IInv, NEW w, NEW v, WorkerOK(w), w.key \in Rules,
           v.key = w.key, v.rule.phase = w.rule.phase,
           v.doomed \subseteq w.doomed \cup OwnedBy(w.key),
           v.pc = "RemoveFinalizer" => w.rule.phase = "deleting",
           v.pc \in Making => rule[w.key].fin
    PROVE  WorkerOK(v)
BY OwnedMayGo DEF WorkerOK

---------------------------------------------------------------------------
(* Steps that do no more than turn to a rule or take an IEAgAgRule back.    *)

OwnerOf(object) == IF object.phase = "live" THEN object.owner ELSE None

OwnersSame == \A k \in Keys : OwnerOf(ie'[k]) = OwnerOf(ie[k])

TakenBack(k) ==
    /\ ie[k].phase = "live" /\ ie[k].owner = rw.key
    /\ OwnerOf(ie'[k]) = None
    /\ \A j \in Keys \ {k} : ie'[j] = ie[j]

Quiet ==
    /\ FinsKept
    /\ OwnersSame
    /\ UNCHANGED <<cRule, cIe>>
    /\ WorkerOK(rw')

TakingBack ==
    /\ FinsKept
    /\ \E k \in Keys : TakenBack(k)
    /\ UNCHANGED <<cRule, cIe>>
    /\ WorkerOK(rw') /\ rw'.key \in {rw.key, None}

LEMMA WorkerKeys ==
    ASSUME TypeOK
    PROVE  rw.key \in Rules \cup {None}
BY DEF TypeOK, RuleWorkers, RuleIdle, BusyWorkers

LEMMA LiveOwners ==
    ASSUME TypeOK, NEW k \in Keys
    PROVE  /\ ie[k].phase = "live" => ie[k].owner \in Rules
           /\ OwnerOf(ie[k]) # None <=> ie[k].phase = "live"
BY NoneIsNobody DEF TypeOK, IEAgAgRules, StoredIEAgAgRules, NoIEAgAgRule, OwnerOf

LEMMA QuietKeeps ==
    ASSUME IInv, TypeOK', Quiet
    PROVE  IInv' /\ Ownership!Next
<1>1. OwnersKept
  <2>. SUFFICES ASSUME NEW k \in Keys, ie'[k].phase = "live"
                PROVE  ie[k].phase = "live" /\ ie'[k].owner = ie[k].owner
    BY DEF OwnersKept
  <2>1. ie'[k].owner \in Rules
    BY DEF TypeOK, IEAgAgRules, StoredIEAgAgRules, NoIEAgAgRule
  <2>2. OwnerOf(ie[k]) = ie'[k].owner /\ ie'[k].owner # None
    BY <2>1, NoneIsNobody DEF Quiet, OwnersSame, OwnerOf
  <2>. QED  BY <2>2 DEF OwnerOf
<1>2. IInv'
  BY <1>1, WorkerMoves DEF Quiet
<1>3. {r \in Rules : rule'[r].fin} = {r \in Rules : rule[r].fin}
  BY DEF Quiet, FinsKept
<1>4. [k \in Keys |-> IF ie'[k].phase = "live" THEN ie'[k].owner ELSE None]
        = [k \in Keys |-> IF ie[k].phase = "live" THEN ie[k].owner ELSE None]
  BY DEF Quiet, OwnersSame, OwnerOf
<1>5. rw'.key \in Rules \cup {None}
  BY DEF TypeOK, RuleWorkers, RuleIdle, BusyWorkers
<1>6. Ownership!Next
  BY <1>3, <1>4, <1>5 DEF Ownership!Next, Ownership!Turn
<1>. QED  BY <1>2, <1>6

LEMMA TakingBackKeeps ==
    ASSUME IInv, TypeOK', TakingBack
    PROVE  IInv' /\ Ownership!Next
<1>1. PICK k \in Keys : TakenBack(k)
  BY DEF TakingBack
<1>2. OwnersKept
  <2>1. ie'[k].phase # "live"
    BY <1>1, NoneIsNobody DEF TakenBack, OwnerOf, TypeOK, IEAgAgRules, StoredIEAgAgRules,
       NoIEAgAgRule
  <2>. QED  BY <1>1, <2>1 DEF OwnersKept, TakenBack
<1>3. IInv'
  BY <1>2, WorkerMoves DEF TakingBack
<1>4. {r \in Rules : rule'[r].fin} = {r \in Rules : rule[r].fin}
  BY DEF TakingBack, FinsKept
<1>. DEFINE owner == [j \in Keys |-> IF ie[j].phase = "live" THEN ie[j].owner ELSE None]
<1>5. [j \in Keys |-> IF ie'[j].phase = "live" THEN ie'[j].owner ELSE None]
        = [owner EXCEPT ![k] = None]
  BY <1>1 DEF TakenBack, OwnerOf
<1>6. owner[k] = rw.key /\ rw.key # None
  BY <1>1, LiveOwners, NoneIsNobody DEF TakenBack, IInv
<1>7. rw'.key \in {rw.key, None}
  BY DEF TakingBack
<1>8. Ownership!TakeBack(k)
  BY <1>4, <1>5, <1>6, <1>7 DEF Ownership!TakeBack
<1>. QED  BY <1>3, <1>8 DEF Ownership!Next

---------------------------------------------------------------------------
(* The RuleS2S worker.                                                     *)

LEMMA BeginQuiet ==
    ASSUME IInv, NEW r \in Rules, NEW worker, Begin(r, worker), WorkerOK(worker)
    PROVE  Quiet
BY DEF Begin, store, caches, Quiet, FinsKept, OwnersSame

LEMMA SameStoreQuiet ==
    ASSUME IInv, UNCHANGED <<rule, ie, cRule, cIe>>, WorkerOK(rw')
    PROVE  Quiet
BY DEF Quiet, FinsKept, OwnersSame

(* A worker that begins with a cached rule knows no more than the cache.    *)
LEMMA AtOK ==
    ASSUME IInv, NEW r \in Rules, cRule[r] \in StoredRules, NEW pc \in RulePcs,
           pc = "RemoveFinalizer" => cRule[r].phase = "deleting",
           pc \in Making => cRule[r].phase = "live" /\ cRule[r].fin,
           NEW v, v.key = r, v.pc = pc, v.rule = cRule[r], v.doomed \subseteq OwnedBy(r)
    PROVE  WorkerOK(v)
BY OwnedMayGo DEF IInv, CachedRules, WorkerOK, Ending

LEMMA ReconcileRuleQuiet ==
    ASSUME IInv, NEW r \in Rules, ReconcileRule(r)
    PROVE  Quiet
<1>. TypeOK
  BY DEF IInv
<1>1. CASE ReconcileGoneRule(r)
  BY <1>1, BeginQuiet, IdleOK DEF ReconcileGoneRule
<1>2. CASE ReconcileNewRule(r)
  <2>1. cRule[r] \in StoredRules
    BY <1>2, CachedRuleTyped DEF ReconcileNewRule
  <2>2. WorkerOK(At(r, "AddFinalizer"))
    BY <2>1, AtTyped, AtOK DEF RulePcs, Making
  <2>. QED  BY <1>2, <2>2, BeginQuiet DEF ReconcileNewRule
<1>3. CASE ReconcileDeletedRule(r)
  <2>. DEFINE w == [At(r, "DeleteRelated") EXCEPT !.doomed = OwnedBy(r)]
  <2>1. cRule[r] \in StoredRules /\ cRule[r].phase = "deleting"
    BY <1>3, CachedRuleTyped DEF ReconcileDeletedRule
  <2>2. At(r, "DeleteRelated") \in BusyWorkers /\ At(r, "DeleteRelated").key = r
        /\ At(r, "DeleteRelated").rule = cRule[r]
    BY <2>1, AtTyped DEF RulePcs
  <2>3. w \in BusyWorkers /\ w.key = r /\ w.rule = cRule[r] /\ w.doomed = OwnedBy(r)
    BY <2>2, OwnedByTyped DEF BusyWorkers
  <2>. HIDE DEF w
  <2>4. CASE Deleting(w) = RuleIdle
    BY <1>3, <2>4, BeginQuiet, IdleOK DEF ReconcileDeletedRule, w
  <2>5. CASE Deleting(w) # RuleIdle
    <3>1. /\ Deleting(w).key = r /\ Deleting(w).rule = cRule[r]
          /\ Deleting(w).doomed = OwnedBy(r)
          /\ Deleting(w).pc \in {"DeleteRelated", "RemoveFinalizer", "Report"}
      BY <2>3, <2>5, DeletingTyped
    <3>2. WorkerOK(Deleting(w))
      BY <2>1, <3>1, AtOK DEF RulePcs, Making
    <3>. QED  BY <1>3, <3>2, BeginQuiet DEF ReconcileDeletedRule, w
  <2>. QED  BY <2>4, <2>5
<1>4. CASE ReconcileDanglingRule(r)
  <2>1. cRule[r] \in StoredRules
    BY <1>4, CachedRuleTyped DEF ReconcileDanglingRule, Live
  <2>2. PICK status : Begin(r, [At(r, "Report") EXCEPT !.status = status])
    BY <1>4 DEF ReconcileDanglingRule
  <2>3. /\ At(r, "Report") \in BusyWorkers /\ At(r, "Report").key = r
        /\ At(r, "Report").rule = cRule[r] /\ At(r, "Report").doomed = {}
        /\ At(r, "Report").pc = "Report"
    BY <2>1, AtTyped DEF RulePcs
  <2>4. WorkerOK([At(r, "Report") EXCEPT !.status = status])
    BY <2>1, <2>3, AtOK DEF RulePcs, Making, BusyWorkers
  <2>. QED  BY <2>2, <2>4, BeginQuiet
<1>5. ASSUME Live(r)
      PROVE  /\ WorkerOK(Planned(r)) /\ WorkerOK(Proceed(Planned(r)))
             /\ WorkerOK([Planned(r) EXCEPT !.pc = "ListInTarget",
                                            !.svc = cSvc[TargetService(cRule[r].spec)]])
  <2>1. cRule[r] \in StoredRules /\ cRule[r].phase = "live" /\ cRule[r].fin
    BY <1>5, CachedRuleTyped DEF Live
  <2>2. /\ Planned(r) \in BusyWorkers /\ Planned(r).key = r /\ Planned(r).rule = cRule[r]
        /\ Planned(r).pc = "SetOwner" /\ Planned(r).doomed = {}
    BY <2>1, PlannedTyped
  <2>3. WorkerOK(Planned(r))
    BY <2>1, <2>2, AtOK DEF RulePcs, Making
  <2>4. WorkerOK(Proceed(Planned(r)))
    <3>1. /\ Proceed(Planned(r)).key = r /\ Proceed(Planned(r)).rule = cRule[r]
          /\ Proceed(Planned(r)).pc \in {"Apply", "Report"}
          /\ Proceed(Planned(r)).doomed \subseteq OwnedBy(r)
      BY <2>2, ProceedTyped
    <3>. QED  BY <2>1, <3>1, AtOK DEF RulePcs, Making
  <2>5. ASSUME NEW s
        PROVE  WorkerOK([Planned(r) EXCEPT !.pc = "ListInTarget", !.svc = s])
    <3>. DEFINE v == [Planned(r) EXCEPT !.pc = "ListInTarget", !.svc = s]
    <3>1. v.key = r /\ v.pc = "ListInTarget" /\ v.rule = cRule[r] /\ v.doomed = {}
      BY <2>2 DEF BusyWorkers
    <3>. QED  BY <2>1, <3>1, AtOK DEF RulePcs, Making
  <2>. QED  BY <2>3, <2>4, <2>5
<1>6. CASE ReconcileCrossRule(r)
  BY <1>5, <1>6, BeginQuiet DEF ReconcileCrossRule
<1>7. CASE ReconcileSameNsRule(r)
  BY <1>5, <1>7, BeginQuiet DEF ReconcileSameNsRule
<1>. QED  BY <1>1, <1>2, <1>3, <1>4, <1>6, <1>7 DEF ReconcileRule

LEMMA RuleErrorQuiet ==
    ASSUME IInv, RuleError
    PROVE  Quiet
BY SameStoreQuiet, IdleOK DEF RuleError, store, caches

LEMMA AppliedOK ==
    ASSUME IInv, rw.pc # "Idle", NEW w \in BusyWorkers, w.key = rw.key, w.rule = rw.rule,
           w.doomed \subseteq rw.doomed, w.pc = rw.pc, w.pc # "RemoveFinalizer"
    PROVE  WorkerOK(Applied(w)) /\ Applied(w).key = rw.key
<1>1. rw.key \in Rules
  BY Busy DEF IInv
<1>2. /\ Applied(w).key = rw.key /\ Applied(w).rule = rw.rule
      /\ Applied(w).doomed \subseteq rw.doomed
      /\ Applied(w).pc \in {rw.pc, "DeleteObsolete", "Report"}
  BY AppliedTyped
<1>3. WorkerOK(rw) /\ (rw.pc \in Making => rule[rw.key].fin)
  BY DEF IInv, WorkerOK
<1>. QED  BY <1>1, <1>2, <1>3, WorkerGoesOn DEF Making

LEMMA DeletingOK ==
    ASSUME IInv, rw.pc # "Idle", NEW w \in BusyWorkers, w.key = rw.key, w.rule = rw.rule,
           w.doomed \subseteq rw.doomed \cup OwnedBy(rw.key)
    PROVE  WorkerOK(Deleting(w)) /\ Deleting(w).key \in {rw.key, None}
<1>1. rw.key \in Rules /\ WorkerOK(rw)
  BY Busy DEF IInv
<1>2. CASE Deleting(w) = RuleIdle
  BY <1>2, IdleOK DEF RuleIdle
<1>3. CASE Deleting(w) # RuleIdle
  <2>1. /\ Deleting(w).key = rw.key /\ Deleting(w).rule = rw.rule
        /\ Deleting(w).doomed \subseteq rw.doomed \cup OwnedBy(rw.key)
        /\ Deleting(w).pc \in {"DeleteRelated", "RemoveFinalizer", "Report"}
        /\ Deleting(w).pc = "RemoveFinalizer" => rw.rule.phase = "deleting"
    BY <1>3, DeletingTyped
  <2>. QED  BY <1>1, <2>1, WorkerGoesOn DEF Making
<1>. QED  BY <1>2, <1>3

LEMMA ProceedOK ==
    ASSUME IInv, rw.pc \in {"ListInTarget", "SetOwner"}, NEW w \in BusyWorkers, w.key = rw.key,
           w.rule.phase = rw.rule.phase, w.doomed = rw.doomed
    PROVE  WorkerOK(Proceed(w))
<1>1. rw.key \in Rules /\ WorkerOK(rw) /\ rule[rw.key].fin
  BY Busy DEF IInv, WorkerOK, Making
<1>2. /\ Proceed(w).key = rw.key /\ Proceed(w).rule.phase = rw.rule.phase
      /\ Proceed(w).pc \in {"Apply", "Report"}
      /\ Proceed(w).doomed \subseteq rw.doomed \cup OwnedBy(rw.key)
  BY ProceedTyped
<1>. QED  BY <1>1, <1>2, WorkerGoesOn

LEMMA ListInTargetQuiet ==
    ASSUME IInv, ListInTarget
    PROVE  Quiet
<1>1. rw \in BusyWorkers /\ rw.pc = "ListInTarget"
  BY Busy DEF ListInTarget, IInv
<1>2. WorkerOK(Proceed(rw))
  BY <1>1, ProceedOK
<1>. QED  BY <1>2, RuleErrorQuiet, SameStoreQuiet DEF ListInTarget, caches

LEMMA SetRuleOwnerQuiet ==
    ASSUME IInv, SetRuleOwner
    PROVE  Quiet
<1>1. rw.pc = "SetOwner" /\ rw \in BusyWorkers /\ rw.key \in Rules /\ rw.rule \in StoredRules
  BY Busy DEF SetRuleOwner, IInv
<1>2. CASE Accepts(rule[rw.key], rw.rule)
  <2>1. /\ Owned(rw.rule) \in StoredRules
        /\ Owned(rw.rule).phase = rw.rule.phase /\ Owned(rw.rule).fin = rw.rule.fin
    BY <1>1, RuleEdits DEF Owned, StoredRules
  <2>2. /\ [rw EXCEPT !.rule = Owned(rw.rule)] \in BusyWorkers
        /\ [rw EXCEPT !.rule = Owned(rw.rule)].key = rw.key
        /\ [rw EXCEPT !.rule = Owned(rw.rule)].rule = Owned(rw.rule)
        /\ [rw EXCEPT !.rule = Owned(rw.rule)].doomed = rw.doomed
    BY <1>1, <2>1 DEF BusyWorkers
  <2>3. WorkerOK(Proceed([rw EXCEPT !.rule = Owned(rw.rule)]))
    BY <1>1, <2>1, <2>2, ProceedOK
  <2>4. /\ rule' = [rule EXCEPT ![rw.key] = Owned(rw.rule)]
        /\ rw' = Proceed([rw EXCEPT !.rule = Owned(rw.rule)])
        /\ UNCHANGED <<ie, cRule, cIe>>
    BY <1>2 DEF SetRuleOwner, caches
  <2>5. FinsKept
    BY <1>1, <1>2, <2>1, <2>4 DEF FinsKept, Accepts, IInv, TypeOK
  <2>. QED  BY <2>3, <2>4, <2>5 DEF Quiet, OwnersSame
<1>3. CASE ~Accepts(rule[rw.key], rw.rule)
  BY <1>3, RuleErrorQuiet DEF SetRuleOwner
<1>. QED  BY <1>2, <1>3

(* Deleting by name what the worker may delete.                             *)
LEMMA DeleteByNameTakesBack ==
    ASSUME IInv, NEW k \in Keys, k \in rw.doomed, DeleteByName(k),
           UNCHANGED <<rule, cRule, cIe>>, WorkerOK(rw'), rw'.key \in {rw.key, None}
    PROVE  Quiet \/ TakingBack
<1>1. CASE ie[k].phase = "live"
  <2>1. ie[k].owner = rw.key
    BY <1>1 DEF IInv, WorkerOK
  <2>2. ie[k] \in StoredIEAgAgRules
    BY <1>1, IEAgAgRuleContents DEF IInv, TypeOK
  <2>3. ie'[k] = DeletedIE(ie[k]) /\ \A j \in Keys \ {k} : ie'[j] = ie[j]
    BY <1>1 DEF DeleteByName, IInv, TypeOK
  <2>4. OwnerOf(ie'[k]) = None
    BY <2>2, <2>3 DEF DeletedIE, OwnerOf, NoIEAgAgRule, StoredIEAgAgRules
  <2>. QED  BY <1>1, <2>1, <2>3, <2>4 DEF TakingBack, TakenBack, FinsKept
<1>2. CASE ie[k].phase # "live"
  BY <1>2, SameStoreQuiet DEF DeleteByName, IInv, TypeOK
<1>. QED  BY <1>1, <1>2

LEMMA FewerDoomed ==
    ASSUME IInv, rw.pc # "Idle", NEW k \in rw.doomed
    PROVE  /\ k \in Keys
           /\ [rw EXCEPT !.doomed = @ \ {k}] \in BusyWorkers
           /\ [rw EXCEPT !.doomed = @ \ {k}].key = rw.key
           /\ [rw EXCEPT !.doomed = @ \ {k}].rule = rw.rule
           /\ [rw EXCEPT !.doomed = @ \ {k}].pc = rw.pc
           /\ [rw EXCEPT !.doomed = @ \ {k}].doomed \subseteq rw.doomed
BY Busy, FewerDoomedTyped DEF IInv, BusyWorkers

LEMMA DeleteObsoleteTakesBack ==
    ASSUME IInv, DeleteObsolete
    PROVE  Quiet \/ TakingBack
<1>1. rw.pc = "DeleteObsolete" /\ UNCHANGED <<rule, cRule, cIe>>
  BY DEF DeleteObsolete, caches
<1>2. PICK k \in rw.doomed : DeleteByName(k) /\ rw' = Applied([rw EXCEPT !.doomed = @ \ {k}])
  BY DEF DeleteObsolete
<1>3. k \in Keys /\ WorkerOK(rw') /\ rw'.key = rw.key
  BY <1>1, <1>2, FewerDoomed, AppliedOK
<1>. QED  BY <1>1, <1>2, <1>3, DeleteByNameTakesBack

LEMMA DeleteRelatedTakesBack ==
    ASSUME IInv, DeleteRelated
    PROVE  Quiet \/ TakingBack
<1>1. rw.pc = "DeleteRelated" /\ UNCHANGED <<rule, cRule, cIe>>
  BY DEF DeleteRelated, caches
<1>2. PICK k \in rw.doomed :
        /\ \/ DeleteByName(k)
           \/ Present(ie[k]) /\ ie' = [ie EXCEPT ![k] = NoIEAgAgRule]
        /\ rw' = Deleting([rw EXCEPT !.doomed = @ \ {k}])
  BY DEF DeleteRelated, Accepts
<1>3. k \in Keys /\ WorkerOK(rw') /\ rw'.key \in {rw.key, None}
  BY <1>1, <1>2, FewerDoomed, DeletingOK
<1>4. CASE DeleteByName(k)
  BY <1>1, <1>3, <1>4, DeleteByNameTakesBack
<1>5. CASE ie[k].phase = "live" /\ ie' = [ie EXCEPT ![k] = NoIEAgAgRule]
  <2>1. ie[k].owner = rw.key
    BY <1>2, <1>5 DEF IInv, WorkerOK
  <2>2. TakenBack(k)
    BY <1>3, <1>5, <2>1 DEF TakenBack, OwnerOf, NoIEAgAgRule, IInv, TypeOK
  <2>. QED  BY <1>1, <1>3, <2>2 DEF TakingBack, FinsKept
<1>6. CASE ie[k].phase = "deleting" /\ ie' = [ie EXCEPT ![k] = NoIEAgAgRule]
  <2>1. OwnersSame
    BY <1>3, <1>6 DEF OwnersSame, OwnerOf, NoIEAgAgRule, IInv, TypeOK
  <2>. QED  BY <1>1, <1>3, <2>1 DEF Quiet, FinsKept
<1>. QED  BY <1>2, <1>4, <1>5, <1>6

LEMMA ReportedOK ==
    ASSUME IInv, rw.pc = "Report"
    PROVE  WorkerOK(Reported)
<1>. DEFINE w == [rw EXCEPT !.status = Unset, !.doomed = OwnedBy(rw.key)]
<1>1. w \in BusyWorkers /\ w.key = rw.key /\ w.rule = rw.rule /\ w.doomed = OwnedBy(rw.key)
  BY Busy, UnsetTyped, OwnedByTyped DEF IInv, BusyWorkers
<1>2. WorkerOK(Deleting(w))
  BY <1>1, DeletingOK
<1>. QED  BY <1>2, IdleOK DEF Reported

LEMMA SwallowReportQuiet ==
    ASSUME IInv, rw.pc = "Report", SwallowReport
    PROVE  Quiet
BY ReportedOK, SameStoreQuiet DEF SwallowReport, store, caches

LEMMA ReportStatusQuiet ==
    ASSUME IInv, ReportStatus
    PROVE  Quiet
<1>1. rw.pc = "Report" /\ rw.key \in Rules
  BY Busy DEF ReportStatus, IInv
<1>2. CASE Accepts(rule[rw.key], rw.rule)
  <2>1. rule[rw.key] \in StoredRules
    BY <1>1, <1>2, AcceptedRule DEF IInv
  <2>2. /\ rule' = [rule EXCEPT ![rw.key].status = rw.status]
        /\ rw' = Reported /\ UNCHANGED <<ie, cRule, cIe>>
    BY <1>2 DEF ReportStatus, caches
  <2>3. FinsKept
    BY <1>1, <2>1, <2>2 DEF FinsKept, IInv, TypeOK, StoredRules
  <2>. QED  BY <1>1, <2>2, <2>3, ReportedOK DEF Quiet, OwnersSame
<1>3. CASE ~Accepts(rule[rw.key], rw.rule)
  BY <1>1, <1>3, RuleErrorQuiet, SwallowReportQuiet DEF ReportStatus
<1>. QED  BY <1>2, <1>3

LEMMA SkippedQuiet ==
    ASSUME IInv, rw.pc = "Apply", NEW c \in rw.todo, rw' = Applied(Skipped(c)),
           UNCHANGED <<rule, ie, cRule, cIe>>
    PROVE  Quiet
<1>1. /\ Skipped(c) \in BusyWorkers /\ Skipped(c).key = rw.key /\ Skipped(c).rule = rw.rule
      /\ Skipped(c).pc = rw.pc /\ Skipped(c).doomed = rw.doomed
  BY Busy, MadeTyped DEF IInv, Skipped, BusyWorkers
<1>. QED  BY <1>1, AppliedOK, SameStoreQuiet

LEMMA FailedRuleCallQuiet ==
    ASSUME IInv, FailedRuleCall
    PROVE  Quiet
<1>. DEFINE Same == UNCHANGED <<store, caches, queues>>
<1>1. CASE RuleError
  BY <1>1, RuleErrorQuiet
<1>2. CASE rw.pc = "Report" /\ SwallowReport
  BY <1>2, SwallowReportQuiet
<1>3. CASE Same /\ rw.pc = "Apply" /\ \E c \in NextCalls : rw' = Applied(Skipped(c))
  BY <1>3, SkippedQuiet DEF NextCalls, store, caches
<1>4. CASE /\ Same /\ rw.pc = "DeleteObsolete"
           /\ \E k \in rw.doomed : rw' = Applied([rw EXCEPT !.doomed = @ \ {k}])
  BY <1>4, FewerDoomed, AppliedOK, SameStoreQuiet DEF store, caches
<1>5. CASE /\ Same /\ rw.pc = "DeleteRelated"
           /\ \E k \in rw.doomed :
                rw' = Deleting([rw EXCEPT !.doomed = @ \ {k}, !.failed = @ \cup {k}])
  <2>1. PICK k \in rw.doomed :
          rw' = Deleting([rw EXCEPT !.doomed = @ \ {k}, !.failed = @ \cup {k}])
    BY <1>5
  <2>. DEFINE w == [rw EXCEPT !.doomed = @ \ {k}, !.failed = @ \cup {k}]
  <2>2. w \in BusyWorkers /\ w.key = rw.key /\ w.rule = rw.rule /\ w.doomed \subseteq rw.doomed
    BY <1>5, Busy, FewerDoomedTyped DEF IInv, BusyWorkers
  <2>. QED  BY <1>5, <2>1, <2>2, DeletingOK, SameStoreQuiet DEF store, caches
<1>. HIDE DEF Same
<1>6. \/ RuleError
      \/ rw.pc = "Report" /\ SwallowReport
      \/ Same /\ rw.pc = "Apply" /\ \E c \in NextCalls : rw' = Applied(Skipped(c))
      \/ /\ Same /\ rw.pc = "DeleteObsolete"
         /\ \E k \in rw.doomed : rw' = Applied([rw EXCEPT !.doomed = @ \ {k}])
      \/ /\ Same /\ rw.pc = "DeleteRelated"
         /\ \E k \in rw.doomed :
              rw' = Deleting([rw EXCEPT !.doomed = @ \ {k}, !.failed = @ \cup {k}])
  BY Zenon DEF FailedRuleCall, Same
<1>. QED  BY <1>1, <1>2, <1>3, <1>4, <1>5, <1>6

---------------------------------------------------------------------------
(* The steps that make an IEAgAgRule or move a finalizer.                   *)

LEMMA createOrUpdateIEAgAgRuleKeeps ==
    ASSUME IInv, TypeOK', createOrUpdateIEAgAgRule
    PROVE  IInv' /\ Ownership!Next
<1>. DEFINE owner == [j \in Keys |-> IF ie[j].phase = "live" THEN ie[j].owner ELSE None]
<1>1. rw.pc = "Apply" /\ rw \in BusyWorkers /\ rw.key \in Rules /\ UNCHANGED <<rule, cRule, cIe>>
  BY Busy DEF createOrUpdateIEAgAgRule, caches, IInv
<1>2. PICK c \in rw.todo : CreateIEAgAgRule(c) \/ PatchIEAgAgRule(c) \/ FailIEAgAgRule(c)
  BY DEF createOrUpdateIEAgAgRule, NextCalls
<1>3. c.key \in Keys
  BY <1>1, MadeTyped DEF IInv
<1>4. /\ Made(c) \in BusyWorkers /\ Made(c).key = rw.key /\ Made(c).rule = rw.rule
      /\ Made(c).pc = rw.pc /\ Made(c).doomed = rw.doomed
  BY <1>1, MadeTyped DEF IInv, Made, BusyWorkers
<1>5. WorkerOK(Applied(Made(c))) /\ Applied(Made(c)).key = rw.key
  BY <1>1, <1>4, AppliedOK
<1>6. CASE CreateIEAgAgRule(c)
  <2>1. /\ ie' = [ie EXCEPT ![c.key] = [phase |-> "live", fin |-> FALSE, owner |-> rw.key,
                                        body |-> c.body]]
        /\ rw' = Applied(Made(c)) /\ cIe[c.key] = NoIEAgAgRule /\ ie[c.key] = NoIEAgAgRule
    BY <1>6 DEF CreateIEAgAgRule
  <2>2. CachedRules'
    BY <1>1 DEF IInv, CachedRules
  <2>3. CachedOwners'
    BY <1>1, <2>1 DEF IInv, CachedOwners, TypeOK
  <2>4. WorkerOK(rw)'
    <3>1. rw'.key = rw.key /\ WorkerOK(rw')
      BY <1>5, <2>1
    <3>2. \A k \in rw'.doomed : k \in Keys
      BY DEF TypeOK, RuleWorkers, RuleIdle, BusyWorkers
    <3>. QED  BY <1>1, <1>3, <2>1, <3>1, <3>2 DEF WorkerOK, IInv, TypeOK
  <2>5. Ownership!Make(c.key)
    <3>1. rw.key \in {r \in Rules : rule[r].fin}
      BY <1>1 DEF IInv, WorkerOK, Making
    <3>2. owner[c.key] = None
      BY <1>3, <2>1 DEF NoIEAgAgRule
    <3>3. [j \in Keys |-> IF ie'[j].phase = "live" THEN ie'[j].owner ELSE None]
            = [owner EXCEPT ![c.key] = rw.key]
      BY <1>3, <2>1 DEF IInv, TypeOK
    <3>. QED  BY <1>1, <1>5, <2>1, <3>1, <3>2, <3>3 DEF Ownership!Make
  <2>. QED  BY <1>3, <2>2, <2>3, <2>4, <2>5 DEF IInv, Ownership!Next
<1>7. CASE PatchIEAgAgRule(c)
  <2>1. /\ ie' = [ie EXCEPT ![c.key] = [ie[c.key] EXCEPT
                                          !.body = PatchedBody(@, cIe[c.key].body, c.body)]]
        /\ rw' = Applied(Made(c)) /\ ie[c.key] \in StoredIEAgAgRules
    BY <1>3, <1>7, IEAgAgRuleContents DEF PatchIEAgAgRule, IInv, TypeOK
  <2>2. OwnersSame
    BY <1>3, <2>1 DEF OwnersSame, OwnerOf, StoredIEAgAgRules, IInv, TypeOK
  <2>3. Quiet
    BY <1>1, <1>5, <2>1, <2>2 DEF Quiet, FinsKept
  <2>. QED  BY <2>3, QuietKeeps
<1>8. CASE FailIEAgAgRule(c)
  BY <1>1, <1>8, SkippedQuiet, QuietKeeps DEF FailIEAgAgRule
<1>. QED  BY <1>2, <1>6, <1>7, <1>8

LEMMA AddRuleFinalizerKeeps ==
    ASSUME IInv, TypeOK', AddRuleFinalizer
    PROVE  IInv' /\ Ownership!Next
<1>1. PICK r \in Rules : rw.pc = "AddFinalizer" /\ r = rw.key /\ rule \in [Rules -> RuleObjects]
  BY Busy DEF AddRuleFinalizer, IInv, TypeOK
<1>2. CASE Accepts(rule[r], rw.rule)
  <2>1. rule[r] \in StoredRules
    BY <1>1, <1>2, AcceptedRule DEF IInv
  <2>2. /\ rule' = [rule EXCEPT ![r] = [rule[r] EXCEPT !.fin = TRUE]]
        /\ rw' = RuleIdle /\ UNCHANGED <<ie, cRule, cIe>>
    BY <1>1, <1>2 DEF AddRuleFinalizer, caches
  <2>3. rule'[r].fin /\ rule'[r].phase = rule[r].phase /\ \A q \in Rules \ {r} : rule'[q] = rule[q]
    BY <1>1, <2>1, <2>2 DEF StoredRules
  <2>4. IInv'
    BY <1>1, <2>2, <2>3, IdleOK DEF IInv, CachedRules, CachedOwners, WorkerOK, RuleIdle, NoRule,
       Making
  <2>5. {q \in Rules : rule'[q].fin} = {q \in Rules : rule[q].fin} \cup {r}
    BY <1>1, <2>3
  <2>6. rw'.key = None
    BY <2>2 DEF RuleIdle
  <2>7. CASE rule[r].fin
    <3>1. {q \in Rules : rule'[q].fin} = {q \in Rules : rule[q].fin}
      BY <1>1, <2>5, <2>7
    <3>. QED  BY <2>2, <2>4, <2>6, <3>1 DEF Ownership!Next, Ownership!Turn
  <2>8. CASE ~rule[r].fin
    <3>1. Ownership!Guard(r)
      BY <1>1, <2>2, <2>5, <2>6, <2>8 DEF Ownership!Guard
    <3>. QED  BY <1>1, <2>4, <3>1 DEF Ownership!Next
  <2>. QED  BY <2>7, <2>8
<1>3. CASE ~Accepts(rule[r], rw.rule)
  BY <1>1, <1>3, RuleErrorQuiet, QuietKeeps DEF AddRuleFinalizer
<1>. QED  BY <1>2, <1>3

LEMMA RemoveRuleFinalizerKeeps ==
    ASSUME IInv, TypeOK', RemoveRuleFinalizer
    PROVE  IInv' /\ Ownership!Next
<1>1. PICK r \in Rules : rw.pc = "RemoveFinalizer" /\ r = rw.key /\ rule \in [Rules -> RuleObjects]
  BY Busy DEF RemoveRuleFinalizer, IInv, TypeOK
<1>2. CASE Accepts(rule[r], rw.rule)
  <2>1. rule' = [rule EXCEPT ![r] = RemovedRule] /\ rw' = RuleIdle /\ UNCHANGED <<ie, cRule, cIe>>
    BY <1>1, <1>2 DEF RemoveRuleFinalizer, caches
  <2>2. cRule[r].phase \in Ending
    BY <1>1 DEF IInv, WorkerOK
  <2>3. CachedRules'
    BY <1>1, <2>1, <2>2 DEF IInv, CachedRules, RemovedRule, Ending
  <2>4. IInv'
    BY <2>1, <2>3, IdleOK DEF IInv, CachedOwners, WorkerOK, RuleIdle, NoRule, Making
  <2>5. {q \in Rules : rule'[q].fin} = {q \in Rules : rule[q].fin} \ {r}
    BY <1>1, <2>1 DEF RemovedRule, NoRule
  <2>6. Ownership!Release(r)
    BY <1>1, <2>1, <2>5 DEF Ownership!Release, RuleIdle
  <2>. QED  BY <1>1, <2>4, <2>6 DEF Ownership!Next
<1>3. CASE ~Accepts(rule[r], rw.rule)
  BY <1>1, <1>3, RuleErrorQuiet, QuietKeeps DEF RemoveRuleFinalizer
<1>. QED  BY <1>2, <1>3

---------------------------------------------------------------------------
(* Everybody else.                                                         *)

(* What is done to rules elsewhere leaves finalizers as they are.           *)
LEMMA RuleEditsKeep ==
    ASSUME TypeOK, NEW r \in Rules, NEW object, rule' = [rule EXCEPT ![r] = object],
           object.fin = rule[r].fin, rule[r].phase \in Ending => object.phase \in Ending
    PROVE  FinsKept
BY DEF TypeOK, FinsKept

LEMMA RuleRequestQuiet ==
    ASSUME IInv, FinsKept, UNCHANGED <<ie, cRule, cIe, rw>>
    PROVE  Quiet
BY DEF Quiet, OwnersSame, IInv

LEMMA DeletedRuleKeeps ==
    ASSUME IInv, NEW r \in Rules, rule[r].phase = "live",
           rule' = [rule EXCEPT ![r] = DeletedRule(@)]
    PROVE  FinsKept
<1>1. rule[r] \in StoredRules
  BY CachedRuleTyped DEF IInv
<1>2. DeletedRule(rule[r]).fin = rule[r].fin
  BY <1>1 DEF StoredRules, DeletedRule, RemovedRule, NoRule
<1>. QED  BY <1>2, RuleEditsKeep DEF IInv, Ending

LEMMA UsersQuiet ==
    ASSUME IInv, Users
    PROVE  Quiet
<1>. USE DEF Request, Happens, caches, workers
<1>1. ASSUME NEW r \in Rules, NEW spec \in RuleSpecs, CreateRule(r, spec)
      PROVE  Quiet
  <2>1. NewRule(spec).fin = NoRule.fin /\ NoRule.phase \notin Ending
    BY DEF NewRule, NoRule, Ending
  <2>2. rule[r] = NoRule /\ rule' = [rule EXCEPT ![r] = NewRule(spec)]
    BY <1>1 DEF CreateRule
  <2>3. FinsKept
    BY <2>1, <2>2, RuleEditsKeep DEF IInv
  <2>. QED  BY <1>1, <2>3, RuleRequestQuiet DEF CreateRule
<1>2. ASSUME NEW r \in Rules, NEW spec \in RuleSpecs, UpdateRule(r, spec)
      PROVE  Quiet
  <2>1. rule[r] \in StoredRules /\ rule' = [rule EXCEPT ![r] = [rule[r] EXCEPT !.spec = spec]]
    BY <1>2, CachedRuleTyped DEF UpdateRule, IInv
  <2>2. FinsKept
    BY <1>2, <2>1, RuleEditsKeep DEF UpdateRule, IInv, StoredRules, Ending
  <2>. QED  BY <1>2, <2>2, RuleRequestQuiet DEF UpdateRule
<1>3. ASSUME NEW r \in Rules, DeleteRule(r)
      PROVE  Quiet
  BY <1>3, DeletedRuleKeeps, RuleRequestQuiet DEF DeleteRule
<1>4. ASSUME NEW a \in Aliases, CreateAlias(a) \/ DeleteAlias(a)
      PROVE  Quiet
  BY <1>4, SameStoreQuiet DEF CreateAlias, DeleteAlias, IInv
<1>5. ASSUME NEW s \in Services, (\E to : SetService(s, to)) \/ DeleteService(s)
      PROVE  Quiet
  BY <1>5, SameStoreQuiet DEF SetService, DeleteService, IInv
<1>. QED  BY <1>1, <1>2, <1>3, <1>4, <1>5 DEF Users

LEMMA AroundKeeps ==
    ASSUME IInv, TypeOK', Around
    PROVE  IInv' /\ Ownership!Next
<1>. USE DEF store, caches, workers
<1>1. CASE Resync \/ \E s \in Services : SyncService(s) \/ ServiceGone(s)
  <2>1. UNCHANGED <<rule, ie, cRule, cIe, rw>>
    BY <1>1 DEF Around, Resync, SyncService, ServiceGone
  <2>. QED  BY <2>1, SameStoreQuiet, QuietKeeps DEF IInv
<1>2. CASE \E a \in Aliases : SyncAlias(a) \/ CollectAlias(a)
  <2>1. UNCHANGED <<rule, ie, cRule, cIe, rw>>
    BY <1>2 DEF Around, SyncAlias, CollectAlias
  <2>. QED  BY <2>1, SameStoreQuiet, QuietKeeps DEF IInv
<1>3. ASSUME NEW r \in Rules, SyncRule(r)
      PROVE  IInv' /\ Ownership!Next
  <2>1. /\ cRule' = [cRule EXCEPT ![r] = rule[r]] /\ UNCHANGED <<rule, ie, cIe, rw>>
    BY <1>3 DEF SyncRule, Around
  <2>2. CachedRules'
    BY <2>1 DEF IInv, TypeOK, CachedRules
  <2>3. \A q \in Rules : cRule[q].phase \in Ending => cRule'[q].phase \in Ending
    BY <2>1 DEF IInv, TypeOK, CachedRules
  <2>4. WorkerOK(rw)'
    <3>1. rw = RuleIdle \/ rw.key \in Rules
      BY DEF IInv, TypeOK, RuleWorkers, BusyWorkers
    <3>2. CASE rw = RuleIdle
      BY <2>1, <3>2 DEF WorkerOK, RuleIdle, NoRule, Making
    <3>3. CASE rw.key \in Rules
      BY <2>1, <2>3, <3>3 DEF WorkerOK, IInv
    <3>. QED  BY <3>1, <3>2, <3>3
  <2>5. IInv'
    BY <2>1, <2>2, <2>4 DEF IInv, CachedOwners
  <2>6. \E q \in Rules \cup {None} : Ownership!Turn(q)
    BY <2>1, WorkerKeys DEF Ownership!Turn, IInv
  <2>. QED  BY <2>5, <2>6 DEF Ownership!Next
<1>4. ASSUME NEW r \in Rules, CollectRule(r)
      PROVE  IInv' /\ Ownership!Next
  <2>1. FinsKept /\ UNCHANGED <<ie, cRule, cIe, rw>>
    BY <1>4, DeletedRuleKeeps DEF CollectRule, Around
  <2>. QED  BY <2>1, RuleRequestQuiet, QuietKeeps
<1>5. ASSUME NEW k \in Keys, SyncIEAgAgRule(k)
      PROVE  IInv' /\ Ownership!Next
  <2>1. cIe' = [cIe EXCEPT ![k] = ie[k]] /\ UNCHANGED <<rule, ie, cRule, rw>>
    BY <1>5 DEF SyncIEAgAgRule, Around
  <2>2. CachedOwners'
    BY <2>1 DEF IInv, TypeOK, CachedOwners
  <2>3. IInv'
    BY <2>1, <2>2 DEF IInv, CachedRules, WorkerOK
  <2>4. \E q \in Rules \cup {None} : Ownership!Turn(q)
    BY <2>1, WorkerKeys DEF Ownership!Turn, IInv
  <2>. QED  BY <2>3, <2>4 DEF Ownership!Next
<1>6. ASSUME NEW k \in Keys, CollectIEAgAgRule(k)
      PROVE  IInv' /\ Ownership!Next
  <2>. DEFINE owner == [j \in Keys |-> IF ie[j].phase = "live" THEN ie[j].owner ELSE None]
  <2>1. /\ ie[k].phase = "live" /\ ie[k] \in StoredIEAgAgRules
        /\ ie' = [ie EXCEPT ![k] = DeletedIE(ie[k])] /\ UNCHANGED <<rule, cRule, cIe, rw>>
    BY <1>6, IEAgAgRuleContents DEF CollectIEAgAgRule, DeleteByName, Around, IInv, TypeOK
  <2>2. DeletedIE(ie[k]).phase # "live"
    BY <2>1 DEF DeletedIE, NoIEAgAgRule, StoredIEAgAgRules
  <2>3. IInv'
    <3>1. FinsKept /\ OwnersKept
      BY <2>1, <2>2 DEF FinsKept, OwnersKept, IInv, TypeOK
    <3>. QED  BY <2>1, <3>1, WorkerMoves DEF IInv
  <2>4. Ownership!Collect(k)
    <3>1. owner[k] = ie[k].owner /\ ie[k].owner \in Rules
      BY <2>1 DEF StoredIEAgAgRules
    <3>2. owner[k] \notin {r \in Rules : rule[r].fin} \/ <<owner[k], k>> \in Foreign
      BY <1>6, <3>1 DEF CollectIEAgAgRule, Foreign, IInv, TypeOK, RuleObjects, StoredRules,
         NoRule, RemovedRule
    <3>3. [j \in Keys |-> IF ie'[j].phase = "live" THEN ie'[j].owner ELSE None]
            = [owner EXCEPT ![k] = None]
      BY <2>1, <2>2 DEF IInv, TypeOK
    <3>. QED  BY <2>1, <3>1, <3>2, <3>3, NoneIsNobody DEF Ownership!Collect
  <2>. QED  BY <2>3, <2>4 DEF Ownership!Next
<1>7. ASSUME NEW k \in Keys, AdoptIEAgAgRule(k) \/ ReleaseIEAgAgRule(k)
      PROVE  IInv' /\ Ownership!Next
  <2>1. UNCHANGED <<rule, cRule, cIe, rw>>
    BY <1>7 DEF AdoptIEAgAgRule, ReleaseIEAgAgRule, Around
  <2>2. OwnersSame
    <3>1. CASE AdoptIEAgAgRule(k)
      <4>1. ie[k] \in StoredIEAgAgRules /\ ie' = [ie EXCEPT ![k] = [ie[k] EXCEPT !.fin = TRUE]]
        BY <3>1, IEAgAgRuleContents DEF AdoptIEAgAgRule, IInv, TypeOK
      <4>. QED  BY <4>1 DEF OwnersSame, OwnerOf, StoredIEAgAgRules, IInv, TypeOK
    <3>2. CASE ReleaseIEAgAgRule(k)
      BY <3>2 DEF ReleaseIEAgAgRule, OwnersSame, OwnerOf, NoIEAgAgRule, IInv, TypeOK
    <3>. QED  BY <1>7, <3>1, <3>2
  <2>. QED  BY <2>1, <2>2, QuietKeeps DEF Quiet, FinsKept, IInv
<1>. QED  BY <1>1, <1>2, <1>3, <1>4, <1>5, <1>6, <1>7 DEF Around

LEMMA RestartKeeps ==
    ASSUME IInv, TypeOK', Restart
    PROVE  IInv' /\ Ownership!Next
<1>1. rw' = RuleIdle /\ cRule' = rule /\ cIe' = ie /\ UNCHANGED <<rule, ie>>
  BY DEF Restart, store
<1>2. IInv'
  BY <1>1, IdleOK DEF IInv, CachedRules, CachedOwners, WorkerOK, RuleIdle, NoRule, Making
<1>3. Ownership!Turn(None)
  BY <1>1 DEF Ownership!Turn, RuleIdle
<1>. QED  BY <1>2, <1>3 DEF Ownership!Next

---------------------------------------------------------------------------
LEMMA StepKeeps ==
    ASSUME IInv, TypeOK', [Next]_vars
    PROVE  IInv' /\ [Ownership!Next]_(Ownership!vars)
<1>1. CASE UNCHANGED vars
  BY <1>1 DEF vars, store, caches, workers, IInv, CachedRules, CachedOwners, WorkerOK,
     Ownership!vars
<1>2. CASE RuleReconciler
  BY <1>2, ReconcileRuleQuiet, ListInTargetQuiet, SetRuleOwnerQuiet, DeleteObsoleteTakesBack,
     DeleteRelatedTakesBack, ReportStatusQuiet, QuietKeeps, TakingBackKeeps,
     createOrUpdateIEAgAgRuleKeeps, AddRuleFinalizerKeeps, RemoveRuleFinalizerKeeps
     DEF RuleReconciler, RuleStep
<1>3. CASE AliasReconciler
  <2>1. UNCHANGED <<rule, ie, cRule, cIe, rw>>
    BY <1>3 DEF AliasReconciler, ReconcileAlias, BeginAlias, AliasStep, AddAliasFinalizer,
       SetAliasOwner, SetAliasReady, ReportMissingService, RemoveAliasFinalizer, AliasError,
       store, caches
  <2>. QED  BY <2>1, SameStoreQuiet, QuietKeeps DEF IInv
<1>4. CASE FailedCall
  <2>1. CASE FailedRuleCall
    BY <2>1, FailedRuleCallQuiet, QuietKeeps
  <2>2. CASE AliasError /\ UNCHANGED rw
    BY <2>2, SameStoreQuiet, QuietKeeps DEF AliasError, store, caches, IInv
  <2>. QED  BY <1>4, <2>1, <2>2 DEF FailedCall
<1>. QED  BY <1>1, <1>2, <1>3, <1>4, UsersQuiet, QuietKeeps, AroundKeeps, RestartKeeps DEF Next

(* RuleS2SReconciler, deciding on stale caches, makes IEAgAgRules only for   *)
(* rules that hold their finalizer and takes back only those of the rule it  *)
(* reconciles, whatever conflicts, failures and restarts come between.      *)
THEOREM RuleSyncImplementsOwnership == Spec => ImplementsOwnership
<1>1. Init => IInv /\ Ownership!Init
  <2>. SUFFICES ASSUME Init PROVE IInv /\ Ownership!Init
    OBVIOUS
  <2>1. TypeOK
    BY InitTyped
  <2>2. cRule = rule /\ cIe = ie /\ rw = RuleIdle /\ ie = [k \in Keys |-> NoIEAgAgRule]
    BY DEF Init, RInit
  <2>3. IInv
    BY <2>1, <2>2, IdleOK DEF IInv, CachedRules, CachedOwners
  <2>4. Ownership!Init
    BY <2>2 DEF Ownership!Init, NoIEAgAgRule, RuleIdle
  <2>. QED  BY <2>3, <2>4
<1>2. IInv /\ TypeOK' /\ [Next]_vars => IInv' /\ [Ownership!Next]_(Ownership!vars)
  BY StepKeeps
<1>. QED  BY <1>1, <1>2, RuleTypesHold, PTL DEF Spec, ImplementsOwnership, Ownership!Spec
=============================================================================
