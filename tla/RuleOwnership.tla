--------------------------- MODULE RuleOwnership ---------------------------
(***************************************************************************)
(* What a RuleS2S and its IEAgAgRules promise each other, without caches,  *)
(* copies and retries:                                                     *)
(*   - only a rule that holds its finalizer gets an IEAgAgRule, which       *)
(*     belongs to it until it is deleted;                                  *)
(*   - a reconcile deletes IEAgAgRules of its own rule only;               *)
(*   - what a rule leaves behind when it goes is collected.                *)
(***************************************************************************)
CONSTANTS Rules, Keys,
          Foreign,     \* <<rule, key>>: the key lies in another namespace than the rule
          None

VARIABLES guarded,     \* the rules that hold their finalizer
          owner,       \* of every live IEAgAgRule
          active       \* the rule being reconciled

vars == <<guarded, owner, active>>

(* A rule may have been there, with its IEAgAgRules, before.                *)
Init ==
    /\ guarded \subseteq Rules
    /\ owner \in [Keys -> guarded \cup {None}]
    /\ active = None

Turn(r) == active' = r /\ UNCHANGED <<guarded, owner>>

Guard(r) ==
    /\ r \notin guarded
    /\ guarded' = guarded \cup {r}
    /\ active' \in {r, None}
    /\ UNCHANGED owner

(* The rule goes; nothing says that it has no IEAgAgRules left.             *)
Release(r) ==
    /\ active = r
    /\ guarded' = guarded \ {r}
    /\ active' = None
    /\ UNCHANGED owner

Make(k) ==
    /\ active \in guarded
    /\ owner[k] = None
    /\ owner' = [owner EXCEPT ![k] = active]
    /\ UNCHANGED <<guarded, active>>

TakeBack(k) ==
    /\ owner[k] = active /\ active # None
    /\ owner' = [owner EXCEPT ![k] = None]
    /\ active' \in {active, None}
    /\ UNCHANGED guarded

(* The garbage collector.                                                  *)
Collect(k) ==
    /\ owner[k] # None
    /\ owner[k] \notin guarded \/ <<owner[k], k>> \in Foreign
    /\ owner' = [owner EXCEPT ![k] = None]
    /\ UNCHANGED <<guarded, active>>

Next ==
    \/ \E r \in Rules \cup {None} : Turn(r)
    \/ \E r \in Rules : Guard(r) \/ Release(r)
    \/ \E k \in Keys : Make(k) \/ TakeBack(k) \/ Collect(k)

Spec == Init /\ [][Next]_vars
=============================================================================
