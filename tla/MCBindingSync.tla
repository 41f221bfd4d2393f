--------------------------- MODULE MCBindingSync ---------------------------
(***************************************************************************)
(* Instances of BindingSync: two services sharing a group, one service in  *)
(* two groups, and the full lifecycle of one service and one binding.      *)
(***************************************************************************)
EXTENDS BindingSync, TLC

CONSTANTS s1, s2, g1, g2, b1, b2

SharedGroupServices == b1 :> s1 @@ b2 :> s2
SharedGroup         == b1 :> g1 @@ b2 :> g1

OneService == b1 :> s1 @@ b2 :> s1
TwoGroups  == b1 :> g1 @@ b2 :> g2

SingleService == b1 :> s1
SingleGroup   == b1 :> g1

OnePort  == {{1}}
TwoPorts == {{1}, {2}}

(* The ports of the existing services.                                     *)
FirstPorts == [s \in Services |-> IF s = s1 THEN {1} ELSE {2}]
=============================================================================
