-------------------------- MODULE MCBindingPolicy --------------------------
(***************************************************************************)
(* Two services of one namespace and a third that lives beside the groups;  *)
(* the policies are in the groups' namespace.  b2 binds within it.         *)
(***************************************************************************)
EXTENDS BindingPolicy, TLC

CONSTANTS s1, s2, s3, g1, g2, p1, p2, b1, b2

MCNamespace == [o \in {s1, s2, b1} |-> "apps"] @@ [o \in {s3, g1, g2, p1, p2, b2} |-> "net"]

To(s, g) == [service |-> s, group |-> g]

Create(o, to) == [op |-> "CreateBinding", on |-> o, to |-> to]
Rebind(o, to) == [op |-> "UpdateBinding", on |-> o, to |-> to]
Delete(o)     == [op |-> "DeleteBinding", on |-> o]
Grant(o, to)  == [op |-> "CreatePolicy", on |-> o, to |-> to]
Change(o, to) == [op |-> "UpdatePolicy", on |-> o, to |-> to]
Revoke(o)     == [op |-> "DeletePolicy", on |-> o]
Away(o)       == [op |-> "Leave", on |-> o]
Back(o)       == [op |-> "Come", on |-> o]
Fails         == [op |-> "FailedCall"]
Restarts      == [op |-> "Restart"]

Nothing == [p \in {} |-> None]

(* A binding comes and goes while its policy is revoked and granted again.  *)
Revocation ==
    [policies |-> p1 :> To(s1, g1), bindings |-> Nothing,
     events |-> {Create(b1, To(s1, g1)), Delete(b1), Revoke(p1), Grant(p1, To(s1, g1)), Restarts}]

(* A policy is changed before it is Ready, to a service that comes and goes. *)
Respecification ==
    [policies |-> p1 :> To(s1, g1), bindings |-> Nothing,
     events |-> {Change(p1, To(s2, g1)), Change(p1, To(s1, g1)), Away(s2), Back(s2),
                 Create(b1, To(s1, g1)), Fails}]

(* The group of a new policy comes and goes; the policy is revoked.          *)
MissingGroup ==
    [policies |-> p1 :> To(s1, g2), bindings |-> Nothing,
     events |-> {Away(g2), Back(g2), Change(p1, To(s2, g2)), Revoke(p1), Fails, Restarts}]

(* Two policies for one pair, one of them in vain or by a late cache.        *)
Duplicates ==
    [policies |-> Nothing, bindings |-> Nothing,
     events |-> {Grant(p1, To(s1, g1)), Grant(p2, To(s1, g1)), Create(b1, To(s1, g1)), Revoke(p1),
                 Revoke(p2)}]

(* Bindings in force, across namespaces and within one.                      *)
InForce ==
    [policies |-> p1 :> To(s1, g1) @@ p2 :> To(s3, g1),
     bindings |-> b1 :> To(s1, g1) @@ b2 :> To(s3, g1),
     events |-> {Revoke(p1), Revoke(p2), Delete(b1), Delete(b2), Restarts}]

(* A binding within the namespace needs no policy.                           *)
WithinNamespace ==
    [policies |-> Nothing, bindings |-> b2 :> To(s3, g1),
     events |-> {Delete(b2), Create(b2, To(s3, g1)), Create(b1, To(s1, g1)),
                 Grant(p1, To(s1, g1)), Fails}]

(* A binding is given to another service, with a policy of its own, before   *)
(* it is Ready, and back.                                                  *)
Rebinding ==
    [policies |-> p1 :> To(s1, g1) @@ p2 :> To(s2, g1), bindings |-> Nothing,
     events |-> {Create(b1, To(s1, g1)), Rebind(b1, To(s2, g1)), Rebind(b1, To(s1, g1)),
                 Revoke(p2), Fails}]

(* A binding in force is deleted and given to another group meanwhile.       *)
RebindingInDeletion ==
    [policies |-> p1 :> To(s1, g1), bindings |-> b1 :> To(s1, g1),
     events |-> {Delete(b1), Rebind(b1, To(s1, g2)), Revoke(p1), Create(b1, To(s1, g1)),
                 Restarts}]

MCScenarios ==
    {Revocation, Respecification, MissingGroup, Duplicates, InForce, WithinNamespace,
     Rebinding, RebindingInDeletion}
=============================================================================
