------------------------ MODULE BindingPolicyProofs ------------------------
(***************************************************************************)
(* Policies, for every value of the constants of BindingPolicy: what the   *)
(* caches still say is enough to hold the policy of a binding in force,    *)
(* and a policy is Ready for the pair it names.                            *)
(*                                                                         *)
(* PInv says that a copy with the stored resourceVersion is the stored     *)
(* object (Older), and that a binding in force, or one that the controller *)
(* works on, is in the cache with the pair it names (Seen).                *)
(***************************************************************************)
EXTENDS BindingPolicy, TLAPS

USE DEF Present

(* A copy of a stored object, made now or earlier.                          *)
Older(copy, stored) == copy.rv <= stored.rv /\ (copy.rv = stored.rv => copy = stored)

CachesOlder ==
    /\ \A p \in Policies : Older(cPolicy[p], policy[p])
    /\ \A b \in Bindings : Older(cBnd[b], bnd[b])

WorkersOlder ==
    /\ pw # PolicyIdle => Older(pw.policy, policy[pw.key])
    /\ bw # BindingIdle => Older(bw.bnd, bnd[bw.key]) /\ Present(bw.bnd)

InForce(o) == o.phase = "live" /\ o.ready

(* The cache shows the binding b with the pair of o.                        *)
Shown(b, o) == Present(cBnd[b]) /\ cBnd[b].spec = o.spec

(* A binding is in the cache with its pair while it is in force, because its *)
(* pair is fixed then, and while a write of the worker can still succeed,   *)
(* SetReady in particular: nobody has written it since the worker's read.   *)
Seen ==
    /\ \A b \in Bindings : InForce(bnd[b]) => Shown(b, bnd[b])
    /\ bw # BindingIdle => Shown(bw.key, bw.bnd) \/ bw.bnd.rv < bnd[bw.key].rv

PInv == TypeOK /\ CachesOlder /\ WorkersOlder /\ Seen

(* A step leaves an object alone or makes a new version.                    *)
Newer(old, new) == new = old \/ new.rv > old.rv

StoreNewer ==
    /\ \A p \in Policies : Newer(policy[p], policy'[p])
    /\ \A b \in Bindings : Newer(bnd[b], bnd'[b])

---------------------------------------------------------------------------
(* Objects.                                                                *)

LEMMA WorkerKeys ==
    ASSUME TypeOK
    PROVE  /\ pw # PolicyIdle => /\ pw.key \in Policies /\ pw.sets \in Conditions
                                 /\ pw.policy \in PolicyObjects
           /\ bw # BindingIdle => /\ bw.key \in Bindings /\ bw.write \in Writes
                                  /\ bw.bnd \in BindingObjects
BY DEF TypeOK, PolicyWorkers, BindingWorkers

LEMMA OlderStays ==
    ASSUME NEW copy, NEW old, NEW new, copy.rv \in Nat, old.rv \in Nat, new.rv \in Nat,
           Older(copy, old), Newer(old, new)
    PROVE  Older(copy, new)
BY DEF Older, Newer

(* A policy's and a binding's write: of its type, and a newer version.      *)
LEMMA SavedPolicy ==
    ASSUME NEW stored \in PolicyObjects, NEW new \in PolicyObjects
    PROVE  Saved(stored, new) \in PolicyObjects /\ Newer(stored, Saved(stored, new))
BY DEF Saved, Newer, PolicyObjects

LEMMA SavedBinding ==
    ASSUME NEW stored \in BindingObjects, NEW new \in BindingObjects
    PROVE  Saved(stored, new) \in BindingObjects /\ Newer(stored, Saved(stored, new))
BY DEF Saved, Newer, BindingObjects, BindingRecords

LEMMA NextVersion ==
    ASSUME NEW o \in BindingObjects, NEW n \in Nat
    PROVE  /\ [o EXCEPT !.rv = n] \in BindingObjects
           /\ [o EXCEPT !.rv = n].phase = o.phase /\ [o EXCEPT !.rv = n].ready = o.ready
           /\ [o EXCEPT !.rv = n].rv = n
BY DEF BindingObjects, BindingRecords

LEMMA SavedKeeps ==
    ASSUME NEW stored \in BindingObjects, NEW new \in BindingObjects,
           new.phase = stored.phase, new.spec = stored.spec
    PROVE  Saved(stored, new).phase = stored.phase /\ Saved(stored, new).spec = stored.spec
BY DEF Saved, BindingObjects, BindingRecords

LEMMA RemovedPolicyNewer ==
    ASSUME NEW o \in PolicyObjects
    PROVE  RemovedPolicy(o) \in PolicyObjects /\ Newer(o, RemovedPolicy(o))
BY DEF RemovedPolicy, NoPolicy, PolicyObjects, Newer

LEMMA RemovedBindingNewer ==
    ASSUME NEW o \in BindingObjects
    PROVE  /\ RemovedBinding(o) \in BindingObjects /\ Newer(o, RemovedBinding(o))
           /\ RemovedBinding(o).rv > o.rv /\ RemovedBinding(o).phase = "absent"
<1>1. o.rv \in Nat
  BY DEF BindingObjects, BindingRecords
<1>2. NoBinding \in BindingObjects
  BY DEF NoBinding, BindingObjects, BindingRecords
<1>3. RemovedBinding(o) \in BindingObjects
  BY <1>1, <1>2 DEF RemovedBinding, BindingObjects, BindingRecords
<1>4. RemovedBinding(o).rv = o.rv + 1 /\ RemovedBinding(o).phase = "absent"
  BY DEF RemovedBinding, NoBinding
<1> QED
  BY <1>1, <1>3, <1>4 DEF Newer

---------------------------------------------------------------------------
(* The writes to the store: one object each, and a newer version of it.     *)

PolicyWritten ==
    /\ \E p \in Policies : \E o \in PolicyObjects :
         Newer(policy[p], o) /\ policy' = [policy EXCEPT ![p] = o]
    /\ UNCHANGED <<refs, bnd, caches, bw>>

BindingWritten(b, o) ==
    /\ b \in Bindings /\ o \in BindingObjects /\ Newer(bnd[b], o)
    /\ bnd' = [bnd EXCEPT ![b] = o]
    /\ UNCHANGED <<refs, policy, caches>>

LEMMA CreatePolicyWrites ==
    ASSUME TypeOK, NEW p \in Policies, NEW spec \in Specs, CreatePolicy(p, spec)
    PROVE  PolicyWritten
<1> DEFINE o == [NewPolicy(spec) EXCEPT !.rv = policy[p].rv + 1]
<1>1. policy[p] \in PolicyObjects
  BY DEF TypeOK
<1>2. o \in PolicyObjects /\ Newer(policy[p], o)
  BY <1>1 DEF NewPolicy, PolicyObjects, Newer
<1>3. policy' = [policy EXCEPT ![p] = o] /\ UNCHANGED <<refs, bnd, caches, bw>>
  BY DEF CreatePolicy, Request, workers
<1> QED
  BY <1>2, <1>3 DEF PolicyWritten

LEMMA UpdatePolicyWrites ==
    ASSUME TypeOK, NEW p \in Policies, NEW spec \in Specs, UpdatePolicy(p, spec)
    PROVE  PolicyWritten
<1> DEFINE o == [policy[p] EXCEPT !.spec = spec, !.rv = @ + 1]
<1>1. policy[p] \in PolicyObjects /\ policy \in [Policies -> PolicyObjects]
  BY DEF TypeOK
<1>2. policy[p].rv \in Nat /\ o.rv = policy[p].rv + 1
  BY <1>1 DEF PolicyObjects
<1>3. o \in PolicyObjects
  <2> DEFINE changed == [policy[p] EXCEPT !.spec = spec]
  <2>1. changed \in PolicyObjects
    BY <1>1 DEF PolicyObjects
  <2>2. o = [changed EXCEPT !.rv = policy[p].rv + 1]
    BY <1>1 DEF PolicyObjects
  <2> HIDE DEF changed, o
  <2> QED
    BY <1>2, <2>1, <2>2 DEF PolicyObjects
<1>4. policy' = [policy EXCEPT ![p] = o] /\ UNCHANGED <<refs, bnd, caches, bw>>
  BY <1>1 DEF UpdatePolicy, Request, workers
<1>5. Newer(policy[p], o)
  BY <1>2 DEF Newer
<1> HIDE DEF o
<1> QED
  BY <1>3, <1>4, <1>5 DEF PolicyWritten

LEMMA DeletePolicyWrites ==
    ASSUME TypeOK, NEW p \in Policies, DeletePolicy(p)
    PROVE  PolicyWritten
<1>1. policy[p] \in PolicyObjects
  BY DEF TypeOK
<1>2. RemovedPolicy(policy[p]) \in PolicyObjects
      /\ Newer(policy[p], RemovedPolicy(policy[p]))
  BY <1>1, RemovedPolicyNewer
<1>3. policy' = [policy EXCEPT ![p] = RemovedPolicy(policy[p])]
      /\ UNCHANGED <<refs, bnd, caches, bw>>
  BY DEF DeletePolicy, workers
<1> QED
  BY <1>2, <1>3 DEF PolicyWritten

(* What SetCondition stores.                                               *)
Reported ==
    IF Accepts(policy[pw.key], pw.policy)
    THEN Saved(policy[pw.key], [pw.policy EXCEPT !.conditions = @ \cup {pw.sets}])
    ELSE policy[pw.key]

LEMMA SetConditionWrites ==
    ASSUME TypeOK, SetCondition
    PROVE  /\ PolicyWritten
           /\ pw.key \in Policies
           /\ policy' = [policy EXCEPT ![pw.key] = Reported]
<1> DEFINE new == [pw.policy EXCEPT !.conditions = @ \cup {pw.sets}]
<1>1. pw.key \in Policies /\ pw.sets \in Conditions /\ pw.policy \in PolicyObjects
  BY WorkerKeys DEF SetCondition
<1>2. policy[pw.key] \in PolicyObjects
  BY <1>1 DEF TypeOK
<1>3. new \in PolicyObjects
  BY <1>1 DEF PolicyObjects
<1>4. Reported \in PolicyObjects /\ Newer(policy[pw.key], Reported)
  BY <1>2, <1>3, SavedPolicy DEF Reported, Newer
<1>5. policy' = [policy EXCEPT ![pw.key] = Reported]
  BY DEF SetCondition, Reported
<1>6. UNCHANGED <<refs, bnd, caches, bw>>
  BY DEF SetCondition, PolicyDone
<1> QED
  BY <1>1, <1>4, <1>5, <1>6 DEF PolicyWritten

(* A user's write makes a new version, and one that is not in force.        *)
UserWrites(b) ==
    \E o \in BindingObjects :
        BindingWritten(b, o) /\ o.rv > bnd[b].rv /\ ~InForce(o) /\ UNCHANGED workers

LEMMA CreateBindingWrites ==
    ASSUME TypeOK, NEW b \in Bindings, NEW spec \in Specs, CreateBinding(b, spec)
    PROVE  UserWrites(b)
<1> DEFINE o == [NewBinding(spec) EXCEPT !.rv = bnd[b].rv + 1]
<1>1. bnd[b].rv \in Nat
  BY DEF TypeOK, BindingObjects, BindingRecords
<1>2. NewBinding(spec) \in BindingObjects /\ ~NewBinding(spec).ready
  BY DEF NewBinding, BindingObjects, BindingRecords
<1>3. o \in BindingObjects /\ ~InForce(o) /\ o.rv > bnd[b].rv
  <2> DEFINE first == NewBinding(spec)
             n     == bnd[b].rv + 1
  <2>1. n \in Nat /\ n > bnd[b].rv
    BY <1>1
  <2>2. first \in BindingObjects /\ ~first.ready /\ o = [first EXCEPT !.rv = n]
    BY <1>2
  <2> HIDE DEF first, n, o
  <2> QED
    BY <2>1, <2>2, NextVersion DEF InForce
<1>4. bnd' = [bnd EXCEPT ![b] = o] /\ UNCHANGED <<refs, policy, caches, workers>>
  BY DEF CreateBinding, Request
<1> HIDE DEF o
<1> QED
  BY <1>3, <1>4 DEF BindingWritten, Newer, UserWrites

LEMMA UpdateBindingWrites ==
    ASSUME TypeOK, NEW b \in Bindings, NEW spec \in Specs, UpdateBinding(b, spec)
    PROVE  UserWrites(b)
<1> DEFINE o == [bnd[b] EXCEPT !.spec = spec, !.rv = @ + 1]
<1>1. bnd[b] \in BindingObjects /\ bnd[b].rv \in Nat /\ bnd \in [Bindings -> BindingObjects]
  BY DEF TypeOK, BindingObjects, BindingRecords
<1>2. bnd[b].phase = "live" => ~bnd[b].ready
  BY DEF UpdateBinding
<1>3. o \in BindingObjects /\ ~InForce(o) /\ o.rv > bnd[b].rv
  <2> DEFINE changed == [bnd[b] EXCEPT !.spec = spec]
  <2>1. /\ changed \in BindingObjects
        /\ changed.phase = bnd[b].phase /\ changed.ready = bnd[b].ready
    BY <1>1 DEF BindingObjects, BindingRecords
  <2>2. o = [changed EXCEPT !.rv = bnd[b].rv + 1]
    BY <1>1 DEF BindingObjects, BindingRecords
  <2> HIDE DEF changed, o
  <2> QED
    BY <1>1, <1>2, <2>1, <2>2, NextVersion DEF InForce
<1>4. bnd' = [bnd EXCEPT ![b] = o] /\ UNCHANGED <<refs, policy, caches, workers>>
  BY <1>1 DEF UpdateBinding, Request
<1> HIDE DEF o
<1> QED
  BY <1>3, <1>4 DEF BindingWritten, Newer, UserWrites

LEMMA DeleteBindingWrites ==
    ASSUME TypeOK, NEW b \in Bindings, DeleteBinding(b)
    PROVE  UserWrites(b)
<1> DEFINE marked == MarkedBinding(bnd[b])
           o == IF bnd[b].fin THEN marked ELSE RemovedBinding(bnd[b])
<1>1. bnd[b] \in BindingObjects /\ bnd[b].rv \in Nat /\ bnd \in [Bindings -> BindingObjects]
  BY DEF TypeOK, BindingObjects, BindingRecords
<1>2. bnd' = [bnd EXCEPT ![b] = o] /\ UNCHANGED <<refs, policy, caches, workers>>
  BY <1>1 DEF DeleteBinding, Request
<1>3. marked \in BindingObjects /\ marked.rv > bnd[b].rv /\ ~InForce(marked)
  <2> DEFINE changed == [bnd[b] EXCEPT !.phase = "deleting"]
  <2>1. changed \in BindingObjects /\ changed.phase = "deleting"
    BY <1>1 DEF BindingObjects, BindingRecords, DeleteBinding
  <2>2. marked = [changed EXCEPT !.rv = bnd[b].rv + 1]
    BY <1>1 DEF BindingObjects, BindingRecords, MarkedBinding
  <2> HIDE DEF changed, marked
  <2> QED
    BY <1>1, <2>1, <2>2, NextVersion DEF InForce
<1>4. /\ RemovedBinding(bnd[b]) \in BindingObjects
      /\ RemovedBinding(bnd[b]).rv > bnd[b].rv
      /\ ~InForce(RemovedBinding(bnd[b]))
  BY <1>1, RemovedBindingNewer DEF InForce
<1>5. o \in BindingObjects /\ o.rv > bnd[b].rv /\ ~InForce(o)
  <2> HIDE DEF marked
  <2> QED
    BY <1>3, <1>4
<1> HIDE DEF o
<1> QED
  BY <1>2, <1>5 DEF BindingWritten, Newer, UserWrites

(* A write of the binding's worker that is accepted goes on with a binding  *)
(* that is the one stored.                                                 *)
LEMMA WriteOutcome ==
    ASSUME TypeOK, bw # BindingIdle, NEW new \in BindingObjects, Newer(bnd[bw.key], new),
           NEW admitted, NEW next, Write(new, admitted, next)
    PROVE  \/ /\ BindingWritten(bw.key, new) /\ bw' = next /\ UNCHANGED pw
              /\ Present(bnd[bw.key]) /\ bnd[bw.key].rv = bw.bnd.rv
           \/ BindingError
BY WorkerKeys DEF Write, BindingWritten, Accepts, caches

---------------------------------------------------------------------------
(* What keeps the invariant.                                               *)

LEMMA PolicyWrittenKeeps ==
    ASSUME PInv, PolicyWritten, pw' \in {pw, PolicyIdle}
    PROVE  CachesOlder' /\ WorkersOlder' /\ Seen'
<1>1. PICK p \in Policies, o \in PolicyObjects :
        Newer(policy[p], o) /\ policy' = [policy EXCEPT ![p] = o]
  BY DEF PolicyWritten
<1>2. UNCHANGED <<bnd, cPolicy, cBnd, bw>>
  BY DEF PolicyWritten, caches
<1>3. \A q \in Policies : /\ policy[q] \in PolicyObjects /\ policy'[q] \in PolicyObjects
                          /\ Newer(policy[q], policy'[q])
  BY <1>1 DEF PInv, TypeOK, Newer
<1>4. \A q \in Policies : \A copy \in PolicyObjects :
        Older(copy, policy[q]) => Older(copy, policy'[q])
  BY <1>3, OlderStays DEF PolicyObjects
<1>5. CachesOlder'
  BY <1>2, <1>4 DEF PInv, TypeOK, CachesOlder
<1>6. WorkersOlder'
  BY <1>2, <1>4, WorkerKeys DEF PInv, WorkersOlder
<1>7. Seen'
  BY <1>2 DEF PInv, Seen, Shown, InForce
<1> QED
  BY <1>5, <1>6, <1>7

LEMMA BindingWrittenKeeps ==
    ASSUME PInv, NEW b, NEW o, BindingWritten(b, o), UNCHANGED pw,
           InForce(o) => Shown(b, o),
           \/ bw' = BindingIdle
           \/ bw' = bw /\ o.rv > bnd[b].rv
           \/ bw'.key = b /\ bw'.bnd = o /\ Present(o) /\ Shown(b, o)
    PROVE  CachesOlder' /\ WorkersOlder' /\ Seen'
<1>1. /\ b \in Bindings /\ o \in BindingObjects /\ Newer(bnd[b], o)
      /\ bnd' = [bnd EXCEPT ![b] = o] /\ UNCHANGED <<policy, cPolicy, cBnd>>
  BY DEF BindingWritten, caches
<1>2. \A c \in Bindings : /\ bnd[c] \in BindingObjects /\ bnd'[c] \in BindingObjects
                          /\ Newer(bnd[c], bnd'[c])
  BY <1>1 DEF PInv, TypeOK, Newer
<1>3. \A c \in Bindings : \A copy \in BindingObjects :
        Older(copy, bnd[c]) => Older(copy, bnd'[c])
  BY <1>2, OlderStays DEF BindingObjects, BindingRecords
<1>4. CachesOlder'
  BY <1>1, <1>3 DEF PInv, TypeOK, CachesOlder
<1>5. bnd'[b] = o /\ \A c \in Bindings \ {b} : bnd'[c] = bnd[c]
  BY <1>1 DEF PInv, TypeOK
<1>6. o.rv \in Nat /\ bnd[b].rv \in Nat
  BY <1>1, <1>2 DEF BindingObjects, BindingRecords
<1>7. \A c \in Bindings : InForce(bnd'[c]) => Shown(c, bnd'[c])
  BY <1>1, <1>5 DEF PInv, Seen
<1>8. Seen' <=> /\ \A c \in Bindings : InForce(bnd'[c]) => Shown(c, bnd'[c])
                /\ \/ bw' = BindingIdle
                   \/ Shown(bw'.key, bw'.bnd) \/ bw'.bnd.rv < bnd'[bw'.key].rv
  BY <1>1 DEF Seen, Shown, InForce
<1>9. CASE bw' = BindingIdle
  <2>1. WorkersOlder'
    BY <1>1, <1>9 DEF PInv, WorkersOlder
  <2>2. Seen'
    BY <1>9, <1>7, <1>8
  <2> QED
    BY <1>4, <2>1, <2>2
<1>10. CASE bw' = bw /\ o.rv > bnd[b].rv
  <2>1. bw # BindingIdle => bw.key \in Bindings /\ bw.bnd \in BindingObjects
    BY WorkerKeys DEF PInv
  <2>2. WorkersOlder'
    BY <1>1, <1>3, <1>10, <2>1 DEF PInv, WorkersOlder
  <2>3. bw # BindingIdle /\ ~Shown(bw.key, bw.bnd) => bw.bnd.rv < bnd'[bw.key].rv
    <3> SUFFICES ASSUME bw # BindingIdle, ~Shown(bw.key, bw.bnd)
                 PROVE  bw.bnd.rv < bnd'[bw.key].rv
      OBVIOUS
    <3>1. bw.bnd.rv < bnd[bw.key].rv
      BY DEF PInv, Seen
    <3>2. bw.bnd.rv \in Nat /\ bnd[bw.key].rv \in Nat
      BY <1>2, <2>1 DEF BindingObjects, BindingRecords
    <3> QED
      BY <1>5, <1>6, <1>10, <2>1, <3>1, <3>2
  <2>4. Seen'
    BY <1>10, <1>7, <1>8, <2>3
  <2> QED
    BY <1>4, <2>2, <2>4
<1>11. CASE bw'.key = b /\ bw'.bnd = o /\ Present(o) /\ Shown(b, o)
  <2>1. WorkersOlder'
    BY <1>1, <1>5, <1>6, <1>11 DEF PInv, WorkersOlder, Older
  <2>2. Seen'
    BY <1>11, <1>7, <1>8
  <2> QED
    BY <1>4, <2>1, <2>2
<1> QED
  BY <1>9, <1>10, <1>11

(* A copy of what is cached, or no worker at all.                           *)
LEMMA FirstWriteOfAKind ==
    ASSUME NEW binding \in BindingObjects, Present(binding)
    PROVE  FirstWrite(binding) \in Writes
BY DEF BindingObjects, BindingRecords, FirstWrite, Writes

LEMMA SyncPolicyKeeps ==
    ASSUME PInv, NEW p \in Policies, SyncPolicy(p)
    PROVE  PInv'
<1>1. /\ cPolicy' = [cPolicy EXCEPT ![p] = policy[p]] /\ pq' = pq \cup {p}
      /\ UNCHANGED <<refs, policy, bnd, deletion, cRefs, cBnd, bq, pw, bw>>
  BY DEF SyncPolicy, store, workers
<1>2. TypeOK'
  BY <1>1 DEF PInv, TypeOK
<1>3. CachesOlder'
  BY <1>1 DEF PInv, TypeOK, CachesOlder, Older, PolicyObjects
<1>4. WorkersOlder' /\ Seen'
  BY <1>1 DEF PInv, WorkersOlder, Seen, Shown, InForce
<1> QED
  BY <1>2, <1>3, <1>4 DEF PInv

LEMMA SyncBindingKeeps ==
    ASSUME PInv, NEW b \in Bindings, SyncBinding(b)
    PROVE  PInv'
<1>1. /\ cBnd' = [cBnd EXCEPT ![b] = bnd[b]] /\ bq' = bq \cup {b}
      /\ UNCHANGED <<refs, policy, bnd, deletion, cRefs, cPolicy, pq, pw, bw>>
  BY DEF SyncBinding, store, workers
<1>2. TypeOK'
  BY <1>1 DEF PInv, TypeOK
<1>3. CachesOlder'
  BY <1>1 DEF PInv, TypeOK, CachesOlder, Older, BindingObjects, BindingRecords
<1>4. WorkersOlder'
  BY <1>1 DEF PInv, WorkersOlder
<1>5. cBnd'[b] = bnd[b] /\ \A c \in Bindings \ {b} : cBnd'[c] = cBnd[c]
  BY <1>1 DEF PInv, TypeOK
<1>6. \A c \in Bindings : InForce(bnd[c]) => Present(cBnd'[c]) /\ cBnd'[c].spec = bnd[c].spec
  BY <1>5 DEF PInv, Seen, Shown, InForce
<1>7. ASSUME bw # BindingIdle, ~(bw.bnd.rv < bnd[bw.key].rv)
      PROVE  Present(cBnd'[bw.key]) /\ cBnd'[bw.key].spec = bw.bnd.spec
  <2>1. bw.key \in Bindings /\ bw.bnd \in BindingObjects /\ bnd[bw.key] \in BindingObjects
    BY <1>7, WorkerKeys DEF PInv, TypeOK
  <2>2. CASE bw.key = b
    <3>1. bw.bnd = bnd[b] /\ Present(bw.bnd)
      BY <1>7, <2>1, <2>2 DEF PInv, WorkersOlder, Older, BindingObjects, BindingRecords
    <3> QED
      BY <1>5, <2>2, <3>1
  <2>3. CASE bw.key # b
    BY <1>5, <1>7, <2>1, <2>3 DEF PInv, Seen, Shown
  <2> QED
    BY <2>2, <2>3
<1>8. Seen'
  BY <1>1, <1>6, <1>7 DEF Seen, Shown, InForce
<1> QED
  BY <1>2, <1>3, <1>4, <1>8 DEF PInv

LEMMA ReconcilePolicyKeeps ==
    ASSUME PInv, NEW p \in Policies, ReconcilePolicy(p)
    PROVE  PInv'
<1>1. UNCHANGED <<refs, policy, bnd, deletion, cRefs, cPolicy, cBnd, bq, bw>>
  BY DEF ReconcilePolicy, store, caches
<1>2. cPolicy[p] \in PolicyObjects /\ Older(cPolicy[p], policy[p])
  BY DEF PInv, TypeOK, CachesOlder
<1>3. Verdict(cPolicy[p].spec) \in Conditions
  BY DEF Verdict, Conditions
<1>4. \/ pw' = pw
      \/ pw' = [key |-> p, sets |-> Verdict(cPolicy[p].spec), policy |-> cPolicy[p]]
  BY DEF ReconcilePolicy
<1>5. pw' \in PolicyWorkers
  BY <1>2, <1>3, <1>4 DEF PInv, TypeOK, PolicyWorkers
<1>6. TypeOK'
  BY <1>1, <1>5 DEF PInv, TypeOK, ReconcilePolicy
<1>7. pw' # PolicyIdle => Older(pw'.policy, policy[pw'.key])
  BY <1>2, <1>4 DEF PInv, WorkersOlder
<1>8. CachesOlder' /\ WorkersOlder' /\ Seen'
  BY <1>1, <1>7 DEF PInv, CachesOlder, WorkersOlder, Seen, Shown, InForce
<1> QED
  BY <1>6, <1>8 DEF PInv

LEMMA ReconcileBindingKeeps ==
    ASSUME PInv, NEW b \in Bindings, ReconcileBinding(b)
    PROVE  PInv'
<1> DEFINE job == [key |-> b, write |-> FirstWrite(cBnd[b]), bnd |-> cBnd[b]]
<1>1. UNCHANGED <<refs, policy, bnd, deletion, cRefs, cPolicy, cBnd, pq, pw>>
  BY DEF ReconcileBinding, store, caches
<1>2. cBnd[b] \in BindingObjects /\ Older(cBnd[b], bnd[b])
  BY DEF PInv, TypeOK, CachesOlder
<1>3. \/ bw' = bw
      \/ bw' = job /\ Present(cBnd[b])
  BY DEF ReconcileBinding
<1>4. bw' \in BindingWorkers
  BY <1>2, <1>3, FirstWriteOfAKind DEF PInv, TypeOK, BindingWorkers
<1>5. TypeOK'
  BY <1>1, <1>4 DEF PInv, TypeOK, ReconcileBinding
<1>6. bw' # BindingIdle => Older(bw'.bnd, bnd[bw'.key]) /\ Present(bw'.bnd)
  BY <1>2, <1>3 DEF PInv, WorkersOlder
<1>7. bw' # BindingIdle => Shown(bw'.key, bw'.bnd) \/ bw'.bnd.rv < bnd[bw'.key].rv
  BY <1>3 DEF PInv, Seen, Shown
<1>8. CachesOlder' /\ WorkersOlder' /\ Seen'
  BY <1>1, <1>6, <1>7 DEF PInv, CachesOlder, WorkersOlder, Seen, Shown, InForce
<1> QED
  BY <1>5, <1>8 DEF PInv

(* The worker gives up, or its write fails.                                 *)
LEMMA BindingErrorKeeps ==
    ASSUME PInv, bw # BindingIdle, BindingError
    PROVE  PInv'
<1>1. /\ bw' = BindingIdle /\ bq' = bq \cup {bw.key} /\ bw.key \in Bindings
      /\ UNCHANGED <<refs, policy, bnd, deletion, cRefs, cPolicy, cBnd, pq, pw>>
  BY WorkerKeys DEF PInv, BindingError, store, caches
<1>2. TypeOK'
  BY <1>1 DEF PInv, TypeOK, BindingWorkers
<1> QED
  BY <1>1, <1>2 DEF PInv, CachesOlder, WorkersOlder, Seen, Shown, InForce

LEMMA RestartKeeps ==
    ASSUME PInv, Restart
    PROVE  PInv'
<1>1. /\ cRefs' = refs /\ cPolicy' = policy /\ cBnd' = bnd
      /\ pq' \subseteq Policies /\ bq' \subseteq Bindings
      /\ pw' = PolicyIdle /\ bw' = BindingIdle
      /\ UNCHANGED <<refs, policy, bnd, deletion>>
  BY DEF Restart, store
<1>2. TypeOK'
  BY <1>1 DEF PInv, TypeOK, PolicyWorkers, BindingWorkers
<1>3. CachesOlder'
  BY <1>1 DEF PInv, TypeOK, CachesOlder, Older, PolicyObjects, BindingObjects, BindingRecords
<1>4. WorkersOlder' /\ Seen'
  BY <1>1 DEF PInv, WorkersOlder, Seen, Shown, InForce
<1> QED
  BY <1>2, <1>3, <1>4 DEF PInv

---------------------------------------------------------------------------
(* The four writes of the binding's worker.                                *)

LEMMA BindingWriteKeeps ==
    ASSUME PInv, BindingWrite
    PROVE  PInv'
<1> DEFINE b == bw.key
           stored == bnd[b]
<1>1. /\ b \in Bindings /\ bw.write \in Writes /\ bw.bnd \in BindingObjects
      /\ bw # BindingIdle /\ stored \in BindingObjects /\ TypeOK
  BY WorkerKeys DEF PInv, TypeOK, BindingWrite
<1>2. stored.rv = bw.bnd.rv => stored = bw.bnd /\ Shown(b, bw.bnd)
  BY <1>1 DEF PInv, WorkersOlder, Older, Seen, BindingObjects, BindingRecords
<1>3. ASSUME NEW new \in BindingObjects, BindingWritten(b, new), UNCHANGED pw,
             UNCHANGED <<deletion, queues>>,
             InForce(new) => Shown(b, new),
             \/ bw' = BindingIdle
             \/ /\ bw' = [bw EXCEPT !.write = "SetReady", !.bnd = new]
                /\ Present(new) /\ Shown(b, new)
      PROVE  PInv'
  <2>1. bw' = BindingIdle \/ bw' = [key |-> b, write |-> "SetReady", bnd |-> new]
    <3>1. bw \in [key : Bindings, write : Writes, bnd : BindingObjects]
      BY <1>1 DEF TypeOK, BindingWorkers
    <3> QED
      BY <1>3, <3>1
  <2>2. bw' \in BindingWorkers
    BY <1>1, <2>1 DEF BindingWorkers, Writes
  <2>3. TypeOK'
    BY <1>1, <1>3, <2>2 DEF TypeOK, BindingWritten, caches, queues
  <2>4. \/ bw' = BindingIdle
        \/ bw'.key = b /\ bw'.bnd = new /\ Present(new) /\ Shown(b, new)
    BY <1>3, <2>1
  <2>5. CachesOlder' /\ WorkersOlder' /\ Seen'
    BY <1>3, <2>4, BindingWrittenKeeps
  <2> QED
    BY <2>3, <2>5 DEF PInv
<1>4. ASSUME NEW new \in BindingObjects, NEW admitted, NEW next,
             Newer(stored, new), Write(new, admitted, next),
             Present(stored) /\ stored = bw.bnd
             => \/ ~InForce(new) /\ next = BindingIdle
                \/ /\ Present(new) /\ new.spec = bw.bnd.spec
                   /\ \/ next = BindingIdle
                      \/ next = [bw EXCEPT !.write = "SetReady", !.bnd = new]
      PROVE  PInv'
  <2>1. CASE BindingError
    BY <1>1, <2>1, BindingErrorKeeps
  <2>2. CASE ~BindingError
    <3>1. /\ BindingWritten(b, new) /\ bw' = next /\ UNCHANGED pw
          /\ Present(stored) /\ stored.rv = bw.bnd.rv
      BY <1>1, <1>4, <2>2, WriteOutcome
    <3>2. UNCHANGED <<deletion, queues>>
      BY <1>4, <2>2 DEF Write
    <3>3. new.spec = bw.bnd.spec => Shown(b, new)
      BY <1>2, <3>1 DEF Shown
    <3> QED
      BY <1>2, <1>3, <1>4, <3>1, <3>2, <3>3
  <2> QED
    BY <2>1, <2>2
<1>5. CASE AddFinalizer
  <2> DEFINE given == [bw.bnd EXCEPT !.fin = TRUE]
             new == Saved(stored, given)
  <2>1. given \in BindingObjects /\ given.phase = bw.bnd.phase /\ given.spec = bw.bnd.spec
    BY <1>1 DEF BindingObjects, BindingRecords
  <2>2. new \in BindingObjects /\ Newer(stored, new)
    BY <1>1, <2>1, SavedBinding
  <2>3. Write(new, UpdateAdmitted(bw.bnd), BindingIdle)
    BY <1>5 DEF AddFinalizer
  <2>4. stored = bw.bnd /\ Present(stored) => Present(new) /\ new.spec = bw.bnd.spec
    BY <1>1, <2>1, SavedKeeps
  <2> HIDE DEF new
  <2> QED
    BY <1>4, <2>2, <2>3, <2>4
<1>6. CASE AddOwners
  <2> DEFINE given == [bw.bnd EXCEPT !.owners = @ \cup {bw.bnd.spec.service, bw.bnd.spec.group}]
             new == Saved(stored, given)
  <2>1. given \in BindingObjects /\ given.phase = bw.bnd.phase /\ given.spec = bw.bnd.spec
    <3>1. bw.bnd.spec \in Specs
      BY <1>1 DEF PInv, WorkersOlder, BindingObjects, BindingRecords
    <3>2. {bw.bnd.spec.service, bw.bnd.spec.group} \subseteq Services \cup Groups
      BY <3>1 DEF Specs
    <3> QED
      BY <1>1, <3>2 DEF BindingObjects, BindingRecords
  <2>2. new \in BindingObjects /\ Newer(stored, new)
    BY <1>1, <2>1, SavedBinding
  <2>3. Write(new, UpdateAdmitted(bw.bnd), [bw EXCEPT !.write = "SetReady", !.bnd = new])
    BY <1>6 DEF AddOwners
  <2>4. stored = bw.bnd /\ Present(stored) => Present(new) /\ new.spec = bw.bnd.spec
    BY <1>1, <2>1, SavedKeeps
  <2> HIDE DEF new
  <2> QED
    BY <1>4, <2>2, <2>3, <2>4
<1>7. CASE SetReady
  <2> DEFINE given == [bw.bnd EXCEPT !.ready = TRUE]
             new == Saved(stored, given)
  <2>1. given \in BindingObjects /\ given.phase = bw.bnd.phase /\ given.spec = bw.bnd.spec
    BY <1>1 DEF BindingObjects, BindingRecords
  <2>2. new \in BindingObjects /\ Newer(stored, new)
    BY <1>1, <2>1, SavedBinding
  <2>3. Write(new, TRUE, BindingIdle)
    BY <1>7 DEF SetReady
  <2>4. stored = bw.bnd /\ Present(stored) => Present(new) /\ new.spec = bw.bnd.spec
    BY <1>1, <2>1, SavedKeeps
  <2> HIDE DEF new
  <2> QED
    BY <1>4, <2>2, <2>3, <2>4
<1>8. CASE RemoveFinalizer
  <2> DEFINE new == RemovedBinding(stored)
  <2>1. new \in BindingObjects /\ Newer(stored, new)
    BY <1>1, RemovedBindingNewer
  <2>2. ~InForce(new)
    BY <1>1, RemovedBindingNewer DEF InForce
  <2>3. Write(new, UpdateAdmitted(bw.bnd), BindingIdle)
    BY <1>8 DEF RemoveFinalizer
  <2> HIDE DEF new
  <2> QED
    BY <1>4, <2>1, <2>2, <2>3
<1> QED
  BY <1>5, <1>6, <1>7, <1>8 DEF BindingWrite

---------------------------------------------------------------------------
(* Init, and one step per action.                                          *)

LEMMA InitHolds == Init => PInv
<1> SUFFICES ASSUME Init PROVE PInv
  OBVIOUS
<1>1. PICK scenario \in Scenarios :
        /\ refs = Services \cup Groups
        /\ policy = [p \in Policies |-> IF p \in DOMAIN scenario.policies
                                        THEN NewPolicy(scenario.policies[p]) ELSE NoPolicy]
        /\ bnd = [b \in Bindings |-> IF b \in DOMAIN scenario.bindings
                                     THEN ExistingBinding(scenario.bindings[b]) ELSE NoBinding]
        /\ deletion = [p \in Policies |-> None]
        /\ cRefs = refs /\ cPolicy = policy /\ cBnd = bnd
        /\ pq = DOMAIN scenario.policies /\ bq = {}
        /\ pw = PolicyIdle /\ bw = BindingIdle
  BY DEF Init
<1>2. /\ DOMAIN scenario.policies \subseteq Policies
      /\ \A p \in DOMAIN scenario.policies : scenario.policies[p] \in Specs
      /\ \A b \in DOMAIN scenario.bindings : scenario.bindings[b] \in Specs
  BY ScenariosAssumption
<1>3. NoPolicy \in PolicyObjects /\ NoBinding \in BindingObjects
  BY DEF NoPolicy, NoBinding, PolicyObjects, BindingObjects, BindingRecords
<1>4. \A spec \in Specs : ExistingBinding(spec) \in BindingObjects /\ Present(ExistingBinding(spec))
  BY DEF ExistingBinding, BindingObjects, BindingRecords, Specs
<1>5. \A spec \in Specs : NewPolicy(spec) \in PolicyObjects
  BY DEF NewPolicy, PolicyObjects
<1>6. policy \in [Policies -> PolicyObjects]
  BY <1>1, <1>2, <1>3, <1>5
<1>7. bnd \in [Bindings -> BindingObjects]
  BY <1>1, <1>2, <1>3, <1>4
<1>8. TypeOK
  BY <1>1, <1>2, <1>6, <1>7 DEF TypeOK, PolicyWorkers, BindingWorkers, Versions
<1>9. CachesOlder /\ WorkersOlder
  BY <1>1, <1>6, <1>7
     DEF CachesOlder, WorkersOlder, Older, PolicyObjects, BindingObjects, BindingRecords
<1>10. Seen
  BY <1>1 DEF Seen, Shown, InForce
<1> QED
  BY <1>8, <1>9, <1>10 DEF PInv

LEMMA StepKeeps == PInv /\ [Next]_vars => PInv'
<1> SUFFICES ASSUME PInv, [Next]_vars PROVE PInv'
  OBVIOUS
<1> USE DEF store, caches, queues, workers
<1>1. ASSUME PolicyWritten, pw' \in {pw, PolicyIdle},
             cRefs' = cRefs, pq' \subseteq Policies, bq' = bq,
             deletion' \in [Policies -> Versions]
      PROVE  PInv'
  <2>1. PICK p \in Policies, o \in PolicyObjects :
          Newer(policy[p], o) /\ policy' = [policy EXCEPT ![p] = o]
    BY <1>1 DEF PolicyWritten
  <2>2. TypeOK'
    BY <1>1, <2>1 DEF PInv, TypeOK, PolicyWritten, PolicyWorkers
  <2> QED
    BY <1>1, <2>2, PolicyWrittenKeeps DEF PInv
<1>2. ASSUME NEW p \in Policies, NEW spec \in Specs, CreatePolicy(p, spec)
      PROVE  PInv'
  <2>1. PolicyWritten
    BY <1>2, CreatePolicyWrites DEF PInv
  <2> QED
    BY <1>1, <1>2, <2>1 DEF PInv, TypeOK, CreatePolicy, Request
<1>3. ASSUME NEW p \in Policies, NEW spec \in Specs, UpdatePolicy(p, spec)
      PROVE  PInv'
  <2>1. PolicyWritten
    BY <1>3, UpdatePolicyWrites DEF PInv
  <2> QED
    BY <1>1, <1>3, <2>1 DEF PInv, TypeOK, UpdatePolicy, Request
<1>4. ASSUME NEW p \in Policies, DeletePolicy(p)
      PROVE  PInv'
  <2>1. PolicyWritten
    BY <1>4, DeletePolicyWrites DEF PInv
  <2>2. deletion' \in [Policies -> Versions]
    BY <1>4 DEF PInv, TypeOK, DeletePolicy, Versions
  <2> QED
    BY <1>1, <1>4, <2>1, <2>2 DEF PInv, TypeOK, DeletePolicy
<1>5. CASE SetCondition
  <2>1. PolicyWritten /\ pw.key \in Policies
    BY <1>5, SetConditionWrites DEF PInv
  <2> QED
    BY <1>1, <1>5, <2>1 DEF PInv, TypeOK, SetCondition, PolicyDone
<1>6. ASSUME deletion' \in [Policies -> Versions],
             refs' \subseteq Services \cup Groups, cRefs' \subseteq Services \cup Groups,
             pq' \subseteq Policies, pw' \in {pw, PolicyIdle},
             UNCHANGED <<policy, bnd, cPolicy, cBnd, bq, bw>>
      PROVE  PInv'
  <2>1. TypeOK'
    BY <1>6 DEF PInv, TypeOK, PolicyWorkers
  <2>2. CachesOlder' /\ WorkersOlder' /\ Seen'
    BY <1>6 DEF PInv, CachesOlder, WorkersOlder, Seen, Shown, InForce
  <2> QED
    BY <2>1, <2>2 DEF PInv
<1>7. ASSUME NEW p \in Policies, AdmitDeletion(p) \/ ReadmitDeletion(p)
      PROVE  PInv'
  <2>1. deletion' \in [Policies -> Versions]
    BY <1>7 DEF PInv, TypeOK, AdmitDeletion, ReadmitDeletion, Versions, PolicyObjects
  <2> QED
    BY <1>6, <1>7, <2>1 DEF PInv, TypeOK, AdmitDeletion, ReadmitDeletion, Request
<1>8. ASSUME NEW o \in Services \cup Groups, Leave(o) \/ Come(o) \/ SyncRef(o)
      PROVE  PInv'
  BY <1>6, <1>8 DEF PInv, TypeOK, Leave, Come, SyncRef
<1>9. ASSUME NEW b \in Bindings, UserWrites(b), UNCHANGED <<deletion, queues>>
      PROVE  PInv'
  <2>1. PICK o \in BindingObjects :
          BindingWritten(b, o) /\ o.rv > bnd[b].rv /\ ~InForce(o) /\ UNCHANGED workers
    BY <1>9 DEF UserWrites
  <2>2. TypeOK'
    BY <1>9, <2>1 DEF PInv, TypeOK, BindingWritten
  <2>3. CachesOlder' /\ WorkersOlder' /\ Seen'
    BY <2>1, BindingWrittenKeeps
  <2> QED
    BY <2>2, <2>3 DEF PInv
<1>10. ASSUME NEW b \in Bindings, NEW spec \in Specs,
              CreateBinding(b, spec) \/ UpdateBinding(b, spec)
       PROVE  PInv'
  <2>1. UserWrites(b)
    BY <1>10, CreateBindingWrites, UpdateBindingWrites DEF PInv
  <2> QED
    BY <1>9, <1>10, <2>1 DEF CreateBinding, UpdateBinding, Request
<1>11. ASSUME NEW b \in Bindings, DeleteBinding(b)
       PROVE  PInv'
  <2>1. UserWrites(b)
    BY <1>11, DeleteBindingWrites DEF PInv
  <2> QED
    BY <1>9, <1>11, <2>1 DEF DeleteBinding, Request
<1>12. CASE FailedCall
  <2>1. CASE pw # PolicyIdle /\ PolicyDone(TRUE) /\ UNCHANGED policy
    <3>1. pw.key \in Policies
      BY <2>1, WorkerKeys DEF PInv
    <3> QED
      BY <1>6, <2>1, <3>1 DEF PInv, TypeOK, PolicyDone
  <2>2. CASE bw # BindingIdle /\ BindingError
    BY <2>2, BindingErrorKeeps
  <2> QED
    BY <1>12, <2>1, <2>2 DEF FailedCall
<1>13. CASE UNCHANGED vars
  BY <1>6, <1>13 DEF PInv, TypeOK, vars
<1>14. CASE Users
  BY <1>2, <1>3, <1>4, <1>7, <1>8, <1>10, <1>11, <1>14 DEF Users
<1>15. CASE Informers
  BY <1>8, <1>15, SyncPolicyKeeps, SyncBindingKeeps DEF Informers
<1>16. CASE PolicyReconciler
  BY <1>5, <1>16, ReconcilePolicyKeeps DEF PolicyReconciler
<1>17. CASE BindingReconciler
  BY <1>17, ReconcileBindingKeeps, BindingWriteKeeps DEF BindingReconciler
<1>18. CASE Restart
  BY <1>18, RestartKeeps
<1> QED
  BY <1>12, <1>13, <1>14, <1>15, <1>16, <1>17, <1>18 DEF Next

THEOREM PolicyInvariant == Spec => []PInv
BY InitHolds, StepKeeps, PTL DEF Spec

---------------------------------------------------------------------------
(* Type correctness of the policies' controller and validators.             *)
THEOREM PolicyTypes == Spec => []TypeOK
<1>1. PInv => TypeOK
  BY DEF PInv
<1> QED
  BY <1>1, PolicyInvariant, PTL

(* Only a DELETE's validation lets one in, and it finds a binding in force   *)
(* with the policy's pair in the cache: Seen.                               *)
LEMMA DeletionHeld ==
    ASSUME PInv, [Next]_vars, NEW p \in Policies, NEW b \in Bindings,
           bnd[b].phase = "live", bnd[b].ready, bnd[b].spec = policy[p].spec
    PROVE  deletion'[p] \in {deletion[p], None}
<1> USE DEF store, caches, queues, workers
<1>1. b \in Dependents(policy[p].spec)
  BY DEF PInv, Seen, Shown, InForce, Dependents
<1>2. deletion \in [Policies -> Versions]
  BY DEF PInv, TypeOK
<1>3. ASSUME NEW q \in Policies, AdmitDeletion(q)
      PROVE  deletion'[p] = deletion[p]
  <2>1. q # p
    BY <1>1, <1>3 DEF AdmitDeletion
  <2> QED
    BY <1>2, <1>3, <2>1 DEF AdmitDeletion
<1>4. ASSUME NEW q \in Policies, ReadmitDeletion(q)
      PROVE  deletion'[p] \in {deletion[p], None}
  BY <1>1, <1>2, <1>4 DEF ReadmitDeletion
<1>5. ASSUME NEW q \in Policies, DeletePolicy(q)
      PROVE  deletion'[p] \in {deletion[p], None}
  BY <1>2, <1>5 DEF DeletePolicy
<1>6. CASE Users
  <2>1. ASSUME NEW q \in Policies, NEW spec \in Specs,
               CreatePolicy(q, spec) \/ UpdatePolicy(q, spec)
        PROVE  deletion' = deletion
    BY <2>1 DEF CreatePolicy, UpdatePolicy
  <2>2. ASSUME NEW c \in Bindings, NEW spec \in Specs,
               CreateBinding(c, spec) \/ UpdateBinding(c, spec)
        PROVE  deletion' = deletion
    BY <2>2 DEF CreateBinding, UpdateBinding
  <2>3. ASSUME NEW c \in Bindings, DeleteBinding(c)
        PROVE  deletion' = deletion
    BY <2>3 DEF DeleteBinding
  <2>4. ASSUME NEW o \in Services \cup Groups, Leave(o) \/ Come(o)
        PROVE  deletion' = deletion
    BY <2>4 DEF Leave, Come
  <2> QED
    BY <1>3, <1>4, <1>5, <1>6, <2>1, <2>2, <2>3, <2>4 DEF Users
<1>7. CASE Informers
  BY <1>7 DEF Informers, SyncPolicy, SyncBinding, SyncRef
<1>8. CASE PolicyReconciler
  BY <1>8 DEF PolicyReconciler, ReconcilePolicy, SetCondition, PolicyDone
<1>9. CASE BindingReconciler
  BY <1>9 DEF BindingReconciler, ReconcileBinding, BindingWrite, AddFinalizer, AddOwners,
              SetReady, RemoveFinalizer, Write, BindingError
<1>10. CASE FailedCall \/ Restart
  BY <1>10 DEF FailedCall, PolicyDone, BindingError, Restart
<1>11. CASE UNCHANGED vars
  BY <1>11 DEF vars
<1> QED
  BY <1>6, <1>7, <1>8, <1>9, <1>10, <1>11 DEF Next

(* A policy cannot be deleted while a binding that needs it is in force: the *)
(* validator's cached List may be stale, but it shows a binding that is      *)
(* Ready with the pair it is Ready for, because the controller read it there *)
(* and nobody changes the pair afterwards.  Of a binding that only has its   *)
(* finalizer this is not true, and of one being deleted neither.             *)
THEOREM ReadyHoldsPolicyHolds == Spec => ReadyHoldsPolicy
<1>1. PInv /\ [Next]_vars
      => [\A p \in Policies, b \in Bindings :
            bnd[b].phase = "live" /\ bnd[b].ready /\ bnd[b].spec = policy[p].spec
            => deletion'[p] \in {deletion[p], None}]_vars
  BY DeletionHeld
<1> QED
  BY <1>1, PolicyInvariant, PTL DEF Spec, ReadyHoldsPolicy

---------------------------------------------------------------------------
(* Only SetCondition gives a condition, to the policy it read.              *)
LEMMA ReadyIsOfItsSpec ==
    ASSUME PInv, [Next]_vars, NEW p \in Policies, "Ready" \in policy'[p].conditions
    PROVE  \/ "Ready" \in policy[p].conditions /\ policy'[p].spec = policy[p].spec
           \/ pw.key = p /\ pw.sets = "Ready" /\ pw.policy.spec = policy'[p].spec
<1> USE DEF store, caches, queues, workers
<1> DEFINE Goal == \/ "Ready" \in policy[p].conditions /\ policy'[p].spec = policy[p].spec
                   \/ /\ pw.key = p /\ pw.sets = "Ready"
                      /\ pw.policy.spec = policy'[p].spec
<1>1. policy \in [Policies -> PolicyObjects] /\ TypeOK
  BY DEF PInv, TypeOK
<1>2. CASE policy' = policy
  BY <1>2
<1>3. ASSUME NEW q \in Policies, NEW o, policy' = [policy EXCEPT ![q] = o],
             q = p => "Ready" \notin o.conditions
      PROVE  Goal
  BY <1>1, <1>3
<1>4. ASSUME NEW q \in Policies, NEW spec \in Specs, CreatePolicy(q, spec)
      PROVE  Goal
  <2>1. [NewPolicy(spec) EXCEPT !.rv = policy[q].rv + 1].conditions = {}
    BY DEF NewPolicy
  <2> QED
    BY <1>3, <1>4, <2>1 DEF CreatePolicy
<1>5. ASSUME NEW q \in Policies, NEW spec \in Specs, UpdatePolicy(q, spec)
      PROVE  Goal
  <2> DEFINE o == [policy[q] EXCEPT !.spec = spec, !.rv = @ + 1]
  <2>1. policy' = [policy EXCEPT ![q] = o] /\ "Ready" \notin policy[q].conditions
    BY <1>1, <1>5 DEF UpdatePolicy
  <2>2. o.conditions = policy[q].conditions
    BY <1>1 DEF PolicyObjects
  <2> QED
    BY <1>3, <2>1, <2>2
<1>6. ASSUME NEW q \in Policies, DeletePolicy(q)
      PROVE  Goal
  <2>1. RemovedPolicy(policy[q]).conditions = {}
    BY DEF RemovedPolicy, NoPolicy
  <2> QED
    BY <1>3, <1>6, <2>1 DEF DeletePolicy
<1>7. CASE SetCondition
  <2> DEFINE new == [pw.policy EXCEPT !.conditions = @ \cup {pw.sets}]
  <2>1. /\ pw # PolicyIdle /\ pw.key \in Policies /\ pw.policy \in PolicyObjects
        /\ policy' = [policy EXCEPT ![pw.key] = Reported]
    BY <1>1, <1>7, SetConditionWrites, WorkerKeys DEF SetCondition
  <2>2. CASE pw.key # p \/ ~Accepts(policy[p], pw.policy)
    BY <1>1, <2>1, <2>2 DEF Reported
  <2>3. CASE pw.key = p /\ Accepts(policy[p], pw.policy)
    <3>1. policy[p] = pw.policy
      BY <2>1, <2>3 DEF PInv, WorkersOlder, Older, Accepts
    <3>2. policy'[p] = Saved(policy[p], new)
      BY <1>1, <2>1, <2>3 DEF Reported
    <3>3. new.conditions = pw.policy.conditions \cup {pw.sets} /\ new.spec = pw.policy.spec
      BY <2>1 DEF PolicyObjects
    <3>4. /\ new \in PolicyObjects
      BY <1>1, <2>1, WorkerKeys DEF PolicyObjects
    <3>5. \/ policy'[p] = policy[p]
          \/ policy'[p].conditions = new.conditions /\ policy'[p].spec = new.spec
      <4> HIDE DEF new
      <4> QED
        BY <3>2, <3>4 DEF Saved, PolicyObjects
    <3> HIDE DEF new
    <3> QED
      BY <2>3, <3>1, <3>3, <3>5
  <2> QED
    BY <2>2, <2>3
<1>8. CASE Users
  <2>1. ASSUME NEW q \in Policies, AdmitDeletion(q) \/ ReadmitDeletion(q)
        PROVE  policy' = policy
    BY <2>1 DEF AdmitDeletion, ReadmitDeletion
  <2>2. ASSUME NEW c \in Bindings, NEW spec \in Specs,
               CreateBinding(c, spec) \/ UpdateBinding(c, spec)
        PROVE  policy' = policy
    BY <2>2 DEF CreateBinding, UpdateBinding
  <2>3. ASSUME NEW c \in Bindings, DeleteBinding(c)
        PROVE  policy' = policy
    BY <2>3 DEF DeleteBinding
  <2>4. ASSUME NEW o \in Services \cup Groups, Leave(o) \/ Come(o)
        PROVE  policy' = policy
    BY <2>4 DEF Leave, Come
  <2> QED
    BY <1>2, <1>4, <1>5, <1>6, <1>8, <2>1, <2>2, <2>3, <2>4 DEF Users
<1>9. CASE Informers
  BY <1>2, <1>9 DEF Informers, SyncPolicy, SyncBinding, SyncRef
<1>10. CASE PolicyReconciler
  BY <1>2, <1>7, <1>10 DEF PolicyReconciler, ReconcilePolicy
<1>11. CASE BindingReconciler
  BY <1>2, <1>11 DEF BindingReconciler, ReconcileBinding, BindingWrite, AddFinalizer,
                     AddOwners, SetReady, RemoveFinalizer, Write, BindingError
<1>12. CASE FailedCall \/ Restart
  BY <1>2, <1>12 DEF FailedCall, PolicyDone, BindingError, Restart
<1>13. CASE UNCHANGED vars
  BY <1>2, <1>13 DEF vars
<1> QED
  BY <1>8, <1>9, <1>10, <1>11, <1>12, <1>13 DEF Next

(* A policy is Ready for the pair it names: an update of the spec between    *)
(* the controller's read and its status update makes the update fail.       *)
THEOREM ReadyIsAboutItsSpecHolds == Spec => ReadyIsAboutItsSpec
<1>1. PInv /\ [Next]_vars
      => [\A p \in Policies :
            "Ready" \in policy'[p].conditions =>
              \/ "Ready" \in policy[p].conditions /\ policy'[p].spec = policy[p].spec
              \/ pw.key = p /\ pw.sets = "Ready" /\ pw.policy.spec = policy'[p].spec]_vars
  BY ReadyIsOfItsSpec
<1> QED
  BY <1>1, PolicyInvariant, PTL DEF Spec, ReadyIsAboutItsSpec
=============================================================================
