-------------------------- MODULE RetryUtilsProofs --------------------------
(***************************************************************************)
(* For any number of attempts, entries and foreign writes: what the retry  *)
(* helpers of utils.go store is typed, reverts no field of another writer  *)
(* and, in the two updates, drops no entry of another writer.              *)
(***************************************************************************)
EXTENDS RetryUtils, TLAPS

(* A version of the object that has the resourceVersion of the caller's     *)
(* copy is what that copy was made from.                                   *)
Agrees(object) ==
    object.rv = call.obj.rv =>
      /\ call.obj.field = object.field
      /\ call.obj.list = object.list \cup {Mine}

CallCoherent ==
    call # Idle =>
      /\ call.obj.rv <= stored.rv
      /\ Agrees(stored) /\ Agrees(cache) /\ Agrees(call.base)

CacheCoherent ==
    /\ cache.rv <= stored.rv
    /\ cache.rv = stored.rv => cache = stored

RInv ==
    /\ TypeOK
    /\ CallCoherent
    /\ CacheCoherent
    /\ stored.field <= writes

---------------------------------------------------------------------------
(* The caller's edit of a cached object.                                    *)
LEMMA BeginKeeps ==
    ASSUME RInv, NEW helper \in Helpers, Begin(helper)
    PROVE  RInv'
<1> DEFINE edited == [cache EXCEPT !.list = @ \cup {Mine}]
<1>1. edited \in Objects /\ edited.rv = cache.rv /\ edited.field = cache.field
      /\ edited.list = cache.list \cup {Mine}
  BY DEF RInv, TypeOK, Objects, Entries
<1>2. /\ call' = [helper |-> helper, obj |-> edited, base |-> cache, attempt |-> 1,
                  pc |-> "Send"]
      /\ UNCHANGED <<stored, cache, result, writes>>
  BY DEF Begin
<1> HIDE DEF edited
<1>3. call' \in Calls
  BY <1>1, <1>2, RetryAssumption DEF Calls, RInv, TypeOK
<1>4. TypeOK'
  BY <1>2, <1>3 DEF RInv, TypeOK
<1>5. CallCoherent'
  BY <1>1, <1>2 DEF CallCoherent, Agrees, RInv, CacheCoherent
<1>. QED  BY <1>2, <1>4, <1>5 DEF RInv, CacheCoherent

(* What the server stores of an accepted request has the field it stored    *)
(* before; of an update, at least the entries too.                         *)
LEMMA AcceptedIsCoherent ==
    ASSUME RInv, call # Idle, ~Conflicts(stored)
    PROVE  /\ Written(stored) \in Objects
           /\ Written(stored).field = stored.field
           /\ ~IsPatch => stored.list \subseteq Written(stored).list
<1>1. /\ call \in Calls /\ stored \in Objects
      /\ call.obj \in Objects /\ call.base \in Objects /\ call.helper \in Helpers
  BY DEF RInv, TypeOK, Calls
<1>2. CASE call.helper = "UpdateWithRetry"
  <2>1. Written(stored) = call.obj /\ stored.rv = call.obj.rv
    BY <1>2 DEF Written, IsPatch, Conflicts
  <2>. QED  BY <1>1, <2>1 DEF RInv, CallCoherent, Agrees
<1>3. CASE call.helper = "UpdateStatusWithRetry"
  <2>1. Written(stored) = [stored EXCEPT !.list = call.obj.list] /\ stored.rv = call.obj.rv
    BY <1>3 DEF Written, IsPatch, Conflicts
  <2>. QED  BY <1>1, <2>1 DEF RInv, CallCoherent, Agrees, Objects
<1>4. CASE call.helper = "PatchWithRetry"
  <2>1. IsPatch /\ Written(stored) = Patched(stored)
    BY <1>4 DEF Written, IsPatch
  <2>2. Patched(stored) \in Objects
    BY <1>1 DEF Patched, Objects
  <2>3. call.obj.field = call.base.field \/ call.obj.field = stored.field
    BY <2>1 DEF Conflicts, CarriesVersion, RInv, CallCoherent, Agrees
  <2>4. Patched(stored).field = stored.field
    BY <1>1, <2>3 DEF Patched, Objects
  <2>. QED  BY <2>1, <2>2, <2>4
<1>. QED  BY <1>1, <1>2, <1>3, <1>4 DEF Helpers

(* A stored object gets a resourceVersion that no copy has, or stays.       *)
LEMMA SaveMoves ==
    ASSUME stored \in Objects, NEW new \in Objects, Save(new)
    PROVE  \/ stored' = stored
           \/ /\ stored' \in Objects /\ stored'.rv = stored.rv + 1
              /\ stored'.field = new.field /\ stored'.list = new.list
BY DEF Save, Objects

LEMMA SendKeeps ==
    ASSUME RInv, Send
    PROVE  /\ RInv'
           /\ stored'.field = stored.field
           /\ ~IsPatch => stored.list \subseteq stored'.list
<1>1. /\ call # Idle /\ UNCHANGED <<cache, writes>>
      /\ call \in Calls /\ stored \in Objects /\ cache \in Objects
  BY DEF Send, RInv, TypeOK
<1>2. CASE ~stored.live /\ Return("NotFound") /\ UNCHANGED stored
  BY <1>1, <1>2 DEF Return, RInv, TypeOK, Results, CallCoherent, CacheCoherent
<1>3. CASE /\ call' = [call EXCEPT !.pc = "Retry"]
           /\ UNCHANGED <<stored, result>>
  <2>1. call' \in Calls /\ call'.obj = call.obj /\ call'.base = call.base
    BY <1>1, <1>3 DEF Calls
  <2>. QED  BY <1>1, <1>3, <2>1 DEF RInv, TypeOK, CallCoherent, Agrees, CacheCoherent
<1>4. CASE stored.live /\ ~Conflicts(stored) /\ Save(Written(stored)) /\ Return("Done")
  <2>1. /\ Written(stored) \in Objects
        /\ Written(stored).field = stored.field
        /\ ~IsPatch => stored.list \subseteq Written(stored).list
    BY <1>1, <1>4, AcceptedIsCoherent
  <2>2. \/ stored' = stored
        \/ /\ stored' \in Objects /\ stored'.rv = stored.rv + 1
           /\ stored'.field = stored.field /\ stored'.list = Written(stored).list
    BY <1>1, <1>4, <2>1, SaveMoves
  <2>3. call' = Idle /\ result' = "Done"
    BY <1>4 DEF Return
  <2>4. CacheCoherent'
    BY <1>1, <2>2 DEF RInv, CacheCoherent, Objects
  <2>5. TypeOK'
    BY <1>1, <2>2, <2>3 DEF RInv, TypeOK, Results
  <2>. QED  BY <1>1, <2>1, <2>2, <2>3, <2>4, <2>5 DEF RInv, CallCoherent
<1>. QED  BY <1>2, <1>3, <1>4 DEF Send

(* The next patch is computed against the cached version, which agrees with *)
(* the caller's copy when they carry the same resourceVersion.             *)
LEMMA RetryKeeps ==
    ASSUME RInv, Retry
    PROVE  RInv' /\ UNCHANGED stored
<1>1. /\ call # Idle /\ UNCHANGED <<stored, cache, writes>>
      /\ call \in Calls /\ cache \in Objects
  BY DEF Retry, RInv, TypeOK
<1>2. CASE Return("NotFound") \/ Return("RetriesExceeded")
  BY <1>1, <1>2 DEF Return, RInv, TypeOK, Results, CallCoherent, CacheCoherent
<1>3. CASE /\ call.attempt < DefaultMaxRetries
           /\ call' = [call EXCEPT !.pc = "Send", !.attempt = @ + 1,
                                   !.base = IF IsPatch THEN cache ELSE @]
           /\ UNCHANGED result
  <2> DEFINE base == IF IsPatch THEN cache ELSE call.base
  <2>1. call' = [call EXCEPT !.pc = "Send", !.attempt = @ + 1, !.base = base]
    BY <1>3
  <2>2. base \in Objects /\ base \in {call.base, cache}
    BY <1>1 DEF Calls
  <2>3. call.attempt + 1 \in 1..DefaultMaxRetries
    BY <1>1, <1>3, RetryAssumption DEF Calls
  <2> HIDE DEF base
  <2>4. call' \in Calls /\ call'.obj = call.obj /\ call'.base \in {call.base, cache}
    BY <1>1, <2>1, <2>2, <2>3 DEF Calls
  <2>. QED  BY <1>1, <1>3, <2>4 DEF RInv, TypeOK, CallCoherent, Agrees, CacheCoherent
<1>. QED  BY <1>1, <1>2, <1>3 DEF Retry

(* A foreign write, counted in `writes`.                                    *)
LEMMA WriteKeeps ==
    ASSUME RInv, writes < MaxWrites, writes' = writes + 1,
           stored' \in Objects, stored'.rv = stored.rv + 1, stored'.field <= writes + 1,
           UNCHANGED <<cache, result>>,
           \/ call' = call
           \/ call' \in Calls /\ call # Idle /\ call'.obj = call.obj /\ call'.base = call.base
    PROVE  RInv' /\ writes' # writes
<1>1. /\ writes < MaxWrites /\ writes' = writes + 1
      /\ stored' \in Objects /\ stored'.rv = stored.rv + 1 /\ stored'.field <= writes'
      /\ stored \in Objects /\ cache \in Objects /\ writes \in 0..MaxWrites
      /\ call \in Calls \cup {Idle}
  BY DEF RInv, TypeOK
<1>2. TypeOK'
  BY <1>1, RetryAssumption DEF RInv, TypeOK
<1>3. CacheCoherent'
  BY <1>1 DEF RInv, CacheCoherent, Objects
<1>4. CallCoherent'
  <2>. SUFFICES ASSUME call' # Idle
                PROVE  /\ call'.obj.rv <= stored'.rv
                       /\ Agrees(stored)' /\ Agrees(cache)' /\ Agrees(call.base)'
    BY DEF CallCoherent
  <2>1. call # Idle /\ call \in Calls /\ call'.obj = call.obj /\ call'.base = call.base
    BY <1>1
  <2>2. call.obj.rv \in Nat /\ stored.rv \in Nat /\ call.obj.rv <= stored.rv
    BY <1>1, <2>1 DEF RInv, CallCoherent, Calls, Objects
  <2>. QED  BY <1>1, <2>1, <2>2 DEF RInv, CallCoherent, Agrees
<1>. QED  BY <1>1, <1>2, <1>3, <1>4, RetryAssumption DEF RInv

LEMMA OthersKeep ==
    ASSUME RInv, SetField \/ AddEntry \/ Delete \/ PatchContended
    PROVE  RInv' /\ writes' # writes
<1>1. /\ stored \in Objects /\ writes \in 0..MaxWrites /\ MaxWrites \in Nat
      /\ stored.field <= writes /\ stored.field \in 0..MaxWrites
  BY RetryAssumption DEF RInv, TypeOK, Objects
<1>2. ASSUME NEW new \in Objects, Write(new), new.field <= writes + 1
      PROVE  /\ writes < MaxWrites /\ writes' = writes + 1
             /\ stored' \in Objects /\ stored'.rv = stored.rv + 1
             /\ stored'.field <= writes + 1 /\ stored'.list = new.list
  BY <1>1, <1>2 DEF Write, Objects
<1>3. CASE SetField
  <2> DEFINE new == [stored EXCEPT !.field = @ + 1]
  <2>1. Write(new) /\ UNCHANGED <<cache, call, result>>
    BY <1>3 DEF SetField, OthersWrite
  <2>2. new \in Objects /\ new.field <= writes + 1
    BY <1>1, <2>1 DEF Write, Objects
  <2>. QED  BY <1>2, <2>1, <2>2, WriteKeeps
<1>4. CASE AddEntry
  <2>1. PICK e \in Others : OthersWrite([stored EXCEPT !.list = @ \cup {e}])
    BY <1>4 DEF AddEntry
  <2> DEFINE new == [stored EXCEPT !.list = @ \cup {e}]
  <2>2. Write(new) /\ UNCHANGED <<cache, call, result>>
    BY <2>1 DEF OthersWrite
  <2>3. new \in Objects /\ new.field <= writes + 1
    BY <1>1 DEF Objects, Entries
  <2>. QED  BY <1>2, <2>2, <2>3, WriteKeeps
<1>5. CASE Delete
  <2> DEFINE new == [stored EXCEPT !.live = FALSE]
  <2>1. Write(new) /\ UNCHANGED <<cache, call, result>>
    BY <1>5 DEF Delete, OthersWrite
  <2>2. new \in Objects
    BY <1>1 DEF Objects
  <2>3. new.field = stored.field
    BY <1>1 DEF Objects
  <2>4. new.field <= writes + 1
    BY <1>1, <2>3 DEF Objects
  <2>. QED  BY <1>2, <2>1, <2>2, <2>4, WriteKeeps
<1>6. CASE PatchContended
  <2> DEFINE new == [stored EXCEPT !.field = @ + 1]
  <2>1. /\ call # Idle /\ Write(new)
        /\ call' = [call EXCEPT !.pc = "Retry"] /\ UNCHANGED <<cache, result>>
    BY <1>6 DEF PatchContended
  <2>2. call' \in Calls /\ call'.obj = call.obj /\ call'.base = call.base
    BY <2>1 DEF RInv, TypeOK, Calls
  <2>3. new \in Objects /\ new.field <= writes + 1
    BY <1>1, <2>1 DEF Write, Objects
  <2>. QED  BY <1>2, <2>1, <2>2, <2>3, WriteKeeps
<1>. QED  BY <1>3, <1>4, <1>5, <1>6

LEMMA SyncKeeps ==
    ASSUME RInv, SyncCache
    PROVE  RInv' /\ UNCHANGED stored
<1>1. cache' = stored /\ UNCHANGED <<stored, call, result, writes>> /\ stored \in Objects
  BY DEF SyncCache, RInv, TypeOK
<1>. QED  BY <1>1 DEF RInv, TypeOK, CallCoherent, Agrees, CacheCoherent, Objects

LEMMA StutterKeeps ==
    ASSUME RInv, UNCHANGED vars
    PROVE  RInv' /\ UNCHANGED stored
BY DEF vars, RInv, TypeOK, CallCoherent, Agrees, CacheCoherent

LEMMA InitCoherent == Init => RInv
<1>. SUFFICES ASSUME Init PROVE RInv
  OBVIOUS
<1>1. stored \in Objects /\ stored.field = 0
  BY RetryAssumption DEF Init, Objects
<1>. QED  BY <1>1, RetryAssumption DEF Init, RInv, TypeOK, Results, CallCoherent, CacheCoherent,
                                       Objects

LEMMA Inductive == RInv /\ [Next]_vars => RInv'
BY BeginKeeps, SendKeeps, RetryKeeps, OthersKeep, SyncKeeps, StutterKeeps DEF Next

---------------------------------------------------------------------------
(* Objects, calls and results of UpdateWithRetry, UpdateStatusWithRetry and  *)
(* PatchWithRetry are of their kind; no call makes more than                *)
(* DefaultMaxRetries attempts.                                             *)
THEOREM RetryTypesHold == Spec => []TypeOK
<1>1. RInv => TypeOK
  BY DEF RInv
<1>. QED  BY <1>1, InitCoherent, Inductive, PTL DEF Spec

(* No retry of the three helpers reverts a field that another writer        *)
(* changed: in particular a patch that PatchWithRetry computes between its   *)
(* old copy and a newer version either is refused or carries no such field. *)
THEOREM OtherFieldsSurviveHolds == Spec => OtherFieldsSurvive
<1>1. RInv /\ [Next]_vars => [stored'.field # stored.field => writes' # writes]_vars
  <2>. SUFFICES ASSUME RInv, [Next]_vars
                PROVE  stored'.field # stored.field => writes' # writes
    OBVIOUS
  <2>1. ASSUME NEW helper \in Helpers, Begin(helper) PROVE UNCHANGED stored
    BY <2>1 DEF Begin
  <2>. QED  BY <2>1, SendKeeps, RetryKeeps, OthersKeep, SyncKeeps, StutterKeeps DEF Next
<1>. QED  BY <1>1, InitCoherent, Inductive, PTL DEF Spec, OtherFieldsSurvive

(* UpdateWithRetry and UpdateStatusWithRetry resend an old copy, but the     *)
(* server takes it only while nothing has changed: no entry of another      *)
(* writer (finalizer, owner reference, group, condition) is lost.          *)
THEOREM LockedListSurvivesHolds == Spec => LockedListSurvives
<1> DEFINE Step == \A e \in stored.list : e \notin stored'.list => call # Idle /\ IsPatch
<1>1. RInv /\ [Next]_vars => [Step]_vars
  <2>. SUFFICES ASSUME RInv, [Next]_vars PROVE Step
    OBVIOUS
  <2>1. ASSUME NEW helper \in Helpers, Begin(helper) PROVE UNCHANGED stored
    BY <2>1 DEF Begin
  <2>2. CASE Send
    BY <2>2, SendKeeps DEF Send
  <2>3. ASSUME SetField \/ AddEntry \/ Delete \/ PatchContended
        PROVE  stored.list \subseteq stored'.list
    BY <2>3 DEF SetField, AddEntry, Delete, PatchContended, OthersWrite, Write, RInv, TypeOK,
                Objects
  <2>. QED  BY <2>1, <2>2, <2>3, RetryKeeps, SyncKeeps, StutterKeeps DEF Next
<1>. QED  BY <1>1, InitCoherent, Inductive, PTL DEF Spec, LockedListSurvives
=============================================================================
