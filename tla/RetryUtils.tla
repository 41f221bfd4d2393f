----------------------------- MODULE RetryUtils -----------------------------
(***************************************************************************)
(* UpdateWithRetry, UpdateStatusWithRetry, PatchWithRetry and EnsureFinalizer *)
(* of internal/controller/utils.go: one reconciler adds an entry to a list *)
(* of an object while others write the same object.                        *)
(*                                                                         *)
(* The object is read from a cache that lags.  `list` is the field the     *)
(* caller edits (finalizers, ownerReferences, addressGroups, conditions),   *)
(* `field` stands for every other field.                                   *)
(***************************************************************************)
EXTENDS Naturals

CONSTANTS Mine,               \* the entry the caller adds
          Others,             \* entries other writers add to the same list
          DefaultMaxRetries,
          MaxWrites,          \* bound: writes of others
          Idle                \* no call in progress

ASSUME RetryAssumption == /\ Mine \notin Others
                          /\ DefaultMaxRetries \in Nat \ {0}
                          /\ MaxWrites \in Nat

VARIABLES stored,   \* the object in the API server
          cache,    \* the copy Get returns
          call,     \* the helper call in progress
          result,   \* of the last call
          writes    \* how often others have written

vars == <<stored, cache, call, result, writes>>

Entries == Others \cup {Mine}
Objects == [live : BOOLEAN, rv : Nat, list : SUBSET Entries, field : 0..MaxWrites]

Helpers == {"UpdateWithRetry", "UpdateStatusWithRetry", "PatchWithRetry"}
Results == {"None", "Done", "NotFound", "RetriesExceeded"}

Calls == [helper : Helpers, obj : Objects, base : Objects,
          attempt : 1..DefaultMaxRetries, pc : {"Send", "Retry"}]

Init ==
    /\ stored = [live |-> TRUE, rv |-> 1, list |-> {}, field |-> 0]
    /\ cache = stored
    /\ call = Idle
    /\ result = "None"
    /\ writes = 0

---------------------------------------------------------------------------
(* Seeded bug: an error is not returned, and nothing is tried again.        *)
BeginOnce(helper) ==
    /\ call = Idle /\ result # "RetriesExceeded"
    /\ cache.live
    /\ Mine \notin cache.list
    /\ call' = [helper |-> helper, obj |-> [cache EXCEPT !.list = @ \cup {Mine}],
                base |-> cache, attempt |-> 1, pc |-> "Send"]
    /\ UNCHANGED <<stored, cache, result, writes>>

(* The reconciler edits a copy of the cached object and calls a helper; an   *)
(* entry that is there already is not added again.                          *)
Begin(helper) ==
    /\ call = Idle
    /\ cache.live
    /\ Mine \notin cache.list
    /\ call' = [helper |-> helper, obj |-> [cache EXCEPT !.list = @ \cup {Mine}],
                base |-> cache, attempt |-> 1, pc |-> "Send"]
    /\ UNCHANGED <<stored, cache, result, writes>>

Return(value) == call' = Idle /\ result' = value

IsPatch == call.helper = "PatchWithRetry"

(* client.MergeFrom(base): the patch carries the fields that differ between  *)
(* base and obj, the resourceVersion like any other.                        *)
(*                                                                         *)
(* Seeded bug: the patch never carries it.                                  *)
NeverVersion == FALSE

CarriesVersion == call.obj.rv # call.base.rv

Patched(object) ==
    [object EXCEPT !.list  = IF call.obj.list # call.base.list THEN call.obj.list ELSE @,
                   !.field = IF call.obj.field # call.base.field THEN call.obj.field ELSE @]

(* What the API server stores of an accepted request; Status().Update stores *)
(* the status alone.                                                        *)
Written(object) ==
    CASE IsPatch                                 -> Patched(object)
      [] call.helper = "UpdateWithRetry"         -> call.obj
      [] call.helper = "UpdateStatusWithRetry"   -> [object EXCEPT !.list = call.obj.list]

Conflicts(object) ==
    (IsPatch => CarriesVersion) /\ object.rv # call.obj.rv

Save(new) ==
    stored' = IF [new EXCEPT !.rv = stored.rv] = stored THEN stored
              ELSE [new EXCEPT !.rv = stored.rv + 1]

Send ==
    /\ call # Idle /\ call.pc = "Send"
    /\ \/ /\ ~stored.live
          /\ Return("NotFound")
          /\ UNCHANGED stored
       \/ /\ stored.live /\ Conflicts(stored)
          /\ call' = [call EXCEPT !.pc = "Retry"]
          /\ UNCHANGED <<stored, result>>
       \/ /\ stored.live /\ ~Conflicts(stored)
          /\ Save(Written(stored))
          /\ Return("Done")
    /\ UNCHANGED <<cache, writes>>

(* Seeded bugs: the resourceVersion of latest is put into obj, which then   *)
(* passes the lock with its old content; the attempts are not counted.      *)
RetryWithLatestVersion ==
    /\ call # Idle /\ call.pc = "Retry" /\ cache.live
    /\ call.attempt < DefaultMaxRetries
    /\ call' = [call EXCEPT !.pc = "Send", !.attempt = @ + 1, !.obj.rv = cache.rv]
    /\ UNCHANGED <<stored, cache, result, writes>>

RetryForever ==
    /\ call # Idle /\ call.pc = "Retry" /\ cache.live
    /\ call' = [call EXCEPT !.pc = "Send", !.attempt = @ + 1]
    /\ UNCHANGED <<stored, cache, result, writes>>

(* After a conflict: latest is read, from the cache.  PatchWithRetry computes *)
(* the next patch against it; the two updates drop it and send obj again.   *)
Retry ==
    /\ call # Idle /\ call.pc = "Retry"
    /\ \/ /\ ~cache.live
          /\ Return("NotFound")
       \/ /\ cache.live /\ call.attempt = DefaultMaxRetries
          /\ Return("RetriesExceeded")
       \/ /\ cache.live /\ call.attempt < DefaultMaxRetries
          /\ call' = [call EXCEPT !.pc = "Send", !.attempt = @ + 1,
                                  !.base = IF IsPatch THEN cache ELSE @]
          /\ UNCHANGED result
    /\ UNCHANGED <<stored, cache, writes>>

---------------------------------------------------------------------------
(* Other writers: another field, another entry of the list, a deletion.     *)
Write(new) ==
    /\ stored.live
    /\ writes < MaxWrites
    /\ writes' = writes + 1
    /\ stored' = [new EXCEPT !.rv = stored.rv + 1]

OthersWrite(new) == Write(new) /\ UNCHANGED <<cache, call, result>>

SetField == OthersWrite([stored EXCEPT !.field = @ + 1])
AddEntry == \E e \in Others \ stored.list : OthersWrite([stored EXCEPT !.list = @ \cup {e}])
Delete   == OthersWrite([stored EXCEPT !.live = FALSE])

(* The API server retries a patch without resourceVersion by itself, and     *)
(* answers Conflict when other writers win every time.                      *)
PatchContended ==
    /\ call # Idle /\ call.pc = "Send" /\ IsPatch /\ ~CarriesVersion
    /\ Write([stored EXCEPT !.field = @ + 1])
    /\ call' = [call EXCEPT !.pc = "Retry"]
    /\ UNCHANGED <<cache, result>>

SyncCache ==
    /\ cache # stored
    /\ cache' = stored
    /\ UNCHANGED <<stored, call, result, writes>>

Next ==
    \/ \E helper \in Helpers : Begin(helper)
    \/ Send \/ Retry
    \/ SetField \/ AddEntry \/ Delete \/ PatchContended
    \/ SyncCache

Spec == Init /\ [][Next]_vars

(* The worker runs and the watch delivers; other writers owe nothing.       *)
Fairness ==
    /\ \A helper \in Helpers : WF_vars(Begin(helper))
    /\ WF_vars(Send) /\ WF_vars(Retry)
    /\ WF_vars(SyncCache)

FairSpec == Spec /\ Fairness

---------------------------------------------------------------------------
(* Every variable holds a value of its kind.                                *)
TypeOK ==
    /\ stored \in Objects /\ cache \in Objects
    /\ call \in Calls \cup {Idle}
    /\ result \in Results
    /\ writes \in 0..MaxWrites

(* No helper reverts a field it was not asked to change, even when           *)
(* PatchWithRetry, after a conflict, computes its patch between the old copy *)
(* and a newer one: that patch carries the old copy's resourceVersion.      *)
OtherFieldsSurvive == [][stored'.field # stored.field => writes' # writes]_vars

(* The two updates never drop an entry another writer put into the list      *)
(* meanwhile.  (PatchWithRetry may: a merge patch replaces a list.)          *)
LockedListSurvives ==
    [][\A e \in stored.list : e \notin stored'.list => call # Idle /\ IsPatch]_vars

(* Whatever the retries come to, the reconciles that follow a failed call    *)
(* get the entry in once other writers are done.                            *)
EntryGetsIn == <>[](stored.live => Mine \in stored.list)

(* The comments on the helpers and the controller test of a conflict: an     *)
(* update is retried on conflict.  So it should not give up while fewer      *)
(* writes than retries got in its way.                                      *)
RetriesResolveConflicts == result = "RetriesExceeded" => writes >= DefaultMaxRetries
=============================================================================
