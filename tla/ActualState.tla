----------------------------- MODULE ActualState -----------------------------
(***************************************************************************)
(* The actual state as the store keeps it (store/actual_state.go): the     *)
(* heartbeats of instances, the presence of DEAs, which expires, and how a *)
(* process reads them.  Reading is not free of effect: an instance whose   *)
(* DEA is missing from the reader's cache of DEAs is deleted.              *)
(*                                                                         *)
(* Times are what is left of a TTL, or an age up to the limit it is        *)
(* compared with, so the model needs no clock.                             *)
(***************************************************************************)
EXTENDS Messages, Failures

CONSTANTS
  Deas,
  DeaOf,            \* the DEA each instance runs on
  Stores,           \* the RealStores, one in each process
  HeartbeatPeriod,
  HeartbeatTTL

ASSUME DeasAssumption ==
  /\ IsFiniteSet(Deas)
  /\ DeaOf \in [Guids -> Deas]
  /\ HeartbeatPeriod \in Nat \ {0}
  /\ HeartbeatTTL \in Nat \ {0}

VARIABLES
  stored,           \* /apps/actual
  presence,         \* /dea-presence: what is left of each key's TTL
  handle            \* each RealStore's cache of DEAs, and its read under way

actualState == <<stored, presence, handle>>

Silence == [g \in Guids |-> NoHeartbeat]
Present == {d \in Deas : presence[d] > 0}
OnDeas(deas) == {g \in Guids : DeaOf[g] \in deas}

(* deaCacheAge goes one beyond the life of the cache: there it is expired. *)
Handle ==
  [read : {"idle", "list", "deas", "delete", "done", "failed"},
   listed : Heartbeats, deaCache : SUBSET Deas,
   deaCacheAge : 0..HeartbeatPeriod + 1]

(* A RealStore just made: its cache of DEAs has expired.                   *)
NewRealStore ==
  [read |-> "idle", listed |-> Silence, deaCache |-> {},
   deaCacheAge |-> HeartbeatPeriod + 1]

ActualStateTypeOK ==
  /\ stored \in Heartbeats
  /\ presence \in [Deas -> 0..HeartbeatTTL]
  /\ handle \in [Stores -> Handle]

ActualStateInit ==
  /\ stored = Silence
  /\ presence = [d \in Deas |-> 0]
  /\ handle = [s \in Stores |-> NewRealStore]

---------------------------------------------------------------------------
(* GetInstanceHeartbeats, and GetInstanceHeartbeatsForApp.                 *)

BeginRead(s) ==
  /\ handle[s].read = "idle"
  /\ handle' = [handle EXCEPT ![s].read = "list"]
  /\ UNCHANGED <<stored, presence, faults>>

(* Where there is no directory the read ends at once; an empty one reads   *)
(* as empty.                                                               *)
ListActual(s) ==
  /\ handle[s].read = "list"
  /\ \E next \in IF stored = Silence THEN {"deas", "done"} ELSE {"deas"} :
       handle' = [handle EXCEPT ![s].read = next, ![s].listed = stored]
  /\ UNCHANGED <<stored, presence, faults>>

(* Faulty variant: the cache is never made anew.                           *)
GetDeaCacheOnce(s) ==
  /\ handle[s].read = "deas"
  /\ handle' = [handle EXCEPT ![s].read = "delete",
       ![s].deaCache = IF @ = {} THEN Present ELSE @]
  /\ UNCHANGED <<stored, presence, faults>>

GetDeaCache(s) ==
  /\ handle[s].read = "deas"
  /\ handle' =
       IF handle[s].deaCacheAge > HeartbeatPeriod
       THEN [handle EXCEPT ![s].read = "delete", ![s].deaCache = Present,
                           ![s].deaCacheAge = 0]
       ELSE [handle EXCEPT ![s].read = "delete"]
  /\ UNCHANGED <<stored, presence, faults>>

(* heartbeatsForNode: what was listed and is not of a DEA in the cache.    *)
ExpiredKeysOf(s) ==
  {g \in Guids : /\ handle[s].listed[g] # NoHeartbeat
                 /\ DeaOf[g] \notin handle[s].deaCache}

(* A key that is gone already is no error.                                 *)
DeleteExpired(s) ==
  /\ handle[s].read = "delete"
  /\ \E deleted \in SUBSET Guids :
       /\ Handled(ExpiredKeysOf(s), deleted)
       /\ stored' = [g \in Guids |->
                       IF g \in deleted THEN NoHeartbeat ELSE stored[g]]
  /\ handle' = [handle EXCEPT
       ![s].read = IF faults' = faults THEN "done" ELSE "failed"]
  /\ UNCHANGED presence

ReadFails(s) ==
  /\ handle[s].read \in {"list", "deas"}
  /\ Fault
  /\ handle' = [handle EXCEPT ![s].read = "failed"]
  /\ UNCHANGED <<stored, presence>>

Reading(s) ==
  ListActual(s) \/ GetDeaCache(s) \/ DeleteExpired(s) \/ ReadFails(s)

(* What a read that is done returns.                                       *)
ReadResult(s) ==
  [g \in Guids |-> IF g \in ExpiredKeysOf(s) THEN NoHeartbeat
                   ELSE handle[s].listed[g]]

(* The read returns; the RealStore keeps its cache of DEAs.                *)
AfterRead(s) ==
  [handle EXCEPT ![s].read = "idle", ![s].listed = Silence]
=============================================================================
