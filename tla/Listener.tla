------------------------------ MODULE Listener ------------------------------
(***************************************************************************)
(* The listener process: the heartbeats it receives are batched            *)
(* (actualstatelisteners/actual_state_syncer.go), compared with a cache    *)
(* and saved (SyncHeartbeats of store/actual_state.go), freshness is       *)
(* bumped or revoked (store/freshness.go), and instances found evacuating  *)
(* are started elsewhere with the one sender of the process                *)
(* (sender/sender.go, hm/start_listening_for_actual.go).                   *)
(***************************************************************************)
EXTENDS ActualState

CONSTANTS
  Syncer,                 \* the listener's RealStore
  CacheRefreshInterval,   \* conf.StoreHeartbeatCacheRefreshInterval()
  ActualFreshnessTTL,
  SenderMessageLimit

ASSUME ListenerAssumption ==
  /\ Syncer \in Stores
  /\ Deas \cap Guids = {}
  /\ CacheRefreshInterval \in Nat /\ CacheRefreshInterval >= HeartbeatPeriod
  /\ ActualFreshnessTTL \in Nat \ {0}
  /\ SenderMessageLimit \in Nat \ {0}

VARIABLES
  freshness,        \* the store's key: what is left of its TTL, and the age
                    \* of the timestamp in it
  starts,           \* /start: the indices a message marked as sent is under
  syncer,           \* control point of syncHeartbeats
  heartbeatsToSave, \* DEAs heard since the last batch, and what they said
  batch,            \* the batch being saved
  elapsed,          \* time since its sync began
  cache,            \* instanceHeartbeatCache
  cacheAge,
  nodesToSave,      \* keys of the SetMulti not yet written
  saveFailed,       \* one of them could not be written
  keysToDelete,     \* instances their DEA no longer reports
  toEvacuate,       \* instances to start elsewhere
  oldAge,           \* age of the timestamp a bump is about to write
  numberOfStartMessagesSent,
  startMessagesToSave,  \* indices of all starts this sender has marked
  startsPosted,     \* history: starts accepted for each instance
  postedNow         \* history: those of this Send

storeKeys == <<stored, presence, freshness, starts>>
sync == <<batch, elapsed, nodesToSave, saveFailed, keysToDelete, toEvacuate,
          oldAge>>
caches == <<cache, cacheAge>>
sender == <<numberOfStartMessagesSent, startMessagesToSave>>
history == <<startsPosted, postedNow>>

Report == [deas : SUBSET Deas, states : Heartbeats]
NoReport == [deas |-> {}, states |-> Silence]
NotThere == [left |-> 0, age |-> 0]

SyncerPoint == {"wait", "load", "merge", "save", "delete", "bump", "write",
                "revoke", "verify", "post", "keep"}

ListenerTypeOK ==
  /\ freshness \in [left : 0..ActualFreshnessTTL, age : 0..ActualFreshnessTTL]
  /\ starts \in SUBSET Indices
  /\ syncer \in SyncerPoint
  /\ heartbeatsToSave \in Report
  /\ batch \in Report
  /\ elapsed \in 0..CacheRefreshInterval
  /\ cache \in Heartbeats
  /\ cacheAge \in 0..CacheRefreshInterval
  /\ nodesToSave \in SUBSET (Deas \cup Guids)
  /\ saveFailed \in BOOLEAN
  /\ keysToDelete \in SUBSET Guids
  /\ toEvacuate \in SUBSET Guids
  /\ oldAge \in 0..ActualFreshnessTTL
  /\ numberOfStartMessagesSent \in 0..SenderMessageLimit
  /\ startMessagesToSave \in SUBSET Indices
  /\ startsPosted \in [Guids -> Nat]
  /\ postedNow \in 0..SenderMessageLimit

ListenerInit ==
  /\ freshness = NotThere
  /\ starts = {}
  /\ syncer = "wait"
  /\ heartbeatsToSave = NoReport
  /\ batch = NoReport
  /\ elapsed = 0
  /\ cache = Silence
  /\ cacheAge = CacheRefreshInterval
  /\ nodesToSave = {}
  /\ saveFailed = FALSE
  /\ keysToDelete = {}
  /\ toEvacuate = {}
  /\ oldAge = 0
  /\ numberOfStartMessagesSent = 0
  /\ startMessagesToSave = {}
  /\ startsPosted = [g \in Guids |-> 0]
  /\ postedNow = 0

(* What the loop of syncHeartbeats leaves behind when it waits again.      *)
Waits ==
  /\ syncer' = "wait"
  /\ batch' = NoReport
  /\ elapsed' = 0
  /\ nodesToSave' = {}
  /\ saveFailed' = FALSE
  /\ keysToDelete' = {}
  /\ toEvacuate' = {}
  /\ oldAge' = 0
  /\ postedNow' = 0

(* Evacuating instances are started whether or not the save succeeded.     *)
GoOn ==
  IF toEvacuate = {} THEN Waits /\ UNCHANGED startsPosted
  ELSE syncer' = "verify" /\ UNCHANGED <<sync, history>>

---------------------------------------------------------------------------
(* Freshness.                                                              *)

(* Faulty variant: the key's presence is enough.                           *)
IsActualStateThere == freshness.left > 0

IsActualStateFresh ==
  freshness.left > 0 /\ freshness.age >= ActualFreshnessTTL

(* bumpFreshness reads the old timestamp.  Any error of the read is taken  *)
(* for a key that is not there.                                            *)
BumpReads ==
  /\ syncer = "bump"
  /\ \/ NoFault /\ oldAge' = IF freshness.left > 0 THEN freshness.age ELSE 0
     \/ Fault /\ oldAge' = 0
  /\ syncer' = "write"
  /\ UNCHANGED <<storeKeys, handle, heartbeatsToSave, batch, elapsed,
                 nodesToSave, saveFailed, keysToDelete, toEvacuate, caches,
                 sender, history>>

(* ... and writes it back with a new TTL, or the time of the bump.         *)
BumpWrites ==
  /\ syncer = "write"
  /\ \/ freshness' = [left |-> ActualFreshnessTTL, age |-> oldAge]
        /\ (NoFault \/ Fault)
     \/ Fault /\ UNCHANGED freshness
  /\ GoOn
  /\ UNCHANGED <<stored, presence, starts, handle, heartbeatsToSave, caches,
                 sender>>

(* Whether the revocation succeeds is not looked at.                       *)
RevokeActualFreshness ==
  /\ syncer = "revoke"
  /\ \/ freshness' = NotThere /\ (NoFault \/ Fault)
     \/ Fault /\ UNCHANGED freshness
  /\ GoOn
  /\ UNCHANGED <<stored, presence, starts, handle, heartbeatsToSave, caches,
                 sender>>

---------------------------------------------------------------------------
(* Saving a batch.                                                         *)

(* syncer.Heartbeat: of several heartbeats of a DEA in a batch the last    *)
(* one counts.                                                             *)
Heartbeat(d, states) ==
  /\ heartbeatsToSave' =
       [deas |-> heartbeatsToSave.deas \cup {d},
        states |-> [g \in Guids |-> IF DeaOf[g] = d THEN states[g]
                                    ELSE heartbeatsToSave.states[g]]]
  /\ UNCHANGED <<storeKeys, handle, syncer, sync, caches, sender, history,
                 faults>>

(* Faulty variant: the cache is never made anew.                           *)
RefreshNeverDue == FALSE

(* loadCache: the cache is made anew once it is old enough.                *)
RefreshDue == cacheAge >= CacheRefreshInterval

TakeHeartbeats ==
  /\ syncer = "wait"
  /\ heartbeatsToSave.deas # {}
  /\ batch' = heartbeatsToSave
  /\ heartbeatsToSave' = NoReport
  /\ syncer' = IF RefreshDue THEN "load" ELSE "merge"
  /\ UNCHANGED <<storeKeys, handle, elapsed, nodesToSave, saveFailed,
                 keysToDelete, toEvacuate, oldAge, caches, sender, history,
                 faults>>

LoadBegins ==
  /\ syncer = "load"
  /\ BeginRead(Syncer)
  /\ UNCHANGED <<freshness, starts, syncer, heartbeatsToSave, sync, caches,
                 sender, history>>

LoadEnds ==
  /\ syncer = "load"
  /\ handle[Syncer].read = "done"
  /\ cache' = ReadResult(Syncer)
  /\ cacheAge' = elapsed
  /\ handle' = AfterRead(Syncer)
  /\ syncer' = "merge"
  /\ UNCHANGED <<storeKeys, heartbeatsToSave, sync, sender, history, faults>>

(* SyncHeartbeats returns nothing to evacuate.                             *)
LoadFails ==
  /\ syncer = "load"
  /\ handle[Syncer].read = "failed"
  /\ handle' = AfterRead(Syncer)
  /\ syncer' = "revoke"
  /\ UNCHANGED <<storeKeys, heartbeatsToSave, sync, caches, sender, history,
                 faults>>

Reported == {g \in OnDeas(batch.deas) : batch.states[g] # NoHeartbeat}

(* An instance cached in the state it is reported in is not saved.         *)
Changed == {g \in Reported : cache[g] # batch.states[g]}

(* Faulty variant: every heartbeat of an evacuating instance counts.       *)
AllEvacuating ==
  {g \in Reported : batch.states[g] = "EVACUATING" /\ cache[g] # "CRASHED"}

NewlyEvacuating ==
  {g \in Changed : batch.states[g] = "EVACUATING" /\ cache[g] # "CRASHED"}

(* Faulty variant: the presence of a DEA is saved with a change of its     *)
(* instances.                                                              *)
NodesOfChanges == Changed \cup {DeaOf[g] : g \in Changed}

NodesToSave == Changed \cup batch.deas

(* The cache takes in the batch before any of it is saved.                 *)
MergeHeartbeats ==
  /\ syncer = "merge"
  /\ nodesToSave' = NodesToSave
  /\ toEvacuate' = NewlyEvacuating
  /\ keysToDelete' = {g \in OnDeas(batch.deas) \ Reported :
                        cache[g] # NoHeartbeat}
  /\ cache' = [g \in Guids |-> IF DeaOf[g] \in batch.deas
                               THEN batch.states[g] ELSE cache[g]]
  /\ syncer' = "save"
  /\ UNCHANGED <<storeKeys, handle, heartbeatsToSave, batch, elapsed,
                 saveFailed, oldAge, cacheAge, sender, history, faults>>

(* SetMulti writes its keys in parallel.                                   *)
NodeWritten(key) ==
  IF key \in Deas
  THEN presence' = [presence EXCEPT ![key] = HeartbeatTTL] /\ UNCHANGED stored
  ELSE stored' = [stored EXCEPT ![key] = batch.states[key]]
       /\ UNCHANGED presence

SaveNode(key) ==
  /\ syncer = "save"
  /\ key \in nodesToSave
  /\ nodesToSave' = nodesToSave \ {key}
  /\ \/ NoFault /\ NodeWritten(key) /\ UNCHANGED saveFailed
     \/ Fault /\ saveFailed' = TRUE
              /\ (NodeWritten(key) \/ UNCHANGED <<stored, presence>>)
  /\ UNCHANGED <<freshness, starts, handle, syncer, heartbeatsToSave, batch,
                 elapsed, keysToDelete, toEvacuate, oldAge, caches, sender,
                 history>>

Saved ==
  /\ syncer = "save"
  /\ nodesToSave = {}
  /\ syncer' = IF saveFailed THEN "revoke" ELSE "delete"
  /\ UNCHANGED <<storeKeys, handle, heartbeatsToSave, sync, caches, sender,
                 history, faults>>

(* A sync that took a heartbeat period or more does not bump.              *)
DeleteGone ==
  /\ syncer = "delete"
  /\ \E deleted \in SUBSET Guids :
       /\ Handled(keysToDelete, deleted)
       /\ stored' = [g \in Guids |->
                       IF g \in deleted THEN NoHeartbeat ELSE stored[g]]
  /\ IF faults' # faults
     THEN syncer' = "revoke" /\ UNCHANGED <<sync, history>>
     ELSE IF elapsed < HeartbeatPeriod
          THEN syncer' = "bump" /\ UNCHANGED <<sync, history>>
          ELSE GoOn
  /\ UNCHANGED <<presence, freshness, starts, handle, heartbeatsToSave, caches,
                 sender>>

---------------------------------------------------------------------------
(* Starting evacuated instances: Send with starts that skip verification,  *)
(* are due at once, and are not in the store.                              *)

VerifyFreshness ==
  /\ syncer = "verify"
  /\ \/ NoFault /\ IsActualStateFresh /\ syncer' = "post"
        /\ UNCHANGED <<sync, history>>
     \/ NoFault /\ ~IsActualStateFresh /\ Waits /\ UNCHANGED startsPosted
     \/ Fault /\ Waits /\ UNCHANGED startsPosted
  /\ UNCHANGED <<storeKeys, handle, heartbeatsToSave, caches, sender>>

(* Faulty variant: nothing limits the starts sent.                         *)
NoLimit == TRUE

UnderLimit == numberOfStartMessagesSent < SenderMessageLimit

PostEvacuation(g) ==
  /\ syncer = "post"
  /\ g \in toEvacuate
  /\ UnderLimit
  /\ toEvacuate' = toEvacuate \ {g}
  /\ \/ /\ NoFault
        /\ numberOfStartMessagesSent' = numberOfStartMessagesSent + 1
        /\ startMessagesToSave' = startMessagesToSave \cup {IndexOf[g]}
        /\ startsPosted' = [startsPosted EXCEPT ![g] = @ + 1]
        /\ postedNow' = postedNow + 1
     \/ /\ Fault
        /\ startsPosted' \in {startsPosted,
                              [startsPosted EXCEPT ![g] = @ + 1]}
        /\ UNCHANGED <<sender, postedNow>>
  /\ UNCHANGED <<storeKeys, handle, syncer, heartbeatsToSave, batch, elapsed,
                 nodesToSave, saveFailed, keysToDelete, oldAge, caches>>

(* Starts over the limit are left out, and are in no store to be found.    *)
Posted ==
  /\ syncer = "post"
  /\ toEvacuate = {} \/ ~UnderLimit
  /\ syncer' = "keep"
  /\ UNCHANGED <<storeKeys, handle, heartbeatsToSave, sync, caches, sender,
                 history, faults>>

(* The sender saves every start it has marked, in this Send or before.     *)
KeepEvacuations ==
  /\ syncer = "keep"
  /\ \E kept \in SUBSET Indices :
       Handled(startMessagesToSave, kept) /\ starts' = starts \cup kept
  /\ Waits
  /\ UNCHANGED <<stored, presence, freshness, handle, heartbeatsToSave, caches,
                 sender, startsPosted>>

---------------------------------------------------------------------------

(* The process dies or loses its lock; another one begins with nothing.    *)
ListenerRestarts ==
  /\ Waits
  /\ handle' = [handle EXCEPT ![Syncer] = NewRealStore]
  /\ heartbeatsToSave' = NoReport
  /\ cache' = Silence
  /\ cacheAge' = CacheRefreshInterval
  /\ numberOfStartMessagesSent' = 0
  /\ startMessagesToSave' = {}
  /\ UNCHANGED <<storeKeys, startsPosted, faults>>

SyncerReads ==
  /\ syncer = "load"
  /\ Reading(Syncer)
  /\ UNCHANGED <<freshness, starts, syncer, heartbeatsToSave, sync, caches,
                 sender, history>>

ListenerStep ==
  \/ TakeHeartbeats \/ LoadBegins \/ SyncerReads \/ LoadEnds \/ LoadFails
  \/ MergeHeartbeats
  \/ \E key \in Deas \cup Guids : SaveNode(key)
  \/ Saved \/ DeleteGone
  \/ BumpReads \/ BumpWrites \/ RevokeActualFreshness
  \/ VerifyFreshness \/ (\E g \in Guids : PostEvacuation(g))
  \/ Posted \/ KeepEvacuations
=============================================================================
