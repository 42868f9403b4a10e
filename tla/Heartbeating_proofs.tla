------------------------ MODULE Heartbeating_proofs ------------------------
(***************************************************************************)
(* What holds of Heartbeating for every number of DEAs, instances and      *)
(* readers, every TTL, and however many calls fail.                        *)
(***************************************************************************)
EXTENDS Heartbeating, TLAPS

(* More is an increment up to a limit: it keeps the order of two ages.     *)
LEMMA MoreIsMonotone ==
  ASSUME NEW limit \in Nat, NEW a \in 0..limit, NEW b \in 0..limit, a <= b
  PROVE  /\ More(a, limit) \in 0..limit
         /\ More(a, limit) <= More(b, limit)
  BY DEF More

---------------------------------------------------------------------------
(* Type correctness.  A Send posts no more than its sender has counted.    *)

TypeInv == TypeOK /\ postedNow <= numberOfStartMessagesSent

ListenerTypeInv == ListenerTypeOK /\ postedNow <= numberOfStartMessagesSent

(* What stands for no report is of its type.                               *)
LEMMA SilenceType == Silence \in Heartbeats /\ NoReport \in Report
  BY DEF Silence, NoReport, Report, Heartbeats

(* 0, and the limits of the ages and counters, are within them.            *)
LEMMA LimitsAreNumbers ==
  /\ 0 \in 0..CacheRefreshInterval
  /\ CacheRefreshInterval \in 0..CacheRefreshInterval
  /\ 0 \in 0..ActualFreshnessTTL
  /\ 0 \in 0..SenderMessageLimit
  /\ 0 \in 0..HeartbeatTTL
  /\ 0 \in 0..HeartbeatPeriod + 1
  /\ HeartbeatPeriod + 1 \in 0..HeartbeatPeriod + 1
  BY ListenerAssumption, DeasAssumption

(* A RealStore just made, and one after a read.                            *)
LEMMA HandleTypes ==
  ASSUME ActualStateTypeOK, NEW s \in Stores
  PROVE  /\ NewRealStore \in Handle
         /\ AfterRead(s) \in [Stores -> Handle]
<1>1. NewRealStore \in Handle
  BY SilenceType, DeasAssumption DEF NewRealStore, Handle
<1>2. [handle[s] EXCEPT !.read = "idle", !.listed = Silence] \in Handle
  BY SilenceType DEF ActualStateTypeOK, Handle
<1> QED
  BY <1>1, <1>2 DEF AfterRead, ActualStateTypeOK

(* A counted failure stays within its bound.                               *)
LEMMA FaultType ==
  ASSUME faults \in 0..MaxFaults, Fault \/ NoFault
  PROVE  faults' \in 0..MaxFaults
  BY MaxFaultsAssumption DEF Fault, NoFault

(* The initial values are of their types.                                  *)
LEMMA InitTypeInv == Init => TypeInv
<1> SUFFICES ASSUME Init PROVE TypeInv
  OBVIOUS
<1>1. ActualStateTypeOK
  <2>1. NewRealStore \in Handle
    BY SilenceType, DeasAssumption DEF NewRealStore, Handle
  <2> QED
    BY <2>1, SilenceType, DeasAssumption
    DEF Init, ActualStateInit, ActualStateTypeOK
<1>2. ListenerTypeOK
  BY SilenceType, LimitsAreNumbers
  DEF Init, ListenerInit, ListenerTypeOK, NotThere, SyncerPoint
<1>3. /\ up \in SUBSET Deas
      /\ instances \in [Guids -> State \cup {NoHeartbeat, Gone}]
  <2>1. "RUNNING" \in State
    BY DEF State
  <2>2. up \in SUBSET Deas
    BY DEF Init
  <2> QED
    BY <2>1, <2>2 DEF Init
<1> QED
  BY <1>1, <1>2, <1>3, HeartbeatingAssumption, MaxFaultsAssumption,
     ListenerAssumption
  DEF Init, ListenerInit, TypeInv, TypeOK, Bounds

(* Reads.                                                                  *)
LEMMA ReadingType ==
  ASSUME ActualStateTypeOK, faults \in 0..MaxFaults, NEW s \in Stores,
         BeginRead(s) \/ Reading(s)
  PROVE  ActualStateTypeOK' /\ faults' \in 0..MaxFaults
<1> USE DEF ActualStateTypeOK
<1>1. ASSUME NEW h \in Handle, handle' = [handle EXCEPT ![s] = h]
      PROVE  handle' \in [Stores -> Handle]
  BY <1>1
<1>2. handle[s] \in Handle
  OBVIOUS
<1>3. ASSUME NEW r \in {"list", "deas", "delete", "done", "failed"}
      PROVE  [handle[s] EXCEPT !.read = r] \in Handle
  BY <1>2 DEF Handle
<1>4. CASE BeginRead(s)
  BY <1>1, <1>3, <1>4 DEF BeginRead
<1>5. CASE ListActual(s)
  <2>1. PICK next \in {"deas", "done"} :
          handle' = [handle EXCEPT ![s].read = next, ![s].listed = stored]
    BY <1>5 DEF ListActual
  <2>2. [handle[s] EXCEPT !.read = next, !.listed = stored] \in Handle
    BY <1>2 DEF Handle
  <2>3. handle' = [handle EXCEPT ![s] = [handle[s] EXCEPT !.read = next,
                                                          !.listed = stored]]
    BY <2>1
  <2> QED
    BY <1>1, <1>5, <2>2, <2>3 DEF ListActual
<1>6. CASE GetDeaCache(s)
  <2>1. [handle[s] EXCEPT !.read = "delete", !.deaCache = Present,
                          !.deaCacheAge = 0] \in Handle
    <3>1. Present \in SUBSET Deas
      BY DEF Present
    <3> QED
      BY <1>2, <3>1, LimitsAreNumbers DEF Handle
  <2>2. \/ handle' = [handle EXCEPT ![s] = [handle[s] EXCEPT
             !.read = "delete", !.deaCache = Present, !.deaCacheAge = 0]]
        \/ handle' = [handle EXCEPT ![s] = [handle[s] EXCEPT !.read = "delete"]]
    BY <1>6 DEF GetDeaCache
  <2> QED
    BY <1>1, <1>3, <1>6, <2>1, <2>2 DEF GetDeaCache
<1>7. CASE DeleteExpired(s)
  <2>1. faults' \in 0..MaxFaults
    BY <1>7, FaultType DEF DeleteExpired, Handled
  <2>2. stored' \in Heartbeats
    BY <1>7 DEF DeleteExpired, Heartbeats
  <2>3. handle' \in [Stores -> Handle]
    BY <1>1, <1>3, <1>7 DEF DeleteExpired
  <2> QED
    BY <1>7, <2>1, <2>2, <2>3 DEF DeleteExpired
<1>8. CASE ReadFails(s)
  BY <1>1, <1>3, <1>8, FaultType DEF ReadFails
<1> QED
  BY <1>4, <1>5, <1>6, <1>7, <1>8 DEF Reading

(* What the loop leaves behind has its types, and GoOn leaves that behind  *)
(* or changes only the control point.                                      *)
LEMMA WaitsType ==
  ASSUME Waits
  PROVE  /\ syncer' \in SyncerPoint
         /\ batch' \in Report
         /\ elapsed' \in 0..CacheRefreshInterval
         /\ nodesToSave' = {}
         /\ saveFailed' \in BOOLEAN
         /\ keysToDelete' = {}
         /\ toEvacuate' = {}
         /\ oldAge' \in 0..ActualFreshnessTTL
         /\ postedNow' = 0
  BY SilenceType, LimitsAreNumbers DEF Waits, SyncerPoint

(* The next control point is one.                                          *)
LEMMA GoOnType ==
  ASSUME ListenerTypeInv, GoOn
  PROVE  /\ syncer' \in SyncerPoint
         /\ batch' \in Report
         /\ elapsed' \in 0..CacheRefreshInterval
         /\ nodesToSave' \in SUBSET (Deas \cup Guids)
         /\ saveFailed' \in BOOLEAN
         /\ keysToDelete' \in SUBSET Guids
         /\ toEvacuate' \in SUBSET Guids
         /\ oldAge' \in 0..ActualFreshnessTTL
         /\ postedNow' \in 0..SenderMessageLimit
         /\ postedNow' <= numberOfStartMessagesSent
         /\ startsPosted' = startsPosted
<1>1. CASE toEvacuate = {}
  BY <1>1, WaitsType, LimitsAreNumbers, ListenerAssumption
  DEF GoOn, ListenerTypeInv, ListenerTypeOK
<1>2. CASE toEvacuate # {}
  BY <1>2 DEF GoOn, ListenerTypeInv, ListenerTypeOK, SyncerPoint, sync, history
<1> QED
  BY <1>1, <1>2

(* The reads and the save of a sync.                                       *)
LEMMA SavingType ==
  ASSUME ActualStateTypeOK, ListenerTypeInv, faults \in 0..MaxFaults,
         \/ TakeHeartbeats \/ LoadBegins \/ SyncerReads \/ LoadEnds
         \/ LoadFails \/ MergeHeartbeats \/ Saved
         \/ \E key \in Deas \cup Guids : SaveNode(key)
  PROVE  ActualStateTypeOK' /\ ListenerTypeInv' /\ faults' \in 0..MaxFaults
<1> USE DEF ListenerTypeInv, ListenerTypeOK, storeKeys, sync, caches, sender,
            history
<1>1. {"load", "merge", "save", "delete", "revoke"} \subseteq SyncerPoint
  BY DEF SyncerPoint
<1>2. CASE TakeHeartbeats
  BY <1>1, <1>2, SilenceType DEF TakeHeartbeats, ActualStateTypeOK
<1>3. CASE LoadBegins \/ SyncerReads
  BY <1>3, ReadingType, ListenerAssumption DEF LoadBegins, SyncerReads
<1>4. CASE LoadEnds
  <2>1. ReadResult(Syncer) \in Heartbeats
    BY ListenerAssumption DEF ReadResult, ActualStateTypeOK, Handle, Heartbeats
  <2>2. handle' \in [Stores -> Handle]
    BY <1>4, HandleTypes, ListenerAssumption DEF LoadEnds
  <2> QED
    BY <1>1, <1>4, <2>1, <2>2 DEF LoadEnds, ActualStateTypeOK
<1>5. CASE LoadFails
  <2>1. handle' \in [Stores -> Handle]
    BY <1>5, HandleTypes, ListenerAssumption DEF LoadFails
  <2> QED
    BY <1>1, <1>5, <2>1 DEF LoadFails, ActualStateTypeOK
<1>6. CASE MergeHeartbeats
  <2>1. /\ Changed \in SUBSET Guids
        /\ batch.deas \in SUBSET Deas
    BY DEF Changed, Reported, OnDeas, Report
  <2>2. nodesToSave' \in SUBSET (Deas \cup Guids)
    BY <1>6, <2>1 DEF MergeHeartbeats, NodesToSave
  <2>3. toEvacuate' \in SUBSET Guids /\ keysToDelete' \in SUBSET Guids
    BY <1>6, <2>1 DEF MergeHeartbeats, NewlyEvacuating, OnDeas
  <2>4. cache' \in Heartbeats
    <3>1. batch.states \in Heartbeats
      BY DEF Report
    <3> QED
      BY <1>6, <3>1 DEF MergeHeartbeats, Heartbeats
  <2> QED
    BY <1>1, <1>6, <2>2, <2>3, <2>4 DEF MergeHeartbeats, ActualStateTypeOK
<1>7. CASE Saved
  BY <1>1, <1>7 DEF Saved, ActualStateTypeOK
<1>8. ASSUME NEW key \in Deas \cup Guids, SaveNode(key)
      PROVE  ActualStateTypeOK' /\ ListenerTypeInv' /\ faults' \in 0..MaxFaults
  <2>1. faults' \in 0..MaxFaults
    BY <1>8, FaultType DEF SaveNode
  <2>2. ASSUME NodeWritten(key)
        PROVE  stored' \in Heartbeats /\ presence' \in [Deas -> 0..HeartbeatTTL]
    <3>1. CASE key \in Deas
      BY <2>2, <3>1, DeasAssumption DEF NodeWritten, ActualStateTypeOK
    <3>2. CASE key \notin Deas
      <4>1. batch.states[key] \in State \cup {NoHeartbeat}
        BY <1>8, <3>2 DEF Report, Heartbeats
      <4> QED
        BY <2>2, <3>2, <4>1 DEF NodeWritten, ActualStateTypeOK, Heartbeats
    <3> QED
      BY <3>1, <3>2
  <2>3. ActualStateTypeOK'
    BY <1>8, <2>2 DEF SaveNode, ActualStateTypeOK
  <2> QED
    BY <1>8, <2>1, <2>3 DEF SaveNode
<1> QED
  BY <1>2, <1>3, <1>4, <1>5, <1>6, <1>7, <1>8

(* The rest of a sync.                                                     *)
LEMMA RestType ==
  ASSUME ActualStateTypeOK, ListenerTypeInv, faults \in 0..MaxFaults,
         \/ DeleteGone \/ BumpReads \/ BumpWrites \/ RevokeActualFreshness
         \/ VerifyFreshness \/ (\E g \in Guids : PostEvacuation(g))
         \/ Posted \/ KeepEvacuations
  PROVE  ActualStateTypeOK' /\ ListenerTypeInv' /\ faults' \in 0..MaxFaults
<1> USE DEF ListenerTypeInv, ListenerTypeOK, storeKeys, caches, sender
<1>1. {"revoke", "bump", "write", "post", "keep"} \subseteq SyncerPoint
  BY DEF SyncerPoint
<1>2. UNCHANGED <<stored, presence, handle>> => ActualStateTypeOK'
  BY DEF ActualStateTypeOK
<1>3. postedNow \in Nat /\ numberOfStartMessagesSent \in Nat
  BY ListenerAssumption
<1>4. CASE DeleteGone
  <2>1. faults' \in 0..MaxFaults
    BY <1>4, FaultType DEF DeleteGone, Handled
  <2>2. ActualStateTypeOK'
    BY <1>4 DEF DeleteGone, ActualStateTypeOK, Heartbeats
  <2>3. CASE GoOn
    BY <1>4, <2>1, <2>2, <2>3, GoOnType DEF DeleteGone
  <2>4. CASE syncer' \in {"revoke", "bump"} /\ UNCHANGED <<sync, history>>
    BY <1>1, <1>4, <2>1, <2>2, <2>4 DEF DeleteGone, sync, history
  <2> QED
    BY <1>4, <2>3, <2>4 DEF DeleteGone
<1>5. CASE BumpReads
  <2>1. faults' \in 0..MaxFaults
    BY <1>5, FaultType DEF BumpReads
  <2>2. oldAge' \in 0..ActualFreshnessTTL
    BY <1>5, LimitsAreNumbers DEF BumpReads
  <2> QED
    BY <1>1, <1>2, <1>5, <2>1, <2>2 DEF BumpReads, history
<1>6. CASE BumpWrites \/ RevokeActualFreshness
  <2>1. faults' \in 0..MaxFaults
    BY <1>6, FaultType DEF BumpWrites, RevokeActualFreshness
  <2>2. freshness' \in [left : 0..ActualFreshnessTTL,
                        age : 0..ActualFreshnessTTL]
    BY <1>6, LimitsAreNumbers, ListenerAssumption
    DEF BumpWrites, RevokeActualFreshness, NotThere
  <2> QED
    BY <1>2, <1>6, <2>1, <2>2, GoOnType DEF BumpWrites, RevokeActualFreshness
<1>7. CASE VerifyFreshness
  <2>1. faults' \in 0..MaxFaults
    BY <1>7, FaultType DEF VerifyFreshness
  <2>2. CASE Waits /\ UNCHANGED startsPosted
    BY <1>2, <1>3, <1>7, <2>1, <2>2, WaitsType, LimitsAreNumbers
    DEF VerifyFreshness
  <2>3. CASE syncer' = "post" /\ UNCHANGED <<sync, history>>
    BY <1>1, <1>2, <1>7, <2>1, <2>3 DEF VerifyFreshness, sync, history
  <2> QED
    BY <1>7, <2>2, <2>3 DEF VerifyFreshness
<1>8. ASSUME NEW g \in Guids, PostEvacuation(g)
      PROVE  ActualStateTypeOK' /\ ListenerTypeInv' /\ faults' \in 0..MaxFaults
  <2>1. faults' \in 0..MaxFaults
    BY <1>8, FaultType DEF PostEvacuation
  <2>2. /\ numberOfStartMessagesSent' \in 0..SenderMessageLimit
        /\ postedNow' \in 0..SenderMessageLimit
        /\ postedNow' <= numberOfStartMessagesSent'
    BY <1>3, <1>8, ListenerAssumption DEF PostEvacuation, UnderLimit
  <2>3. startMessagesToSave' \in SUBSET Indices
    BY <1>8, InstancesAssumption DEF PostEvacuation
  <2>4. startsPosted' \in [Guids -> Nat]
    BY <1>8 DEF PostEvacuation
  <2> QED
    BY <1>2, <1>8, <2>1, <2>2, <2>3, <2>4 DEF PostEvacuation
<1>9. CASE Posted
  BY <1>1, <1>2, <1>9 DEF Posted, sync, history
<1>10. CASE KeepEvacuations
  <2>1. PICK kept \in SUBSET Indices :
          /\ Handled(startMessagesToSave, kept)
          /\ starts' = starts \cup kept
    BY <1>10 DEF KeepEvacuations
  <2>2. faults' \in 0..MaxFaults
    BY <2>1, FaultType DEF Handled
  <2>3. starts' \in SUBSET Indices
    BY <2>1
  <2> QED
    BY <1>2, <1>3, <1>10, <2>2, <2>3, WaitsType, LimitsAreNumbers
    DEF KeepEvacuations
<1> QED
  BY <1>4, <1>5, <1>6, <1>7, <1>8, <1>9, <1>10

(* The process that begins anew.                                           *)
LEMMA RestartType ==
  ASSUME ActualStateTypeOK, ListenerTypeInv, ListenerRestarts
  PROVE  ActualStateTypeOK' /\ ListenerTypeInv'
<1>1. handle' \in [Stores -> Handle]
  BY HandleTypes, ListenerAssumption DEF ListenerRestarts, ActualStateTypeOK
<1>2. ActualStateTypeOK'
  BY <1>1 DEF ListenerRestarts, ActualStateTypeOK, storeKeys
<1> QED
  BY <1>2, WaitsType, SilenceType, LimitsAreNumbers
  DEF ListenerRestarts, ListenerTypeInv, ListenerTypeOK, storeKeys

(* A heartbeat joins the next batch.                                       *)
LEMMA HeartbeatType ==
  ASSUME ActualStateTypeOK, ListenerTypeInv, NEW d \in Deas,
         NEW states \in Heartbeats, Heartbeat(d, states)
  PROVE  ActualStateTypeOK' /\ ListenerTypeInv'
<1>1. heartbeatsToSave' \in Report
  BY DEF Heartbeat, ListenerTypeInv, ListenerTypeOK, Report, Heartbeats
<1> QED
  BY <1>1
  DEF Heartbeat, ListenerTypeInv, ListenerTypeOK, ActualStateTypeOK, storeKeys,
      sync, caches, sender, history

(* Time keeps the types.                                                   *)
LEMMA TickType ==
  ASSUME ActualStateTypeOK, ListenerTypeInv, presentFor \in 0..ActualFreshnessTTL,
         Tick
  PROVE  /\ ActualStateTypeOK'
         /\ ListenerTypeInv'
         /\ presentFor' \in 0..ActualFreshnessTTL
<1> USE DEF ActualStateTypeOK, ListenerTypeInv, ListenerTypeOK
<1>1. presence' \in [Deas -> 0..HeartbeatTTL]
  <2>1. \A left \in 0..HeartbeatTTL : Less(left) \in 0..HeartbeatTTL
    BY DeasAssumption DEF Less
  <2> QED
    BY <2>1 DEF Tick
<1>2. ASSUME NEW limit \in Nat, NEW age \in 0..limit
      PROVE  More(age, limit) \in 0..limit
  BY MoreIsMonotone
<1>3. handle' \in [Stores -> Handle]
  <2>1. HeartbeatPeriod + 1 \in Nat
    BY DeasAssumption
  <2>2. ASSUME NEW s \in Stores
        PROVE  [handle[s] EXCEPT !.deaCacheAge = More(@, HeartbeatPeriod + 1)]
                 \in Handle
    <3>1. More(handle[s].deaCacheAge, HeartbeatPeriod + 1)
            \in 0..HeartbeatPeriod + 1
      BY <1>2, <2>1 DEF Handle
    <3> QED
      BY <3>1 DEF Handle
  <2> QED
    BY <2>2 DEF Tick
<1>4. freshness' \in [left : 0..ActualFreshnessTTL, age : 0..ActualFreshnessTTL]
  <2>1. CASE freshness.left <= 1
    BY <2>1, LimitsAreNumbers DEF Tick, NotThere
  <2>2. CASE ~(freshness.left <= 1)
    <3>1. freshness.left - 1 \in 0..ActualFreshnessTTL
      BY <2>2, ListenerAssumption
    <3>2. More(freshness.age, ActualFreshnessTTL) \in 0..ActualFreshnessTTL
      BY <1>2, ListenerAssumption
    <3> QED
      BY <2>2, <3>1, <3>2 DEF Tick
  <2> QED
    BY <2>1, <2>2
<1>5. /\ cacheAge' \in 0..CacheRefreshInterval
      /\ elapsed' \in 0..CacheRefreshInterval
  BY <1>2, ListenerAssumption DEF Tick
<1>6. /\ oldAge' \in 0..ActualFreshnessTTL
      /\ presentFor' \in 0..ActualFreshnessTTL
  BY <1>2, ListenerAssumption DEF Tick
<1> QED
  BY <1>1, <1>3, <1>4, <1>5, <1>6 DEF Tick, sender, history

(* The environment keeps the types.                                        *)
LEMMA EnvironmentType == TypeInv /\ Environment => TypeInv'
<1> SUFFICES ASSUME TypeInv, Environment PROVE TypeInv'
  OBVIOUS
<1>1. TypeOK /\ ListenerTypeInv
  BY DEF TypeInv, TypeOK, ListenerTypeInv
<1>2. ASSUME ListenerUnchanged PROVE ActualStateTypeOK' /\ ListenerTypeInv'
             /\ faults' = faults
  BY <1>1, <1>2
  DEF TypeOK, ActualStateTypeOK, ListenerTypeInv, ListenerTypeOK,
      ListenerUnchanged, storeKeys, sync, caches, sender, history
<1>3. ActualFreshnessTTL + 1 \in Nat /\ MaxChanges \in Nat
      /\ MaxSilences \in Nat /\ MaxRestarts \in Nat /\ MaxLate \in Nat
  BY ListenerAssumption, HeartbeatingAssumption
<1>4. 0 \in 0..ActualFreshnessTTL + 1
  BY <1>3
<1>5. ASSUME NEW g \in Guids, InstanceChanges(g) PROVE TypeInv'
  <2>1. PICK state \in Follows(instances[g]) :
          /\ instances' = [instances EXCEPT ![g] = state]
          /\ steadyFor' = [steadyFor EXCEPT ![g] = IF state = Gone THEN 0 ELSE @]
    BY <1>5 DEF InstanceChanges
  <2>2. state \in State \cup {Gone}
    BY <2>1 DEF Follows, State
  <2>3. bounds' \in Bounds
    BY <1>1, <1>3, <1>5 DEF InstanceChanges, TypeOK, Bounds
  <2> QED
    BY <1>1, <1>2, <1>4, <1>5, <2>1, <2>2, <2>3
    DEF InstanceChanges, TypeInv, TypeOK, ListenerTypeInv
<1>6. ASSUME NEW d \in Deas, DeaFallsSilent(d) PROVE TypeInv'
  <2>1. bounds' \in Bounds
    BY <1>1, <1>3, <1>6 DEF DeaFallsSilent, TypeOK, Bounds
  <2>2. steadyFor' \in [Guids -> 0..ActualFreshnessTTL + 1]
    BY <1>1, <1>4, <1>6 DEF DeaFallsSilent, TypeOK
  <2>3. up' \in SUBSET Deas /\ beaten' \in SUBSET up'
    BY <1>1, <1>6 DEF DeaFallsSilent, TypeOK
  <2> QED
    BY <1>1, <1>2, <1>6, <2>1, <2>2, <2>3
    DEF DeaFallsSilent, TypeInv, TypeOK, ListenerTypeInv
<1>7. ASSUME NEW d \in Deas, DeaComesBack(d) PROVE TypeInv'
  BY <1>1, <1>2, <1>7 DEF DeaComesBack, TypeInv, TypeOK, ListenerTypeInv
<1>8. ASSUME NEW d \in Deas, Beat(d) PROVE TypeInv'
  <2>1. Reports \in Heartbeats
    BY <1>1 DEF Reports, TypeOK, Heartbeats
  <2>2. ActualStateTypeOK' /\ ListenerTypeInv' /\ faults' = faults
    BY <1>1, <1>8, <2>1, HeartbeatType DEF Beat, Heartbeat, TypeOK
  <2>3. steadyFor' \in [Guids -> 0..ActualFreshnessTTL + 1]
    <3>1. ASSUME NEW g \in Guids
          PROVE  More(steadyFor[g], ActualFreshnessTTL + 1)
                   \in 0..ActualFreshnessTTL + 1
      BY <1>1, <1>3, MoreIsMonotone DEF TypeOK
    <3> QED
      BY <1>1, <1>8, <3>1 DEF Beat, TypeOK
  <2>4. beaten' \in SUBSET up'
    BY <1>1, <1>8 DEF Beat, TypeOK
  <2> QED
    BY <1>1, <1>8, <2>2, <2>3, <2>4 DEF Beat, TypeInv, TypeOK, ListenerTypeInv
<1>9. CASE Restart
  <2>1. bounds' \in Bounds
    BY <1>1, <1>3, <1>9 DEF Restart, TypeOK, Bounds
  <2>2. ActualStateTypeOK' /\ ListenerTypeInv' /\ faults' = faults
    BY <1>1, <1>9, RestartType DEF Restart, ListenerRestarts, TypeOK
  <2> QED
    BY <1>1, <1>9, <2>1, <2>2 DEF Restart, TypeInv, TypeOK, ListenerTypeInv
<1>10. CASE Tick
  <2>1. /\ ActualStateTypeOK' /\ ListenerTypeInv'
        /\ presentFor' \in 0..ActualFreshnessTTL
    BY <1>1, <1>10, TickType DEF TypeOK
  <2>2. UNCHANGED <<faults, instances, up, steadyFor>> /\ beaten' = {}
    BY <1>10 DEF Tick
  <2>3. bounds' \in Bounds
    BY <1>1, <1>3, <1>10 DEF Tick, TypeOK, Bounds
  <2> QED
    BY <1>1, <2>1, <2>2, <2>3 DEF TypeInv, TypeOK, ListenerTypeInv
<1> QED
  BY <1>5, <1>6, <1>7, <1>8, <1>9, <1>10 DEF Environment

(* So do the readers.                                                      *)
LEMMA ReaderType ==
  ASSUME TypeInv, NEW s \in Readers, ReaderActs(s)
  PROVE  TypeInv'
<1>1. s \in Stores
  BY DEF Readers
<1>2. /\ ListenerTypeInv' /\ up' \in SUBSET Deas /\ beaten' \in SUBSET up'
      /\ UNCHANGED <<instances, presentFor, steadyFor>>
  BY DEF TypeInv, TypeOK, ListenerTypeInv, ListenerTypeOK, ReaderActs, sync,
         caches, sender, history
<1>3. bounds' \in Bounds
  BY HeartbeatingAssumption
  DEF TypeInv, TypeOK, Bounds, ReaderActs, ReaderBegins, DumpBegins,
      ReaderReturns
<1>4. CASE BeginRead(s) \/ Reading(s)
  BY <1>1, <1>2, <1>3, <1>4, ReadingType DEF TypeInv, TypeOK, ListenerTypeInv
<1>5. CASE ReaderReturns(s)
  <2>1. handle' \in [Stores -> Handle]
    <3>1. NewRealStore \in Handle /\ AfterRead(s) \in [Stores -> Handle]
      BY <1>1, HandleTypes DEF TypeInv, TypeOK
    <3> QED
      BY <1>5, <3>1 DEF ReaderReturns, TypeInv, TypeOK, ActualStateTypeOK
  <2> QED
    BY <1>2, <1>3, <1>5, <2>1
    DEF ReaderReturns, TypeInv, TypeOK, ActualStateTypeOK, ListenerTypeInv
<1> QED
  BY <1>4, <1>5 DEF ReaderActs, ReaderBegins, DumpBegins

(* Every step keeps the types.                                             *)
LEMMA NextTypeInv == TypeInv /\ [Next]_vars => TypeInv'
<1> SUFFICES ASSUME TypeInv, [Next]_vars PROVE TypeInv'
  OBVIOUS
<1>1. CASE ListenerActs
  <2>1. ActualStateTypeOK' /\ ListenerTypeInv' /\ faults' \in 0..MaxFaults
    BY <1>1, SavingType, RestType
    DEF TypeInv, TypeOK, ListenerTypeInv, ListenerActs, ListenerStep
  <2>2. presentFor' \in 0..ActualFreshnessTTL
    BY <1>1, LimitsAreNumbers DEF ListenerActs, TypeInv, TypeOK
  <2> QED
    BY <1>1, <2>1, <2>2
    DEF ListenerActs, TypeInv, TypeOK, ListenerTypeInv, environment
<1>2. CASE UNCHANGED vars
  BY <1>2
  DEF TypeInv, TypeOK, ActualStateTypeOK, ListenerTypeOK, vars, storeKeys, sync,
      caches, sender, history, environment
<1> QED
  BY <1>1, <1>2, EnvironmentType, ReaderType DEF Next

(* Every variable of the heartbeats' way to the readers keeps its type,    *)
(* whatever fails and however late a process is; no counter of the sender  *)
(* passes its limit.                                                       *)
THEOREM TypeCorrect == Spec => []TypeOK
<1>1. Init => TypeInv
  BY InitTypeInv
<1>2. TypeInv /\ [Next]_vars => TypeInv'
  BY NextTypeInv
<1>3. TypeInv => TypeOK
  BY DEF TypeInv
<1> QED
  BY <1>1, <1>2, <1>3, PTL DEF Spec

---------------------------------------------------------------------------
(* Freshness.                                                              *)

(* The timestamp in the store, and one about to be written there, is no    *)
(* older than the key has been there.                                      *)
FreshnessInv ==
  /\ freshness \in [left : 0..ActualFreshnessTTL, age : 0..ActualFreshnessTTL]
  /\ presentFor \in 0..ActualFreshnessTTL
  /\ oldAge \in 0..ActualFreshnessTTL
  /\ freshness.left = 0 => presentFor = 0
  /\ freshness.left > 0 => freshness.age <= presentFor
  /\ syncer = "write" => oldAge <= presentFor

(* A step that has nothing to do with freshness.                           *)
Aside ==
  /\ freshness' = freshness
  /\ syncer' # "write"
  /\ oldAge' \in {0, oldAge}

(* GoOn ends a sync or goes on to the starts: it never goes to a bump.     *)
LEMMA GoOnIsAside ==
  ASSUME GoOn
  PROVE  syncer' # "write" /\ oldAge' \in {0, oldAge}
  BY DEF GoOn, Waits, sync

(* All the listener does but its two bump steps and the revocation.        *)
LEMMA ListenerAside ==
  ASSUME ListenerStep
  PROVE  BumpReads \/ BumpWrites \/ RevokeActualFreshness \/ Aside
<1>1. CASE TakeHeartbeats
  BY <1>1 DEF TakeHeartbeats, Aside, storeKeys
<1>2. CASE LoadBegins
  BY <1>2 DEF LoadBegins, Aside, sync
<1>3. CASE SyncerReads
  BY <1>3 DEF SyncerReads, Aside, sync
<1>4. CASE LoadEnds
  BY <1>4 DEF LoadEnds, Aside, sync, storeKeys
<1>5. CASE LoadFails
  BY <1>5 DEF LoadFails, Aside, sync, storeKeys
<1>6. CASE MergeHeartbeats
  BY <1>6 DEF MergeHeartbeats, Aside, storeKeys
<1>7. ASSUME NEW key \in Deas \cup Guids, SaveNode(key)
      PROVE  Aside
  BY <1>7 DEF SaveNode, Aside
<1>8. CASE Saved
  BY <1>8 DEF Saved, Aside, sync, storeKeys
<1>9. CASE DeleteGone
  BY <1>9, GoOnIsAside DEF DeleteGone, Aside, sync
<1>10. CASE VerifyFreshness
  BY <1>10 DEF VerifyFreshness, Waits, Aside, sync, storeKeys
<1>11. ASSUME NEW g \in Guids, PostEvacuation(g)
       PROVE  Aside
  BY <1>11 DEF PostEvacuation, Aside, storeKeys
<1>12. CASE Posted
  BY <1>12 DEF Posted, Aside, sync, storeKeys
<1>13. CASE KeepEvacuations
  BY <1>13 DEF KeepEvacuations, Waits, Aside
<1> QED
  BY <1>1, <1>2, <1>3, <1>4, <1>5, <1>6, <1>7, <1>8, <1>9, <1>10, <1>11,
     <1>12, <1>13 DEF ListenerStep

(* The environment, but for Restart and Tick, and the readers leave        *)
(* freshness, the listener's control and the history of the key alone.     *)
LEMMA OthersAside ==
  ASSUME \/ \E g \in Guids : InstanceChanges(g)
         \/ \E d \in Deas : DeaFallsSilent(d) \/ DeaComesBack(d) \/ Beat(d)
         \/ \E s \in Readers : ReaderActs(s)
  PROVE  UNCHANGED <<freshness, syncer, oldAge, presentFor>>
<1>1. ASSUME NEW g \in Guids, InstanceChanges(g)
      PROVE  UNCHANGED <<freshness, syncer, oldAge, presentFor>>
  BY <1>1 DEF InstanceChanges, ListenerUnchanged, storeKeys, sync
<1>2. ASSUME NEW d \in Deas, DeaFallsSilent(d) \/ DeaComesBack(d)
      PROVE  UNCHANGED <<freshness, syncer, oldAge, presentFor>>
  BY <1>2 DEF DeaFallsSilent, DeaComesBack, ListenerUnchanged, storeKeys, sync
<1>3. ASSUME NEW d \in Deas, Beat(d)
      PROVE  UNCHANGED <<freshness, syncer, oldAge, presentFor>>
  BY <1>3 DEF Beat, Heartbeat, storeKeys, sync
<1>4. ASSUME NEW s \in Readers, ReaderActs(s)
      PROVE  UNCHANGED <<freshness, syncer, oldAge, presentFor>>
  BY <1>4 DEF ReaderActs, sync
<1> QED
  BY <1>1, <1>2, <1>3, <1>4

(* At the start there is no freshness.                                     *)
LEMMA FreshnessInvInit == Init => FreshnessInv
  BY ListenerAssumption DEF Init, ListenerInit, NotThere, FreshnessInv

(* No period passes over a process at work.                                *)
LEMMA PromptTick ==
  ASSUME Prompt, TypeOK, Tick
  PROVE  Idle /\ UNCHANGED bounds
<1>1. bounds.late \in 0..0
  BY DEF Prompt, TypeOK, Bounds
<1> QED
  BY <1>1 DEF Tick, Prompt

(* A step of a listener that keeps pace with its heartbeats, or of         *)
(* anything beside it, keeps the invariant.                                *)
LEMMA FreshnessInvNext ==
  ASSUME Prompt, TypeOK, FreshnessInv, [Next]_vars
  PROVE  FreshnessInv'
<1> USE ListenerAssumption
<1>1. CASE UNCHANGED <<freshness, syncer, oldAge, presentFor>>
  BY <1>1 DEF FreshnessInv
<1>2. CASE ListenerActs
  <2>1. presentFor' = IF freshness'.left = 0 THEN 0 ELSE presentFor
    BY <1>2 DEF ListenerActs
  <2>2. CASE BumpReads
    BY <2>1, <2>2 DEF BumpReads, FreshnessInv, storeKeys
  <2>3. CASE BumpWrites
    <3>1. syncer' # "write" /\ oldAge' \in {0, oldAge}
      BY <2>3, GoOnIsAside DEF BumpWrites
    <3>2. \/ freshness' = [left |-> ActualFreshnessTTL, age |-> oldAge]
          \/ freshness' = freshness
      BY <2>3 DEF BumpWrites
    <3>3. oldAge <= presentFor
      BY <2>3 DEF BumpWrites, FreshnessInv
    <3> QED
      BY <2>1, <3>1, <3>2, <3>3 DEF FreshnessInv
  <2>4. CASE RevokeActualFreshness
    <3>1. syncer' # "write" /\ oldAge' \in {0, oldAge}
      BY <2>4, GoOnIsAside DEF RevokeActualFreshness
    <3>2. freshness' \in {NotThere, freshness}
      BY <2>4 DEF RevokeActualFreshness
    <3> QED
      BY <2>1, <3>1, <3>2 DEF FreshnessInv, NotThere
  <2>5. CASE Aside
    BY <2>1, <2>5 DEF Aside, FreshnessInv
  <2> QED
    BY <1>2, <2>2, <2>3, <2>4, <2>5, ListenerAside DEF ListenerActs
<1>3. CASE Restart
  BY <1>3 DEF Restart, ListenerRestarts, Waits, storeKeys, FreshnessInv
<1>4. CASE Tick
  <2>1. syncer' = "wait" /\ oldAge' = oldAge
    BY <1>4, PromptTick DEF Tick, Idle
  <2>2. CASE freshness.left <= 1
    BY <1>4, <2>1, <2>2 DEF Tick, NotThere, FreshnessInv
  <2>3. CASE freshness.left > 1
    <3>1. freshness' = [left |-> freshness.left - 1,
                        age |-> More(freshness.age, ActualFreshnessTTL)]
      BY <1>4, <2>3 DEF Tick, FreshnessInv
    <3>2. presentFor' = More(presentFor, ActualFreshnessTTL)
      BY <1>4, <2>3, <3>1 DEF Tick, FreshnessInv
    <3>3. /\ freshness.left \in 0..ActualFreshnessTTL
          /\ freshness.age \in 0..ActualFreshnessTTL
          /\ presentFor \in 0..ActualFreshnessTTL
          /\ freshness.age <= presentFor
      BY <2>3 DEF FreshnessInv
    <3>4. /\ freshness'.age \in 0..ActualFreshnessTTL
          /\ presentFor' \in 0..ActualFreshnessTTL
          /\ freshness'.age <= presentFor'
      BY <3>1, <3>2, <3>3, MoreIsMonotone
    <3> QED
      BY <2>1, <2>3, <3>1, <3>3, <3>4 DEF FreshnessInv
  <2> QED
    BY <2>2, <2>3 DEF FreshnessInv
<1>5. CASE UNCHANGED vars
  BY <1>1, <1>5 DEF vars, storeKeys, sync
<1> QED
  BY <1>1, <1>2, <1>3, <1>4, <1>5, OthersAside DEF Next, Environment

(* FreshOnlyIfPresent: while the listener saves each batch before time     *)
(* goes on, a state taken for fresh has had its key in the store for a     *)
(* whole TTL, even though any call may fail (bumpFreshness takes every     *)
(* error of its read for an absent key, which only makes the state younger)*)
(* and the listener restart anywhere.                                      *)
THEOREM FreshnessIsPresence ==
  ASSUME Prompt
  PROVE  Spec => []FreshOnlyIfPresent
<1>1. Init => FreshnessInv
  BY FreshnessInvInit
<1>2. TypeOK /\ FreshnessInv /\ [Next]_vars => FreshnessInv'
  BY FreshnessInvNext
<1>3. FreshnessInv => FreshOnlyIfPresent
  BY ListenerAssumption DEF FreshnessInv, FreshOnlyIfPresent,
     IsActualStateFresh
<1> QED
  BY <1>1, <1>2, <1>3, TypeCorrect, PTL DEF Spec
=============================================================================
