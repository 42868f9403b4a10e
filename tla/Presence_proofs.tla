--------------------------- MODULE Presence_proofs ---------------------------
(***************************************************************************)
(* What the presence of the DEAs guards, while every process is done with  *)
(* its work before time goes on and no DEA falls silent: an instance of a  *)
(* DEA that is present is not deleted, a state taken for fresh lacks no    *)
(* instance, and an evacuated instance is replaced once.                   *)
(***************************************************************************)
EXTENDS Heartbeating_proofs

(* A heartbeat is lost when the listener restarts or a call fails.         *)
Losses == bounds.restarts + faults
MaxLosses == MaxRestarts + MaxFaults

(* Processes keep pace, DEAs keep sending and nobody dumps the store; the  *)
(* two TTLs outlast what may be lost, and a cache of DEAs is not used for  *)
(* two loads of the cache of heartbeats.                                   *)
KeepsPace ==
  /\ Prompt
  /\ MaxSilences = 0
  /\ Dumpers = {}
  /\ HeartbeatTTL > MaxLosses + 1
  /\ ActualFreshnessTTL > MaxLosses
  /\ CacheRefreshInterval > HeartbeatPeriod

(* How one sync follows another: a DEA beats once in a period, and its     *)
(* heartbeat is in one batch.                                              *)
OneAtATime ==
  /\ up = Deas
  /\ elapsed = 0
  /\ heartbeatsToSave.deas \cup batch.deas \subseteq beaten
  /\ heartbeatsToSave.deas \cap batch.deas = {}
  /\ syncer = "wait" => batch.deas = {}
  /\ syncer # "save" => nodesToSave = {}
  /\ nodesToSave \subseteq batch.deas \cup OnDeas(batch.deas)
  /\ syncer = "load" => cacheAge = CacheRefreshInterval
  /\ handle[Syncer].read # "idle" => syncer = "load"

(* The heartbeat of this period is still to come or to be saved.           *)
Pending(d) ==
  \/ d \in heartbeatsToSave.deas
  \/ /\ d \in batch.deas
     /\ \/ syncer = "load" /\ handle[Syncer].read # "failed"
        \/ syncer = "merge"
  \/ d \in nodesToSave
Expected(d) == d \notin beaten \/ Pending(d)

(* The age that freshness is given by the timestamp in the store.          *)
Age == IF freshness.left > 0 THEN freshness.age ELSE 0

(* Until now each period but those lost has renewed the presence of a DEA, *)
(* or begun it.                                                            *)
Lasts(d) ==
  IF presence[d] = 0
  THEN Age + (IF Expected(d) THEN 0 ELSE 1) <= Losses
  ELSE presence[d] + Losses + (IF Expected(d) THEN 1 ELSE 0) >= HeartbeatTTL

PresenceLasts ==
  /\ syncer = "write" => oldAge <= Age
  /\ \A d \in Deas : Lasts(d)

(* No reader but the listener, and it only while none of its DEAs has      *)
(* been saved since, has a cache of DEAs that lacks one which is present.  *)
ReaderComplete(s) ==
  /\ handle[s].read # "idle" => Present = Deas
  /\ handle[s].read = "delete" => handle[s].deaCacheAge <= HeartbeatPeriod
  /\ handle[s].deaCacheAge <= HeartbeatPeriod => handle[s].deaCache = Deas

ListenerComplete ==
  /\ handle[Syncer].read = "delete" => Present \subseteq handle[Syncer].deaCache
  /\ \/ handle[Syncer].deaCacheAge > HeartbeatPeriod
     \/ cacheAge <= handle[Syncer].deaCacheAge
     \/ /\ Present \subseteq handle[Syncer].deaCache
        /\ cacheAge = CacheRefreshInterval
        /\ syncer \notin {"merge", "save"}

CachesAreComplete == ListenerComplete /\ \A s \in Readers : ReaderComplete(s)

PresenceInv == OneAtATime /\ PresenceLasts /\ CachesAreComplete

(* Heard(g, state): the DEA of g has said so in a heartbeat under way.     *)
Heard(g, state) ==
  \/ DeaOf[g] \in heartbeatsToSave.deas /\ heartbeatsToSave.states[g] = state
  \/ DeaOf[g] \in batch.deas /\ batch.states[g] = state

(* What the DEAs have said still is what there is, or was.                 *)
ReportsAreTrue ==
  \A g \in Guids :
    /\ instances[g] \in {NoHeartbeat, Gone} => steadyFor[g] = 0
    /\ Heard(g, NoHeartbeat) => steadyFor[g] = 0
    /\ Heard(g, "EVACUATING") => instances[g] \in {"EVACUATING", Gone}

(* A load reads what is stored.                                            *)
LoadIsStored ==
  /\ handle[Syncer].read \in {"deas", "delete"} => handle[Syncer].listed = stored
  /\ handle[Syncer].read = "done" => ReadResult(Syncer) = stored
  /\ handle[Syncer].read # "failed"

(* The cache is what is stored, but for what is being saved.               *)
CacheIsStored ==
  \/ syncer = "load"
  \/ syncer = "wait" /\ cacheAge = CacheRefreshInterval
  \/ \A g \in Guids :
       \/ cache[g] = stored[g]
       \/ g \in nodesToSave /\ cache[g] = batch.states[g]
          /\ cache[g] # NoHeartbeat
       \/ /\ g \in keysToDelete /\ syncer \in {"save", "delete"}
          /\ cache[g] = NoHeartbeat

(* A sync saves what it was told.                                          *)
SyncSaves ==
  /\ ~saveFailed
  /\ syncer \notin {"load", "merge"} =>
       \A d \in batch.deas : d \in nodesToSave \/ presence[d] > 0
  /\ syncer \in {"save", "delete"} =>
       /\ \A g \in OnDeas(batch.deas) : cache[g] = batch.states[g]
       /\ \A g \in keysToDelete :
            DeaOf[g] \in batch.deas /\ batch.states[g] = NoHeartbeat
  /\ \A g \in Guids \cap nodesToSave : batch.states[g] # NoHeartbeat

(* What is stored of an instance counts while its DEA is present.          *)
Absent(g) == presence[DeaOf[g]] = 0 \/ stored[g] = NoHeartbeat

UnderWay(g) == Pending(DeaOf[g]) \/ g \in nodesToSave

(* An absent instance has not been reported for long.                      *)
StoredInTime ==
  \A g \in Guids : Absent(g) =>
    steadyFor[g] <= bounds.restarts + (IF UnderWay(g) THEN 1 ELSE 0)

(* A start is about to be sent for an instance.                            *)
BeingReplaced(g) ==
  /\ startsPosted[g] = 0
  /\ DeaOf[g] \in batch.deas
  /\ batch.states[g] = "EVACUATING"
  /\ g \in nodesToSave \/ stored[g] = "EVACUATING"

(* One was sent, and will not be again.                                    *)
Replaced(g) ==
  /\ startsPosted[g] = 1
  /\ instances[g] \in {"EVACUATING", Gone}
  /\ \A state \in State : Heard(g, state) => state = "EVACUATING"
  /\ Heard(g, NoHeartbeat) => instances[g] = Gone
  /\ presence[DeaOf[g]] > 0
  /\ \/ stored[g] = "EVACUATING"
     \/ instances[g] = Gone /\ ~Heard(g, "EVACUATING")

ReplacedOnce ==
  /\ syncer \in {"wait", "load", "merge"} => toEvacuate = {}
  /\ \A g \in toEvacuate : BeingReplaced(g)
  /\ \A g \in Guids : startsPosted[g] > 0 => Replaced(g)

CalmInv ==
  /\ ReportsAreTrue
  /\ LoadIsStored
  /\ CacheIsStored
  /\ SyncSaves
  /\ StoredInTime
  /\ ReplacedOnce

---------------------------------------------------------------------------
(* How one sync follows another.                                           *)

(* What a sync leaves behind is no batch; GoOn ends it or leaves it alone. *)
LEMMA GoOnKeepsBatch ==
  ASSUME GoOn
  PROVE  \/ Waits
         \/ /\ syncer' = "verify"
            /\ UNCHANGED <<batch, elapsed, nodesToSave, saveFailed,
                           keysToDelete, toEvacuate, oldAge, postedNow>>
  BY DEF GoOn, sync, history

(* At the start no process is at work.                                     *)
LEMMA InitOneAtATime ==
  ASSUME KeepsPace, Init
  PROVE  OneAtATime
<1>1. up = Deas
  BY DEF Init, KeepsPace
<1> QED
  BY <1>1, ListenerAssumption
  DEF Init, ListenerInit, ActualStateInit, OneAtATime, NoReport, NewRealStore

(* The listener.                                                           *)
LEMMA ListenerOneAtATime ==
  ASSUME TypeInv, OneAtATime, ListenerActs
  PROVE  OneAtATime'
<1>1. UNCHANGED <<up, beaten>>
  BY DEF ListenerActs, environment
<1> USE DEF OneAtATime
<1>2. ASSUME Waits, UNCHANGED <<handle, heartbeatsToSave>>,
             syncer # "load"
      PROVE  OneAtATime'
  BY <1>1, <1>2 DEF Waits, NoReport
<1>3. ASSUME UNCHANGED <<batch, elapsed, nodesToSave, heartbeatsToSave, handle>>,
             syncer \notin {"load", "save"},
             syncer' \notin {"wait", "load"}
      PROVE  OneAtATime'
  BY <1>1, <1>3
<1>4. ASSUME GoOn, UNCHANGED <<handle, heartbeatsToSave>>,
             syncer \notin {"load", "save"}
      PROVE  OneAtATime'
  BY <1>2, <1>3, <1>4, GoOnKeepsBatch
<1>5. CASE TakeHeartbeats
  <2>1. cacheAge \in 0..CacheRefreshInterval
    BY DEF TypeInv, TypeOK, ListenerTypeOK
  <2>2. RefreshDue => cacheAge = CacheRefreshInterval
    BY <2>1, ListenerAssumption DEF RefreshDue
  <2> QED
    BY <1>1, <1>5, <2>2 DEF TakeHeartbeats, NoReport, caches
<1>6. CASE LoadBegins \/ SyncerReads
  BY <1>1, <1>6 DEF LoadBegins, SyncerReads, sync, caches
<1>7. CASE LoadEnds \/ LoadFails
  <2>1. handle'[Syncer].read = "idle"
    BY <1>7, ListenerAssumption
    DEF LoadEnds, LoadFails, AfterRead, TypeInv, TypeOK, ActualStateTypeOK,
        Handle
  <2> QED
    BY <1>1, <1>7, <2>1 DEF LoadEnds, LoadFails, sync
<1>8. CASE MergeHeartbeats
  <2>1. NodesToSave \subseteq batch.deas \cup OnDeas(batch.deas)
    BY DEF NodesToSave, Changed, Reported
  <2> QED
    BY <1>1, <1>8, <2>1 DEF MergeHeartbeats
<1>9. ASSUME NEW key \in Deas \cup Guids, SaveNode(key) PROVE OneAtATime'
  BY <1>1, <1>9 DEF SaveNode
<1>10. CASE Saved
  BY <1>1, <1>10 DEF Saved, sync
<1>11. CASE DeleteGone
  <2>1. CASE GoOn
    BY <1>4, <1>11, <2>1 DEF DeleteGone
  <2>2. CASE syncer' \in {"revoke", "bump"} /\ UNCHANGED <<sync, history>>
    BY <1>3, <1>11, <2>2 DEF DeleteGone, sync
  <2> QED
    BY <1>11, <2>1, <2>2 DEF DeleteGone
<1>12. CASE BumpReads
  BY <1>3, <1>12 DEF BumpReads
<1>13. CASE BumpWrites \/ RevokeActualFreshness
  BY <1>4, <1>13 DEF BumpWrites, RevokeActualFreshness
<1>14. CASE VerifyFreshness
  BY <1>2, <1>3, <1>14 DEF VerifyFreshness, sync
<1>15. ASSUME NEW g \in Guids, PostEvacuation(g) PROVE OneAtATime'
  BY <1>3, <1>15 DEF PostEvacuation
<1>16. CASE Posted
  BY <1>3, <1>16 DEF Posted, sync
<1>17. CASE KeepEvacuations
  BY <1>2, <1>17 DEF KeepEvacuations
<1> QED
  BY <1>5, <1>6, <1>7, <1>8, <1>9, <1>10, <1>11, <1>12, <1>13, <1>14, <1>15,
     <1>16, <1>17
  DEF ListenerActs, ListenerStep

(* A DEA does not fall silent.                                             *)
LEMMA NoneSilent ==
  ASSUME KeepsPace, TypeInv, NEW d \in Deas
  PROVE  ~DeaFallsSilent(d)
  BY DEF KeepsPace, TypeInv, TypeOK, Bounds, DeaFallsSilent

(* Time goes on when all is done.                                          *)
LEMMA TickIsIdle ==
  ASSUME KeepsPace, TypeInv, OneAtATime, Tick
  PROVE  /\ beaten = Deas /\ beaten' = {}
         /\ syncer = "wait" /\ syncer' = "wait"
         /\ heartbeatsToSave.deas = {} /\ batch.deas = {} /\ nodesToSave = {}
         /\ UNCHANGED <<heartbeatsToSave, batch, nodesToSave, bounds, faults>>
         /\ \A s \in Stores : handle[s].read = "idle" /\ handle'[s].read = "idle"
         /\ \A d : Expected(d)' /\ ~Pending(d) /\ ~Pending(d)'
<1>1. /\ beaten = Deas /\ beaten' = {} /\ syncer = "wait" /\ syncer' = "wait"
      /\ heartbeatsToSave.deas = {} /\ batch.deas = {} /\ nodesToSave = {}
      /\ UNCHANGED <<heartbeatsToSave, batch, nodesToSave, bounds, faults>>
      /\ \A s \in Stores : handle[s].read = "idle"
  BY PromptTick DEF KeepsPace, OneAtATime, TypeInv, Tick, Idle
<1>2. \A s \in Stores : handle'[s].read = handle[s].read
  BY DEF Tick, TypeInv, TypeOK, ActualStateTypeOK, Handle
<1> QED
  BY <1>1, <1>2 DEF Expected, Pending

(* Every step.                                                             *)
LEMMA NextOneAtATime ==
  ASSUME KeepsPace, TypeInv, OneAtATime, [Next]_vars
  PROVE  OneAtATime'
<1> USE DEF OneAtATime
<1>1. ASSUME ListenerUnchanged, up' = Deas, beaten' = beaten
      PROVE  OneAtATime'
  BY <1>1 DEF ListenerUnchanged, sync, caches
<1>2. ASSUME NEW g \in Guids, InstanceChanges(g) PROVE OneAtATime'
  BY <1>1, <1>2 DEF InstanceChanges
<1>3. ASSUME NEW d \in Deas, DeaComesBack(d) PROVE OneAtATime'
  BY <1>1, <1>3 DEF DeaComesBack
<1>4. ASSUME NEW d \in Deas, Beat(d) PROVE OneAtATime'
  BY <1>4 DEF Beat, Heartbeat, sync, caches
<1>5. CASE Restart
  <2>1. handle'[Syncer] = NewRealStore
    BY <1>5, ListenerAssumption
    DEF Restart, ListenerRestarts, TypeInv, TypeOK, ActualStateTypeOK
  <2> QED
    BY <1>5, <2>1 DEF Restart, ListenerRestarts, Waits, NoReport, NewRealStore
<1>6. CASE Tick
  <2>1. up' = Deas /\ elapsed' = 0
    BY <1>6, TickIsIdle DEF Tick
  <2> QED
    BY <1>6, <2>1, TickIsIdle, ListenerAssumption
<1>7. ASSUME NEW s \in Readers, ReaderActs(s) PROVE OneAtATime'
  <2>1. handle'[Syncer] = handle[Syncer]
    BY <1>7, ListenerAssumption
    DEF Readers, ReaderActs, ReaderBegins, DumpBegins, BeginRead, Reading,
        ListActual, GetDeaCache, DeleteExpired, ReadFails, ReaderReturns,
        AfterRead, TypeInv, TypeOK, ActualStateTypeOK
  <2> QED
    BY <1>7, <2>1 DEF ReaderActs, sync, caches
<1>8. CASE UNCHANGED vars
  BY <1>8 DEF vars, environment, sync, caches
<1> QED
  BY <1>2, <1>3, <1>4, <1>5, <1>6, <1>7, <1>8, ListenerOneAtATime, NoneSilent
  DEF Next, Environment

---------------------------------------------------------------------------
(* How long presence lasts.                                                *)

Sizes ==
  /\ Losses \in 0..MaxLosses
  /\ Age \in 0..ActualFreshnessTTL
  /\ \A d \in Deas : presence[d] \in 0..HeartbeatTTL

(* The ages and lives that time moves are numbers.                         *)
LEMMA SizesOK == TypeInv => Sizes
<1> SUFFICES ASSUME TypeInv PROVE Sizes
  OBVIOUS
<1>1. bounds.restarts \in 0..MaxRestarts /\ faults \in 0..MaxFaults
  BY DEF TypeInv, TypeOK, Bounds
<1>2. Losses \in 0..MaxLosses
  BY <1>1, HeartbeatingAssumption, MaxFaultsAssumption DEF Losses, MaxLosses
<1>3. Age \in 0..ActualFreshnessTTL
  BY ListenerAssumption DEF Age, TypeInv, TypeOK, ListenerTypeOK
<1>4. \A d \in Deas : presence[d] \in 0..HeartbeatTTL
  BY DEF TypeInv, TypeOK, ActualStateTypeOK
<1> QED
  BY <1>2, <1>3, <1>4 DEF Sizes

(* The TTLs are numbers.                                                   *)
LEMMA TTLs ==
  /\ HeartbeatTTL \in Nat \ {0} /\ ActualFreshnessTTL \in Nat \ {0}
  /\ MaxLosses \in Nat
  BY DeasAssumption, ListenerAssumption, HeartbeatingAssumption,
     MaxFaultsAssumption
  DEF MaxLosses

(* A step that renews the presence of a DEA, or takes its heartbeat no     *)
(* longer for expected only if it was lost.                                *)
LEMMA LastsOn ==
  ASSUME Sizes, Sizes', NEW d \in Deas, Lasts(d), Age' <= Age,
         Losses' >= Losses,
         \/ presence'[d] = HeartbeatTTL
         \/ /\ presence'[d] = presence[d]
            /\ Expected(d) /\ ~Expected(d)' => Losses' > Losses
  PROVE  Lasts(d)'
<1> DEFINE e == IF Expected(d) THEN 1 ELSE 0
           f == IF Expected(d)' THEN 1 ELSE 0
<1>1. /\ Losses \in Nat /\ Losses' \in Nat
      /\ Age \in Nat /\ Age' \in Nat
      /\ presence[d] \in Nat /\ presence'[d] \in Nat
      /\ HeartbeatTTL \in Nat \ {0}
  BY TTLs DEF Sizes
<1>2. e \in {0, 1} /\ f \in {0, 1}
  OBVIOUS
<1>3. /\ (IF Expected(d) THEN 0 ELSE 1) = 1 - e
      /\ (IF Expected(d)' THEN 0 ELSE 1) = 1 - f
  OBVIOUS
<1>4. CASE presence'[d] = HeartbeatTTL
  <2>1. presence'[d] + Losses' + f >= HeartbeatTTL /\ presence'[d] # 0
    BY <1>1, <1>2, <1>4
  <2> QED
    BY <2>1 DEF Lasts
<1>5. CASE presence'[d] = presence[d] /\ (e = 1 /\ f = 0 => Losses' > Losses)
  <2>1. presence[d] = 0 => Age + (1 - e) <= Losses
    BY <1>3 DEF Lasts
  <2>2. presence[d] # 0 => presence[d] + Losses + e >= HeartbeatTTL
    BY DEF Lasts
  <2>3. presence[d] = 0 => Age' + (1 - f) <= Losses'
    <3>1. \A a, b, l, m \in Nat :
            a + (1 - e) <= l /\ b <= a /\ m >= l
              /\ (e = 1 /\ f = 0 => m > l)
            => b + (1 - f) <= m
      BY <1>2
    <3> QED
      BY <1>1, <1>5, <2>1, <3>1
  <2>4. presence[d] # 0 => presence'[d] + Losses' + f >= HeartbeatTTL
    BY <1>1, <1>2, <1>5, <2>2
  <2> QED
    BY <1>3, <1>5, <2>3, <2>4 DEF Lasts
<1> QED
  BY <1>4, <1>5

(* A period passes: every heartbeat of it was saved or lost.               *)
LEMMA LastsThroughTick ==
  ASSUME Sizes, Sizes', NEW d \in Deas, Lasts(d), MaxLosses + 1 < HeartbeatTTL,
         ~Expected(d), Expected(d)', Losses' = Losses, Age' <= Age + 1,
         presence'[d] = Less(presence[d])
  PROVE  Lasts(d)' /\ (presence[d] > 0 => presence'[d] > 0)
<1>1. /\ Losses \in Nat /\ Losses <= MaxLosses
      /\ Age \in Nat /\ Age' \in Nat
      /\ presence[d] \in Nat /\ presence'[d] \in Nat
      /\ HeartbeatTTL \in Nat \ {0} /\ MaxLosses \in Nat
  BY TTLs DEF Sizes
<1>2. CASE presence[d] = 0
  <2>1. Age + 1 <= Losses /\ presence'[d] = 0
    BY <1>2 DEF Lasts, Less
  <2>2. Age' + 0 <= Losses'
    <3>1. \A a, b, l \in Nat : a + 1 <= l /\ b <= a + 1 => b + 0 <= l
      OBVIOUS
    <3> QED
      BY <1>1, <2>1, <3>1
  <2> QED
    BY <1>2, <2>1, <2>2 DEF Lasts
<1>3. CASE presence[d] # 0
  <2>1. presence[d] + Losses >= HeartbeatTTL /\ presence'[d] = presence[d] - 1
    BY <1>1, <1>3 DEF Lasts, Less
  <2>2. presence[d] >= 2
    BY <1>1, <2>1
  <2>3. presence'[d] + Losses' + 1 >= HeartbeatTTL /\ presence'[d] > 0
    BY <1>1, <2>1, <2>2
  <2> QED
    BY <2>3 DEF Lasts
<1> QED
  BY <1>2, <1>3

(* What the listener does changes the losses by a call that fails.         *)
LEMMA ListenerLoses ==
  ASSUME ListenerActs
  PROVE  (Fault \/ NoFault) /\ UNCHANGED bounds
<1>1. UNCHANGED bounds
  BY DEF ListenerActs, environment
<1>2. CASE TakeHeartbeats \/ LoadBegins \/ LoadEnds \/ LoadFails
           \/ MergeHeartbeats \/ Saved \/ Posted
  BY <1>1, <1>2 DEF TakeHeartbeats, LoadBegins, BeginRead, LoadEnds, LoadFails,
              MergeHeartbeats, Saved, Posted, NoFault
<1>3. CASE SyncerReads
  BY <1>1, <1>3 DEF SyncerReads, Reading, ListActual, GetDeaCache, DeleteExpired,
              Handled, ReadFails, NoFault
<1>4. CASE DeleteGone \/ KeepEvacuations
  BY <1>1, <1>4 DEF DeleteGone, KeepEvacuations, Handled
<1>5. CASE \/ \E key \in Deas \cup Guids : SaveNode(key)
           \/ BumpReads \/ BumpWrites \/ RevokeActualFreshness
           \/ VerifyFreshness \/ \E g \in Guids : PostEvacuation(g)
  BY <1>1, <1>5 DEF SaveNode, BumpReads, BumpWrites, RevokeActualFreshness,
              VerifyFreshness, PostEvacuation
<1> QED
  BY <1>1, <1>2, <1>3, <1>4, <1>5 DEF ListenerActs, ListenerStep

(* What a step of a read does to the RealStore that reads.                 *)
LEMMA ListingHandle ==
  ASSUME handle \in [Stores -> Handle], NEW s \in Stores, ListActual(s)
  PROVE  /\ handle[s].read = "list"
         /\ handle'[s].read \in {"deas", "done"}
         /\ handle'[s].deaCache = handle[s].deaCache
         /\ handle'[s].deaCacheAge = handle[s].deaCacheAge
<1>1. PICK next \in {"deas", "done"} :
        handle' = [handle EXCEPT ![s].read = next, ![s].listed = stored]
  BY DEF ListActual
<1>2. handle[s] \in Handle
  OBVIOUS
<1>3. handle'[s] = [handle[s] EXCEPT !.read = next, !.listed = stored]
  BY <1>1
<1> QED
  BY <1>2, <1>3 DEF Handle, ListActual

LEMMA CachingHandle ==
  ASSUME handle \in [Stores -> Handle], NEW s \in Stores, GetDeaCache(s)
  PROVE  /\ handle[s].read = "deas"
         /\ handle'[s].read = "delete"
         /\ \/ /\ handle[s].deaCacheAge > HeartbeatPeriod
               /\ handle'[s].deaCache = Present
               /\ handle'[s].deaCacheAge = 0
            \/ /\ ~(handle[s].deaCacheAge > HeartbeatPeriod)
               /\ handle'[s].deaCache = handle[s].deaCache
               /\ handle'[s].deaCacheAge = handle[s].deaCacheAge
<1>1. handle[s] \in Handle
  OBVIOUS
<1>2. CASE handle[s].deaCacheAge > HeartbeatPeriod
  <2>1. handle'[s] = [handle[s] EXCEPT !.read = "delete",
                                       !.deaCache = Present, !.deaCacheAge = 0]
    BY <1>2 DEF GetDeaCache
  <2> QED
    BY <1>1, <1>2, <2>1 DEF Handle, GetDeaCache
<1>3. CASE ~(handle[s].deaCacheAge > HeartbeatPeriod)
  <2>1. handle'[s] = [handle[s] EXCEPT !.read = "delete"]
    BY <1>3 DEF GetDeaCache
  <2> QED
    BY <1>1, <1>3, <2>1 DEF Handle, GetDeaCache
<1> QED
  BY <1>2, <1>3

LEMMA DeletingHandle ==
  ASSUME handle \in [Stores -> Handle], NEW s \in Stores, DeleteExpired(s)
  PROVE  /\ handle[s].read = "delete"
         /\ \/ handle'[s].read = "done"
            \/ handle'[s].read = "failed" /\ Fault
         /\ handle'[s].deaCache = handle[s].deaCache
         /\ handle'[s].deaCacheAge = handle[s].deaCacheAge
<1> DEFINE next == IF faults' = faults THEN "done" ELSE "failed"
<1>1. handle[s] \in Handle
  OBVIOUS
<1>2. handle'[s] = [handle[s] EXCEPT !.read = next]
  BY DEF DeleteExpired
<1>3. faults' = faults \/ Fault
  <2>1. PICK deleted \in SUBSET Guids : Handled(ExpiredKeysOf(s), deleted)
    BY DEF DeleteExpired
  <2> QED
    BY <2>1 DEF Handled, NoFault
<1>4. handle[s].read = "delete"
  BY DEF DeleteExpired
<1> HIDE DEF next
<1>5. /\ handle'[s].read = next
      /\ handle'[s].deaCache = handle[s].deaCache
      /\ handle'[s].deaCacheAge = handle[s].deaCacheAge
  BY <1>1, <1>2 DEF Handle
<1> QED
  BY <1>3, <1>4, <1>5 DEF next

LEMMA FailingHandle ==
  ASSUME handle \in [Stores -> Handle], NEW s \in Stores, ReadFails(s)
  PROVE  /\ handle[s].read \in {"list", "deas"}
         /\ handle'[s].read = "failed" /\ Fault
         /\ handle'[s].deaCache = handle[s].deaCache
         /\ handle'[s].deaCacheAge = handle[s].deaCacheAge
<1>1. handle[s] \in Handle
  OBVIOUS
<1>2. handle'[s] = [handle[s] EXCEPT !.read = "failed"]
  BY DEF ReadFails
<1> QED
  BY <1>1, <1>2 DEF Handle, ReadFails

(* A heartbeat under way renews the presence of its DEA, or a call fails.  *)
LEMMA PendingIsSaved ==
  ASSUME TypeInv, OneAtATime, ListenerActs, NEW d \in Deas
  PROVE  \/ presence'[d] = HeartbeatTTL /\ SaveNode(d)
         \/ /\ presence'[d] = presence[d]
            /\ Pending(d) /\ ~Pending(d)' => Fault
<1> DEFINE G == \/ presence'[d] = HeartbeatTTL /\ SaveNode(d)
                \/ /\ presence'[d] = presence[d]
                   /\ Pending(d) /\ ~Pending(d)' => Fault
<1> SUFFICES G
  OBVIOUS
<1>1. nodesToSave = {} \/ syncer = "save"
  BY DEF OneAtATime
<1>2. ASSUME UNCHANGED <<presence, heartbeatsToSave>>,
             syncer \notin {"load", "merge"}, nodesToSave = {}
      PROVE  G
  BY <1>2 DEF Pending
<1>3. CASE TakeHeartbeats
  BY <1>3 DEF TakeHeartbeats, storeKeys, Pending, OneAtATime
<1>4. CASE LoadBegins
  <2>1. handle'[Syncer].read = "list"
    BY <1>4, ListenerAssumption
    DEF LoadBegins, BeginRead, TypeInv, TypeOK, ActualStateTypeOK, Handle
  <2> QED
    BY <1>4, <2>1 DEF LoadBegins, BeginRead, Pending, sync
<1>5. CASE SyncerReads
  <2>1. handle'[Syncer].read # "failed" \/ Fault
    <3>1. handle \in [Stores -> Handle] /\ Syncer \in Stores
      BY ListenerAssumption DEF TypeInv, TypeOK, ActualStateTypeOK
    <3>2. CASE ListActual(Syncer) \/ GetDeaCache(Syncer)
      BY <3>1, <3>2, ListingHandle, CachingHandle
    <3>3. CASE DeleteExpired(Syncer)
      BY <3>1, <3>3, DeletingHandle
    <3>4. CASE ReadFails(Syncer)
      BY <3>4 DEF ReadFails
    <3> QED
      BY <1>5, <3>2, <3>3, <3>4 DEF SyncerReads, Reading
  <2>2. presence' = presence
    BY <1>5 DEF SyncerReads, Reading, ListActual, GetDeaCache, DeleteExpired,
                ReadFails
  <2> QED
    BY <1>5, <2>1, <2>2 DEF SyncerReads, Pending, sync
<1>6. CASE LoadEnds \/ LoadFails
  BY <1>6 DEF LoadEnds, LoadFails, Pending, sync, storeKeys
<1>7. CASE MergeHeartbeats
  <2>1. batch.deas \subseteq nodesToSave'
    BY <1>7 DEF MergeHeartbeats, NodesToSave
  <2> QED
    BY <1>1, <1>7, <2>1 DEF MergeHeartbeats, storeKeys, Pending
<1>8. ASSUME NEW key \in Deas \cup Guids, SaveNode(key) PROVE G
  <2>1. CASE key = d
    BY <1>8, <2>1 DEF SaveNode, NodeWritten, TypeInv, TypeOK, ActualStateTypeOK
  <2>2. CASE key # d
    BY <1>8, <2>2
    DEF SaveNode, NodeWritten, Pending, TypeInv, TypeOK, ActualStateTypeOK
  <2> QED
    BY <2>1, <2>2
<1>9. CASE Saved \/ DeleteGone \/ BumpReads \/ BumpWrites
           \/ RevokeActualFreshness
  <2>1. /\ UNCHANGED <<presence, heartbeatsToSave>>
        /\ syncer \notin {"load", "merge"} /\ nodesToSave = {}
    BY <1>1, <1>9
    DEF Saved, DeleteGone, BumpReads, BumpWrites, RevokeActualFreshness, storeKeys
  <2> QED
    BY <1>2, <2>1
<1>10. CASE \/ VerifyFreshness \/ (\E g \in Guids : PostEvacuation(g))
            \/ Posted \/ KeepEvacuations
  <2>1. /\ UNCHANGED <<presence, heartbeatsToSave>>
        /\ syncer \notin {"load", "merge"} /\ nodesToSave = {}
    BY <1>1, <1>10
    DEF VerifyFreshness, PostEvacuation, Posted, KeepEvacuations, storeKeys
  <2> QED
    BY <1>2, <2>1
<1> QED
  BY <1>3, <1>4, <1>5, <1>6, <1>7, <1>8, <1>9, <1>10
  DEF ListenerActs, ListenerStep

(* The listener makes no timestamp older.                                  *)
LEMMA AgeDoesNotGrow ==
  ASSUME TypeInv, PresenceLasts, ListenerActs
  PROVE  Age' <= Age /\ (syncer' = "write" => oldAge' <= Age')
<1>1. /\ freshness.age \in Nat /\ freshness.left \in Nat /\ oldAge \in Nat
      /\ ActualFreshnessTTL \in Nat \ {0}
  BY ListenerAssumption DEF TypeInv, TypeOK, ListenerTypeOK
<1>2. CASE Aside
  BY <1>1, <1>2 DEF Aside, Age
<1>3. CASE BumpReads
  BY <1>1, <1>3 DEF BumpReads, storeKeys, Age
<1>4. CASE BumpWrites
  <2>1. syncer' # "write"
    BY <1>4, GoOnIsAside DEF BumpWrites
  <2>2. oldAge <= Age
    BY <1>4 DEF BumpWrites, PresenceLasts
  <2> QED
    BY <1>1, <1>4, <2>1, <2>2 DEF BumpWrites, Age
<1>5. CASE RevokeActualFreshness
  <2>1. syncer' # "write"
    BY <1>5, GoOnIsAside DEF RevokeActualFreshness
  <2> QED
    BY <1>1, <1>5, <2>1 DEF RevokeActualFreshness, NotThere, Age
<1> QED
  BY <1>2, <1>3, <1>4, <1>5, ListenerAside DEF ListenerActs

(* What the listener does to how long things last.                         *)
LEMMA ListenerLasts ==
  ASSUME TypeInv, Sizes, Sizes', OneAtATime, PresenceLasts, ListenerActs
  PROVE  PresenceLasts'
<1>1. Losses' >= Losses /\ (Fault => Losses' > Losses)
  <2>1. bounds.restarts \in Nat /\ faults \in Nat
    BY HeartbeatingAssumption, MaxFaultsAssumption DEF TypeInv, TypeOK, Bounds
  <2> QED
    BY <2>1, ListenerLoses DEF Losses, Fault, NoFault
<1>2. ASSUME NEW d \in Deas PROVE Lasts(d)'
  <2>1. beaten' = beaten
    BY DEF ListenerActs, environment
  <2>2. \/ presence'[d] = HeartbeatTTL
        \/ /\ presence'[d] = presence[d]
           /\ Expected(d) /\ ~Expected(d)' => Losses' > Losses
    BY <1>1, <2>1, PendingIsSaved DEF Expected
  <2>3. Lasts(d)
    BY DEF PresenceLasts
  <2> QED
    BY <1>1, <2>2, <2>3, AgeDoesNotGrow, LastsOn
<1> QED
  BY <1>2, AgeDoesNotGrow DEF PresenceLasts

(* What a reader leaves alone.                                             *)
LEMMA ReaderLeaves ==
  ASSUME TypeInv, NEW s \in Readers, ReaderActs(s)
  PROVE  /\ handle'[Syncer] = handle[Syncer]
         /\ UNCHANGED <<presence, bounds.restarts>>
         /\ Fault \/ NoFault
<1>1. s # Syncer /\ s \in Stores /\ Syncer \in Stores
  BY ListenerAssumption DEF Readers
<1>2. handle \in [Stores -> Handle]
  BY DEF TypeInv, TypeOK, ActualStateTypeOK
<1>3. bounds' = bounds \/ bounds' = [bounds EXCEPT !.changes = @ + 1]
  BY DEF ReaderActs, ReaderBegins, DumpBegins, ReaderReturns
<1>4. bounds'.restarts = bounds.restarts
  BY <1>3 DEF TypeInv, TypeOK, Bounds
<1>5. CASE BeginRead(s)
  BY <1>1, <1>2, <1>4, <1>5 DEF BeginRead, NoFault
<1>6. CASE ListActual(s) \/ GetDeaCache(s)
  BY <1>1, <1>2, <1>4, <1>6 DEF ListActual, GetDeaCache, NoFault
<1>7. CASE DeleteExpired(s)
  BY <1>1, <1>2, <1>4, <1>7 DEF DeleteExpired, Handled
<1>8. CASE ReadFails(s)
  BY <1>1, <1>2, <1>4, <1>8 DEF ReadFails
<1>9. CASE ReaderReturns(s)
  BY <1>1, <1>2, <1>4, <1>9 DEF ReaderReturns, AfterRead, NoFault
<1> QED
  BY <1>5, <1>6, <1>7, <1>8, <1>9
  DEF ReaderActs, ReaderBegins, DumpBegins, Reading

(* At the start everything lasts.                                          *)
LEMMA InitLasts ==
  ASSUME Init
  PROVE  PresenceLasts
<1>1. \A d \in Deas : Expected(d) /\ presence[d] = 0
  BY DEF Init, ActualStateInit, Expected
<1>2. Age = 0 /\ Losses = 0 /\ syncer = "wait"
  BY DEF Init, ListenerInit, NotThere, Age, Losses
<1> QED
  BY <1>1, <1>2 DEF PresenceLasts, Lasts

(* Every step keeps how long things last.                                  *)
LEMMA NextLasts ==
  ASSUME KeepsPace, TypeInv, Sizes, Sizes', OneAtATime, PresenceLasts,
         [Next]_vars
  PROVE  PresenceLasts'
<1>1. ASSUME UNCHANGED <<freshness, presence>>, Losses' >= Losses,
             syncer' = "write" => syncer = "write" /\ oldAge' = oldAge,
             \A d \in Deas : Expected(d) /\ ~Expected(d)' => Losses' > Losses
      PROVE  PresenceLasts'
  <2>1. Age' = Age /\ Age' <= Age
    BY <1>1 DEF Age, Sizes
  <2>2. ASSUME NEW d \in Deas PROVE Lasts(d)'
    BY <1>1, <2>1, LastsOn DEF PresenceLasts
  <2> QED
    BY <1>1, <2>1, <2>2 DEF PresenceLasts
<1>2. bounds.restarts \in Nat /\ faults \in Nat
  BY HeartbeatingAssumption, MaxFaultsAssumption DEF TypeInv, TypeOK, Bounds
<1>3. ASSUME UNCHANGED <<freshness, presence, syncer, oldAge, handle, batch,
                         nodesToSave>>,
             faults' = faults, bounds'.restarts = bounds.restarts,
             \A d \in Deas : d \notin beaten \/ d \in heartbeatsToSave.deas
               => d \notin beaten' \/ d \in heartbeatsToSave'.deas
      PROVE  PresenceLasts'
  <2>1. Losses' >= Losses
    BY <1>2, <1>3 DEF Losses
  <2>2. \A d \in Deas : Expected(d) => Expected(d)'
    BY <1>3 DEF Expected, Pending
  <2> QED
    BY <1>1, <1>3, <2>1, <2>2
<1>4. ASSUME NEW g \in Guids, InstanceChanges(g) PROVE PresenceLasts'
  <2>1. bounds'.restarts = bounds.restarts
    BY <1>4 DEF InstanceChanges, TypeInv, TypeOK
  <2> QED
    BY <1>3, <1>4, <2>1
    DEF InstanceChanges, ListenerUnchanged, storeKeys, sync
<1>5. ASSUME NEW d \in Deas, DeaComesBack(d) PROVE PresenceLasts'
  BY <1>3, <1>5 DEF DeaComesBack, ListenerUnchanged, storeKeys, sync
<1>6. ASSUME NEW d \in Deas, Beat(d) PROVE PresenceLasts'
  BY <1>3, <1>6 DEF Beat, Heartbeat, storeKeys, sync
<1>7. CASE Restart
  <2>1. Losses' = Losses + 1
    BY <1>2, <1>7 DEF Restart, ListenerRestarts, Losses, TypeInv, TypeOK
  <2>2. Losses' > Losses
    BY <2>1 DEF Sizes
  <2> QED
    BY <1>1, <1>7, <2>2 DEF Restart, ListenerRestarts, Waits, storeKeys, Sizes
<1>8. CASE Tick
  <2>1. /\ freshness.age \in 0..ActualFreshnessTTL /\ freshness.left \in Nat
        /\ ActualFreshnessTTL \in Nat
    BY ListenerAssumption DEF TypeInv, TypeOK, ListenerTypeOK
  <2>2. Age' <= Age + 1
    <3>1. CASE freshness.left <= 1
      BY <1>8, <2>1, <3>1 DEF Tick, NotThere, Age
    <3>2. CASE ~(freshness.left <= 1)
      <4>1. freshness' = [left |-> freshness.left - 1,
                          age |-> More(freshness.age, ActualFreshnessTTL)]
        BY <1>8, <3>2 DEF Tick
      <4>2. freshness'.age <= freshness.age + 1
        BY <2>1, <4>1 DEF More
      <4> QED
        BY <2>1, <3>2, <4>1, <4>2 DEF Age
    <3> QED
      BY <3>1, <3>2
  <2>3. syncer' = "wait" /\ Losses' = Losses
    BY <1>8, TickIsIdle DEF Losses
  <2>4. ASSUME NEW d \in Deas PROVE Lasts(d)'
    <3>1. ~Expected(d) /\ Expected(d)'
      BY <1>8, TickIsIdle DEF Expected
    <3>2. presence'[d] = Less(presence[d])
      BY <1>8 DEF Tick
    <3>3. MaxLosses + 1 < HeartbeatTTL
      BY TTLs DEF KeepsPace
    <3> QED
      BY <2>2, <2>3, <3>1, <3>2, <3>3, LastsThroughTick DEF PresenceLasts
  <2> QED
    BY <2>3, <2>4 DEF PresenceLasts
<1>9. ASSUME NEW s \in Readers, ReaderActs(s) PROVE PresenceLasts'
  <2>1. Losses' >= Losses
    BY <1>2, <1>9, ReaderLeaves DEF Losses, Fault, NoFault
  <2>2. /\ UNCHANGED <<freshness, syncer, heartbeatsToSave, batch, nodesToSave,
                       oldAge, beaten>>
        /\ handle'[Syncer] = handle[Syncer] /\ presence' = presence
    BY <1>9, ReaderLeaves DEF ReaderActs, sync
  <2>3. \A d \in Deas : Expected(d) => Expected(d)'
    BY <2>2 DEF Expected, Pending
  <2> QED
    BY <1>1, <2>1, <2>2, <2>3
<1>10. CASE UNCHANGED vars
  BY <1>3, <1>10 DEF vars, environment, storeKeys, sync
<1> QED
  BY <1>4, <1>5, <1>6, <1>7, <1>8, <1>9, <1>10, ListenerLasts, NoneSilent
  DEF Next, Environment

(* Presence is saved, runs out with time, and is left alone otherwise.     *)
LEMMA PresenceChanges ==
  ASSUME TypeInv, [Next]_vars
  PROVE  presence' = presence \/ syncer = "save" \/ Tick
<1>1. CASE ListenerActs
  BY <1>1 DEF ListenerActs, ListenerStep, TakeHeartbeats, LoadBegins, BeginRead,
     SyncerReads, Reading, ListActual, GetDeaCache, DeleteExpired, ReadFails,
     LoadEnds, LoadFails, MergeHeartbeats, SaveNode, Saved, DeleteGone,
     BumpReads, BumpWrites, RevokeActualFreshness, VerifyFreshness,
     PostEvacuation, Posted, KeepEvacuations, storeKeys
<1>2. CASE Environment
  BY <1>2 DEF Environment, InstanceChanges, DeaFallsSilent, DeaComesBack, Beat,
     Heartbeat, Restart, ListenerRestarts, ListenerUnchanged, storeKeys
<1>3. CASE UNCHANGED vars
  BY <1>3 DEF vars, storeKeys
<1> QED
  BY <1>1, <1>2, <1>3, ReaderLeaves DEF Next

(* A DEA that is present stays so, and another begins to be in a save.     *)
LEMMA PresentStays ==
  ASSUME KeepsPace, TypeInv, Sizes, Sizes', OneAtATime, PresenceLasts,
         [Next]_vars
  PROVE  Present \subseteq Present' /\ (syncer # "save" => Present' = Present)
<1>1. CASE presence' = presence
  BY <1>1 DEF Present
<1>2. CASE Tick
  <2>1. syncer = "wait" /\ Losses' = Losses
    BY <1>2, TickIsIdle DEF Losses
  <2>2. ASSUME NEW d \in Deas PROVE presence[d] > 0 <=> presence'[d] > 0
    <3>1. presence'[d] = Less(presence[d]) /\ Lasts(d) /\ ~Expected(d)
      BY <1>2, TickIsIdle DEF Tick, PresenceLasts, Expected
    <3>2. /\ Losses \in Nat /\ Losses <= MaxLosses /\ presence[d] \in Nat
          /\ HeartbeatTTL \in Nat \ {0} /\ MaxLosses \in Nat
          /\ MaxLosses + 1 < HeartbeatTTL
      BY TTLs DEF Sizes, KeepsPace
    <3>3. presence[d] > 0 => presence[d] + Losses >= HeartbeatTTL
      BY <3>1, <3>2 DEF Lasts
    <3>4. presence[d] > 0 => presence[d] >= 2
      BY <3>2, <3>3
    <3> QED
      BY <3>1, <3>2, <3>4 DEF Less
  <2> QED
    BY <2>1, <2>2 DEF Present
<1>3. CASE ListenerActs /\ syncer = "save"
  <2>1. ASSUME NEW d \in Deas, presence[d] > 0 PROVE presence'[d] > 0
    BY <1>3, <2>1, PendingIsSaved, TTLs
  <2> QED
    BY <1>3, <2>1 DEF Present
<1>4. ASSUME syncer = "save", ~ListenerActs, ~Tick PROVE presence' = presence
  <2>1. CASE Environment
    BY <1>4, <2>1
    DEF Environment, InstanceChanges, DeaFallsSilent, DeaComesBack, Beat,
        Heartbeat, Restart, ListenerRestarts, ListenerUnchanged, storeKeys
  <2>2. CASE UNCHANGED vars
    BY <2>2 DEF vars, storeKeys
  <2> QED
    BY <1>4, <2>1, <2>2, ReaderLeaves DEF Next
<1> QED
  BY <1>1, <1>2, <1>3, <1>4, PresenceChanges

(* A timestamp that is old enough for freshness leaves no room for losses  *)
(* that could have kept a DEA from being present.                          *)
LEMMA FreshMeansPresent ==
  ASSUME KeepsPace, Sizes, PresenceLasts, IsActualStateFresh
  PROVE  Present = Deas
<1>1. Age > MaxLosses
  <2>1. Age >= ActualFreshnessTTL
    BY DEF IsActualStateFresh, Age
  <2> QED
    BY <2>1, TTLs DEF Sizes, KeepsPace
<1>2. ASSUME NEW d \in Deas PROVE presence[d] > 0
  <2>1. /\ Age \in Nat /\ Losses \in Nat /\ Losses <= MaxLosses
        /\ MaxLosses \in Nat /\ presence[d] \in Nat
    BY TTLs DEF Sizes
  <2>2. presence[d] = 0 =>
          Age + (IF Expected(d) THEN 0 ELSE 1) <= Losses
    BY DEF PresenceLasts, Lasts
  <2> QED
    BY <1>1, <2>1, <2>2
<1> QED
  BY <1>2 DEF Present

(* A reader reads a fresh state, with a cache that has all DEAs.           *)
LEMMA ReaderStaysComplete ==
  ASSUME KeepsPace, TypeInv, Sizes, Sizes', OneAtATime, PresenceLasts,
         [Next]_vars, NEW s \in Readers, ReaderComplete(s)
  PROVE  ReaderComplete(s)'
<1>1. Present \subseteq Deas /\ Present' \subseteq Deas
  BY DEF Present
<1>2. /\ Present = Deas => Present' = Deas
      /\ presence' = presence => Present' = Present
  BY <1>1, PresentStays DEF Present
<1>3. /\ handle \in [Stores -> Handle] /\ s \in Stores /\ s # Syncer
      /\ HeartbeatPeriod \in Nat
  BY DeasAssumption DEF Readers, TypeInv, TypeOK, ActualStateTypeOK
<1>4. handle[s].deaCacheAge \in 0..HeartbeatPeriod + 1
  BY <1>3 DEF Handle
<1>5. ASSUME handle'[s] = handle[s] PROVE ReaderComplete(s)'
  BY <1>2, <1>5 DEF ReaderComplete
<1>6. CASE ListenerActs
  <2>1. handle'[s] = handle[s]
    BY <1>3, <1>6 DEF ListenerActs, ListenerStep, TakeHeartbeats, LoadBegins,
       BeginRead, SyncerReads, Reading, ListActual, GetDeaCache, DeleteExpired,
       ReadFails, LoadEnds, LoadFails, AfterRead, MergeHeartbeats, SaveNode,
       Saved, DeleteGone, BumpReads, BumpWrites, RevokeActualFreshness,
       VerifyFreshness, PostEvacuation, Posted, KeepEvacuations
  <2> QED
    BY <1>5, <2>1
<1>7. CASE Environment /\ ~Tick
  <2>1. handle'[s] = handle[s]
    BY <1>3, <1>7 DEF Environment, InstanceChanges, DeaFallsSilent,
       DeaComesBack, Beat, Heartbeat, Restart, ListenerRestarts,
       ListenerUnchanged
  <2> QED
    BY <1>5, <2>1
<1>8. CASE Tick
  <2>1. /\ handle'[s].deaCache = handle[s].deaCache
        /\ handle'[s].deaCacheAge
             = More(handle[s].deaCacheAge, HeartbeatPeriod + 1)
    BY <1>3, <1>8 DEF Tick, Handle
  <2>2. handle'[s].deaCacheAge <= HeartbeatPeriod
          => handle[s].deaCacheAge <= HeartbeatPeriod
    BY <1>3, <1>4, <2>1 DEF More
  <2>3. handle'[s].read = "idle"
    BY <1>3, <1>8, TickIsIdle
  <2> QED
    BY <2>1, <2>2, <2>3 DEF ReaderComplete
<1>9. ASSUME NEW r \in Readers \ {s}, ReaderActs(r) PROVE ReaderComplete(s)'
  <2>1. handle'[s] = handle[s]
    BY <1>3, <1>9 DEF Readers, ReaderActs, ReaderBegins, DumpBegins, BeginRead,
       Reading, ListActual, GetDeaCache, DeleteExpired, ReadFails,
       ReaderReturns, AfterRead, NewRealStore
  <2> QED
    BY <1>5, <2>1
<1>10. CASE ReaderActs(s)
  <2>1. presence' = presence
    BY <1>10, ReaderLeaves
  <2>2. CASE ReaderBegins(s)
    <3>1. Present' = Deas
      BY <1>2, <2>2, FreshMeansPresent DEF ReaderBegins
    <3>2. handle'[s] = [handle[s] EXCEPT !.read = "list"]
      BY <1>3, <2>2 DEF ReaderBegins, BeginRead
    <3> QED
      BY <1>3, <3>1, <3>2 DEF ReaderComplete, Handle
  <2>3. CASE ListActual(s) \/ ReadFails(s)
    <3>1. /\ handle'[s].deaCache = handle[s].deaCache
          /\ handle'[s].deaCacheAge = handle[s].deaCacheAge
          /\ handle'[s].read \in {"deas", "done", "failed"}
          /\ handle[s].read # "idle"
      BY <1>3, <2>3, ListingHandle, FailingHandle
    <3> QED
      BY <1>2, <3>1 DEF ReaderComplete
  <2>4. CASE GetDeaCache(s)
    <3>1. /\ handle[s].read # "idle"
          /\ \/ /\ handle[s].deaCacheAge > HeartbeatPeriod
                /\ handle'[s].deaCache = Present
                /\ handle'[s].deaCacheAge = 0
             \/ /\ ~(handle[s].deaCacheAge > HeartbeatPeriod)
                /\ handle'[s].deaCache = handle[s].deaCache
                /\ handle'[s].deaCacheAge = handle[s].deaCacheAge
      BY <1>3, <2>4, CachingHandle
    <3> QED
      BY <1>2, <1>3, <1>4, <3>1 DEF ReaderComplete
  <2>5. CASE DeleteExpired(s)
    <3>1. /\ handle'[s].deaCache = handle[s].deaCache
          /\ handle'[s].deaCacheAge = handle[s].deaCacheAge
          /\ handle'[s].read \in {"done", "failed"}
          /\ handle[s].read # "idle"
      BY <1>3, <2>5, DeletingHandle
    <3> QED
      BY <1>2, <3>1 DEF ReaderComplete
  <2>6. CASE ReaderReturns(s)
    <3>1. s \notin Dumpers
      BY DEF KeepsPace
    <3>2. /\ handle'[s].deaCache = handle[s].deaCache
          /\ handle'[s].deaCacheAge = handle[s].deaCacheAge
          /\ handle'[s].read = "idle"
      BY <1>3, <2>6, <3>1 DEF ReaderReturns, AfterRead, Handle
    <3> QED
      BY <3>2 DEF ReaderComplete
  <2>7. ~DumpBegins(s)
    BY DEF KeepsPace, DumpBegins
  <2> QED
    BY <1>10, <2>2, <2>3, <2>4, <2>5, <2>6, <2>7 DEF ReaderActs, Reading
<1>11. CASE UNCHANGED vars
  BY <1>5, <1>11 DEF vars
<1> QED
  BY <1>6, <1>7, <1>8, <1>9, <1>10, <1>11 DEF Next

(* The listener loads its cache with a cache of DEAs that lacks none: it   *)
(* is new, or no DEA has been saved since it was.                          *)
LEMMA ListenerStaysComplete ==
  ASSUME KeepsPace, TypeInv, Sizes, Sizes', OneAtATime, PresenceLasts,
         [Next]_vars, ListenerComplete
  PROVE  ListenerComplete'
<1>1. /\ handle \in [Stores -> Handle] /\ Syncer \in Stores
      /\ HeartbeatPeriod \in Nat /\ CacheRefreshInterval \in Nat
      /\ cacheAge \in 0..CacheRefreshInterval
      /\ CacheRefreshInterval > HeartbeatPeriod
  BY ListenerAssumption, DeasAssumption
  DEF KeepsPace, TypeInv, TypeOK, ActualStateTypeOK, ListenerTypeOK
<1>2. handle[Syncer].deaCacheAge \in 0..HeartbeatPeriod + 1
  BY <1>1 DEF Handle
<1>3. /\ handle[Syncer].read # "idle" => syncer = "load"
      /\ syncer = "load" => cacheAge = CacheRefreshInterval
      /\ elapsed = 0
  BY DEF OneAtATime
<1>4. syncer # "save" => Present' = Present
  BY PresentStays
<1>5. ASSUME handle'[Syncer].deaCacheAge = handle[Syncer].deaCacheAge,
             handle'[Syncer].deaCache = handle[Syncer].deaCache,
             handle'[Syncer].read \in {"idle", handle[Syncer].read},
             cacheAge' = cacheAge,
             syncer \notin {"merge", "save"}
               => \/ syncer' \notin {"merge", "save"}
                  \/ cacheAge < CacheRefreshInterval
      PROVE  ListenerComplete'
  <2>1. syncer = "save" => handle'[Syncer].read = "idle"
    BY <1>3, <1>5
  <2> QED
    BY <1>1, <1>3, <1>4, <1>5, <2>1 DEF ListenerComplete
<1>6. ASSUME UNCHANGED <<handle, cacheAge, syncer>> PROVE ListenerComplete'
  BY <1>5, <1>6
<1>7. CASE ListenerActs
  <2>1. CASE TakeHeartbeats
    <3>1. syncer' \notin {"merge", "save"} \/ cacheAge < CacheRefreshInterval
      BY <1>1, <2>1 DEF TakeHeartbeats, RefreshDue
    <3> QED
      BY <1>5, <2>1, <3>1 DEF TakeHeartbeats, caches
  <2>2. CASE LoadBegins
    <3>1. /\ handle'[Syncer].read = "list"
          /\ handle'[Syncer].deaCache = handle[Syncer].deaCache
          /\ handle'[Syncer].deaCacheAge = handle[Syncer].deaCacheAge
          /\ UNCHANGED <<cacheAge, syncer>> /\ syncer = "load"
      BY <1>1, <2>2 DEF LoadBegins, BeginRead, Handle, caches
    <3> QED
      BY <1>4, <3>1 DEF ListenerComplete
  <2>3. CASE SyncerReads
    <3>1. UNCHANGED <<cacheAge, syncer>> /\ syncer = "load"
          /\ cacheAge = CacheRefreshInterval /\ Present' = Present
      BY <1>3, <1>4, <2>3 DEF SyncerReads, caches
    <3>2. CASE ListActual(Syncer) \/ ReadFails(Syncer) \/ DeleteExpired(Syncer)
      <4>1. /\ handle'[Syncer].read # "delete"
            /\ handle'[Syncer].deaCache = handle[Syncer].deaCache
            /\ handle'[Syncer].deaCacheAge = handle[Syncer].deaCacheAge
        BY <1>1, <3>2, ListingHandle, FailingHandle, DeletingHandle
      <4> QED
        BY <3>1, <4>1 DEF ListenerComplete
    <3>3. CASE GetDeaCache(Syncer)
      <4>1. \/ /\ handle[Syncer].deaCacheAge > HeartbeatPeriod
               /\ handle'[Syncer].deaCache = Present
            \/ /\ ~(handle[Syncer].deaCacheAge > HeartbeatPeriod)
               /\ handle'[Syncer].deaCache = handle[Syncer].deaCache
        BY <1>1, <3>3, CachingHandle
      <4>2. Present \subseteq handle'[Syncer].deaCache
        BY <1>1, <1>2, <3>1, <4>1 DEF ListenerComplete
      <4> QED
        BY <3>1, <4>2 DEF ListenerComplete
    <3> QED
      BY <2>3, <3>2, <3>3 DEF SyncerReads, Reading
  <2>4. CASE LoadEnds
    <3>1. /\ handle'[Syncer].read = "idle"
          /\ handle'[Syncer].deaCacheAge = handle[Syncer].deaCacheAge
          /\ cacheAge' = 0
      BY <1>1, <1>3, <2>4 DEF LoadEnds, AfterRead, Handle
    <3> QED
      BY <1>2, <3>1 DEF ListenerComplete
  <2>5. CASE LoadFails
    <3>1. /\ handle'[Syncer].read = "idle"
          /\ handle'[Syncer].deaCache = handle[Syncer].deaCache
          /\ handle'[Syncer].deaCacheAge = handle[Syncer].deaCacheAge
          /\ UNCHANGED cacheAge /\ syncer' = "revoke"
      BY <1>1, <2>5 DEF LoadFails, AfterRead, Handle, caches
    <3> QED
      BY <1>5, <3>1
  <2>6. CASE MergeHeartbeats \/ \E key \in Deas \cup Guids : SaveNode(key)
    BY <1>5, <2>6 DEF MergeHeartbeats, SaveNode, caches
  <2>7. CASE \/ Saved \/ DeleteGone \/ BumpReads \/ BumpWrites
             \/ RevokeActualFreshness \/ VerifyFreshness
             \/ (\E g \in Guids : PostEvacuation(g))
             \/ Posted \/ KeepEvacuations
    <3>1. /\ UNCHANGED <<handle, cacheAge>>
          /\ syncer' \notin {"merge", "save"}
      BY <2>7
      DEF Saved, DeleteGone, BumpReads, BumpWrites, RevokeActualFreshness,
          VerifyFreshness, PostEvacuation, Posted, KeepEvacuations, GoOn, Waits,
          caches
    <3> QED
      BY <1>5, <3>1
  <2> QED
    BY <1>7, <2>1, <2>2, <2>3, <2>4, <2>5, <2>6, <2>7
    DEF ListenerActs, ListenerStep
<1>8. CASE Environment /\ ~Restart /\ ~Tick
  BY <1>6, <1>8
  DEF Environment, InstanceChanges, DeaFallsSilent, DeaComesBack, Beat,
      Heartbeat, ListenerUnchanged, caches
<1>9. CASE Restart
  BY <1>1, <1>9
  DEF Restart, ListenerRestarts, NewRealStore, ListenerComplete
<1>10. CASE Tick
  <2>1. /\ handle'[Syncer].read = "idle"
        /\ handle'[Syncer].deaCache = handle[Syncer].deaCache
        /\ handle'[Syncer].deaCacheAge
             = More(handle[Syncer].deaCacheAge, HeartbeatPeriod + 1)
        /\ cacheAge' = More(cacheAge, CacheRefreshInterval)
        /\ syncer = "wait" /\ syncer' = "wait"
    BY <1>1, <1>10, TickIsIdle DEF Tick, Handle
  <2>2. CASE handle[Syncer].deaCacheAge > HeartbeatPeriod
    <3>1. handle'[Syncer].deaCacheAge > HeartbeatPeriod
      BY <1>1, <1>2, <2>1, <2>2 DEF More
    <3> QED
      BY <2>1, <3>1 DEF ListenerComplete
  <2>3. CASE /\ ~(handle[Syncer].deaCacheAge > HeartbeatPeriod)
             /\ cacheAge <= handle[Syncer].deaCacheAge
    <3>1. cacheAge' <= handle'[Syncer].deaCacheAge
      BY <1>1, <1>2, <2>1, <2>3 DEF More
    <3> QED
      BY <2>1, <3>1 DEF ListenerComplete
  <2>4. CASE /\ Present \subseteq handle[Syncer].deaCache
             /\ cacheAge = CacheRefreshInterval
    <3>1. cacheAge' = CacheRefreshInterval
      BY <2>1, <2>4 DEF More
    <3> QED
      BY <1>4, <2>1, <2>4, <3>1 DEF ListenerComplete
  <2> QED
    BY <2>2, <2>3, <2>4 DEF ListenerComplete
<1>11. ASSUME NEW s \in Readers, ReaderActs(s) PROVE ListenerComplete'
  BY <1>5, <1>11, ReaderLeaves DEF ReaderActs, caches
<1>12. CASE UNCHANGED vars
  BY <1>6, <1>12 DEF vars, caches
<1> QED
  BY <1>7, <1>8, <1>9, <1>10, <1>11, <1>12 DEF Next

(* At the start no presence is missing.                                    *)
LEMMA InitPresenceInv ==
  ASSUME KeepsPace, Init
  PROVE  TypeInv /\ PresenceInv
<1>1. \A s \in Stores : handle[s].read = "idle"
        /\ handle[s].deaCacheAge > HeartbeatPeriod
        /\ ~(handle[s].deaCacheAge <= HeartbeatPeriod)
  BY DeasAssumption DEF Init, ActualStateInit, NewRealStore
<1>2. CachesAreComplete
  BY <1>1, ListenerAssumption
  DEF CachesAreComplete, ListenerComplete, ReaderComplete, Readers
<1> QED
  BY <1>2, InitTypeInv, InitOneAtATime, InitLasts DEF PresenceInv

(* Every step keeps the invariant.                                         *)
LEMMA NextPresenceInv ==
  ASSUME KeepsPace, TypeInv, PresenceInv, [Next]_vars
  PROVE  TypeInv' /\ PresenceInv'
<1>1. TypeInv'
  BY NextTypeInv
<1>2. TypeInv' => Sizes'
  BY SizesOK, PTL
<1>3. Sizes /\ Sizes'
  BY <1>1, <1>2, SizesOK
<1>4. OneAtATime' /\ PresenceLasts'
  BY <1>3, NextOneAtATime, NextLasts DEF PresenceInv
<1>5. CachesAreComplete'
  BY <1>3, ReaderStaysComplete, ListenerStaysComplete
  DEF PresenceInv, CachesAreComplete
<1> QED
  BY <1>1, <1>4, <1>5 DEF PresenceInv

(* A read deletes nothing of a DEA that is present.                        *)
LEMMA ReadsKeepPresent ==
  ASSUME TypeInv, CachesAreComplete, NEW s \in Stores, DeleteExpired(s),
         NEW g \in Guids, stored[g] # NoHeartbeat, presence[DeaOf[g]] > 0
  PROVE  stored'[g] # NoHeartbeat
<1>1. handle[s].read = "delete" /\ DeaOf[g] \in Present
  BY DeasAssumption DEF DeleteExpired, Present
<1>2. DeaOf[g] \in handle[s].deaCache
  BY <1>1, DeasAssumption
  DEF CachesAreComplete, ListenerComplete, ReaderComplete, Readers
<1>3. g \notin ExpiredKeysOf(s)
  BY <1>2 DEF ExpiredKeysOf
<1> QED
  BY <1>3 DEF DeleteExpired, Handled

(* No other step that goes on with a read, or ends one, writes instances.  *)
LEMMA OnlyReadsDelete ==
  ASSUME [Next]_vars, handle' # handle
  PROVE  stored' = stored \/ \E s \in Stores : DeleteExpired(s)
<1>1. CASE ListenerActs
  BY <1>1, ListenerAssumption
  DEF ListenerActs, ListenerStep, TakeHeartbeats, LoadBegins, BeginRead,
      SyncerReads, Reading, ListActual, GetDeaCache, ReadFails, LoadEnds,
      LoadFails, MergeHeartbeats, SaveNode, Saved, DeleteGone, BumpReads,
      BumpWrites, RevokeActualFreshness, VerifyFreshness, PostEvacuation,
      Posted, KeepEvacuations, storeKeys
<1>2. CASE Environment
  BY <1>2
  DEF Environment, InstanceChanges, DeaFallsSilent, DeaComesBack, Beat,
      Heartbeat, Restart, ListenerRestarts, Tick, ListenerUnchanged, storeKeys
<1>3. ASSUME NEW s \in Readers, ReaderActs(s)
      PROVE  stored' = stored \/ DeleteExpired(s)
  BY <1>3
  DEF ReaderActs, ReaderBegins, DumpBegins, BeginRead, Reading, ListActual,
      GetDeaCache, ReadFails, ReaderReturns
<1> QED
  BY <1>1, <1>2, <1>3 DEF Next, Readers, vars

(* PresentDeasAreKept: while processes keep pace and no DEA falls silent,  *)
(* no read deletes an instance of a DEA that is present, whatever the      *)
(* calls that fail, as long as they are fewer than the heartbeats a TTL    *)
(* lasts.  A reader finds all DEAs, because what is fresh is complete; the *)
(* listener, whose cache of DEAs may be older, reads them anew whenever it *)
(* has saved one.                                                          *)
THEOREM PresentDeasStay ==
  ASSUME KeepsPace
  PROVE  Spec => PresentDeasAreKept
<1> DEFINE Inv == TypeInv /\ PresenceInv
           Keep == \A g \in Guids :
             (/\ stored[g] # NoHeartbeat /\ presence[DeaOf[g]] > 0
              /\ \E s \in Stores : handle[s].read = "delete"
                                   /\ handle'[s] # handle[s])
             => stored'[g] # NoHeartbeat
<1>1. Init => Inv
  BY InitPresenceInv
<1>2. Inv /\ [Next]_vars => Inv'
  BY NextPresenceInv
<1>3. Inv /\ [Next]_vars => [Keep]_vars
  <2> SUFFICES ASSUME Inv, [Next]_vars, NEW g \in Guids,
                      stored[g] # NoHeartbeat, presence[DeaOf[g]] > 0,
                      NEW s \in Stores, handle'[s] # handle[s]
               PROVE  stored'[g] # NoHeartbeat
    OBVIOUS
  <2>1. stored' = stored \/ \E r \in Stores : DeleteExpired(r)
    BY OnlyReadsDelete
  <2> QED
    BY <2>1, ReadsKeepPresent DEF PresenceInv
<1> QED
  BY <1>1, <1>2, <1>3, PTL DEF Spec, PresentDeasAreKept

---------------------------------------------------------------------------
(* With no call that fails: what a sync saves.                             *)

NothingFails == KeepsPace /\ MaxFaults = 0

(* When no failure is allowed none happens.                                *)
LEMMA NoFaults ==
  ASSUME NothingFails, TypeInv
  PROVE  ~Fault
  BY DEF NothingFails, TypeInv, TypeOK, Fault

(* What comes after the deletions of a sync, but for a start that is sent. *)
Rests ==
  /\ syncer \in {"bump", "write", "revoke", "verify", "post", "keep"}
  /\ syncer' \in {"wait", "write", "verify", "post", "keep"}
  /\ UNCHANGED <<stored, presence, handle, heartbeatsToSave, cache, cacheAge,
                 startsPosted, faults>>
  /\ \/ UNCHANGED <<batch, nodesToSave, saveFailed, keysToDelete, toEvacuate>>
        /\ syncer' # "wait"
     \/ Waits

(* What a listener that rests holds.                                       *)
LEMMA ListenerRests ==
  ASSUME ~Fault,
         \/ BumpReads \/ BumpWrites \/ RevokeActualFreshness
         \/ VerifyFreshness \/ Posted \/ KeepEvacuations
  PROVE  Rests
<1>1. CASE BumpReads
  BY <1>1 DEF BumpReads, Rests, NoFault, storeKeys, caches, history
<1>2. CASE BumpWrites \/ RevokeActualFreshness
  BY <1>2 DEF BumpWrites, RevokeActualFreshness, GoOn, Waits, Rests, NoFault,
              sync, caches, history
<1>3. CASE VerifyFreshness
  BY <1>3 DEF VerifyFreshness, Waits, Rests, NoFault, storeKeys, sync, caches,
              history
<1>4. CASE Posted
  BY <1>4 DEF Posted, Rests, storeKeys, sync, caches, history
<1>5. CASE KeepEvacuations
  BY <1>5 DEF KeepEvacuations, Handled, Waits, Rests, NoFault, caches
<1> QED
  BY <1>1, <1>2, <1>3, <1>4, <1>5

(* What the listener deletes, and sends.                                   *)
LEMMA DeletesAll ==
  ASSUME ~Fault, DeleteGone
  PROVE  /\ stored' = [g \in Guids |-> IF g \in keysToDelete THEN NoHeartbeat
                                      ELSE stored[g]]
         /\ UNCHANGED <<presence, handle, heartbeatsToSave, cache, cacheAge,
                        startsPosted>>
         /\ \/ syncer' \in {"bump", "verify"}
              /\ UNCHANGED <<batch, nodesToSave, saveFailed, keysToDelete,
                             toEvacuate>>
            \/ Waits
  BY DEF DeleteGone, Handled, NoFault, GoOn, sync, history, caches

(* What the save of one node does.                                         *)
LEMMA SavesNode ==
  ASSUME ~Fault, NEW key \in Deas \cup Guids, SaveNode(key)
  PROVE  /\ NodeWritten(key) /\ syncer = "save" /\ syncer' = "save"
         /\ key \in nodesToSave /\ nodesToSave' = nodesToSave \ {key}
         /\ UNCHANGED <<handle, heartbeatsToSave, batch, saveFailed,
                        keysToDelete, toEvacuate, cache, cacheAge,
                        startsPosted>>
  BY DEF SaveNode, caches, history

(* A reader deletes nothing: it has all DEAs in its cache.                 *)
LEMMA ReaderKeepsStored ==
  ASSUME TypeInv, CachesAreComplete, NEW s \in Readers,
         ReaderActs(s)
  PROVE  stored' = stored
<1>1. CASE DeleteExpired(s)
  <2>1. handle[s].deaCache = Deas
    BY <1>1 DEF DeleteExpired, CachesAreComplete, ReaderComplete
  <2>2. ExpiredKeysOf(s) = {}
    BY <2>1, DeasAssumption DEF ExpiredKeysOf
  <2>3. stored \in [Guids -> State \cup {NoHeartbeat}]
    BY DEF TypeInv, TypeOK, ActualStateTypeOK, Heartbeats
  <2> QED
    BY <1>1, <2>2, <2>3 DEF DeleteExpired, Handled
<1> QED
  BY <1>1
  DEF ReaderActs, ReaderBegins, DumpBegins, BeginRead, Reading, ListActual,
      GetDeaCache, ReadFails, ReaderReturns

(* The listener deletes nothing of a DEA that is present when it reads,    *)
(* and its read never fails.                                               *)
LEMMA SyncerKeepsPresent ==
  ASSUME TypeInv, CachesAreComplete, SyncerReads,
         NEW g \in Guids, presence[DeaOf[g]] > 0
  PROVE  stored'[g] = stored[g]
<1>1. CASE DeleteExpired(Syncer)
  <2>1. DeaOf[g] \in handle[Syncer].deaCache
    BY <1>1, DeasAssumption
    DEF DeleteExpired, CachesAreComplete, ListenerComplete, Present
  <2>2. g \notin ExpiredKeysOf(Syncer)
    BY <2>1 DEF ExpiredKeysOf
  <2> QED
    BY <1>1, <2>2 DEF DeleteExpired, Handled
<1> QED
  BY <1>1 DEF SyncerReads, Reading, ListActual, GetDeaCache, ReadFails

(* The listener hears nothing but from a DEA.                              *)
LEMMA ListenerHeard ==
  ASSUME ListenerActs
  PROVE  \A g \in Guids : \A state : Heard(g, state)' => Heard(g, state)
<1>1. ASSUME UNCHANGED heartbeatsToSave, batch' = batch \/ Waits
      PROVE  \A g \in Guids : \A state : Heard(g, state)' => Heard(g, state)
  BY <1>1 DEF Waits, NoReport, Heard
<1>2. CASE TakeHeartbeats
  BY <1>2 DEF TakeHeartbeats, NoReport, Heard
<1>3. CASE ~TakeHeartbeats
  <2>1. UNCHANGED heartbeatsToSave /\ (batch' = batch \/ Waits)
    BY <1>3
    DEF ListenerActs, ListenerStep, LoadBegins, SyncerReads, LoadEnds, LoadFails,
        MergeHeartbeats, SaveNode, Saved, DeleteGone, BumpReads, BumpWrites,
        RevokeActualFreshness, VerifyFreshness, PostEvacuation, Posted,
        KeepEvacuations, GoOn, sync
  <2> QED
    BY <1>1, <2>1
<1> QED
  BY <1>2, <1>3

(* A heartbeat is heard when its DEA beats, which it does once in a period.*)
LEMMA BeatIsHeard ==
  ASSUME TypeInv, OneAtATime, NEW d \in Deas, Beat(d)
  PROVE  /\ \A g \in Guids : \A state :
              Heard(g, state)' <=> IF DeaOf[g] = d THEN Reports[g] = state
                                  ELSE Heard(g, state)
         /\ d \notin heartbeatsToSave.deas \cup batch.deas
         /\ heartbeatsToSave'.deas = heartbeatsToSave.deas \cup {d}
<1>1. d \notin heartbeatsToSave.deas \cup batch.deas
  BY DEF Beat, OneAtATime
<1>2. /\ batch' = batch
      /\ heartbeatsToSave'.deas = heartbeatsToSave.deas \cup {d}
      /\ \A g \in Guids : heartbeatsToSave'.states[g]
            = IF DeaOf[g] = d THEN Reports[g] ELSE heartbeatsToSave.states[g]
  BY DEF Beat, Heartbeat, sync
<1> QED
  BY <1>1, <1>2 DEF Heard

(* A step that nobody hears of.                                            *)
LEMMA OthersHeard ==
  ASSUME TypeInv, OneAtATime, KeepsPace,
         \/ \E g \in Guids : InstanceChanges(g)
         \/ \E d \in Deas : DeaComesBack(d)
         \/ Restart \/ Tick \/ \E s \in Readers : ReaderActs(s)
         \/ UNCHANGED vars
  PROVE  \A g \in Guids : \A state : Heard(g, state)' => Heard(g, state)
<1>1. ASSUME UNCHANGED <<heartbeatsToSave, batch>>
      PROVE  \A g \in Guids : \A state : Heard(g, state)' => Heard(g, state)
  BY <1>1 DEF Heard
<1>2. CASE Restart
  BY <1>2 DEF Restart, ListenerRestarts, Waits, NoReport, Heard
<1>3. CASE ~Restart
  BY <1>1, <1>3
  DEF InstanceChanges, DeaComesBack, ListenerUnchanged, Tick, ReaderActs, vars,
      sync
<1> QED
  BY <1>2, <1>3

(* Every step keeps reports true.                                          *)
LEMMA NextReportsAreTrue ==
  ASSUME KeepsPace, TypeInv, OneAtATime, ReportsAreTrue, [Next]_vars
  PROVE  ReportsAreTrue'
<1>1. ASSUME \A g \in Guids : \A state : Heard(g, state)' => Heard(g, state),
             UNCHANGED <<instances, steadyFor>>
      PROVE  ReportsAreTrue'
  BY <1>1 DEF ReportsAreTrue
<1>2. /\ NoHeartbeat \notin State /\ Gone \notin State /\ Gone # NoHeartbeat
      /\ Gone # "EVACUATING" /\ NoHeartbeat # "EVACUATING"
  BY DEF NoHeartbeat, Gone, State
<1>3. /\ instances \in [Guids -> State \cup {NoHeartbeat, Gone}]
      /\ steadyFor \in [Guids -> 0..ActualFreshnessTTL + 1]
  BY DEF TypeInv, TypeOK
<1>4. CASE ListenerActs
  BY <1>1, <1>4, ListenerHeard DEF ListenerActs, environment
<1>5. ASSUME NEW h \in Guids, InstanceChanges(h) PROVE ReportsAreTrue'
  <2>1. PICK state \in Follows(instances[h]) :
          /\ instances' = [instances EXCEPT ![h] = state]
          /\ steadyFor' = [steadyFor EXCEPT ![h] = IF state = Gone THEN 0 ELSE @]
    BY <1>5 DEF InstanceChanges
  <2>2. /\ state # NoHeartbeat
        /\ instances[h] \in {"EVACUATING", Gone} => state = Gone
    BY <2>1 DEF Follows, Gone, NoHeartbeat
  <2>3. \A g \in Guids : \A st : Heard(g, st)' => Heard(g, st)
    BY <1>5, OthersHeard
  <2> QED
    BY <1>2, <1>3, <2>1, <2>2, <2>3 DEF ReportsAreTrue
<1>6. ASSUME NEW d \in Deas, Beat(d) PROVE ReportsAreTrue'
  <2>1. instances' = instances
    BY <1>6 DEF Beat
  <2>2. ASSUME NEW g \in Guids, DeaOf[g] = d
        PROVE  /\ instances[g] \in {NoHeartbeat, Gone} => steadyFor'[g] = 0
               /\ Heard(g, NoHeartbeat)' => steadyFor'[g] = 0
               /\ Heard(g, "EVACUATING")' => instances[g] \in {"EVACUATING", Gone}
    <3>1. \A state : Heard(g, state)' <=> Reports[g] = state
      BY <1>6, <2>2, BeatIsHeard
    <3>2. Reports[g] = IF instances[g] = Gone THEN NoHeartbeat ELSE instances[g]
      BY DEF Reports
    <3>3. Reports[g] = NoHeartbeat => steadyFor'[g] = steadyFor[g]
      BY <1>3, <1>6 DEF Beat
    <3> QED
      BY <1>2, <3>1, <3>2, <3>3 DEF ReportsAreTrue
  <2>3. ASSUME NEW g \in Guids, DeaOf[g] # d
        PROVE  /\ steadyFor'[g] = steadyFor[g]
               /\ \A state : Heard(g, state)' <=> Heard(g, state)
    BY <1>3, <1>6, <2>3, BeatIsHeard DEF Beat
  <2> QED
    BY <2>1, <2>2, <2>3 DEF ReportsAreTrue
<1>7. CASE \/ \E d \in Deas : DeaComesBack(d)
           \/ Restart \/ Tick \/ \E s \in Readers : ReaderActs(s)
           \/ UNCHANGED vars
  <2>1. UNCHANGED <<instances, steadyFor>>
    BY <1>7 DEF DeaComesBack, Restart, Tick, ReaderActs, vars, environment
  <2> QED
    BY <1>1, <1>7, <2>1, OthersHeard
<1> QED
  BY <1>4, <1>5, <1>6, <1>7, NoneSilent DEF Next, Environment

(* Every step keeps what is being loaded in the store.                     *)
LEMMA NextLoadIsStored ==
  ASSUME NothingFails, TypeInv, OneAtATime, CachesAreComplete, LoadIsStored,
         [Next]_vars
  PROVE  LoadIsStored'
<1>1. /\ handle \in [Stores -> Handle] /\ Syncer \in Stores
      /\ stored \in [Guids -> State \cup {NoHeartbeat}]
  BY ListenerAssumption
  DEF TypeInv, TypeOK, ActualStateTypeOK, Heartbeats
<1>2. ASSUME handle'[Syncer].read = "idle" PROVE LoadIsStored'
  BY <1>2 DEF LoadIsStored
<1>3. ASSUME handle'[Syncer] = handle[Syncer], stored' = stored
      PROVE  LoadIsStored'
  <2>1. ReadResult(Syncer)' = ReadResult(Syncer)
    BY <1>3 DEF ReadResult, ExpiredKeysOf
  <2> QED
    BY <1>3, <2>1 DEF LoadIsStored
<1>4. ASSUME handle' = handle, syncer # "load" PROVE LoadIsStored'
  BY <1>2, <1>4 DEF OneAtATime
<1>5. CASE LoadBegins
  BY <1>1, <1>5 DEF LoadBegins, BeginRead, LoadIsStored, Handle
<1>6. CASE SyncerReads
  <2>1. CASE ListActual(Syncer)
    <3>1. /\ handle'[Syncer].listed = stored /\ stored' = stored
          /\ \/ handle'[Syncer].read = "deas"
             \/ (handle'[Syncer].read = "done" /\ stored = Silence)
      <4>1. PICK next \in IF stored = Silence THEN {"deas", "done"} ELSE {"deas"} :
              handle' = [handle EXCEPT ![Syncer].read = next,
                                       ![Syncer].listed = stored]
        BY <2>1 DEF ListActual
      <4>2. handle' = [handle EXCEPT ![Syncer] =
                         [handle[Syncer] EXCEPT !.read = next, !.listed = stored]]
        BY <4>1
      <4>3. handle'[Syncer]
              = [handle[Syncer] EXCEPT !.read = next, !.listed = stored]
        BY <1>1, <4>2
      <4>4. handle[Syncer] \in Handle
        BY <1>1
      <4>5. handle'[Syncer].listed = stored /\ handle'[Syncer].read = next
        BY <4>3, <4>4 DEF Handle
      <4>6. next = "deas" \/ (next = "done" /\ stored = Silence)
        BY <4>1
      <4>7. stored' = stored
        BY <2>1 DEF ListActual
      <4> QED
        BY <4>5, <4>6, <4>7
    <3>2. stored = Silence => ReadResult(Syncer)' = Silence
      BY <3>1 DEF ReadResult, Silence
    <3> QED
      BY <3>1, <3>2 DEF LoadIsStored
  <2>2. CASE GetDeaCache(Syncer)
    <3>1. /\ handle'[Syncer].listed = handle[Syncer].listed /\ stored' = stored
          /\ handle[Syncer].read = "deas" /\ handle'[Syncer].read = "delete"
      BY <1>1, <2>2 DEF GetDeaCache, Handle
    <3> QED
      BY <3>1 DEF LoadIsStored
  <2>3. CASE DeleteExpired(Syncer)
    <3>1. faults' = faults
      BY <2>3, NoFaults DEF DeleteExpired, Handled, NoFault
    <3>2. /\ handle'[Syncer].read = "done"
          /\ handle'[Syncer].listed = handle[Syncer].listed
          /\ handle'[Syncer].deaCache = handle[Syncer].deaCache
          /\ handle[Syncer].listed = stored
      BY <1>1, <2>3, <3>1 DEF DeleteExpired, LoadIsStored, Handle
    <3>3. stored' = [g \in Guids |-> IF g \in ExpiredKeysOf(Syncer)
                                    THEN NoHeartbeat ELSE stored[g]]
      BY <2>3, NoFaults DEF DeleteExpired, Handled
    <3>4. ReadResult(Syncer)' = stored'
      BY <3>2, <3>3 DEF ReadResult, ExpiredKeysOf
    <3> QED
      BY <3>2, <3>4 DEF LoadIsStored
  <2>4. ~ReadFails(Syncer)
    BY NoFaults DEF ReadFails
  <2> QED
    BY <1>6, <2>1, <2>2, <2>3, <2>4 DEF SyncerReads, Reading
<1>7. CASE LoadEnds \/ LoadFails
  BY <1>1, <1>2, <1>7 DEF LoadEnds, LoadFails, AfterRead, Handle
<1>8. CASE /\ ListenerActs
           /\ ~LoadBegins /\ ~SyncerReads /\ ~LoadEnds /\ ~LoadFails
  <2>1. handle' = handle /\ syncer # "load"
    BY <1>8
    DEF ListenerActs, ListenerStep, TakeHeartbeats, MergeHeartbeats, SaveNode,
        Saved, DeleteGone, BumpReads, BumpWrites, RevokeActualFreshness,
        VerifyFreshness, PostEvacuation, Posted, KeepEvacuations
  <2> QED
    BY <1>4, <2>1
<1>9. CASE Environment /\ ~Restart /\ ~Tick
  <2>1. UNCHANGED <<handle, stored>>
    BY <1>9
    DEF Environment, InstanceChanges, DeaFallsSilent, DeaComesBack, Beat,
        Heartbeat, ListenerUnchanged, storeKeys
  <2> QED
    BY <1>3, <2>1
<1>10. CASE Restart
  BY <1>1, <1>2, <1>10 DEF Restart, ListenerRestarts, NewRealStore
<1>11. CASE Tick
  BY <1>1, <1>2, <1>11, TickIsIdle DEF NothingFails
<1>12. ASSUME NEW s \in Readers, ReaderActs(s) PROVE LoadIsStored'
  BY <1>3, <1>12, ReaderLeaves, ReaderKeepsStored
<1>13. CASE UNCHANGED vars
  BY <1>3, <1>13 DEF vars, storeKeys
<1> QED
  BY <1>5, <1>6, <1>7, <1>8, <1>9, <1>10, <1>11, <1>12, <1>13 DEF Next

(* The environment, but for a restart and time, and the readers leave the  *)
(* listener's work alone.                                                  *)
LEMMA OthersLeave ==
  ASSUME \/ Environment /\ ~Restart /\ ~Tick
         \/ \E s \in Readers : ReaderActs(s)
         \/ UNCHANGED vars
  PROVE  UNCHANGED <<syncer, sync, caches, sender, history>>
<1>1. CASE Environment /\ ~Restart /\ ~Tick
  BY <1>1 DEF Environment, InstanceChanges, DeaFallsSilent, DeaComesBack, Beat,
              Heartbeat, ListenerUnchanged
<1>2. CASE \E s \in Readers : ReaderActs(s)
  BY <1>2 DEF ReaderActs
<1>3. CASE UNCHANGED vars
  BY <1>3 DEF vars
<1> QED
  BY <1>1, <1>2, <1>3

(* Every step keeps what a sync is about to save.                          *)
LEMMA NextSyncSaves ==
  ASSUME NothingFails, TypeInv, OneAtATime, LoadIsStored, SyncSaves,
         [Next]_vars, Present \subseteq Present'
  PROVE  SyncSaves'
<1>1. /\ ~Fault
      /\ handle[Syncer].read # "failed"
      /\ Deas \cap Guids = {} /\ batch.deas \subseteq Deas
      /\ syncer # "save" => nodesToSave = {}
      /\ syncer = "wait" => batch.deas = {}
  BY NoFaults, ListenerAssumption
  DEF LoadIsStored, OneAtATime, TypeInv, TypeOK, ListenerTypeOK, Report
<1>2. \A d \in Deas : presence[d] > 0 => presence'[d] > 0
  BY DEF Present
<1>3. ASSUME Waits PROVE SyncSaves'
  BY <1>3 DEF Waits, NoReport, SyncSaves
<1>4. ASSUME UNCHANGED <<batch, nodesToSave, saveFailed>>,
             syncer' \in {"load", "merge"}
             \/ /\ syncer \notin {"load", "merge"}
                /\ UNCHANGED <<cache, keysToDelete>>
                /\ syncer' \in {"save", "delete"} => syncer \in {"save", "delete"}
      PROVE  SyncSaves'
  BY <1>1, <1>2, <1>4 DEF SyncSaves
<1>5. CASE TakeHeartbeats
  BY <1>1, <1>5 DEF TakeHeartbeats, SyncSaves
<1>6. CASE LoadBegins \/ SyncerReads \/ LoadEnds
  BY <1>4, <1>6 DEF LoadBegins, SyncerReads, LoadEnds, sync
<1>7. ~LoadFails
  BY <1>1 DEF LoadFails
<1>8. CASE MergeHeartbeats
  <2>1. /\ batch' = batch /\ nodesToSave' = Changed \cup batch.deas
        /\ \A g \in Changed : batch.states[g] # NoHeartbeat
        /\ ~saveFailed'
    BY <1>8 DEF MergeHeartbeats, NodesToSave, Changed, Reported, SyncSaves
  <2>2. \A g \in OnDeas(batch.deas) : cache'[g] = batch.states[g]
    BY <1>8 DEF MergeHeartbeats, OnDeas
  <2>3. \A g \in keysToDelete' :
          DeaOf[g] \in batch.deas /\ batch.states[g] = NoHeartbeat
    BY <1>8 DEF MergeHeartbeats, Reported, OnDeas
  <2> QED
    BY <1>1, <2>1, <2>2, <2>3 DEF SyncSaves
<1>9. ASSUME NEW key \in Deas \cup Guids, SaveNode(key) PROVE SyncSaves'
  <2>1. CASE key \in Deas
    <3>1. presence'[key] > 0
      BY <1>1, <1>9, <2>1, SavesNode, TTLs
      DEF NodeWritten, TypeInv, TypeOK, ActualStateTypeOK
    <3> QED
      BY <1>1, <1>2, <1>9, <3>1, SavesNode DEF SyncSaves
  <2>2. CASE key \notin Deas
    BY <1>1, <1>2, <1>9, <2>2, SavesNode DEF SyncSaves
  <2> QED
    BY <2>1, <2>2
<1>10. CASE Saved
  <2>1. syncer' = "delete"
    BY <1>10 DEF Saved, SyncSaves
  <2> QED
    BY <1>4, <1>10, <2>1 DEF Saved, sync, caches
<1>11. CASE DeleteGone
  BY <1>1, <1>3, <1>4, <1>11, DeletesAll DEF DeleteGone
<1>12. CASE Rests
  BY <1>3, <1>4, <1>12 DEF Rests
<1>13. ASSUME NEW g \in Guids, PostEvacuation(g) PROVE SyncSaves'
  BY <1>4, <1>13 DEF PostEvacuation, caches
<1>14. CASE ListenerActs
  BY <1>1, <1>5, <1>6, <1>7, <1>8, <1>9, <1>10, <1>11, <1>12, <1>13, <1>14,
     ListenerRests
  DEF ListenerActs, ListenerStep
<1>15. CASE Restart
  BY <1>3, <1>15 DEF Restart, ListenerRestarts
<1>16. CASE Tick
  BY <1>4, <1>16, TickIsIdle DEF Tick, NothingFails
<1>17. CASE ~ListenerActs /\ ~Restart /\ ~Tick
  <2>1. UNCHANGED <<syncer, sync, caches>>
    BY <1>17, OthersLeave DEF Next
  <2> QED
    BY <1>4, <2>1 DEF sync, caches
<1> QED
  BY <1>14, <1>15, <1>16, <1>17

(* Every step keeps the cache in the store.                                *)
LEMMA NextCacheIsStored ==
  ASSUME NothingFails, TypeInv, OneAtATime, CachesAreComplete, LoadIsStored,
         SyncSaves, CacheIsStored, [Next]_vars
  PROVE  CacheIsStored'
<1>1. /\ ~Fault
      /\ handle[Syncer].read # "failed"
      /\ Deas \cap Guids = {}
      /\ syncer # "save" => nodesToSave = {}
      /\ nodesToSave \subseteq batch.deas \cup OnDeas(batch.deas)
      /\ cacheAge \in 0..CacheRefreshInterval /\ CacheRefreshInterval \in Nat
      /\ stored \in [Guids -> State \cup {NoHeartbeat}]
      /\ batch.deas \subseteq Deas
  BY NoFaults, ListenerAssumption
  DEF LoadIsStored, OneAtATime, TypeInv, TypeOK, ActualStateTypeOK,
      ListenerTypeOK, Heartbeats, Report
<1>2. ASSUME syncer \notin {"load", "save", "delete"},
             syncer = "wait" => cacheAge # CacheRefreshInterval
      PROVE  \A g \in Guids : cache[g] = stored[g]
  BY <1>1, <1>2 DEF CacheIsStored
<1>3. ASSUME UNCHANGED <<cache, stored>>,
             syncer \notin {"load", "save", "delete"},
             syncer = "wait" => cacheAge # CacheRefreshInterval
      PROVE  CacheIsStored'
  BY <1>2, <1>3 DEF CacheIsStored
<1>4. ASSUME UNCHANGED <<syncer, sync, caches, stored>> PROVE CacheIsStored'
  BY <1>4 DEF sync, caches, CacheIsStored
<1>5. CASE TakeHeartbeats
  <2>1. CASE RefreshDue
    BY <1>5, <2>1 DEF TakeHeartbeats, CacheIsStored
  <2>2. CASE ~RefreshDue
    <3>1. cacheAge # CacheRefreshInterval
      BY <1>1, <2>2 DEF RefreshDue
    <3> QED
      BY <1>3, <1>5, <3>1 DEF TakeHeartbeats, storeKeys, caches
  <2> QED
    BY <2>1, <2>2
<1>6. CASE LoadBegins \/ SyncerReads
  BY <1>6 DEF LoadBegins, SyncerReads, CacheIsStored
<1>7. CASE LoadEnds
  <2>1. cache' = stored /\ stored' = stored
    BY <1>7 DEF LoadEnds, LoadIsStored, storeKeys
  <2> QED
    BY <2>1 DEF CacheIsStored
<1>8. ~LoadFails
  BY <1>1 DEF LoadFails
<1>9. CASE MergeHeartbeats
  <2>1. \A g \in Guids : cache[g] = stored[g]
    BY <1>2, <1>9 DEF MergeHeartbeats
  <2>2. UNCHANGED <<stored, batch>> /\ syncer' = "save"
        /\ nodesToSave' = Changed \cup batch.deas
    BY <1>9 DEF MergeHeartbeats, NodesToSave, storeKeys
  <2>3. ASSUME NEW g \in Guids
        PROVE  \/ cache'[g] = stored[g]
               \/ /\ g \in nodesToSave' /\ cache'[g] = batch.states[g]
                  /\ cache'[g] # NoHeartbeat
               \/ g \in keysToDelete' /\ cache'[g] = NoHeartbeat
    <3>1. CASE DeaOf[g] \notin batch.deas
      BY <1>9, <2>1, <3>1 DEF MergeHeartbeats
    <3>2. CASE DeaOf[g] \in batch.deas /\ batch.states[g] = NoHeartbeat
      BY <1>9, <2>1, <3>2 DEF MergeHeartbeats, Reported, OnDeas
    <3>3. CASE DeaOf[g] \in batch.deas /\ batch.states[g] # NoHeartbeat
      BY <1>9, <2>1, <2>2, <3>3 DEF MergeHeartbeats, Changed, Reported, OnDeas
    <3> QED
      BY <3>1, <3>2, <3>3
  <2> QED
    BY <2>2, <2>3 DEF CacheIsStored
<1>10. ASSUME NEW key \in Deas \cup Guids, SaveNode(key) PROVE CacheIsStored'
  <2>1. CASE key \in Deas
    BY <1>1, <1>10, <2>1, SavesNode DEF NodeWritten, CacheIsStored
  <2>2. CASE key \notin Deas
    <3>1. /\ key \in Guids
          /\ stored' = [stored EXCEPT ![key] = batch.states[key]]
          /\ key \in nodesToSave
      BY <1>1, <1>10, <2>2, SavesNode DEF NodeWritten
    <3>2. cache[key] = batch.states[key]
      <4>1. key \in OnDeas(batch.deas)
        BY <1>1, <2>2, <3>1
      <4> QED
        BY <1>1, <1>10, <4>1, SavesNode DEF SyncSaves
    <3> QED
      BY <1>1, <1>10, <3>1, <3>2, SavesNode DEF CacheIsStored
  <2> QED
    BY <2>1, <2>2
<1>11. CASE Saved
  BY <1>11 DEF Saved, SyncSaves, CacheIsStored, sync, caches, storeKeys
<1>12. CASE DeleteGone
  <2>1. \A g \in Guids : cache[g] = stored'[g]
    <3>1. syncer = "delete" /\ nodesToSave = {}
      BY <1>1, <1>12 DEF DeleteGone
    <3>2. ASSUME NEW g \in Guids, g \in keysToDelete
          PROVE  cache[g] = NoHeartbeat
      BY <3>1, <3>2 DEF SyncSaves, OnDeas
    <3>3. ASSUME NEW g \in Guids, g \notin keysToDelete
          PROVE  cache[g] = stored[g]
      BY <3>1, <3>3 DEF CacheIsStored
    <3> QED
      BY <1>1, <1>12, <3>2, <3>3, DeletesAll
  <2> QED
    BY <1>1, <1>12, <2>1, DeletesAll DEF CacheIsStored
<1>13. CASE Rests
  BY <1>3, <1>13 DEF Rests
<1>14. ASSUME NEW g \in Guids, PostEvacuation(g) PROVE CacheIsStored'
  BY <1>3, <1>14 DEF PostEvacuation, storeKeys, caches
<1>15. CASE ListenerActs
  BY <1>1, <1>5, <1>6, <1>7, <1>8, <1>9, <1>10, <1>11, <1>12, <1>13, <1>14,
     <1>15, ListenerRests
  DEF ListenerActs, ListenerStep
<1>16. CASE Restart
  BY <1>16 DEF Restart, ListenerRestarts, Waits, CacheIsStored
<1>17. CASE Tick
  <2>1. /\ syncer = "wait" /\ syncer' = "wait"
        /\ UNCHANGED <<stored, cache>>
        /\ cacheAge' = More(cacheAge, CacheRefreshInterval)
    BY <1>17, TickIsIdle DEF Tick, NothingFails
  <2>2. CASE cacheAge = CacheRefreshInterval
    BY <2>1, <2>2 DEF More, CacheIsStored
  <2>3. CASE cacheAge # CacheRefreshInterval
    BY <1>3, <2>1, <2>3
  <2> QED
    BY <2>2, <2>3
<1>18. CASE ~ListenerActs /\ ~Restart /\ ~Tick
  <2>1. UNCHANGED <<syncer, sync, caches>>
    BY <1>18, OthersLeave DEF Next
  <2>2. stored' = stored
    BY <1>18, ReaderKeepsStored
    DEF Next, Environment, InstanceChanges, DeaFallsSilent, DeaComesBack, Beat,
        Heartbeat, ListenerUnchanged, storeKeys, vars
  <2> QED
    BY <1>4, <2>1, <2>2
<1> QED
  BY <1>15, <1>16, <1>17, <1>18

(* What is about to be saved stays so until it is.                         *)
LEMMA NodesStay ==
  ASSUME OneAtATime, ListenerActs, NEW g \in Guids, g \in nodesToSave
  PROVE  SaveNode(g) \/ g \in nodesToSave'
<1>1. syncer = "save" /\ nodesToSave # {}
  BY DEF OneAtATime
<1>2. \E key \in Deas \cup Guids : SaveNode(key)
  BY <1>1
  DEF ListenerActs, ListenerStep, TakeHeartbeats, LoadBegins, SyncerReads,
      LoadEnds, LoadFails, MergeHeartbeats, Saved, DeleteGone, BumpReads,
      BumpWrites, RevokeActualFreshness, VerifyFreshness, PostEvacuation,
      Posted, KeepEvacuations
<1> QED
  BY <1>2 DEF SaveNode

(* An instance becomes absent when its DEA no longer reports it.           *)
LEMMA BecomesAbsent ==
  ASSUME NothingFails, TypeInv, PresenceInv, SyncSaves, ReportsAreTrue,
         ListenerActs, Present \subseteq Present',
         NEW g \in Guids, Absent(g)', ~Absent(g)
  PROVE  steadyFor[g] = 0
<1>1. /\ presence[DeaOf[g]] > 0 /\ presence'[DeaOf[g]] > 0
      /\ stored[g] # NoHeartbeat /\ stored'[g] = NoHeartbeat
  <2>1. DeaOf[g] \in Deas /\ presence[DeaOf[g]] \in Nat
    BY DeasAssumption DEF TypeInv, TypeOK, ActualStateTypeOK
  <2>2. presence[DeaOf[g]] > 0 /\ stored[g] # NoHeartbeat
    BY <2>1 DEF Absent
  <2>3. presence'[DeaOf[g]] > 0
    BY <2>1, <2>2 DEF Present
  <2> QED
    BY <2>2, <2>3 DEF Absent
<1>2. ~Fault /\ Deas \cap Guids = {}
      /\ stored \in [Guids -> State \cup {NoHeartbeat}]
  BY NoFaults, ListenerAssumption
  DEF TypeInv, TypeOK, ActualStateTypeOK, Heartbeats
<1>3. ~SyncerReads
  BY <1>1, SyncerKeepsPresent DEF PresenceInv
<1>4. ASSUME NEW key \in Deas \cup Guids, SaveNode(key) PROVE FALSE
  <2>1. key = g
    BY <1>1, <1>2, <1>4, SavesNode DEF NodeWritten
  <2>2. stored'[g] = batch.states[g]
    BY <1>2, <1>4, <2>1, SavesNode DEF NodeWritten
  <2> QED
    BY <1>1, <1>4, <2>1, <2>2 DEF SaveNode, SyncSaves
<1>5. CASE DeleteGone
  <2>1. g \in keysToDelete
    BY <1>1, <1>2, <1>5, DeletesAll
  <2>2. Heard(g, NoHeartbeat)
    BY <1>5, <2>1 DEF DeleteGone, SyncSaves, Heard
  <2> QED
    BY <2>2 DEF ReportsAreTrue
<1>6. ASSUME stored' = stored PROVE FALSE
  BY <1>1, <1>6
<1> QED
  BY <1>3, <1>4, <1>5, <1>6
  DEF ListenerActs, ListenerStep, TakeHeartbeats, LoadBegins, BeginRead,
      LoadEnds, LoadFails, MergeHeartbeats, Saved, BumpReads, BumpWrites,
      RevokeActualFreshness, VerifyFreshness, PostEvacuation, Posted,
      KeepEvacuations, storeKeys

(* A save of an absent instance comes to its end with the instance there.  *)
LEMMA StaysUnderWay ==
  ASSUME NothingFails, TypeInv, PresenceInv, SyncSaves, CacheIsStored,
         ReportsAreTrue, ListenerActs, Present \subseteq Present',
         NEW g \in Guids, Absent(g)', UnderWay(g)
  PROVE  UnderWay(g)' \/ steadyFor[g] = 0
<1> DEFINE d == DeaOf[g]
<1>1. /\ ~Fault /\ Deas \cap Guids = {} /\ d \in Deas /\ g \notin Deas
      /\ d \notin Guids
      /\ presence \in [Deas -> 0..HeartbeatTTL] /\ HeartbeatTTL \in Nat \ {0}
      /\ stored \in [Guids -> State \cup {NoHeartbeat}]
      /\ nodesToSave \subseteq batch.deas \cup OnDeas(batch.deas)
      /\ batch.deas \subseteq Deas
  BY NoFaults, ListenerAssumption, DeasAssumption
  DEF TypeInv, TypeOK, ActualStateTypeOK, ListenerTypeOK, Heartbeats,
      PresenceInv, OneAtATime, Report
<1>2. CASE SaveNode(d)
  <2>1. /\ presence'[d] > 0 /\ stored' = stored
        /\ syncer = "save" /\ d \in nodesToSave
        /\ nodesToSave' = nodesToSave \ {d}
    BY <1>1, <1>2, SavesNode DEF NodeWritten
  <2>2. stored[g] = NoHeartbeat
    BY <1>1, <2>1 DEF Absent
  <2>3. CASE g \in nodesToSave
    BY <1>1, <2>1, <2>3 DEF UnderWay
  <2>4. CASE g \notin nodesToSave
    <3>1. cache[g] = NoHeartbeat
      BY <2>1, <2>2, <2>4 DEF CacheIsStored
    <3>2. d \in batch.deas
      BY <1>1, <2>1 DEF OnDeas
    <3>3. batch.states[g] = NoHeartbeat
      BY <2>1, <3>1, <3>2 DEF SyncSaves, OnDeas
    <3>4. Heard(g, NoHeartbeat)
      BY <3>2, <3>3 DEF Heard
    <3> QED
      BY <3>4 DEF ReportsAreTrue
  <2> QED
    BY <2>3, <2>4
<1>3. CASE Pending(d) /\ ~SaveNode(d)
  BY <1>1, <1>3, PendingIsSaved DEF UnderWay, PresenceInv
<1>4. CASE g \in nodesToSave
  <2>1. CASE g \in nodesToSave'
    BY <2>1 DEF UnderWay
  <2>2. CASE SaveNode(g)
    <3>1. /\ stored' = [stored EXCEPT ![g] = batch.states[g]]
          /\ presence' = presence /\ syncer = "save"
          /\ nodesToSave' = nodesToSave \ {g}
      BY <1>1, <2>2, SavesNode DEF NodeWritten
    <3>2. stored'[g] # NoHeartbeat
      BY <1>1, <1>4, <3>1 DEF SyncSaves
    <3>3. presence[d] = 0
      BY <3>1, <3>2 DEF Absent
    <3>4. d \in batch.deas
      BY <1>1, <1>4 DEF OnDeas
    <3>5. d \in nodesToSave
      BY <1>1, <3>1, <3>3, <3>4 DEF SyncSaves
    <3>6. d \in nodesToSave'
      BY <1>1, <3>1, <3>5
    <3> QED
      BY <3>6 DEF UnderWay, Pending
  <2> QED
    BY <1>4, <2>1, <2>2, NodesStay DEF PresenceInv
<1> QED
  BY <1>2, <1>3, <1>4 DEF UnderWay

(* Every step keeps what is reported in the store in time.                 *)
LEMMA NextStoredInTime ==
  ASSUME NothingFails, TypeInv, PresenceInv, ReportsAreTrue, SyncSaves,
         CacheIsStored, StoredInTime, [Next]_vars,
         Present \subseteq Present', syncer # "save" => Present' = Present
  PROVE  StoredInTime'
<1> DEFINE n(g) == IF UnderWay(g) THEN 1 ELSE 0
<1>1. /\ steadyFor \in [Guids -> 0..ActualFreshnessTTL + 1]
      /\ bounds.restarts \in Nat
      /\ \A g \in Guids : steadyFor[g] \in Nat
      /\ DeaOf \in [Guids -> Deas] /\ Deas \cap Guids = {}
      /\ presence \in [Deas -> 0..HeartbeatTTL]
      /\ ActualFreshnessTTL + 1 \in Nat
  BY HeartbeatingAssumption, DeasAssumption, ListenerAssumption
  DEF TypeInv, TypeOK, Bounds, ActualStateTypeOK
<1>2. ASSUME NEW g \in Guids, steadyFor'[g] = 0 \/ steadyFor'[g] = steadyFor[g],
             bounds'.restarts = bounds.restarts,
             Absent(g)' => Absent(g) \/ steadyFor'[g] = 0,
             Absent(g)' /\ UnderWay(g) => UnderWay(g)' \/ steadyFor'[g] = 0,
             Absent(g)'
      PROVE  steadyFor'[g] <= bounds'.restarts + (IF UnderWay(g)' THEN 1 ELSE 0)
  <2>1. CASE steadyFor'[g] = 0
    BY <1>1, <1>2, <2>1
  <2>2. CASE steadyFor'[g] # 0
    <3>1. Absent(g) /\ steadyFor'[g] = steadyFor[g] /\ (UnderWay(g) => UnderWay(g)')
      BY <1>2, <2>2
    <3>2. steadyFor[g] <= bounds.restarts + n(g)
      BY <3>1 DEF StoredInTime
    <3> QED
      BY <1>1, <1>2, <3>1, <3>2
  <2> QED
    BY <2>1, <2>2
<1>3. ASSUME UNCHANGED <<presence, stored, syncer, batch, nodesToSave>>,
             handle'[Syncer] = handle[Syncer],
             heartbeatsToSave.deas \subseteq heartbeatsToSave'.deas,
             bounds'.restarts = bounds.restarts,
             NEW g \in Guids, steadyFor'[g] = 0 \/ steadyFor'[g] = steadyFor[g],
             Absent(g)'
      PROVE  steadyFor'[g] <= bounds'.restarts + (IF UnderWay(g)' THEN 1 ELSE 0)
  <2>1. Absent(g)' <=> Absent(g)
    BY <1>3 DEF Absent
  <2>2. UnderWay(g) => UnderWay(g)'
    BY <1>3 DEF UnderWay, Pending
  <2> QED
    BY <1>2, <1>3, <2>1, <2>2
<1>4. CASE ListenerActs
  <2>1. UNCHANGED <<steadyFor, bounds>>
    BY <1>4 DEF ListenerActs, environment
  <2>2. ASSUME NEW g \in Guids, Absent(g)'
        PROVE  /\ ~Absent(g) => steadyFor'[g] = 0
               /\ UnderWay(g) => UnderWay(g)' \/ steadyFor'[g] = 0
    BY <1>4, <2>1, <2>2, BecomesAbsent, StaysUnderWay
  <2> QED
    BY <1>2, <2>1, <2>2 DEF StoredInTime
<1>5. ASSUME NEW h \in Guids, InstanceChanges(h) PROVE StoredInTime'
  <2>1. \A g \in Guids : steadyFor'[g] = 0 \/ steadyFor'[g] = steadyFor[g]
    BY <1>1, <1>5 DEF InstanceChanges
  <2>2. bounds'.restarts = bounds.restarts
    BY <1>5 DEF InstanceChanges, TypeInv, TypeOK
  <2> QED
    BY <1>3, <1>5, <2>1, <2>2
    DEF InstanceChanges, ListenerUnchanged, storeKeys, sync, StoredInTime
<1>6. ASSUME NEW d \in Deas, DeaComesBack(d) PROVE StoredInTime'
  BY <1>3, <1>6 DEF DeaComesBack, ListenerUnchanged, storeKeys, sync, StoredInTime
<1>7. ASSUME NEW d \in Deas, Beat(d) PROVE StoredInTime'
  <2>1. /\ UNCHANGED <<presence, stored, syncer, batch, nodesToSave, handle, bounds>>
        /\ heartbeatsToSave'.deas = heartbeatsToSave.deas \cup {d}
        /\ d \notin heartbeatsToSave.deas \cup batch.deas
    BY <1>7, BeatIsHeard DEF Beat, Heartbeat, storeKeys, sync, PresenceInv
  <2>2. ASSUME NEW g \in Guids, Absent(g)', DeaOf[g] # d
        PROVE  steadyFor'[g] <= bounds'.restarts + (IF UnderWay(g)' THEN 1 ELSE 0)
    <3>1. steadyFor'[g] = steadyFor[g]
      BY <1>7, <2>2 DEF Beat
    <3> QED
      BY <1>3, <2>1, <2>2, <3>1
  <2>3. ASSUME NEW g \in Guids, Absent(g)', DeaOf[g] = d
        PROVE  steadyFor'[g] <= bounds'.restarts + (IF UnderWay(g)' THEN 1 ELSE 0)
    <3>1. ~UnderWay(g)
      <4>1. nodesToSave \subseteq batch.deas \cup OnDeas(batch.deas)
        BY DEF PresenceInv, OneAtATime
      <4>2. d \notin nodesToSave /\ g \notin nodesToSave
        <5>1. batch.deas \subseteq Deas
          BY DEF TypeInv, TypeOK, ListenerTypeOK, Report
        <5> QED
          BY <1>1, <2>1, <2>3, <4>1, <5>1 DEF OnDeas
      <4> QED
        BY <2>1, <2>3, <4>2 DEF UnderWay, Pending
    <3>2. UnderWay(g)'
      BY <2>1, <2>3 DEF UnderWay, Pending
    <3>3. Absent(g)
      BY <2>1, <2>3 DEF Absent
    <3>4. steadyFor[g] <= bounds.restarts
      BY <1>1, <3>1, <3>3 DEF StoredInTime
    <3>5. steadyFor'[g] <= steadyFor[g] + 1
      BY <1>1, <1>7 DEF Beat, More
    <3>6. steadyFor'[g] \in Nat
      BY <1>1, <1>7 DEF Beat, More
    <3> QED
      BY <1>1, <2>1, <3>2, <3>4, <3>5, <3>6
  <2> QED
    BY <2>2, <2>3 DEF StoredInTime
<1>8. CASE Restart
  <2>1. /\ UNCHANGED <<presence, stored, steadyFor>>
        /\ bounds'.restarts = bounds.restarts + 1
    BY <1>8
    DEF Restart, ListenerRestarts, storeKeys, TypeInv, TypeOK
  <2>2. ASSUME NEW g \in Guids, Absent(g)'
        PROVE  steadyFor'[g] <= bounds'.restarts + (IF UnderWay(g)' THEN 1 ELSE 0)
    <3>1. Absent(g)
      BY <2>1, <2>2 DEF Absent
    <3>2. steadyFor[g] <= bounds.restarts + n(g)
      BY <3>1 DEF StoredInTime
    <3> QED
      BY <1>1, <2>1, <3>2
  <2> QED
    BY <2>2 DEF StoredInTime
<1>9. CASE Tick
  <2>1. /\ UNCHANGED <<stored, steadyFor, bounds>> /\ syncer = "wait"
        /\ nodesToSave = {} /\ \A d : ~Pending(d)
    BY <1>9, TickIsIdle DEF Tick, NothingFails, PresenceInv
  <2>2. ASSUME NEW g \in Guids PROVE Absent(g)' => Absent(g)
    <3>1. DeaOf[g] \in Deas /\ presence[DeaOf[g]] \in Nat
          /\ presence'[DeaOf[g]] = Less(presence[DeaOf[g]])
      BY <1>1, <1>9 DEF Tick
    <3>2. presence[DeaOf[g]] > 0 => presence'[DeaOf[g]] > 0
      BY <3>1 DEF Present
    <3> QED
      BY <2>1, <3>1, <3>2 DEF Absent
  <2>3. \A g \in Guids : ~UnderWay(g)
    BY <2>1 DEF UnderWay
  <2> QED
    BY <1>2, <2>1, <2>2, <2>3 DEF StoredInTime
<1>10. ASSUME NEW s \in Readers, ReaderActs(s) PROVE StoredInTime'
  <2>1. stored' = stored
    BY <1>10, ReaderKeepsStored DEF PresenceInv
  <2>2. /\ UNCHANGED <<syncer, batch, nodesToSave, heartbeatsToSave, steadyFor>>
        /\ presence' = presence /\ handle'[Syncer] = handle[Syncer]
        /\ bounds'.restarts = bounds.restarts
    BY <1>10, ReaderLeaves DEF ReaderActs, sync
  <2> QED
    BY <1>3, <2>1, <2>2 DEF StoredInTime
<1>11. CASE UNCHANGED vars
  BY <1>3, <1>11 DEF vars, environment, storeKeys, sync, StoredInTime
<1> QED
  BY <1>4, <1>5, <1>6, <1>7, <1>8, <1>9, <1>10, <1>11, NoneSilent
  DEF Next, Environment, NothingFails

(* The listener leaves a replaced instance stored as evacuating, until its *)
(* DEA no longer reports it.                                               *)
LEMMA ListenerLeavesReplaced ==
  ASSUME NothingFails, TypeInv, PresenceInv, SyncSaves, ListenerActs,
         NEW g \in Guids, Replaced(g)
  PROVE  \/ stored'[g] \in {stored[g], "EVACUATING"}
         \/ instances[g] = Gone /\ ~Heard(g, "EVACUATING")
<1>1. /\ ~Fault /\ Deas \cap Guids = {}
      /\ stored \in [Guids -> State \cup {NoHeartbeat}]
      /\ batch.states[g] \in State \cup {NoHeartbeat}
      /\ nodesToSave \subseteq batch.deas \cup OnDeas(batch.deas)
      /\ heartbeatsToSave.deas \cap batch.deas = {}
      /\ NoHeartbeat # "EVACUATING" /\ batch.deas \subseteq Deas
  BY NoFaults, ListenerAssumption
  DEF TypeInv, TypeOK, ActualStateTypeOK, ListenerTypeOK, Heartbeats, Report,
      PresenceInv, OneAtATime, NoHeartbeat
<1>2. CASE SyncerReads
  BY <1>2, SyncerKeepsPresent DEF Replaced, PresenceInv
<1>3. ASSUME NEW key \in Deas \cup Guids, SaveNode(key)
      PROVE  stored'[g] \in {stored[g], "EVACUATING"}
  <2>1. CASE key = g
    <3>1. stored'[g] = batch.states[g] /\ g \in nodesToSave
      BY <1>1, <1>3, <2>1, SavesNode DEF NodeWritten
    <3>2. batch.states[g] \in State
      BY <1>1, <3>1 DEF SyncSaves
    <3>3. DeaOf[g] \in batch.deas
      BY <1>1, <3>1 DEF OnDeas
    <3>4. Heard(g, batch.states[g])
      BY <3>3 DEF Heard
    <3> QED
      BY <3>1, <3>2, <3>4 DEF Replaced
  <2>2. CASE key # g
    BY <1>1, <1>3, <2>2, SavesNode DEF NodeWritten
  <2> QED
    BY <2>1, <2>2
<1>4. CASE DeleteGone
  <2>1. CASE g \notin keysToDelete
    BY <1>1, <1>4, <2>1, DeletesAll
  <2>2. CASE g \in keysToDelete
    <3>1. DeaOf[g] \in batch.deas /\ batch.states[g] = NoHeartbeat
      BY <1>4, <2>2 DEF DeleteGone, SyncSaves
    <3> QED
      BY <1>1, <3>1 DEF Heard, Replaced
  <2> QED
    BY <2>1, <2>2
<1>5. CASE stored' = stored
  BY <1>5
<1> QED
  BY <1>2, <1>3, <1>4, <1>5
  DEF ListenerActs, ListenerStep, TakeHeartbeats, LoadBegins, BeginRead,
      LoadEnds, LoadFails, MergeHeartbeats, Saved, BumpReads, BumpWrites,
      RevokeActualFreshness, VerifyFreshness, PostEvacuation, Posted,
      KeepEvacuations, storeKeys

(* So it stays replaced.                                                   *)
LEMMA StaysReplaced ==
  ASSUME NEW g \in Guids, Replaced(g), startsPosted'[g] = startsPosted[g],
         presence'[DeaOf[g]] > 0,
         \/ instances'[g] = instances[g]
         \/ instances[g] = "EVACUATING" /\ instances'[g] = Gone,
         \A state : Heard(g, state)' => Heard(g, state),
         \/ stored'[g] \in {stored[g], "EVACUATING"}
         \/ instances[g] = Gone /\ ~Heard(g, "EVACUATING")
  PROVE  Replaced(g)'
  BY DEF Replaced, Gone

(* What a sync found evacuating.                                           *)
LEMMA ListenerBeingReplaced ==
  ASSUME NothingFails, TypeInv, PresenceInv, SyncSaves, CacheIsStored,
         ReplacedOnce, ListenerActs, NEW g \in toEvacuate'
  PROVE  BeingReplaced(g)'
<1>1. /\ ~Fault /\ Deas \cap Guids = {} /\ g \in Guids
      /\ stored \in [Guids -> State \cup {NoHeartbeat}]
      /\ startsPosted \in [Guids -> Nat]
      /\ NoHeartbeat # "EVACUATING"
  <2>1. toEvacuate' \in SUBSET Guids
    BY NextTypeInv DEF Next, TypeInv, TypeOK, ListenerTypeOK
  <2> QED
    BY <2>1, NoFaults, ListenerAssumption
    DEF TypeInv, TypeOK, ActualStateTypeOK, ListenerTypeOK, Heartbeats,
        NoHeartbeat
<1>2. ~Waits
  BY DEF Waits
<1>3. ASSUME toEvacuate' \subseteq toEvacuate, startsPosted'[g] = startsPosted[g],
             UNCHANGED batch,
             g \in nodesToSave => g \in nodesToSave' \/ stored'[g] = "EVACUATING",
             stored[g] = "EVACUATING" => stored'[g] = "EVACUATING"
      PROVE  BeingReplaced(g)'
  BY <1>3 DEF ReplacedOnce, BeingReplaced
<1>4. CASE TakeHeartbeats \/ LoadBegins \/ SyncerReads \/ LoadEnds \/ LoadFails
  BY <1>4
  DEF TakeHeartbeats, LoadBegins, SyncerReads, LoadEnds, LoadFails, sync,
      ReplacedOnce
<1>5. CASE MergeHeartbeats
  <2>1. /\ g \in NewlyEvacuating /\ g \in nodesToSave'
        /\ UNCHANGED <<stored, batch, startsPosted>>
    BY <1>5 DEF MergeHeartbeats, NodesToSave, NewlyEvacuating, storeKeys, history
  <2>2. /\ DeaOf[g] \in batch.deas /\ batch.states[g] = "EVACUATING"
        /\ cache[g] # "EVACUATING"
    BY <2>1 DEF NewlyEvacuating, Changed, Reported, OnDeas
  <2>3. stored[g] # "EVACUATING"
    BY <1>1, <1>5, <2>2
    DEF MergeHeartbeats, CacheIsStored, PresenceInv, OneAtATime
  <2>4. startsPosted[g] = 0
    <3>1. Heard(g, "EVACUATING")
      BY <2>2 DEF Heard
    <3> QED
      BY <1>1, <2>3, <3>1 DEF ReplacedOnce, Replaced
  <2> QED
    BY <2>1, <2>2, <2>4 DEF BeingReplaced
<1>6. ASSUME NEW key \in Deas \cup Guids, SaveNode(key) PROVE BeingReplaced(g)'
  <2>1. /\ UNCHANGED <<toEvacuate, startsPosted, batch>>
        /\ nodesToSave' = nodesToSave \ {key} /\ NodeWritten(key)
    BY <1>1, <1>6, SavesNode
  <2>2. batch.states[g] = "EVACUATING"
    BY <2>1 DEF ReplacedOnce, BeingReplaced
  <2>3. CASE key = g
    <3>1. stored'[g] = "EVACUATING"
      BY <1>1, <2>1, <2>2, <2>3 DEF NodeWritten
    <3> QED
      BY <1>3, <2>1, <3>1
  <2>4. CASE key # g
    <3>1. stored'[g] = stored[g]
      BY <1>1, <2>1, <2>4 DEF NodeWritten
    <3> QED
      BY <1>3, <2>1, <2>4, <3>1
  <2> QED
    BY <2>3, <2>4
<1>7. CASE Saved
  BY <1>3, <1>7 DEF Saved, storeKeys, sync, history
<1>8. CASE DeleteGone
  <2>1. /\ UNCHANGED <<toEvacuate, startsPosted, batch, nodesToSave>>
        /\ stored' = [h \in Guids |-> IF h \in keysToDelete THEN NoHeartbeat
                                      ELSE stored[h]]
    BY <1>1, <1>2, <1>8, DeletesAll
  <2>2. g \notin keysToDelete
    BY <1>1, <1>8, <2>1
    DEF DeleteGone, SyncSaves, ReplacedOnce, BeingReplaced
  <2> QED
    BY <1>1, <1>3, <2>1, <2>2
<1>9. CASE Rests
  BY <1>2, <1>3, <1>9 DEF Rests
<1>10. ASSUME NEW h \in Guids, PostEvacuation(h) PROVE BeingReplaced(g)'
  <2>1. /\ g # h /\ g \in toEvacuate /\ startsPosted'[g] = startsPosted[g]
        /\ UNCHANGED <<stored, batch, nodesToSave>>
    BY <1>1, <1>10 DEF PostEvacuation, storeKeys
  <2> QED
    BY <1>10, <1>3, <2>1 DEF PostEvacuation
<1> QED
  BY <1>1, <1>4, <1>5, <1>6, <1>7, <1>8, <1>9, <1>10, ListenerRests
  DEF ListenerActs, ListenerStep

(* The start that is sent.                                                 *)
LEMMA PostReplaces ==
  ASSUME NothingFails, TypeInv, PresenceInv, SyncSaves, ReportsAreTrue,
         ReplacedOnce, ListenerActs, NEW g \in Guids, PostEvacuation(g)
  PROVE  Replaced(g)'
<1>1. /\ syncer = "post" /\ g \in toEvacuate /\ nodesToSave = {}
      /\ UNCHANGED <<stored, presence, heartbeatsToSave, batch, instances>>
  BY DEF PostEvacuation, storeKeys, PresenceInv, OneAtATime, ListenerActs,
         environment
<1>2. /\ startsPosted[g] = 0 /\ DeaOf[g] \in batch.deas
      /\ batch.states[g] = "EVACUATING" /\ stored[g] = "EVACUATING"
  BY <1>1 DEF ReplacedOnce, BeingReplaced
<1>3. startsPosted'[g] = 1
  <2>1. startsPosted \in [Guids -> Nat]
    BY DEF TypeInv, TypeOK, ListenerTypeOK
  <2> QED
    BY <1>2, <2>1, NoFaults DEF PostEvacuation
<1>4. \A state : Heard(g, state)' <=> state = "EVACUATING"
  <2>1. DeaOf[g] \notin heartbeatsToSave.deas
    BY <1>2 DEF PresenceInv, OneAtATime
  <2> QED
    BY <1>1, <1>2, <2>1 DEF Heard
<1>5. instances[g] \in {"EVACUATING", Gone}
  BY <1>2 DEF ReportsAreTrue, Heard
<1>6. presence[DeaOf[g]] > 0
  BY <1>1, <1>2 DEF SyncSaves
<1> QED
  BY <1>1, <1>2, <1>3, <1>4, <1>5, <1>6 DEF Replaced, NoHeartbeat

(* What DEAs and instances do.                                             *)
LEMMA BeatStaysReplaced ==
  ASSUME TypeInv, OneAtATime, NEW d \in Deas, Beat(d), NEW g \in Guids,
         Replaced(g)
  PROVE  Replaced(g)'
<1>1. /\ UNCHANGED <<stored, presence, instances, startsPosted>>
  BY DEF Beat, Heartbeat, storeKeys, history
<1>2. CASE DeaOf[g] = d
  <2>1. \A state : Heard(g, state)' <=> Reports[g] = state
    BY <1>2, BeatIsHeard
  <2>2. \/ instances[g] = "EVACUATING" /\ Reports[g] = "EVACUATING"
        \/ instances[g] = Gone /\ Reports[g] = NoHeartbeat
    BY DEF Reports, Replaced, Gone
  <2>3. NoHeartbeat \notin State /\ NoHeartbeat # "EVACUATING"
    BY DEF NoHeartbeat, State
  <2>4. instances[g] = "EVACUATING" => stored[g] = "EVACUATING"
    BY DEF Replaced, Gone
  <2> QED
    BY <1>1, <2>1, <2>2, <2>3, <2>4 DEF Replaced
<1>3. CASE DeaOf[g] # d
  <2>1. \A state : Heard(g, state)' => Heard(g, state)
    BY <1>3, BeatIsHeard
  <2>2. presence[DeaOf[g]] > 0
    BY DEF Replaced
  <2> QED
    BY <1>1, <2>1, <2>2, StaysReplaced
<1> QED
  BY <1>2, <1>3

(* Every step keeps replacements to one.                                   *)
LEMMA NextReplacedOnce ==
  ASSUME NothingFails, TypeInv, PresenceInv, ReportsAreTrue, SyncSaves,
         CacheIsStored, ReplacedOnce, [Next]_vars, Present \subseteq Present'
  PROVE  ReplacedOnce'
<1>1. /\ startsPosted \in [Guids -> Nat] /\ DeaOf \in [Guids -> Deas]
      /\ toEvacuate \in SUBSET Guids
      /\ instances \in [Guids -> State \cup {NoHeartbeat, Gone}]
  BY DeasAssumption DEF TypeInv, TypeOK, ListenerTypeOK
<1>2. ASSUME NEW g \in Guids, presence[DeaOf[g]] > 0
      PROVE  presence'[DeaOf[g]] > 0
  BY <1>1, <1>2 DEF Present
<1>3. ASSUME NEW g \in Guids, startsPosted'[g] > 0,
             startsPosted'[g] = startsPosted[g], stored'[g] = stored[g],
             \/ instances'[g] = instances[g]
             \/ instances[g] = "EVACUATING" /\ instances'[g] = Gone,
             \A state : Heard(g, state)' => Heard(g, state)
      PROVE  Replaced(g)'
  <2>1. Replaced(g)
    BY <1>3 DEF ReplacedOnce
  <2>2. presence'[DeaOf[g]] > 0
    BY <1>2, <2>1 DEF Replaced
  <2> QED
    BY <1>3, <2>1, <2>2, StaysReplaced
<1>4. ASSUME UNCHANGED <<syncer, batch, nodesToSave, toEvacuate, startsPosted,
                         stored>>
      PROVE  /\ syncer' \in {"wait", "load", "merge"} => toEvacuate' = {}
             /\ \A g \in toEvacuate' : BeingReplaced(g)'
  BY <1>4 DEF ReplacedOnce, BeingReplaced
<1>5. CASE ListenerActs
  <2>1. ASSUME NEW g \in Guids, startsPosted'[g] > 0,
               startsPosted'[g] = startsPosted[g]
        PROVE  Replaced(g)'
    <3>1. Replaced(g)
      BY <2>1 DEF ReplacedOnce
    <3>2. presence'[DeaOf[g]] > 0
      BY <1>2, <3>1 DEF Replaced
    <3>3. instances' = instances
      BY <1>5 DEF ListenerActs, environment
    <3>4. \A state : Heard(g, state)' => Heard(g, state)
      BY <1>5, ListenerHeard
    <3>5. \/ stored'[g] \in {stored[g], "EVACUATING"}
          \/ instances[g] = Gone /\ ~Heard(g, "EVACUATING")
      BY <1>5, <3>1, ListenerLeavesReplaced
    <3> QED
      BY <2>1, <3>1, <3>2, <3>3, <3>4, <3>5, StaysReplaced
  <2>2. ASSUME NEW g \in Guids, startsPosted'[g] > 0,
               startsPosted'[g] # startsPosted[g]
        PROVE  Replaced(g)'
    <3>1. PICK h \in Guids : PostEvacuation(h)
      BY <1>5, <2>2, NoFaults, DeletesAll, ListenerRests
      DEF ListenerActs, ListenerStep, TakeHeartbeats, LoadBegins, SyncerReads,
          LoadEnds, LoadFails, MergeHeartbeats, SaveNode, Saved, Rests, history
    <3>2. g = h
      BY <1>1, <2>2, <3>1 DEF PostEvacuation
    <3> QED
      BY <1>5, <3>1, <3>2, PostReplaces
  <2>3. \A g \in toEvacuate' : BeingReplaced(g)'
    BY <1>5, ListenerBeingReplaced
  <2>4. syncer' \in {"wait", "load", "merge"} => toEvacuate' = {}
    <3>1. Waits => toEvacuate' = {}
      BY DEF Waits
    <3>2. CASE TakeHeartbeats \/ LoadBegins \/ SyncerReads \/ LoadEnds
      BY <3>2
      DEF TakeHeartbeats, LoadBegins, SyncerReads, LoadEnds, sync, ReplacedOnce
    <3>3. CASE \/ LoadFails \/ MergeHeartbeats \/ Saved \/ DeleteGone \/ Rests
               \/ (\E key \in Deas \cup Guids : SaveNode(key))
               \/ (\E g \in Guids : PostEvacuation(g))
      BY <3>1, <3>3, NoFaults, DeletesAll
      DEF LoadFails, MergeHeartbeats, SaveNode, Saved, Rests, PostEvacuation
    <3> QED
      BY <1>5, <3>2, <3>3, NoFaults, ListenerRests DEF ListenerActs, ListenerStep
  <2> QED
    BY <2>1, <2>2, <2>3, <2>4 DEF ReplacedOnce
<1>6. ASSUME NEW h \in Guids, InstanceChanges(h) PROVE ReplacedOnce'
  <2>1. /\ UNCHANGED <<syncer, batch, nodesToSave, toEvacuate, startsPosted, stored>>
        /\ \A g \in Guids : \A state : Heard(g, state)' => Heard(g, state)
    BY <1>6, OthersHeard
    DEF InstanceChanges, ListenerUnchanged, storeKeys, sync, history,
        NothingFails, PresenceInv
  <2>2. ASSUME NEW g \in Guids, startsPosted'[g] > 0
        PROVE  \/ instances'[g] = instances[g]
               \/ instances[g] = "EVACUATING" /\ instances'[g] = Gone
    <3>1. instances[g] \in {"EVACUATING", Gone}
      BY <2>1, <2>2 DEF ReplacedOnce, Replaced
    <3>2. instances[g] = Gone => Follows(instances[g]) = {}
      BY DEF Follows, Gone, NoHeartbeat
    <3>3. instances[g] = "EVACUATING" => Follows(instances[g]) = {Gone}
      BY DEF Follows, Gone, NoHeartbeat
    <3> QED
      BY <1>1, <1>6, <3>1, <3>2, <3>3 DEF InstanceChanges
  <2> QED
    BY <1>3, <1>4, <2>1, <2>2 DEF ReplacedOnce
<1>7. ASSUME NEW d \in Deas, Beat(d) PROVE ReplacedOnce'
  <2>1. UNCHANGED <<syncer, batch, nodesToSave, toEvacuate, startsPosted, stored>>
    BY <1>7 DEF Beat, Heartbeat, storeKeys, sync, history
  <2>2. ASSUME NEW g \in Guids, startsPosted'[g] > 0 PROVE Replaced(g)'
    BY <1>7, <2>1, <2>2, BeatStaysReplaced DEF ReplacedOnce, PresenceInv
  <2> QED
    BY <1>4, <2>1, <2>2 DEF ReplacedOnce
<1>8. CASE Restart
  <2>1. /\ toEvacuate' = {} /\ UNCHANGED <<startsPosted, stored, instances>>
        /\ \A g \in Guids : \A state : Heard(g, state)' => Heard(g, state)
    BY <1>8, OthersHeard
    DEF Restart, ListenerRestarts, Waits, storeKeys, NothingFails, PresenceInv
  <2> QED
    BY <1>3, <2>1 DEF ReplacedOnce
<1>9. CASE \/ Tick \/ (\E d \in Deas : DeaComesBack(d))
           \/ (\E s \in Readers : ReaderActs(s)) \/ UNCHANGED vars
  <2>1. /\ UNCHANGED <<syncer, batch, nodesToSave, toEvacuate, startsPosted,
                       instances>>
    BY <1>9
    DEF Tick, DeaComesBack, ListenerUnchanged, ReaderActs, vars, environment,
        sync, history
  <2>2. stored' = stored
    BY <1>9, ReaderKeepsStored
    DEF Tick, DeaComesBack, ListenerUnchanged, vars, storeKeys, PresenceInv
  <2>3. \A g \in Guids : \A state : Heard(g, state)' => Heard(g, state)
    BY <1>9, OthersHeard DEF NothingFails, PresenceInv
  <2> QED
    BY <1>3, <1>4, <2>1, <2>2, <2>3 DEF ReplacedOnce
<1> QED
  BY <1>5, <1>6, <1>7, <1>8, <1>9, NoneSilent DEF Next, Environment, NothingFails

(* At the start all this holds.                                            *)
LEMMA InitCalmInv ==
  ASSUME Init
  PROVE  CalmInv
<1>1. /\ heartbeatsToSave = NoReport /\ batch = NoReport /\ nodesToSave = {}
      /\ ~saveFailed /\ keysToDelete = {} /\ toEvacuate = {}
      /\ syncer = "wait" /\ cacheAge = CacheRefreshInterval
      /\ \A g \in Guids : startsPosted[g] = 0
  BY DEF Init, ListenerInit
<1>2. /\ handle[Syncer].read = "idle"
      /\ \A g \in Guids : steadyFor[g] = 0
      /\ bounds.restarts = 0
  BY ListenerAssumption DEF Init, ActualStateInit, NewRealStore
<1>3. \A g \in Guids : \A state : ~Heard(g, state)
  BY <1>1 DEF Heard, NoReport
<1>4. ReportsAreTrue /\ StoredInTime
  BY <1>2, <1>3 DEF ReportsAreTrue, StoredInTime
<1>5. LoadIsStored /\ CacheIsStored
  BY <1>1, <1>2 DEF LoadIsStored, CacheIsStored
<1>6. SyncSaves /\ ReplacedOnce
  BY <1>1 DEF SyncSaves, ReplacedOnce, NoReport
<1> QED
  BY <1>4, <1>5, <1>6 DEF CalmInv

(* Every step keeps the invariant.                                         *)
LEMMA NextCalmInv ==
  ASSUME NothingFails, TypeInv, PresenceInv, CalmInv, [Next]_vars
  PROVE  CalmInv'
<1>1. KeepsPace
  BY DEF NothingFails
<1>2. OneAtATime /\ PresenceLasts /\ CachesAreComplete
  BY DEF PresenceInv
<1>3. Sizes /\ Sizes'
  <2>1. TypeInv'
    BY NextTypeInv
  <2>2. TypeInv' => Sizes'
    BY SizesOK, PTL
  <2> QED
    BY <2>1, <2>2, SizesOK
<1>4. Present \subseteq Present' /\ (syncer # "save" => Present' = Present)
  BY <1>1, <1>2, <1>3, PresentStays
<1> QED
  BY <1>1, <1>2, <1>4, NextReportsAreTrue, NextLoadIsStored, NextCacheIsStored,
     NextSyncSaves, NextStoredInTime, NextReplacedOnce
  DEF CalmInv

(* So it is an invariant.                                                  *)
LEMMA CalmSpec ==
  ASSUME NothingFails
  PROVE  Spec => [](TypeInv /\ PresenceInv /\ CalmInv)
<1> DEFINE Inv == TypeInv /\ PresenceInv /\ CalmInv
<1>1. Init => Inv
  BY InitPresenceInv, InitCalmInv DEF NothingFails
<1>2. Inv /\ [Next]_vars => Inv'
  BY NextPresenceInv, NextCalmInv DEF NothingFails
<1> QED
  BY <1>1, <1>2, PTL DEF Spec

(* FreshIsComplete: while processes keep pace and no call fails, a state   *)
(* taken for fresh lacks no instance its DEA has been reporting for a TTL, *)
(* wherever in a sync the listener restarts.  Fresh or not, an instance    *)
(* that is absent has been reported once, and once more for each restart,  *)
(* and there are fewer of those than heartbeats in a TTL.                  *)
THEOREM WhatIsFreshIsComplete ==
  ASSUME NothingFails
  PROVE  Spec => []FreshIsComplete
<1>1. TypeInv /\ PresenceInv /\ CalmInv => FreshIsComplete
  <2> SUFFICES ASSUME TypeInv, PresenceInv, CalmInv, IsActualStateFresh,
                      NEW g \in Guids, steadyFor[g] = ActualFreshnessTTL + 1,
                      stored[g] = NoHeartbeat
               PROVE  FALSE
    BY DEF FreshIsComplete
  <2>1. steadyFor[g] <= bounds.restarts + (IF UnderWay(g) THEN 1 ELSE 0)
    BY DEF CalmInv, StoredInTime, Absent
  <2>2. /\ bounds.restarts \in Nat /\ bounds.restarts <= MaxLosses
        /\ MaxLosses < ActualFreshnessTTL
        /\ MaxLosses \in Nat /\ ActualFreshnessTTL \in Nat
    BY TTLs, HeartbeatingAssumption, MaxFaultsAssumption
    DEF TypeInv, TypeOK, Bounds, MaxLosses, NothingFails, KeepsPace
  <2> QED
    BY <2>1, <2>2
<1> QED
  BY <1>1, CalmSpec, PTL

(* EvacuatedOnce: then the start that replaces an evacuating instance is   *)
(* posted once, however often its DEA reports it evacuating, and wherever  *)
(* the listener restarts: the state it was saved in before the start was   *)
(* posted is what the cache is made anew from.                             *)
THEOREM StartsReplaceOnce ==
  ASSUME NothingFails
  PROVE  Spec => []EvacuatedOnce
<1>1. TypeInv /\ CalmInv => EvacuatedOnce
  <2> SUFFICES ASSUME TypeInv, CalmInv, NEW g \in Guids
               PROVE  startsPosted[g] <= 1
    BY DEF EvacuatedOnce
  <2>1. startsPosted[g] \in Nat
    BY DEF TypeInv, TypeOK, ListenerTypeOK
  <2> QED
    BY <2>1 DEF CalmInv, ReplacedOnce, Replaced
<1> QED
  BY <1>1, CalmSpec, PTL
=============================================================================
