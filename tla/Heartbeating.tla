---------------------------- MODULE Heartbeating ----------------------------
(***************************************************************************)
(* How the actual state comes to be what other processes act on: DEAs      *)
(* report their instances, the listener saves the reports, and readers     *)
(* (the analyzer, the API server) read them once freshness is verified, or *)
(* (hm dump) whatever it is.                                               *)
(***************************************************************************)
EXTENDS Listener

CONSTANTS
  Dumpers,        \* the RealStores of hm dump
  MaxChanges,     \* bound: changes of instances and runs of hm dump
  MaxSilences,    \* bound: how often a DEA falls silent
  MaxRestarts,    \* bound: restarts of the listener
  MaxLate         \* bound: heartbeat periods that pass while a process works

ASSUME HeartbeatingAssumption ==
  /\ Dumpers \subseteq Stores \ {Syncer}
  /\ MaxChanges \in Nat /\ MaxSilences \in Nat /\ MaxRestarts \in Nat
  /\ MaxLate \in Nat

VARIABLES
  instances,      \* the state of each instance, while there is one
  up,             \* DEAs that send heartbeats
  beaten,         \* those that did since the clock last moved
  bounds,         \* how many changes, silences, restarts and late periods
  presentFor,     \* history: how long the freshness key has been there
  steadyFor       \* history: heartbeats in a row that reported an instance

environment == <<instances, up, beaten, bounds>>
vars == <<storeKeys, handle, syncer, heartbeatsToSave, sync, caches, sender,
          history, faults, environment, presentFor, steadyFor>>

Less(left) == IF left = 0 THEN 0 ELSE left - 1
More(age, limit) == IF age = limit THEN limit ELSE age + 1

Readers == Stores \ {Syncer}
Gone == "GONE"

Bounds == [changes : 0..MaxChanges, silences : 0..MaxSilences,
           restarts : 0..MaxRestarts, late : 0..MaxLate]

TypeOK ==
  /\ faults \in 0..MaxFaults
  /\ ActualStateTypeOK
  /\ ListenerTypeOK
  /\ instances \in [Guids -> State \cup {NoHeartbeat, Gone}]
  /\ up \in SUBSET Deas
  /\ beaten \in SUBSET up
  /\ bounds \in Bounds
  /\ presentFor \in 0..ActualFreshnessTTL
  /\ steadyFor \in [Guids -> 0..ActualFreshnessTTL + 1]

(* What a DEA says of its instances.                                       *)
Reports == [g \in Guids |-> IF instances[g] = Gone THEN NoHeartbeat
                            ELSE instances[g]]

(* The system begins with an empty store, some DEAs and instances being    *)
(* there already.                                                          *)
Init ==
  /\ faults = 0
  /\ ActualStateInit
  /\ ListenerInit
  /\ instances \in [Guids -> {NoHeartbeat, "RUNNING"}]
  /\ up \in {Deas} \cup (IF MaxSilences > 0 THEN SUBSET Deas ELSE {})
  /\ beaten = {}
  /\ bounds = [changes |-> 0, silences |-> 0, restarts |-> 0, late |-> 0]
  /\ presentFor = 0
  /\ steadyFor = [g \in Guids |-> 0]

---------------------------------------------------------------------------
(* The environment.                                                        *)

ListenerUnchanged ==
  UNCHANGED <<storeKeys, handle, syncer, heartbeatsToSave, sync, caches,
              sender, history, faults>>

(* An instance starts, runs, crashes or is evacuated, and is gone for good *)
(* in the end: a new one has a GUID of its own.                            *)
Follows(state) ==
  CASE state = NoHeartbeat -> {"STARTING"}
    [] state = "STARTING" -> {"RUNNING", "CRASHED", Gone}
    [] state = "RUNNING" -> {"CRASHED", "EVACUATING", Gone}
    [] state \in {"CRASHED", "EVACUATING"} -> {Gone}
    [] OTHER -> {}

InstanceChanges(g) ==
  /\ bounds.changes < MaxChanges
  /\ bounds' = [bounds EXCEPT !.changes = @ + 1]
  /\ \E state \in Follows(instances[g]) :
       /\ instances' = [instances EXCEPT ![g] = state]
       /\ steadyFor' = [steadyFor EXCEPT ![g] = IF state = Gone THEN 0 ELSE @]
  /\ UNCHANGED <<up, beaten, presentFor>>
  /\ ListenerUnchanged

DeaFallsSilent(d) ==
  /\ d \in up
  /\ bounds.silences < MaxSilences
  /\ bounds' = [bounds EXCEPT !.silences = @ + 1]
  /\ up' = up \ {d}
  /\ beaten' = beaten \ {d}
  /\ steadyFor' = [g \in Guids |-> IF DeaOf[g] = d THEN 0 ELSE steadyFor[g]]
  /\ UNCHANGED <<instances, presentFor>>
  /\ ListenerUnchanged

DeaComesBack(d) ==
  /\ d \in Deas \ up
  /\ up' = up \cup {d}
  /\ UNCHANGED <<instances, beaten, bounds, presentFor, steadyFor>>
  /\ ListenerUnchanged

Beat(d) ==
  /\ d \in up \ beaten
  /\ Heartbeat(d, Reports)
  /\ beaten' = beaten \cup {d}
  /\ steadyFor' = [g \in Guids |->
       IF DeaOf[g] = d /\ Reports[g] # NoHeartbeat
       THEN More(steadyFor[g], ActualFreshnessTTL + 1) ELSE steadyFor[g]]
  /\ UNCHANGED <<instances, up, bounds, presentFor>>

Restart ==
  /\ bounds.restarts < MaxRestarts
  /\ bounds' = [bounds EXCEPT !.restarts = @ + 1]
  /\ ListenerRestarts
  /\ UNCHANGED <<instances, up, beaten, presentFor, steadyFor>>

Idle ==
  /\ beaten = up
  /\ syncer = "wait"
  /\ heartbeatsToSave.deas = {}
  /\ \A s \in Stores : handle[s].read = "idle"

(* Every process is done with its work before time goes on.                *)
Prompt == MaxLate = 0

(* One heartbeat period passes: over idle processes, or while a call takes *)
(* its time or a heartbeat does not come.                                  *)
Tick ==
  /\ \/ Idle /\ UNCHANGED bounds
     \/ ~Idle /\ bounds.late < MaxLate
        /\ bounds' = [bounds EXCEPT !.late = @ + 1]
  /\ presence' = [d \in Deas |-> Less(presence[d])]
  /\ handle' = [s \in Stores |-> [handle[s] EXCEPT
                  !.deaCacheAge = More(@, HeartbeatPeriod + 1)]]
  /\ freshness' = IF freshness.left <= 1 THEN NotThere
                  ELSE [left |-> freshness.left - 1,
                        age |-> More(freshness.age, ActualFreshnessTTL)]
  /\ cacheAge' = More(cacheAge, CacheRefreshInterval)
  /\ elapsed' = IF syncer = "wait" THEN 0
                ELSE More(elapsed, CacheRefreshInterval)
  /\ oldAge' = IF syncer = "write" THEN More(oldAge, ActualFreshnessTTL)
               ELSE oldAge
  /\ beaten' = {}
  /\ presentFor' = IF freshness'.left = 0 THEN 0
                   ELSE More(presentFor, ActualFreshnessTTL)
  /\ UNCHANGED <<stored, starts, syncer, heartbeatsToSave, batch, nodesToSave,
                 saveFailed, keysToDelete, toEvacuate, cache, sender, history,
                 faults, instances, up, steadyFor>>

Environment ==
  \/ \E g \in Guids : InstanceChanges(g)
  \/ \E d \in Deas : DeaFallsSilent(d) \/ DeaComesBack(d) \/ Beat(d)
  \/ Restart \/ Tick

---------------------------------------------------------------------------
(* The processes.                                                          *)

(* Analyze and bulk_app_state verify freshness before they read.           *)
ReaderBegins(s) ==
  /\ s \notin Dumpers
  /\ IsActualStateFresh
  /\ BeginRead(s)
  /\ UNCHANGED bounds

(* dumpStructured says whether the state is fresh, and reads it all the    *)
(* same.                                                                   *)
DumpBegins(s) ==
  /\ s \in Dumpers
  /\ bounds.changes < MaxChanges
  /\ bounds' = [bounds EXCEPT !.changes = @ + 1]
  /\ BeginRead(s)

(* A dump is a process of its own; the next has a RealStore just made.     *)
ReaderReturns(s) ==
  /\ handle[s].read \in {"done", "failed"}
  /\ handle' = IF s \in Dumpers THEN [handle EXCEPT ![s] = NewRealStore]
               ELSE AfterRead(s)
  /\ UNCHANGED <<stored, presence, faults, bounds>>

ReaderActs(s) ==
  /\ \/ ReaderBegins(s) \/ DumpBegins(s)
     \/ Reading(s) /\ UNCHANGED bounds
     \/ ReaderReturns(s)
  /\ UNCHANGED <<freshness, starts, syncer, heartbeatsToSave, sync, caches,
                 sender, history, instances, up, beaten, presentFor, steadyFor>>

ListenerActs ==
  /\ ListenerStep
  /\ presentFor' = IF freshness'.left = 0 THEN 0 ELSE presentFor
  /\ UNCHANGED <<environment, steadyFor>>

Next == Environment \/ ListenerActs \/ \E s \in Readers : ReaderActs(s)

(* Processes go on, DEAs keep sending, a silent one comes back, and time   *)
(* passes whatever a reader does in an instant (strong fairness).  A       *)
(* reader need not read again, but ends the read it began.                 *)
Fairness ==
  /\ WF_vars(ListenerActs)
  /\ SF_vars(Tick)
  /\ \A d \in Deas : WF_vars(Beat(d)) /\ WF_vars(DeaComesBack(d))
  /\ \A s \in Readers :
       WF_vars(ReaderActs(s) /\ handle[s].read # "idle")

Spec == Init /\ [][Next]_vars /\ Fairness

---------------------------------------------------------------------------
(* Properties.                                                             *)

(* bumpFreshness, IsActualStateFresh: the actual state is taken for fresh  *)
(* only if its key has been in the store for a whole TTL without a gap, as *)
(* the README says of actual_freshness_ttl_in_heartbeats.                  *)
FreshOnlyIfPresent == IsActualStateFresh => presentFor = ActualFreshnessTTL

(* SyncHeartbeats: an actual state that other processes trust lacks no     *)
(* instance its DEA has been reporting for as long as it takes to become   *)
(* fresh, first and last heartbeat included.  Otherwise the analyzer       *)
(* starts instances that are running.                                      *)
FreshIsComplete ==
  IsActualStateFresh =>
    \A g \in Guids :
      steadyFor[g] = ActualFreshnessTTL + 1 => stored[g] # NoHeartbeat

(* heartbeatsForNode: a read deletes no instance whose DEA is present.     *)
PresentDeasAreKept ==
  [][\A g \in Guids :
       (/\ stored[g] # NoHeartbeat /\ presence[DeaOf[g]] > 0
        /\ \E s \in Stores : handle[s].read = "delete" /\ handle'[s] # handle[s])
       => stored'[g] # NoHeartbeat]_vars

(* SyncHeartbeats, syncHeartbeats: the start that replaces an evacuating   *)
(* instance is posted once, however often the DEA reports it evacuating    *)
(* and the listener restarts.                                              *)
EvacuatedOnce == \A g \in Guids : startsPosted[g] <= 1

(* sender.numberOfStartMessagesSent: starts are left out only when the     *)
(* limit was reached by the Send that leaves them out.                     *)
LimitIsPerInvocation ==
  [][(syncer = "post" /\ syncer' = "keep" /\ toEvacuate # {})
       => postedNow = SenderMessageLimit]_vars

(* loadCache: whatever went wrong, once DEAs and instances stay as they    *)
(* are the store comes to agree with what the DEAs report and stays so.    *)
StoreRecovers == <>[](stored = Reports)
=============================================================================
