------------------------------ MODULE Messages ------------------------------
(***************************************************************************)
(* The data the health manager's processes exchange through the store: the *)
(* view of one app (models/app.go, models/instance_heartbeat.go) and the   *)
(* pending start and stop messages (models/pending_messages.go).           *)
(*                                                                         *)
(* One app version is modelled, so a start message is keyed by its index   *)
(* and a stop message by its instance.  A map of the store or of the       *)
(* program is a total function whose value at an absent key is Go's zero   *)
(* value: a heartbeat in the state "", a message with the reason "".       *)
(***************************************************************************)
EXTENDS Integers, FiniteSets

CONSTANTS
  Guids,          \* instances the DEAs may ever run
  MaxIndex,       \* bound: the highest instance index
  IndexOf         \* the index each instance was started with

Indices == 0..MaxIndex

ASSUME InstancesAssumption ==
  /\ IsFiniteSet(Guids)
  /\ MaxIndex \in Nat
  /\ IndexOf \in [Guids -> Indices]

---------------------------------------------------------------------------
(* Instances and apps.                                                     *)

State == {"STARTING", "RUNNING", "CRASHED", "EVACUATING"}
NoHeartbeat == ""
Heartbeats == [Guids -> State \cup {NoHeartbeat}]

IsStartingOrRunning(state) == state \in {"STARTING", "RUNNING"}

(* models.DesiredAppState; desired tells IsDesired (a non-empty AppGuid).  *)
DesiredAppState ==
  [desired : BOOLEAN, staged : BOOLEAN, instances : 0..MaxIndex + 1]

NotDesired == [desired |-> FALSE, staged |-> FALSE, instances |-> 0]

(* models.App: what the Cloud Controller wants, what the DEAs report, and  *)
(* how often each index has crashed.                                       *)
App == [desired : DesiredAppState, heartbeats : Heartbeats,
        crashCounts : [Indices -> Nat]]

IsIndexDesired(app, index) == index < app.desired.instances

InstanceHeartbeatsAtIndex(app, index) ==
  {g \in Guids : app.heartbeats[g] # NoHeartbeat /\ IndexOf[g] = index}

InstancesAtIndex(app, index, states) ==
  {g \in InstanceHeartbeatsAtIndex(app, index) : app.heartbeats[g] \in states}

StartingOrRunningInstancesAtIndex(app, index) ==
  {g \in InstanceHeartbeatsAtIndex(app, index) :
     IsStartingOrRunning(app.heartbeats[g])}

HasStartingOrRunningInstanceAtIndex(app, index) ==
  StartingOrRunningInstancesAtIndex(app, index) # {}

HasCrashedInstanceAtIndex(app, index) ==
  InstancesAtIndex(app, index, {"CRASHED"}) # {}

HasRunningInstanceAtIndex(app, index) ==
  InstancesAtIndex(app, index, {"RUNNING"}) # {}

HasStartingInstanceAtIndex(app, index) ==
  InstancesAtIndex(app, index, {"STARTING"}) # {}

EvacuatingInstancesAtIndex(app, index) ==
  InstancesAtIndex(app, index, {"EVACUATING"})

HasStartingOrRunningInstances(app) ==
  \E g \in Guids : IsStartingOrRunning(app.heartbeats[g])

ExtraStartingOrRunningInstances(app) ==
  {g \in Guids : /\ ~IsIndexDesired(app, IndexOf[g])
                 /\ IsStartingOrRunning(app.heartbeats[g])}

(* InstanceWithGuid of an instance that does not heartbeat is the zero     *)
(* heartbeat: its index reads 0 and its state "".                          *)
ReportedIndex(app, guid) ==
  IF app.heartbeats[guid] = NoHeartbeat THEN 0 ELSE IndexOf[guid]

---------------------------------------------------------------------------
(* Pending messages.                                                       *)

StartReason == {"CRASHED", "MISSING", "EVACUATING"}
StopReason == {"EXTRA", "DUPLICATE", "EVACUATION_COMPLETE"}

PendingStartMessage ==
  [reason : StartReason \cup {""}, sendOn : Int, sentOn : Int,
   keepAlive : Int, skipVerification : BOOLEAN]

PendingStopMessage ==
  [reason : StopReason \cup {""}, sendOn : Int, sentOn : Int, keepAlive : Int]

NewPendingStartMessage(now, delay, keepAlive, reason) ==
  [reason |-> reason, sendOn |-> now + delay, sentOn |-> 0,
   keepAlive |-> keepAlive, skipVerification |-> FALSE]

NewPendingStopMessage(now, delay, keepAlive, reason) ==
  [reason |-> reason, sendOn |-> now + delay, sentOn |-> 0,
   keepAlive |-> keepAlive]

NoStart == NewPendingStartMessage(0, 0, 0, "")
NoStop == NewPendingStopMessage(0, 0, 0, "")

Queued(message) == message.reason # ""

(* A save writes the messages of some keys over what the map held.         *)
QueuedKeys(map) == {key \in DOMAIN map : Queued(map[key])}

(* Faulty variant: a save replaces what was stored.                        *)
WriteOnlyNew(map, new, keys) == [key \in keys |-> new[key]]

Write(map, new, keys) ==
  [key \in DOMAIN map |-> IF key \in keys THEN new[key] ELSE map[key]]

HasBeenSent(message) == message.sentOn # 0

(* Faulty variant: a message may be sent again.                            *)
IsTimeToSendAgain(message, now) == message.sendOn <= now

IsTimeToSend(message, now) == ~HasBeenSent(message) /\ message.sendOn <= now

IsExpired(message, now) ==
  HasBeenSent(message) /\ message.sentOn + message.keepAlive <= now
=============================================================================
