---------------------------- MODULE AppAnalyzer ----------------------------
(***************************************************************************)
(* analyzer/app_analyzer.go: what one analysis of one app decides, as      *)
(* operators of the app and of the messages already in the store.          *)
(*                                                                         *)
(* newAppAnalyzer's argument is the record `a' here: the app, currentTime, *)
(* the existing starts and stops, and `order', the position of each        *)
(* instance in the heartbeat list.  The list is built from a directory     *)
(* listing, so nothing may be assumed of that order.                       *)
(***************************************************************************)
EXTENDS Messages

CONSTANTS
  GracePeriod,                         \* conf.GracePeriod()
  NumberOfCrashesBeforeBackoffBegins,  \* conf, as are the next two
  StartingBackoffDelay,
  MaximumBackoffDelay

ASSUME DelaysAssumption ==
  /\ GracePeriod \in Nat \ {0}
  /\ NumberOfCrashesBeforeBackoffBegins \in Nat
  /\ StartingBackoffDelay \in Nat \ {0}
  /\ MaximumBackoffDelay \in Nat
  /\ StartingBackoffDelay <= MaximumBackoffDelay

Orders == {r \in [Guids -> 0..Cardinality(Guids) - 1] :
             \A g, h \in Guids : r[g] = r[h] => g = h}

(* ComputeCrashDelay: the first crashes restart at once, then the delay    *)
(* doubles from the starting delay up to the maximum.                      *)
ComputeCrashDelay(crashCount) ==
  LET doublings == crashCount - NumberOfCrashesBeforeBackoffBegins
      delay == StartingBackoffDelay * 2^doublings
  IN  IF doublings < 0 THEN 0
      ELSE IF delay > MaximumBackoffDelay THEN MaximumBackoffDelay
      ELSE delay

---------------------------------------------------------------------------
(* Starts.                                                                 *)

(* Faulty variant: existing messages are not looked at.                    *)
NeverQueued(a, index) == FALSE

AlreadyQueued(a, index) == Queued(a.starts[index])

StartsMissing(a, index) ==
  /\ a.app.desired.staged
  /\ IsIndexDesired(a.app, index)
  /\ ~HasStartingOrRunningInstanceAtIndex(a.app, index)
  /\ ~HasCrashedInstanceAtIndex(a.app, index)
  /\ EvacuatingInstancesAtIndex(a.app, index) = {}
  /\ ~AlreadyQueued(a, index)

(* Faulty variant: index 0 is no exception.                                *)
StartsCrashedNoProbe(a, index) ==
  /\ a.app.desired.staged
  /\ IsIndexDesired(a.app, index)
  /\ ~HasStartingOrRunningInstanceAtIndex(a.app, index)
  /\ HasCrashedInstanceAtIndex(a.app, index)
  /\ HasStartingOrRunningInstances(a.app)
  /\ ~AlreadyQueued(a, index)

(* A crashed index other than 0 is only restarted when something of the    *)
(* app runs: index 0 probes for the rest.                                  *)
StartsCrashed(a, index) ==
  /\ a.app.desired.staged
  /\ IsIndexDesired(a.app, index)
  /\ ~HasStartingOrRunningInstanceAtIndex(a.app, index)
  /\ HasCrashedInstanceAtIndex(a.app, index)
  /\ index = 0 \/ HasStartingOrRunningInstances(a.app)
  /\ ~AlreadyQueued(a, index)

(* Whether the loop over evacuating indices gets past its two continues.   *)
EvacuationGoesOn(a, index) ==
  /\ IsIndexDesired(a.app, index)
  /\ ~HasRunningInstanceAtIndex(a.app, index)
  /\ ~HasStartingInstanceAtIndex(a.app, index)

StartsEvacuating(a, index) ==
  /\ EvacuatingInstancesAtIndex(a.app, index) # {}
  /\ EvacuationGoesOn(a, index)
  /\ ~AlreadyQueued(a, index)

(* startMessages is keyed by index: an evacuation overwrites the start of  *)
(* a crashed instance at the same index.                                   *)
NewStart(a, index) ==
  IF StartsEvacuating(a, index)
  THEN NewPendingStartMessage(a.now, 0, GracePeriod, "EVACUATING")
  ELSE IF StartsCrashed(a, index)
  THEN NewPendingStartMessage(a.now,
         ComputeCrashDelay(a.app.crashCounts[index]), GracePeriod, "CRASHED")
  ELSE IF StartsMissing(a, index)
  THEN NewPendingStartMessage(a.now, GracePeriod, 0, "MISSING")
  ELSE NoStart

NewStarts(a) == [index \in Indices |-> NewStart(a, index)]

(* Faulty variants: the count is not raised; it is lowered.                *)
CrashCountsUnchanged(a) ==
  [index \in Indices |->
     IF StartsCrashed(a, index) THEN a.app.crashCounts[index] ELSE 0]
CrashCountsLowered(a) ==
  [index \in Indices |->
     IF StartsCrashed(a, index) THEN a.app.crashCounts[index] - 1 ELSE 0]

(* The crash counts to save: one more for each crashed start enqueued, one *)
(* that an evacuation then overwrote included; 0 where none is saved.      *)
CrashCountsToSave(a) ==
  [index \in Indices |->
     IF StartsCrashed(a, index) THEN a.app.crashCounts[index] + 1 ELSE 0]

---------------------------------------------------------------------------
(* Stops.                                                                  *)

(* An evacuating instance whose index is no longer wanted.                 *)
StopsEvacuatingExtra(a, guid) ==
  /\ a.app.heartbeats[guid] = "EVACUATING"
  /\ ~IsIndexDesired(a.app, IndexOf[guid])

(* Faulty variant: an instance that only starts counts as a replacement.   *)
StopsEvacuatedEarly(a, guid) ==
  /\ a.app.heartbeats[guid] = "EVACUATING"
  /\ IsIndexDesired(a.app, IndexOf[guid])
  /\ HasStartingOrRunningInstanceAtIndex(a.app, IndexOf[guid])

(* An evacuating instance that is replaced, not staged, or crash-prone.    *)
StopsEvacuated(a, guid) ==
  LET index == IndexOf[guid]
  IN  /\ a.app.heartbeats[guid] = "EVACUATING"
      /\ IsIndexDesired(a.app, index)
      /\ \/ ~a.app.desired.staged
         \/ HasRunningInstanceAtIndex(a.app, index)
         \/ EvacuationGoesOn(a, index) /\ a.app.crashCounts[index] > 0

(* Faulty variant: the starts of crashed instances do not count.           *)
StartsNoneMissing(a) ==
  \A index \in Indices :
    ~StartsMissing(a, index) /\ ~StartsEvacuating(a, index)

(* Extra and duplicate instances are only looked at when this analysis     *)
(* starts nothing; a start already queued does not count.                  *)
StartsNothing(a) == \A index \in Indices : ~Queued(NewStart(a, index))

StopsExtra(a, guid) ==
  StartsNothing(a) /\ guid \in ExtraStartingOrRunningInstances(a.app)

Duplicates(a, guid) ==
  StartingOrRunningInstancesAtIndex(a.app, IndexOf[guid])

StopsDuplicate(a, guid) ==
  /\ StartsNothing(a)
  /\ IsIndexDesired(a.app, IndexOf[guid])
  /\ guid \in Duplicates(a, guid)
  /\ Cardinality(Duplicates(a, guid)) > 1

(* Faulty variant: all the duplicates at once.                             *)
DuplicateDelayFlat(a, guid) == 4 * GracePeriod

(* The i-th duplicate of an index waits four grace periods and i more.     *)
DuplicateDelay(a, guid) ==
  4 * GracePeriod + GracePeriod *
    Cardinality({h \in Duplicates(a, guid) : a.order[h] < a.order[guid]})

(* The four cases exclude one another: an instance is either evacuating or *)
(* starting or running, and its index is desired or not.                   *)
NewStop(a, guid) ==
  LET Stop(delay, reason) ==
        NewPendingStopMessage(a.now, delay, GracePeriod, reason)
  IN  IF Queued(a.stops[guid]) THEN NoStop
      ELSE IF StopsEvacuatingExtra(a, guid) \/ StopsExtra(a, guid)
      THEN Stop(0, "EXTRA")
      ELSE IF StopsEvacuated(a, guid) THEN Stop(0, "EVACUATION_COMPLETE")
      ELSE IF StopsDuplicate(a, guid)
      THEN Stop(DuplicateDelay(a, guid), "DUPLICATE")
      ELSE NoStop

NewStops(a) == [guid \in Guids |-> NewStop(a, guid)]

---------------------------------------------------------------------------
(* analyzeApp, as Analyze uses it: an app found in no batch is analyzed as *)
(* one that wants no instances, and its start messages are dropped (it can *)
(* have none: no index is desired).                                        *)
Analysis(a) ==
  [starts |-> NewStarts(a), stops |-> NewStops(a),
   crashCounts |-> CrashCountsToSave(a)]
=============================================================================
