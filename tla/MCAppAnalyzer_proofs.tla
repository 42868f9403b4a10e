------------------------ MODULE MCAppAnalyzer_proofs ------------------------
(***************************************************************************)
(* The properties of analyzeApp, for any instances on any indices, any     *)
(* order of the heartbeats and any crash counts.                           *)
(***************************************************************************)
EXTENDS MCAppAnalyzer, AppAnalyzer_proofs

(* An input, and nothing or its analysis.                                  *)
AnalyzedInv ==
  /\ input \in Inputs
  /\ output \in {NotAnalyzed, Analysis(input)}

(* An analysis is all that happens to an input.                            *)
LEMMA Analyzed == Spec => []AnalyzedInv
<1>1. Init => AnalyzedInv
  BY DEF Init, AnalyzedInv
<1>2. AnalyzedInv /\ [Next]_<<input, output>> => AnalyzedInv'
  BY DEF AnalyzedInv, Next, Analyze
<1> QED
  BY <1>1, <1>2, PTL DEF Spec, Next

(* What an input is made of.                                               *)
LEMMA InputTypes ==
  ASSUME input \in Inputs
  PROVE  /\ app \in App
         /\ input.app = app
         /\ input.now = Now
         /\ \A g \in Guids : input.order[g] \in Int
         /\ \A g, h \in Guids : input.order[g] = input.order[h] => g = h
         /\ DOMAIN input.starts = Indices
         /\ DOMAIN input.stops = Guids
<1>1. PICK a \in Apps, n \in {Now}, r \in Orders,
           s \in [Indices -> {NoStart, QueuedStart}],
           t \in [Guids -> {NoStop, QueuedStop}] :
        input = [app |-> a, now |-> n, order |-> r, starts |-> s, stops |-> t]
  BY DEF Inputs
<1>2. a \in App
  <2>1. PICK d \in Wanted, hb \in Heartbeats,
             cc \in [Indices -> 0..MaxCrashes] :
          a = [desired |-> d, heartbeats |-> hb, crashCounts |-> cc]
    BY DEF Apps
  <2>2. d \in DesiredAppState
    BY AbsentTypes DEF Wanted
  <2>3. cc \in [Indices -> Nat]
    BY MaxCrashesAssumption
  <2> QED
    BY <2>1, <2>2, <2>3 DEF App
<1>3. Cardinality(Guids) \in Nat
  BY InstancesAssumption, FS_CardinalityType
<1>4. /\ \A g \in Guids : r[g] \in Int
      /\ \A g, h \in Guids : r[g] = r[h] => g = h
  BY <1>3 DEF Orders
<1> QED
  BY <1>1, <1>2, <1>4 DEF app

(* analyzeApp keeps the types: its messages are messages, its counts are   *)
(* numbers.                                                                *)
THEOREM TypeCorrect == Spec => []TypeOK
<1>1. AnalyzedInv => TypeOK
  <2> SUFFICES ASSUME AnalyzedInv PROVE TypeOK
    OBVIOUS
  <2>1. Analysis(input) \in [starts : [Indices -> PendingStartMessage],
                             stops : [Guids -> PendingStopMessage],
                             crashCounts : [Indices -> Nat]]
    BY InputTypes, AnalysisType DEF AnalyzedInv, Now
  <2>2. NotAnalyzed \in [starts : [Indices -> PendingStartMessage],
                         stops : [Guids -> PendingStopMessage],
                         crashCounts : [Indices -> Nat]]
    BY AbsentTypes DEF NotAnalyzed
  <2> QED
    BY <2>1, <2>2 DEF AnalyzedInv, TypeOK
<1> QED
  BY <1>1, Analyzed, PTL

---------------------------------------------------------------------------
(* What serves goes on serving.                                            *)

(* The stop of an instance of an index that is desired, staged and has no  *)
(* crash count is not due at once if the instance runs, or if nothing runs *)
(* in its place.                                                           *)
LEMMA ServerStays ==
  ASSUME input \in Inputs, NEW index \in Indices, IsIndexDesired(app, index),
         app.desired.staged, app.crashCounts[index] = 0,
         NEW g \in InstancesAtIndex(app, index, {"RUNNING", "EVACUATING"}),
         \/ app.heartbeats[g] = "RUNNING"
         \/ ~HasRunningInstanceAtIndex(app, index)
  PROVE  LET stop == NewStop(input, g)
         IN  Queued(stop) => ~IsTimeToSend(stop, Now)
<1> DEFINE stop == NewStop(input, g)
<1>1. /\ g \in Guids
      /\ IndexOf[g] = index
      /\ app.heartbeats[g] \in {"RUNNING", "EVACUATING"}
  BY DEF InstancesAtIndex, InstanceHeartbeatsAtIndex
<1>2. ~StopsEvacuatingExtra(input, g)
  BY <1>1, InputTypes DEF StopsEvacuatingExtra
<1>3. ~StopsExtra(input, g)
  BY <1>1, InputTypes DEF StopsExtra, ExtraStartingOrRunningInstances
<1>4. ~StopsEvacuated(input, g)
  BY <1>1, InputTypes DEF StopsEvacuated
<1>5. CASE stop.reason = "DUPLICATE"
  <2>1. stop.sendOn = Now + DuplicateDelay(input, g)
    BY <1>5, StopReasons, InputTypes
  <2>2. stop.sendOn > Now
    BY <2>1, DuplicatesWait, DelaysAssumption DEF Now
  <2> QED
    BY <2>1, <2>2, DuplicatesWait DEF IsTimeToSend, Now
<1>6. CASE stop.reason # "DUPLICATE"
  <2>1. stop.reason = ""
    BY <1>2, <1>3, <1>4, <1>6, StopReasons DEF StopReason
  <2> QED
    BY <2>1 DEF Queued
<1> QED
  BY <1>5, <1>6

(* ServingSurvives: whatever an analysis finds - duplicates, evacuations,  *)
(* instances of other indices, messages queued before - the stops it makes *)
(* due at once leave an index that serves an instance that serves.         *)
THEOREM ServingGoesOn == Spec => []ServingSurvives
<1>1. AnalyzedInv => ServingSurvives
  <2> SUFFICES ASSUME AnalyzedInv, NEW index \in Indices,
                      IsIndexDesired(app, index), app.desired.staged,
                      app.crashCounts[index] = 0,
                      InstancesAtIndex(app, index,
                                       {"RUNNING", "EVACUATING"}) # {}
               PROVE  \E g \in InstancesAtIndex(app, index,
                                                {"RUNNING", "EVACUATING"}) :
                        \/ ~IsTimeToSend(output.stops[g], Now)
                        \/ ~Queued(output.stops[g])
    BY DEF ServingSurvives
  <2>1. PICK g \in InstancesAtIndex(app, index, {"RUNNING", "EVACUATING"}) :
          \/ app.heartbeats[g] = "RUNNING"
          \/ ~HasRunningInstanceAtIndex(app, index)
    BY DEF HasRunningInstanceAtIndex, InstancesAtIndex
  <2>2. g \in Guids
    BY DEF InstancesAtIndex, InstanceHeartbeatsAtIndex
  <2>3. CASE output = NotAnalyzed
    BY <2>2, <2>3, AbsentNotQueued DEF NotAnalyzed
  <2>4. CASE output = Analysis(input)
    <3>1. output.stops[g] = NewStop(input, g)
      BY <2>2, <2>4 DEF Analysis, NewStops
    <3>2. Queued(NewStop(input, g)) => ~IsTimeToSend(NewStop(input, g), Now)
      BY <2>1, ServerStays DEF AnalyzedInv
    <3> QED
      BY <3>1, <3>2
  <2> QED
    BY <2>3, <2>4 DEF AnalyzedInv
<1> QED
  BY <1>1, Analyzed, PTL

---------------------------------------------------------------------------
(* The analyzer acts exactly when there is something to do.                *)

(* No start is made: what the three kinds of starts leave.                 *)
LEMMA NoStartsMade ==
  ASSUME input \in Inputs, NothingQueued,
         \A index \in Indices : ~Queued(NewStart(input, index)),
         NEW index \in Indices, IsIndexDesired(app, index)
  PROVE  /\ EvacuatingInstancesAtIndex(app, index) # {} =>
              \/ HasRunningInstanceAtIndex(app, index)
              \/ HasStartingInstanceAtIndex(app, index)
         /\ app.desired.staged => Running(index) # {}
<1>1. \A i \in Indices : ~AlreadyQueued(input, i)
  BY InputTypes DEF NothingQueued, QueuedKeys, AlreadyQueued
<1>2. \A i \in Indices : /\ ~StartsEvacuating(input, i)
                         /\ ~StartsCrashed(input, i)
                         /\ ~StartsMissing(input, i)
  BY StartReasons
<1>3. \A i \in Indices :
        /\ IsIndexDesired(app, i)
        /\ EvacuatingInstancesAtIndex(app, i) # {}
        => \/ HasRunningInstanceAtIndex(app, i)
           \/ HasStartingInstanceAtIndex(app, i)
  BY <1>1, <1>2, InputTypes DEF StartsEvacuating, EvacuationGoesOn
<1>4. \A i \in Indices :
        \/ HasRunningInstanceAtIndex(app, i)
        \/ HasStartingInstanceAtIndex(app, i)
        => Running(i) # {}
  BY DEF HasRunningInstanceAtIndex, HasStartingInstanceAtIndex, Running,
         InstancesAtIndex, StartingOrRunningInstancesAtIndex,
         IsStartingOrRunning
<1>5. \A i \in Indices :
        /\ IsIndexDesired(app, i)
        /\ app.desired.staged
        /\ Running(i) = {}
        => i # 0 /\ ~HasStartingOrRunningInstances(app)
  BY <1>1, <1>2, <1>3, <1>4, InputTypes
  DEF StartsMissing, StartsCrashed, HasStartingOrRunningInstanceAtIndex, Running
<1>6. ASSUME app.desired.staged, Running(index) = {}
      PROVE  FALSE
  <2>1. index # 0 /\ ~HasStartingOrRunningInstances(app)
    BY <1>5, <1>6
  <2>2. 0 \in Indices /\ IsIndexDesired(app, 0)
    BY <2>1, InputTypes, InstancesAssumption
    DEF Indices, IsIndexDesired, App, DesiredAppState
  <2>3. Running(0) = {}
    BY <2>1 DEF HasStartingOrRunningInstances, Running,
       StartingOrRunningInstancesAtIndex, InstanceHeartbeatsAtIndex
  <2> QED
    BY <1>5, <1>6, <2>2, <2>3
<1> QED
  BY <1>3, <1>6

(* No stop is made either: what the four kinds of stops leave.             *)
LEMMA NoStopsMade ==
  ASSUME input \in Inputs, NothingQueued,
         \A index \in Indices : ~Queued(NewStart(input, index)),
         NEW g \in Guids, ~Queued(NewStop(input, g))
  PROVE  /\ app.heartbeats[g] = "EVACUATING" =>
              /\ IsIndexDesired(app, IndexOf[g])
              /\ app.desired.staged
              /\ ~HasRunningInstanceAtIndex(app, IndexOf[g])
         /\ IsStartingOrRunning(app.heartbeats[g]) =>
              IsIndexDesired(app, IndexOf[g])
         /\ /\ IsIndexDesired(app, IndexOf[g])
            /\ g \in Running(IndexOf[g])
            => Cardinality(Running(IndexOf[g])) <= 1
<1>1. ~Queued(input.stops[g])
  BY InputTypes DEF NothingQueued, QueuedKeys
<1>2. /\ ~StopsEvacuatingExtra(input, g)
      /\ ~StopsExtra(input, g)
      /\ ~StopsEvacuated(input, g)
      /\ ~StopsDuplicate(input, g)
  BY <1>1, StopReasons
<1>3. StartsNothing(input)
  BY DEF StartsNothing
<1>4. app.heartbeats[g] = "EVACUATING" =>
        /\ IsIndexDesired(app, IndexOf[g])
        /\ app.desired.staged
        /\ ~HasRunningInstanceAtIndex(app, IndexOf[g])
  BY <1>2, InputTypes DEF StopsEvacuatingExtra, StopsEvacuated
<1>5. IsStartingOrRunning(app.heartbeats[g]) => IsIndexDesired(app, IndexOf[g])
  BY <1>2, <1>3, InputTypes DEF StopsExtra, ExtraStartingOrRunningInstances
<1>6. Duplicates(input, g) = Running(IndexOf[g])
  BY InputTypes DEF Duplicates, Running
<1>7. Cardinality(Running(IndexOf[g])) \in Nat
  <2>1. Running(IndexOf[g]) \in SUBSET Guids
    BY <1>6, DuplicatesCounted
  <2> QED
    BY <2>1, InstancesAssumption, FS_Subset, FS_CardinalityType
<1>8. ASSUME IsIndexDesired(app, IndexOf[g]), g \in Running(IndexOf[g])
      PROVE  Cardinality(Running(IndexOf[g])) <= 1
  <2>1. ~(Cardinality(Running(IndexOf[g])) > 1)
    BY <1>2, <1>3, <1>6, <1>8, InputTypes DEF StopsDuplicate
  <2> QED
    BY <1>7, <2>1
<1> QED
  BY <1>4, <1>5, <1>8

(* If the analyzer does nothing the app is settled.                        *)
LEMMA IdleIsSettled ==
  ASSUME input \in Inputs, NothingQueued,
         \A index \in Indices : ~Queued(NewStart(input, index)),
         \A g \in Guids : ~Queued(NewStop(input, g))
  PROVE  Settled
<1>1. ASSUME NEW index \in Indices, IsIndexDesired(app, index)
      PROVE  Cardinality(Running(index)) <= 1
  <2>1. CASE Running(index) = {}
    BY <2>1, FS_EmptySet
  <2>2. ASSUME NEW g \in Running(index) PROVE Cardinality(Running(index)) <= 1
    <3>1. g \in Guids /\ IndexOf[g] = index
      BY <2>2 DEF Running, StartingOrRunningInstancesAtIndex,
         InstanceHeartbeatsAtIndex
    <3> QED
      BY <1>1, <2>2, <3>1, NoStopsMade
  <2> QED
    BY <2>1, <2>2
<1>2. ASSUME NEW index \in Indices, ~IsIndexDesired(app, index)
      PROVE  Running(index) = {}
  BY <1>2, NoStopsMade DEF Running, StartingOrRunningInstancesAtIndex,
     InstanceHeartbeatsAtIndex
<1>3. ASSUME NEW index \in Indices,
             EvacuatingInstancesAtIndex(app, index) # {}
      PROVE  /\ IsIndexDesired(app, index)
             /\ app.desired.staged
             /\ HasStartingInstanceAtIndex(app, index)
             /\ ~HasRunningInstanceAtIndex(app, index)
  <2>1. PICK g \in Guids : /\ app.heartbeats[g] = "EVACUATING"
                           /\ IndexOf[g] = index
    BY <1>3 DEF EvacuatingInstancesAtIndex, InstancesAtIndex,
       InstanceHeartbeatsAtIndex
  <2> QED
    BY <1>3, <2>1, NoStopsMade, NoStartsMade
<1> QED
  BY <1>1, <1>2, <1>3, NoStartsMade DEF Settled

(* If the app is settled the analyzer does nothing.                        *)
LEMMA SettledIsIdle ==
  ASSUME input \in Inputs, Settled
  PROVE  /\ \A index \in Indices : ~Queued(NewStart(input, index))
         /\ \A g \in Guids : ~Queued(NewStop(input, g))
<1>1. ASSUME NEW index \in Indices PROVE ~Queued(NewStart(input, index))
  BY StartReasons, InputTypes
  DEF Settled, StartsEvacuating, EvacuationGoesOn, StartsCrashed,
      StartsMissing, HasStartingOrRunningInstanceAtIndex, Running
<1>2. ASSUME NEW g \in Guids PROVE ~Queued(NewStop(input, g))
  <2>1. IndexOf[g] \in Indices
    BY InstancesAssumption
  <2>2. ASSUME app.heartbeats[g] = "EVACUATING"
        PROVE  EvacuatingInstancesAtIndex(app, IndexOf[g]) # {}
    BY <2>2 DEF EvacuatingInstancesAtIndex, InstancesAtIndex,
       InstanceHeartbeatsAtIndex, NoHeartbeat
  <2>3. ~StopsEvacuatingExtra(input, g) /\ ~StopsEvacuated(input, g)
    <3>1. input.app = app
      BY InputTypes
    <3>2. ASSUME app.heartbeats[g] = "EVACUATING"
          PROVE  /\ IsIndexDesired(app, IndexOf[g]) /\ app.desired.staged
                 /\ HasStartingInstanceAtIndex(app, IndexOf[g])
                 /\ ~HasRunningInstanceAtIndex(app, IndexOf[g])
      BY <2>1, <2>2, <3>2 DEF Settled
    <3> QED
      BY <3>1, <3>2
      DEF StopsEvacuatingExtra, StopsEvacuated, EvacuationGoesOn
  <2>4. ~StopsExtra(input, g)
    <3>1. ASSUME g \in ExtraStartingOrRunningInstances(app) PROVE FALSE
      <4>1. /\ IsStartingOrRunning(app.heartbeats[g])
            /\ ~IsIndexDesired(app, IndexOf[g])
        BY <3>1 DEF ExtraStartingOrRunningInstances
      <4>2. g \in Running(IndexOf[g])
        BY <4>1 DEF Running, StartingOrRunningInstancesAtIndex,
           InstanceHeartbeatsAtIndex, IsStartingOrRunning, NoHeartbeat
      <4>3. Running(IndexOf[g]) = {}
        BY <2>1, <4>1 DEF Settled
      <4> QED
        BY <4>2, <4>3
    <3> QED
      BY <3>1, InputTypes DEF StopsExtra
  <2>5. ~StopsDuplicate(input, g)
    <3>1. Duplicates(input, g) = Running(IndexOf[g])
      BY InputTypes DEF Duplicates, Running
    <3>2. Duplicates(input, g) \in SUBSET Guids
      BY DuplicatesCounted
    <3>3. Cardinality(Duplicates(input, g)) \in Nat
      BY <3>2, InstancesAssumption, FS_Subset, FS_CardinalityType
    <3>4. IsIndexDesired(app, IndexOf[g]) =>
            Cardinality(Duplicates(input, g)) <= 1
      BY <2>1, <3>1 DEF Settled
    <3> QED
      BY <3>3, <3>4, InputTypes DEF StopsDuplicate
  <2> QED
    BY <2>3, <2>4, <2>5, StopReasons
<1> QED
  BY <1>1, <1>2

(* ActsUnlessSettled: with nothing queued the analyzer does nothing about  *)
(* an app exactly when there is nothing to do about it.                    *)
THEOREM ActsWhenNeeded == Spec => []ActsUnlessSettled
<1>1. AnalyzedInv => ActsUnlessSettled
  <2> SUFFICES ASSUME AnalyzedInv, NothingQueued PROVE Acts <=> ~Settled
    BY DEF ActsUnlessSettled
  <2>1. Acts <=> \/ \E index \in Indices : Queued(NewStart(input, index))
                 \/ \E g \in Guids : Queued(NewStop(input, g))
    BY DEF Acts, QueuedKeys, Analysis, NewStarts, NewStops
  <2> QED
    BY <2>1, IdleIsSettled, SettledIsIdle DEF AnalyzedInv
<1> QED
  BY <1>1, Analyzed, PTL

---------------------------------------------------------------------------
(* Stops come last.                                                        *)

(* If no start is made while something runs, each wanted index that has    *)
(* nothing running has a start queued.                                     *)
LEMMA UnstartedIsQueued ==
  ASSUME input \in Inputs, StartsNothing(input),
         HasStartingOrRunningInstances(app), app.desired.staged,
         NEW index \in Indices, IsIndexDesired(app, index), Running(index) = {}
  PROVE  Queued(input.starts[index])
<1> SUFFICES ASSUME ~AlreadyQueued(input, index) PROVE FALSE
  BY DEF AlreadyQueued
<1>1. /\ ~StartsEvacuating(input, index)
      /\ ~StartsCrashed(input, index)
      /\ ~StartsMissing(input, index)
  BY StartReasons DEF StartsNothing
<1>2. ~HasStartingOrRunningInstanceAtIndex(app, index)
  BY DEF HasStartingOrRunningInstanceAtIndex, Running
<1>3. ~HasCrashedInstanceAtIndex(app, index)
  BY <1>1, <1>2, InputTypes DEF StartsCrashed
<1>4. EvacuatingInstancesAtIndex(app, index) # {}
  BY <1>1, <1>2, <1>3, InputTypes DEF StartsMissing
<1>5. /\ ~HasRunningInstanceAtIndex(app, index)
      /\ ~HasStartingInstanceAtIndex(app, index)
  BY DEF HasRunningInstanceAtIndex, HasStartingInstanceAtIndex, Running,
         InstancesAtIndex, StartingOrRunningInstancesAtIndex,
         IsStartingOrRunning
<1> QED
  BY <1>1, <1>4, <1>5, InputTypes DEF StartsEvacuating, EvacuationGoesOn

(* StopsComeLast: an extra or duplicate instance is to stop only when a    *)
(* start is queued for each wanted index at which nothing starts or runs,  *)
(* whatever has crashed or evacuates there.                                *)
THEOREM RunningStopLast == Spec => []StopsComeLast
<1>1. AnalyzedInv => StopsComeLast
  <2> SUFFICES ASSUME AnalyzedInv, NEW g \in Guids, Queued(output.stops[g]),
                      IsStartingOrRunning(app.heartbeats[g]),
                      NEW index \in Indices, app.desired.staged,
                      IsIndexDesired(app, index), Running(index) = {}
               PROVE  Queued(input.starts[index])
    BY DEF StopsComeLast
  <2>1. Queued(NewStop(input, g))
    <3>1. output = Analysis(input)
      BY AbsentNotQueued DEF AnalyzedInv, NotAnalyzed
    <3> QED
      BY <3>1 DEF Analysis, NewStops
  <2>2. ~StopsEvacuatingExtra(input, g) /\ ~StopsEvacuated(input, g)
    BY InputTypes DEF AnalyzedInv, StopsEvacuatingExtra, StopsEvacuated,
       IsStartingOrRunning
  <2>3. StopsExtra(input, g) \/ StopsDuplicate(input, g)
    BY <2>1, <2>2, StopReasons DEF Queued, StopReason
  <2>4. StartsNothing(input)
    BY <2>3 DEF StopsExtra, StopsDuplicate
  <2>5. HasStartingOrRunningInstances(app)
    BY DEF HasStartingOrRunningInstances
  <2> QED
    BY <2>4, <2>5, UnstartedIsQueued DEF AnalyzedInv
<1> QED
  BY <1>1, Analyzed, PTL

---------------------------------------------------------------------------
(* The delays.                                                             *)

(* Two duplicates of an index are due a grace period apart, at least.      *)
LEMMA DuplicatesStaggered ==
  ASSUME input \in Inputs, NEW g \in Guids, NEW h \in Guids, g # h,
         IndexOf[g] = IndexOf[h],
         StopsDuplicate(input, g), StopsDuplicate(input, h)
  PROVE  \/ DuplicateDelay(input, g) >= DuplicateDelay(input, h) + GracePeriod
         \/ DuplicateDelay(input, h) >= DuplicateDelay(input, g) + GracePeriod
<1>1. Duplicates(input, g) = Duplicates(input, h)
  BY DEF Duplicates
<1>2. g \in Duplicates(input, g) /\ h \in Duplicates(input, h)
  BY DEF StopsDuplicate
<1>3. \A x \in Guids : input.order[x] \in Int
  BY InputTypes
<1>4. input.order[g] < input.order[h] \/ input.order[h] < input.order[g]
  BY <1>3, InputTypes
<1> QED
  BY <1>1, <1>2, <1>3, <1>4, DuplicatesApart

(* StopsStaggered: no stop of a duplicate is due before four grace periods *)
(* are over, and no two of an index within the same one, whatever the      *)
(* order of the heartbeats and however many duplicates there are.          *)
THEOREM StopsAreStaggered == Spec => []StopsStaggered
<1>1. AnalyzedInv => StopsStaggered
  <2> SUFFICES ASSUME AnalyzedInv, NEW g \in Guids, NEW h \in Guids,
                      output.stops[g].reason = "DUPLICATE",
                      output.stops[h].reason = "DUPLICATE"
               PROVE  LET a == output.stops[g]
                          b == output.stops[h]
                      IN  /\ a.sendOn >= Now + 4 * GracePeriod
                          /\ g # h /\ IndexOf[g] = IndexOf[h] =>
                               a.sendOn - b.sendOn
                                 \notin -GracePeriod + 1..GracePeriod - 1
    BY DEF StopsStaggered
  <2>1. output = Analysis(input)
    <3>1. NoStop.reason # "DUPLICATE"
      BY DEF NoStop, NewPendingStopMessage
    <3> QED
      BY <3>1 DEF AnalyzedInv, NotAnalyzed
  <2>2. \A x \in {g, h} :
          /\ StopsDuplicate(input, x)
          /\ output.stops[x].sendOn = Now + DuplicateDelay(input, x)
    <3>1. \A x \in {g, h} : output.stops[x] = NewStop(input, x)
      BY <2>1 DEF Analysis, NewStops
    <3>2. input.now = Now
      BY InputTypes DEF AnalyzedInv
    <3>3. \A x \in {g, h} : NewStop(input, x).reason = "DUPLICATE"
      BY <3>1
    <3>4. ASSUME NEW x \in {g, h}
          PROVE  /\ StopsDuplicate(input, x)
                 /\ NewStop(input, x).sendOn
                      = input.now + DuplicateDelay(input, x)
      BY <3>3, StopReasons
    <3> QED
      BY <3>1, <3>2, <3>4
  <2>3. \A x \in {g, h} : /\ DuplicateDelay(input, x) \in Int
                          /\ DuplicateDelay(input, x) >= 4 * GracePeriod
    BY DuplicatesWait
  <2>4. g # h /\ IndexOf[g] = IndexOf[h] =>
          \/ DuplicateDelay(input, g) >= DuplicateDelay(input, h) + GracePeriod
          \/ DuplicateDelay(input, h) >= DuplicateDelay(input, g) + GracePeriod
    BY <2>2, DuplicatesStaggered DEF AnalyzedInv
  <2> QED
    BY <2>2, <2>3, <2>4, DelaysAssumption DEF Now
<1> QED
  BY <1>1, Analyzed, PTL

(* One more crash makes no delay shorter.                                  *)
LEMMA DelayGrows ==
  ASSUME PowersOfTwo, NEW crashCount \in Nat
  PROVE  ComputeCrashDelay(crashCount) <= ComputeCrashDelay(crashCount + 1)
<1> DEFINE Delay(n) == IF n < 0 THEN 0
                       ELSE IF StartingBackoffDelay * 2^n > MaximumBackoffDelay
                       THEN MaximumBackoffDelay
                       ELSE StartingBackoffDelay * 2^n
           doublings == crashCount - NumberOfCrashesBeforeBackoffBegins
<1>1. /\ ComputeCrashDelay(crashCount) = Delay(doublings)
      /\ ComputeCrashDelay(crashCount + 1) = Delay(doublings + 1)
  <2>1. \A c, n : n = c - NumberOfCrashesBeforeBackoffBegins =>
                    ComputeCrashDelay(c) = Delay(n)
    BY Zenon DEF ComputeCrashDelay
  <2> DEFINE c == crashCount + 1
  <2>2. doublings + 1 = c - NumberOfCrashesBeforeBackoffBegins
    BY DelaysAssumption
  <2>3. doublings = crashCount - NumberOfCrashesBeforeBackoffBegins
    OBVIOUS
  <2> HIDE DEF Delay, doublings, c
  <2>4. ComputeCrashDelay(c) = Delay(doublings + 1)
    BY <2>1, <2>2, Zenon
  <2>5. ComputeCrashDelay(crashCount) = Delay(doublings)
    BY <2>1, <2>3, Zenon
  <2> QED
    BY <2>4, <2>5, Zenon DEF c
<1>2. doublings \in Int
  BY DelaysAssumption
<1> HIDE DEF doublings
<1>3. CASE doublings < 0
  <2>1. Delay(doublings) = 0
    BY <1>3
  <2>2. CASE doublings + 1 < 0
    BY <1>1, <2>1, <2>2
  <2>3. CASE doublings + 1 = 0
    <3>1. Delay(0) \in {MaximumBackoffDelay, StartingBackoffDelay}
      <4>1. 2^0 = 1
        OBVIOUS
      <4> QED
        BY <4>1, DelaysAssumption
    <3>2. Delay(doublings + 1) \in {MaximumBackoffDelay, StartingBackoffDelay}
      <4> HIDE DEF Delay
      <4> QED
        BY <2>3, <3>1, Zenon
    <3> QED
      BY <1>1, <2>1, <3>2, DelaysAssumption
  <2> QED
    BY <1>2, <1>3, <2>2, <2>3
<1>4. CASE doublings >= 0
  <2> DEFINE p == 2^doublings
             q == 2^(doublings + 1)
  <2>1. p \in Nat /\ q = 2 * p
    BY <1>2, <1>4 DEF PowersOfTwo
  <2>2. /\ Delay(doublings) =
             IF StartingBackoffDelay * p > MaximumBackoffDelay
             THEN MaximumBackoffDelay ELSE StartingBackoffDelay * p
        /\ Delay(doublings + 1) =
             IF StartingBackoffDelay * q > MaximumBackoffDelay
             THEN MaximumBackoffDelay ELSE StartingBackoffDelay * q
    BY <1>2, <1>4
  <2> HIDE DEF Delay, p, q
  <2>3. /\ StartingBackoffDelay * p \in Nat
        /\ StartingBackoffDelay * q = 2 * (StartingBackoffDelay * p)
    BY <2>1, DelaysAssumption
  <2> QED
    BY <1>1, <2>2, <2>3, DelaysAssumption
<1> QED
  BY <1>2, <1>3, <1>4

(* BackoffGrows: a crashed start goes with a count that is one higher, and *)
(* so the next restart of the index is not due any earlier after its crash.*)
THEOREM BackoffIsMonotone ==
  ASSUME PowersOfTwo
  PROVE  Spec => []BackoffGrows
<1>1. AnalyzedInv => BackoffGrows
  <2> SUFFICES ASSUME AnalyzedInv, NEW index \in Indices
               PROVE  LET start == output.starts[index]
                          count == output.crashCounts[index]
                      IN  /\ start.reason = "CRASHED" =>
                               /\ count > app.crashCounts[index]
                               /\ ComputeCrashDelay(count)
                                    >= start.sendOn - Now
                          /\ count # 0 =>
                               /\ HasCrashedInstanceAtIndex(app, index)
                               /\ Queued(start)
    BY DEF BackoffGrows
  <2>1. CASE output = NotAnalyzed
    <3>1. NoStart.reason # "CRASHED"
      BY DEF NoStart, NewPendingStartMessage
    <3> QED
      BY <2>1, <3>1 DEF NotAnalyzed
  <2>2. CASE output = Analysis(input)
    <3> DEFINE crashes == app.crashCounts[index]
    <3>1. crashes \in Nat
      BY InputTypes DEF AnalyzedInv, App
    <3>2. /\ output.starts[index] = NewStart(input, index)
          /\ output.crashCounts[index] =
               IF StartsCrashed(input, index) THEN crashes + 1 ELSE 0
      BY <2>2, InputTypes
      DEF AnalyzedInv, Analysis, NewStarts, CrashCountsToSave
    <3>3. output.starts[index].reason = "CRASHED" =>
            /\ StartsCrashed(input, index)
            /\ output.starts[index].sendOn = Now + ComputeCrashDelay(crashes)
      BY <3>2, StartReasons, InputTypes DEF AnalyzedInv
    <3>4. /\ ComputeCrashDelay(crashes) \in Int
          /\ ComputeCrashDelay(crashes + 1) \in Int
          /\ ComputeCrashDelay(crashes) <= ComputeCrashDelay(crashes + 1)
      BY <3>1, DelayType, DelayGrows
    <3>5. StartsCrashed(input, index) =>
            /\ HasCrashedInstanceAtIndex(app, index)
            /\ Queued(output.starts[index])
      BY <3>2, StartReasons, InputTypes DEF AnalyzedInv, StartsCrashed
    <3> QED
      BY <3>1, <3>2, <3>3, <3>4, <3>5 DEF Now
  <2> QED
    BY <2>1, <2>2 DEF AnalyzedInv
<1> QED
  BY <1>1, Analyzed, PTL
=============================================================================
