---------------------------- MODULE MCAppAnalyzer ----------------------------
(***************************************************************************)
(* analyzeApp over every app, every crash history and every set of queued  *)
(* messages of a small instance: an input is chosen, then analyzed.        *)
(***************************************************************************)
EXTENDS AppAnalyzer, TLC

CONSTANTS g1, g2, g3,
          MaxCrashes    \* bound: crash counts

ASSUME MaxCrashesAssumption == MaxCrashes \in Nat

(* Two instances at index 0, so that there are duplicates, one at index 1. *)
TwoAtZero == (g1 :> 0) @@ (g2 :> 0) @@ (g3 :> 1)

VARIABLES input, output

Now == 1
QueuedStart == NewPendingStartMessage(Now, GracePeriod, 0, "MISSING")
QueuedStop == NewPendingStopMessage(Now, 0, GracePeriod, "EXTRA")

Wanted == {NotDesired} \cup {d \in DesiredAppState : d.desired}

(* With no heartbeats there are no crash counts (store/apps.go), and an    *)
(* app neither desired nor heartbeating is not analyzed.                   *)
Apps ==
  {x \in [desired : Wanted, heartbeats : Heartbeats,
          crashCounts : [Indices -> 0..MaxCrashes]] :
     \/ \E g \in Guids : x.heartbeats[g] # NoHeartbeat
     \/ x.desired.desired /\ \A i \in Indices : x.crashCounts[i] = 0}

Inputs ==
  [app : Apps, now : {Now}, order : Orders,
   starts : [Indices -> {NoStart, QueuedStart}],
   stops : {s \in [Guids -> {NoStop, QueuedStop}] :
              Cardinality(QueuedKeys(s)) <= 1}]

NotAnalyzed == [starts |-> [i \in Indices |-> NoStart],
                stops |-> [g \in Guids |-> NoStop],
                crashCounts |-> [i \in Indices |-> 0]]

Init == input \in Inputs /\ output = NotAnalyzed

Analyze ==
  /\ output' = Analysis(input)
  /\ UNCHANGED input

Next == Analyze

Spec == Init /\ [][Next]_<<input, output>>

TypeOK ==
  /\ input \in Inputs
  /\ output \in [starts : [Indices -> PendingStartMessage],
                 stops : [Guids -> PendingStopMessage],
                 crashCounts : [Indices -> Nat]]

---------------------------------------------------------------------------
(* Properties of the analysis.                                             *)

app == input.app
Running(index) == StartingOrRunningInstancesAtIndex(app, index)
NothingQueued ==
  QueuedKeys(input.starts) = {} /\ QueuedKeys(input.stops) = {}
Acts == \/ QueuedKeys(Analysis(input).starts) # {}
        \/ QueuedKeys(Analysis(input).stops) # {}

(* The state the analyzer works towards: one instance at each desired      *)
(* index (none is needed before staging), none elsewhere, nothing          *)
(* evacuating but while its replacement starts.                            *)
Settled ==
  /\ \A index \in Indices :
       IF IsIndexDesired(app, index)
       THEN /\ Cardinality(Running(index)) <= 1
            /\ app.desired.staged => Running(index) # {}
       ELSE Running(index) = {}
  /\ \A index \in Indices : EvacuatingInstancesAtIndex(app, index) # {} =>
       /\ IsIndexDesired(app, index)
       /\ app.desired.staged
       /\ HasStartingInstanceAtIndex(app, index)
       /\ ~HasRunningInstanceAtIndex(app, index)

(* With nothing queued, the analyzer acts exactly when the app is not      *)
(* settled: no divergence is overlooked, not even when every instance has  *)
(* crashed and only index 0 may be restarted (app_analyzer.go:46-58).      *)
ActsUnlessSettled == NothingQueued => (Acts <=> ~Settled)

(* A desired, staged index that serves requests, its instances never       *)
(* having crashed, still does after the stops that are due at once: an     *)
(* evacuating instance goes only when another one runs, and a running one  *)
(* is never stopped at once (app_analyzer.go:108-185).                     *)
ServingSurvives ==
  \A index \in Indices :
    LET serving == InstancesAtIndex(app, index, {"RUNNING", "EVACUATING"})
    IN  /\ IsIndexDesired(app, index)
        /\ app.desired.staged
        /\ app.crashCounts[index] = 0
        /\ serving # {}
        => \E g \in serving : ~IsTimeToSend(output.stops[g], Now)
                              \/ ~Queued(output.stops[g])

(* An instance that starts or runs, be it extra or a duplicate, is to stop *)
(* only when every wanted index that has none is seen to: this analysis    *)
(* adds no start, so an earlier one has queued it (app_analyzer.go:52-55). *)
(* Crashed and evacuating instances do not make up for one that runs.      *)
StopsComeLast ==
  \A g \in Guids :
    Queued(output.stops[g]) /\ IsStartingOrRunning(app.heartbeats[g]) =>
      \A index \in Indices :
        app.desired.staged /\ IsIndexDesired(app, index) /\ Running(index) = {}
        => Queued(input.starts[index])

(* The stops of the duplicates of an index are due one grace period apart  *)
(* at least, the first after four of them: time for the sender to see each *)
(* one's effect before the next (app_analyzer.go:129-132).                 *)
StopsStaggered ==
  \A g, h \in Guids :
    LET a == output.stops[g]
        b == output.stops[h]
    IN  a.reason = "DUPLICATE" /\ b.reason = "DUPLICATE" =>
          /\ a.sendOn >= Now + 4 * GracePeriod
          /\ g # h /\ IndexOf[g] = IndexOf[h] =>
               a.sendOn - b.sendOn \notin -GracePeriod + 1..GracePeriod - 1

(* A restart is delayed by the crashes counted before it, so a crashed     *)
(* start goes with its count, and an index that is not restarted is not    *)
(* counted; every restart of an index that stays crashed waits at least as *)
(* long as the one before (app_analyzer.go:89-101, crash_delay.go).        *)
BackoffGrows ==
  \A index \in Indices :
    LET start == output.starts[index]
        count == output.crashCounts[index]
    IN  /\ start.reason = "CRASHED" =>
             /\ count > app.crashCounts[index]
             /\ ComputeCrashDelay(count) >= start.sendOn - Now
        /\ count # 0 => HasCrashedInstanceAtIndex(app, index)
                        /\ Queued(start)
=============================================================================
