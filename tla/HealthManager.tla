---------------------------- MODULE HealthManager ----------------------------
(***************************************************************************)
(* The health manager at work on one app: the analyzer, the evacuator and  *)
(* the listener over the store and the Cloud Controller they share, while  *)
(* time passes, users change what they want and instances come, go, crash  *)
(* and evacuate.                                                           *)
(***************************************************************************)
EXTENDS AnalyzerProcess, Evacuator, ListenerSender

CONSTANTS
  MaxTime,        \* bound: the clock
  MaxReports,     \* bound: changes of the desired and of the actual state
  PromptPasses    \* TRUE: passes begin on time, and neither they nor the
                  \* listener's sends take time

ASSUME HealthManagerAssumption ==
  /\ MaxTime \in Nat
  /\ MaxReports \in Nat
  /\ PromptPasses \in BOOLEAN

VARIABLES
  reports,        \* how many changes there have been
  crashStarts,    \* history: crashed starts saved for each index since it
                  \* last was without a crash count
  missingSince    \* history: since when a desired index has had no instance,
                  \* 0 if it has one or is not desired

history == <<crashStarts, missingSince>>
vars == <<shared, analyzerVars, evacuatorVars, listenerVars, reports, history>>

TypeOK ==
  /\ SharedTypeOK
  /\ AnalyzerTypeOK
  /\ EvacuatorTypeOK
  /\ ListenerTypeOK
  /\ reports \in 0..MaxReports
  /\ crashStarts \in [Indices -> Nat]
  /\ missingSince \in [Indices -> Nat]

(* The app is staged and wants the index, and nothing reports there.       *)
IsMissing(index, desired, heartbeats) ==
  /\ desired.staged
  /\ index < desired.instances
  /\ \A g \in Guids : heartbeats[g] = NoHeartbeat \/ IndexOf[g] # index

Init ==
  /\ SharedInit
  /\ AnalyzerInit
  /\ EvacuatorInit
  /\ ListenerInit
  /\ reports = 0
  /\ crashStarts = [index \in Indices |-> 0]
  /\ missingSince = [index \in Indices |->
                      IF IsMissing(index, wanted, actual) THEN now ELSE 0]

(* A count whose TTL ends is gone.  One that a pass has just saved is there *)
(* for its next save: conf.FetcherTimeout() ends the pass long before.     *)
CountExpires(index) ==
  /\ crashCounts[index] # 0
  /\ crashExpiry[index] <= now + 1
  /\ ~(pc = "saveStarts" /\ analysis.crashCounts[index] # 0)

UnlessExpired(map) ==
  [index \in Indices |-> IF CountExpires(index) THEN 0 ELSE map[index]]

(* The clock.  A pass may be overtaken by it, and a pass may begin late,   *)
(* unless PromptPasses.                                                    *)
Tick ==
  /\ now < MaxTime
  /\ PromptPasses => pc = "idle" /\ now < nextPass /\ listener = "idle"
  /\ now' = now + 1
  /\ crashCounts' = UnlessExpired(crashCounts)
  /\ crashExpiry' = UnlessExpired(crashExpiry)
  /\ crashStarts' = UnlessExpired(crashStarts)
  /\ UNCHANGED <<wanted, actual, starts, stops, accepted, faults, analyzerVars,
                 evacuatorVars, listenerVars, reports, missingSince>>

WatchMissing ==
  missingSince' = [index \in Indices |->
    IF ~IsMissing(index, wanted', actual') THEN 0
    ELSE IF missingSince[index] # 0 THEN missingSince[index] ELSE now]

(* The listener stores what the DEAs report: an instance appears, changes  *)
(* state or is gone; of one that begins to evacuate it sends a start.      *)
ReportHeartbeat(guid, state) ==
  /\ reports < MaxReports
  /\ state # actual[guid]
  /\ ListenerHears(guid, state)
  /\ actual' = [actual EXCEPT ![guid] = state]
  /\ reports' = reports + 1
  /\ UNCHANGED <<now, wanted, messages, accepted, faults, analyzerVars,
                 evacuatorVars, crashStarts>>
  /\ WatchMissing

(* The app is scaled, stopped, started or staged.                          *)
ChangeDesired(desired) ==
  /\ reports < MaxReports
  /\ desired # wanted
  /\ wanted' = desired
  /\ reports' = reports + 1
  /\ UNCHANGED <<now, actual, messages, accepted, faults, analyzerVars,
                 evacuatorVars, listenerVars, crashStarts>>
  /\ WatchMissing

Environment ==
  \/ Tick
  \/ \E guid \in Guids, state \in State \cup {NoHeartbeat} :
       ReportHeartbeat(guid, state)
  \/ \E desired \in Wanted : ChangeDesired(desired)

(* What a step of a process adds to the history: the crashed starts   *)
(* that SaveStarts gets into the store.                                    *)
Remember ==
  crashStarts' =
    [index \in Indices |->
       IF /\ pc = "saveStarts"
          /\ starts'[index] # starts[index]
          /\ starts'[index].reason = "CRASHED"
       THEN crashStarts[index] + 1 ELSE crashStarts[index]]

AnalyzerActs ==
  /\ AnalyzerStep
  /\ UNCHANGED <<evacuatorVars, listenerVars, reports, missingSince>>
  /\ Remember

EvacuatorActs ==
  /\ EvacuatorStep
  /\ UNCHANGED <<analyzerVars, listenerVars, reports, missingSince>>
  /\ Remember

ListenerActs ==
  /\ ListenerStep
  /\ UNCHANGED <<analyzerVars, evacuatorVars, reports, missingSince>>
  /\ Remember

(* The bound of the clock is reached with nothing in progress.             *)
TimeIsUp ==
  /\ now = MaxTime
  /\ pc = "idle"
  /\ evacuator = "idle"
  /\ listener = "idle"
  /\ UNCHANGED vars

Next ==
  Environment \/ AnalyzerActs \/ EvacuatorActs \/ ListenerActs \/ TimeIsUp

Spec == Init /\ [][Next]_vars

---------------------------------------------------------------------------
(* Properties.                                                             *)

(* The restart of a crashed instance is backed off by the crash count, so  *)
(* a crashed start must never get into the store without its crash being   *)
(* counted: whatever fails or dies in between, the stored count covers the *)
(* crashed starts that were saved (analyzer.go:116-132 saves it first).    *)
CrashCountCoversStarts ==
  \A index \in Indices : crashCounts[index] >= crashStarts[index]

(* A stored message is marked as sent only if the Cloud Controller         *)
(* accepted it at that time: a call refused, or cut short by a crash,      *)
(* leaves the message to be sent again (sender.go:181-207, 229-254).       *)
IsTrueMark(message, sent) ==
  HasBeenSent(message) =>
    \E k \in DOMAIN sent : sent[k].at = message.sentOn

SentMarksAreTrue ==
  /\ \A index \in Indices : IsTrueMark(starts[index], startsAccepted[index])
  /\ \A guid \in Guids : IsTrueMark(stops[guid], stopsAccepted[guid])

(* The backoff of an instance that keeps crashing does not begin again:    *)
(* its count is renewed when a start is put off and must still be there    *)
(* when the instance, started at last, crashes once more.  It is kept for  *)
(* twice the longest delay (crash_count.go:25), so that after a crashed    *)
(* start has been sent there is at least one such delay, less the two      *)
(* passes it may have waited, before the count can be gone.                *)
CountOutlivesStart ==
  faults = 0 =>
    \A index \in Indices :
      \A k \in DOMAIN startsAccepted[index] :
        LET sent == startsAccepted[index][k]
        IN  sent.reason = "CRASHED"
            /\ now < sent.at + MaximumBackoffDelay - 2 * PollingInterval =>
              crashCounts[index] # 0

(* When nothing fails the Cloud Controller is not asked again for an index *)
(* while the keep-alive of the start it accepted runs: the sent message    *)
(* stays in the store and holds new ones off (pending_messages.go:91).     *)
(* This is so until an instance evacuates: the other two senders post      *)
(* before they save, ask no one, and the listener's saves its old messages *)
(* over newer ones.                                                        *)
KeepAliveHonoured ==
  faults = 0 /\ sentByListener = 0 /\ exits = 0 =>
    \A index \in Indices :
      LET sent == startsAccepted[index]
      IN  \A k \in 1..Len(sent) - 1 :
            sent[k + 1].at >= sent[k].at + sent[k].keepAlive

(* "If a start or stop message is already in the store, the analyzer will  *)
(* not override it" (README.md:259): its saves only add messages.          *)
KeepsStops ==
  pc = "saveStops" => \A guid \in QueuedKeys(stops) : stops'[guid] = stops[guid]

KeepsStarts(kept) ==
  pc = "saveStarts" => \A index \in kept : starts'[index] = starts[index]

AnalyzerNeverOverrides ==
  [][AnalyzerActs => KeepsStops /\ KeepsStarts(QueuedKeys(starts))]_vars

(* What is left of that promise: a message is overridden only if another   *)
(* process saved it after the pass had read the starts, and the others     *)
(* save nothing but starts of evacuating instances.                        *)
OfAnalyzer(map) ==
  {index \in QueuedKeys(map) : ~map[index].skipVerification}

AnalyzerKeepsItsOwn ==
  [][AnalyzerActs => KeepsStops /\ KeepsStarts(OfAnalyzer(starts))]_vars

(* The stops scheduled for the duplicates of an index are not all sent in  *)
(* one Send: "the sender will process the stops one at a time and only     *)
(* send stops that don't put the system in an invalid state"               *)
(* (app_analyzer.go:122-125).                                              *)
SenderLeavesOne ==
  \A index \in Indices :
    LET instances == StartingOrRunningInstancesAtIndex(app, index)
    IN  app.desired.desired /\ IsIndexDesired(app, index) /\ instances # {} =>
          \E guid \in instances : ~Queued(stopMessagesToSave[guid])

(* So it is for two duplicates when passes are on time, unless one of them *)
(* has been asked to stop before: the first stop is due four grace periods *)
(* after the analysis, the second five, and a pass comes in between.  When *)
(* an earlier stop of one, kept or expired, has put off its new one to the *)
(* next pass, the two can be due together.                                 *)
AskedBefore(guid) ==
  \E k \in DOMAIN stopsAccepted[guid] :
    stopsAccepted[guid][k].at < currentTime

FirstStopsLeaveOne ==
  faults = 0 =>
    \A index \in Indices :
      LET instances == StartingOrRunningInstancesAtIndex(app, index)
      IN  /\ app.desired.desired /\ IsIndexDesired(app, index)
          /\ instances # {}
          /\ \A guid \in instances : ~AskedBefore(guid)
          => \E guid \in instances : ~Queued(stopMessagesToSave[guid])

(* An index that stays missing while nothing fails is started within       *)
(* RestartBound, whatever was queued for it before: at the worst a crashed *)
(* start held back by the backoff, whose key the missing start needs.      *)
RestartBound == MaximumBackoffDelay + GracePeriod + 3 * PollingInterval

MissingIsStarted ==
  \A index \in Indices :
    faults = 0 /\ missingSince[index] \in 1..now - RestartBound - 1 =>
      \E k \in DOMAIN startsAccepted[index] :
        startsAccepted[index][k].at >= missingSince[index]

(* A pending message as MessageLife sees it.                               *)
LifeOf(message) ==
  IF ~Queued(message)
  THEN [state |-> "absent", time |-> 0, keepAlive |-> 0]
  ELSE IF HasBeenSent(message)
  THEN [state |-> "sent", time |-> message.sentOn,
        keepAlive |-> message.keepAlive]
  ELSE [state |-> "waiting", time |-> message.sendOn,
        keepAlive |-> message.keepAlive]

LivesOf(map) == [key \in DOMAIN map |-> LifeOf(map[key])]
TimesOf(sent) == [k \in DOMAIN sent |-> sent[k].at]
Posted(sent) == [key \in DOMAIN sent |-> TimesOf(sent[key])]

StopLife == INSTANCE MessageLife
  WITH Keys <- Guids, life <- LivesOf(stops),
       posted <- Posted(stopsAccepted), clock <- now
StartLife == INSTANCE MessageLife
  WITH Keys <- Indices, life <- LivesOf(starts),
       posted <- Posted(startsAccepted), clock <- now

(* Every stop has the life of MessageLife, through all failures, crashes   *)
(* and overtaken passes (analyzer.go:122-132, sender.go:209-254).          *)
StopsLive == StopLife!Spec

(* So has every start until one is sent for an evacuating instance: from   *)
(* then on the analyzer is not the only one to write them.                 *)
NoneEvacuates ==
  /\ exits = 0
  /\ \A index \in Indices :
       \A k \in DOMAIN startsAccepted[index] :
         startsAccepted[index][k].reason # "EVACUATING"

StartsLive == [][NoneEvacuates' => [StartLife!Next]_(StartLife!vars)]_vars
=============================================================================
