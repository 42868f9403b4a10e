--------------------------- MODULE AnalyzerProcess ---------------------------
(***************************************************************************)
(* The analyzer process (hm/manage_desired_state.go): passes of analyze(), *)
(* each an analysis (analyzer/analyzer.go) and, if it succeeds, a Send of  *)
(* its output (sender/sender.go), one store or HTTP call at a time.        *)
(*                                                                         *)
(* The three goroutines of a pass are AnalyzePass's subject.  What matters *)
(* here of the fetching one is when it read the app's desired state, and   *)
(* that nothing is written unless it succeeded.                            *)
(***************************************************************************)
EXTENDS SharedStore

CONSTANT PollingInterval     \* conf.FetcherPollingInterval()

ASSUME PollingAssumption == PollingInterval \in Nat \ {0}

VARIABLES
  pc,               \* control point of the pass
  nextPass,         \* when afterChan lets the next pass begin
  page,             \* the desired state as fetched
  app,              \* the app the analyzer read, a snapshot
  pendingStarts,    \* existing starts as read, then with the new ones
  pendingStops,     \* likewise the stops
  analysis,         \* what this pass adds
  currentTime,      \* sender.currentTime
  startsToSend,     \* starts due and verified, not yet posted
  stopsToSend,      \* likewise the stops
  numberOfStartMessagesSent,
  startMessagesToSave,     \* those the sender marked as sent, by index
  startMessagesToDelete,   \* a set of indices
  stopMessagesToSave,
  stopMessagesToDelete

queues == <<startsToSend, stopsToSend, numberOfStartMessagesSent,
            startMessagesToSave, startMessagesToDelete, stopMessagesToSave,
            stopMessagesToDelete>>
pending == <<pendingStarts, pendingStops, analysis>>
analyzerVars == <<pc, nextPass, page, app, pending, currentTime, queues>>

(***************************************************************************)
(* page is NotFetched until the fetcher has read the app's page.           *)
(***************************************************************************)
NotFetched == [desired |-> FALSE, staged |-> TRUE, instances |-> 0]

ReadingPoint == {"apps", "counts", "starts", "stops", "analyze"}
SavingPoint == {"saveCrashCounts", "saveStarts", "saveStops"}
KeepingPoint == {"keepStarts", "deleteStarts", "keepStops", "deleteStops"}
Point == {"idle", "verify", "post"}
         \cup ReadingPoint \cup SavingPoint \cup KeepingPoint

NoCounts == [index \in Indices |-> 0]
NoApp == [desired |-> NotDesired, heartbeats |-> [g \in Guids |-> NoHeartbeat],
          crashCounts |-> NoCounts]
NoAnalysis == [starts |-> NoStarts, stops |-> NoStops, crashCounts |-> NoCounts]

AnalyzerTypeOK ==
  /\ pc \in Point
  /\ nextPass \in Nat
  /\ page \in DesiredAppState
  /\ app \in App
  /\ pendingStarts \in [Indices -> PendingStartMessage]
  /\ pendingStops \in [Guids -> PendingStopMessage]
  /\ analysis \in [starts : [Indices -> PendingStartMessage],
                   stops : [Guids -> PendingStopMessage],
                   crashCounts : [Indices -> Nat]]
  /\ currentTime \in Nat
  /\ startsToSend \in SUBSET Indices
  /\ stopsToSend \in SUBSET Guids
  /\ numberOfStartMessagesSent \in Nat
  /\ startMessagesToSave \in [Indices -> PendingStartMessage]
  /\ startMessagesToDelete \in SUBSET Indices
  /\ stopMessagesToSave \in [Guids -> PendingStopMessage]
  /\ stopMessagesToDelete \in SUBSET Guids

AnalyzerInit ==
  /\ pc = "idle"
  /\ nextPass = 1
  /\ page = NotFetched
  /\ app = NoApp
  /\ pendingStarts = NoStarts
  /\ pendingStops = NoStops
  /\ analysis = NoAnalysis
  /\ currentTime = 0
  /\ startsToSend = {}
  /\ stopsToSend = {}
  /\ numberOfStartMessagesSent = 0
  /\ startMessagesToSave = NoStarts
  /\ startMessagesToDelete = {}
  /\ stopMessagesToSave = NoStops
  /\ stopMessagesToDelete = {}

(* The pass is over, for whatever reason; the next one starts from nothing *)
(* (appQueue, Analyzer and sender are made anew for every pass).           *)
PassEnds ==
  /\ pc' = "idle"
  /\ page' = NotFetched
  /\ app' = NoApp
  /\ pendingStarts' = NoStarts
  /\ pendingStops' = NoStops
  /\ analysis' = NoAnalysis
  /\ currentTime' = 0
  /\ startsToSend' = {}
  /\ stopsToSend' = {}
  /\ numberOfStartMessagesSent' = 0
  /\ startMessagesToSave' = NoStarts
  /\ startMessagesToDelete' = {}
  /\ stopMessagesToSave' = NoStops
  /\ stopMessagesToDelete' = {}

---------------------------------------------------------------------------
(* The analysis.                                                           *)

(* Component.Run: a pass begins a polling interval after the previous one  *)
(* began, or when that one ends if it takes longer.  VerifyFreshness is    *)
(* the first thing Analyze does.                                           *)
PassBegins ==
  /\ pc = "idle"
  /\ now >= nextPass
  /\ nextPass' = now + PollingInterval
  /\ pc' = "apps"
  /\ UNCHANGED <<page, app, pending, currentTime, queues, shared>>

(* The fetcher reads the page with the app on it, if the app is on one, at *)
(* any moment while the analyzer reads the store.                          *)
FetchDesiredState ==
  /\ pc \in ReadingPoint
  /\ page = NotFetched
  /\ page' = wanted
  /\ UNCHANGED <<pc, nextPass, app, pending, currentTime, queues, shared>>

(* GetApps reads the heartbeats, then the crash counts.  An app is made    *)
(* from heartbeats; crash counts alone make none.                          *)
GetInstanceHeartbeats ==
  /\ pc = "apps"
  /\ app' = [NoApp EXCEPT !.heartbeats = actual]
  /\ pc' = "counts"
  /\ UNCHANGED <<nextPass, page, pending, currentTime, queues, shared>>

GetCrashCounts ==
  /\ pc = "counts"
  /\ app' = [app EXCEPT !.crashCounts =
       IF \E g \in Guids : app.heartbeats[g] # NoHeartbeat
       THEN crashCounts ELSE NoCounts]
  /\ pc' = "starts"
  /\ UNCHANGED <<nextPass, page, pending, currentTime, queues, shared>>

GetPendingStartMessages ==
  /\ pc = "starts"
  /\ pendingStarts' = starts
  /\ pc' = "stops"
  /\ UNCHANGED <<nextPass, page, app, pendingStops, analysis, currentTime,
                 queues, shared>>

GetPendingStopMessages ==
  /\ pc = "stops"
  /\ pendingStops' = stops
  /\ pc' = "analyze"
  /\ UNCHANGED <<nextPass, page, app, pendingStarts, analysis, currentTime,
                 queues, shared>>

(* The app is analyzed; its messages join those read from the store.       *)
AnalyzeApp ==
  /\ pc = "analyze"
  /\ page # NotFetched
  /\ app' = [app EXCEPT !.desired = page]
  /\ \E order \in Orders :
       analysis' = Analysis([app |-> app', now |-> now, order |-> order,
                             starts |-> pendingStarts, stops |-> pendingStops])
  /\ pendingStarts' =
       Write(pendingStarts, analysis'.starts, QueuedKeys(analysis'.starts))
  /\ pendingStops' =
       Write(pendingStops, analysis'.stops, QueuedKeys(analysis'.stops))
  /\ pc' = "saveCrashCounts"
  /\ UNCHANGED <<nextPass, page, currentTime, queues, shared>>

(* Faulty variant: a save that failed does not stop the pass.              *)
AfterSaveGoOn(next) ==
  pc' = next /\ UNCHANGED <<page, app, pending, currentTime, queues>>

(* Each of the three saves ends the pass if the store returns an error.    *)
AfterSave(next) ==
  IF faults' = faults
  THEN pc' = next /\ UNCHANGED <<page, app, pending, currentTime, queues>>
  ELSE PassEnds

(* Faulty variant: a count lives as long as the longest delay.             *)
CrashCountTTLShort == MaximumBackoffDelay

(* SaveCrashCounts renews the TTL of every count it writes.                *)
CrashCountTTL == 2 * MaximumBackoffDelay

SaveCrashCounts ==
  /\ pc = "saveCrashCounts"
  /\ \E saved \in SUBSET Indices :
       /\ Handled({index \in Indices : analysis.crashCounts[index] # 0}, saved)
       /\ crashCounts' = Write(crashCounts, analysis.crashCounts, saved)
       /\ crashExpiry' = [index \in Indices |->
            IF index \in saved THEN now + CrashCountTTL ELSE crashExpiry[index]]
  /\ AfterSave("saveStarts")
  /\ UNCHANGED <<nextPass, now, wanted, actual, starts, stops, accepted>>

SaveStarts ==
  /\ pc = "saveStarts"
  /\ \E saved \in SUBSET Indices :
       /\ Handled(QueuedKeys(analysis.starts), saved)
       /\ starts' = Write(starts, analysis.starts, saved)
  /\ AfterSave("saveStops")
  /\ UNCHANGED <<nextPass, now, wanted, actual, counts, stops, accepted>>

SaveStops ==
  /\ pc = "saveStops"
  /\ \E saved \in SUBSET Guids :
       /\ Handled(QueuedKeys(analysis.stops), saved)
       /\ stops' = Write(stops, analysis.stops, saved)
  /\ AfterSave("verify")
  /\ UNCHANGED <<nextPass, now, wanted, actual, counts, starts, accepted>>

---------------------------------------------------------------------------
(* The sender.  What is sent depends only on currentTime and on the app    *)
(* the analyzer read, which is not read again.                             *)

(* startMessageToSend.  An app that is not in the sender's map is not      *)
(* desired either.                                                         *)
ShouldStart(index, message) ==
  \/ message.skipVerification
  \/ /\ app.desired.desired
     /\ IsIndexDesired(app, index)
     /\ ~HasStartingOrRunningInstanceAtIndex(app, index)

(* stopMessageToSend.  The map has the app if it is desired or heartbeats. *)
ShouldStop(guid) ==
  LET index == ReportedIndex(app, guid)
  IN  /\ app.desired.desired \/ \E g \in Guids : app.heartbeats[g] # NoHeartbeat
      /\ \/ ~app.desired.desired
         \/ ~IsIndexDesired(app, index)
         \/ app.heartbeats[guid] = "EVACUATING"
         \/ Cardinality(StartingOrRunningInstancesAtIndex(app, index)) > 1

(* Faulty variant: sent messages stay for ever.                            *)
NeverExpiredKeys(map, time) == {}

DueKeys(map, time) ==
  {key \in QueuedKeys(map) : IsTimeToSend(map[key], time)}
ExpiredKeys(map, time) ==
  {key \in QueuedKeys(map) : IsExpired(map[key], time)}

(* Send verifies freshness and sorts the messages: those due are posted or *)
(* dropped, sent ones whose keep-alive is over are dropped, others wait.   *)
Send ==
  /\ pc = "verify"
  /\ currentTime' = now
  /\ startsToSend' = {index \in DueKeys(pendingStarts, now) :
                        ShouldStart(index, pendingStarts[index])}
  /\ startMessagesToDelete' = ExpiredKeys(pendingStarts, now)
       \cup (DueKeys(pendingStarts, now) \ startsToSend')
  /\ stopsToSend' = {guid \in DueKeys(pendingStops, now) : ShouldStop(guid)}
  /\ stopMessagesToDelete' = ExpiredKeys(pendingStops, now)
       \cup (DueKeys(pendingStops, now) \ stopsToSend')
  /\ pc' = "post"
  /\ UNCHANGED <<nextPass, page, app, pending, numberOfStartMessagesSent,
                 startMessagesToSave, stopMessagesToSave, shared>>

(* SortStartMessagesByPriority: by SendOn.  Priorities break ties only and *)
(* are equal within an app, but for evacuations; ties are left open.       *)
IsNextStart(index) ==
  /\ index \in startsToSend
  /\ \A other \in startsToSend :
       pendingStarts[index].sendOn <= pendingStarts[other].sendOn

(* sendStartMessageHttp, the Cloud Controller having accepted the start.   *)
PostStart ==
  /\ pc = "post"
  /\ numberOfStartMessagesSent < SenderMessageLimit
  /\ \E index \in startsToSend :
       /\ IsNextStart(index)
       /\ startsToSend' = startsToSend \ {index}
       /\ startsAccepted' =
            Accept(startsAccepted, index, pendingStarts[index], currentTime)
       /\ IF pendingStarts[index].keepAlive = 0
          THEN /\ startMessagesToDelete' = startMessagesToDelete \cup {index}
               /\ UNCHANGED startMessagesToSave
          ELSE /\ startMessagesToSave' = [startMessagesToSave EXCEPT ![index] =
                    [pendingStarts[index] EXCEPT !.sentOn = currentTime]]
               /\ UNCHANGED startMessagesToDelete
  /\ numberOfStartMessagesSent' = numberOfStartMessagesSent + 1
  /\ UNCHANGED <<pc, nextPass, page, app, pending, currentTime, stopsToSend,
                 stopMessagesToSave, stopMessagesToDelete, now, wanted, actual,
                 messages, stopsAccepted, faults>>

(* Faulty variant: the start is marked before the answer is known.         *)
PostStartFailsMarked ==
  /\ pc = "post"
  /\ numberOfStartMessagesSent < SenderMessageLimit
  /\ Fault
  /\ \E index \in startsToSend :
       /\ IsNextStart(index)
       /\ startsToSend' = startsToSend \ {index}
       /\ startMessagesToSave' = [startMessagesToSave EXCEPT ![index] =
            [pendingStarts[index] EXCEPT !.sentOn = currentTime]]
  /\ UNCHANGED <<pc, nextPass, page, app, pending, currentTime, stopsToSend,
                 numberOfStartMessagesSent, startMessagesToDelete,
                 stopMessagesToSave, stopMessagesToDelete, now, wanted, actual,
                 messages, accepted>>

(* The call failed or was refused: the message stays as it is in the       *)
(* store.  The Cloud Controller may have accepted it all the same, the     *)
(* answer being lost.                                                      *)
PostStartFails ==
  /\ pc = "post"
  /\ numberOfStartMessagesSent < SenderMessageLimit
  /\ Fault
  /\ \E index \in startsToSend :
       /\ IsNextStart(index)
       /\ startsToSend' = startsToSend \ {index}
       /\ \/ UNCHANGED startsAccepted
          \/ startsAccepted' =
               Accept(startsAccepted, index, pendingStarts[index], currentTime)
  /\ UNCHANGED <<pc, nextPass, page, app, pending, currentTime, stopsToSend,
                 numberOfStartMessagesSent, startMessagesToSave,
                 startMessagesToDelete, stopMessagesToSave,
                 stopMessagesToDelete, now, wanted, actual, messages,
                 stopsAccepted>>

(* Over the limit a verified start is neither sent nor dropped.            *)
HoldStarts ==
  /\ pc = "post"
  /\ numberOfStartMessagesSent >= SenderMessageLimit
  /\ startsToSend # {}
  /\ startsToSend' = {}
  /\ UNCHANGED <<pc, nextPass, page, app, pending, currentTime, stopsToSend,
                 numberOfStartMessagesSent, startMessagesToSave,
                 startMessagesToDelete, stopMessagesToSave,
                 stopMessagesToDelete, shared>>

(* sendStopMessageHttp, after all the starts.  The keep-alive of a stop is *)
(* a grace period, never 0.                                                *)
PostStop ==
  /\ pc = "post"
  /\ startsToSend = {}
  /\ \E guid \in stopsToSend :
       /\ stopsToSend' = stopsToSend \ {guid}
       /\ stopsAccepted' =
            Accept(stopsAccepted, guid, pendingStops[guid], currentTime)
       /\ stopMessagesToSave' = [stopMessagesToSave EXCEPT ![guid] =
            [pendingStops[guid] EXCEPT !.sentOn = currentTime]]
  /\ UNCHANGED <<pc, nextPass, page, app, pending, currentTime, startsToSend,
                 numberOfStartMessagesSent, startMessagesToSave,
                 startMessagesToDelete, stopMessagesToDelete, now, wanted,
                 actual, messages, startsAccepted, faults>>

PostStopFails ==
  /\ pc = "post"
  /\ startsToSend = {}
  /\ Fault
  /\ \E guid \in stopsToSend :
       /\ stopsToSend' = stopsToSend \ {guid}
       /\ \/ UNCHANGED stopsAccepted
          \/ stopsAccepted' =
               Accept(stopsAccepted, guid, pendingStops[guid], currentTime)
  /\ UNCHANGED <<pc, nextPass, page, app, pending, currentTime, startsToSend,
                 numberOfStartMessagesSent, startMessagesToSave,
                 startMessagesToDelete, stopMessagesToSave,
                 stopMessagesToDelete, now, wanted, actual, messages,
                 startsAccepted>>

PostingDone ==
  /\ pc = "post"
  /\ startsToSend = {}
  /\ stopsToSend = {}
  /\ pc' = "keepStarts"
  /\ UNCHANGED <<nextPass, page, app, pending, currentTime, queues, shared>>

(* The sender goes on to its next store call after one that failed.        *)
KeepStarts ==
  /\ pc = "keepStarts"
  /\ \E kept \in SUBSET Indices :
       /\ Handled(QueuedKeys(startMessagesToSave), kept)
       /\ starts' = Write(starts, startMessagesToSave, kept)
  /\ pc' = "deleteStarts"
  /\ UNCHANGED <<nextPass, page, app, pending, currentTime, queues, now, wanted,
                 actual, counts, stops, accepted>>

DeleteStarts ==
  /\ pc = "deleteStarts"
  /\ \E deleted \in SUBSET Indices :
       /\ Handled(startMessagesToDelete, deleted)
       /\ starts' = Write(starts, NoStarts, deleted)
  /\ pc' = "keepStops"
  /\ UNCHANGED <<nextPass, page, app, pending, currentTime, queues, now, wanted,
                 actual, counts, stops, accepted>>

KeepStops ==
  /\ pc = "keepStops"
  /\ \E kept \in SUBSET Guids :
       /\ Handled(QueuedKeys(stopMessagesToSave), kept)
       /\ stops' = Write(stops, stopMessagesToSave, kept)
  /\ pc' = "deleteStops"
  /\ UNCHANGED <<nextPass, page, app, pending, currentTime, queues, now, wanted,
                 actual, counts, starts, accepted>>

DeleteStops ==
  /\ pc = "deleteStops"
  /\ \E deleted \in SUBSET Guids :
       /\ Handled(stopMessagesToDelete, deleted)
       /\ stops' = Write(stops, NoStops, deleted)
  /\ PassEnds
  /\ UNCHANGED <<nextPass, now, wanted, actual, counts, starts, accepted>>

---------------------------------------------------------------------------

(* A read fails, the fetch fails, or the actual state is not fresh, at the *)
(* start of the analysis or again before sending: the pass is given up.    *)
PassFails ==
  /\ pc \in ReadingPoint \cup {"verify"}
  /\ Fault
  /\ PassEnds
  /\ UNCHANGED <<nextPass, now, wanted, actual, messages, accepted>>

(* The process dies or loses its lock, and the next one begins at once.    *)
ProcessDies ==
  /\ Fault
  /\ PassEnds
  /\ nextPass' = now
  /\ UNCHANGED <<now, wanted, actual, messages, accepted>>

AnalyzerStep ==
  \/ PassBegins \/ FetchDesiredState
  \/ GetInstanceHeartbeats \/ GetCrashCounts
  \/ GetPendingStartMessages \/ GetPendingStopMessages \/ AnalyzeApp
  \/ SaveCrashCounts \/ SaveStarts \/ SaveStops
  \/ Send \/ PostStart \/ PostStartFails \/ HoldStarts
  \/ PostStop \/ PostStopFails \/ PostingDone
  \/ KeepStarts \/ DeleteStarts \/ KeepStops \/ DeleteStops
  \/ PassFails \/ ProcessDies
=============================================================================
