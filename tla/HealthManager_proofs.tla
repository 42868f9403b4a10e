------------------------ MODULE HealthManager_proofs ------------------------
(***************************************************************************)
(* Proofs about HealthManager, for any instances, indices, delays, bounds  *)
(* and numbers of failures.                                                *)
(***************************************************************************)
EXTENDS HealthManager, AppAnalyzer_proofs

USE DEF counts

---------------------------------------------------------------------------
(* What the helpers return.                                                *)

(* So does the history of what was accepted.                               *)
LEMMA AcceptType ==
  ASSUME NEW K, NEW sent \in [K -> Seq(Acceptance)], NEW key \in K,
         NEW message \in PendingStartMessage \cup PendingStopMessage,
         NEW time \in Nat
  PROVE  Accept(sent, key, message, time) \in [K -> Seq(Acceptance)]
<1> DEFINE e == [at |-> time, keepAlive |-> message.keepAlive,
                 reason |-> message.reason]
<1>1. e \in Acceptance
  BY DEF Acceptance, PendingStartMessage, PendingStopMessage
<1>2. Append(sent[key], e) \in Seq(Acceptance)
  BY <1>1
<1> QED
  BY <1>2 DEF Accept

(* The messages of the empty maps.                                         *)
LEMMA EmptyTypes ==
  /\ NoStarts \in [Indices -> PendingStartMessage]
  /\ NoStops \in [Guids -> PendingStopMessage]
  /\ NoCounts \in [Indices -> Nat]
  /\ NotFetched \in DesiredAppState
  /\ NoApp \in App
  /\ NoAnalysis \in [starts : [Indices -> PendingStartMessage],
                     stops : [Guids -> PendingStopMessage],
                     crashCounts : [Indices -> Nat]]
<1>1. NoStarts \in [Indices -> PendingStartMessage]
  BY AbsentTypes DEF NoStarts
<1>2. NoStops \in [Guids -> PendingStopMessage]
  BY AbsentTypes DEF NoStops
<1>3. NoCounts \in [Indices -> Nat]
  BY DEF NoCounts
<1>4. NotDesired \in DesiredAppState /\ NotFetched \in DesiredAppState
  BY AbsentTypes, InstancesAssumption DEF NotFetched, DesiredAppState
<1>5. NoApp \in App
  BY <1>3, <1>4 DEF NoApp, App, Heartbeats, NoHeartbeat
<1>6. NoAnalysis \in [starts : [Indices -> PendingStartMessage],
                      stops : [Guids -> PendingStopMessage],
                      crashCounts : [Indices -> Nat]]
  BY <1>1, <1>2, <1>3 DEF NoAnalysis
<1> QED
  BY <1>1, <1>2, <1>3, <1>4, <1>5, <1>6

(* The start made for an evacuating instance, and its mark.                *)
LEMMA EvacuationStartType ==
  ASSUME NEW time \in Nat
  PROVE  /\ EvacuationStart(time) \in PendingStartMessage
         /\ ~HasBeenSent(EvacuationStart(time))
         /\ EvacuationStart(time).reason = "EVACUATING"
         /\ [EvacuationStart(time) EXCEPT !.sentOn = time]
              \in PendingStartMessage
         /\ [EvacuationStart(time) EXCEPT !.sentOn = time].sentOn = time
         /\ [EvacuationStart(time) EXCEPT !.sentOn = time].reason
              = "EVACUATING"
<1>1. EvacuationStart(time) \in PendingStartMessage
  BY DelaysAssumption DEF EvacuationStart, PendingStartMessage, StartReason
<1>2. /\ EvacuationStart(time).reason = "EVACUATING"
      /\ ~HasBeenSent(EvacuationStart(time))
  BY DEF EvacuationStart, HasBeenSent
<1>3. \A m \in PendingStartMessage :
        /\ [m EXCEPT !.sentOn = time].reason = m.reason
        /\ [m EXCEPT !.sentOn = time].sentOn = time
  BY DEF PendingStartMessage, StartReason
<1> QED
  BY <1>1, <1>2, <1>3, MarkTypes

---------------------------------------------------------------------------
(* Type correctness: the initial states, the environment, the evacuator.   *)

(* Every variable has its type at the start.                               *)
LEMMA InitTypeOK == Init => TypeOK
<1> SUFFICES ASSUME Init PROVE TypeOK
  OBVIOUS
<1>1. SharedTypeOK
  <2>1. wanted \in DesiredAppState
    BY AbsentTypes DEF Init, SharedInit, Wanted
  <2> QED
    BY <2>1, EmptyTypes, MaxFaultsAssumption DEF Init, SharedInit, SharedTypeOK
<1>2. AnalyzerTypeOK
  BY EmptyTypes DEF Init, AnalyzerInit, AnalyzerTypeOK, Point
<1>3. EvacuatorTypeOK
  BY AbsentTypes, MaxExitsAssumption, InstancesAssumption
  DEF Init, EvacuatorInit, EvacuatorTypeOK, Indices
<1>4. ListenerTypeOK
  BY InstancesAssumption DEF Init, ListenerInit, ListenerTypeOK, NoMarks,
     Indices
<1>5. /\ reports \in 0..MaxReports
      /\ crashStarts \in [Indices -> Nat]
      /\ missingSince \in [Indices -> Nat]
  BY HealthManagerAssumption DEF Init, SharedInit
<1> QED
  BY <1>1, <1>2, <1>3, <1>4, <1>5 DEF TypeOK

(* The clock keeps the types, and so does the end of a count.              *)
LEMMA TickTypeOK == TypeOK /\ Tick => TypeOK'
<1> SUFFICES ASSUME TypeOK, Tick PROVE TypeOK'
  OBVIOUS
<1>1. ASSUME NEW map \in [Indices -> Nat]
      PROVE  UnlessExpired(map) \in [Indices -> Nat]
  BY DEF UnlessExpired
<1>2. /\ crashCounts' \in [Indices -> Nat]
      /\ crashExpiry' \in [Indices -> Nat]
      /\ crashStarts' \in [Indices -> Nat]
  BY <1>1 DEF Tick, TypeOK, SharedTypeOK
<1>3. SharedTypeOK'
  <2>1. now' \in Nat
    BY DEF Tick, TypeOK, SharedTypeOK
  <2>2. UNCHANGED <<wanted, actual, starts, stops, startsAccepted,
                    stopsAccepted, faults>>
    BY DEF Tick, accepted
  <2> QED
    BY <1>2, <2>1, <2>2 DEF TypeOK, SharedTypeOK
<1>4. AnalyzerTypeOK' /\ EvacuatorTypeOK' /\ ListenerTypeOK'
  BY DEF Tick, TypeOK, AnalyzerTypeOK, EvacuatorTypeOK, ListenerTypeOK,
         analyzerVars, pending, queues, evacuatorVars, listenerVars
<1> QED
  BY <1>2, <1>3, <1>4 DEF Tick, TypeOK

(* The clock, the DEAs and the users keep the types.                       *)
LEMMA EnvironmentTypeOK == TypeOK /\ Environment => TypeOK'
<1> SUFFICES ASSUME TypeOK, Environment PROVE TypeOK'
  OBVIOUS
<1> USE DEF TypeOK, SharedTypeOK, AnalyzerTypeOK, EvacuatorTypeOK,
            ListenerTypeOK, analyzerVars, pending, queues, evacuatorVars,
            listenerVars, messages, accepted, history
<1>1. CASE Tick
  BY <1>1, TickTypeOK
<1>2. ASSUME WatchMissing PROVE missingSince' \in [Indices -> Nat]
  BY <1>2 DEF WatchMissing
<1>3. ASSUME NEW guid \in Guids, NEW state \in State \cup {NoHeartbeat},
             ReportHeartbeat(guid, state)
      PROVE  TypeOK'
  <2>1. actual' \in Heartbeats
    BY <1>3 DEF ReportHeartbeat, Heartbeats
  <2>2. reports' \in 0..MaxReports
    BY <1>3, HealthManagerAssumption DEF ReportHeartbeat
  <2>3. ListenerTypeOK'
    BY <1>3, InstancesAssumption DEF ReportHeartbeat, ListenerHears
  <2> QED
    BY <1>2, <1>3, <2>1, <2>2, <2>3 DEF ReportHeartbeat
<1>4. ASSUME NEW desired \in Wanted, ChangeDesired(desired) PROVE TypeOK'
  <2>1. wanted' \in DesiredAppState
    BY <1>4, AbsentTypes DEF ChangeDesired, Wanted
  <2>2. reports' \in 0..MaxReports
    BY <1>4, HealthManagerAssumption DEF ChangeDesired
  <2> QED
    BY <1>2, <1>4, <2>1, <2>2 DEF ChangeDesired
<1> QED
  BY <1>1, <1>3, <1>4 DEF Environment

(* What either process adds to the history has its type.                   *)
LEMMA RememberTypeOK ==
  ASSUME crashStarts \in [Indices -> Nat], Remember
  PROVE  crashStarts' \in [Indices -> Nat]
BY DEF Remember

(* A counted failure stays within its bound.                               *)
LEMMA FaultTypeOK ==
  ASSUME faults \in 0..MaxFaults, Fault \/ NoFault
  PROVE  faults' \in 0..MaxFaults
BY MaxFaultsAssumption DEF Fault, NoFault

(* The evacuator keeps the types.                                          *)
LEMMA EvacuatorActsTypeOK == TypeOK /\ EvacuatorActs => TypeOK'
<1> SUFFICES ASSUME TypeOK, EvacuatorActs PROVE TypeOK'
  OBVIOUS
<1> USE DEF SharedTypeOK, EvacuatorTypeOK
<1>1. AnalyzerTypeOK' /\ ListenerTypeOK' /\ reports' \in 0..MaxReports
      /\ missingSince' \in [Indices -> Nat]
  BY DEF TypeOK, AnalyzerTypeOK, ListenerTypeOK, EvacuatorActs, analyzerVars,
         listenerVars, pending, queues
<1>2. crashStarts' \in [Indices -> Nat]
  BY RememberTypeOK DEF TypeOK, EvacuatorActs
<1>3. ASSUME EvacuatorRests
      PROVE  /\ evacuator' \in {"idle", "send", "keep"}
             /\ exited' \in Indices
             /\ startMessage' \in PendingStartMessage
  BY <1>3, AbsentTypes, InstancesAssumption DEF EvacuatorRests, Indices
<1>4. ASSUME NEW index \in Indices, HandleExited(index)
      PROVE  SharedTypeOK' /\ EvacuatorTypeOK'
  <2>1. startMessage' \in PendingStartMessage
    BY <1>4, EvacuationStartType DEF HandleExited, TypeOK
  <2>2. starts' \in [Indices -> PendingStartMessage]
    BY <1>4, <2>1 DEF HandleExited, TypeOK
  <2>3. faults' \in 0..MaxFaults
    BY <1>4, FaultTypeOK DEF HandleExited, TypeOK
  <2>4. exits' \in 0..MaxExits
    BY <1>4, MaxExitsAssumption DEF HandleExited, TypeOK
  <2> QED
    BY <1>4, <2>1, <2>2, <2>3, <2>4 DEF HandleExited, TypeOK, accepted
<1>6. Accept(startsAccepted, exited, startMessage, now)
        \in [Indices -> Seq(Acceptance)]
  BY AcceptType DEF TypeOK
<1>7. CASE EvacuatorSends
  <2>1. startMessage' \in PendingStartMessage
    BY <1>7, MarkTypes DEF EvacuatorSends, TypeOK
  <2> QED
    BY <1>1, <1>2, <1>6, <1>7, <2>1 DEF EvacuatorSends, TypeOK, messages
<1>8. CASE EvacuatorSendFails
  BY <1>1, <1>2, <1>3, <1>6, <1>8, FaultTypeOK
  DEF EvacuatorSendFails, TypeOK, messages
<1>9. CASE EvacuatorKeeps
  BY <1>1, <1>2, <1>3, <1>9, FaultTypeOK
  DEF EvacuatorKeeps, TypeOK, accepted
<1> QED
  BY <1>1, <1>2, <1>4, <1>7, <1>8, <1>9 DEF EvacuatorActs, EvacuatorStep, TypeOK

(* What the listener's save leaves of each start: the one that was there,  *)
(* or one the listener has marked for that index.                          *)
LEMMA ListenerKeepsMarked ==
  ASSUME ListenerTypeOK, starts \in [Indices -> PendingStartMessage],
         ListenerKeeps
  PROVE  /\ starts' \in [Indices -> PendingStartMessage]
         /\ \A index \in Indices : \/ starts'[index] = starts[index]
                                   \/ starts'[index] \in markedByListener[index]
         /\ UNCHANGED markedByListener
<1>1. PICK kept \in SUBSET Indices, last \in LastWritten :
        /\ Handled(MarkedIndices, kept)
        /\ starts' = [index \in Indices |-> IF index \in kept THEN last[index]
                                            ELSE starts[index]]
  BY DEF ListenerKeeps
<1>2. kept \subseteq MarkedIndices
  BY <1>1 DEF Handled
<1>3. \A index \in MarkedIndices : last[index] \in markedByListener[index]
  BY DEF LastWritten
<1>4. \A index \in Indices : markedByListener[index] \subseteq PendingStartMessage
  BY DEF ListenerTypeOK
<1>5. \A index \in kept : last[index] \in markedByListener[index]
  BY <1>2, <1>3
<1> QED
  BY <1>1, <1>4, <1>5 DEF ListenerKeeps

(* So does the listener.                                                   *)
LEMMA ListenerActsTypeOK == TypeOK /\ ListenerActs => TypeOK'
<1> SUFFICES ASSUME TypeOK, ListenerActs PROVE TypeOK'
  OBVIOUS
<1> USE DEF SharedTypeOK, ListenerTypeOK
<1>1. AnalyzerTypeOK' /\ EvacuatorTypeOK' /\ reports' \in 0..MaxReports
      /\ missingSince' \in [Indices -> Nat]
  BY DEF TypeOK, AnalyzerTypeOK, EvacuatorTypeOK, ListenerActs, analyzerVars,
         evacuatorVars, pending, queues
<1>2. crashStarts' \in [Indices -> Nat]
  BY RememberTypeOK DEF TypeOK, ListenerActs
<1>3. 0 \in Indices
  BY InstancesAssumption DEF Indices
<1>4. Accept(startsAccepted, evacuating, EvacuationStart(now), now)
        \in [Indices -> Seq(Acceptance)]
  BY AcceptType, EvacuationStartType DEF TypeOK
<1>5. CASE ListenerSends
  <2>1. markedByListener' \in [Indices -> SUBSET PendingStartMessage]
    BY <1>5, EvacuationStartType DEF ListenerSends, TypeOK
  <2>2. /\ listener' = "keep" /\ evacuating' = evacuating
        /\ sentByListener' = sentByListener + 1
    BY <1>5 DEF ListenerSends
  <2>3. ListenerTypeOK'
    BY <2>1, <2>2 DEF TypeOK
  <2>4. startsAccepted' \in [Indices -> Seq(Acceptance)]
    BY <1>4, <1>5 DEF ListenerSends
  <2>5. SharedTypeOK'
    <3>1. UNCHANGED <<now, wanted, actual, starts, stops, counts,
                      stopsAccepted, faults>>
      BY <1>5 DEF ListenerSends, messages
    <3>2. UNCHANGED crashExpiry
      BY <3>1 DEF counts
    <3> QED
      <4>1. /\ now \in Nat /\ wanted \in DesiredAppState
            /\ actual \in Heartbeats
            /\ crashExpiry \in [Indices -> Nat]
            /\ starts \in [Indices -> PendingStartMessage]
            /\ stops \in [Guids -> PendingStopMessage]
            /\ stopsAccepted \in [Guids -> Seq(Acceptance)]
            /\ faults \in 0..MaxFaults
        BY DEF TypeOK
      <4>2. crashCounts' = crashCounts /\ crashCounts \in [Indices -> Nat]
        BY <3>1 DEF counts, TypeOK
      <4> HIDE DEF ListenerTypeOK
      <4> QED
        BY <2>4, <3>1, <3>2, <4>1, <4>2 DEF SharedTypeOK
  <2> HIDE DEF SharedTypeOK, ListenerTypeOK
  <2> QED
    BY <1>1, <1>2, <2>3, <2>5 DEF TypeOK
<1>6. CASE ListenerSendFails
  BY <1>1, <1>2, <1>4, <1>6, FaultTypeOK
  DEF ListenerSendFails, TypeOK, messages
<1>7. CASE ListenerHolds
  BY <1>1, <1>2, <1>7 DEF ListenerHolds, TypeOK, shared, messages, accepted
<1>8. CASE ListenerKeeps
  <2>1. PICK kept \in SUBSET Indices : Handled(MarkedIndices, kept)
    BY <1>8 DEF ListenerKeeps
  <2>2. starts' \in [Indices -> PendingStartMessage]
    BY <1>8, ListenerKeepsMarked DEF TypeOK
  <2>3. faults' \in 0..MaxFaults
    BY <2>1, FaultTypeOK DEF Handled, TypeOK
  <2> QED
    BY <1>1, <1>2, <1>3, <1>8, <2>2, <2>3 DEF ListenerKeeps, TypeOK, accepted
<1>9. CASE ListenerGivesUp
  BY <1>1, <1>2, <1>3, <1>9, FaultTypeOK
  DEF ListenerGivesUp, TypeOK, messages, accepted
<1>10. CASE ListenerDies
  BY <1>1, <1>2, <1>3, <1>10, FaultTypeOK
  DEF ListenerDies, NoMarks, TypeOK, messages, accepted
<1> QED
  BY <1>5, <1>6, <1>7, <1>8, <1>9, <1>10 DEF ListenerActs, ListenerStep

---------------------------------------------------------------------------
(* Type correctness: the analyzer.                                         *)

(* A pass that ends leaves its variables as they began.                    *)
LEMMA PassEndsTypeOK ==
  ASSUME PassEnds, nextPass' \in Nat
  PROVE  AnalyzerTypeOK'
BY EmptyTypes DEF PassEnds, AnalyzerTypeOK, Point

(* A save of the analysis either lets the pass go on or ends it.           *)
LEMMA AfterSaveTypeOK ==
  ASSUME AnalyzerTypeOK, nextPass' = nextPass, NEW next \in Point,
         AfterSave(next)
  PROVE  AnalyzerTypeOK'
<1>1. CASE PassEnds
  BY <1>1, PassEndsTypeOK DEF AnalyzerTypeOK
<1>2. CASE pc' = next /\ UNCHANGED <<page, app, pending, currentTime, queues>>
  BY <1>2 DEF AnalyzerTypeOK, pending, queues
<1> QED
  BY <1>1, <1>2 DEF AfterSave

(* The steps up to the analysis.                                           *)
LEMMA ReadingTypeOK ==
  ASSUME SharedTypeOK, AnalyzerTypeOK,
         \/ PassBegins \/ FetchDesiredState \/ GetInstanceHeartbeats
         \/ GetCrashCounts
         \/ GetPendingStartMessages \/ GetPendingStopMessages \/ AnalyzeApp
  PROVE  SharedTypeOK' /\ AnalyzerTypeOK'
<1>1. SharedTypeOK'
  BY DEF SharedTypeOK, shared, messages, accepted, PassBegins,
         FetchDesiredState, GetInstanceHeartbeats, GetCrashCounts,
         GetPendingStartMessages, GetPendingStopMessages, AnalyzeApp
<1> USE DEF AnalyzerTypeOK, Point, ReadingPoint, SavingPoint, pending, queues
<1>2. ASSUME PassBegins PROVE AnalyzerTypeOK'
  BY <1>2, PollingAssumption DEF PassBegins, SharedTypeOK
<1>3. ASSUME FetchDesiredState PROVE AnalyzerTypeOK'
  BY <1>3 DEF FetchDesiredState, SharedTypeOK
<1>4. ASSUME GetInstanceHeartbeats \/ GetCrashCounts PROVE AnalyzerTypeOK'
  <2>1. app' \in App
    BY <1>4, EmptyTypes
    DEF GetInstanceHeartbeats, GetCrashCounts, SharedTypeOK, App
  <2> QED
    BY <1>4, <2>1 DEF GetInstanceHeartbeats, GetCrashCounts
<1>5. ASSUME GetPendingStartMessages PROVE AnalyzerTypeOK'
  BY <1>5 DEF GetPendingStartMessages, SharedTypeOK
<1>6. ASSUME GetPendingStopMessages PROVE AnalyzerTypeOK'
  BY <1>6 DEF GetPendingStopMessages, SharedTypeOK
<1>7. ASSUME AnalyzeApp PROVE AnalyzerTypeOK'
  <2>1. app' \in App
    BY <1>7 DEF AnalyzeApp, App
  <2>2. analysis' \in [starts : [Indices -> PendingStartMessage],
                       stops : [Guids -> PendingStopMessage],
                       crashCounts : [Indices -> Nat]]
    <3>1. PICK order \in Orders :
            analysis' = Analysis([app |-> app', now |-> now, order |-> order,
                                  starts |-> pendingStarts,
                                  stops |-> pendingStops])
      BY <1>7 DEF AnalyzeApp
    <3> DEFINE a == [app |-> app', now |-> now, order |-> order,
                     starts |-> pendingStarts, stops |-> pendingStops]
    <3>2. a.app \in App /\ a.now \in Nat
      BY <2>1 DEF SharedTypeOK
    <3> HIDE DEF a
    <3>3. Analysis(a) \in [starts : [Indices -> PendingStartMessage],
                           stops : [Guids -> PendingStopMessage],
                           crashCounts : [Indices -> Nat]]
      BY <3>2, AnalysisType
    <3> QED
      BY <3>1, <3>3 DEF a
  <2>3. /\ pendingStarts' \in [Indices -> PendingStartMessage]
        /\ pendingStops' \in [Guids -> PendingStopMessage]
    BY <1>7, <2>2, WriteType DEF AnalyzeApp
  <2> QED
    BY <1>7, <2>1, <2>2, <2>3 DEF AnalyzeApp
<1> QED
  BY <1>1, <1>2, <1>3, <1>4, <1>5, <1>6, <1>7

(* The three saves.                                                        *)
LEMMA SavingTypeOK ==
  ASSUME SharedTypeOK, AnalyzerTypeOK,
         SaveCrashCounts \/ SaveStarts \/ SaveStops
  PROVE  SharedTypeOK' /\ AnalyzerTypeOK'
<1> USE DEF SharedTypeOK, accepted
<1>1. /\ analysis.crashCounts \in [Indices -> Nat]
      /\ analysis.starts \in [Indices -> PendingStartMessage]
      /\ analysis.stops \in [Guids -> PendingStopMessage]
  BY DEF AnalyzerTypeOK
<1>2. {"saveStarts", "saveStops", "verify"} \subseteq Point
  BY DEF Point, SavingPoint
<1>3. ASSUME NEW all, NEW some, Handled(all, some)
      PROVE  faults' \in 0..MaxFaults
  BY <1>3, FaultTypeOK DEF Handled
<1>4. CASE SaveCrashCounts
  <2>1. crashCounts' \in [Indices -> Nat]
    <3>1. PICK saved : crashCounts' = Write(crashCounts, analysis.crashCounts, saved)
      BY <1>4 DEF SaveCrashCounts
    <3> QED
      BY <1>1, <3>1, WriteType
  <2>2. crashExpiry' \in [Indices -> Nat]
    <3>1. now + CrashCountTTL \in Nat
      BY DelaysAssumption DEF CrashCountTTL
    <3> QED
      BY <1>4, <3>1 DEF SaveCrashCounts
  <2>3. AnalyzerTypeOK'
    BY <1>2, <1>4, AfterSaveTypeOK DEF SaveCrashCounts
  <2> QED
    BY <1>3, <1>4, <2>1, <2>2, <2>3 DEF SaveCrashCounts
<1>5. CASE SaveStarts
  <2>1. starts' \in [Indices -> PendingStartMessage]
    <3>1. PICK saved : starts' = Write(starts, analysis.starts, saved)
      BY <1>5 DEF SaveStarts
    <3> QED
      BY <1>1, <3>1, WriteType
  <2>2. AnalyzerTypeOK'
    BY <1>2, <1>5, AfterSaveTypeOK DEF SaveStarts
  <2> QED
    BY <1>3, <1>5, <2>1, <2>2 DEF SaveStarts
<1>6. CASE SaveStops
  <2>1. stops' \in [Guids -> PendingStopMessage]
    <3>1. PICK saved : stops' = Write(stops, analysis.stops, saved)
      BY <1>6 DEF SaveStops
    <3> QED
      BY <1>1, <3>1, WriteType
  <2>2. AnalyzerTypeOK'
    BY <1>2, <1>6, AfterSaveTypeOK DEF SaveStops
  <2> QED
    BY <1>3, <1>6, <2>1, <2>2 DEF SaveStops
<1> QED
  BY <1>4, <1>5, <1>6

(* The sender, up to its last post.                                        *)
LEMMA SendingTypeOK ==
  ASSUME SharedTypeOK, AnalyzerTypeOK,
         \/ Send \/ PostStart \/ PostStartFails \/ HoldStarts
         \/ PostStop \/ PostStopFails \/ PostingDone
  PROVE  SharedTypeOK' /\ AnalyzerTypeOK'
<1> USE DEF SharedTypeOK, AnalyzerTypeOK, shared, messages, accepted, pending
<1>1. "post" \in Point /\ "keepStarts" \in Point
  BY DEF Point, KeepingPoint
<1>3. ASSUME NEW index \in Indices
      PROVE  Accept(startsAccepted, index, pendingStarts[index], currentTime)
               \in [Indices -> Seq(Acceptance)]
  BY AcceptType
<1>4. ASSUME NEW guid \in Guids
      PROVE  Accept(stopsAccepted, guid, pendingStops[guid], currentTime)
               \in [Guids -> Seq(Acceptance)]
  BY AcceptType
<1>5. CASE Send
  <2>1. /\ DueKeys(pendingStarts, now) \subseteq Indices
        /\ ExpiredKeys(pendingStarts, now) \subseteq Indices
        /\ DueKeys(pendingStops, now) \subseteq Guids
        /\ ExpiredKeys(pendingStops, now) \subseteq Guids
    BY DEF DueKeys, ExpiredKeys, QueuedKeys
  <2> QED
    BY <1>1, <1>5, <2>1 DEF Send
<1>6. CASE PostStart
  <2>1. PICK index \in startsToSend :
          /\ startsToSend' = startsToSend \ {index}
          /\ startsAccepted' =
               Accept(startsAccepted, index, pendingStarts[index], currentTime)
          /\ \/ /\ startMessagesToDelete' = startMessagesToDelete \cup {index}
                /\ UNCHANGED startMessagesToSave
             \/ /\ startMessagesToSave' = [startMessagesToSave EXCEPT ![index] =
                      [pendingStarts[index] EXCEPT !.sentOn = currentTime]]
                /\ UNCHANGED startMessagesToDelete
    BY <1>6 DEF PostStart
  <2>2. [pendingStarts[index] EXCEPT !.sentOn = currentTime]
          \in PendingStartMessage
    BY MarkTypes
  <2>3. startMessagesToSave' \in [Indices -> PendingStartMessage]
    BY <2>1, <2>2
  <2> QED
    <3>1. /\ startsToSend' \subseteq Indices
          /\ startMessagesToDelete' \subseteq Indices
          /\ startsAccepted' \in [Indices -> Seq(Acceptance)]
      BY <1>3, <2>1
    <3>2. numberOfStartMessagesSent' \in Nat
      BY <1>6 DEF PostStart
    <3> QED
      BY <1>6, <2>3, <3>1, <3>2 DEF PostStart
<1>7. CASE PostStartFails
  <2>1. PICK index \in startsToSend :
          /\ startsToSend' = startsToSend \ {index}
          /\ \/ UNCHANGED startsAccepted
             \/ startsAccepted' =
                  Accept(startsAccepted, index, pendingStarts[index], currentTime)
    BY <1>7 DEF PostStartFails
  <2>2. startsAccepted' \in [Indices -> Seq(Acceptance)]
    BY <1>3, <2>1
  <2>3. faults' \in 0..MaxFaults
    BY <1>7, FaultTypeOK DEF PostStartFails
  <2> QED
    BY <1>7, <2>1, <2>2, <2>3 DEF PostStartFails
<1>8. CASE HoldStarts
  BY <1>8 DEF HoldStarts
<1>9. CASE PostStop
  <2>1. PICK guid \in stopsToSend :
          /\ stopsToSend' = stopsToSend \ {guid}
          /\ stopsAccepted' =
               Accept(stopsAccepted, guid, pendingStops[guid], currentTime)
          /\ stopMessagesToSave' = [stopMessagesToSave EXCEPT ![guid] =
               [pendingStops[guid] EXCEPT !.sentOn = currentTime]]
    BY <1>9 DEF PostStop
  <2>2. stopMessagesToSave' \in [Guids -> PendingStopMessage]
    BY <2>1, MarkTypes
  <2> QED
    BY <1>4, <1>9, <2>1, <2>2 DEF PostStop
<1>10. CASE PostStopFails
  <2>1. PICK guid \in stopsToSend :
          /\ stopsToSend' = stopsToSend \ {guid}
          /\ \/ UNCHANGED stopsAccepted
             \/ stopsAccepted' =
                  Accept(stopsAccepted, guid, pendingStops[guid], currentTime)
    BY <1>10 DEF PostStopFails
  <2>2. stopsAccepted' \in [Guids -> Seq(Acceptance)]
    BY <1>4, <2>1
  <2>3. faults' \in 0..MaxFaults
    BY <1>10, FaultTypeOK DEF PostStopFails
  <2> QED
    BY <1>10, <2>1, <2>2, <2>3 DEF PostStopFails
<1>11. CASE PostingDone
  BY <1>1, <1>11 DEF PostingDone, queues
<1> QED
  BY <1>5, <1>6, <1>7, <1>8, <1>9, <1>10, <1>11

(* The sender's writes, and the ways a pass ends early.                    *)
LEMMA KeepingTypeOK ==
  ASSUME SharedTypeOK, AnalyzerTypeOK,
         \/ KeepStarts \/ DeleteStarts \/ KeepStops \/ DeleteStops
         \/ PassFails \/ ProcessDies
  PROVE  SharedTypeOK' /\ AnalyzerTypeOK'
<1>1. {"deleteStarts", "keepStops", "deleteStops"} \subseteq Point
  BY DEF Point, KeepingPoint
<1>2. ASSUME NEW all, NEW some, Handled(all, some)
      PROVE  faults' \in 0..MaxFaults
  BY <1>2, FaultTypeOK DEF Handled, SharedTypeOK
<1>3. ASSUME NEW keys
      PROVE  /\ Write(starts, startMessagesToSave, keys)
                  \in [Indices -> PendingStartMessage]
             /\ Write(starts, NoStarts, keys)
                  \in [Indices -> PendingStartMessage]
             /\ Write(stops, stopMessagesToSave, keys)
                  \in [Guids -> PendingStopMessage]
             /\ Write(stops, NoStops, keys) \in [Guids -> PendingStopMessage]
  BY WriteType, EmptyTypes DEF SharedTypeOK, AnalyzerTypeOK
<1>4. CASE KeepStarts
  BY <1>1, <1>2, <1>3, <1>4
  DEF KeepStarts, SharedTypeOK, AnalyzerTypeOK, accepted, pending, queues
<1>5. CASE DeleteStarts
  BY <1>1, <1>2, <1>3, <1>5
  DEF DeleteStarts, SharedTypeOK, AnalyzerTypeOK, accepted, pending, queues
<1>6. CASE KeepStops
  BY <1>1, <1>2, <1>3, <1>6
  DEF KeepStops, SharedTypeOK, AnalyzerTypeOK, accepted, pending, queues
<1>7. CASE DeleteStops
  <2>1. AnalyzerTypeOK'
    BY <1>7, PassEndsTypeOK DEF DeleteStops, AnalyzerTypeOK
  <2> QED
    BY <1>2, <1>3, <1>7, <2>1 DEF DeleteStops, SharedTypeOK, accepted
<1>8. CASE PassFails
  <2>1. AnalyzerTypeOK'
    BY <1>8, PassEndsTypeOK DEF PassFails, AnalyzerTypeOK
  <2> QED
    BY <1>8, <2>1, FaultTypeOK DEF PassFails, SharedTypeOK, messages, accepted
<1>9. CASE ProcessDies
  <2>1. AnalyzerTypeOK'
    BY <1>9, PassEndsTypeOK DEF ProcessDies, SharedTypeOK
  <2> QED
    BY <1>9, <2>1, FaultTypeOK DEF ProcessDies, SharedTypeOK, messages, accepted
<1> QED
  BY <1>4, <1>5, <1>6, <1>7, <1>8, <1>9

(* The analyzer process keeps the types.                                   *)
LEMMA AnalyzerActsTypeOK == TypeOK /\ AnalyzerActs => TypeOK'
<1> SUFFICES ASSUME TypeOK, AnalyzerActs PROVE TypeOK'
  OBVIOUS
<1>1. SharedTypeOK' /\ AnalyzerTypeOK'
  BY ReadingTypeOK, SavingTypeOK, SendingTypeOK, KeepingTypeOK
  DEF AnalyzerActs, AnalyzerStep, TypeOK
<1>2. EvacuatorTypeOK' /\ ListenerTypeOK' /\ reports' \in 0..MaxReports
      /\ missingSince' \in [Indices -> Nat]
  BY DEF AnalyzerActs, TypeOK, EvacuatorTypeOK, ListenerTypeOK, evacuatorVars,
         listenerVars
<1>3. crashStarts' \in [Indices -> Nat]
  BY RememberTypeOK DEF AnalyzerActs, TypeOK
<1> QED
  BY <1>1, <1>2, <1>3 DEF TypeOK

(* Every step keeps the types.                                             *)
LEMMA NextTypeOK == TypeOK /\ [Next]_vars => TypeOK'
<1>1. TypeOK /\ UNCHANGED vars => TypeOK'
  BY DEF vars, TypeOK, SharedTypeOK, AnalyzerTypeOK, EvacuatorTypeOK,
         ListenerTypeOK, shared, messages, accepted, analyzerVars, pending,
         queues, evacuatorVars, listenerVars, history
<1> QED
  BY <1>1, EnvironmentTypeOK, AnalyzerActsTypeOK, EvacuatorActsTypeOK,
     ListenerActsTypeOK
  DEF Next, TimeIsUp

(* Every variable of the health manager keeps its type, whatever fails.    *)
THEOREM TypeCorrect == Spec => []TypeOK
BY InitTypeOK, NextTypeOK, PTL DEF Spec

---------------------------------------------------------------------------
(* The marks of sent messages.  Marks travel from the sender to the store  *)
(* and back to a later pass through the copies it reads, so every copy of  *)
(* a message must carry a true mark, and what an analysis makes no mark.   *)

AllTrueMarks(map, sent) ==
  \A key \in DOMAIN map : IsTrueMark(map[key], sent[key])

(* The listener may have marked several starts for one index.              *)
AllTrueIn(marks, sent) ==
  \A index \in DOMAIN marks : \A m \in marks[index] : IsTrueMark(m, sent[index])

CopiedMarksAreTrue ==
  /\ AllTrueMarks(pendingStarts, startsAccepted)
  /\ AllTrueMarks(pendingStops, stopsAccepted)
  /\ AllTrueMarks(startMessagesToSave, startsAccepted)
  /\ AllTrueMarks(stopMessagesToSave, stopsAccepted)
  /\ AllTrueIn(markedByListener, startsAccepted)
  /\ IsTrueMark(startMessage, startsAccepted[exited])

AnalysisIsUnmarked ==
  /\ \A index \in Indices : ~HasBeenSent(analysis.starts[index])
  /\ \A guid \in Guids : ~HasBeenSent(analysis.stops[guid])

MarksInv == SentMarksAreTrue /\ CopiedMarksAreTrue /\ AnalysisIsUnmarked

(* The messages the evacuator and the listener keep.                       *)
otherMarks == <<startMessage, exited, markedByListener>>

(* A mark stays true when more is accepted.                                *)
LEMMA AcceptKeepsMarks ==
  ASSUME NEW K, NEW sent \in [K -> Seq(Acceptance)], NEW key \in K,
         NEW message \in PendingStartMessage \cup PendingStopMessage,
         NEW time \in Nat
  PROVE  \A k \in K : \A m :
           IsTrueMark(m, sent[k]) =>
             IsTrueMark(m, Accept(sent, key, message, time)[k])
<1> SUFFICES ASSUME NEW k \in K, NEW m, IsTrueMark(m, sent[k]), HasBeenSent(m)
             PROVE  IsTrueMark(m, Accept(sent, key, message, time)[k])
  BY DEF IsTrueMark
<1> DEFINE e == [at |-> time, keepAlive |-> message.keepAlive,
                 reason |-> message.reason]
<1>1. PICK n \in DOMAIN sent[k] : sent[k][n].at = m.sentOn
  BY DEF IsTrueMark
<1>2. e \in Acceptance
  BY DEF Acceptance, PendingStartMessage, PendingStopMessage
<1>3. n \in DOMAIN Append(sent[k], e) /\ Append(sent[k], e)[n] = sent[k][n]
  BY <1>2
<1> QED
  BY <1>1, <1>3 DEF IsTrueMark, Accept

(* A message marked when it is accepted has a true mark.                   *)
LEMMA AcceptMarks ==
  ASSUME NEW K, NEW sent \in [K -> Seq(Acceptance)], NEW key \in K,
         NEW message \in PendingStartMessage \cup PendingStopMessage,
         NEW time \in Nat, NEW m, m.sentOn = time
  PROVE  IsTrueMark(m, Accept(sent, key, message, time)[key])
<1> DEFINE e == [at |-> time, keepAlive |-> message.keepAlive,
                 reason |-> message.reason]
           n == Len(sent[key]) + 1
<1>1. e \in Acceptance /\ e.at = time
  BY DEF Acceptance, PendingStartMessage, PendingStopMessage
<1>2. n \in DOMAIN Append(sent[key], e) /\ Append(sent[key], e)[n] = e
  BY <1>1
<1>3. Accept(sent, key, message, time)[key] = Append(sent[key], e)
  BY DEF Accept
<1> QED
  BY <1>1, <1>2, <1>3 DEF IsTrueMark

(* Messages with true marks may be written over others.                    *)
LEMMA WriteMarks ==
  ASSUME NEW K, NEW M, NEW map \in [K -> M], NEW new \in [K -> M], NEW keys,
         NEW sent, AllTrueMarks(map, sent), AllTrueMarks(new, sent)
  PROVE  AllTrueMarks(Write(map, new, keys), sent)
BY DEF AllTrueMarks, Write

(* An absent message bears no mark.                                        *)
LEMMA EmptyMarks ==
  /\ ~HasBeenSent(NoStart)
  /\ ~HasBeenSent(NoStop)
  /\ \A sent : AllTrueMarks(NoStarts, sent) /\ AllTrueMarks(NoStops, sent)
BY AbsentNotSent DEF AllTrueMarks, NoStarts, NoStops, IsTrueMark

(* The marks are true at the start: there are none.                        *)
LEMMA InitMarks == Init => MarksInv
<1> SUFFICES ASSUME Init PROVE MarksInv
  OBVIOUS
<1>1. \A sent : /\ AllTrueMarks(starts, sent) /\ AllTrueMarks(pendingStarts, sent)
                /\ AllTrueMarks(startMessagesToSave, sent)
                /\ AllTrueMarks(stops, sent) /\ AllTrueMarks(pendingStops, sent)
                /\ AllTrueMarks(stopMessagesToSave, sent)
  BY EmptyMarks DEF Init, SharedInit, AnalyzerInit, NoStarts, NoStops
<1>2. SentMarksAreTrue
  BY <1>1 DEF SentMarksAreTrue, AllTrueMarks, Init, SharedInit, NoStarts,
     NoStops
<1>3. CopiedMarksAreTrue
  BY <1>1, EmptyMarks
  DEF CopiedMarksAreTrue, Init, EvacuatorInit, ListenerInit, NoMarks, AllTrueIn,
      IsTrueMark
<1>4. AnalysisIsUnmarked
  BY EmptyMarks
  DEF AnalysisIsUnmarked, Init, AnalyzerInit, NoAnalysis, NoStarts, NoStops
<1> QED
  BY <1>2, <1>3, <1>4 DEF MarksInv

(* A step that touches no message keeps the marks.                         *)
LEMMA IdleMarks ==
  ASSUME MarksInv,
         UNCHANGED <<starts, stops, accepted, pending, startMessagesToSave,
                     stopMessagesToSave, otherMarks>>
  PROVE  MarksInv'
BY DEF otherMarks, MarksInv, SentMarksAreTrue, CopiedMarksAreTrue,
       AnalysisIsUnmarked, AllTrueMarks, AllTrueIn, accepted, pending

(* The evacuator marks its message when the start has been accepted.       *)
LEMMA EvacuatorMarks ==
  ASSUME TypeOK, MarksInv, EvacuatorActs
  PROVE  MarksInv'
<1> USE DEF MarksInv
<1>1. starts \in [Indices -> PendingStartMessage]
      /\ startsAccepted \in [Indices -> Seq(Acceptance)]
      /\ startMessage \in PendingStartMessage
      /\ exited \in Indices /\ now \in Nat
  BY DEF TypeOK, SharedTypeOK, EvacuatorTypeOK
<1>2. UNCHANGED <<pending, startMessagesToSave, stopMessagesToSave,
                  markedByListener>>
  BY DEF EvacuatorActs, analyzerVars, queues, listenerVars
<1>3. DOMAIN pendingStarts = Indices /\ DOMAIN startMessagesToSave = Indices
      /\ DOMAIN markedByListener = Indices
  BY DEF TypeOK, AnalyzerTypeOK, ListenerTypeOK
<1>5. ASSUME EvacuatorRests PROVE IsTrueMark(startMessage', startsAccepted'[exited'])
  BY <1>5, EmptyMarks DEF EvacuatorRests, IsTrueMark
<1> DEFINE Sent == Accept(startsAccepted, exited, startMessage, now)
<1>6. \A k \in Indices : \A m :
        IsTrueMark(m, startsAccepted[k]) => IsTrueMark(m, Sent[k])
  BY <1>1, AcceptKeepsMarks
<1>7. ASSUME startsAccepted' \in {startsAccepted, Sent}
      PROVE  /\ AllTrueMarks(pendingStarts, startsAccepted')
             /\ AllTrueMarks(startMessagesToSave, startsAccepted')
             /\ AllTrueIn(markedByListener, startsAccepted')
             /\ \A k \in Indices : IsTrueMark(starts[k], startsAccepted'[k])
  <2>1. ASSUME NEW k \in Indices, NEW m, IsTrueMark(m, startsAccepted[k])
        PROVE  IsTrueMark(m, startsAccepted'[k])
    BY <1>6, <1>7, <2>1
  <2>2. \A k \in Indices :
          /\ IsTrueMark(pendingStarts[k], startsAccepted[k])
          /\ IsTrueMark(startMessagesToSave[k], startsAccepted[k])
          /\ \A m \in markedByListener[k] : IsTrueMark(m, startsAccepted[k])
    BY <1>3 DEF CopiedMarksAreTrue, AllTrueMarks, AllTrueIn
  <2>3. \A k \in Indices : IsTrueMark(starts[k], startsAccepted[k])
    BY DEF SentMarksAreTrue
  <2> QED
    BY <1>3, <2>1, <2>2, <2>3 DEF AllTrueMarks, AllTrueIn
<1>8. ASSUME NEW index \in Indices, HandleExited(index) PROVE MarksInv'
  <2>1. ~HasBeenSent(startMessage')
    BY <1>1, <1>8, EvacuationStartType DEF HandleExited
  <2>2. SentMarksAreTrue'
    BY <1>1, <1>8, <2>1
    DEF HandleExited, accepted, SentMarksAreTrue, IsTrueMark
  <2> QED
    BY <1>2, <1>8, <2>1, <2>2
    DEF HandleExited, accepted, CopiedMarksAreTrue, AllTrueMarks, AllTrueIn,
        AnalysisIsUnmarked, pending, IsTrueMark
<1>9. CASE EvacuatorSends
  <2>1. IsTrueMark(startMessage', startsAccepted'[exited'])
    <3>1. startMessage'.sentOn = now
      BY <1>1, <1>9 DEF EvacuatorSends, PendingStartMessage
    <3> QED
      BY <1>1, <1>9, <3>1, AcceptMarks DEF EvacuatorSends
  <2> QED
    BY <1>2, <1>7, <1>9, <2>1
    DEF EvacuatorSends, messages, SentMarksAreTrue, CopiedMarksAreTrue,
        AllTrueMarks, AllTrueIn, AnalysisIsUnmarked, pending
<1>10. CASE EvacuatorSendFails
  BY <1>2, <1>5, <1>7, <1>10
  DEF EvacuatorSendFails, messages, SentMarksAreTrue, CopiedMarksAreTrue,
      AllTrueMarks, AllTrueIn, AnalysisIsUnmarked, pending
<1>11. CASE EvacuatorKeeps
  <2>1. SentMarksAreTrue'
    BY <1>1, <1>11
    DEF EvacuatorKeeps, accepted, SentMarksAreTrue, CopiedMarksAreTrue
  <2> QED
    BY <1>2, <1>5, <1>11, <2>1
    DEF EvacuatorKeeps, accepted, CopiedMarksAreTrue, AllTrueMarks, AllTrueIn,
        AnalysisIsUnmarked, pending
<1> QED
  BY <1>8, <1>9, <1>10, <1>11 DEF EvacuatorActs, EvacuatorStep

(* The listener saves again what it once marked, which is still true.      *)
LEMMA ListenerMarks ==
  ASSUME TypeOK, MarksInv, ListenerActs
  PROVE  MarksInv'
<1>1. /\ starts \in [Indices -> PendingStartMessage]
      /\ markedByListener \in [Indices -> SUBSET PendingStartMessage]
      /\ startsAccepted \in [Indices -> Seq(Acceptance)]
      /\ evacuating \in Indices /\ exited \in Indices /\ now \in Nat
  BY DEF TypeOK, SharedTypeOK, EvacuatorTypeOK, ListenerTypeOK
<1>2. UNCHANGED <<pending, startMessagesToSave, stopMessagesToSave,
                  startMessage, exited>>
  BY DEF ListenerActs, analyzerVars, queues, evacuatorVars
<1>3. DOMAIN pendingStarts = Indices /\ DOMAIN startMessagesToSave = Indices
  BY DEF TypeOK, AnalyzerTypeOK
<1> DEFINE Sent == Accept(startsAccepted, evacuating, EvacuationStart(now), now)
           marked == [EvacuationStart(now) EXCEPT !.sentOn = now]
<1>4. \A k \in Indices : \A m :
        IsTrueMark(m, startsAccepted[k]) => IsTrueMark(m, Sent[k])
  BY <1>1, EvacuationStartType, AcceptKeepsMarks
<1>5. ASSUME startsAccepted' \in {startsAccepted, Sent}
      PROVE  /\ AllTrueMarks(pendingStarts, startsAccepted')
             /\ AllTrueMarks(startMessagesToSave, startsAccepted')
             /\ AllTrueIn(markedByListener, startsAccepted')
             /\ IsTrueMark(startMessage, startsAccepted'[exited])
             /\ \A k \in Indices : IsTrueMark(starts[k], startsAccepted'[k])
  BY <1>1, <1>3, <1>4, <1>5
  DEF MarksInv, CopiedMarksAreTrue, SentMarksAreTrue, AllTrueMarks, AllTrueIn
<1>6. CASE ListenerSends
  <2>1. IsTrueMark(marked, Sent[evacuating])
    BY <1>1, EvacuationStartType, AcceptMarks
  <2>2. /\ startsAccepted' = Sent
        /\ markedByListener' =
             [markedByListener EXCEPT ![evacuating] = @ \cup {marked}]
        /\ UNCHANGED <<starts, stops, stopsAccepted>>
    BY <1>6 DEF ListenerSends, messages
  <2>3. AllTrueIn(markedByListener', startsAccepted')
    BY <1>1, <1>5, <2>1, <2>2 DEF AllTrueIn
  <2> HIDE DEF Sent, marked
  <2> QED
    BY <1>2, <1>5, <2>2, <2>3
    DEF MarksInv, SentMarksAreTrue, CopiedMarksAreTrue, AllTrueMarks,
        AnalysisIsUnmarked, pending
<1>7. CASE ListenerSendFails
  <2>1. /\ startsAccepted' \in {startsAccepted, Sent}
        /\ UNCHANGED <<markedByListener, starts, stops, stopsAccepted>>
    BY <1>7 DEF ListenerSendFails, messages
  <2> HIDE DEF Sent
  <2> QED
    BY <1>2, <1>5, <2>1
    DEF MarksInv, SentMarksAreTrue, CopiedMarksAreTrue, AllTrueMarks,
        AnalysisIsUnmarked, pending
<1>8. CASE ListenerHolds \/ ListenerGivesUp
  BY <1>2, <1>8, IdleMarks
  DEF ListenerHolds, ListenerGivesUp, shared, messages, otherMarks
<1>9. CASE ListenerDies
  <2>1. \A sent : AllTrueIn(markedByListener', sent)
    BY <1>9 DEF ListenerDies, NoMarks, AllTrueIn
  <2>2. UNCHANGED <<starts, stops, accepted>>
    BY <1>9 DEF ListenerDies, messages
  <2> QED
    BY <1>2, <2>1, <2>2
    DEF MarksInv, SentMarksAreTrue, CopiedMarksAreTrue, AnalysisIsUnmarked,
        AllTrueMarks, pending, accepted
<1>10. CASE ListenerKeeps
  <2>1. /\ starts' \in [Indices -> PendingStartMessage]
        /\ \A index \in Indices : \/ starts'[index] = starts[index]
                                  \/ starts'[index] \in markedByListener[index]
    BY <1>10, ListenerKeepsMarked DEF TypeOK, SharedTypeOK
  <2>2. /\ \A index \in Indices : IsTrueMark(starts[index], startsAccepted[index])
        /\ AllTrueIn(markedByListener, startsAccepted)
    BY <1>1 DEF MarksInv, SentMarksAreTrue, CopiedMarksAreTrue
  <2>3. \A index \in Indices : IsTrueMark(starts'[index], startsAccepted[index])
    BY <1>1, <2>1, <2>2 DEF AllTrueIn
  <2>4. UNCHANGED <<markedByListener, stops, accepted>>
    BY <1>10 DEF ListenerKeeps
  <2> QED
    BY <1>2, <2>3, <2>4
    DEF MarksInv, SentMarksAreTrue, CopiedMarksAreTrue, AllTrueMarks,
        AnalysisIsUnmarked, pending, accepted
<1> QED
  BY <1>6, <1>7, <1>8, <1>9, <1>10 DEF ListenerActs, ListenerStep

(* The end of a pass forgets all copies.                                   *)
LEMMA PassEndsMarks ==
  ASSUME MarksInv, PassEnds, SentMarksAreTrue',
         UNCHANGED <<accepted, otherMarks>>
  PROVE  MarksInv'
BY EmptyMarks
DEF otherMarks, MarksInv, PassEnds, CopiedMarksAreTrue, AnalysisIsUnmarked,
    NoAnalysis, NoStarts, NoStops, AllTrueMarks, IsTrueMark, accepted

(* Reading and saving: copies of true marks are true.                      *)
LEMMA ReadingMarks ==
  ASSUME TypeOK, MarksInv, UNCHANGED otherMarks,
         \/ PassBegins \/ FetchDesiredState \/ GetInstanceHeartbeats
         \/ GetCrashCounts
         \/ GetPendingStartMessages \/ GetPendingStopMessages \/ AnalyzeApp
  PROVE  MarksInv'
<1>1. CASE PassBegins \/ FetchDesiredState \/ GetInstanceHeartbeats
                      \/ GetCrashCounts
  BY <1>1, IdleMarks
  DEF PassBegins, FetchDesiredState, GetInstanceHeartbeats, GetCrashCounts,
      shared, messages, pending, queues
<1>2. CASE GetPendingStartMessages \/ GetPendingStopMessages
  BY <1>2
  DEF MarksInv, SentMarksAreTrue, CopiedMarksAreTrue, AnalysisIsUnmarked,
      AllTrueMarks, TypeOK, SharedTypeOK, otherMarks,
      GetPendingStartMessages, GetPendingStopMessages, shared, messages, accepted, queues
<1>3. CASE AnalyzeApp
  <2>1. PICK order \in Orders :
          analysis' = Analysis([app |-> app', now |-> now, order |-> order,
                                starts |-> pendingStarts,
                                stops |-> pendingStops])
    BY <1>3 DEF AnalyzeApp
  <2>2. AnalysisIsUnmarked'
    BY <2>1, AnalysisUnmarked DEF AnalysisIsUnmarked
  <2>3. /\ analysis'.starts \in [Indices -> PendingStartMessage]
        /\ analysis'.stops \in [Guids -> PendingStopMessage]
    BY <1>3, ReadingTypeOK DEF TypeOK, AnalyzerTypeOK
  <2>4. /\ AllTrueMarks(analysis'.starts, startsAccepted)
        /\ AllTrueMarks(analysis'.stops, stopsAccepted)
    BY <2>2, <2>3 DEF AnalysisIsUnmarked, AllTrueMarks, IsTrueMark
  <2>5. /\ AllTrueMarks(pendingStarts', startsAccepted)
        /\ AllTrueMarks(pendingStops', stopsAccepted)
    <3>1. /\ pendingStarts \in [Indices -> PendingStartMessage]
          /\ pendingStops \in [Guids -> PendingStopMessage]
          /\ AllTrueMarks(pendingStarts, startsAccepted)
          /\ AllTrueMarks(pendingStops, stopsAccepted)
      BY DEF TypeOK, AnalyzerTypeOK, MarksInv, CopiedMarksAreTrue
    <3> QED
      BY <1>3, <2>3, <2>4, <3>1, WriteMarks DEF AnalyzeApp
  <2> QED
    BY <1>3, <2>2, <2>5
    DEF AnalyzeApp, MarksInv, SentMarksAreTrue, CopiedMarksAreTrue, shared,
        messages, accepted, queues, otherMarks, AllTrueMarks
<1> QED
  BY <1>1, <1>2, <1>3

(* A save of true marks leaves true marks in the store, however much of it *)
(* is carried out.                                                         *)
LEMMA StoreMarks ==
  ASSUME TypeOK, MarksInv, NEW keys
  PROVE  /\ AllTrueMarks(Write(starts, analysis.starts, keys), startsAccepted)
         /\ AllTrueMarks(Write(starts, startMessagesToSave, keys),
                         startsAccepted)
         /\ AllTrueMarks(Write(starts, NoStarts, keys), startsAccepted)
         /\ AllTrueMarks(Write(stops, analysis.stops, keys), stopsAccepted)
         /\ AllTrueMarks(Write(stops, stopMessagesToSave, keys), stopsAccepted)
         /\ AllTrueMarks(Write(stops, NoStops, keys), stopsAccepted)
<1>1. /\ starts \in [Indices -> PendingStartMessage]
      /\ analysis.starts \in [Indices -> PendingStartMessage]
      /\ startMessagesToSave \in [Indices -> PendingStartMessage]
      /\ stops \in [Guids -> PendingStopMessage]
      /\ analysis.stops \in [Guids -> PendingStopMessage]
      /\ stopMessagesToSave \in [Guids -> PendingStopMessage]
  BY DEF TypeOK, SharedTypeOK, AnalyzerTypeOK
<1>2. /\ AllTrueMarks(starts, startsAccepted)
      /\ AllTrueMarks(stops, stopsAccepted)
      /\ AllTrueMarks(analysis.starts, startsAccepted)
      /\ AllTrueMarks(analysis.stops, stopsAccepted)
  BY <1>1 DEF MarksInv, SentMarksAreTrue, AnalysisIsUnmarked, AllTrueMarks,
              IsTrueMark
<1>3. /\ AllTrueMarks(startMessagesToSave, startsAccepted)
      /\ AllTrueMarks(stopMessagesToSave, stopsAccepted)
  BY DEF MarksInv, CopiedMarksAreTrue
<1> QED
  BY <1>1, <1>2, <1>3, EmptyTypes, EmptyMarks, WriteMarks

(* The analyzer's saves keep the marks, in full, in part or failing.       *)
LEMMA SavingMarks ==
  ASSUME TypeOK, MarksInv, UNCHANGED otherMarks,
         SaveCrashCounts \/ SaveStarts \/ SaveStops
  PROVE  MarksInv'
<1>1. UNCHANGED accepted
  BY DEF SaveCrashCounts, SaveStarts, SaveStops
<1>2. DOMAIN starts' = Indices /\ DOMAIN stops' = Guids
  BY SavingTypeOK DEF TypeOK, SharedTypeOK
<1>3. SentMarksAreTrue'
  BY <1>1, <1>2, StoreMarks
  DEF SaveCrashCounts, SaveStarts, SaveStops, SentMarksAreTrue, AllTrueMarks,
      accepted, MarksInv
<1>4. CASE PassEnds
  BY <1>1, <1>3, <1>4, PassEndsMarks
<1>5. CASE UNCHANGED <<page, app, pending, currentTime, queues>>
  BY <1>1, <1>3, <1>5
  DEF MarksInv, CopiedMarksAreTrue, AnalysisIsUnmarked, AllTrueMarks, pending,
      queues, accepted, otherMarks
<1> QED
  BY <1>4, <1>5 DEF SaveCrashCounts, SaveStarts, SaveStops, AfterSave

(* Posting: what is accepted is remembered before it is marked.            *)
LEMMA StartMarks ==
  ASSUME TypeOK, MarksInv, UNCHANGED otherMarks,
         PostStart \/ PostStartFails
  PROVE  MarksInv'
<1>1. PICK index \in Indices :
        /\ startsAccepted' \in {startsAccepted,
             Accept(startsAccepted, index, pendingStarts[index], currentTime)}
        /\ \/ UNCHANGED startMessagesToSave
           \/ /\ startsAccepted' =
                   Accept(startsAccepted, index, pendingStarts[index],
                          currentTime)
              /\ startMessagesToSave' = [startMessagesToSave EXCEPT ![index] =
                   [pendingStarts[index] EXCEPT !.sentOn = currentTime]]
  <2>1. startsToSend \subseteq Indices
    BY DEF TypeOK, AnalyzerTypeOK
  <2>2. CASE PostStart
    BY <2>1, <2>2 DEF PostStart
  <2>3. CASE PostStartFails
    BY <2>1, <2>3 DEF PostStartFails
  <2> QED
    BY <2>2, <2>3
<1> DEFINE Sent == Accept(startsAccepted, index, pendingStarts[index],
                          currentTime)
           Marked == [pendingStarts[index] EXCEPT !.sentOn = currentTime]
<1>2. /\ startsAccepted \in [Indices -> Seq(Acceptance)]
      /\ starts \in [Indices -> PendingStartMessage]
      /\ pendingStarts \in [Indices -> PendingStartMessage]
      /\ startMessagesToSave \in [Indices -> PendingStartMessage]
      /\ markedByListener \in [Indices -> SUBSET PendingStartMessage]
      /\ currentTime \in Nat
      /\ exited \in Indices
  BY DEF TypeOK, SharedTypeOK, AnalyzerTypeOK, EvacuatorTypeOK, ListenerTypeOK
<1>3. Marked.sentOn = currentTime
  BY <1>2 DEF PendingStartMessage
<1>4. \A k \in Indices : \A m :
        IsTrueMark(m, startsAccepted[k]) => IsTrueMark(m, startsAccepted'[k])
  BY <1>1, <1>2, AcceptKeepsMarks
<1>5. /\ \A k \in Indices : IsTrueMark(starts[k], startsAccepted'[k])
      /\ AllTrueMarks(pendingStarts, startsAccepted')
      /\ AllTrueMarks(startMessagesToSave, startsAccepted')
      /\ AllTrueIn(markedByListener, startsAccepted')
      /\ IsTrueMark(startMessage, startsAccepted'[exited])
  BY <1>2, <1>4
  DEF MarksInv, SentMarksAreTrue, CopiedMarksAreTrue, AllTrueMarks, AllTrueIn
<1>6. IsTrueMark(Marked, Sent[index])
  BY <1>2, <1>3, AcceptMarks
<1>7. AllTrueMarks(startMessagesToSave', startsAccepted')
  BY <1>1, <1>2, <1>5, <1>6 DEF AllTrueMarks
<1>8. UNCHANGED <<messages, stopsAccepted, pending, stopMessagesToSave>>
  BY DEF PostStart, PostStartFails
<1> QED
  BY <1>5, <1>7, <1>8
  DEF MarksInv, SentMarksAreTrue, CopiedMarksAreTrue, AnalysisIsUnmarked,
      AllTrueMarks, messages, pending, otherMarks

(* Likewise for the stops.                                                 *)
LEMMA StopMarks ==
  ASSUME TypeOK, MarksInv, UNCHANGED otherMarks,
         PostStop \/ PostStopFails
  PROVE  MarksInv'
<1>1. PICK guid \in Guids :
        /\ stopsAccepted' \in {stopsAccepted,
             Accept(stopsAccepted, guid, pendingStops[guid], currentTime)}
        /\ \/ UNCHANGED stopMessagesToSave
           \/ /\ stopsAccepted' =
                   Accept(stopsAccepted, guid, pendingStops[guid], currentTime)
              /\ stopMessagesToSave' = [stopMessagesToSave EXCEPT ![guid] =
                   [pendingStops[guid] EXCEPT !.sentOn = currentTime]]
  BY DEF PostStop, PostStopFails, TypeOK, AnalyzerTypeOK
<1> DEFINE Sent == Accept(stopsAccepted, guid, pendingStops[guid], currentTime)
           Marked == [pendingStops[guid] EXCEPT !.sentOn = currentTime]
<1>2. /\ stopsAccepted \in [Guids -> Seq(Acceptance)]
      /\ stops \in [Guids -> PendingStopMessage]
      /\ pendingStops \in [Guids -> PendingStopMessage]
      /\ stopMessagesToSave \in [Guids -> PendingStopMessage]
      /\ currentTime \in Nat
  BY DEF TypeOK, SharedTypeOK, AnalyzerTypeOK
<1>3. Marked.sentOn = currentTime
  BY <1>2 DEF PendingStopMessage
<1>4. \A k \in Guids : \A m :
        IsTrueMark(m, stopsAccepted[k]) => IsTrueMark(m, stopsAccepted'[k])
  BY <1>1, <1>2, AcceptKeepsMarks
<1>5. /\ \A k \in Guids : IsTrueMark(stops[k], stopsAccepted'[k])
      /\ AllTrueMarks(pendingStops, stopsAccepted')
      /\ AllTrueMarks(stopMessagesToSave, stopsAccepted')
  BY <1>2, <1>4
  DEF MarksInv, SentMarksAreTrue, CopiedMarksAreTrue, AllTrueMarks
<1>6. IsTrueMark(Marked, Sent[guid])
  BY <1>2, <1>3, AcceptMarks
<1>7. AllTrueMarks(stopMessagesToSave', stopsAccepted')
  BY <1>1, <1>2, <1>5, <1>6 DEF AllTrueMarks
<1>8. UNCHANGED <<messages, startsAccepted, pending, startMessagesToSave>>
  BY DEF PostStop, PostStopFails
<1> QED
  BY <1>5, <1>7, <1>8
  DEF MarksInv, SentMarksAreTrue, CopiedMarksAreTrue, AnalysisIsUnmarked,
      AllTrueMarks, messages, pending, otherMarks

(* The sender's writes, and the passes that end early.                     *)
LEMMA KeepingMarks ==
  ASSUME TypeOK, MarksInv, UNCHANGED otherMarks,
         \/ KeepStarts \/ DeleteStarts \/ KeepStops \/ DeleteStops
         \/ PassFails \/ ProcessDies
  PROVE  MarksInv'
<1>1. UNCHANGED accepted
  BY DEF KeepStarts, DeleteStarts, KeepStops, DeleteStops, PassFails,
         ProcessDies
<1>2. DOMAIN starts' = Indices /\ DOMAIN stops' = Guids
  BY KeepingTypeOK DEF TypeOK, SharedTypeOK
<1>3. SentMarksAreTrue'
  <2>1. CASE KeepStarts \/ DeleteStarts \/ KeepStops \/ DeleteStops
    BY <1>1, <1>2, <2>1, StoreMarks
    DEF KeepStarts, DeleteStarts, KeepStops, DeleteStops, SentMarksAreTrue,
        AllTrueMarks, accepted, MarksInv
  <2>2. CASE PassFails \/ ProcessDies
    BY <1>1, <2>2
    DEF PassFails, ProcessDies, messages, SentMarksAreTrue, accepted, MarksInv
  <2> QED
    BY <2>1, <2>2
<1>4. CASE PassEnds
  BY <1>1, <1>3, <1>4, PassEndsMarks
<1>5. CASE UNCHANGED <<pending, queues>>
  BY <1>1, <1>3, <1>5
  DEF MarksInv, CopiedMarksAreTrue, AnalysisIsUnmarked, AllTrueMarks, pending,
      queues, accepted, otherMarks
<1> QED
  BY <1>4, <1>5
  DEF KeepStarts, DeleteStarts, KeepStops, DeleteStops, PassFails, ProcessDies

(* Every step keeps the marks true.                                        *)
LEMMA NextMarks == TypeOK /\ MarksInv /\ [Next]_vars => MarksInv'
<1> SUFFICES ASSUME TypeOK, MarksInv, [Next]_vars PROVE MarksInv'
  OBVIOUS
<1>1. CASE Environment
  BY <1>1, IdleMarks
  DEF Environment, Tick, ReportHeartbeat, ChangeDesired, ListenerHears,
      messages, analyzerVars, queues, evacuatorVars, listenerVars, otherMarks
<1>2. CASE AnalyzerActs
  <2>1. UNCHANGED otherMarks
    BY <1>2 DEF AnalyzerActs, evacuatorVars, listenerVars, otherMarks
  <2>2. CASE Send \/ HoldStarts \/ PostingDone
    BY <2>1, <2>2, IdleMarks
    DEF Send, HoldStarts, PostingDone, shared, messages, queues
  <2> QED
    BY <1>2, <2>1, <2>2, ReadingMarks, SavingMarks, StartMarks, StopMarks,
       KeepingMarks
    DEF AnalyzerActs, AnalyzerStep
<1>3. CASE UNCHANGED vars
  BY <1>3, IdleMarks
  DEF vars, shared, messages, analyzerVars, queues, evacuatorVars,
      listenerVars, otherMarks
<1> QED
  BY <1>1, <1>2, <1>3, EvacuatorMarks, ListenerMarks DEF Next, TimeIsUp

(* A stored message is marked as sent only if the Cloud Controller         *)
(* accepted it at that time, whatever fails, dies or is lost, and whatever *)
(* the analyzer, the evacuator and the listener write over one another     *)
(* (sender.go:82, 181, 229; evacuator.go:70).                              *)
THEOREM MarksAreTrue == Spec => []SentMarksAreTrue
<1>1. Spec => [](TypeOK /\ MarksInv)
  BY InitTypeOK, NextTypeOK, InitMarks, NextMarks, PTL DEF Spec
<1>2. MarksInv => SentMarksAreTrue
  BY DEF MarksInv
<1> QED
  BY <1>1, <1>2, PTL

---------------------------------------------------------------------------
(* The crash counts.  Only the analyzer writes them, so what a pass has    *)
(* read of them still covers the crashed starts when it writes them back,  *)
(* though some may have expired in between, and a crashed start to be      *)
(* saved has its count in the store by then.                               *)
CountsAreCurrent ==
  /\ pc \in {"starts", "stops", "analyze"} =>
       \/ \A index \in Indices : app.crashCounts[index] >= crashStarts[index]
       \/ \A g \in Guids : app.heartbeats[g] = NoHeartbeat
  /\ pc = "saveCrashCounts" =>
       \A index \in Indices :
         /\ analysis.crashCounts[index] # 0 =>
              analysis.crashCounts[index] > crashStarts[index]
         /\ analysis.starts[index].reason = "CRASHED" =>
              analysis.crashCounts[index] # 0
  /\ pc = "saveStarts" =>
       \A index \in Indices :
         analysis.starts[index].reason = "CRASHED" =>
           /\ analysis.crashCounts[index] # 0
           /\ crashCounts[index] > crashStarts[index]

(* The other senders save no crashed start.                                *)
OthersSaveNoCrash ==
  /\ startMessage.reason # "CRASHED"
  /\ \A index \in Indices : \A m \in markedByListener[index] :
       m.reason # "CRASHED"

CountsInv == CrashCountCoversStarts /\ CountsAreCurrent /\ OthersSaveNoCrash

(* The counts cover the starts at the start: there are none.               *)
LEMMA InitCounts == Init => CountsInv
<1> SUFFICES ASSUME Init PROVE CountsInv
  OBVIOUS
<1>1. CrashCountCoversStarts
  BY DEF Init, SharedInit, CrashCountCoversStarts
<1>2. CountsAreCurrent
  BY DEF Init, AnalyzerInit, CountsAreCurrent
<1>3. OthersSaveNoCrash
  BY DEF OthersSaveNoCrash, Init, EvacuatorInit, ListenerInit, NoMarks,
     NoStart, NewPendingStartMessage
<1> QED
  BY <1>1, <1>2, <1>3 DEF CountsInv

(* A step that is neither a read, a save nor an analysis keeps the counts, *)
(* and so does the end of a pass.                                          *)
LEMMA IdleCounts ==
  ASSUME CountsInv, OthersSaveNoCrash',
         UNCHANGED <<crashCounts, crashStarts>>,
         \/ pc' \notin {"starts", "stops", "analyze", "saveCrashCounts",
                        "saveStarts"}
         \/ UNCHANGED <<pc, app, analysis>>
  PROVE  CountsInv'
BY DEF CountsInv, CrashCountCoversStarts, CountsAreCurrent

(* The clock may end a count, and the history with it.                     *)
LEMMA TickCounts ==
  ASSUME TypeOK, CountsInv, Tick
  PROVE  CountsInv'
<1>1. /\ crashCounts \in [Indices -> Nat]
      /\ crashStarts \in [Indices -> Nat]
  BY DEF TypeOK, SharedTypeOK
<1>2. \A index \in Indices :
        \/ /\ crashCounts'[index] = 0 /\ crashStarts'[index] = 0
           /\ pc = "saveStarts" => analysis.crashCounts[index] = 0
        \/ /\ crashCounts'[index] = crashCounts[index]
           /\ crashStarts'[index] = crashStarts[index]
  BY DEF Tick, UnlessExpired, CountExpires
<1>3. UNCHANGED <<pc, app, analysis, startMessage, markedByListener>>
  BY DEF Tick, analyzerVars, pending, evacuatorVars, listenerVars
<1>4. app.crashCounts \in [Indices -> Nat]
      /\ analysis.crashCounts \in [Indices -> Nat]
  BY DEF TypeOK, AnalyzerTypeOK, App
<1>5. CrashCountCoversStarts'
  BY <1>1, <1>2 DEF CountsInv, CrashCountCoversStarts
<1>6. CountsAreCurrent'
  <2>1. ASSUME NEW index \in Indices
        PROVE  /\ crashStarts'[index] <= crashStarts[index]
               /\ crashStarts'[index] \in Nat /\ crashStarts[index] \in Nat
               /\ app.crashCounts[index] \in Nat
               /\ analysis.crashCounts[index] \in Nat
    BY <1>1, <1>2, <1>4
  <2>2. pc' \in {"starts", "stops", "analyze"} =>
          \/ \A index \in Indices :
               app'.crashCounts[index] >= crashStarts'[index]
          \/ \A g \in Guids : app'.heartbeats[g] = NoHeartbeat
    BY <1>3, <2>1 DEF CountsInv, CountsAreCurrent
  <2>3. ASSUME pc = "saveCrashCounts", NEW index \in Indices
        PROVE  /\ analysis.crashCounts[index] # 0 =>
                    analysis.crashCounts[index] > crashStarts'[index]
               /\ analysis.starts[index].reason = "CRASHED" =>
                    analysis.crashCounts[index] # 0
    BY <2>1, <2>3 DEF CountsInv, CountsAreCurrent
  <2>4. pc = "saveStarts" =>
          \A index \in Indices :
            analysis.starts[index].reason = "CRASHED" =>
              /\ analysis.crashCounts[index] # 0
              /\ crashCounts'[index] > crashStarts'[index]
    BY <1>2 DEF CountsInv, CountsAreCurrent
  <2> QED
    BY <1>3, <2>2, <2>3, <2>4 DEF CountsAreCurrent
<1> QED
  BY <1>3, <1>5, <1>6 DEF CountsInv, OthersSaveNoCrash

(* Crashed starts are remembered only by the save of the starts.  The      *)
(* other senders save none.                                                *)
LEMMA NothingRemembered ==
  ASSUME TypeOK, Remember,
         \/ pc # "saveStarts"
         \/ \A index \in Indices : \/ starts'[index] = starts[index]
                                   \/ starts'[index].reason # "CRASHED"
  PROVE  crashStarts' = crashStarts
BY DEF Remember, TypeOK

(* The evacuator saves no crashed start and no count.                      *)
LEMMA EvacuatorCounts ==
  ASSUME TypeOK, CountsInv, EvacuatorActs
  PROVE  CountsInv'
<1>1. NoStart.reason # "CRASHED"
  BY DEF NoStart, NewPendingStartMessage
<1>2. UNCHANGED <<pc, app, analysis, crashCounts>>
  BY DEF EvacuatorActs, EvacuatorStep, HandleExited, EvacuatorSends,
         EvacuatorSendFails, EvacuatorKeeps, analyzerVars, pending, messages
<1>3. OthersSaveNoCrash'
      /\ (starts' = starts \/ \E index \in Indices : \E m :
           m.reason # "CRASHED" /\ starts' = [starts EXCEPT ![index] = m])
  <2>1. markedByListener' = markedByListener
    BY DEF EvacuatorActs, listenerVars
  <2>2. CASE \E index \in Indices : HandleExited(index)
    <3>1. now \in Nat
      BY DEF TypeOK, SharedTypeOK
    <3> QED
      BY <2>1, <2>2, <3>1, EvacuationStartType
      DEF HandleExited, CountsInv, OthersSaveNoCrash
  <2>3. CASE EvacuatorSends
    BY <2>1, <2>3 DEF EvacuatorSends, messages, CountsInv, OthersSaveNoCrash,
                      TypeOK, EvacuatorTypeOK, PendingStartMessage
  <2>4. CASE EvacuatorSendFails
    BY <1>1, <2>1, <2>4
    DEF EvacuatorSendFails, EvacuatorRests, messages, CountsInv,
        OthersSaveNoCrash
  <2>5. CASE EvacuatorKeeps
    BY <1>1, <2>1, <2>5
    DEF EvacuatorKeeps, EvacuatorRests, CountsInv, OthersSaveNoCrash, TypeOK,
        EvacuatorTypeOK
  <2> QED
    BY <2>2, <2>3, <2>4, <2>5 DEF EvacuatorActs, EvacuatorStep
<1>4. crashStarts' = crashStarts
  <2>1. \A index \in Indices : \/ starts'[index] = starts[index]
                               \/ starts'[index].reason # "CRASHED"
    BY <1>3 DEF TypeOK, SharedTypeOK
  <2> QED
    BY <2>1, NothingRemembered DEF EvacuatorActs
<1> QED
  BY <1>2, <1>3, <1>4, IdleCounts

(* Nor does the listener.                                                  *)
LEMMA ListenerCounts ==
  ASSUME TypeOK, CountsInv, ListenerActs
  PROVE  CountsInv'
<1>2. UNCHANGED <<pc, app, analysis, crashCounts, startMessage>>
  BY DEF ListenerActs, ListenerStep, ListenerSends, ListenerSendFails,
         ListenerHolds, ListenerKeeps, ListenerGivesUp, ListenerDies, shared,
         messages, analyzerVars, pending, evacuatorVars
<1>3. /\ markedByListener \in [Indices -> SUBSET PendingStartMessage]
      /\ starts \in [Indices -> PendingStartMessage]
      /\ now \in Nat
  BY DEF TypeOK, SharedTypeOK, ListenerTypeOK
<1>4. OthersSaveNoCrash'
  <2>1. CASE ListenerSends
    <3>1. [EvacuationStart(now) EXCEPT !.sentOn = now].reason # "CRASHED"
      BY <1>3, EvacuationStartType
    <3> QED
      BY <1>2, <1>3, <2>1, <3>1
      DEF ListenerSends, CountsInv, OthersSaveNoCrash
  <2>2. CASE ListenerDies
    BY <1>2, <2>2 DEF ListenerDies, NoMarks, CountsInv, OthersSaveNoCrash
  <2>3. CASE UNCHANGED markedByListener
    BY <1>2, <2>3 DEF CountsInv, OthersSaveNoCrash
  <2> QED
    BY <2>1, <2>2, <2>3
    DEF ListenerActs, ListenerStep, ListenerSendFails, ListenerHolds,
        ListenerKeeps, ListenerGivesUp
<1>5. \A index \in Indices : \/ starts'[index] = starts[index]
                             \/ starts'[index].reason # "CRASHED"
  <2>1. CASE ListenerKeeps
    BY <2>1, ListenerKeepsMarked
    DEF TypeOK, SharedTypeOK, CountsInv, OthersSaveNoCrash
  <2> QED
    BY <2>1
    DEF ListenerActs, ListenerStep, ListenerSends, ListenerSendFails,
        ListenerHolds, ListenerGivesUp, ListenerDies, shared, messages
<1>6. crashStarts' = crashStarts
  BY <1>5, NothingRemembered DEF ListenerActs
<1> QED
  BY <1>2, <1>4, <1>6, IdleCounts

(* The analyzer saves the count before the start it is for.                *)
LEMMA AnalyzerCounts ==
  ASSUME TypeOK, CountsInv, AnalyzerActs
  PROVE  CountsInv'
<1>1. OthersSaveNoCrash'
  BY DEF AnalyzerActs, evacuatorVars, listenerVars, CountsInv,
     OthersSaveNoCrash
<1>2. ASSUME pc # "saveStarts" \/ UNCHANGED starts
      PROVE  crashStarts' = crashStarts
  BY <1>2, NothingRemembered DEF AnalyzerActs
<1>3. CASE PassBegins \/ FetchDesiredState \/ Send \/ HoldStarts \/ PostingDone
  BY <1>1, <1>2, <1>3, IdleCounts
  DEF PassBegins, FetchDesiredState, Send, HoldStarts, PostingDone, shared,
      messages, pending, ReadingPoint, CountsInv, CountsAreCurrent,
      CrashCountCoversStarts
<1>4. CASE PostStart \/ PostStartFails \/ PostStop \/ PostStopFails
  BY <1>1, <1>2, <1>4, IdleCounts
  DEF PostStart, PostStartFails, PostStop, PostStopFails, messages, pending
<1>5. CASE \/ KeepStarts \/ DeleteStarts \/ KeepStops \/ DeleteStops
           \/ PassFails \/ ProcessDies
  BY <1>1, <1>2, <1>5, IdleCounts
  DEF KeepStarts, DeleteStarts, KeepStops, DeleteStops, PassFails, ProcessDies,
      PassEnds, messages
<1>6. CASE GetInstanceHeartbeats \/ GetCrashCounts
  <2>1. /\ UNCHANGED <<crashCounts, crashStarts>>
        /\ \/ GetInstanceHeartbeats /\ pc' = "counts"
           \/ GetCrashCounts /\ pc' = "starts"
    BY <1>2, <1>6 DEF GetInstanceHeartbeats, GetCrashCounts, shared, messages
  <2>2. ASSUME GetCrashCounts
        PROVE  \/ app'.crashCounts = crashCounts
               \/ \A g \in Guids : app'.heartbeats[g] = NoHeartbeat
    BY <2>2 DEF GetCrashCounts, TypeOK, AnalyzerTypeOK, App
  <2> QED
    BY <1>1, <2>1, <2>2
    DEF CountsInv, CountsAreCurrent, CrashCountCoversStarts
<1>7. CASE GetPendingStartMessages \/ GetPendingStopMessages
  BY <1>1, <1>2, <1>7
  DEF GetPendingStartMessages, GetPendingStopMessages, shared, messages,
      CountsInv, CountsAreCurrent, CrashCountCoversStarts
<1>8. CASE AnalyzeApp
  <2>1. PICK order \in Orders :
          analysis' = Analysis([app |-> app', now |-> now, order |-> order,
                                starts |-> pendingStarts,
                                stops |-> pendingStops])
    BY <1>8 DEF AnalyzeApp
  <2>2. /\ app'.heartbeats = app.heartbeats
        /\ app'.crashCounts = app.crashCounts
        /\ app.crashCounts \in [Indices -> Nat]
    BY <1>8 DEF AnalyzeApp, TypeOK, AnalyzerTypeOK, App
  <2>3. ASSUME NEW index \in Indices
        PROVE  /\ analysis'.crashCounts[index] # 0 =>
                    analysis'.crashCounts[index] > crashStarts[index]
               /\ analysis'.starts[index].reason = "CRASHED" =>
                    analysis'.crashCounts[index] # 0
    <3> DEFINE a == [app |-> app', now |-> now, order |-> order,
                     starts |-> pendingStarts, stops |-> pendingStops]
    <3>1. a.app = app'
      OBVIOUS
    <3>2. pc = "analyze"
      BY <1>8 DEF AnalyzeApp
    <3> HIDE DEF a
    <3>3. /\ Analysis(a).crashCounts[index] # 0 =>
               /\ Analysis(a).crashCounts[index] = app.crashCounts[index] + 1
               /\ \E g \in Guids : app.heartbeats[g] # NoHeartbeat
          /\ Analysis(a).starts[index].reason = "CRASHED" =>
               Analysis(a).crashCounts[index] # 0
      BY <2>2, <3>1, AnalysisCounts
    <3>4. analysis' = Analysis(a)
      BY <2>1 DEF a
    <3>5. app.crashCounts[index] \in Nat /\ crashStarts[index] \in Nat
      BY <2>2 DEF TypeOK
    <3> QED
      BY <3>2, <3>3, <3>4, <3>5 DEF CountsInv, CountsAreCurrent
  <2>4. UNCHANGED <<crashCounts, crashStarts>> /\ pc' = "saveCrashCounts"
    BY <1>2, <1>8 DEF AnalyzeApp, shared, messages
  <2> QED
    BY <1>1, <2>3, <2>4
    DEF CountsInv, CountsAreCurrent, CrashCountCoversStarts
<1>9. CASE SaveCrashCounts
  <2> DEFINE counted == {index \in Indices : analysis.crashCounts[index] # 0}
  <2>1. PICK saved \in SUBSET Indices :
          /\ Handled(counted, saved)
          /\ crashCounts' = Write(crashCounts, analysis.crashCounts, saved)
    BY <1>9 DEF SaveCrashCounts
  <2>2. crashStarts' = crashStarts /\ pc = "saveCrashCounts"
    BY <1>2, <1>9 DEF SaveCrashCounts
  <2>3. /\ crashCounts \in [Indices -> Nat]
        /\ crashStarts \in [Indices -> Nat]
        /\ analysis.crashCounts \in [Indices -> Nat]
        /\ faults \in Nat
    BY MaxFaultsAssumption DEF TypeOK, SharedTypeOK, AnalyzerTypeOK
  <2>4. \A index \in Indices :
          IF index \in saved
          THEN /\ crashCounts'[index] = analysis.crashCounts[index]
               /\ crashCounts'[index] > crashStarts[index]
          ELSE crashCounts'[index] = crashCounts[index]
    BY <2>1, <2>2, <2>3 DEF Handled, Write, CountsInv, CountsAreCurrent
  <2>5. CrashCountCoversStarts'
    BY <2>2, <2>3, <2>4 DEF CountsInv, CrashCountCoversStarts
  <2>6. CASE faults' = faults
    <3>1. saved = counted
      BY <2>1, <2>3, <2>6 DEF Handled, Fault
    <3>2. pc' = "saveStarts" /\ analysis' = analysis
      BY <1>9, <2>6 DEF SaveCrashCounts, AfterSave, pending
    <3>3. \A index \in Indices : analysis.starts[index].reason = "CRASHED" =>
            /\ analysis.crashCounts[index] # 0
            /\ crashCounts'[index] > crashStarts[index]
      BY <2>2, <2>3, <2>4, <3>1
      DEF CountsInv, CountsAreCurrent, CrashCountCoversStarts
    <3> QED
      BY <1>1, <2>2, <2>5, <3>2, <3>3 DEF CountsInv, CountsAreCurrent
  <2>7. CASE faults' # faults
    BY <1>1, <1>9, <2>5, <2>7
    DEF SaveCrashCounts, AfterSave, PassEnds, CountsInv, CountsAreCurrent
  <2> QED
    BY <2>6, <2>7
<1>10. CASE SaveStarts
  <2>1. PICK saved \in SUBSET Indices :
          starts' = Write(starts, analysis.starts, saved)
    BY <1>10 DEF SaveStarts
  <2>2. pc = "saveStarts" /\ crashCounts' = crashCounts
        /\ pc' \in {"idle", "saveStops"}
    BY <1>10 DEF SaveStarts, AfterSave, PassEnds
  <2>3. /\ crashCounts \in [Indices -> Nat]
        /\ crashStarts \in [Indices -> Nat]
        /\ DOMAIN starts = Indices
    BY DEF TypeOK, SharedTypeOK
  <2>4. ASSUME NEW index \in Indices
        PROVE  crashCounts[index] >= crashStarts'[index]
    <3>1. CASE crashStarts'[index] = crashStarts[index]
      BY <3>1 DEF CountsInv, CrashCountCoversStarts
    <3>2. CASE crashStarts'[index] # crashStarts[index]
      <4>1. /\ crashStarts'[index] = crashStarts[index] + 1
            /\ starts'[index] # starts[index]
            /\ starts'[index].reason = "CRASHED"
        BY <3>2 DEF AnalyzerActs, Remember
      <4>2. starts'[index] = analysis.starts[index]
        BY <2>1, <2>3, <4>1 DEF Write
      <4> QED
        BY <2>2, <2>3, <4>1, <4>2 DEF CountsInv, CountsAreCurrent
    <3> QED
      BY <3>1, <3>2
  <2> QED
    BY <1>1, <2>2, <2>4
    DEF CountsInv, CountsAreCurrent, CrashCountCoversStarts
<1>11. CASE SaveStops
  <2>1. pc' \in {"idle", "verify"} /\ UNCHANGED <<crashCounts, starts>>
    BY <1>11 DEF SaveStops, AfterSave, PassEnds
  <2> QED
    BY <1>1, <1>2, <2>1, IdleCounts
<1> QED
  BY <1>3, <1>4, <1>5, <1>6, <1>7, <1>8, <1>9, <1>10, <1>11
  DEF AnalyzerActs, AnalyzerStep

(* Every step keeps the counts.                                            *)
LEMMA NextCounts == TypeOK /\ CountsInv /\ [Next]_vars => CountsInv'
<1> SUFFICES ASSUME TypeOK, CountsInv, [Next]_vars PROVE CountsInv'
  OBVIOUS
<1>1. ASSUME \/ \E guid \in Guids, state \in State \cup {NoHeartbeat} :
                  ReportHeartbeat(guid, state)
             \/ \E desired \in Wanted : ChangeDesired(desired)
             \/ UNCHANGED vars
      PROVE  CountsInv'
  <2>1. UNCHANGED <<crashCounts, crashStarts, startMessage, markedByListener,
                    pc, app, analysis>>
    BY <1>1
    DEF ReportHeartbeat, ListenerHears, ChangeDesired, vars, shared, messages,
        analyzerVars, pending, evacuatorVars, listenerVars, history
  <2> QED
    BY <2>1, IdleCounts DEF CountsInv, OthersSaveNoCrash
<1> QED
  BY <1>1, TickCounts, AnalyzerCounts, EvacuatorCounts, ListenerCounts
  DEF Next, Environment, TimeIsUp

(* A crashed start is never in the store without its crash being counted,  *)
(* whatever fails, dies or is half written on the way (analyzer.go:116).   *)
THEOREM CrashesAreCounted == Spec => []CrashCountCoversStarts
<1>1. Spec => [](TypeOK /\ CountsInv)
  BY InitTypeOK, NextTypeOK, InitCounts, NextCounts, PTL DEF Spec
<1>2. CountsInv => CrashCountCoversStarts
  BY DEF CountsInv
<1> QED
  BY <1>1, <1>2, PTL

---------------------------------------------------------------------------
(* What the analyzer overrides.  The messages of the analyzer that are in  *)
(* the store are among those a pass has read, so what it adds is for other *)
(* keys; the other senders only write starts that skip verification.       *)
OwnIsRead ==
  /\ pc \in {"stops", "analyze"} =>
       \A index \in OfAnalyzer(starts) : Queued(pendingStarts[index])
  /\ pc = "analyze" =>
       \A guid \in QueuedKeys(stops) : Queued(pendingStops[guid])
  /\ pc \in {"saveCrashCounts", "saveStarts"} =>
       \A index \in OfAnalyzer(starts) : ~Queued(analysis.starts[index])
  /\ pc \in SavingPoint =>
       \A guid \in QueuedKeys(stops) : ~Queued(analysis.stops[guid])

OthersSkip ==
  /\ evacuator # "idle" => startMessage.skipVerification
  /\ \A index \in Indices : \A m \in markedByListener[index] :
       m.skipVerification

OwnInv == OwnIsRead /\ OthersSkip

(* The start of an evacuating instance skips verification, marked or not.  *)
LEMMA EvacuationSkips ==
  ASSUME NEW time \in Nat
  PROVE  /\ EvacuationStart(time).skipVerification
         /\ \A m \in PendingStartMessage :
              m.skipVerification =>
                [m EXCEPT !.sentOn = time].skipVerification
<1>1. EvacuationStart(time).skipVerification
  BY DEF EvacuationStart
<1>2. \A m \in PendingStartMessage :
        [m EXCEPT !.sentOn = time].skipVerification = m.skipVerification
  BY DEF PendingStartMessage, StartReason
<1> QED
  BY <1>1, <1>2

(* A step that adds no message of the analyzer to the store.               *)
LEMMA IdleOwn ==
  ASSUME OwnInv, OthersSkip', OfAnalyzer(starts') \subseteq OfAnalyzer(starts),
         QueuedKeys(stops') \subseteq QueuedKeys(stops),
         \/ pc' \notin {"stops", "analyze"} \cup SavingPoint
         \/ UNCHANGED <<pc, pendingStarts, pendingStops, analysis>>
  PROVE  OwnInv'
BY DEF OwnInv, OwnIsRead, SavingPoint

(* The evacuator and the listener write starts that skip verification.     *)
LEMMA OthersOwn ==
  ASSUME TypeOK, OwnInv, EvacuatorActs \/ ListenerActs
  PROVE  OwnInv'
<1>1. /\ starts \in [Indices -> PendingStartMessage]
      /\ startMessage \in PendingStartMessage
      /\ markedByListener \in [Indices -> SUBSET PendingStartMessage]
      /\ exited \in Indices /\ now \in Nat
  BY DEF TypeOK, SharedTypeOK, EvacuatorTypeOK, ListenerTypeOK
<1>2. UNCHANGED <<pc, pendingStarts, pendingStops, analysis, stops>>
  BY DEF EvacuatorActs, EvacuatorStep, HandleExited, EvacuatorSends,
         EvacuatorSendFails, EvacuatorKeeps, ListenerActs, ListenerStep,
         ListenerSends, ListenerSendFails, ListenerHolds, ListenerKeeps,
         ListenerGivesUp, ListenerDies, shared, messages, analyzerVars, pending
<1>3. ASSUME NEW index \in Indices, NEW m, m.skipVerification,
             starts' = [starts EXCEPT ![index] = m]
      PROVE  OfAnalyzer(starts') \subseteq OfAnalyzer(starts)
  BY <1>1, <1>3 DEF OfAnalyzer, QueuedKeys
<1>4. CASE EvacuatorActs
  <2>1. UNCHANGED markedByListener
    BY <1>4 DEF EvacuatorActs, listenerVars
  <2>2. ASSUME NEW index \in Indices, HandleExited(index) PROVE OwnInv'
    <3>1. startMessage'.skipVerification
      BY <1>1, <2>2, EvacuationSkips DEF HandleExited
    <3>2. OfAnalyzer(starts') \subseteq OfAnalyzer(starts)
      BY <1>3, <2>2, <3>1 DEF HandleExited
    <3> QED
      BY <1>2, <2>1, <3>1, <3>2, IdleOwn DEF OwnInv, OthersSkip
  <2>3. CASE EvacuatorSends
    <3>1. startMessage'.skipVerification
      BY <1>1, <2>3, EvacuationSkips DEF EvacuatorSends, OwnInv, OthersSkip
    <3>2. UNCHANGED starts
      BY <2>3 DEF EvacuatorSends, messages
    <3> QED
      BY <1>2, <2>1, <3>1, <3>2, IdleOwn DEF OwnInv, OthersSkip
  <2>4. CASE EvacuatorSendFails
    <3>1. UNCHANGED starts /\ evacuator' = "idle"
      BY <2>4 DEF EvacuatorSendFails, EvacuatorRests, messages
    <3> QED
      BY <1>2, <2>1, <3>1, IdleOwn DEF OwnInv, OthersSkip
  <2>5. CASE EvacuatorKeeps
    <3>1. startMessage.skipVerification /\ evacuator' = "idle"
      BY <2>5 DEF EvacuatorKeeps, EvacuatorRests, OwnInv, OthersSkip
    <3>2. OfAnalyzer(starts') \subseteq OfAnalyzer(starts)
      BY <1>1, <1>3, <2>5, <3>1 DEF EvacuatorKeeps
    <3> QED
      BY <1>2, <2>1, <3>1, <3>2, IdleOwn DEF OwnInv, OthersSkip
  <2> QED
    BY <1>4, <2>2, <2>3, <2>4, <2>5 DEF EvacuatorActs, EvacuatorStep
<1>5. CASE ListenerActs
  <2>1. UNCHANGED <<evacuator, startMessage>>
    BY <1>5 DEF ListenerActs, evacuatorVars
  <2>2. OthersSkip'
    <3>1. CASE ListenerSends
      <4> DEFINE marked == [EvacuationStart(now) EXCEPT !.sentOn = now]
      <4>1. marked.skipVerification
        BY <1>1, EvacuationStartType, EvacuationSkips
      <4>2. markedByListener' =
              [markedByListener EXCEPT ![evacuating] = @ \cup {marked}]
        BY <3>1 DEF ListenerSends
      <4> HIDE DEF marked
      <4> QED
        BY <1>1, <2>1, <4>1, <4>2 DEF OwnInv, OthersSkip
    <3>2. CASE ListenerDies
      BY <2>1, <3>2 DEF ListenerDies, NoMarks, OwnInv, OthersSkip
    <3>3. CASE UNCHANGED markedByListener
      BY <2>1, <3>3 DEF OwnInv, OthersSkip
    <3> QED
      BY <1>5, <3>1, <3>2, <3>3
      DEF ListenerActs, ListenerStep, ListenerSendFails, ListenerHolds,
          ListenerKeeps, ListenerGivesUp
  <2>3. OfAnalyzer(starts') \subseteq OfAnalyzer(starts)
    <3>1. CASE ListenerKeeps
      <4>1. /\ starts' \in [Indices -> PendingStartMessage]
            /\ \A index \in Indices : \/ starts'[index] = starts[index]
                                      \/ starts'[index].skipVerification
        BY <1>1, <3>1, ListenerKeepsMarked
        DEF TypeOK, OwnInv, OthersSkip
      <4> QED
        BY <1>1, <4>1 DEF OfAnalyzer, QueuedKeys
    <3>2. CASE UNCHANGED starts
      BY <3>2
    <3> QED
      BY <1>5, <3>1, <3>2
      DEF ListenerActs, ListenerStep, ListenerSends, ListenerSendFails,
          ListenerHolds, ListenerGivesUp, ListenerDies, shared, messages
  <2> QED
    BY <1>2, <2>2, <2>3, IdleOwn
<1> QED
  BY <1>4, <1>5

(* At the start nothing is read and nothing is marked.                     *)
LEMMA InitOwn == Init => OwnInv
<1> SUFFICES ASSUME Init PROVE OwnInv
  OBVIOUS
<1>1. pc = "idle" /\ evacuator = "idle" /\ markedByListener = NoMarks
  BY DEF Init, AnalyzerInit, EvacuatorInit, ListenerInit
<1> QED
  BY <1>1 DEF OwnInv, OwnIsRead, OthersSkip, SavingPoint, NoMarks

(* Outside the points between the reads and the saves nothing is claimed.  *)
LEMMA OutsideOwn ==
  ASSUME OwnInv, UNCHANGED <<evacuator, startMessage, markedByListener>>,
         pc' \notin {"stops", "analyze"} \cup SavingPoint
  PROVE  OwnInv'
BY DEF OwnInv, OwnIsRead, OthersSkip, SavingPoint

(* The two reads see all of the analyzer's messages.                       *)
LEMMA ReadOwn ==
  ASSUME TypeOK, OwnInv, UNCHANGED <<evacuator, startMessage, markedByListener>>,
         GetPendingStartMessages \/ GetPendingStopMessages
  PROVE  OwnInv'
<1>1. OthersSkip'
  BY DEF OwnInv, OthersSkip
<1>2. CASE GetPendingStartMessages
  <2>1. pc' = "stops" /\ pendingStarts' = starts /\ UNCHANGED <<starts, stops>>
    BY <1>2 DEF GetPendingStartMessages, shared, messages
  <2>2. \A index \in OfAnalyzer(starts) : Queued(starts[index])
    BY DEF OfAnalyzer, QueuedKeys
  <2> QED
    BY <1>1, <2>1, <2>2 DEF OwnInv, OwnIsRead, SavingPoint
<1>3. CASE GetPendingStopMessages
  <2>1. /\ pc = "stops" /\ pc' = "analyze" /\ pendingStops' = stops
        /\ UNCHANGED <<starts, stops, pendingStarts>>
    BY <1>3 DEF GetPendingStopMessages, shared, messages
  <2>2. \A guid \in QueuedKeys(stops) : Queued(stops[guid])
    BY DEF QueuedKeys
  <2> QED
    BY <1>1, <2>1, <2>2 DEF OwnInv, OwnIsRead, SavingPoint
<1> QED
  BY <1>2, <1>3

(* The analysis leaves alone what it has read.                             *)
LEMMA AnalyzeOwn ==
  ASSUME TypeOK, OwnInv, UNCHANGED <<evacuator, startMessage, markedByListener>>,
         AnalyzeApp
  PROVE  OwnInv'
<1>1. PICK order \in Orders :
        analysis' = Analysis([app |-> app', now |-> now, order |-> order,
                              starts |-> pendingStarts, stops |-> pendingStops])
  BY DEF AnalyzeApp
<1> DEFINE a == [app |-> app', now |-> now, order |-> order,
                 starts |-> pendingStarts, stops |-> pendingStops]
<1>2. a.starts = pendingStarts /\ a.stops = pendingStops
  OBVIOUS
<1> HIDE DEF a
<1>3. analysis' = Analysis(a)
  BY <1>1 DEF a
<1>4. /\ \A index \in Indices :
           Queued(pendingStarts[index]) => ~Queued(analysis'.starts[index])
      /\ \A guid \in Guids :
           Queued(pendingStops[guid]) => ~Queued(analysis'.stops[guid])
  BY <1>2, <1>3, AnalysisAddsOnly
<1>5. /\ pc = "analyze" /\ pc' = "saveCrashCounts"
      /\ UNCHANGED <<starts, stops>>
  BY DEF AnalyzeApp, shared, messages
<1>6. OfAnalyzer(starts) \subseteq Indices /\ QueuedKeys(stops) \subseteq Guids
  BY DEF OfAnalyzer, QueuedKeys, TypeOK, SharedTypeOK
<1> QED
  BY <1>4, <1>5, <1>6 DEF OwnInv, OwnIsRead, OthersSkip, SavingPoint

(* The three saves, of which only the last is followed by no other.        *)
LEMMA SaveOwn ==
  ASSUME TypeOK, OwnInv, UNCHANGED <<evacuator, startMessage, markedByListener>>,
         SaveCrashCounts \/ SaveStarts \/ SaveStops
  PROVE  OwnInv'
<1>1. CASE pc' = "idle"
  BY <1>1, OutsideOwn DEF SavingPoint
<1>2. CASE SaveCrashCounts /\ pc' # "idle"
  <2>1. /\ pc = "saveCrashCounts" /\ pc' = "saveStarts"
        /\ UNCHANGED <<starts, stops, analysis>>
    BY <1>2 DEF SaveCrashCounts, AfterSave, PassEnds, pending
  <2> QED
    BY <2>1 DEF OwnInv, OwnIsRead, OthersSkip, SavingPoint
<1>3. CASE SaveStarts /\ pc' # "idle"
  <2>1. /\ pc = "saveStarts" /\ pc' = "saveStops"
        /\ UNCHANGED <<stops, analysis>>
    BY <1>3 DEF SaveStarts, AfterSave, PassEnds, pending
  <2> QED
    BY <2>1 DEF OwnInv, OwnIsRead, OthersSkip, SavingPoint
<1>4. CASE SaveStops /\ pc' # "idle"
  <2>1. pc' = "verify"
    BY <1>4 DEF SaveStops, AfterSave, PassEnds
  <2> QED
    BY <2>1, OutsideOwn DEF SavingPoint
<1> QED
  BY <1>1, <1>2, <1>3, <1>4

(* Every step of the analyzer keeps it.                                    *)
LEMMA AnalyzerOwn == TypeOK /\ OwnInv /\ AnalyzerActs => OwnInv'
<1> SUFFICES ASSUME TypeOK, OwnInv, AnalyzerActs PROVE OwnInv'
  OBVIOUS
<1>1. UNCHANGED <<evacuator, startMessage, markedByListener>>
  BY DEF AnalyzerActs, evacuatorVars, listenerVars
<1>2. CASE FetchDesiredState
  <2>1. UNCHANGED <<pc, pendingStarts, pendingStops, analysis, starts, stops>>
    BY <1>2 DEF FetchDesiredState, pending, shared, messages
  <2> QED
    BY <1>1, <2>1 DEF OwnInv, OwnIsRead, OthersSkip
<1>3. CASE \/ PassBegins \/ GetInstanceHeartbeats \/ GetCrashCounts \/ Send
           \/ PostStart \/ PostStartFails
           \/ HoldStarts \/ PostStop \/ PostStopFails \/ PostingDone
           \/ KeepStarts \/ DeleteStarts \/ KeepStops \/ DeleteStops
           \/ PassFails \/ ProcessDies
  <2>1. pc' \notin {"stops", "analyze"} \cup SavingPoint
    BY <1>3
    DEF PassBegins, GetInstanceHeartbeats, GetCrashCounts, Send, PostStart,
        PostStartFails, HoldStarts, PostStop, PostStopFails, PostingDone,
        KeepStarts, DeleteStarts, KeepStops, DeleteStops, PassFails,
        ProcessDies, PassEnds, SavingPoint
  <2> QED
    BY <1>1, <2>1, OutsideOwn
<1> QED
  BY <1>1, <1>2, <1>3, ReadOwn, AnalyzeOwn, SaveOwn
  DEF AnalyzerActs, AnalyzerStep

(* Every step keeps it.                                                    *)
LEMMA NextOwn == TypeOK /\ OwnInv /\ [Next]_vars => OwnInv'
<1> SUFFICES ASSUME TypeOK, OwnInv, [Next]_vars PROVE OwnInv'
  OBVIOUS
<1>1. ASSUME \/ Tick
             \/ \E guid \in Guids, state \in State \cup {NoHeartbeat} :
                  ReportHeartbeat(guid, state)
             \/ \E desired \in Wanted : ChangeDesired(desired)
             \/ UNCHANGED vars
      PROVE  OwnInv'
  <2>1. UNCHANGED <<evacuator, startMessage, markedByListener, pc,
                    pendingStarts, pendingStops, analysis, starts, stops>>
    BY <1>1
    DEF Tick, ReportHeartbeat, ListenerHears, ChangeDesired, vars, shared,
        messages, analyzerVars, pending, evacuatorVars, listenerVars, history
  <2> QED
    BY <2>1 DEF OwnInv, OwnIsRead, OthersSkip
<1> QED
  BY <1>1, AnalyzerOwn, OthersOwn DEF Next, Environment, TimeIsUp

(* The saves of a pass write only keys that nothing of its own is under.   *)
LEMMA SavesSpareOwn ==
  ASSUME TypeOK, OwnInv, AnalyzerActs
  PROVE  KeepsStops /\ KeepsStarts(OfAnalyzer(starts))
<1>1. /\ DOMAIN starts = Indices /\ DOMAIN stops = Guids
      /\ DOMAIN analysis.starts = Indices /\ DOMAIN analysis.stops = Guids
  BY DEF TypeOK, SharedTypeOK, AnalyzerTypeOK
<1>2. ASSUME pc = "saveStarts" PROVE KeepsStarts(OfAnalyzer(starts))
  <2>1. CASE UNCHANGED starts
    BY <2>1 DEF KeepsStarts
  <2>2. CASE SaveStarts
    <3>1. PICK saved \in SUBSET Indices :
            /\ saved \subseteq QueuedKeys(analysis.starts)
            /\ starts' = Write(starts, analysis.starts, saved)
      BY <2>2 DEF SaveStarts, Handled
    <3>2. \A index \in OfAnalyzer(starts) : index \notin saved
      BY <1>2, <3>1 DEF OwnInv, OwnIsRead, QueuedKeys
    <3>3. OfAnalyzer(starts) \subseteq Indices
      BY <1>1 DEF OfAnalyzer, QueuedKeys
    <3> QED
      BY <1>1, <3>1, <3>2, <3>3 DEF KeepsStarts, Write
  <2> QED
    BY <1>2, <2>1, <2>2
    DEF AnalyzerActs, AnalyzerStep, PassBegins, FetchDesiredState,
        GetInstanceHeartbeats, GetCrashCounts, GetPendingStartMessages,
        GetPendingStopMessages, AnalyzeApp, SaveCrashCounts, SaveStops, Send,
        PostStart, PostStartFails, HoldStarts, PostStop, PostStopFails,
        PostingDone, KeepStarts, DeleteStarts, KeepStops, DeleteStops,
        PassFails, ProcessDies, ReadingPoint, messages
<1>3. ASSUME pc = "saveStops" PROVE KeepsStops
  <2>1. CASE UNCHANGED stops
    BY <2>1 DEF KeepsStops
  <2>2. CASE SaveStops
    <3>1. PICK saved \in SUBSET Guids :
            /\ saved \subseteq QueuedKeys(analysis.stops)
            /\ stops' = Write(stops, analysis.stops, saved)
      BY <2>2 DEF SaveStops, Handled
    <3>2. \A guid \in QueuedKeys(stops) : guid \notin saved
      BY <1>3, <3>1 DEF OwnInv, OwnIsRead, QueuedKeys, SavingPoint
    <3>3. QueuedKeys(stops) \subseteq Guids
      BY <1>1 DEF QueuedKeys
    <3> QED
      BY <1>1, <3>1, <3>2, <3>3 DEF KeepsStops, Write
  <2> QED
    BY <1>3, <2>1, <2>2
    DEF AnalyzerActs, AnalyzerStep, PassBegins, FetchDesiredState,
        GetInstanceHeartbeats, GetCrashCounts, GetPendingStartMessages,
        GetPendingStopMessages, AnalyzeApp, SaveCrashCounts, SaveStarts, Send,
        PostStart, PostStartFails, HoldStarts, PostStop, PostStopFails,
        PostingDone, KeepStarts, DeleteStarts, KeepStops, DeleteStops,
        PassFails, ProcessDies, ReadingPoint, messages
<1> QED
  BY <1>2, <1>3 DEF KeepsStarts, KeepsStops

(* The analyzer overrides no stop and no start of its own, whoever else    *)
(* writes to the store between its reads and its saves (README.md:259).    *)
THEOREM OverridesNotItsOwn == Spec => AnalyzerKeepsItsOwn
<1>1. Spec => [](TypeOK /\ OwnInv)
  BY InitTypeOK, NextTypeOK, InitOwn, NextOwn, PTL DEF Spec
<1>2. TypeOK /\ OwnInv /\ [Next]_vars =>
        [AnalyzerActs => KeepsStops /\ KeepsStarts(OfAnalyzer(starts))]_vars
  BY SavesSpareOwn
<1> QED
  BY <1>1, <1>2, PTL DEF Spec, AnalyzerKeepsItsOwn

---------------------------------------------------------------------------
(* The life of a message.  What a pass has read of a map is what is stored *)
(* until its own writes, so every write finds the message it was made for  *)
(* in the state that it was made for, however late it comes.               *)

(* A message that may leave the store: due and unsent, or no longer kept.  *)
MayLeave(message, time) ==
  /\ Queued(message)
  /\ IsTimeToSend(message, time) \/ IsExpired(message, time)

(* What the analysis adds has neither been sent nor is in the way of       *)
(* anything stored.                                                        *)
AddsOnly(stored, read, new) ==
  /\ read = Write(stored, new, QueuedKeys(new))
  /\ \A key \in QueuedKeys(new) : ~Queued(stored[key])

(* What the sender has marked or has yet to send is stored, unsent and     *)
(* due, and it deletes nothing of that.                                    *)
Sorted(stored, toSend, toSave, toDelete, time) ==
  /\ \A key \in toSend \cup QueuedKeys(toSave) :
       Queued(stored[key]) /\ IsTimeToSend(stored[key], time)
  /\ \A key \in QueuedKeys(toSave) :
       toSave[key] = [stored[key] EXCEPT !.sentOn = time]
  /\ \A key \in toDelete : MayLeave(stored[key], time)
  /\ (toSend \cup toDelete) \cap QueuedKeys(toSave) = {}
  /\ toSend \cap toDelete = {}

StopSendingPoint == {"post", "keepStarts", "deleteStarts", "keepStops"}
StopsAreRead ==
  /\ pc \in {"analyze", "verify"} \cup StopSendingPoint => pendingStops = stops
  /\ pc \in SavingPoint => AddsOnly(stops, pendingStops, analysis.stops)
  /\ pc \in StopSendingPoint =>
       Sorted(stops, stopsToSend, stopMessagesToSave, stopMessagesToDelete,
              currentTime)
  /\ pc = "deleteStops" =>
       \A guid \in stopMessagesToDelete : MayLeave(stops[guid], currentTime)

StartSendingPoint == {"post", "keepStarts"}
StartsAreRead ==
  /\ pc \in {"stops", "analyze", "saveStops", "verify"}
            \cup StartSendingPoint => pendingStarts = starts
  /\ pc \in {"saveCrashCounts", "saveStarts"} =>
       AddsOnly(starts, pendingStarts, analysis.starts)
  /\ pc \in StartSendingPoint =>
       Sorted(starts, startsToSend, startMessagesToSave, startMessagesToDelete,
              currentTime)
  /\ pc = "deleteStarts" =>
       \A index \in startMessagesToDelete : MayLeave(starts[index], currentTime)

SenderPoint == StopSendingPoint \cup {"deleteStops"}
SenderIsFresh ==
  /\ 1 <= now
  /\ pc \in SenderPoint => currentTime \in 1..now
  /\ pc \notin SenderPoint =>
       startMessagesToSave = NoStarts /\ stopMessagesToSave = NoStops

(* Until an instance evacuates nobody else writes a start.                 *)
OthersWriteNone == evacuator = "idle" /\ markedByListener = NoMarks

LifeInv ==
  /\ SenderIsFresh
  /\ StopsAreRead
  /\ NoneEvacuates => StartsAreRead /\ OthersWriteNone

(* How the message of a key, and what was accepted for it, may change.     *)
MovesOn(message, next, sent, then, time) ==
  \/ next = message /\ then = sent
  \/ /\ ~Queued(message) /\ Queued(next) /\ ~HasBeenSent(next)
     /\ then = sent
  \/ /\ Queued(message) /\ IsTimeToSend(message, time)
     /\ \E a \in Acceptance : /\ a.at \in message.sendOn..time
                              /\ then = Append(sent, a)
     /\ next = message
  \/ /\ Queued(message) /\ ~HasBeenSent(message)
     /\ next = [message EXCEPT !.sentOn = next.sentOn]
     /\ HasBeenSent(next) /\ next.sentOn >= message.sendOn
     /\ \E k \in DOMAIN sent : sent[k].at = next.sentOn
     /\ then = sent
  \/ MayLeave(message, time) /\ ~Queued(next) /\ then = sent

Message == PendingStartMessage \cup PendingStopMessage

(* A message that is marked keeps all else.                                *)
LEMMA MarkedMessage ==
  ASSUME NEW m \in Message, NEW time \in Nat \ {0}, NEW marked,
         marked = [m EXCEPT !.sentOn = time]
  PROVE  /\ marked.sentOn = time
         /\ marked.keepAlive = m.keepAlive
         /\ Queued(marked) <=> Queued(m)
         /\ HasBeenSent(marked)
<1>1. CASE m \in PendingStartMessage
  BY <1>1 DEF PendingStartMessage, Queued, HasBeenSent
<1>2. CASE m \in PendingStopMessage
  BY <1>2 DEF PendingStopMessage, Queued, HasBeenSent
<1> QED
  BY <1>1, <1>2 DEF Message

(* The times of a message are numbers.                                     *)
LEMMA MessageTimes ==
  ASSUME NEW m \in Message
  PROVE  m.sendOn \in Int /\ m.sentOn \in Int /\ m.keepAlive \in Int
BY DEF Message, PendingStartMessage, PendingStopMessage

(* The life of a message that moves.                                       *)
LEMMA LifeOfMarked ==
  ASSUME NEW m \in Message, NEW next, Queued(m), ~HasBeenSent(m),
         next = [m EXCEPT !.sentOn = next.sentOn],
         next.sentOn \in Nat, HasBeenSent(next)
  PROVE  LifeOf(next) = [state |-> "sent", time |-> next.sentOn,
                         keepAlive |-> LifeOf(m).keepAlive]
<1>1. next.sentOn \in Nat \ {0}
  BY DEF HasBeenSent
<1> DEFINE time == next.sentOn
<1>2. next = [m EXCEPT !.sentOn = time] /\ time \in Nat \ {0}
  BY <1>1
<1> HIDE DEF time
<1>3. Queued(next) /\ next.keepAlive = m.keepAlive
  BY <1>2, MarkedMessage
<1> QED
  BY <1>3 DEF LifeOf

(* What is accepted adds its time to those there are.                      *)
LEMMA TimesGrow ==
  ASSUME NEW s \in Seq(Acceptance), NEW a \in Acceptance
  PROVE  TimesOf(Append(s, a)) = Append(TimesOf(s), a.at)
<1>1. DOMAIN s = 1..Len(s) /\ Len(s) \in Nat
  OBVIOUS
<1>2. TimesOf(s) \in Seq(Nat) /\ Len(TimesOf(s)) = Len(s)
  <2>1. \A k \in 1..Len(s) : s[k].at \in Nat
    <3>1. \A k \in 1..Len(s) : s[k] \in Acceptance
      OBVIOUS
    <3> QED
      BY <3>1 DEF Acceptance
  <2>2. TimesOf(s) = [k \in 1..Len(s) |-> s[k].at]
    BY <1>1 DEF TimesOf
  <2> QED
    BY <1>1, <2>1, <2>2
<1>3. a.at \in Nat
  BY DEF Acceptance
<1>4. DOMAIN Append(s, a) = 1..Len(s) + 1
  BY <1>1
<1>5. DOMAIN Append(TimesOf(s), a.at) = 1..Len(s) + 1
  BY <1>2, <1>3
<1>6. ASSUME NEW k \in 1..Len(s) + 1
      PROVE  Append(s, a)[k].at = Append(TimesOf(s), a.at)[k]
  <2>1. CASE k = Len(s) + 1
    <3>1. Append(s, a)[k] = a
      BY <1>1, <2>1
    <3>2. Append(TimesOf(s), a.at)[k] = a.at
      BY <1>2, <1>3, <2>1
    <3> QED
      BY <3>1, <3>2
  <2>2. CASE k # Len(s) + 1
    <3>1. k \in 1..Len(s)
      BY <1>1, <2>2
    <3>2. Append(s, a)[k] = s[k]
      BY <1>1, <3>1
    <3>3. Append(TimesOf(s), a.at)[k] = TimesOf(s)[k]
      BY <1>2, <1>3, <3>1
    <3> QED
      BY <1>1, <3>1, <3>2, <3>3 DEF TimesOf
  <2> QED
    BY <2>1, <2>2
<1>7. TimesOf(Append(s, a)) = [k \in 1..Len(s) + 1 |-> Append(s, a)[k].at]
  BY <1>4 DEF TimesOf
<1>8. Append(TimesOf(s), a.at)
        = [k \in 1..Len(s) + 1 |-> Append(TimesOf(s), a.at)[k]]
  BY <1>2, <1>3, <1>5
<1> QED
  BY <1>6, <1>7, <1>8

(* What stays due, or no longer kept, as time goes on.                     *)
LEMMA LeavesLater ==
  ASSUME NEW m \in Message, NEW time \in Int, NEW later \in Int, time <= later
  PROVE  /\ MayLeave(m, time) => MayLeave(m, later)
         /\ IsTimeToSend(m, time) => IsTimeToSend(m, later)
BY MessageTimes DEF MayLeave, IsTimeToSend, IsExpired

(* The writes of a pass move each message on in its life: new ones, ...    *)
LEMMA SavesMoveOn ==
  ASSUME NEW K, NEW stored \in [K -> Message], NEW new \in [K -> Message],
         NEW read, AddsOnly(stored, read, new),
         \A key \in K : ~HasBeenSent(new[key]),
         NEW saved, saved \subseteq QueuedKeys(new), NEW sent, NEW time
  PROVE  \A key \in K :
           MovesOn(stored[key], Write(stored, new, saved)[key],
                 sent[key], sent[key], time)
<1> TAKE key \in K
<1>1. Write(stored, new, saved)[key]
        = IF key \in saved THEN new[key] ELSE stored[key]
  BY DEF Write
<1>2. key \in saved => Queued(new[key]) /\ ~Queued(stored[key])
  BY DEF AddsOnly, QueuedKeys
<1> QED
  BY <1>1, <1>2 DEF MovesOn

(* ... those accepted, ...                                                 *)
LEMMA PostsMoveOn ==
  ASSUME NEW K, NEW stored \in [K -> Message],
         NEW sent \in [K -> Seq(Acceptance)],
         NEW key \in K, Queued(stored[key]),
         NEW time \in Nat, IsTimeToSend(stored[key], time),
         NEW later \in Nat, time <= later
  PROVE  \A k \in K :
           MovesOn(stored[k], stored[k], sent[k],
                 Accept(sent, key, stored[key], time)[k], later)
<1> DEFINE a == [at |-> time, keepAlive |-> stored[key].keepAlive,
                 reason |-> stored[key].reason]
<1>1. a \in Acceptance /\ a.at = time
  BY DEF Acceptance, Message, PendingStartMessage, PendingStopMessage
<1>2. a.at \in stored[key].sendOn..later
  BY <1>1, MessageTimes DEF IsTimeToSend
<1>3. IsTimeToSend(stored[key], later)
  BY LeavesLater
<1>4. ASSUME NEW k \in K
      PROVE  Accept(sent, key, stored[key], time)[k]
               = IF k = key THEN Append(sent[key], a) ELSE sent[k]
  BY DEF Accept
<1> HIDE DEF a
<1> QED
  BY <1>1, <1>2, <1>3, <1>4 DEF MovesOn

(* ... those marked ...                                                    *)
LEMMA KeepsMoveOn ==
  ASSUME NEW K, NEW stored \in [K -> Message], NEW toSave \in [K -> Message],
         NEW sent, AllTrueMarks(toSave, sent), NEW time \in Nat \ {0},
         NEW toSend, NEW toDelete,
         Sorted(stored, toSend, toSave, toDelete, time),
         NEW kept, kept \subseteq QueuedKeys(toSave), NEW later
  PROVE  \A key \in K :
           MovesOn(stored[key], Write(stored, toSave, kept)[key],
                 sent[key], sent[key], later)
<1> TAKE key \in K
<1>1. Write(stored, toSave, kept)[key]
        = IF key \in kept THEN toSave[key] ELSE stored[key]
  BY DEF Write
<1>2. ASSUME key \in kept
      PROVE  MovesOn(stored[key], toSave[key], sent[key], sent[key], later)
  <2>1. /\ Queued(stored[key]) /\ IsTimeToSend(stored[key], time)
        /\ toSave[key] = [stored[key] EXCEPT !.sentOn = time]
    BY <1>2 DEF Sorted
  <2>2. toSave[key].sentOn = time /\ HasBeenSent(toSave[key])
    BY <2>1, MarkedMessage
  <2>3. \E k \in DOMAIN sent[key] : sent[key][k].at = time
    BY <2>2 DEF AllTrueMarks, IsTrueMark
  <2>4. stored[key].sendOn <= time /\ ~HasBeenSent(stored[key])
    BY <2>1 DEF IsTimeToSend
  <2>5. time >= stored[key].sendOn
    BY <2>4, MessageTimes
  <2> QED
    BY <2>1, <2>2, <2>3, <2>4, <2>5 DEF MovesOn
<1> QED
  BY <1>1, <1>2 DEF MovesOn

(* ... and those that are done with.                                       *)
LEMMA DeletesMoveOn ==
  ASSUME NEW K, NEW stored \in [K -> Message], NEW none \in [K -> Message],
         \A key \in K : ~Queued(none[key]),
         NEW toDelete, NEW time \in Nat, NEW later \in Nat, time <= later,
         \A key \in toDelete : MayLeave(stored[key], time),
         NEW deleted, deleted \subseteq toDelete, NEW sent
  PROVE  \A key \in K :
           MovesOn(stored[key], Write(stored, none, deleted)[key],
                 sent[key], sent[key], later)
<1> TAKE key \in K
<1>1. Write(stored, none, deleted)[key]
        = IF key \in deleted THEN none[key] ELSE stored[key]
  BY DEF Write
<1>2. key \in deleted => MayLeave(stored[key], later)
  BY LeavesLater
<1> QED
  BY <1>1, <1>2 DEF MovesOn

(* The same of what MessageLife sees of them.                              *)
LivesOn(old, new, sent, then, time) ==
  \/ new = old /\ then = sent
  \/ old.state = "absent" /\ new.state = "waiting" /\ then = sent
  \/ /\ old.state = "waiting" /\ new = old
     /\ \E t \in old.time..time : then = Append(sent, t)
  \/ /\ old.state = "waiting"
     /\ \E k \in DOMAIN sent :
          /\ sent[k] >= old.time
          /\ new = [state |-> "sent", time |-> sent[k],
                    keepAlive |-> old.keepAlive]
     /\ then = sent
  \/ /\ \/ old.state = "waiting" /\ old.time <= time
        \/ old.state = "sent" /\ old.time + old.keepAlive <= time
     /\ new = [state |-> "absent", time |-> 0, keepAlive |-> 0]
     /\ then = sent

(* A message that moves goes on in its life.                               *)
LEMMA MovesLive ==
  ASSUME NEW message \in Message, NEW next \in Message,
         NEW sent \in Seq(Acceptance), NEW then, NEW time \in Nat,
         MovesOn(message, next, sent, then, time)
  PROVE  LivesOn(LifeOf(message), LifeOf(next), TimesOf(sent), TimesOf(then),
                 time)
<1> USE DEF LivesOn
<1>1. CASE next = message /\ then = sent
  BY <1>1
<1>2. CASE /\ ~Queued(message) /\ Queued(next) /\ ~HasBeenSent(next)
           /\ then = sent
  BY <1>2 DEF LifeOf
<1>3. CASE /\ Queued(message) /\ IsTimeToSend(message, time)
           /\ \E a \in Acceptance : /\ a.at \in message.sendOn..time
                                    /\ then = Append(sent, a)
           /\ next = message
  <2>1. PICK a \in Acceptance : /\ a.at \in message.sendOn..time
                                /\ then = Append(sent, a)
    BY <1>3
  <2>2. TimesOf(then) = Append(TimesOf(sent), a.at)
    BY <2>1, TimesGrow
  <2>3. /\ LifeOf(message).state = "waiting"
        /\ LifeOf(message).time = message.sendOn
    BY <1>3 DEF LifeOf, IsTimeToSend
  <2> QED
    BY <1>3, <2>1, <2>2, <2>3
<1>4. CASE /\ Queued(message) /\ ~HasBeenSent(message)
           /\ next = [message EXCEPT !.sentOn = next.sentOn]
           /\ HasBeenSent(next) /\ next.sentOn >= message.sendOn
           /\ \E k \in DOMAIN sent : sent[k].at = next.sentOn
           /\ then = sent
  <2>1. PICK k \in DOMAIN sent : sent[k].at = next.sentOn
    BY <1>4
  <2>2. k \in DOMAIN TimesOf(sent) /\ TimesOf(sent)[k] = next.sentOn
    BY <2>1 DEF TimesOf
  <2>3. LifeOf(next) = [state |-> "sent", time |-> next.sentOn,
                        keepAlive |-> LifeOf(message).keepAlive]
    <3>1. sent[k] \in Acceptance
      BY <2>1
    <3>2. next.sentOn \in Nat
      BY <2>1, <3>1 DEF Acceptance
    <3> QED
      BY <1>4, <3>2, LifeOfMarked
  <2>4. /\ LifeOf(message).state = "waiting"
        /\ LifeOf(message).time = message.sendOn
    BY <1>4 DEF LifeOf
  <2> QED
    BY <1>4, <2>2, <2>3, <2>4
<1>5. CASE MayLeave(message, time) /\ ~Queued(next) /\ then = sent
  <2>1. LifeOf(next) = [state |-> "absent", time |-> 0, keepAlive |-> 0]
    BY <1>5 DEF LifeOf
  <2>2. \/ LifeOf(message).state = "waiting" /\ LifeOf(message).time <= time
        \/ /\ LifeOf(message).state = "sent"
           /\ LifeOf(message).time + LifeOf(message).keepAlive <= time
    BY <1>5 DEF LifeOf, MayLeave, IsTimeToSend, IsExpired
  <2> QED
    BY <1>5, <2>1, <2>2
<1> QED
  BY <1>1, <1>2, <1>3, <1>4, <1>5 DEF MovesOn

(* Send sorts what it has read, having marked nothing yet.                 *)
LEMMA SendSorts ==
  ASSUME NEW K, NEW map, DOMAIN map = K, NEW time \in Nat,
         NEW toSend, toSend \subseteq DueKeys(map, time),
         NEW toDelete, toDelete = ExpiredKeys(map, time)
                                    \cup (DueKeys(map, time) \ toSend),
         NEW toSave, QueuedKeys(toSave) = {}
  PROVE  Sorted(map, toSend, toSave, toDelete, time)
BY DEF Sorted, MayLeave, DueKeys, ExpiredKeys, QueuedKeys, IsTimeToSend,
       IsExpired

(* A message leaves what is to be sent: forgotten after a failure, dropped *)
(* if nothing is to be kept of it, or marked.                              *)
LEMMA PostSorts ==
  ASSUME NEW K, NEW stored \in [K -> Message], NEW toSave \in [K -> Message],
         NEW toSend, NEW toDelete, NEW time \in Nat \ {0},
         Sorted(stored, toSend, toSave, toDelete, time), NEW key \in toSend,
         key \in K
  PROVE  /\ Sorted(stored, toSend \ {key}, toSave, toDelete, time)
         /\ Sorted(stored, toSend \ {key}, toSave, toDelete \cup {key}, time)
         /\ Sorted(stored, toSend \ {key},
                   [toSave EXCEPT ![key] =
                      [stored[key] EXCEPT !.sentOn = time]], toDelete, time)
<1> DEFINE marked == [stored[key] EXCEPT !.sentOn = time]
           saves == [toSave EXCEPT ![key] = marked]
<1>1. Sorted(stored, toSend \ {key}, toSave, toDelete, time)
  BY DEF Sorted
<1>2. Queued(stored[key]) /\ IsTimeToSend(stored[key], time)
  BY DEF Sorted
<1>3. Sorted(stored, toSend \ {key}, toSave, toDelete \cup {key}, time)
  <2>1. MayLeave(stored[key], time)
    BY <1>2 DEF MayLeave
  <2>2. key \notin QueuedKeys(toSave)
    BY DEF Sorted
  <2> QED
    BY <2>1, <2>2 DEF Sorted
<1>4. Sorted(stored, toSend \ {key}, saves, toDelete, time)
  <2>1. QueuedKeys(saves) = QueuedKeys(toSave) \cup {key}
    <3>1. Queued(marked)
      BY <1>2, MarkedMessage
    <3> HIDE DEF marked
    <3> QED
      BY <3>1 DEF QueuedKeys
  <2>2. \A k \in QueuedKeys(saves) :
          saves[k] = [stored[k] EXCEPT !.sentOn = time]
    <3>1. saves[key] = marked
      OBVIOUS
    <3>2. \A k \in QueuedKeys(toSave) : k \in K /\ k # key =>
            saves[k] = toSave[k]
      OBVIOUS
    <3>3. QueuedKeys(toSave) \subseteq K
      BY DEF QueuedKeys
    <3> HIDE DEF saves
    <3> QED
      BY <2>1, <3>1, <3>2, <3>3 DEF Sorted
  <2> HIDE DEF saves
  <2> QED
    BY <1>2, <2>1, <2>2 DEF Sorted
<1> QED
  BY <1>1, <1>3, <1>4

(* What is to be deleted is not among what is kept.                        *)
LEMMA KeepSorts ==
  ASSUME NEW K, NEW stored \in [K -> Message], NEW toSave, NEW toSend,
         NEW toDelete, toDelete \subseteq K, NEW time,
         Sorted(stored, toSend, toSave, toDelete, time),
         NEW kept, kept \subseteq QueuedKeys(toSave)
  PROVE  \A key \in toDelete :
           MayLeave(Write(stored, toSave, kept)[key], time)
<1> TAKE key \in toDelete
<1>1. key \notin kept
  BY DEF Sorted
<1>2. Write(stored, toSave, kept)[key] = stored[key]
  BY <1>1 DEF Write
<1> QED
  BY <1>2 DEF Sorted

---------------------------------------------------------------------------
(* The invariant of the life of messages holds.                            *)
LEMMA InitLife == Init => LifeInv
<1> SUFFICES ASSUME Init PROVE LifeInv
  OBVIOUS
<1>1. /\ pc = "idle" /\ evacuator = "idle" /\ markedByListener = NoMarks
      /\ startMessagesToSave = NoStarts /\ stopMessagesToSave = NoStops
      /\ now = 1
  BY DEF Init, SharedInit, AnalyzerInit, EvacuatorInit, ListenerInit
<1> QED
  BY <1>1
  DEF LifeInv, SenderIsFresh, StopsAreRead, StartsAreRead, OthersWriteNone,
      SenderPoint, StopSendingPoint, StartSendingPoint, SavingPoint

(* Outside the sender nothing is marked; within it its clock stands still. *)
LEMMA NextFresh ==
  ASSUME TypeOK, SenderIsFresh, [Next]_vars
  PROVE  SenderIsFresh'
<1> DEFINE saves == <<startMessagesToSave, stopMessagesToSave>>
<1> USE DEF SenderPoint, StopSendingPoint
<1>1. now \in Nat /\ 1 <= now
  BY DEF SenderIsFresh, TypeOK, SharedTypeOK
<1>2. CASE UNCHANGED <<pc, currentTime, saves>> /\ now' \in {now, now + 1}
  BY <1>1, <1>2 DEF SenderIsFresh
<1>3. CASE Environment \/ EvacuatorActs \/ ListenerActs \/ UNCHANGED vars
  <2>1. UNCHANGED analyzerVars
    BY <1>3
    DEF Environment, Tick, ReportHeartbeat, ChangeDesired, EvacuatorActs,
        ListenerActs, vars
  <2>2. now' \in {now, now + 1}
    BY <1>3
    DEF Environment, Tick, ReportHeartbeat, ChangeDesired, EvacuatorActs,
        EvacuatorStep, HandleExited, EvacuatorSends, EvacuatorSendFails,
        EvacuatorKeeps, ListenerActs, ListenerStep, ListenerSends,
        ListenerSendFails, ListenerHolds, ListenerKeeps, ListenerGivesUp,
        ListenerDies, vars, shared
  <2> QED
    BY <1>2, <2>1, <2>2 DEF analyzerVars, queues
<1>4. CASE PassEnds /\ now' = now
  BY <1>1, <1>4 DEF PassEnds, SenderIsFresh
<1>5. CASE Send
  BY <1>1, <1>5 DEF Send, SenderIsFresh, shared
<1>6. CASE \/ PassBegins \/ FetchDesiredState \/ GetInstanceHeartbeats
           \/ GetCrashCounts
           \/ GetPendingStartMessages \/ GetPendingStopMessages \/ AnalyzeApp
  BY <1>1, <1>6
  DEF PassBegins, FetchDesiredState, GetInstanceHeartbeats, GetCrashCounts,
      GetPendingStartMessages, GetPendingStopMessages, AnalyzeApp,
      SenderIsFresh, shared, queues, ReadingPoint
<1>7. CASE SaveCrashCounts \/ SaveStarts \/ SaveStops
  <2>1. now' = now
    BY <1>7 DEF SaveCrashCounts, SaveStarts, SaveStops
  <2>2. CASE ~PassEnds
    <3>1. /\ pc \notin SenderPoint
          /\ pc' \in {"saveStarts", "saveStops", "verify"}
          /\ UNCHANGED saves
      BY <1>7, <2>2
      DEF SaveCrashCounts, SaveStarts, SaveStops, AfterSave, queues
    <3> QED
      BY <1>1, <2>1, <3>1 DEF SenderIsFresh
  <2> QED
    BY <1>4, <2>1, <2>2
<1>8. CASE \/ PostStart \/ PostStartFails \/ HoldStarts
           \/ PostStop \/ PostStopFails \/ PostingDone
           \/ KeepStarts \/ DeleteStarts \/ KeepStops
  <2>1. /\ pc \in SenderPoint /\ pc' \in SenderPoint
        /\ UNCHANGED <<now, currentTime>>
    BY <1>8
    DEF PostStart, PostStartFails, HoldStarts, PostStop, PostStopFails,
        PostingDone, KeepStarts, DeleteStarts, KeepStops, shared
  <2> QED
    BY <2>1 DEF SenderIsFresh
<1>9. CASE DeleteStops \/ PassFails \/ ProcessDies
  BY <1>4, <1>9 DEF DeleteStops, PassFails, ProcessDies
<1> QED
  BY <1>2, <1>3, <1>5, <1>6, <1>7, <1>8, <1>9
  DEF Next, AnalyzerActs, AnalyzerStep, TimeIsUp

---------------------------------------------------------------------------
(* What the stops' part of the invariant is about.                         *)
stopView == <<pendingStops, analysis, stops, stopsToSend, stopMessagesToSave,
              stopMessagesToDelete, currentTime>>

(* Reading and analyzing the stops.                                        *)
LEMMA ReadStops ==
  ASSUME TypeOK, StopsAreRead, GetPendingStopMessages \/ AnalyzeApp
  PROVE  StopsAreRead'
<1> USE DEF StopSendingPoint, SavingPoint
<1>1. CASE GetPendingStopMessages
  <2>1. pc' = "analyze" /\ pendingStops' = stops /\ stops' = stops
    BY <1>1 DEF GetPendingStopMessages, shared, messages
  <2> QED
    BY <2>1 DEF StopsAreRead
<1>2. CASE AnalyzeApp
  <2>1. PICK order \in Orders :
          analysis' = Analysis([app |-> app', now |-> now, order |-> order,
                                starts |-> pendingStarts,
                                stops |-> pendingStops])
    BY <1>2 DEF AnalyzeApp
  <2> DEFINE a == [app |-> app', now |-> now, order |-> order,
                   starts |-> pendingStarts, stops |-> pendingStops]
  <2>2. a.stops = pendingStops /\ analysis' = Analysis(a)
    BY <2>1
  <2> HIDE DEF a
  <2>3. \A guid \in Guids :
          Queued(pendingStops[guid]) => ~Queued(analysis'.stops[guid])
    BY <2>2, AnalysisAddsOnly
  <2>4. /\ pc = "analyze" /\ pc' = "saveCrashCounts" /\ stops' = stops
        /\ pendingStops' =
             Write(pendingStops, analysis'.stops, QueuedKeys(analysis'.stops))
    BY <1>2 DEF AnalyzeApp, shared, messages
  <2>5. DOMAIN analysis'.stops = Guids
    BY <1>2, ReadingTypeOK DEF TypeOK, AnalyzerTypeOK
  <2>6. pendingStops = stops
    BY <2>4 DEF StopsAreRead
  <2>7. AddsOnly(stops, pendingStops', analysis'.stops)
    BY <2>3, <2>4, <2>5, <2>6 DEF AddsOnly, QueuedKeys
  <2> QED
    BY <2>4, <2>7 DEF StopsAreRead
<1> QED
  BY <1>1, <1>2

(* The saves before the stops' own, and that one.                          *)
LEMMA SaveStopsRead ==
  ASSUME TypeOK, StopsAreRead, SaveCrashCounts \/ SaveStarts \/ SaveStops
  PROVE  StopsAreRead'
<1> USE DEF StopSendingPoint, SavingPoint
<1>1. CASE PassEnds
  BY <1>1 DEF PassEnds, StopsAreRead
<1>2. CASE ~PassEnds /\ (SaveCrashCounts \/ SaveStarts)
  <2>1. /\ pc \in SavingPoint /\ pc' \in SavingPoint
        /\ UNCHANGED <<pendingStops, analysis, stops>>
    BY <1>2 DEF SaveCrashCounts, SaveStarts, AfterSave, pending
  <2>2. pc' \notin {"analyze", "verify", "deleteStops"} \cup StopSendingPoint
    BY <2>1
  <2> QED
    BY <2>1, <2>2 DEF StopsAreRead
<1>3. CASE ~PassEnds /\ SaveStops
  <2>1. /\ pc = "saveStops" /\ pc' = "verify" /\ faults' = faults
        /\ UNCHANGED pendingStops
    BY <1>3 DEF SaveStops, AfterSave, pending
  <2>2. faults \in Nat
    BY MaxFaultsAssumption DEF TypeOK, SharedTypeOK
  <2>3. stops' = Write(stops, analysis.stops, QueuedKeys(analysis.stops))
    BY <1>3, <2>1, <2>2 DEF SaveStops, Handled, Fault
  <2>4. pendingStops' = stops'
    BY <2>1, <2>3 DEF StopsAreRead, AddsOnly
  <2> QED
    BY <2>1, <2>4 DEF StopsAreRead
<1> QED
  BY <1>1, <1>2, <1>3

(* Send sorts the stops it has read.                                       *)
LEMMA SendStops ==
  ASSUME TypeOK, SenderIsFresh, StopsAreRead, Send
  PROVE  StopsAreRead'
<1> USE DEF StopSendingPoint, SavingPoint
<1>1. /\ pc = "verify" /\ pc' = "post" /\ currentTime' = now
      /\ UNCHANGED <<pendingStops, stopMessagesToSave, stops>>
      /\ stopsToSend' \subseteq DueKeys(pendingStops, now)
      /\ stopMessagesToDelete' = ExpiredKeys(pendingStops, now)
           \cup (DueKeys(pendingStops, now) \ stopsToSend')
  BY DEF Send, pending, shared, messages
<1>2. pendingStops = stops /\ QueuedKeys(stopMessagesToSave) = {}
  BY <1>1, AbsentNotQueued
  DEF StopsAreRead, SenderIsFresh, SenderPoint, NoStops, QueuedKeys
<1>3. DOMAIN stops = Guids /\ now \in Nat
  BY DEF TypeOK, SharedTypeOK
<1>4. Sorted(stops, stopsToSend', stopMessagesToSave, stopMessagesToDelete',
             now)
  BY <1>1, <1>2, <1>3, SendSorts
<1> QED
  BY <1>1, <1>2, <1>4 DEF StopsAreRead

(* Posting a stop marks it, unless the call fails.                         *)
LEMMA PostStops ==
  ASSUME TypeOK, SenderIsFresh, StopsAreRead, PostStop \/ PostStopFails
  PROVE  StopsAreRead'
<1> USE DEF StopSendingPoint, SavingPoint
<1>1. /\ pc = "post" /\ pc' = "post"
      /\ UNCHANGED <<pendingStops, stops, stopMessagesToDelete, currentTime>>
  BY DEF PostStop, PostStopFails, pending, messages
<1>2. PICK guid \in stopsToSend :
        /\ stopsToSend' = stopsToSend \ {guid}
        /\ stopMessagesToSave' \in {stopMessagesToSave,
             [stopMessagesToSave EXCEPT ![guid] =
                [pendingStops[guid] EXCEPT !.sentOn = currentTime]]}
  BY DEF PostStop, PostStopFails
<1>3. /\ pendingStops = stops
      /\ Sorted(stops, stopsToSend, stopMessagesToSave, stopMessagesToDelete,
                currentTime)
  BY <1>1 DEF StopsAreRead
<1>4. /\ stops \in [Guids -> Message]
      /\ stopMessagesToSave \in [Guids -> Message]
      /\ guid \in Guids
  BY DEF TypeOK, SharedTypeOK, AnalyzerTypeOK, Message
<1>5. currentTime \in Nat \ {0}
  BY <1>1 DEF SenderIsFresh, SenderPoint, TypeOK, SharedTypeOK
<1>6. Sorted(stops, stopsToSend', stopMessagesToSave', stopMessagesToDelete,
             currentTime)
  <2>1. /\ Sorted(stops, stopsToSend \ {guid}, stopMessagesToSave,
                  stopMessagesToDelete, currentTime)
        /\ Sorted(stops, stopsToSend \ {guid},
                  [stopMessagesToSave EXCEPT ![guid] =
                     [stops[guid] EXCEPT !.sentOn = currentTime]],
                  stopMessagesToDelete, currentTime)
    BY <1>2, <1>3, <1>4, <1>5, PostSorts
  <2> QED
    BY <1>2, <1>3, <2>1
<1> QED
  BY <1>1, <1>3, <1>6 DEF StopsAreRead

(* The save of the marked stops leaves alone those to be deleted.          *)
LEMMA KeepStopsRead ==
  ASSUME TypeOK, StopsAreRead, KeepStops
  PROVE  StopsAreRead'
<1> USE DEF StopSendingPoint, SavingPoint
<1>1. /\ pc = "keepStops" /\ pc' = "deleteStops"
      /\ UNCHANGED <<stopMessagesToDelete, currentTime>>
  BY DEF KeepStops, queues
<1>2. PICK kept : /\ kept \subseteq QueuedKeys(stopMessagesToSave)
                  /\ stops' = Write(stops, stopMessagesToSave, kept)
  BY DEF KeepStops, Handled
<1>3. Sorted(stops, stopsToSend, stopMessagesToSave, stopMessagesToDelete,
             currentTime)
  BY <1>1 DEF StopsAreRead
<1>4. stops \in [Guids -> Message] /\ stopMessagesToDelete \subseteq Guids
  BY DEF TypeOK, SharedTypeOK, AnalyzerTypeOK, Message
<1>5. \A guid \in stopMessagesToDelete : MayLeave(stops'[guid], currentTime)
  BY <1>2, <1>3, <1>4, KeepSorts
<1> QED
  BY <1>1, <1>5 DEF StopsAreRead

(* Only the analyzer writes stops, one pass at a time.                     *)
LEMMA NextStopsRead ==
  ASSUME TypeOK, SenderIsFresh, StopsAreRead, [Next]_vars
  PROVE  StopsAreRead'
<1>1. CASE UNCHANGED <<pc, stopView>>
  BY <1>1 DEF StopsAreRead, stopView
<1>2. CASE pc' \in {"idle", "apps", "counts", "starts", "stops"}
  BY <1>2 DEF StopsAreRead, StopSendingPoint, SavingPoint
<1>3. CASE Environment \/ EvacuatorActs \/ ListenerActs \/ UNCHANGED vars
  <2>1. UNCHANGED <<analyzerVars, stops>>
    BY <1>3
    DEF Environment, Tick, ReportHeartbeat, ChangeDesired, EvacuatorActs,
        EvacuatorStep, HandleExited, EvacuatorSends, EvacuatorSendFails,
        EvacuatorKeeps, ListenerActs, ListenerStep, ListenerSends,
        ListenerSendFails, ListenerHolds, ListenerKeeps, ListenerGivesUp,
        ListenerDies, vars, shared, messages
  <2> QED
    BY <1>1, <2>1 DEF analyzerVars, pending, queues, stopView
<1>4. CASE \/ PassBegins \/ GetInstanceHeartbeats \/ GetCrashCounts
           \/ GetPendingStartMessages
           \/ DeleteStops \/ PassFails \/ ProcessDies
  <2>1. pc' \in {"idle", "apps", "counts", "starts", "stops"}
    BY <1>4 DEF PassBegins, GetInstanceHeartbeats, GetCrashCounts,
                GetPendingStartMessages, DeleteStops, PassFails, ProcessDies,
                PassEnds
  <2> QED
    BY <1>2, <2>1
<1>5. CASE FetchDesiredState \/ PostStart \/ PostStartFails \/ HoldStarts
  <2>1. UNCHANGED <<pc, stopView>>
    BY <1>5 DEF FetchDesiredState, PostStart, PostStartFails, HoldStarts,
                stopView, pending, queues, shared, messages
  <2> QED
    BY <1>1, <2>1
<1>6. CASE PostingDone \/ KeepStarts \/ DeleteStarts
  <2>1. /\ pc \in StopSendingPoint /\ pc' \in StopSendingPoint
        /\ UNCHANGED stopView
    BY <1>6 DEF PostingDone, KeepStarts, DeleteStarts, StopSendingPoint,
                stopView, pending, queues, shared, messages
  <2> QED
    BY <2>1 DEF StopsAreRead, StopSendingPoint, SavingPoint, stopView
<1> QED
  BY <1>3, <1>4, <1>5, <1>6, ReadStops, SaveStopsRead, SendStops, PostStops,
     KeepStopsRead
  DEF Next, AnalyzerActs, AnalyzerStep, TimeIsUp

---------------------------------------------------------------------------
(* The starts, as long as none is sent for an evacuating instance.         *)

(* What is accepted of the starts of an index only grows.                  *)
LEMMA AcceptedGrows ==
  ASSUME NEW sent \in [Indices -> Seq(Acceptance)], NEW key \in Indices,
         NEW message \in PendingStartMessage, NEW time \in Nat,
         NEW index \in Indices, NEW k \in DOMAIN sent[index]
  PROVE  /\ k \in DOMAIN Accept(sent, key, message, time)[index]
         /\ Accept(sent, key, message, time)[index][k] = sent[index][k]
<1> DEFINE a == [at |-> time, keepAlive |-> message.keepAlive,
                 reason |-> message.reason]
<1>1. a \in Acceptance
  BY DEF Acceptance, PendingStartMessage
<1>2. Accept(sent, key, message, time)[index]
        = IF index = key THEN Append(sent[index], a) ELSE sent[index]
  BY DEF Accept
<1> HIDE DEF a
<1>3. /\ k \in DOMAIN Append(sent[index], a)
      /\ Append(sent[index], a)[k] = sent[index][k]
  BY <1>1
<1> QED
  BY <1>2, <1>3

(* It does in every step.                                                  *)
LEMMA StartsAcceptedGrow ==
  ASSUME TypeOK, [Next]_vars
  PROVE  \/ startsAccepted' = startsAccepted
         \/ \E key \in Indices, message \in PendingStartMessage, time \in Nat :
              startsAccepted' = Accept(startsAccepted, key, message, time)
<1>1. /\ now \in Nat /\ currentTime \in Nat
      /\ pendingStarts \in [Indices -> PendingStartMessage]
      /\ startsToSend \subseteq Indices
      /\ exited \in Indices /\ startMessage \in PendingStartMessage
      /\ evacuating \in Indices
  BY DEF TypeOK, SharedTypeOK, AnalyzerTypeOK, EvacuatorTypeOK, ListenerTypeOK
<1>2. EvacuationStart(now) \in PendingStartMessage
  BY <1>1, EvacuationStartType
<1>3. CASE Environment \/ UNCHANGED vars
  BY <1>3 DEF Environment, Tick, ReportHeartbeat, ChangeDesired, vars, shared,
              accepted
<1>4. CASE EvacuatorActs
  BY <1>1, <1>4 DEF EvacuatorActs, EvacuatorStep, HandleExited, EvacuatorSends,
                    EvacuatorSendFails, EvacuatorKeeps, accepted
<1>5. CASE ListenerActs
  BY <1>1, <1>2, <1>5
  DEF ListenerActs, ListenerStep, ListenerSends, ListenerSendFails,
      ListenerHolds, ListenerKeeps, ListenerGivesUp, ListenerDies, shared,
      accepted
<1>6. CASE PostStart \/ PostStartFails
  <2>1. PICK index \in Indices :
          startsAccepted' \in {startsAccepted,
            Accept(startsAccepted, index, pendingStarts[index], currentTime)}
    BY <1>1, <1>6 DEF PostStart, PostStartFails
  <2> QED
    BY <1>1, <2>1
<1>7. CASE AnalyzerStep /\ ~(PostStart \/ PostStartFails)
  BY <1>7
  DEF AnalyzerStep, PassBegins, FetchDesiredState, GetInstanceHeartbeats,
      GetCrashCounts, GetPendingStartMessages, GetPendingStopMessages,
      AnalyzeApp, SaveCrashCounts, SaveStarts, SaveStops, Send, HoldStarts,
      PostStop, PostStopFails, PostingDone, KeepStarts, DeleteStarts,
      KeepStops, DeleteStops, PassFails, ProcessDies, shared, accepted
<1> QED
  BY <1>3, <1>4, <1>5, <1>6, <1>7 DEF Next, AnalyzerActs, TimeIsUp

(* So none was sent for an evacuating instance before, if none is now.     *)
LEMMA NoneEvacuated ==
  ASSUME TypeOK, [Next]_vars, NoneEvacuates'
  PROVE  NoneEvacuates
<1>1. exits = 0
  <2>1. exits \in Nat
    BY MaxExitsAssumption DEF TypeOK, EvacuatorTypeOK
  <2>2. exits' \in {exits, exits + 1}
    BY DEF Next, Environment, Tick, ReportHeartbeat, ChangeDesired,
           AnalyzerActs, EvacuatorActs, EvacuatorStep, HandleExited,
           EvacuatorSends, EvacuatorSendFails, EvacuatorKeeps, ListenerActs,
           TimeIsUp, vars, evacuatorVars
  <2> QED
    BY <2>1, <2>2 DEF NoneEvacuates
<1>2. startsAccepted \in [Indices -> Seq(Acceptance)]
  BY DEF TypeOK, SharedTypeOK
<1>3. ASSUME NEW index \in Indices, NEW k \in DOMAIN startsAccepted[index]
      PROVE  /\ k \in DOMAIN startsAccepted'[index]
             /\ startsAccepted'[index][k] = startsAccepted[index][k]
  BY <1>2, StartsAcceptedGrow, AcceptedGrows
<1> QED
  BY <1>1, <1>3 DEF NoneEvacuates

(* Then neither the evacuator nor the listener writes a start.             *)
LEMMA OthersRest ==
  ASSUME TypeOK, OthersWriteNone, NoneEvacuates', EvacuatorActs \/ ListenerActs
  PROVE  OthersWriteNone' /\ UNCHANGED <<starts, startsAccepted>>
<1>1. /\ starts \in [Indices -> PendingStartMessage]
      /\ startsAccepted \in [Indices -> Seq(Acceptance)]
      /\ evacuating \in Indices /\ now \in Nat /\ exits \in Nat
  BY MaxExitsAssumption
  DEF TypeOK, SharedTypeOK, ListenerTypeOK, EvacuatorTypeOK
<1>2. ~EvacuatorActs
  <2>1. SUFFICES ASSUME EvacuatorActs PROVE FALSE
    OBVIOUS
  <2>2. exits' = exits + 1
    BY <2>1 DEF EvacuatorActs, EvacuatorStep, HandleExited, EvacuatorSends,
                EvacuatorSendFails, EvacuatorKeeps, OthersWriteNone
  <2> QED
    BY <1>1, <2>2 DEF NoneEvacuates
<1>3. evacuator' = evacuator
  BY <1>2 DEF ListenerActs, evacuatorVars
<1>4. startsAccepted' #
        Accept(startsAccepted, evacuating, EvacuationStart(now), now)
  <2> SUFFICES ASSUME startsAccepted' =
                 Accept(startsAccepted, evacuating, EvacuationStart(now), now)
               PROVE  FALSE
    OBVIOUS
  <2> DEFINE a == [at |-> now, keepAlive |-> EvacuationStart(now).keepAlive,
                   reason |-> EvacuationStart(now).reason]
             n == Len(startsAccepted[evacuating]) + 1
  <2>1. startsAccepted'[evacuating] = Append(startsAccepted[evacuating], a)
    BY <1>1 DEF Accept
  <2>2. a \in Acceptance /\ a.reason = "EVACUATING"
    <3>1. /\ EvacuationStart(now) \in PendingStartMessage
          /\ EvacuationStart(now).reason = "EVACUATING"
      BY <1>1, EvacuationStartType
    <3> QED
      BY <1>1, <3>1 DEF Acceptance, PendingStartMessage
  <2> HIDE DEF a
  <2>3. /\ n \in DOMAIN startsAccepted'[evacuating]
        /\ startsAccepted'[evacuating][n] = a
    BY <1>1, <2>1, <2>2
  <2> QED
    BY <1>1, <2>2, <2>3 DEF NoneEvacuates
<1>5. CASE ListenerKeeps
  <2>1. /\ starts' \in [Indices -> PendingStartMessage]
        /\ \A index \in Indices : \/ starts'[index] = starts[index]
                                  \/ starts'[index] \in markedByListener[index]
        /\ UNCHANGED markedByListener
    BY <1>5, ListenerKeepsMarked DEF TypeOK, SharedTypeOK
  <2>2. \A index \in Indices : markedByListener[index] = {}
    BY DEF OthersWriteNone, NoMarks
  <2>3. starts' = starts
    <3>1. starts \in [Indices -> PendingStartMessage]
      BY DEF TypeOK, SharedTypeOK
    <3>2. \A index \in Indices : starts'[index] = starts[index]
      BY <2>1, <2>2
    <3> QED
      BY <2>1, <3>1, <3>2
  <2>4. startsAccepted' = startsAccepted
    BY <1>5 DEF ListenerKeeps, accepted
  <2> QED
    BY <1>3, <2>1, <2>3, <2>4 DEF OthersWriteNone
<1>6. CASE \/ ListenerSendFails \/ ListenerHolds \/ ListenerGivesUp
           \/ ListenerDies
  BY <1>3, <1>4, <1>6 DEF ListenerSendFails, ListenerHolds, ListenerGivesUp,
                    ListenerDies, NoMarks, OthersWriteNone, shared, messages,
                    accepted
<1>7. ~ListenerSends
  BY <1>4 DEF ListenerSends
<1> QED
  BY <1>2, <1>5, <1>6, <1>7 DEF ListenerActs, ListenerStep

(* What the starts' part of the invariant is about.                        *)
startView == <<pendingStarts, analysis, starts, startsToSend,
               startMessagesToSave, startMessagesToDelete, currentTime>>

(* Reading and analyzing the starts.                                       *)
LEMMA ReadStarts ==
  ASSUME TypeOK, StartsAreRead,
         \/ GetPendingStartMessages \/ GetPendingStopMessages \/ AnalyzeApp
  PROVE  StartsAreRead'
<1> USE DEF StartSendingPoint
<1>1. CASE GetPendingStartMessages
  <2>1. pc' = "stops" /\ pendingStarts' = starts /\ starts' = starts
    BY <1>1 DEF GetPendingStartMessages, shared, messages
  <2> QED
    BY <2>1 DEF StartsAreRead
<1>2. CASE GetPendingStopMessages
  <2>1. /\ pc = "stops" /\ pc' = "analyze"
        /\ UNCHANGED <<pendingStarts, starts>>
    BY <1>2 DEF GetPendingStopMessages, shared, messages
  <2> QED
    BY <2>1 DEF StartsAreRead
<1>3. CASE AnalyzeApp
  <2>1. PICK order \in Orders :
          analysis' = Analysis([app |-> app', now |-> now, order |-> order,
                                starts |-> pendingStarts,
                                stops |-> pendingStops])
    BY <1>3 DEF AnalyzeApp
  <2> DEFINE a == [app |-> app', now |-> now, order |-> order,
                   starts |-> pendingStarts, stops |-> pendingStops]
  <2>2. a.starts = pendingStarts /\ analysis' = Analysis(a)
    BY <2>1
  <2> HIDE DEF a
  <2>3. \A index \in Indices :
          Queued(pendingStarts[index]) => ~Queued(analysis'.starts[index])
    BY <2>2, AnalysisAddsOnly
  <2>4. /\ pc = "analyze" /\ pc' = "saveCrashCounts" /\ starts' = starts
        /\ pendingStarts' =
             Write(pendingStarts, analysis'.starts,
                   QueuedKeys(analysis'.starts))
    BY <1>3 DEF AnalyzeApp, shared, messages
  <2>5. DOMAIN analysis'.starts = Indices
    BY <1>3, ReadingTypeOK DEF TypeOK, AnalyzerTypeOK
  <2>6. pendingStarts = starts
    BY <2>4 DEF StartsAreRead
  <2>7. AddsOnly(starts, pendingStarts', analysis'.starts)
    BY <2>3, <2>4, <2>5, <2>6 DEF AddsOnly, QueuedKeys
  <2> QED
    BY <2>4, <2>7 DEF StartsAreRead
<1> QED
  BY <1>1, <1>2, <1>3

(* The save before the starts' own, that one, and the one after it.        *)
LEMMA SaveStartsRead ==
  ASSUME TypeOK, StartsAreRead, SaveCrashCounts \/ SaveStarts \/ SaveStops
  PROVE  StartsAreRead'
<1> USE DEF StartSendingPoint
<1>1. CASE PassEnds
  BY <1>1 DEF PassEnds, StartsAreRead
<1>2. CASE ~PassEnds /\ SaveCrashCounts
  <2>1. /\ pc = "saveCrashCounts" /\ pc' = "saveStarts"
        /\ UNCHANGED <<pendingStarts, analysis, starts>>
    BY <1>2 DEF SaveCrashCounts, AfterSave, pending
  <2> QED
    BY <2>1 DEF StartsAreRead
<1>3. CASE ~PassEnds /\ SaveStarts
  <2>1. /\ pc = "saveStarts" /\ pc' = "saveStops" /\ faults' = faults
        /\ UNCHANGED pendingStarts
    BY <1>3 DEF SaveStarts, AfterSave, pending
  <2>2. faults \in Nat
    BY MaxFaultsAssumption DEF TypeOK, SharedTypeOK
  <2>3. starts' = Write(starts, analysis.starts, QueuedKeys(analysis.starts))
    BY <1>3, <2>1, <2>2 DEF SaveStarts, Handled, Fault
  <2>4. pendingStarts' = starts'
    BY <2>1, <2>3 DEF StartsAreRead, AddsOnly
  <2> QED
    BY <2>1, <2>4 DEF StartsAreRead
<1>4. CASE ~PassEnds /\ SaveStops
  <2>1. /\ pc = "saveStops" /\ pc' = "verify"
        /\ UNCHANGED <<pendingStarts, starts>>
    BY <1>4 DEF SaveStops, AfterSave, pending
  <2> QED
    BY <2>1 DEF StartsAreRead
<1> QED
  BY <1>1, <1>2, <1>3, <1>4

(* Send sorts the starts it has read.                                      *)
LEMMA SendStarts ==
  ASSUME TypeOK, SenderIsFresh, StartsAreRead, Send
  PROVE  StartsAreRead'
<1> USE DEF StartSendingPoint
<1>1. /\ pc = "verify" /\ pc' = "post" /\ currentTime' = now
      /\ UNCHANGED <<pendingStarts, startMessagesToSave, starts>>
      /\ startsToSend' \subseteq DueKeys(pendingStarts, now)
      /\ startMessagesToDelete' = ExpiredKeys(pendingStarts, now)
           \cup (DueKeys(pendingStarts, now) \ startsToSend')
  BY DEF Send, pending, shared, messages
<1>2. pendingStarts = starts /\ QueuedKeys(startMessagesToSave) = {}
  BY <1>1, AbsentNotQueued
  DEF StartsAreRead, SenderIsFresh, SenderPoint, StopSendingPoint, NoStarts,
      QueuedKeys
<1>3. DOMAIN starts = Indices /\ now \in Nat
  BY DEF TypeOK, SharedTypeOK
<1>4. Sorted(starts, startsToSend', startMessagesToSave,
             startMessagesToDelete', now)
  BY <1>1, <1>2, <1>3, SendSorts
<1> QED
  BY <1>1, <1>2, <1>4 DEF StartsAreRead

(* Posting a start marks or drops it, unless the call fails.               *)
LEMMA PostStarts ==
  ASSUME TypeOK, SenderIsFresh, StartsAreRead, PostStart \/ PostStartFails
  PROVE  StartsAreRead'
<1> USE DEF StartSendingPoint
<1>1. /\ pc = "post" /\ pc' = "post"
      /\ UNCHANGED <<pendingStarts, starts, currentTime>>
  BY DEF PostStart, PostStartFails, pending, messages
<1>2. PICK index \in startsToSend :
        /\ startsToSend' = startsToSend \ {index}
        /\ \/ UNCHANGED <<startMessagesToSave, startMessagesToDelete>>
           \/ /\ startMessagesToDelete' = startMessagesToDelete \cup {index}
              /\ UNCHANGED startMessagesToSave
           \/ /\ startMessagesToSave' = [startMessagesToSave EXCEPT ![index] =
                   [pendingStarts[index] EXCEPT !.sentOn = currentTime]]
              /\ UNCHANGED startMessagesToDelete
  <2>1. CASE PostStart
    BY <2>1 DEF PostStart
  <2>2. CASE PostStartFails
    BY <2>2 DEF PostStartFails
  <2> QED
    BY <2>1, <2>2
<1>3. /\ pendingStarts = starts
      /\ Sorted(starts, startsToSend, startMessagesToSave,
                startMessagesToDelete, currentTime)
  BY <1>1 DEF StartsAreRead
<1>4. /\ starts \in [Indices -> Message]
      /\ startMessagesToSave \in [Indices -> Message]
      /\ index \in Indices
  BY DEF TypeOK, SharedTypeOK, AnalyzerTypeOK, Message
<1>5. currentTime \in Nat \ {0}
  BY <1>1 DEF SenderIsFresh, SenderPoint, StopSendingPoint, TypeOK, SharedTypeOK
<1>6. Sorted(starts, startsToSend', startMessagesToSave',
             startMessagesToDelete', currentTime)
  <2>1. /\ Sorted(starts, startsToSend \ {index}, startMessagesToSave,
                  startMessagesToDelete, currentTime)
        /\ Sorted(starts, startsToSend \ {index}, startMessagesToSave,
                  startMessagesToDelete \cup {index}, currentTime)
        /\ Sorted(starts, startsToSend \ {index},
                  [startMessagesToSave EXCEPT ![index] =
                     [starts[index] EXCEPT !.sentOn = currentTime]],
                  startMessagesToDelete, currentTime)
    BY <1>3, <1>4, <1>5, PostSorts
  <2> QED
    BY <1>2, <1>3, <2>1
<1> QED
  BY <1>1, <1>3, <1>6 DEF StartsAreRead

(* The save of the marked starts leaves alone those to be deleted.         *)
LEMMA KeepStartsRead ==
  ASSUME TypeOK, StartsAreRead, KeepStarts
  PROVE  StartsAreRead'
<1> USE DEF StartSendingPoint
<1>1. /\ pc = "keepStarts" /\ pc' = "deleteStarts"
      /\ UNCHANGED <<startMessagesToDelete, currentTime>>
  BY DEF KeepStarts, queues
<1>2. PICK kept : /\ kept \subseteq QueuedKeys(startMessagesToSave)
                  /\ starts' = Write(starts, startMessagesToSave, kept)
  BY DEF KeepStarts, Handled
<1>3. Sorted(starts, startsToSend, startMessagesToSave, startMessagesToDelete,
             currentTime)
  BY <1>1 DEF StartsAreRead
<1>4. starts \in [Indices -> Message] /\ startMessagesToDelete \subseteq Indices
  BY DEF TypeOK, SharedTypeOK, AnalyzerTypeOK, Message
<1>5. \A index \in startMessagesToDelete :
        MayLeave(starts'[index], currentTime)
  BY <1>2, <1>3, <1>4, KeepSorts
<1> QED
  BY <1>1, <1>5 DEF StartsAreRead

(* What the analyzer has read stays what is stored while no other process  *)
(* writes starts.                                                          *)
LEMMA NextStartsRead ==
  ASSUME TypeOK, SenderIsFresh, StartsAreRead, OthersWriteNone, [Next]_vars,
         NoneEvacuates'
  PROVE  StartsAreRead' /\ OthersWriteNone'
<1>1. ASSUME UNCHANGED <<pc, startView>> PROVE StartsAreRead'
  BY <1>1 DEF StartsAreRead, startView
<1>2. ASSUME pc' \in {"idle", "apps", "counts", "starts", "keepStops",
                      "deleteStops"}
      PROVE  StartsAreRead'
  BY <1>2 DEF StartsAreRead, StartSendingPoint
<1>3. CASE EvacuatorActs \/ ListenerActs
  <2>1. OthersWriteNone' /\ starts' = starts
    BY <1>3, OthersRest
  <2>2. UNCHANGED analyzerVars
    BY <1>3 DEF EvacuatorActs, ListenerActs
  <2> QED
    BY <1>1, <2>1, <2>2 DEF analyzerVars, pending, queues, startView
<1>4. CASE Environment \/ UNCHANGED vars
  <2>1. UNCHANGED <<analyzerVars, starts, evacuator, markedByListener>>
    BY <1>4
    DEF Environment, Tick, ReportHeartbeat, ListenerHears, ChangeDesired, vars,
        shared, messages, evacuatorVars, listenerVars
  <2> QED
    BY <1>1, <2>1 DEF analyzerVars, pending, queues, startView, OthersWriteNone
<1>5. CASE AnalyzerActs
  <2>1. OthersWriteNone'
    BY <1>5 DEF AnalyzerActs, evacuatorVars, listenerVars, OthersWriteNone
  <2>2. CASE \/ PassBegins \/ GetInstanceHeartbeats \/ GetCrashCounts
             \/ DeleteStarts \/ KeepStops
             \/ DeleteStops \/ PassFails \/ ProcessDies
    <3>1. pc' \in {"idle", "apps", "counts", "starts", "keepStops",
                  "deleteStops"}
      BY <2>2 DEF PassBegins, GetInstanceHeartbeats, GetCrashCounts,
                  DeleteStarts, KeepStops, DeleteStops, PassFails, ProcessDies,
                  PassEnds
    <3> QED
      BY <1>2, <2>1, <3>1
  <2>3. CASE FetchDesiredState \/ PostStop \/ PostStopFails
    <3>1. UNCHANGED <<pc, startView>>
      BY <2>3 DEF FetchDesiredState, PostStop, PostStopFails, startView,
                  pending, queues, shared, messages
    <3> QED
      BY <1>1, <2>1, <3>1
  <2>4. CASE HoldStarts \/ PostingDone
    <3>1. /\ pc = "post" /\ pc' \in StartSendingPoint
          /\ UNCHANGED <<pendingStarts, starts, startMessagesToSave,
                         startMessagesToDelete, currentTime>>
          /\ startsToSend' \subseteq startsToSend
      BY <2>4 DEF HoldStarts, PostingDone, StartSendingPoint, pending, queues,
                  shared, messages
    <3>2. Sorted(starts, startsToSend', startMessagesToSave,
                 startMessagesToDelete, currentTime)
      BY <3>1 DEF StartsAreRead, StartSendingPoint, Sorted
    <3> QED
      BY <2>1, <3>1, <3>2 DEF StartsAreRead, StartSendingPoint
  <2> QED
    BY <1>5, <2>1, <2>2, <2>3, <2>4, ReadStarts, SaveStartsRead, SendStarts,
       PostStarts, KeepStartsRead
    DEF AnalyzerActs, AnalyzerStep
<1> QED
  BY <1>3, <1>4, <1>5 DEF Next, TimeIsUp

(* Every step keeps it.                                                    *)
LEMMA NextLife == TypeOK /\ LifeInv /\ [Next]_vars => LifeInv'
BY NextFresh, NextStopsRead, NoneEvacuated, NextStartsRead DEF LifeInv

---------------------------------------------------------------------------
(* Every step moves every message on in its life.                          *)

StopsMoveOn ==
  \A guid \in Guids :
    MovesOn(stops[guid], stops'[guid], stopsAccepted[guid],
            stopsAccepted'[guid], now)

StartsMoveOn ==
  \A index \in Indices :
    MovesOn(starts[index], starts'[index], startsAccepted[index],
            startsAccepted'[index], now)

(* The stops: four kinds of step write or send one.                        *)
LEMMA NextStopsMove ==
  ASSUME TypeOK, MarksInv, SenderIsFresh, StopsAreRead, [Next]_vars
  PROVE  StopsMoveOn
<1> USE DEF StopSendingPoint, SenderPoint, SavingPoint
<1>1. ASSUME UNCHANGED <<stops, stopsAccepted>> PROVE StopsMoveOn
  BY <1>1 DEF StopsMoveOn, MovesOn
<1>2. /\ stops \in [Guids -> Message] /\ analysis.stops \in [Guids -> Message]
      /\ stopMessagesToSave \in [Guids -> Message]
      /\ NoStops \in [Guids -> Message]
      /\ stopsAccepted \in [Guids -> Seq(Acceptance)]
      /\ now \in Nat /\ stopsToSend \subseteq Guids
  BY EmptyTypes DEF TypeOK, SharedTypeOK, AnalyzerTypeOK, Message
<1>3. CASE Environment \/ EvacuatorActs \/ ListenerActs \/ UNCHANGED vars
  <2>1. UNCHANGED <<stops, stopsAccepted>>
    BY <1>3
    DEF Environment, Tick, ReportHeartbeat, ChangeDesired, EvacuatorActs,
        EvacuatorStep, HandleExited, EvacuatorSends, EvacuatorSendFails,
        EvacuatorKeeps, ListenerActs, ListenerStep, ListenerSends,
        ListenerSendFails, ListenerHolds, ListenerKeeps, ListenerGivesUp,
        ListenerDies, vars, shared, messages, accepted
  <2> QED
    BY <1>1, <2>1
<1>4. CASE SaveStops
  <2>1. PICK saved : /\ saved \subseteq QueuedKeys(analysis.stops)
                     /\ stops' = Write(stops, analysis.stops, saved)
    BY <1>4 DEF SaveStops, Handled
  <2>2. stopsAccepted' = stopsAccepted
    BY <1>4 DEF SaveStops, accepted
  <2>3. AddsOnly(stops, pendingStops, analysis.stops)
    BY <1>4 DEF SaveStops, StopsAreRead
  <2>4. \A guid \in Guids : ~HasBeenSent(analysis.stops[guid])
    BY DEF MarksInv, AnalysisIsUnmarked
  <2>5. \A guid \in Guids :
          MovesOn(stops[guid], Write(stops, analysis.stops, saved)[guid],
                  stopsAccepted[guid], stopsAccepted[guid], now)
    BY <1>2, <2>1, <2>3, <2>4, SavesMoveOn
  <2> QED
    BY <2>1, <2>2, <2>5 DEF StopsMoveOn
<1>5. CASE PostStop \/ PostStopFails
  <2>1. PICK guid \in stopsToSend :
          stopsAccepted' \in {stopsAccepted,
            Accept(stopsAccepted, guid, pendingStops[guid], currentTime)}
    BY <1>5 DEF PostStop, PostStopFails
  <2>2. pc = "post" /\ stops' = stops
    BY <1>5 DEF PostStop, PostStopFails, messages
  <2>3. /\ pendingStops = stops /\ currentTime \in Nat /\ currentTime <= now
        /\ Queued(stops[guid]) /\ IsTimeToSend(stops[guid], currentTime)
    BY <1>2, <2>2 DEF StopsAreRead, Sorted, SenderIsFresh
  <2>4. \A k \in Guids :
          MovesOn(stops[k], stops[k], stopsAccepted[k],
                  Accept(stopsAccepted, guid, stops[guid], currentTime)[k], now)
    BY <1>2, <2>3, PostsMoveOn
  <2> QED
    BY <1>1, <2>1, <2>2, <2>3, <2>4 DEF StopsMoveOn
<1>6. CASE KeepStops
  <2>1. PICK kept : /\ kept \subseteq QueuedKeys(stopMessagesToSave)
                    /\ stops' = Write(stops, stopMessagesToSave, kept)
    BY <1>6 DEF KeepStops, Handled
  <2>2. pc = "keepStops" /\ stopsAccepted' = stopsAccepted
    BY <1>6 DEF KeepStops, accepted
  <2>3. /\ currentTime \in Nat \ {0}
        /\ Sorted(stops, stopsToSend, stopMessagesToSave, stopMessagesToDelete,
                  currentTime)
    BY <1>2, <2>2 DEF StopsAreRead, SenderIsFresh
  <2>4. AllTrueMarks(stopMessagesToSave, stopsAccepted)
    BY DEF MarksInv, CopiedMarksAreTrue
  <2>5. \A guid \in Guids :
          MovesOn(stops[guid], Write(stops, stopMessagesToSave, kept)[guid],
                  stopsAccepted[guid], stopsAccepted[guid], now)
    BY <1>2, <2>1, <2>3, <2>4, KeepsMoveOn
  <2> QED
    BY <2>1, <2>2, <2>5 DEF StopsMoveOn
<1>7. CASE DeleteStops
  <2>1. PICK deleted : /\ deleted \subseteq stopMessagesToDelete
                       /\ stops' = Write(stops, NoStops, deleted)
    BY <1>7 DEF DeleteStops, Handled
  <2>2. pc = "deleteStops" /\ stopsAccepted' = stopsAccepted
    BY <1>7 DEF DeleteStops, accepted
  <2>3. /\ currentTime \in Nat /\ currentTime <= now
        /\ \A guid \in stopMessagesToDelete : MayLeave(stops[guid], currentTime)
    BY <1>2, <2>2 DEF StopsAreRead, SenderIsFresh
  <2>4. \A guid \in Guids : ~Queued(NoStops[guid])
    BY AbsentNotQueued DEF NoStops
  <2>5. \A guid \in Guids :
          MovesOn(stops[guid], Write(stops, NoStops, deleted)[guid],
                  stopsAccepted[guid], stopsAccepted[guid], now)
    BY <1>2, <2>1, <2>3, <2>4, DeletesMoveOn
  <2> QED
    BY <2>1, <2>2, <2>5 DEF StopsMoveOn
<1>8. CASE \/ PassBegins \/ FetchDesiredState \/ GetInstanceHeartbeats
           \/ GetCrashCounts
           \/ GetPendingStartMessages \/ GetPendingStopMessages \/ AnalyzeApp
           \/ SaveCrashCounts \/ SaveStarts \/ Send \/ PostStart
           \/ PostStartFails \/ HoldStarts \/ PostingDone \/ KeepStarts
           \/ DeleteStarts \/ PassFails \/ ProcessDies
  <2>1. UNCHANGED <<stops, stopsAccepted>>
    BY <1>8
    DEF PassBegins, FetchDesiredState, GetInstanceHeartbeats, GetCrashCounts,
        GetPendingStartMessages, GetPendingStopMessages, AnalyzeApp,
        SaveCrashCounts, SaveStarts, Send, PostStart, PostStartFails,
        HoldStarts, PostingDone, KeepStarts, DeleteStarts, PassFails,
        ProcessDies, shared, messages, accepted
  <2> QED
    BY <1>1, <2>1
<1> QED
  BY <1>3, <1>4, <1>5, <1>6, <1>7, <1>8
  DEF Next, AnalyzerActs, AnalyzerStep, TimeIsUp

(* The starts, while the analyzer alone writes and sends them.             *)
LEMMA NextStartsMove ==
  ASSUME TypeOK, MarksInv, SenderIsFresh, StartsAreRead, OthersWriteNone,
         NoneEvacuates', [Next]_vars
  PROVE  StartsMoveOn
<1> USE DEF StartSendingPoint, StopSendingPoint, SenderPoint
<1>1. ASSUME UNCHANGED <<starts, startsAccepted>> PROVE StartsMoveOn
  BY <1>1 DEF StartsMoveOn, MovesOn
<1>2. /\ starts \in [Indices -> Message]
      /\ analysis.starts \in [Indices -> Message]
      /\ startMessagesToSave \in [Indices -> Message]
      /\ NoStarts \in [Indices -> Message]
      /\ startsAccepted \in [Indices -> Seq(Acceptance)]
      /\ now \in Nat /\ startsToSend \subseteq Indices
  BY EmptyTypes DEF TypeOK, SharedTypeOK, AnalyzerTypeOK, Message
<1>3. CASE EvacuatorActs \/ ListenerActs
  BY <1>1, <1>3, OthersRest
<1>4. CASE Environment \/ UNCHANGED vars
  <2>1. UNCHANGED <<starts, startsAccepted>>
    BY <1>4 DEF Environment, Tick, ReportHeartbeat, ChangeDesired, vars,
                shared, messages, accepted
  <2> QED
    BY <1>1, <2>1
<1>5. CASE SaveStarts
  <2>1. PICK saved : /\ saved \subseteq QueuedKeys(analysis.starts)
                     /\ starts' = Write(starts, analysis.starts, saved)
    BY <1>5 DEF SaveStarts, Handled
  <2>2. startsAccepted' = startsAccepted
    BY <1>5 DEF SaveStarts, accepted
  <2>3. AddsOnly(starts, pendingStarts, analysis.starts)
    BY <1>5 DEF SaveStarts, StartsAreRead
  <2>4. \A index \in Indices : ~HasBeenSent(analysis.starts[index])
    BY DEF MarksInv, AnalysisIsUnmarked
  <2>5. \A index \in Indices :
          MovesOn(starts[index], Write(starts, analysis.starts, saved)[index],
                  startsAccepted[index], startsAccepted[index], now)
    BY <1>2, <2>1, <2>3, <2>4, SavesMoveOn
  <2> QED
    BY <2>1, <2>2, <2>5 DEF StartsMoveOn
<1>6. CASE PostStart \/ PostStartFails
  <2>1. PICK index \in startsToSend :
          startsAccepted' \in {startsAccepted,
            Accept(startsAccepted, index, pendingStarts[index], currentTime)}
    BY <1>6 DEF PostStart, PostStartFails
  <2>2. pc = "post" /\ starts' = starts
    BY <1>6 DEF PostStart, PostStartFails, messages
  <2>3. /\ pendingStarts = starts /\ currentTime \in Nat /\ currentTime <= now
        /\ Queued(starts[index]) /\ IsTimeToSend(starts[index], currentTime)
    BY <1>2, <2>2 DEF StartsAreRead, Sorted, SenderIsFresh
  <2>4. \A k \in Indices :
          MovesOn(starts[k], starts[k], startsAccepted[k],
                  Accept(startsAccepted, index, starts[index], currentTime)[k],
                  now)
    BY <1>2, <2>3, PostsMoveOn
  <2> QED
    BY <1>1, <2>1, <2>2, <2>3, <2>4 DEF StartsMoveOn
<1>7. CASE KeepStarts
  <2>1. PICK kept : /\ kept \subseteq QueuedKeys(startMessagesToSave)
                    /\ starts' = Write(starts, startMessagesToSave, kept)
    BY <1>7 DEF KeepStarts, Handled
  <2>2. pc = "keepStarts" /\ startsAccepted' = startsAccepted
    BY <1>7 DEF KeepStarts, accepted
  <2>3. /\ currentTime \in Nat \ {0}
        /\ Sorted(starts, startsToSend, startMessagesToSave,
                  startMessagesToDelete, currentTime)
    BY <1>2, <2>2 DEF StartsAreRead, SenderIsFresh
  <2>4. AllTrueMarks(startMessagesToSave, startsAccepted)
    BY DEF MarksInv, CopiedMarksAreTrue
  <2>5. \A index \in Indices :
          MovesOn(starts[index], Write(starts, startMessagesToSave, kept)[index],
                  startsAccepted[index], startsAccepted[index], now)
    BY <1>2, <2>1, <2>3, <2>4, KeepsMoveOn
  <2> QED
    BY <2>1, <2>2, <2>5 DEF StartsMoveOn
<1>8. CASE DeleteStarts
  <2>1. PICK deleted : /\ deleted \subseteq startMessagesToDelete
                       /\ starts' = Write(starts, NoStarts, deleted)
    BY <1>8 DEF DeleteStarts, Handled
  <2>2. pc = "deleteStarts" /\ startsAccepted' = startsAccepted
    BY <1>8 DEF DeleteStarts, accepted
  <2>3. /\ currentTime \in Nat /\ currentTime <= now
        /\ \A index \in startMessagesToDelete :
             MayLeave(starts[index], currentTime)
    BY <1>2, <2>2 DEF StartsAreRead, SenderIsFresh
  <2>4. \A index \in Indices : ~Queued(NoStarts[index])
    BY AbsentNotQueued DEF NoStarts
  <2>5. \A index \in Indices :
          MovesOn(starts[index], Write(starts, NoStarts, deleted)[index],
                  startsAccepted[index], startsAccepted[index], now)
    BY <1>2, <2>1, <2>3, <2>4, DeletesMoveOn
  <2> QED
    BY <2>1, <2>2, <2>5 DEF StartsMoveOn
<1>9. CASE \/ PassBegins \/ FetchDesiredState \/ GetInstanceHeartbeats
           \/ GetCrashCounts
           \/ GetPendingStartMessages \/ GetPendingStopMessages \/ AnalyzeApp
           \/ SaveCrashCounts \/ SaveStops \/ Send \/ HoldStarts \/ PostStop
           \/ PostStopFails \/ PostingDone \/ KeepStops \/ DeleteStops
           \/ PassFails \/ ProcessDies
  <2>1. UNCHANGED <<starts, startsAccepted>>
    BY <1>9
    DEF PassBegins, FetchDesiredState, GetInstanceHeartbeats, GetCrashCounts,
        GetPendingStartMessages, GetPendingStopMessages, AnalyzeApp,
        SaveCrashCounts, SaveStops, Send, HoldStarts, PostStop, PostStopFails,
        PostingDone, KeepStops, DeleteStops, PassFails, ProcessDies, shared,
        messages, accepted
  <2> QED
    BY <1>1, <2>1
<1> QED
  BY <1>3, <1>4, <1>5, <1>6, <1>7, <1>8, <1>9
  DEF Next, AnalyzerActs, AnalyzerStep, TimeIsUp

---------------------------------------------------------------------------
(* HealthManager implements MessageLife.                                   *)

(* Only the clock's step moves the clock, and that one writes no message.  *)
LEMMA ClockMoves ==
  ASSUME [Next]_vars
  PROVE  \/ now' = now
         \/ /\ now' = now + 1
            /\ UNCHANGED <<starts, stops, startsAccepted, stopsAccepted>>
<1>1. CASE Environment \/ UNCHANGED vars
  BY <1>1 DEF Environment, Tick, ReportHeartbeat, ChangeDesired, vars, shared,
              accepted
<1>2. CASE EvacuatorActs \/ ListenerActs
  BY <1>2
  DEF EvacuatorActs, EvacuatorStep, HandleExited, EvacuatorSends,
      EvacuatorSendFails, EvacuatorKeeps, ListenerActs, ListenerStep,
      ListenerSends, ListenerSendFails, ListenerHolds, ListenerKeeps,
      ListenerGivesUp, ListenerDies, shared
<1>3. CASE AnalyzerStep
  BY <1>3
  DEF AnalyzerStep, PassBegins, FetchDesiredState, GetInstanceHeartbeats,
      GetCrashCounts, GetPendingStartMessages, GetPendingStopMessages,
      AnalyzeApp, SaveCrashCounts, SaveStarts, SaveStops, Send, PostStart,
      PostStartFails, HoldStarts, PostStop, PostStopFails, PostingDone,
      KeepStarts, DeleteStarts, KeepStops, DeleteStops, PassFails, ProcessDies,
      shared
<1> QED
  BY <1>1, <1>2, <1>3 DEF Next, AnalyzerActs, TimeIsUp

(* The clock's step is one of MessageLife.                                 *)
LEMMA StopsTick ==
  ASSUME now' = now + 1, UNCHANGED <<stops, stopsAccepted>>
  PROVE  StopLife!Next
BY DEF StopLife!Next, StopLife!Tick, LivesOf, Posted

(* Likewise for the starts.                                                *)
LEMMA StartsTick ==
  ASSUME now' = now + 1, UNCHANGED <<starts, startsAccepted>>
  PROVE  StartLife!Next
BY DEF StartLife!Next, StartLife!Tick, LivesOf, Posted

(* So is every other, which moves each stop on.                            *)
LEMMA StopsWrite ==
  ASSUME TypeOK, TypeOK', StopsMoveOn, now' = now
  PROVE  StopLife!Next
<1> DEFINE Lives == LivesOf(stops)
           Sent == Posted(stopsAccepted)
<1>1. /\ stops \in [Guids -> Message] /\ stops' \in [Guids -> Message]
      /\ stopsAccepted \in [Guids -> Seq(Acceptance)]
      /\ stopsAccepted' \in [Guids -> Seq(Acceptance)]
      /\ now \in Nat
  BY DEF TypeOK, SharedTypeOK, Message
<1>2. ASSUME NEW guid \in Guids
      PROVE  /\ Lives[guid] = LifeOf(stops[guid])
             /\ Lives'[guid] = LifeOf(stops'[guid])
             /\ Sent[guid] = TimesOf(stopsAccepted[guid])
             /\ Sent'[guid] = TimesOf(stopsAccepted'[guid])
  BY <1>1 DEF LivesOf, Posted
<1> HIDE DEF Lives, Sent
<1>3. ASSUME NEW guid \in Guids
      PROVE  LivesOn(Lives[guid], Lives'[guid], Sent[guid], Sent'[guid], now)
  <2>1. MovesOn(stops[guid], stops'[guid], stopsAccepted[guid],
                stopsAccepted'[guid], now)
    BY DEF StopsMoveOn
  <2> QED
    BY <1>1, <1>2, <2>1, MovesLive
<1>4. ASSUME NEW guid \in Guids
      PROVE  \/ StopLife!Rests(guid) \/ StopLife!Enqueue(guid)
             \/ StopLife!Post(guid) \/ StopLife!Mark(guid)
             \/ StopLife!Leave(guid)
  BY <1>3
  DEF LivesOn, Lives, Sent, StopLife!Rests, StopLife!Enqueue, StopLife!Post,
      StopLife!Mark, StopLife!Leave, StopLife!Absent
<1> QED
  BY <1>4 DEF StopLife!Next, StopLife!Write

(* Likewise each start.                                                    *)
LEMMA StartsWrite ==
  ASSUME TypeOK, TypeOK', StartsMoveOn, now' = now
  PROVE  StartLife!Next
<1> DEFINE Lives == LivesOf(starts)
           Sent == Posted(startsAccepted)
<1>1. /\ starts \in [Indices -> Message] /\ starts' \in [Indices -> Message]
      /\ startsAccepted \in [Indices -> Seq(Acceptance)]
      /\ startsAccepted' \in [Indices -> Seq(Acceptance)]
      /\ now \in Nat
  BY DEF TypeOK, SharedTypeOK, Message
<1>2. ASSUME NEW index \in Indices
      PROVE  /\ Lives[index] = LifeOf(starts[index])
             /\ Lives'[index] = LifeOf(starts'[index])
             /\ Sent[index] = TimesOf(startsAccepted[index])
             /\ Sent'[index] = TimesOf(startsAccepted'[index])
  BY <1>1 DEF LivesOf, Posted
<1> HIDE DEF Lives, Sent
<1>3. ASSUME NEW index \in Indices
      PROVE  LivesOn(Lives[index], Lives'[index], Sent[index], Sent'[index], now)
  <2>1. MovesOn(starts[index], starts'[index], startsAccepted[index],
                startsAccepted'[index], now)
    BY DEF StartsMoveOn
  <2> QED
    BY <1>1, <1>2, <2>1, MovesLive
<1>4. ASSUME NEW index \in Indices
      PROVE  \/ StartLife!Rests(index) \/ StartLife!Enqueue(index)
             \/ StartLife!Post(index) \/ StartLife!Mark(index)
             \/ StartLife!Leave(index)
  BY <1>3
  DEF LivesOn, Lives, Sent, StartLife!Rests, StartLife!Enqueue, StartLife!Post,
      StartLife!Mark, StartLife!Leave, StartLife!Absent
<1> QED
  BY <1>4 DEF StartLife!Next, StartLife!Write

(* The stops of the health manager implement MessageLife, whatever fails   *)
(* and however late a pass writes: no stop is posted, marked, overwritten  *)
(* or deleted out of turn (analyzer.go:134-144, sender.go:209-254).        *)
THEOREM StopsRefineLife == Spec => StopsLive
<1>1. Init => StopLife!Init
  BY AbsentNotQueued
  DEF Init, SharedInit, StopLife!Init, StopLife!Absent, LivesOf, LifeOf,
      Posted, TimesOf, NoStops
<1>2. TypeOK /\ MarksInv /\ LifeInv /\ [Next]_vars =>
        [StopLife!Next]_(StopLife!vars)
  <2> SUFFICES ASSUME TypeOK, MarksInv, LifeInv, [Next]_vars
               PROVE  StopLife!Next
    OBVIOUS
  <2>1. TypeOK'
    BY NextTypeOK
  <2>2. StopsMoveOn
    BY NextStopsMove DEF LifeInv
  <2> QED
    BY <2>1, <2>2, ClockMoves, StopsTick, StopsWrite
<1>3. Spec => [](TypeOK /\ MarksInv /\ LifeInv)
  BY InitTypeOK, NextTypeOK, InitMarks, NextMarks, InitLife, NextLife, PTL
  DEF Spec
<1> QED
  BY <1>1, <1>2, <1>3, PTL DEF Spec, StopsLive, StopLife!Spec

(* So do its starts as long as none was sent for an evacuating instance    *)
(* (analyzer.go:116-132, sender.go:158-207).                               *)
THEOREM StartsRefineLife == Spec => StartsLive
<1>1. TypeOK /\ MarksInv /\ LifeInv /\ [Next]_vars =>
        [NoneEvacuates' => [StartLife!Next]_(StartLife!vars)]_vars
  <2> SUFFICES ASSUME TypeOK, MarksInv, LifeInv, [Next]_vars, NoneEvacuates'
               PROVE  StartLife!Next
    OBVIOUS
  <2>1. TypeOK'
    BY NextTypeOK
  <2>2. StartsMoveOn
    BY NoneEvacuated, NextStartsMove DEF LifeInv
  <2> QED
    BY <2>1, <2>2, ClockMoves, StartsTick, StartsWrite
<1>2. Spec => [](TypeOK /\ MarksInv /\ LifeInv)
  BY InitTypeOK, NextTypeOK, InitMarks, NextMarks, InitLife, NextLife, PTL
  DEF Spec
<1> QED
  BY <1>1, <1>2, PTL DEF Spec, StartsLive
=============================================================================
