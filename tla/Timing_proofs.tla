--------------------------- MODULE Timing_proofs ---------------------------
(***************************************************************************)
(* What starts and stops have to do with time.                             *)
(*                                                                         *)
(* First, why the Cloud Controller is not asked again for an index while   *)
(* the keep-alive of the start it accepted runs: an argument about the     *)
(* copies of a message that the analyzer's pass, its sender and the store  *)
(* hold, for any instances, indices, delays and lengths of passes.         *)
(*                                                                         *)
(* Then, for passes that keep up, why the crash count of a start that was  *)
(* sent is still there when its instance may crash again: an argument      *)
(* about how long a crashed start can wait and what a count lasts.         *)
(*                                                                         *)
(* Then why an index that stays missing is started in time: an argument    *)
(* about what becomes of the start that occupies the index's key.          *)
(*                                                                         *)
(* Last, why one of two duplicates is left running: an argument about the  *)
(* passes that fall between the times their stops are due.                 *)
(***************************************************************************)
EXTENDS HealthManager_proofs

(* Nothing has failed, and nothing has been sent but by the analyzer.      *)
Quiet == faults = 0 /\ sentByListener = 0 /\ exits = 0

OthersAreQuiet == evacuator = "idle" /\ markedByListener = NoMarks

(* What the pass has of the starts is what the store has, and what it is   *)
(* about to save.                                                          *)
ReadIsStored ==
  /\ pc \in {"stops", "analyze", "saveStops", "verify", "post", "keepStarts"} =>
       pendingStarts = starts
  /\ pc \in {"saveCrashCounts", "saveStarts"} =>
       /\ pendingStarts =
            Write(starts, analysis.starts, QueuedKeys(analysis.starts))
       /\ \A index \in QueuedKeys(analysis.starts) : ~Queued(starts[index])

LastAccepted(index) == startsAccepted[index][Len(startsAccepted[index])]

IsOver(index, time) ==
  startsAccepted[index] # <<>> =>
    LastAccepted(index).at + LastAccepted(index).keepAlive <= time

Marks(message, entry) ==
  /\ Queued(message)
  /\ message.sentOn = entry.at
  /\ message.keepAlive = entry.keepAlive

(* What the sender is about to post, to keep and to delete.                *)
SenderIsCareful ==
  /\ pc \notin {"post", "keepStarts", "deleteStarts", "keepStops",
                "deleteStops"} => startMessagesToSave = NoStarts
  /\ pc = "post" =>
       /\ startsToSend \cap startMessagesToDelete = {}
       /\ startsToSend \subseteq QueuedKeys(pendingStarts)
       /\ \A index \in startsToSend :
            /\ IsOver(index, currentTime)
            /\ ~Queued(startMessagesToSave[index])
  /\ pc \in {"post", "keepStarts", "deleteStarts"} =>
       /\ currentTime \in 1..now
       /\ \A index \in startMessagesToDelete : IsOver(index, now)
  /\ pc \in {"post", "keepStarts"} =>
       \A index \in Indices :
         Queued(startMessagesToSave[index]) =>
           /\ startsAccepted[index] # <<>>
           /\ Marks(startMessagesToSave[index], LastAccepted(index))

(* Until its keep-alive is over, a start that was accepted is in the       *)
(* store, or about to be kept there.                                       *)
AcceptedIsHeld ==
  \A index \in Indices : startsAccepted[index] # <<>> =>
    /\ LastAccepted(index).at \in 1..now
    /\ \/ IsOver(index, now)
       \/ Marks(starts[index], LastAccepted(index))
       \/ /\ pc \in {"post", "keepStarts"}
          /\ Marks(startMessagesToSave[index], LastAccepted(index))

KeepAliveInv ==
  /\ now >= 1
  /\ Quiet => /\ OthersAreQuiet
              /\ ReadIsStored
              /\ SenderIsCareful
              /\ AcceptedIsHeld
              /\ KeepAliveHonoured

(* What these say something of, but for the clock.                         *)
held == <<pc, pendingStarts, analysis, currentTime, startsToSend,
          startMessagesToSave, startMessagesToDelete, starts, startsAccepted>>

---------------------------------------------------------------------------
(* Quiet steps.                                                            *)

(* What has failed or been sent stays so.                                  *)
LEMMA QuietBefore ==
  ASSUME TypeOK, [Next]_vars, Quiet'
  PROVE  Quiet
<1>1. faults \in Nat /\ exits \in Nat /\ sentByListener \in Nat
  BY MaxFaultsAssumption, MaxExitsAssumption
  DEF TypeOK, SharedTypeOK, EvacuatorTypeOK, ListenerTypeOK
<1>2. Fault => faults' # 0
  BY <1>1 DEF Fault
<1>3. ASSUME NEW all, NEW some, Handled(all, some) PROVE faults' = 0 => faults = 0
  BY <1>2, <1>3 DEF Handled, NoFault
<1>4. CASE UNCHANGED <<faults, exits, sentByListener>>
  BY <1>4 DEF Quiet
<1>5. CASE AnalyzerActs
  <2>1. UNCHANGED <<exits, sentByListener>>
    BY <1>5 DEF AnalyzerActs, evacuatorVars, listenerVars
  <2>2. faults = 0
    BY <1>2, <1>3, <1>5
    DEF Quiet, AnalyzerActs, AnalyzerStep, PassBegins, FetchDesiredState,
        GetInstanceHeartbeats, GetCrashCounts, GetPendingStartMessages,
        GetPendingStopMessages, AnalyzeApp, SaveCrashCounts, SaveStarts,
        SaveStops, Send, PostStart, PostStartFails, HoldStarts, PostStop,
        PostStopFails, PostingDone, KeepStarts, DeleteStarts, KeepStops,
        DeleteStops, PassFails, ProcessDies, shared
  <2> QED
    BY <2>1, <2>2 DEF Quiet
<1>6. CASE EvacuatorActs
  <2>1. UNCHANGED sentByListener
    BY <1>6 DEF EvacuatorActs, listenerVars
  <2>2. faults = 0 /\ exits = 0
    BY <1>1, <1>2, <1>6
    DEF Quiet, EvacuatorActs, EvacuatorStep, HandleExited, EvacuatorSends,
        EvacuatorSendFails, EvacuatorKeeps, NoFault
  <2> QED
    BY <2>1, <2>2 DEF Quiet
<1>7. CASE ListenerActs
  <2>1. UNCHANGED exits
    BY <1>7 DEF ListenerActs, evacuatorVars
  <2>2. faults = 0 /\ sentByListener = 0
    BY <1>1, <1>2, <1>3, <1>7
    DEF Quiet, ListenerActs, ListenerStep, ListenerSends, ListenerSendFails,
        ListenerHolds, ListenerKeeps, ListenerGivesUp, ListenerDies, shared
  <2> QED
    BY <2>1, <2>2 DEF Quiet
<1> QED
  BY <1>4, <1>5, <1>6, <1>7
  DEF Next, Environment, Tick, ReportHeartbeat, ListenerHears, ChangeDesired,
      TimeIsUp, vars, shared, evacuatorVars, listenerVars

(* In a quiet step the evacuator and the listener change nothing that      *)
(* matters here.                                                           *)
LEMMA OthersChangeNothing ==
  ASSUME TypeOK, Quiet, Quiet', OthersAreQuiet, EvacuatorActs \/ ListenerActs
  PROVE  OthersAreQuiet' /\ UNCHANGED <<now, held>>
<1>1. faults' = faults /\ faults \in Nat /\ exits = 0 /\ exits' = 0
      /\ sentByListener = 0 /\ sentByListener' = 0
  BY MaxFaultsAssumption DEF Quiet, TypeOK, SharedTypeOK
<1>2. ~Fault
  BY <1>1 DEF Fault
<1>3. CASE EvacuatorActs
  BY <1>1, <1>2, <1>3
  DEF EvacuatorActs, EvacuatorStep, HandleExited, EvacuatorSends,
      EvacuatorSendFails, EvacuatorKeeps, OthersAreQuiet
<1>4. CASE ListenerActs
  <2>1. UNCHANGED <<evacuator, pc, pendingStarts, analysis, currentTime,
                    startsToSend, startMessagesToSave, startMessagesToDelete>>
    BY <1>4 DEF ListenerActs, evacuatorVars, analyzerVars, pending, queues
  <2>2. ASSUME ListenerKeeps PROVE starts' = starts
    <3>1. /\ starts \in [Indices -> PendingStartMessage]
          /\ starts' \in [Indices -> PendingStartMessage]
          /\ \A index \in Indices :
               \/ starts'[index] = starts[index]
               \/ starts'[index] \in markedByListener[index]
      BY <2>2, ListenerKeepsMarked DEF TypeOK, SharedTypeOK
    <3>2. \A index \in Indices : markedByListener[index] = {}
      BY DEF OthersAreQuiet, NoMarks
    <3>3. \A index \in Indices : starts'[index] = starts[index]
      BY <3>1, <3>2
    <3> QED
      BY <3>1, <3>3
  <2> QED
    BY <1>1, <1>2, <1>4, <2>1, <2>2
    DEF ListenerActs, ListenerStep, ListenerSends, ListenerSendFails,
        ListenerHolds, ListenerKeeps, ListenerGivesUp, ListenerDies, shared,
        messages, accepted, OthersAreQuiet, held
<1> QED
  BY <1>3, <1>4

---------------------------------------------------------------------------
(* One index at a time.                                                    *)

Parts == ReadIsStored /\ SenderIsCareful /\ AcceptedIsHeld

(* The last start accepted has numbers for its time and its keep-alive.    *)
LEMMA LastType ==
  ASSUME TypeOK, NEW index \in Indices, startsAccepted[index] # <<>>
  PROVE  /\ LastAccepted(index).at \in Nat
         /\ LastAccepted(index).keepAlive \in Int
<1>1. startsAccepted[index] \in Seq(Acceptance)
  BY DEF TypeOK, SharedTypeOK
<1>2. Len(startsAccepted[index]) \in DOMAIN startsAccepted[index]
  BY <1>1
<1>3. LastAccepted(index) \in Acceptance
  BY <1>1, <1>2 DEF LastAccepted
<1> QED
  BY <1>3 DEF Acceptance

(* What is over stays so.                                                  *)
LEMMA OverForGood ==
  ASSUME TypeOK, NEW index \in Indices, NEW time \in Nat, NEW later \in Nat,
         time <= later, IsOver(index, time)
  PROVE  IsOver(index, later)
<1> SUFFICES ASSUME startsAccepted[index] # <<>>
             PROVE  LastAccepted(index).at + LastAccepted(index).keepAlive
                      <= later
  BY DEF IsOver
<1> QED
  BY LastType DEF IsOver

(* Steps that change only the clock.                                       *)
LEMMA TimePasses ==
  ASSUME TypeOK, Parts, now' \in Nat, now' >= now, UNCHANGED held
  PROVE  Parts'
<1>1. now \in Nat
  BY DEF TypeOK, SharedTypeOK
<1>2. \A index : LastAccepted(index)' = LastAccepted(index)
  BY DEF LastAccepted, held
<1>3. ASSUME NEW index \in Indices, IsOver(index, now) PROVE IsOver(index, now')
  BY <1>1, <1>3, OverForGood
<1>4. \A index, time : IsOver(index, time)' <=> IsOver(index, time')
  BY <1>2 DEF IsOver, held
<1>5. ReadIsStored'
  BY DEF Parts, ReadIsStored, held
<1>6. SenderIsCareful'
  <2>1. startMessagesToDelete \subseteq Indices
    BY DEF TypeOK, AnalyzerTypeOK
  <2> QED
    BY <1>1, <1>2, <1>3, <1>4, <2>1 DEF Parts, SenderIsCareful, Marks, held
<1>7. AcceptedIsHeld'
  BY <1>1, <1>2, <1>3, <1>4 DEF Parts, AcceptedIsHeld, Marks, held
<1> QED
  BY <1>5, <1>6, <1>7 DEF Parts

---------------------------------------------------------------------------
(* The steps of a pass.                                                    *)

(* Steps outside the sender that do not touch what it has accepted: what   *)
(* is marked in the store must stay there.                                 *)
LEMMA OutsideParts ==
  ASSUME Parts, ReadIsStored', UNCHANGED <<now, startsAccepted>>,
         pc \notin {"post", "keepStarts"},
         pc' \notin {"post", "keepStarts", "deleteStarts"},
         pc' \in {"keepStops", "deleteStops"} \/ startMessagesToSave' = NoStarts,
         \A index \in Indices :
           \/ starts'[index] = starts[index]
           \/ ~Queued(starts[index])
           \/ IsOver(index, now)
  PROVE  Parts'
<1>1. \A index : LastAccepted(index)' = LastAccepted(index)
  BY DEF LastAccepted
<1>2. \A index, time : IsOver(index, time)' <=> IsOver(index, time')
  BY <1>1 DEF IsOver
<1>3. SenderIsCareful'
  BY DEF SenderIsCareful
<1>4. AcceptedIsHeld'
  BY <1>1, <1>2 DEF Parts, AcceptedIsHeld, Marks
<1> QED
  BY <1>3, <1>4 DEF Parts

(* The steps up to the analysis.                                           *)
LEMMA ReadingParts ==
  ASSUME TypeOK, Parts,
         \/ PassBegins \/ FetchDesiredState \/ GetInstanceHeartbeats
         \/ GetCrashCounts
         \/ GetPendingStartMessages \/ GetPendingStopMessages \/ AnalyzeApp
  PROVE  Parts'
<1>1. /\ UNCHANGED <<now, starts, startsAccepted, startMessagesToSave>>
      /\ pc \in {"idle"} \cup ReadingPoint
      /\ pc' \in ReadingPoint \cup {"saveCrashCounts"}
  BY DEF PassBegins, FetchDesiredState, GetInstanceHeartbeats, GetCrashCounts,
         GetPendingStartMessages, GetPendingStopMessages, AnalyzeApp,
         ReadingPoint, shared, messages, accepted, queues
<1>2. startMessagesToSave' = NoStarts
  BY <1>1 DEF Parts, SenderIsCareful, ReadingPoint
<1>3. CASE AnalyzeApp
  <2>1. PICK order \in Orders :
          analysis' = Analysis([app |-> app', now |-> now, order |-> order,
                                starts |-> pendingStarts,
                                stops |-> pendingStops])
    BY <1>3 DEF AnalyzeApp
  <2> DEFINE a == [app |-> app', now |-> now, order |-> order,
                   starts |-> pendingStarts, stops |-> pendingStops]
  <2>2. a.starts = pendingStarts
    OBVIOUS
  <2> HIDE DEF a
  <2>3. analysis' = Analysis(a)
    BY <2>1 DEF a
  <2>4. \A index \in Indices :
          Queued(pendingStarts[index]) => ~Queued(analysis'.starts[index])
    BY <2>2, <2>3, AnalysisAddsOnly
  <2>5. pendingStarts = starts
    BY <1>3 DEF AnalyzeApp, Parts, ReadIsStored
  <2>6. analysis' \in [starts : [Indices -> PendingStartMessage],
                       stops : [Guids -> PendingStopMessage],
                       crashCounts : [Indices -> Nat]]
    BY <1>3, ReadingTypeOK DEF TypeOK, AnalyzerTypeOK
  <2>7. QueuedKeys(analysis'.starts) \subseteq Indices
    BY <2>6 DEF QueuedKeys
  <2>8. ReadIsStored'
    BY <1>1, <1>3, <2>4, <2>5, <2>7 DEF AnalyzeApp, ReadIsStored, QueuedKeys
  <2> QED
    BY <1>1, <1>2, <2>8, OutsideParts DEF ReadingPoint
<1>4. CASE ~AnalyzeApp
  <2>1. ReadIsStored'
    BY <1>4 DEF Parts, ReadIsStored, PassBegins, FetchDesiredState,
                GetInstanceHeartbeats, GetCrashCounts, GetPendingStartMessages,
                GetPendingStopMessages, ReadingPoint, shared, messages, pending
  <2>2. pc' \in ReadingPoint
    BY <1>4 DEF PassBegins, FetchDesiredState, GetInstanceHeartbeats,
                GetCrashCounts, GetPendingStartMessages,
                GetPendingStopMessages, ReadingPoint
  <2> QED
    BY <1>1, <1>2, <2>1, <2>2, OutsideParts DEF ReadingPoint
<1> QED
  BY <1>3, <1>4

(* The three saves, none of which fails.                                   *)
LEMMA SavingParts ==
  ASSUME TypeOK, Parts, faults' = faults,
         SaveCrashCounts \/ SaveStarts \/ SaveStops
  PROVE  Parts'
<1>1. ~Fault
  BY MaxFaultsAssumption DEF Fault, TypeOK, SharedTypeOK
<1>2. /\ UNCHANGED <<now, startsAccepted, pendingStarts, analysis,
                     startMessagesToSave>>
      /\ pc \in SavingPoint
      /\ pc' \in {"saveStarts", "saveStops", "verify"}
  BY DEF SaveCrashCounts, SaveStarts, SaveStops, AfterSave, SavingPoint,
         accepted, pending, queues
<1>3. startMessagesToSave' = NoStarts
  BY <1>2 DEF Parts, SenderIsCareful, SavingPoint
<1>4. CASE SaveStarts
  <2>1. starts' = Write(starts, analysis.starts, QueuedKeys(analysis.starts))
    BY <1>1, <1>4 DEF SaveStarts, Handled
  <2>2. /\ starts \in [Indices -> PendingStartMessage]
        /\ analysis.starts \in [Indices -> PendingStartMessage]
    BY DEF TypeOK, SharedTypeOK, AnalyzerTypeOK
  <2>3. pc = "saveStarts" /\ pc' = "saveStops"
    BY <1>4 DEF SaveStarts, AfterSave
  <2>4. ReadIsStored'
    BY <1>2, <2>1, <2>3 DEF Parts, ReadIsStored
  <2>5. \A index \in Indices :
          starts'[index] = starts[index] \/ ~Queued(starts[index])
    BY <2>1, <2>2, <2>3 DEF Parts, ReadIsStored, Write
  <2> QED
    BY <1>2, <1>3, <2>3, <2>4, <2>5, OutsideParts
<1>5. CASE SaveCrashCounts \/ SaveStops
  <2>1. UNCHANGED starts
    BY <1>5 DEF SaveCrashCounts, SaveStops
  <2>2. ReadIsStored'
    BY <1>2, <1>5, <2>1
    DEF Parts, ReadIsStored, SaveCrashCounts, SaveStops, AfterSave
  <2> QED
    BY <1>2, <1>3, <2>1, <2>2, OutsideParts DEF SavingPoint
<1> QED
  BY <1>4, <1>5

(* Send: a start that is held is marked as sent, and so is not due, until  *)
(* its keep-alive is over.                                                 *)
LEMMA SendParts ==
  ASSUME TypeOK, Parts, now >= 1, Send
  PROVE  Parts'
<1>1. /\ pc = "verify" /\ pc' = "post" /\ currentTime' = now
      /\ UNCHANGED <<now, starts, startsAccepted, pendingStarts, analysis,
                     startMessagesToSave>>
  BY DEF Send, shared, messages, accepted, pending
<1>2. /\ now \in Nat
      /\ starts \in [Indices -> PendingStartMessage]
  BY DEF TypeOK, SharedTypeOK
<1>3. pendingStarts = starts /\ startMessagesToSave = NoStarts
  BY <1>1 DEF Parts, ReadIsStored, SenderIsCareful
<1>4. \A index : LastAccepted(index)' = LastAccepted(index)
  BY <1>1 DEF LastAccepted
<1>5. \A index, time : IsOver(index, time)' <=> IsOver(index, time')
  BY <1>1, <1>4 DEF IsOver
<1>6. ASSUME NEW index \in Indices, startsAccepted[index] # <<>>,
             ~IsOver(index, now)
      PROVE  ~IsTimeToSend(starts[index], now) /\ ~IsExpired(starts[index], now)
  <2>1. Marks(starts[index], LastAccepted(index)) /\ LastAccepted(index).at >= 1
    BY <1>1, <1>2, <1>6 DEF Parts, AcceptedIsHeld
  <2>2. LastAccepted(index).at + LastAccepted(index).keepAlive > now
    BY <1>2, <1>6, LastType DEF IsOver
  <2> QED
    BY <1>2, <1>6, <2>1, <2>2, LastType
    DEF Marks, IsTimeToSend, IsExpired, HasBeenSent
<1>7. ASSUME NEW index \in Indices,
             index \in DueKeys(starts, now) \cup ExpiredKeys(starts, now)
      PROVE  IsOver(index, now)
  BY <1>6, <1>7 DEF DueKeys, ExpiredKeys, IsOver
<1>8. DueKeys(starts, now) \cap ExpiredKeys(starts, now) = {}
  BY DEF DueKeys, ExpiredKeys, IsTimeToSend, IsExpired
<1>9. /\ startsToSend' \subseteq DueKeys(starts, now)
      /\ startMessagesToDelete' = ExpiredKeys(starts, now)
           \cup (DueKeys(starts, now) \ startsToSend')
  BY <1>3 DEF Send
<1>10. /\ DueKeys(starts, now) \subseteq QueuedKeys(starts)
       /\ ExpiredKeys(starts, now) \subseteq QueuedKeys(starts)
       /\ QueuedKeys(starts) \subseteq Indices
  BY <1>2 DEF DueKeys, ExpiredKeys, QueuedKeys
<1>11. SenderIsCareful'
  <2>1. \A index \in Indices : ~Queued(startMessagesToSave[index])
    BY <1>3, AbsentNotQueued DEF NoStarts
  <2> QED
    BY <1>1, <1>2, <1>3, <1>5, <1>7, <1>8, <1>9, <1>10, <2>1
    DEF SenderIsCareful
<1>12. AcceptedIsHeld'
  BY <1>1, <1>4, <1>5 DEF Parts, AcceptedIsHeld, Marks
<1>13. ReadIsStored'
  BY <1>1, <1>3 DEF ReadIsStored
<1> QED
  BY <1>11, <1>12, <1>13 DEF Parts

(* What one more acceptance makes of the last one.                         *)
LEMMA AcceptedLast ==
  ASSUME TypeOK, NEW index \in Indices, NEW message \in PendingStartMessage,
         NEW time \in Nat,
         startsAccepted' = Accept(startsAccepted, index, message, time)
  PROVE  /\ startsAccepted[index] \in Seq(Acceptance)
         /\ startsAccepted'[index] # <<>>
         /\ Len(startsAccepted'[index]) = Len(startsAccepted[index]) + 1
         /\ \A k \in 1..Len(startsAccepted[index]) :
              startsAccepted'[index][k] = startsAccepted[index][k]
         /\ LastAccepted(index)'.at = time
         /\ LastAccepted(index)'.keepAlive = message.keepAlive
         /\ \A other \in Indices \ {index} :
              startsAccepted'[other] = startsAccepted[other]
<1> DEFINE e == [at |-> time, keepAlive |-> message.keepAlive,
                 reason |-> message.reason]
<1>1. e \in Acceptance
  BY DEF Acceptance, PendingStartMessage
<1>2. startsAccepted \in [Indices -> Seq(Acceptance)]
  BY DEF TypeOK, SharedTypeOK
<1>3. startsAccepted' = [startsAccepted EXCEPT ![index] = Append(@, e)]
  BY DEF Accept
<1>4. e.at = time /\ e.keepAlive = message.keepAlive
  OBVIOUS
<1> HIDE DEF e
<1>5. startsAccepted'[index] = Append(startsAccepted[index], e)
  BY <1>2, <1>3
<1>6. /\ Len(startsAccepted'[index]) = Len(startsAccepted[index]) + 1
      /\ startsAccepted'[index][Len(startsAccepted[index]) + 1] = e
      /\ startsAccepted[index] \in Seq(Acceptance)
      /\ Len(startsAccepted[index]) \in Nat
      /\ \A k \in 1..Len(startsAccepted[index]) :
           startsAccepted'[index][k] = startsAccepted[index][k]
  BY <1>1, <1>2, <1>5
<1>7. LastAccepted(index)' = e
  BY <1>6 DEF LastAccepted
<1>8. startsAccepted'[index] # <<>>
  BY <1>6
<1> QED
  BY <1>2, <1>3, <1>4, <1>6, <1>7, <1>8

(* A start that is posted is not accepted too early.                       *)
LEMMA PostHonours ==
  ASSUME TypeOK, Parts, Quiet, KeepAliveHonoured, PostStart
  PROVE  KeepAliveHonoured'
<1>1. PICK index \in startsToSend :
        startsAccepted' =
          Accept(startsAccepted, index, pendingStarts[index], currentTime)
  BY DEF PostStart
<1>2. /\ index \in Indices /\ currentTime \in Nat
      /\ pendingStarts[index] \in PendingStartMessage
  BY DEF TypeOK, AnalyzerTypeOK
<1>3. IsOver(index, currentTime)
  BY DEF PostStart, Parts, SenderIsCareful
<1> DEFINE Apart(sent, k) == sent[k + 1].at >= sent[k].at + sent[k].keepAlive
<1> SUFFICES ASSUME NEW i \in Indices, NEW k \in 1..Len(startsAccepted'[i]) - 1
             PROVE  Apart(startsAccepted'[i], k)
  BY DEF KeepAliveHonoured
<1>4. \A j \in 1..Len(startsAccepted[i]) - 1 : Apart(startsAccepted[i], j)
  BY DEF Quiet, KeepAliveHonoured
<1>5. CASE i # index
  BY <1>1, <1>2, <1>4, <1>5, AcceptedLast
<1>6. CASE i = index
  <2> DEFINE old == startsAccepted[index]
             new == startsAccepted'[index]
  <2>1. /\ old \in Seq(Acceptance)
        /\ Len(new) = Len(old) + 1
        /\ \A j \in 1..Len(old) : new[j] = old[j]
        /\ LastAccepted(index)'.at = currentTime
    BY <1>1, <1>2, AcceptedLast
  <2>2. LastAccepted(index)' = new[Len(old) + 1]
    BY <2>1 DEF LastAccepted
  <2>3. CASE k < Len(old)
    <3>1. Len(old) \in Nat
      BY <2>1
    <3>2. k \in 1..Len(old) - 1 /\ k \in 1..Len(old) /\ k + 1 \in 1..Len(old)
      BY <2>1, <2>3, <3>1
    <3>3. new[k] = old[k] /\ new[k + 1] = old[k + 1]
      BY <2>1, <3>2
    <3> QED
      BY <1>4, <1>6, <3>2, <3>3
  <2>4. CASE k = Len(old)
    <3>1. old # <<>> /\ old[k] = LastAccepted(index) /\ k \in 1..Len(old)
      <4>1. Len(old) \in Nat /\ k \in 1..Len(old)
        BY <1>6, <2>1, <2>4
      <4> QED
        BY <2>1, <2>4, <4>1 DEF LastAccepted
    <3>2. old[k].at + old[k].keepAlive <= currentTime
      BY <1>3, <3>1 DEF IsOver
    <3>3. new[k] = old[k] /\ new[k + 1].at = currentTime
      BY <2>1, <2>2, <2>4, <3>1
    <3> QED
      BY <1>6, <3>2, <3>3
  <2>5. k \in 1..Len(old)
    BY <1>6, <2>1
  <2> QED
    BY <2>1, <2>3, <2>4, <2>5
<1> QED
  BY <1>5, <1>6

(* A start that is posted is then held by the sender, or needs not be.     *)
LEMMA PostParts ==
  ASSUME TypeOK, Parts, now >= 1, PostStart
  PROVE  Parts'
<1>1. PICK index \in startsToSend :
        /\ startsToSend' = startsToSend \ {index}
        /\ startsAccepted' =
             Accept(startsAccepted, index, pendingStarts[index], currentTime)
        /\ IF pendingStarts[index].keepAlive = 0
           THEN /\ startMessagesToDelete' = startMessagesToDelete \cup {index}
                /\ UNCHANGED startMessagesToSave
           ELSE /\ startMessagesToSave' = [startMessagesToSave EXCEPT ![index] =
                     [pendingStarts[index] EXCEPT !.sentOn = currentTime]]
                /\ UNCHANGED startMessagesToDelete
  BY DEF PostStart
<1>2. /\ pc = "post" /\ pc' = "post"
      /\ UNCHANGED <<now, starts, pendingStarts, analysis, currentTime>>
  BY DEF PostStart, messages, pending
<1>3. /\ index \in Indices /\ currentTime \in Nat /\ now \in Nat
      /\ startsToSend \subseteq Indices
      /\ startMessagesToDelete \subseteq Indices
      /\ pendingStarts \in [Indices -> PendingStartMessage]
      /\ startMessagesToSave \in [Indices -> PendingStartMessage]
  BY DEF TypeOK, SharedTypeOK, AnalyzerTypeOK
<1>4. /\ startsToSend \cap startMessagesToDelete = {}
      /\ Queued(pendingStarts[index])
      /\ ~Queued(startMessagesToSave[index])
      /\ currentTime \in 1..now
  BY <1>1, <1>2 DEF Parts, SenderIsCareful, QueuedKeys
<1>5. /\ startsAccepted'[index] # <<>>
      /\ LastAccepted(index)'.at = currentTime
      /\ LastAccepted(index)'.keepAlive = pendingStarts[index].keepAlive
      /\ \A other \in Indices \ {index} :
           startsAccepted'[other] = startsAccepted[other]
  BY <1>1, <1>3, AcceptedLast
<1>6. \A other \in Indices \ {index} :
        /\ startsAccepted'[other] = startsAccepted[other]
        /\ LastAccepted(other)' = LastAccepted(other)
        /\ \A time : IsOver(other, time)' <=> IsOver(other, time')
  BY <1>5 DEF LastAccepted, IsOver
<1>7. pendingStarts[index].keepAlive = 0 => IsOver(index, now)'
  BY <1>2, <1>4, <1>5 DEF IsOver
<1>8. pendingStarts[index].keepAlive # 0 =>
        Marks(startMessagesToSave[index], LastAccepted(index))'
  BY <1>1, <1>3, <1>4, <1>5 DEF Marks, Queued, PendingStartMessage
<1>9. \A other \in Indices \ {index} :
        startMessagesToSave'[other] = startMessagesToSave[other]
  BY <1>1, <1>3
<1>10. ReadIsStored'
  BY <1>2 DEF Parts, ReadIsStored
<1>11. SenderIsCareful'
  <2>1. /\ startsToSend' \subseteq startsToSend \ {index}
        /\ startsToSend' \cap startMessagesToDelete' = {}
    BY <1>1, <1>4
  <2>2. \A other \in startsToSend' :
          /\ IsOver(other, currentTime)'
          /\ ~Queued(startMessagesToSave[other])'
    BY <1>2, <1>3, <1>6, <1>9, <2>1 DEF Parts, SenderIsCareful
  <2>3. \A other \in startMessagesToDelete' : IsOver(other, now)'
    <3>1. index \notin startMessagesToDelete
      BY <1>1, <1>4
    <3> QED
      BY <1>1, <1>2, <1>3, <1>6, <1>7, <3>1 DEF Parts, SenderIsCareful
  <2>4. \A other \in Indices : Queued(startMessagesToSave'[other]) =>
          /\ startsAccepted'[other] # <<>>
          /\ Marks(startMessagesToSave'[other], LastAccepted(other)')
    BY <1>1, <1>2, <1>4, <1>5, <1>6, <1>8, <1>9 DEF Parts, SenderIsCareful
  <2>5. startsToSend' \subseteq QueuedKeys(pendingStarts')
    BY <1>2, <2>1 DEF Parts, SenderIsCareful
  <2> QED
    BY <1>2, <1>4, <2>1, <2>2, <2>3, <2>4, <2>5 DEF SenderIsCareful
<1>12. AcceptedIsHeld'
  <2>1. ASSUME NEW other \in Indices \ {index}, startsAccepted'[other] # <<>>
        PROVE  /\ LastAccepted(other)'.at \in 1..now
               /\ \/ IsOver(other, now)'
                  \/ Marks(starts[other], LastAccepted(other))'
                  \/ Marks(startMessagesToSave[other], LastAccepted(other))'
    BY <1>2, <1>6, <1>9, <2>1 DEF Parts, AcceptedIsHeld
  <2> QED
    BY <1>2, <1>4, <1>5, <1>7, <1>8, <2>1 DEF AcceptedIsHeld
<1> QED
  BY <1>10, <1>11, <1>12 DEF Parts

(* The rest of the sending, of which no call fails.                        *)
LEMMA RestParts ==
  ASSUME TypeOK, Parts,
         HoldStarts \/ PostStop \/ PostingDone
  PROVE  Parts'
<1>1. /\ UNCHANGED <<now, starts, startsAccepted, pendingStarts, analysis,
                     currentTime, startMessagesToSave, startMessagesToDelete>>
      /\ pc = "post" /\ pc' \in {"post", "keepStarts"}
      /\ startsToSend' \subseteq startsToSend
  BY DEF HoldStarts, PostStop, PostingDone, shared, messages, accepted,
         pending, queues
<1>2. \A index : LastAccepted(index)' = LastAccepted(index)
  BY <1>1 DEF LastAccepted
<1>3. \A index, time : IsOver(index, time)' <=> IsOver(index, time')
  BY <1>1, <1>2 DEF IsOver
<1>4. ReadIsStored'
  BY <1>1 DEF Parts, ReadIsStored
<1>5. SenderIsCareful'
  BY <1>1, <1>2, <1>3 DEF Parts, SenderIsCareful
<1>6. AcceptedIsHeld'
  BY <1>1, <1>2, <1>3 DEF Parts, AcceptedIsHeld
<1> QED
  BY <1>4, <1>5, <1>6 DEF Parts

(* The sender's saves and deletions, none of which fails.                  *)
LEMMA KeepingParts ==
  ASSUME TypeOK, Parts, faults' = faults,
         KeepStarts \/ DeleteStarts \/ KeepStops \/ DeleteStops
  PROVE  Parts'
<1>1. ~Fault
  BY MaxFaultsAssumption DEF Fault, TypeOK, SharedTypeOK
<1>2. UNCHANGED <<now, startsAccepted>>
  BY DEF KeepStarts, DeleteStarts, KeepStops, DeleteStops, accepted
<1>3. starts \in [Indices -> PendingStartMessage]
  BY DEF TypeOK, SharedTypeOK
<1>4. \A index : LastAccepted(index)' = LastAccepted(index)
  BY <1>2 DEF LastAccepted
<1>5. \A index, time : IsOver(index, time)' <=> IsOver(index, time')
  BY <1>2, <1>4 DEF IsOver
<1>6. CASE KeepStarts
  <2>1. starts' = Write(starts, startMessagesToSave,
                        QueuedKeys(startMessagesToSave))
    BY <1>1, <1>6 DEF KeepStarts, Handled
  <2>2. /\ pc = "keepStarts" /\ pc' = "deleteStarts"
        /\ UNCHANGED <<currentTime, startMessagesToSave, startMessagesToDelete>>
    BY <1>6 DEF KeepStarts, queues
  <2>3. startMessagesToSave \in [Indices -> PendingStartMessage]
    BY DEF TypeOK, AnalyzerTypeOK
  <2>4. \A index \in Indices :
          starts'[index] = IF Queued(startMessagesToSave[index])
                           THEN startMessagesToSave[index] ELSE starts[index]
    BY <1>3, <2>1, <2>3 DEF Write, QueuedKeys
  <2>5. ReadIsStored' /\ SenderIsCareful'
    BY <1>2, <1>5, <2>2 DEF Parts, ReadIsStored, SenderIsCareful
  <2>6. AcceptedIsHeld'
    BY <1>2, <1>4, <1>5, <2>2, <2>4
    DEF Parts, SenderIsCareful, AcceptedIsHeld, Marks
  <2> QED
    BY <2>5, <2>6 DEF Parts
<1>7. CASE DeleteStarts
  <2>1. starts' = Write(starts, NoStarts, startMessagesToDelete)
    BY <1>1, <1>7 DEF DeleteStarts, Handled
  <2>2. pc = "deleteStarts" /\ pc' = "keepStops"
    BY <1>7 DEF DeleteStarts
  <2>3. \A index \in Indices :
          starts'[index] = starts[index] \/ IsOver(index, now)
    BY <1>3, <2>1, <2>2 DEF Write, Parts, SenderIsCareful
  <2>4. ReadIsStored'
    BY <2>2 DEF ReadIsStored
  <2> QED
    BY <1>2, <2>2, <2>3, <2>4, OutsideParts
<1>8. CASE KeepStops \/ DeleteStops
  <2>1. UNCHANGED starts
    BY <1>8 DEF KeepStops, DeleteStops
  <2>2. /\ pc \in {"keepStops", "deleteStops"}
        /\ \/ pc' = "deleteStops"
           \/ pc' = "idle" /\ startMessagesToSave' = NoStarts
    BY <1>8 DEF KeepStops, DeleteStops, PassEnds
  <2>3. ReadIsStored'
    BY <2>2 DEF ReadIsStored
  <2> QED
    BY <1>2, <2>1, <2>2, <2>3, OutsideParts
<1> QED
  BY <1>6, <1>7, <1>8

---------------------------------------------------------------------------
(* Every step of a quiet behaviour.                                        *)

(* Every quiet step of the analyzer keeps what has been said of its pass.  *)
LEMMA AnalyzerParts ==
  ASSUME TypeOK, Quiet, Quiet', Parts, KeepAliveHonoured, now >= 1,
         AnalyzerActs
  PROVE  Parts' /\ KeepAliveHonoured' /\ now' = now
<1>1. faults' = faults /\ ~Fault
  BY DEF Quiet, Fault
<1>2. CASE PostStart
  <2>1. now' = now
    BY <1>2 DEF PostStart
  <2> QED
    BY <1>2, <2>1, PostParts, PostHonours
<1>3. CASE ~PostStart
  <2>1. UNCHANGED <<now, startsAccepted>>
    BY <1>1, <1>3
    DEF AnalyzerActs, AnalyzerStep, PassBegins, FetchDesiredState,
        GetInstanceHeartbeats, GetCrashCounts, GetPendingStartMessages,
        GetPendingStopMessages, AnalyzeApp, SaveCrashCounts, SaveStarts,
        SaveStops, Send, PostStartFails, HoldStarts, PostStop, PostStopFails,
        PostingDone, KeepStarts, DeleteStarts, KeepStops, DeleteStops,
        PassFails, ProcessDies, shared, accepted
  <2>2. KeepAliveHonoured'
    BY <2>1 DEF Quiet, KeepAliveHonoured
  <2>3. Parts'
    BY <1>1, <1>3, ReadingParts, SavingParts, SendParts, RestParts,
       KeepingParts
    DEF AnalyzerActs, AnalyzerStep, PostStartFails, PostStopFails, PassFails,
        ProcessDies
  <2> QED
    BY <2>1, <2>2, <2>3
<1> QED
  BY <1>2, <1>3

(* At the start nothing is accepted and nothing is marked.                 *)
LEMMA InitKeepAlive == Init => KeepAliveInv
<1> SUFFICES ASSUME Init PROVE KeepAliveInv
  OBVIOUS
<1>1. /\ pc = "idle" /\ now = 1 /\ startMessagesToSave = NoStarts
      /\ startsAccepted = [index \in Indices |-> <<>>]
      /\ evacuator = "idle" /\ markedByListener = NoMarks
  BY DEF Init, SharedInit, AnalyzerInit, EvacuatorInit, ListenerInit
<1>2. \A index \in Indices : startsAccepted[index] = <<>>
  BY <1>1
<1>3. KeepAliveHonoured
  BY <1>2 DEF KeepAliveHonoured
<1> QED
  BY <1>1, <1>2, <1>3
  DEF KeepAliveInv, OthersAreQuiet, ReadIsStored, SenderIsCareful,
      AcceptedIsHeld

(* Time goes on, and only a tick moves it.                                 *)
LEMMA TimeGoesOn ==
  ASSUME TypeOK, [Next]_vars
  PROVE  now' \in Nat /\ now' >= now
<1>1. now \in Nat
  BY DEF TypeOK, SharedTypeOK
<1>2. CASE Environment \/ TimeIsUp \/ UNCHANGED vars
  BY <1>1, <1>2
  DEF Environment, Tick, ReportHeartbeat, ChangeDesired, TimeIsUp, vars, shared
<1>3. CASE AnalyzerActs
  <2>1. now' = now
    BY <1>3
    DEF shared, AnalyzerActs, AnalyzerStep, PassBegins, FetchDesiredState,
        GetInstanceHeartbeats, GetCrashCounts, GetPendingStartMessages,
        GetPendingStopMessages, AnalyzeApp, SaveCrashCounts, SaveStarts,
        SaveStops, Send, PostStart, PostStartFails, HoldStarts, PostStop,
        PostStopFails, PostingDone, KeepStarts, DeleteStarts, KeepStops,
        DeleteStops, PassFails, ProcessDies
  <2> QED
    BY <1>1, <2>1
<1>4. CASE EvacuatorActs
  BY <1>1, <1>4
  DEF EvacuatorActs, EvacuatorStep, HandleExited, EvacuatorSends,
      EvacuatorSendFails, EvacuatorKeeps
<1>5. CASE ListenerActs
  BY <1>1, <1>5
  DEF ListenerActs, ListenerStep, ListenerSends, ListenerSendFails,
      ListenerHolds, ListenerKeeps, ListenerGivesUp, ListenerDies, shared
<1> QED
  BY <1>2, <1>3, <1>4, <1>5 DEF Next

(* Every step keeps the invariant.                                         *)
LEMMA NextKeepAlive == TypeOK /\ KeepAliveInv /\ [Next]_vars => KeepAliveInv'
<1> SUFFICES ASSUME TypeOK, KeepAliveInv, [Next]_vars PROVE KeepAliveInv'
  OBVIOUS
<1>1. now \in Nat /\ now >= 1
  BY DEF TypeOK, SharedTypeOK, KeepAliveInv
<1>2. now' \in Nat /\ now' >= now
  BY TimeGoesOn
<1>3. CASE ~Quiet'
  BY <1>1, <1>2, <1>3 DEF KeepAliveInv
<1>4. CASE Quiet'
  <2>1. Quiet
    BY <1>4, QuietBefore
  <2>2. OthersAreQuiet /\ Parts /\ KeepAliveHonoured
    BY <2>1 DEF KeepAliveInv, Parts
  <2>3. CASE AnalyzerActs
    <3>1. OthersAreQuiet'
      BY <2>2, <2>3
      DEF AnalyzerActs, evacuatorVars, listenerVars, OthersAreQuiet
    <3> QED
      BY <1>1, <1>4, <2>1, <2>2, <2>3, <3>1, AnalyzerParts
      DEF KeepAliveInv, Parts
  <2>4. ASSUME OthersAreQuiet', UNCHANGED held PROVE KeepAliveInv'
    <3>1. Parts'
      BY <1>2, <2>2, <2>4, TimePasses
    <3>2. KeepAliveHonoured'
      BY <2>1, <2>2, <2>4 DEF Quiet, KeepAliveHonoured, held
    <3> QED
      BY <1>1, <1>2, <2>4, <3>1, <3>2 DEF KeepAliveInv, Parts
  <2>5. CASE EvacuatorActs \/ ListenerActs
    BY <1>4, <2>1, <2>2, <2>4, <2>5, OthersChangeNothing
  <2>6. CASE Environment \/ TimeIsUp \/ UNCHANGED vars
    <3>1. /\ UNCHANGED held
          /\ UNCHANGED <<evacuator, markedByListener>>
      BY <2>6
      DEF Environment, Tick, ReportHeartbeat, ListenerHears, ChangeDesired,
          TimeIsUp, vars, shared, messages, accepted, analyzerVars, pending,
          queues, evacuatorVars, listenerVars, held
    <3> QED
      BY <2>2, <2>4, <3>1 DEF OthersAreQuiet
  <2> QED
    BY <2>3, <2>5, <2>6 DEF Next
<1> QED
  BY <1>3, <1>4

(* While nothing fails and no instance evacuates, the Cloud Controller is  *)
(* not asked for an index again before the keep-alive of the start it has  *)
(* accepted is over, however late and however long the passes are          *)
(* (pending_messages.go:91, sender.go:181-207).                            *)
THEOREM StartsAreKeptApart == Spec => []KeepAliveHonoured
<1>1. Init => TypeOK /\ KeepAliveInv
  BY InitTypeOK, InitKeepAlive
<1>2. TypeOK /\ KeepAliveInv /\ [Next]_vars => (TypeOK /\ KeepAliveInv)'
  BY NextTypeOK, NextKeepAlive
<1>3. KeepAliveInv => KeepAliveHonoured
  BY DEF KeepAliveInv, KeepAliveHonoured, Quiet
<1> QED
  BY <1>1, <1>2, <1>3, PTL DEF Spec

---------------------------------------------------------------------------
(* Passes that keep up.                                                    *)

(* Passes begin on time and take none, and two passes can send a start for *)
(* every index.                                                            *)
PassesKeepUp == PromptPasses /\ MaxIndex < 2 * SenderMessageLimit

LastPass == nextPass - PollingInterval

(* The passes keep to their times.                                         *)
OnTime ==
  /\ nextPass <= now + PollingInterval
  /\ pc = "idle" => now <= nextPass
  /\ pc # "idle" => nextPass = now + PollingInterval
  /\ pc \in {"post"} \cup KeepingPoint => currentTime = now

(* A start that was due before then and has not been sent.                 *)
Overdue(message, time) ==
  Queued(message) /\ ~HasBeenSent(message) /\ message.sendOn < time

OverdueKeys(map, time) == {index \in Indices : Overdue(map[index], time)}

(* What is overdue was read by the pass, which adds nothing overdue.       *)
OverdueIsRead ==
  /\ pc = "idle" => pendingStarts = NoStarts
  /\ pc \in {"stops", "analyze", "verify", "post", "keepStarts"}
           \cup SavingPoint =>
       \A index \in OverdueKeys(starts, LastPass) :
         pendingStarts[index] = starts[index]
  /\ pc \in {"saveCrashCounts", "saveStarts"} =>
       /\ \A index \in QueuedKeys(analysis.starts) :
            pendingStarts[index] = analysis.starts[index]
       /\ OverdueKeys(analysis.starts, LastPass) = {}

(* No more than one Send sends.                                            *)
Few(indices) == Cardinality(indices) <= SenderMessageLimit

(* Overdue starts that the pass has neither sent nor dropped.              *)
Held ==
  {index \in OverdueKeys(pendingStarts, LastPass) :
     /\ index \notin startMessagesToDelete
     /\ ~Queued(startMessagesToSave[index])}

(* Those that the pass before this one had held back.                      *)
Old == OverdueKeys(pendingStarts, LastPass - PollingInterval)

(* A pass leaves few starts overdue, and none that was due before the      *)
(* previous one.                                                           *)
WaitsAreShort ==
  /\ pc # "idle" =>
       /\ OverdueKeys(starts, LastPass - 2 * PollingInterval) = {}
       /\ OverdueKeys(pendingStarts, LastPass - 2 * PollingInterval) = {}
  /\ pc \in ReadingPoint \cup SavingPoint \cup {"verify"} =>
       /\ Few(OverdueKeys(starts, LastPass - PollingInterval))
       /\ Few(OverdueKeys(pendingStarts, LastPass - PollingInterval))
  /\ pc \in {"post", "keepStarts"} =>
       /\ Held \subseteq startsToSend \/ Few(Held)
       /\ Held \cap Old \subseteq startsToSend
  /\ pc = "deleteStarts" =>
       /\ Few(OverdueKeys(starts, LastPass) \ startMessagesToDelete)
       /\ OverdueKeys(starts, LastPass - PollingInterval)
            \subseteq startMessagesToDelete
  /\ pc \in {"idle", "keepStops", "deleteStops"} =>
       /\ Few(OverdueKeys(starts, LastPass))
       /\ OverdueKeys(starts, LastPass - PollingInterval) = {}

(* The sender, which takes the starts that are due first before the others *)
(* (sender.go:114), reaches the limit only when the old ones are sent.     *)
OldestGoFirst ==
  /\ pc \notin {"post"} \cup KeepingPoint => numberOfStartMessagesSent = 0
  /\ pc = "post" =>
       /\ numberOfStartMessagesSent + Cardinality(startsToSend) <= MaxIndex + 1
       /\ startsToSend \cap Old # {} =>
            numberOfStartMessagesSent + Cardinality(startsToSend \cap Old)
              <= SenderMessageLimit
       /\ \A index \in startsToSend :
            Queued(pendingStarts[index]) /\ ~HasBeenSent(pendingStarts[index])
  /\ pc = "keepStarts" => startsToSend = {}
  /\ \A index \in QueuedKeys(startMessagesToSave) :
       HasBeenSent(startMessagesToSave[index])

(* The other processes save starts that are due now, or have been sent.    *)
OthersHaveSent ==
  /\ evacuator = "keep" => HasBeenSent(startMessage)
  /\ \A index \in Indices : \A m \in markedByListener[index] :
       HasBeenSent(m)

Paced == OnTime /\ OverdueIsRead /\ WaitsAreShort /\ OldestGoFirst
KeepsUp == Paced /\ OthersHaveSent

(* What these say something of.                                            *)
paced == <<pc, nextPass, currentTime, starts, pendingStarts, analysis,
           startsToSend, numberOfStartMessagesSent, startMessagesToSave,
           startMessagesToDelete, evacuator, startMessage, markedByListener>>

---------------------------------------------------------------------------
(* A failure is not forgotten.                                             *)
LEMMA FaultsStay ==
  ASSUME TypeOK, [Next]_vars, faults' = 0
  PROVE  faults = 0 /\ ~Fault
<1>1. faults \in Nat
  BY MaxFaultsAssumption DEF TypeOK, SharedTypeOK
<1>2. ~Fault
  BY <1>1 DEF Fault
<1>3. ASSUME NEW all, NEW some, Handled(all, some) PROVE faults = 0
  BY <1>2, <1>3 DEF Handled, NoFault
<1>4. CASE UNCHANGED faults
  BY <1>2, <1>4
<1>5. CASE AnalyzerActs
  BY <1>2, <1>3, <1>5
  DEF AnalyzerActs, AnalyzerStep, PassBegins, FetchDesiredState,
      GetInstanceHeartbeats, GetCrashCounts, GetPendingStartMessages,
      GetPendingStopMessages, AnalyzeApp, SaveCrashCounts, SaveStarts,
      SaveStops, Send, PostStart, PostStartFails, HoldStarts, PostStop,
      PostStopFails, PostingDone, KeepStarts, DeleteStarts, KeepStops,
      DeleteStops, PassFails, ProcessDies, shared
<1>6. CASE EvacuatorActs
  BY <1>2, <1>6
  DEF EvacuatorActs, EvacuatorStep, HandleExited, EvacuatorSends,
      EvacuatorSendFails, EvacuatorKeeps, NoFault
<1>7. CASE ListenerActs
  BY <1>2, <1>3, <1>7
  DEF ListenerActs, ListenerStep, ListenerSends, ListenerSendFails,
      ListenerHolds, ListenerKeeps, ListenerGivesUp, ListenerDies, shared
<1> QED
  BY <1>2, <1>4, <1>5, <1>6, <1>7
  DEF Next, Environment, Tick, ReportHeartbeat, ChangeDesired, TimeIsUp, vars,
      shared

(* The numbers that times are made of.                                     *)
LEMMA Numbers ==
  ASSUME TypeOK
  PROVE  /\ now \in Nat /\ nextPass \in Nat /\ currentTime \in Nat
         /\ PollingInterval \in Nat \ {0} /\ MaximumBackoffDelay \in Nat
         /\ crashCounts \in [Indices -> Nat] /\ crashExpiry \in [Indices -> Nat]
         /\ starts \in [Indices -> PendingStartMessage]
         /\ pendingStarts \in [Indices -> PendingStartMessage]
         /\ startMessagesToSave \in [Indices -> PendingStartMessage]
         /\ analysis.starts \in [Indices -> PendingStartMessage]
         /\ analysis.crashCounts \in [Indices -> Nat]
         /\ startsToSend \subseteq Indices
         /\ startMessagesToDelete \subseteq Indices
         /\ numberOfStartMessagesSent \in Nat
         /\ startsAccepted \in [Indices -> Seq(Acceptance)]
BY PollingAssumption, DelaysAssumption
DEF TypeOK, SharedTypeOK, AnalyzerTypeOK

(* The times of a message.                                                 *)
LEMMA SendOnType ==
  \A message \in PendingStartMessage :
    message.sendOn \in Int /\ message.sentOn \in Int
BY DEF PendingStartMessage

(* When an accepted start was sent.                                        *)
LEMMA AcceptedType ==
  ASSUME TypeOK, NEW index \in Indices, NEW k \in DOMAIN startsAccepted[index]
  PROVE  startsAccepted[index][k].at \in Nat
<1>1. startsAccepted[index] \in Seq(Acceptance)
  BY Numbers
<1>2. startsAccepted[index][k] \in Acceptance
  BY <1>1
<1> QED
  BY <1>2 DEF Acceptance

(* Indices can be counted.                                                 *)
LEMMA IndicesAreFinite ==
  ASSUME NEW S, S \subseteq Indices
  PROVE  /\ IsFiniteSet(S)
         /\ Cardinality(S) \in 0..MaxIndex + 1
         /\ SenderMessageLimit \in Nat \ {0} /\ MaxIndex \in Nat
<1>1. MaxIndex \in Nat
  BY InstancesAssumption
<1>2. IsFiniteSet(Indices) /\ Cardinality(Indices) = MaxIndex + 1
  BY <1>1, FS_Interval DEF Indices
<1>3. IsFiniteSet(S) /\ Cardinality(S) <= MaxIndex + 1
  BY <1>2, FS_Subset
<1>4. Cardinality(S) \in Nat
  BY <1>3, FS_CardinalityType
<1> QED
  BY <1>1, <1>3, <1>4, SenderAssumption

(* Fewer are few.                                                          *)
LEMMA FewerAreFew ==
  ASSUME NEW T, T \subseteq Indices, Few(T), NEW S, S \subseteq T
  PROVE  Few(S)
<1>1. /\ IsFiniteSet(T) /\ Cardinality(T) \in 0..MaxIndex + 1
      /\ SenderMessageLimit \in Nat /\ MaxIndex \in Nat
  BY IndicesAreFinite
<1>2. S \subseteq Indices
  OBVIOUS
<1>3. Cardinality(S) \in 0..MaxIndex + 1
  BY <1>2, IndicesAreFinite
<1>4. Cardinality(S) <= Cardinality(T)
  BY <1>1, FS_Subset
<1> QED
  BY <1>1, <1>3, <1>4 DEF Few

(* No start at all is few.                                                 *)
LEMMA NoneAreFew == Few({})
BY FS_EmptySet, SenderAssumption DEF Few

(* What is overdue, in other words.                                        *)
LEMMA OverdueMeans ==
  /\ \A map, time : OverdueKeys(map, time) \subseteq Indices
  /\ \A map, other, time :
       (\A index \in Indices : Overdue(other[index], time) =>
                                 other[index] = map[index])
         => OverdueKeys(other, time) \subseteq OverdueKeys(map, time)
  /\ \A time : OverdueKeys(NoStarts, time) = {}
<1>1. \A map, time : OverdueKeys(map, time) \subseteq Indices
  BY DEF OverdueKeys
<1>2. \A map, other, time :
        (\A index \in Indices : Overdue(other[index], time) =>
                                  other[index] = map[index])
          => OverdueKeys(other, time) \subseteq OverdueKeys(map, time)
  BY DEF OverdueKeys
<1>3. \A time : OverdueKeys(NoStarts, time) = {}
  BY AbsentNotQueued DEF OverdueKeys, Overdue, NoStarts
<1> QED
  BY <1>1, <1>2, <1>3

(* What was due before a time was due before any later one.                *)
LEMMA OverdueLater ==
  ASSUME NEW map \in [Indices -> PendingStartMessage],
         NEW before \in Int, NEW time \in Int, before <= time
  PROVE  OverdueKeys(map, before) \subseteq OverdueKeys(map, time)
<1>1. \A index \in Indices : map[index].sendOn \in Int
  BY SendOnType
<1> QED
  BY <1>1 DEF OverdueKeys, Overdue

(* The times of the passes, in order.                                      *)
LEMMA PassTimes ==
  ASSUME TypeOK
  PROVE  /\ LastPass \in Int /\ LastPass - PollingInterval \in Int
         /\ LastPass - 2 * PollingInterval \in Int
         /\ LastPass - 2 * PollingInterval <= LastPass - PollingInterval
         /\ LastPass - PollingInterval <= LastPass
         /\ (pc # "idle" /\ OnTime => LastPass = now)
         /\ (OnTime => LastPass <= now)
<1>1. /\ nextPass \in Nat /\ now \in Nat
      /\ PollingInterval \in Nat \ {0} /\ PollingInterval \in Nat
  BY Numbers
<1>2. /\ pc # "idle" /\ OnTime => nextPass = now + PollingInterval
      /\ OnTime => nextPass <= now + PollingInterval
  BY DEF OnTime
<1> QED
  BY <1>1, <1>2 DEF LastPass

---------------------------------------------------------------------------
(* The passes keep up.                                                     *)

(* The clock waits for a pass that is due.                                 *)
LEMMA TickKeepsUp ==
  ASSUME PassesKeepUp, TypeOK, KeepsUp, Tick
  PROVE  KeepsUp'
<1>1. /\ pc = "idle" /\ now < nextPass /\ now' = now + 1
      /\ UNCHANGED <<pc, nextPass, currentTime, starts, pendingStarts, analysis,
                     startsToSend, numberOfStartMessagesSent,
                     startMessagesToSave, startMessagesToDelete>>
      /\ UNCHANGED <<evacuator, startMessage, markedByListener>>
  BY DEF PassesKeepUp, Tick, analyzerVars, pending, queues, evacuatorVars,
         listenerVars
<1>2. now \in Nat /\ nextPass \in Nat /\ PollingInterval \in Nat
  BY Numbers
<1>3. OnTime'
  BY <1>1, <1>2 DEF KeepsUp, Paced, OnTime, KeepingPoint
<1>4. OverdueIsRead' /\ OldestGoFirst' /\ OthersHaveSent'
  BY <1>1
  DEF KeepsUp, Paced, OverdueIsRead, OldestGoFirst, OthersHaveSent, LastPass, Old,
      OverdueKeys, Overdue, SavingPoint, KeepingPoint
<1>5. WaitsAreShort'
  BY <1>1
  DEF KeepsUp, Paced, WaitsAreShort, LastPass, OverdueKeys, Overdue, Few, ReadingPoint,
      SavingPoint
<1> QED
  BY <1>3, <1>4, <1>5 DEF KeepsUp, Paced

(* Steps that change nothing of this.                                      *)
LEMMA SameKeepsUp ==
  ASSUME KeepsUp, UNCHANGED <<now, paced>>
  PROVE  KeepsUp'
BY DEF KeepsUp, Paced, OnTime, OverdueIsRead, WaitsAreShort, OldestGoFirst,
       OthersHaveSent, LastPass, Held, Old, OverdueKeys, Overdue, Few, paced

(* Starts that are no more overdue than they were.                         *)
LEMMA LessIsOverdue ==
  ASSUME TypeOK, OnTime, WaitsAreShort, OverdueIsRead,
         UNCHANGED <<now, pc, nextPass, pendingStarts, analysis, startsToSend,
                     startMessagesToSave, startMessagesToDelete>>,
         starts' \in [Indices -> PendingStartMessage],
         \A index \in Indices : Overdue(starts'[index], LastPass) =>
                                  starts'[index] = starts[index]
  PROVE  WaitsAreShort' /\ OverdueIsRead'
<1>1. /\ LastPass' = LastPass
      /\ LastPass \in Int /\ LastPass - PollingInterval \in Int
      /\ LastPass - 2 * PollingInterval \in Int
      /\ LastPass - PollingInterval <= LastPass
      /\ LastPass - 2 * PollingInterval <= LastPass
  <2>1. LastPass' = LastPass
    BY DEF LastPass
  <2> QED
    BY <2>1, PassTimes, Numbers
<1>2. ASSUME NEW time \in Int, time <= LastPass
      PROVE  OverdueKeys(starts', time) \subseteq OverdueKeys(starts, time)
  <2> SUFFICES ASSUME NEW index \in Indices, Overdue(starts'[index], time)
               PROVE  Overdue(starts[index], time)
    BY DEF OverdueKeys
  <2>1. starts'[index].sendOn \in Int
    BY SendOnType
  <2>2. Overdue(starts'[index], LastPass)
    BY <1>1, <1>2, <2>1 DEF Overdue
  <2> QED
    BY <2>2
<1>3. ASSUME NEW time \in Int, time <= LastPass, NEW S,
             Few(OverdueKeys(starts, time) \ S)
      PROVE  Few(OverdueKeys(starts', time) \ S)
  <2>1. /\ OverdueKeys(starts, time) \ S \subseteq Indices
        /\ OverdueKeys(starts', time) \ S
             \subseteq OverdueKeys(starts, time) \ S
    BY <1>2, <1>3, OverdueMeans
  <2> QED
    BY <1>3, <2>1, FewerAreFew
<1>4. ASSUME NEW time \in Int, time <= LastPass, Few(OverdueKeys(starts, time))
      PROVE  Few(OverdueKeys(starts', time))
  BY <1>2, <1>4, OverdueMeans, FewerAreFew
<1>5. Held' = Held /\ Old' = Old
  BY <1>1 DEF Held, Old
<1>6. OverdueIsRead'
  BY <1>1, <1>2 DEF OverdueIsRead, OverdueKeys
<1>7. WaitsAreShort'
  <2> DEFINE first == LastPass - 2 * PollingInterval
             second == LastPass - PollingInterval
  <2>1. /\ OverdueKeys(starts', first) \subseteq OverdueKeys(starts, first)
        /\ OverdueKeys(starts', second) \subseteq OverdueKeys(starts, second)
        /\ Few(OverdueKeys(starts, second)) => Few(OverdueKeys(starts', second))
        /\ Few(OverdueKeys(starts, LastPass)) =>
             Few(OverdueKeys(starts', LastPass))
        /\ Few(OverdueKeys(starts, LastPass) \ startMessagesToDelete) =>
             Few(OverdueKeys(starts', LastPass) \ startMessagesToDelete)
    <3> HIDE DEF first, second
    <3>1. /\ first \in Int /\ first <= LastPass
          /\ second \in Int /\ second <= LastPass
          /\ LastPass \in Int /\ LastPass <= LastPass
      BY <1>1 DEF first, second
    <3> QED
      BY <1>2, <1>3, <1>4, <3>1
  <2>2. first' = first /\ second' = second
    BY <1>1
  <2> HIDE DEF first, second
  <2>3. /\ pc' # "idle" =>
             /\ OverdueKeys(starts', first) = {}
             /\ OverdueKeys(pendingStarts', first) = {}
        /\ pc' \in ReadingPoint \cup SavingPoint \cup {"verify"} =>
             /\ Few(OverdueKeys(starts', second))
             /\ Few(OverdueKeys(pendingStarts', second))
        /\ pc' \in {"post", "keepStarts"} =>
             /\ Held \subseteq startsToSend' \/ Few(Held)
             /\ Held \cap Old \subseteq startsToSend'
        /\ pc' = "deleteStarts" =>
             /\ Few(OverdueKeys(starts', LastPass) \ startMessagesToDelete)
             /\ OverdueKeys(starts', second) \subseteq startMessagesToDelete
        /\ pc' \in {"idle", "keepStops", "deleteStops"} =>
             /\ Few(OverdueKeys(starts', LastPass))
             /\ OverdueKeys(starts', second) = {}
    BY <2>1 DEF WaitsAreShort, first, second
  <2> QED
    BY <1>1, <1>5, <2>2, <2>3 DEF WaitsAreShort, Few, first, second
<1> QED
  BY <1>6, <1>7

(* The evacuator and the listener leave what is overdue, or replace it.    *)
LEMMA OthersKeepUp ==
  ASSUME TypeOK, KeepsUp, now >= 1, EvacuatorActs \/ ListenerActs
  PROVE  KeepsUp' /\ now' = now
<1>1. UNCHANGED <<now, pc, nextPass, currentTime, pendingStarts, analysis,
                  startsToSend, numberOfStartMessagesSent,
                  startMessagesToSave, startMessagesToDelete>>
  BY DEF EvacuatorActs, EvacuatorStep, HandleExited, EvacuatorSends,
         EvacuatorSendFails, EvacuatorKeeps, ListenerActs, ListenerStep,
         ListenerSends, ListenerSendFails, ListenerHolds, ListenerKeeps,
         ListenerGivesUp, ListenerDies, shared, analyzerVars, pending, queues
<1>2. /\ now \in Nat /\ exited \in Indices /\ evacuating \in Indices
      /\ startMessage \in PendingStartMessage
      /\ markedByListener \in [Indices -> SUBSET PendingStartMessage]
      /\ starts \in [Indices -> PendingStartMessage]
  BY DEF TypeOK, SharedTypeOK, EvacuatorTypeOK, ListenerTypeOK
<1>3. starts' \in [Indices -> PendingStartMessage]
  BY EvacuatorActsTypeOK, ListenerActsTypeOK DEF TypeOK, SharedTypeOK
<1>4. /\ ~Overdue(EvacuationStart(now), LastPass)
      /\ HasBeenSent([EvacuationStart(now) EXCEPT !.sentOn = now])
  BY <1>2, PassTimes
  DEF EvacuationStart, Overdue, HasBeenSent, KeepsUp, Paced
<1>5. ASSUME NEW index \in Indices, Overdue(starts'[index], LastPass)
      PROVE  starts'[index] = starts[index]
  <2>1. CASE \E i \in Indices : HandleExited(i)
    <3>1. PICK i \in Indices : \/ starts' = [starts EXCEPT ![i] =
                                              EvacuationStart(now)]
                               \/ starts' = starts
      BY <2>1 DEF HandleExited
    <3> QED
      BY <1>2, <1>4, <1>5, <3>1
  <2>2. CASE EvacuatorKeeps
    <3>1. /\ HasBeenSent(startMessage)
          /\ \/ starts' = [starts EXCEPT ![exited] = startMessage]
             \/ starts' = starts
      BY <2>2 DEF EvacuatorKeeps, KeepsUp, Paced, OthersHaveSent
    <3> QED
      BY <1>2, <1>5, <3>1 DEF Overdue
  <2>3. CASE ListenerKeeps
    <3>1. \/ starts'[index] = starts[index]
          \/ starts'[index] \in markedByListener[index]
      BY <2>3, ListenerKeepsMarked DEF TypeOK, SharedTypeOK
    <3> QED
      BY <1>2, <1>5, <3>1 DEF Overdue, KeepsUp, Paced, OthersHaveSent
  <2> QED
    BY <2>1, <2>2, <2>3
    DEF EvacuatorActs, EvacuatorStep, EvacuatorSends, EvacuatorSendFails,
        ListenerActs, ListenerStep, ListenerSends, ListenerSendFails,
        ListenerHolds, ListenerGivesUp, ListenerDies, messages, shared
<1>6. WaitsAreShort' /\ OverdueIsRead'
  BY <1>1, <1>3, <1>5, LessIsOverdue DEF KeepsUp, Paced
<1>7. OnTime'
  BY <1>1 DEF KeepsUp, Paced, OnTime
<1>8. OldestGoFirst'
  BY <1>1 DEF KeepsUp, Paced, OldestGoFirst, Old, OverdueKeys, LastPass
<1>9. OthersHaveSent'
  <2>1. CASE EvacuatorActs
    <3>1. markedByListener' = markedByListener
      BY <2>1 DEF EvacuatorActs, listenerVars
    <3>2. evacuator' = "keep" => EvacuatorSends
      BY <2>1 DEF EvacuatorActs, EvacuatorStep, HandleExited,
         EvacuatorSendFails, EvacuatorKeeps, EvacuatorRests
    <3>3. ASSUME EvacuatorSends PROVE HasBeenSent(startMessage')
      <4>1. startMessage' = [startMessage EXCEPT !.sentOn = now]
        BY <3>3 DEF EvacuatorSends
      <4>2. startMessage'.sentOn = now
        BY <1>2, <4>1 DEF PendingStartMessage
      <4> QED
        BY <1>2, <4>2 DEF HasBeenSent
    <3> QED
      BY <3>1, <3>2, <3>3 DEF KeepsUp, Paced, OthersHaveSent
  <2>2. CASE ListenerActs
    <3>1. UNCHANGED <<evacuator, startMessage>>
      BY <2>2 DEF ListenerActs, evacuatorVars
    <3>2. ASSUME NEW index \in Indices, NEW m \in markedByListener'[index]
          PROVE  HasBeenSent(m)
      <4>1. CASE markedByListener' = markedByListener
        BY <3>2, <4>1 DEF KeepsUp, Paced, OthersHaveSent
      <4>2. CASE ListenerSends
        BY <1>2, <1>4, <3>2, <4>2
        DEF ListenerSends, KeepsUp, Paced, OthersHaveSent
      <4>3. CASE ListenerDies
        BY <3>2, <4>3 DEF ListenerDies, NoMarks
      <4> QED
        BY <2>2, <4>1, <4>2, <4>3
        DEF ListenerActs, ListenerStep, ListenerSendFails, ListenerHolds,
            ListenerKeeps, ListenerGivesUp
    <3> QED
      BY <3>1, <3>2 DEF KeepsUp, Paced, OthersHaveSent
  <2> QED
    BY <2>1, <2>2
<1> QED
  BY <1>1, <1>6, <1>7, <1>8, <1>9 DEF KeepsUp, Paced

---------------------------------------------------------------------------
(* The steps of a pass keep up.                                            *)

(* The reads.                                                              *)
LEMMA ReadsKeepUp ==
  ASSUME TypeOK, KeepsUp,
         \/ PassBegins \/ FetchDesiredState \/ GetInstanceHeartbeats
         \/ GetCrashCounts
         \/ GetPendingStartMessages \/ GetPendingStopMessages
  PROVE  Paced'
<1>1. /\ UNCHANGED <<now, currentTime, starts, analysis, startsToSend,
                     numberOfStartMessagesSent, startMessagesToSave,
                     startMessagesToDelete>>
      /\ pc' \in ReadingPoint
      /\ pc \in ReadingPoint \cup {"idle"}
      /\ pendingStarts' \in {pendingStarts, starts}
      /\ pc \in {"stops", "analyze"} \/ pc' \in {"stops", "analyze"} =>
           \/ pendingStarts' = starts
           \/ pc \in {"stops", "analyze"} /\ pendingStarts' = pendingStarts
  BY DEF PassBegins, FetchDesiredState, GetInstanceHeartbeats, GetCrashCounts,
         GetPendingStartMessages, GetPendingStopMessages, ReadingPoint, shared,
         messages, pending, queues
<1>2. /\ now \in Nat /\ nextPass \in Nat /\ PollingInterval \in Nat \ {0}
      /\ starts \in [Indices -> PendingStartMessage]
      /\ pendingStarts \in [Indices -> PendingStartMessage]
  BY Numbers
<1>3. nextPass' = now + PollingInterval
  BY <1>1 DEF PassBegins, FetchDesiredState, GetInstanceHeartbeats,
              GetCrashCounts, GetPendingStartMessages, GetPendingStopMessages,
              ReadingPoint, KeepsUp, Paced, OnTime
<1>4. OnTime'
  BY <1>1, <1>2, <1>3 DEF OnTime, ReadingPoint, KeepingPoint
<1>5. OldestGoFirst'
  BY <1>1 DEF KeepsUp, Paced, OldestGoFirst, ReadingPoint, KeepingPoint
<1>6. CASE PassBegins
  <2>1. /\ pc = "idle" /\ pc' = "apps" /\ now = nextPass
        /\ pendingStarts' = pendingStarts
    BY <1>2, <1>6 DEF PassBegins, KeepsUp, Paced, OnTime, pending
  <2>2. pendingStarts = NoStarts
    BY <2>1 DEF KeepsUp, Paced, OverdueIsRead
  <2>3. /\ LastPass' - PollingInterval = LastPass
        /\ LastPass' - 2 * PollingInterval = LastPass - PollingInterval
    BY <1>2, <1>3, <2>1 DEF LastPass
  <2>4. \A time : OverdueKeys(pendingStarts', time) = {}
    BY <2>1, <2>2, OverdueMeans
  <2>5. /\ Few(OverdueKeys(starts, LastPass))
        /\ OverdueKeys(starts, LastPass - PollingInterval) = {}
    BY <2>1 DEF KeepsUp, Paced, WaitsAreShort
  <2>6. WaitsAreShort'
    BY <1>1, <2>1, <2>3, <2>4, <2>5, NoneAreFew
    DEF WaitsAreShort, Few
  <2>7. OverdueIsRead'
    BY <1>1, <2>1 DEF OverdueIsRead, SavingPoint
  <2> QED
    BY <1>4, <1>5, <2>6, <2>7 DEF Paced
<1>7. CASE ~PassBegins
  <2>1. pc # "idle" /\ pc \in ReadingPoint /\ nextPass' = nextPass
    BY <1>7 DEF FetchDesiredState, GetInstanceHeartbeats, GetCrashCounts,
                GetPendingStartMessages, GetPendingStopMessages, ReadingPoint
  <2>2. LastPass' = LastPass
    BY <2>1 DEF LastPass
  <2>3. OverdueIsRead'
    BY <1>1, <2>1, <2>2
    DEF KeepsUp, Paced, OverdueIsRead, ReadingPoint, SavingPoint, OverdueKeys
  <2>4. WaitsAreShort'
    BY <1>1, <2>1, <2>2
    DEF KeepsUp, Paced, WaitsAreShort, Few, ReadingPoint, SavingPoint
  <2> QED
    BY <1>4, <1>5, <2>3, <2>4 DEF Paced
<1> QED
  BY <1>6, <1>7

(* What the pass knows of an analysis it has just made.                    *)
LEMMA AnalysisMade ==
  ASSUME TypeOK, AnalyzeApp
  PROVE  /\ app' \in App
         /\ analysis'.starts \in [Indices -> PendingStartMessage]
         /\ \E a : /\ a.app = app' /\ a.now = now /\ a.starts = pendingStarts
                   /\ analysis' = Analysis(a)
                   /\ \A index \in Indices :
                        analysis'.starts[index] = NewStart(a, index)
         /\ \A index \in Indices :
              /\ Queued(pendingStarts[index]) =>
                   ~Queued(analysis'.starts[index])
              /\ pendingStarts'[index] = IF Queued(analysis'.starts[index])
                                         THEN analysis'.starts[index]
                                         ELSE pendingStarts[index]
<1>1. PICK order \in Orders :
        analysis' = Analysis([app |-> app', now |-> now, order |-> order,
                              starts |-> pendingStarts, stops |-> pendingStops])
  BY DEF AnalyzeApp
<1> DEFINE a == [app |-> app', now |-> now, order |-> order,
                 starts |-> pendingStarts, stops |-> pendingStops]
<1>2. a.starts = pendingStarts /\ a.now = now /\ a.app = app'
  OBVIOUS
<1> HIDE DEF a
<1>3. analysis' = Analysis(a)
  BY <1>1 DEF a
<1>4. /\ analysis'.starts \in [Indices -> PendingStartMessage]
      /\ app' \in App
  BY ReadingTypeOK DEF TypeOK, AnalyzerTypeOK
<1>5. \A index \in Indices :
        Queued(pendingStarts[index]) => ~Queued(analysis'.starts[index])
  BY <1>2, <1>3, AnalysisAddsOnly
<1>6. \A index \in Indices :
        pendingStarts'[index] = IF Queued(analysis'.starts[index])
                                THEN analysis'.starts[index]
                                ELSE pendingStarts[index]
  BY <1>4, Numbers DEF AnalyzeApp, Write, QueuedKeys
<1>7. \A index \in Indices : analysis'.starts[index] = NewStart(a, index)
  BY <1>3 DEF Analysis, NewStarts
<1> QED
  BY <1>2, <1>3, <1>4, <1>5, <1>6, <1>7

(* The analysis makes no start that is due already.                        *)
LEMMA AnalysisKeepsUp ==
  ASSUME PowersOfTwo, TypeOK, KeepsUp, AnalyzeApp
  PROVE  Paced'
<1>1. /\ pc = "analyze" /\ pc' = "saveCrashCounts"
      /\ UNCHANGED <<now, nextPass, currentTime, starts, startsToSend,
                     numberOfStartMessagesSent, startMessagesToSave,
                     startMessagesToDelete>>
  BY DEF AnalyzeApp, shared, messages, queues
<1>2. /\ now \in Nat /\ PollingInterval \in Nat \ {0}
      /\ MaximumBackoffDelay \in Nat /\ GracePeriod \in Nat
      /\ LastPass = now /\ LastPass' = LastPass
  BY <1>1, PassTimes, Numbers, DelaysAssumption DEF KeepsUp, Paced, LastPass
<1>3. PICK a : /\ a.app = app' /\ a.now = now
               /\ \A index \in Indices :
                    analysis'.starts[index] = NewStart(a, index)
  BY AnalysisMade
<1>4. ASSUME NEW index \in Indices
      PROVE  ~Overdue(analysis'.starts[index], LastPass)
  BY <1>2, <1>3, AnalysisMade, NewStartTimes DEF Overdue
<1>5. \A index \in Indices :
        /\ Queued(pendingStarts[index]) => ~Queued(analysis'.starts[index])
        /\ pendingStarts'[index] = IF Queued(analysis'.starts[index])
                                   THEN analysis'.starts[index]
                                   ELSE pendingStarts[index]
  BY AnalysisMade
<1>6. ASSUME NEW time \in Int, time <= LastPass
      PROVE  OverdueKeys(pendingStarts', time)
               \subseteq OverdueKeys(pendingStarts, time)
  <2> SUFFICES ASSUME NEW index \in Indices,
                      Overdue(pendingStarts'[index], time)
               PROVE  Overdue(pendingStarts[index], time)
    BY DEF OverdueKeys
  <2>1. CASE pendingStarts'[index] = analysis'.starts[index]
    <3>1. analysis'.starts[index].sendOn \in Int
      BY AnalysisMade, SendOnType
    <3> QED
      BY <1>2, <1>4, <1>6, <2>1, <3>1 DEF Overdue
  <2> QED
    BY <1>5, <2>1
<1>7. OnTime' /\ OldestGoFirst'
  BY <1>1 DEF KeepsUp, Paced, OnTime, OldestGoFirst, KeepingPoint
<1>8. OverdueIsRead'
  <2>1. \A index \in OverdueKeys(starts, LastPass) :
          pendingStarts'[index] = starts[index]
    BY <1>1, <1>5
    DEF KeepsUp, Paced, OverdueIsRead, OverdueKeys, Overdue
  <2>2. \A index \in QueuedKeys(analysis'.starts) :
          pendingStarts'[index] = analysis'.starts[index]
    BY <1>5, AnalysisMade DEF QueuedKeys
  <2>3. OverdueKeys(analysis'.starts, LastPass) = {}
    BY <1>4 DEF OverdueKeys
  <2> QED
    BY <1>1, <1>2, <2>1, <2>2, <2>3 DEF OverdueIsRead
<1>9. WaitsAreShort'
  <2> DEFINE first == LastPass - 2 * PollingInterval
             second == LastPass - PollingInterval
  <2>1. /\ first \in Int /\ first <= LastPass
        /\ second \in Int /\ second <= LastPass
    BY <1>2
  <2>2. first' = first /\ second' = second
    BY <1>2
  <2>3. /\ OverdueKeys(starts, first) = {}
        /\ OverdueKeys(pendingStarts, first) = {}
        /\ Few(OverdueKeys(starts, second))
        /\ Few(OverdueKeys(pendingStarts, second))
    BY <1>1 DEF KeepsUp, Paced, WaitsAreShort, ReadingPoint
  <2> HIDE DEF first, second
  <2>4. /\ OverdueKeys(pendingStarts', first) = {}
        /\ Few(OverdueKeys(pendingStarts', second))
    BY <1>6, <2>1, <2>3, OverdueMeans, FewerAreFew
  <2> QED
    BY <1>1, <2>2, <2>3, <2>4
    DEF WaitsAreShort, Few, first, second
<1> QED
  BY <1>7, <1>8, <1>9 DEF Paced

(* The saves, none of which fails.                                         *)
LEMMA SavesKeepUp ==
  ASSUME TypeOK, KeepsUp, faults' = faults, ~Fault,
         SaveCrashCounts \/ SaveStarts \/ SaveStops
  PROVE  Paced'
<1>1. /\ UNCHANGED <<now, nextPass, currentTime, pendingStarts, analysis,
                     startsToSend, numberOfStartMessagesSent,
                     startMessagesToSave, startMessagesToDelete>>
      /\ pc \in SavingPoint
      /\ pc' \in {"saveStarts", "saveStops", "verify"}
      /\ pc' = "saveStarts" => pc = "saveCrashCounts"
  BY DEF SaveCrashCounts, SaveStarts, SaveStops, AfterSave, SavingPoint,
         pending, queues
<1>2. /\ LastPass' = LastPass /\ LastPass \in Int
      /\ LastPass - PollingInterval \in Int
      /\ LastPass - 2 * PollingInterval \in Int
      /\ LastPass - PollingInterval <= LastPass
      /\ LastPass - 2 * PollingInterval <= LastPass
      /\ starts \in [Indices -> PendingStartMessage]
      /\ analysis.starts \in [Indices -> PendingStartMessage]
  <2>1. LastPass' = LastPass
    BY <1>1 DEF LastPass
  <2> QED
    BY <2>1, PassTimes, Numbers
<1>3. ASSUME NEW index \in Indices, Overdue(starts'[index], LastPass)
      PROVE  starts'[index] = starts[index]
  <2>1. CASE SaveStarts
    <3>1. starts' = Write(starts, analysis.starts, QueuedKeys(analysis.starts))
      BY <2>1 DEF SaveStarts, Handled
    <3>2. pc = "saveStarts"
      BY <2>1 DEF SaveStarts
    <3> QED
      BY <1>2, <1>3, <3>1, <3>2
      DEF KeepsUp, Paced, OverdueIsRead, OverdueKeys, Write
  <2> QED
    BY <2>1 DEF SaveCrashCounts, SaveStops
<1>4. ASSUME NEW time \in Int, time <= LastPass
      PROVE  OverdueKeys(starts', time) \subseteq OverdueKeys(starts, time)
  <2> SUFFICES ASSUME NEW index \in Indices, Overdue(starts'[index], time)
               PROVE  Overdue(starts[index], time)
    BY DEF OverdueKeys
  <2>1. starts'[index].sendOn \in Int
    BY SavingTypeOK, SendOnType DEF TypeOK, SharedTypeOK
  <2>2. Overdue(starts'[index], LastPass)
    BY <1>2, <1>4, <2>1 DEF Overdue
  <2> QED
    BY <1>3, <2>2
<1>5. OnTime' /\ OldestGoFirst'
  BY <1>1
  DEF KeepsUp, Paced, OnTime, OldestGoFirst, SavingPoint, KeepingPoint
<1>6. OverdueIsRead'
  <2>1. \A index \in OverdueKeys(starts', LastPass) :
          pendingStarts[index] = starts'[index]
    BY <1>1, <1>2, <1>3
    DEF KeepsUp, Paced, OverdueIsRead, OverdueKeys
  <2> QED
    BY <1>1, <1>2, <2>1 DEF KeepsUp, Paced, OverdueIsRead
<1>7. WaitsAreShort'
  <2> DEFINE first == LastPass - 2 * PollingInterval
             second == LastPass - PollingInterval
  <2>1. first' = first /\ second' = second
    BY <1>1, <1>2
  <2>2. /\ OverdueKeys(starts, first) = {}
        /\ OverdueKeys(pendingStarts, first) = {}
        /\ Few(OverdueKeys(starts, second))
        /\ Few(OverdueKeys(pendingStarts, second))
    BY <1>1 DEF KeepsUp, Paced, WaitsAreShort, SavingPoint
  <2>3. /\ first \in Int /\ first <= LastPass
        /\ second \in Int /\ second <= LastPass
    BY <1>2
  <2> HIDE DEF first, second
  <2>4. /\ OverdueKeys(starts', first) = {}
        /\ Few(OverdueKeys(starts', second))
    BY <1>4, <2>2, <2>3, OverdueMeans, FewerAreFew
  <2> QED
    BY <1>1, <2>1, <2>2, <2>4 DEF WaitsAreShort, Few, first, second
<1> QED
  BY <1>5, <1>6, <1>7 DEF Paced

(* Send: what is overdue is to be sent or dropped.                         *)
LEMMA SendKeepsUp ==
  ASSUME TypeOK, KeepsUp, Send
  PROVE  Paced'
<1>1. /\ pc = "verify" /\ pc' = "post" /\ currentTime' = now
      /\ UNCHANGED <<now, nextPass, starts, pendingStarts, analysis,
                     numberOfStartMessagesSent, startMessagesToSave>>
  BY DEF Send, shared, messages, pending
<1>2. /\ now \in Nat /\ PollingInterval \in Nat \ {0}
      /\ pendingStarts \in [Indices -> PendingStartMessage]
      /\ LastPass = now /\ LastPass' = LastPass
      /\ numberOfStartMessagesSent = 0
  BY <1>1, PassTimes, Numbers
  DEF KeepsUp, Paced, LastPass, OldestGoFirst, KeepingPoint
<1>3. /\ startsToSend' \subseteq DueKeys(pendingStarts, now)
      /\ DueKeys(pendingStarts, now)
           \subseteq startsToSend' \cup startMessagesToDelete'
      /\ DueKeys(pendingStarts, now) \subseteq Indices
  BY <1>2 DEF Send, DueKeys, QueuedKeys
<1>4. OverdueKeys(pendingStarts, LastPass) \subseteq DueKeys(pendingStarts, now)
  <2>1. \A index \in Indices : pendingStarts[index].sendOn \in Int
    BY <1>2, SendOnType
  <2> QED
    BY <1>2, <2>1
    DEF OverdueKeys, Overdue, DueKeys, QueuedKeys, IsTimeToSend
<1>5. OnTime'
  BY <1>1 DEF KeepsUp, Paced, OnTime
<1>6. OverdueIsRead'
  BY <1>1, <1>2 DEF KeepsUp, Paced, OverdueIsRead, SavingPoint
<1>7. Held' \subseteq startsToSend'
  <2>1. ASSUME NEW index \in Held' PROVE index \in startsToSend'
    <3>1. /\ index \in OverdueKeys(pendingStarts, LastPass)
          /\ index \notin startMessagesToDelete'
      BY <1>1, <1>2, <2>1 DEF Held
    <3> QED
      BY <1>3, <1>4, <3>1
  <2> QED
    BY <2>1
<1>8. WaitsAreShort'
  <2>1. Held' \cap Old' \subseteq startsToSend'
    BY <1>7
  <2> QED
    BY <1>1, <1>2, <1>7, <2>1
    DEF KeepsUp, Paced, WaitsAreShort, ReadingPoint, SavingPoint
<1>9. OldestGoFirst'
  <2>1. startsToSend' \subseteq Indices
    BY <1>3
  <2>2. Cardinality(startsToSend') \in 0..MaxIndex + 1 /\ MaxIndex \in Nat
    BY <2>1, IndicesAreFinite
  <2>3. Few(Old)
    BY <1>1 DEF KeepsUp, Paced, WaitsAreShort, Old
  <2>4. Old' = Old /\ Old \subseteq Indices
    BY <1>1, <1>2, OverdueMeans DEF Old
  <2>5. Few(startsToSend' \cap Old)
    BY <2>3, <2>4, FewerAreFew
  <2>6. Cardinality(startsToSend' \cap Old) \in Nat
        /\ SenderMessageLimit \in Nat
    <3> DEFINE S == startsToSend' \cap Old
    <3>1. S \subseteq Indices
      BY <2>4
    <3> HIDE DEF S
    <3>2. Cardinality(S) \in 0..MaxIndex + 1 /\ SenderMessageLimit \in Nat
      BY <3>1, IndicesAreFinite
    <3> QED
      BY <2>2, <3>2 DEF S
  <2>7. \A index \in startsToSend' :
          Queued(pendingStarts[index]) /\ ~HasBeenSent(pendingStarts[index])
    BY <1>3 DEF DueKeys, QueuedKeys, IsTimeToSend
  <2>8. \A index \in QueuedKeys(startMessagesToSave) :
          HasBeenSent(startMessagesToSave[index])
    BY DEF KeepsUp, Paced, OldestGoFirst
  <2>9. 0 + Cardinality(startsToSend') <= MaxIndex + 1
    BY <2>2
  <2>10. 0 + Cardinality(startsToSend' \cap Old) <= SenderMessageLimit
    BY <2>5, <2>6 DEF Few
  <2> QED
    BY <1>1, <1>2, <2>4, <2>7, <2>8, <2>9, <2>10 DEF OldestGoFirst, KeepingPoint
<1> QED
  BY <1>5, <1>6, <1>8, <1>9 DEF Paced

(* One start less is to be sent.                                           *)
LEMMA OneLess ==
  ASSUME NEW S, S \subseteq Indices, NEW index \in S
  PROVE  /\ Cardinality(S \ {index}) = Cardinality(S) - 1
         /\ Cardinality(S) \in Nat
BY IndicesAreFinite, FS_RemoveElement

(* A start is posted, one of the old ones if there are any.                *)
LEMMA PostKeepsUp ==
  ASSUME TypeOK, KeepsUp, now >= 1, PostStart
  PROVE  Paced'
<1>1. PICK index \in startsToSend :
        /\ IsNextStart(index)
        /\ startsToSend' = startsToSend \ {index}
        /\ IF pendingStarts[index].keepAlive = 0
           THEN /\ startMessagesToDelete' = startMessagesToDelete \cup {index}
                /\ UNCHANGED startMessagesToSave
           ELSE /\ startMessagesToSave' = [startMessagesToSave EXCEPT ![index] =
                     [pendingStarts[index] EXCEPT !.sentOn = currentTime]]
                /\ UNCHANGED startMessagesToDelete
  BY DEF PostStart
<1>2. /\ pc = "post" /\ pc' = "post"
      /\ numberOfStartMessagesSent' = numberOfStartMessagesSent + 1
      /\ UNCHANGED <<now, nextPass, starts, pendingStarts, analysis,
                     currentTime>>
  BY DEF PostStart, messages, pending
<1>3. /\ now \in Nat /\ currentTime = now
      /\ index \in Indices /\ startsToSend \subseteq Indices
      /\ numberOfStartMessagesSent \in Nat
      /\ pendingStarts \in [Indices -> PendingStartMessage]
      /\ startMessagesToSave \in [Indices -> PendingStartMessage]
      /\ LastPass' = LastPass /\ Old' = Old
      /\ LastPass - PollingInterval \in Int
  <2>1. LastPass' = LastPass
    BY <1>2 DEF LastPass
  <2> QED
    BY <1>2, <2>1, Numbers, PassTimes DEF KeepsUp, Paced, OnTime, Old
<1>4. /\ Queued(pendingStarts[index]) /\ ~HasBeenSent(pendingStarts[index])
      /\ numberOfStartMessagesSent + Cardinality(startsToSend) <= MaxIndex + 1
      /\ startsToSend \cap Old # {} =>
           numberOfStartMessagesSent + Cardinality(startsToSend \cap Old)
             <= SenderMessageLimit
      /\ Held \subseteq startsToSend \/ Few(Held)
      /\ Held \cap Old \subseteq startsToSend
  BY <1>2 DEF KeepsUp, Paced, OldestGoFirst, WaitsAreShort
<1> DEFINE marked == [pendingStarts[index] EXCEPT !.sentOn = currentTime]
<1>5. Queued(marked) /\ HasBeenSent(marked)
  <2>1. marked.reason = pendingStarts[index].reason /\ marked.sentOn = now
    BY <1>3 DEF PendingStartMessage
  <2> HIDE DEF marked
  <2>2. Queued(marked)
    BY <1>4, <2>1 DEF Queued
  <2>3. now # 0
    BY <1>3
  <2> QED
    BY <2>1, <2>2, <2>3 DEF HasBeenSent
<1>6. \A i \in Indices :
        \/ startMessagesToSave'[i] = startMessagesToSave[i]
        \/ i = index /\ startMessagesToSave'[i] = marked
  BY <1>1, <1>3
<1>7. \/ index \in startMessagesToDelete'
      \/ Queued(startMessagesToSave'[index])
  <2> HIDE DEF marked
  <2>1. CASE pendingStarts[index].keepAlive = 0
    BY <1>1, <2>1
  <2>2. CASE pendingStarts[index].keepAlive # 0
    <3>1. startMessagesToSave' = [startMessagesToSave EXCEPT ![index] = marked]
      BY <1>1, <2>2 DEF marked
    <3> QED
      BY <1>3, <1>5, <3>1
  <2> QED
    BY <2>1, <2>2
<1> HIDE DEF marked
<1>8. Held' \subseteq Held \ {index}
  <2>1. startMessagesToDelete \subseteq startMessagesToDelete'
    BY <1>1
  <2> SUFFICES ASSUME NEW i \in Held' PROVE i \in Held /\ i # index
    OBVIOUS
  <2>2. /\ i \in OverdueKeys(pendingStarts, LastPass)
        /\ i \notin startMessagesToDelete'
        /\ ~Queued(startMessagesToSave'[i])
    BY <1>2, <1>3 DEF Held
  <2>3. i \in Indices
    BY <2>2, OverdueMeans
  <2>4. ~Queued(startMessagesToSave[i])
    BY <1>5, <1>6, <2>2, <2>3
  <2> QED
    BY <1>7, <2>1, <2>2, <2>4 DEF Held
<1>9. startsToSend \cap Old # {} => index \in Old
  <2> SUFFICES ASSUME NEW old \in startsToSend \cap Old PROVE index \in Old
    OBVIOUS
  <2>1. pendingStarts[index].sendOn <= pendingStarts[old].sendOn
    BY <1>1 DEF IsNextStart
  <2>2. pendingStarts[old].sendOn < LastPass - PollingInterval
    BY DEF Old, OverdueKeys, Overdue
  <2>3. old \in Indices
    BY OverdueMeans DEF Old
  <2>4. pendingStarts[index].sendOn \in Int /\ pendingStarts[old].sendOn \in Int
    BY <1>3, <2>3, SendOnType
  <2> QED
    BY <1>3, <1>4, <2>1, <2>2, <2>4 DEF Old, OverdueKeys, Overdue
<1>10. OnTime'
  BY <1>2 DEF KeepsUp, Paced, OnTime
<1>11. OverdueIsRead'
  BY <1>2, <1>3 DEF KeepsUp, Paced, OverdueIsRead, SavingPoint
<1>12. WaitsAreShort'
  <2>1. Held' \subseteq startsToSend' \/ Few(Held')
    <3>1. Held \subseteq Indices
      BY OverdueMeans DEF Held
    <3>2. CASE Few(Held)
      BY <1>8, <3>1, <3>2, FewerAreFew
    <3> QED
      BY <1>1, <1>4, <1>8, <3>2
  <2>2. Held' \cap Old' \subseteq startsToSend'
    BY <1>1, <1>3, <1>4, <1>8
  <2> QED
    BY <1>2, <1>3, <2>1, <2>2
    DEF KeepsUp, Paced, WaitsAreShort, Few, ReadingPoint, SavingPoint
<1>13. OldestGoFirst'
  <2>1. /\ Cardinality(startsToSend') = Cardinality(startsToSend) - 1
        /\ Cardinality(startsToSend) \in Nat /\ MaxIndex \in Nat
        /\ SenderMessageLimit \in Nat
    BY <1>1, <1>3, OneLess, IndicesAreFinite
  <2>2. numberOfStartMessagesSent' + Cardinality(startsToSend') <= MaxIndex + 1
    BY <1>2, <1>3, <1>4, <2>1
  <2>3. ASSUME startsToSend' \cap Old # {}
        PROVE  numberOfStartMessagesSent' + Cardinality(startsToSend' \cap Old)
                 <= SenderMessageLimit
    <3>1. startsToSend \cap Old # {}
      BY <1>1, <2>3
    <3>2. index \in startsToSend \cap Old
      BY <1>9, <3>1
    <3>3. startsToSend' \cap Old = (startsToSend \cap Old) \ {index}
      BY <1>1
    <3>4. /\ Cardinality(startsToSend' \cap Old)
               = Cardinality(startsToSend \cap Old) - 1
          /\ Cardinality(startsToSend \cap Old) \in Nat
      <4> DEFINE S == startsToSend \cap Old
      <4>1. S \subseteq Indices /\ index \in S
        BY <1>3, <3>2
      <4> HIDE DEF S
      <4>2. Cardinality(S \ {index}) = Cardinality(S) - 1
            /\ Cardinality(S) \in Nat
        BY <4>1, OneLess
      <4> QED
        BY <3>3, <4>2 DEF S
    <3> QED
      BY <1>2, <1>3, <1>4, <2>1, <3>1, <3>4
  <2>4. \A i \in startsToSend' :
          Queued(pendingStarts[i]) /\ ~HasBeenSent(pendingStarts[i])
    BY <1>1, <1>2 DEF KeepsUp, Paced, OldestGoFirst
  <2>5. \A i \in QueuedKeys(startMessagesToSave') :
          HasBeenSent(startMessagesToSave'[i])
    <3> SUFFICES ASSUME NEW i \in QueuedKeys(startMessagesToSave')
                 PROVE  HasBeenSent(startMessagesToSave'[i])
      OBVIOUS
    <3>1. i \in Indices /\ Queued(startMessagesToSave'[i])
      BY <1>1, <1>3 DEF QueuedKeys
    <3>2. CASE startMessagesToSave'[i] = startMessagesToSave[i]
      BY <1>3, <3>1, <3>2 DEF KeepsUp, Paced, OldestGoFirst, QueuedKeys
    <3> QED
      BY <1>5, <1>6, <3>1, <3>2
  <2> QED
    BY <1>2, <1>3, <2>2, <2>3, <2>4, <2>5 DEF OldestGoFirst, KeepingPoint
<1> QED
  BY <1>10, <1>11, <1>12, <1>13 DEF Paced

(* The starts over the limit are held back: few, and none of the old ones. *)
LEMMA HoldKeepsUp ==
  ASSUME PassesKeepUp, TypeOK, KeepsUp, HoldStarts
  PROVE  Paced'
<1>1. /\ pc = "post" /\ pc' = "post" /\ startsToSend' = {}
      /\ SenderMessageLimit <= numberOfStartMessagesSent
      /\ UNCHANGED <<now, nextPass, starts, pendingStarts, analysis,
                     currentTime, numberOfStartMessagesSent,
                     startMessagesToSave, startMessagesToDelete>>
  BY IndicesAreFinite, Numbers DEF HoldStarts, shared, messages, pending
<1>2. /\ LastPass' = LastPass /\ Held' = Held /\ Old' = Old
      /\ Held \subseteq Indices
      /\ startsToSend \subseteq Indices
      /\ numberOfStartMessagesSent \in Nat
      /\ Cardinality(startsToSend) \in Nat /\ MaxIndex \in Nat
      /\ SenderMessageLimit \in Nat
      /\ MaxIndex < 2 * SenderMessageLimit
  <2>1. /\ LastPass' = LastPass /\ Held' = Held /\ Old' = Old
    BY <1>1 DEF LastPass, Held, Old
  <2>2. Held \subseteq Indices
    BY OverdueMeans DEF Held
  <2>3. startsToSend \subseteq Indices /\ numberOfStartMessagesSent \in Nat
    BY Numbers
  <2>4. /\ Cardinality(startsToSend) \in 0..MaxIndex + 1 /\ MaxIndex \in Nat
        /\ SenderMessageLimit \in Nat
    BY <2>3, IndicesAreFinite
  <2> QED
    BY <2>1, <2>2, <2>3, <2>4 DEF PassesKeepUp
<1>3. /\ numberOfStartMessagesSent + Cardinality(startsToSend) <= MaxIndex + 1
      /\ startsToSend \cap Old # {} =>
           numberOfStartMessagesSent + Cardinality(startsToSend \cap Old)
             <= SenderMessageLimit
      /\ Held \subseteq startsToSend \/ Few(Held)
      /\ Held \cap Old \subseteq startsToSend
  BY <1>1 DEF KeepsUp, Paced, OldestGoFirst, WaitsAreShort
<1>4. startsToSend \cap Old = {}
  <2> DEFINE S == startsToSend \cap Old
  <2> SUFFICES ASSUME NEW index \in S PROVE FALSE
    OBVIOUS
  <2>1. S \subseteq Indices /\ S # {}
    BY <1>2
  <2>2. numberOfStartMessagesSent + Cardinality(S) <= SenderMessageLimit
    BY <1>3, <2>1
  <2> HIDE DEF S
  <2>3. /\ Cardinality(S \ {index}) = Cardinality(S) - 1
        /\ Cardinality(S) \in Nat
    BY <2>1, OneLess
  <2>4. Cardinality(S \ {index}) \in 0..MaxIndex + 1
    <3>1. S \ {index} \subseteq Indices
      BY <2>1
    <3> QED
      BY <3>1, IndicesAreFinite
  <2> QED
    BY <1>1, <1>2, <2>2, <2>3, <2>4
<1>5. Few(Held)
  <2>1. CASE Held \subseteq startsToSend
    <3>1. Few(startsToSend)
      BY <1>1, <1>2, <1>3 DEF Few
    <3> QED
      BY <1>2, <2>1, <3>1, FewerAreFew
  <2> QED
    BY <1>3, <2>1
<1>6. WaitsAreShort'
  <2>1. Held' \cap Old' = {} /\ Few(Held')
    BY <1>2, <1>3, <1>4, <1>5 DEF Few
  <2> QED
    BY <1>1, <1>2, <2>1
    DEF KeepsUp, Paced, WaitsAreShort, Few, ReadingPoint, SavingPoint
<1>7. OldestGoFirst'
  <2>1. Cardinality(startsToSend') = 0
    BY <1>1, FS_EmptySet
  <2>2. numberOfStartMessagesSent' + Cardinality(startsToSend') <= MaxIndex + 1
    BY <1>1, <1>2, <1>3, <2>1
  <2> QED
    BY <1>1, <2>2 DEF KeepsUp, Paced, OldestGoFirst, KeepingPoint
<1>8. OnTime' /\ OverdueIsRead'
  BY <1>1, <1>2 DEF KeepsUp, Paced, OnTime, OverdueIsRead, SavingPoint
<1> QED
  BY <1>6, <1>7, <1>8 DEF Paced

(* Stops and the end of the posting change nothing of it.                  *)
LEMMA RestKeepsUp ==
  ASSUME TypeOK, KeepsUp, PostStop \/ PostingDone
  PROVE  Paced'
<1>1. /\ pc = "post" /\ pc' \in {"post", "keepStarts"}
      /\ pc' = "keepStarts" => startsToSend = {}
      /\ UNCHANGED <<now, nextPass, starts, pendingStarts, analysis,
                     currentTime, numberOfStartMessagesSent, startsToSend,
                     startMessagesToSave, startMessagesToDelete>>
  BY DEF PostStop, PostingDone, shared, messages, pending, queues
<1>2. LastPass' = LastPass /\ Held' = Held /\ Old' = Old
  BY <1>1 DEF LastPass, Held, Old
<1>3. OnTime' /\ OverdueIsRead' /\ OldestGoFirst'
  BY <1>1, <1>2
  DEF KeepsUp, Paced, OnTime, OverdueIsRead, OldestGoFirst, SavingPoint,
      KeepingPoint
<1>4. WaitsAreShort'
  BY <1>1, <1>2
  DEF KeepsUp, Paced, WaitsAreShort, Few, ReadingPoint, SavingPoint
<1> QED
  BY <1>3, <1>4 DEF Paced

(* The sender's store calls, none of which fails.                          *)
LEMMA KeepStartsKeepsUp ==
  ASSUME TypeOK, KeepsUp, faults' = faults, ~Fault, KeepStarts
  PROVE  Paced'
<1>1. /\ pc = "keepStarts" /\ pc' = "deleteStarts"
      /\ UNCHANGED <<now, nextPass, currentTime, pendingStarts, analysis,
                     startsToSend, numberOfStartMessagesSent,
                     startMessagesToSave, startMessagesToDelete>>
      /\ starts' = Write(starts, startMessagesToSave,
                         QueuedKeys(startMessagesToSave))
  BY DEF KeepStarts, Handled, queues, pending
<1>2. /\ LastPass' = LastPass /\ LastPass \in Int
      /\ LastPass - PollingInterval \in Int
      /\ LastPass - 2 * PollingInterval \in Int
      /\ LastPass - PollingInterval <= LastPass
      /\ LastPass - 2 * PollingInterval <= LastPass
      /\ starts \in [Indices -> PendingStartMessage]
      /\ startMessagesToSave \in [Indices -> PendingStartMessage]
  <2>1. LastPass' = LastPass
    BY <1>1 DEF LastPass
  <2> QED
    BY <2>1, PassTimes, Numbers
<1>3. \A index \in Indices :
        starts'[index] = IF Queued(startMessagesToSave[index])
                         THEN startMessagesToSave[index] ELSE starts[index]
  BY <1>1, <1>2 DEF Write, QueuedKeys
<1>4. ASSUME NEW time \in Int, time <= LastPass,
             NEW index \in OverdueKeys(starts', time)
      PROVE  /\ index \in OverdueKeys(starts, time)
             /\ index \notin startMessagesToDelete =>
                  index \in Held \cap OverdueKeys(pendingStarts, time)
  <2>1. index \in Indices /\ Overdue(starts'[index], time)
    BY <1>4 DEF OverdueKeys
  <2>2. ~Queued(startMessagesToSave[index])
    <3>1. Queued(startMessagesToSave[index]) =>
            /\ starts'[index] = startMessagesToSave[index]
            /\ HasBeenSent(startMessagesToSave[index])
      BY <1>2, <1>3, <2>1 DEF KeepsUp, Paced, OldestGoFirst, QueuedKeys
    <3> QED
      BY <2>1, <3>1 DEF Overdue
  <2>3. starts'[index] = starts[index]
    BY <1>3, <2>1, <2>2
  <2>4. /\ index \in OverdueKeys(starts, time)
        /\ index \in OverdueKeys(starts, LastPass)
    BY <1>2, <1>4, <2>1, <2>3, OverdueLater DEF OverdueKeys
  <2>5. pendingStarts[index] = starts[index]
    BY <1>1, <2>4 DEF KeepsUp, Paced, OverdueIsRead
  <2>6. /\ index \in OverdueKeys(pendingStarts, time)
        /\ index \in OverdueKeys(pendingStarts, LastPass)
    BY <2>4, <2>5 DEF OverdueKeys
  <2> QED
    BY <2>2, <2>4, <2>6 DEF Held
<1>5. OnTime' /\ OverdueIsRead' /\ OldestGoFirst'
  BY <1>1
  DEF KeepsUp, Paced, OnTime, OverdueIsRead, OldestGoFirst, SavingPoint,
      KeepingPoint
<1>6. /\ Few(Held) /\ Held \cap Old = {} /\ Held \subseteq Indices
  <2>1. /\ Held \subseteq startsToSend \/ Few(Held)
        /\ Held \cap Old \subseteq startsToSend
        /\ startsToSend = {}
    BY <1>1 DEF KeepsUp, Paced, WaitsAreShort, OldestGoFirst
  <2>2. Held \subseteq Indices
    BY OverdueMeans DEF Held
  <2>3. CASE Held = {}
    BY <2>1, <2>2, <2>3, NoneAreFew
  <2> QED
    BY <2>1, <2>2, <2>3
<1>7. WaitsAreShort'
  <2> DEFINE first == LastPass - 2 * PollingInterval
             second == LastPass - PollingInterval
  <2>1. first' = first /\ second' = second
    BY <1>1, <1>2
  <2>2. /\ OverdueKeys(starts, first) = {}
        /\ OverdueKeys(pendingStarts, first) = {}
    BY <1>1 DEF KeepsUp, Paced, WaitsAreShort
  <2>3. /\ first \in Int /\ first <= LastPass
        /\ second \in Int /\ second <= LastPass
        /\ LastPass \in Int /\ LastPass <= LastPass
    BY <1>2
  <2>4. Old = OverdueKeys(pendingStarts, second)
    BY DEF Old
  <2> HIDE DEF first, second
  <2>5. OverdueKeys(starts', first) = {}
    BY <1>4, <2>2, <2>3
  <2>6. OverdueKeys(starts', second) \subseteq startMessagesToDelete
    BY <1>4, <1>6, <2>3, <2>4
  <2>7. Few(OverdueKeys(starts', LastPass) \ startMessagesToDelete)
    <3>1. OverdueKeys(starts', LastPass) \ startMessagesToDelete
            \subseteq Held
      BY <1>4, <2>3
    <3> QED
      BY <1>6, <3>1, FewerAreFew
  <2> QED
    BY <1>1, <1>2, <2>1, <2>2, <2>5, <2>6, <2>7
    DEF WaitsAreShort, Few, first, second, ReadingPoint, SavingPoint
<1> QED
  BY <1>5, <1>7 DEF Paced

(* The sender deletes what it has sent or dropped: less is overdue.        *)
LEMMA DeletesKeepUp ==
  ASSUME TypeOK, KeepsUp, faults' = faults, ~Fault, DeleteStarts
  PROVE  Paced'
<1>1. /\ pc = "deleteStarts" /\ pc' = "keepStops"
      /\ UNCHANGED <<now, nextPass, currentTime, pendingStarts, analysis,
                     startsToSend, numberOfStartMessagesSent,
                     startMessagesToSave, startMessagesToDelete>>
      /\ starts' = Write(starts, NoStarts, startMessagesToDelete)
  BY DEF DeleteStarts, Handled, queues, pending
<1>2. LastPass' = LastPass /\ starts \in [Indices -> PendingStartMessage]
  BY <1>1, Numbers DEF LastPass
<1>3. \A time : OverdueKeys(starts', time)
                  \subseteq OverdueKeys(starts, time) \ startMessagesToDelete
  BY <1>1, <1>2, AbsentNotQueued
  DEF Write, NoStarts, OverdueKeys, Overdue
<1>4. OnTime' /\ OverdueIsRead' /\ OldestGoFirst'
  BY <1>1
  DEF KeepsUp, Paced, OnTime, OverdueIsRead, OldestGoFirst, SavingPoint,
      KeepingPoint
<1>5. /\ OverdueKeys(starts, LastPass - 2 * PollingInterval) = {}
      /\ OverdueKeys(pendingStarts, LastPass - 2 * PollingInterval) = {}
      /\ Few(OverdueKeys(starts, LastPass) \ startMessagesToDelete)
      /\ OverdueKeys(starts, LastPass - PollingInterval)
           \subseteq startMessagesToDelete
  BY <1>1 DEF KeepsUp, Paced, WaitsAreShort
<1>6. Few(OverdueKeys(starts', LastPass))
  BY <1>3, <1>5, OverdueMeans, FewerAreFew
<1>7. /\ OverdueKeys(starts', LastPass - 2 * PollingInterval) = {}
      /\ OverdueKeys(starts', LastPass - PollingInterval) = {}
  BY <1>3, <1>5
<1>8. WaitsAreShort'
  BY <1>1, <1>2, <1>5, <1>6, <1>7
  DEF WaitsAreShort, Few, ReadingPoint, SavingPoint
<1> QED
  BY <1>4, <1>8 DEF Paced

(* The end of the pass, which leaves the stored starts as they are.        *)
LEMMA PassKeepsUp ==
  ASSUME TypeOK, KeepsUp, faults' = faults, ~Fault, KeepStops \/ DeleteStops
  PROVE  Paced'
<1>1. /\ pc \in {"keepStops", "deleteStops"}
      /\ UNCHANGED <<now, nextPass, starts>>
      /\ LastPass' = LastPass
  BY DEF KeepStops, DeleteStops, LastPass
<1>2. /\ now \in Nat /\ PollingInterval \in Nat
      /\ nextPass = now + PollingInterval
  BY <1>1, Numbers DEF KeepsUp, Paced, OnTime
<1>3. CASE KeepStops
  <2>1. /\ pc' = "deleteStops"
        /\ UNCHANGED <<currentTime, pendingStarts, analysis,
                       startsToSend, numberOfStartMessagesSent,
                       startMessagesToSave, startMessagesToDelete>>
    BY <1>3 DEF KeepStops, queues, pending
  <2> QED
    BY <1>1, <2>1
    DEF KeepsUp, Paced, OnTime, OverdueIsRead, WaitsAreShort, OldestGoFirst,
        Few, ReadingPoint, SavingPoint, KeepingPoint
<1>4. CASE DeleteStops
  <2>1. /\ pc' = "idle" /\ pendingStarts' = NoStarts
        /\ numberOfStartMessagesSent' = 0 /\ startMessagesToSave' = NoStarts
    BY <1>4 DEF DeleteStops, PassEnds
  <2>2. OnTime'
    BY <1>1, <1>2, <2>1 DEF KeepsUp, Paced, OnTime, KeepingPoint
  <2>3. OverdueIsRead' /\ OldestGoFirst'
    BY <2>1, AbsentNotQueued
    DEF OverdueIsRead, OldestGoFirst, SavingPoint, KeepingPoint, QueuedKeys,
        NoStarts
  <2>4. WaitsAreShort'
    BY <1>1, <2>1
    DEF KeepsUp, Paced, WaitsAreShort, Few, ReadingPoint, SavingPoint
  <2> QED
    BY <2>2, <2>3, <2>4 DEF Paced
<1> QED
  BY <1>3, <1>4

(* Every step of the analyzer.                                             *)
LEMMA AnalyzerKeepsUp ==
  ASSUME PowersOfTwo, PassesKeepUp, TypeOK, KeepsUp, now >= 1,
         faults' = faults, ~Fault, AnalyzerActs
  PROVE  KeepsUp' /\ now' = now
<1>1. now' = now
  BY DEF AnalyzerActs, AnalyzerStep, PassBegins, FetchDesiredState,
         GetInstanceHeartbeats, GetCrashCounts, GetPendingStartMessages,
         GetPendingStopMessages, AnalyzeApp, SaveCrashCounts, SaveStarts,
         SaveStops, Send, PostStart, PostStartFails, HoldStarts, PostStop,
         PostStopFails, PostingDone, KeepStarts, DeleteStarts, KeepStops,
         DeleteStops, PassFails, ProcessDies, shared
<1>2. Paced'
  BY ReadsKeepUp, AnalysisKeepsUp, SavesKeepUp, SendKeepsUp, PostKeepsUp,
     HoldKeepsUp, RestKeepsUp, KeepStartsKeepsUp, DeletesKeepUp, PassKeepsUp
  DEF AnalyzerActs, AnalyzerStep, PostStartFails, PostStopFails, PassFails,
      ProcessDies
<1>3. OthersHaveSent'
  BY DEF AnalyzerActs, evacuatorVars, listenerVars, KeepsUp, OthersHaveSent
<1> QED
  BY <1>1, <1>2, <1>3 DEF KeepsUp

(* While nothing fails the passes keep up; time starts at 1.               *)
PaceInv == now >= 1 /\ (faults = 0 => KeepsUp)

(* At the start no start is queued.                                        *)
LEMMA InitPace == Init => PaceInv
<1> SUFFICES ASSUME Init PROVE PaceInv
  OBVIOUS
<1>1. /\ pc = "idle" /\ now = 1 /\ nextPass = 1
      /\ starts = NoStarts /\ pendingStarts = NoStarts
      /\ startMessagesToSave = NoStarts
      /\ numberOfStartMessagesSent = 0
      /\ evacuator = "idle" /\ markedByListener = NoMarks
  BY DEF Init, SharedInit, AnalyzerInit, EvacuatorInit, ListenerInit
<1>2. /\ QueuedKeys(NoStarts) = {}
      /\ \A time : OverdueKeys(NoStarts, time) = {}
  BY AbsentNotQueued, OverdueMeans DEF QueuedKeys, NoStarts
<1>3. OnTime
  BY <1>1, PollingAssumption DEF OnTime, KeepingPoint
<1>4. OverdueIsRead /\ OldestGoFirst /\ OthersHaveSent
  BY <1>1, <1>2
  DEF OverdueIsRead, OldestGoFirst, OthersHaveSent, NoMarks, SavingPoint,
      KeepingPoint
<1>5. WaitsAreShort
  BY <1>1, <1>2, NoneAreFew DEF WaitsAreShort, ReadingPoint, SavingPoint
<1> QED
  BY <1>1, <1>3, <1>4, <1>5 DEF PaceInv, KeepsUp, Paced

(* Every step keeps the invariant.                                         *)
LEMMA NextPace ==
  ASSUME PowersOfTwo, PassesKeepUp
  PROVE  TypeOK /\ PaceInv /\ [Next]_vars => PaceInv'
<1> SUFFICES ASSUME TypeOK, PaceInv, [Next]_vars PROVE PaceInv'
  OBVIOUS
<1>1. now \in Nat /\ now >= 1
  BY Numbers DEF PaceInv
<1>2. now' \in Nat /\ now' >= now
  BY <1>1, TimeGoesOn
<1>3. CASE faults' # 0
  BY <1>1, <1>2, <1>3 DEF PaceInv
<1>4. CASE faults' = 0
  <2>1. faults = 0 /\ ~Fault /\ KeepsUp
    BY <1>4, FaultsStay DEF PaceInv
  <2>2. CASE Tick
    BY <1>1, <1>2, <2>1, <2>2, TickKeepsUp DEF PaceInv
  <2>3. CASE AnalyzerActs
    BY <1>1, <1>2, <1>4, <2>1, <2>3, AnalyzerKeepsUp DEF PaceInv
  <2>4. CASE EvacuatorActs \/ ListenerActs
    BY <1>1, <1>2, <2>1, <2>4, OthersKeepUp DEF PaceInv
  <2>5. CASE \/ \E guid \in Guids, state \in State \cup {NoHeartbeat} :
                  ReportHeartbeat(guid, state)
             \/ \E desired \in Wanted : ChangeDesired(desired)
             \/ TimeIsUp
             \/ UNCHANGED vars
    <3>1. UNCHANGED <<now, paced>>
      BY <2>5
      DEF ReportHeartbeat, ListenerHears, ChangeDesired, TimeIsUp, vars, shared,
          messages, accepted, analyzerVars, evacuatorVars, listenerVars, pending,
          queues, paced
    <3> QED
      BY <1>1, <1>2, <2>1, <3>1, SameKeepsUp DEF PaceInv
  <2> QED
    BY <2>2, <2>3, <2>4, <2>5 DEF Next, Environment
<1> QED
  BY <1>3, <1>4

---------------------------------------------------------------------------
(* How long the crash counts last.                                         *)

(* A crashed start that has not been sent.                                 *)
WaitsCrashed(message) == message.reason = "CRASHED" /\ ~HasBeenSent(message)

(* The count of the index is there until then.                             *)
LastsUntil(index, time) ==
  \/ time <= now
  \/ crashCounts[index] # 0 /\ time <= crashExpiry[index]

Covered(index, message) ==
  WaitsCrashed(message) =>
    /\ message.sendOn <= now + MaximumBackoffDelay
    /\ LastsUntil(index, message.sendOn + MaximumBackoffDelay)

AboutToBeCovered(index, message) ==
  /\ pc = "saveCrashCounts"
  /\ analysis.crashCounts[index] # 0
  /\ message.sendOn <= now + MaximumBackoffDelay

WaitsAreCovered ==
  \A index \in Indices :
    /\ Covered(index, starts[index])
    /\ Covered(index, pendingStarts[index])
       \/ AboutToBeCovered(index, pendingStarts[index])

CountsLast ==
  \A index \in Indices :
    \A k \in DOMAIN startsAccepted[index] :
      LET sent == startsAccepted[index][k]
      IN  sent.reason = "CRASHED" =>
            /\ sent.at <= now
            /\ LastsUntil(index,
                 sent.at + MaximumBackoffDelay - 2 * PollingInterval)

InTime == WaitsAreCovered /\ CountsLast

TimelyInv == faults = 0 => InTime

timed == <<pc, counts, starts, pendingStarts, analysis, startsAccepted>>

---------------------------------------------------------------------------
(* A count that lasts until some time lasts until any earlier one.         *)
LEMMA LastsBefore ==
  ASSUME TypeOK, NEW index \in Indices, NEW time \in Int, NEW before \in Int,
         before <= time, LastsUntil(index, time)
  PROVE  LastsUntil(index, before)
BY Numbers DEF LastsUntil

(* An absent start waits for nothing.                                      *)
LEMMA AbsentDoesNotWait == ~WaitsCrashed(NoStart)
BY DEF WaitsCrashed, NoStart, NewPendingStartMessage

(* The clock: no count is gone before its time.                            *)
LEMMA TickInTime ==
  ASSUME PassesKeepUp, TypeOK, InTime, Tick
  PROVE  InTime'
<1>1. /\ pc = "idle" /\ now' = now + 1
      /\ UNCHANGED <<pc, starts, pendingStarts, analysis, startsAccepted>>
  BY DEF PassesKeepUp, Tick, analyzerVars, pending, accepted
<1>2. /\ now \in Nat /\ MaximumBackoffDelay \in Nat
      /\ PollingInterval \in Nat
  BY Numbers
<1>3. ASSUME NEW index \in Indices, NEW time \in Int, LastsUntil(index, time)
      PROVE  LastsUntil(index, time)'
  <2>1. /\ crashCounts[index] \in Nat /\ crashExpiry[index] \in Nat
        /\ crashCounts'[index] =
             IF CountExpires(index) THEN 0 ELSE crashCounts[index]
        /\ crashExpiry'[index] =
             IF CountExpires(index) THEN 0 ELSE crashExpiry[index]
    BY Numbers DEF Tick, UnlessExpired
  <2>2. CASE time <= now
    BY <1>1, <1>2, <2>2 DEF LastsUntil
  <2>3. CASE ~(time <= now)
    <3>1. crashCounts[index] # 0 /\ time <= crashExpiry[index]
      BY <1>3, <2>3 DEF LastsUntil
    <3>2. CASE CountExpires(index)
      BY <1>1, <1>2, <2>1, <3>1, <3>2 DEF LastsUntil, CountExpires
    <3>3. CASE ~CountExpires(index)
      BY <2>1, <3>1, <3>3 DEF LastsUntil
    <3> QED
      BY <3>2, <3>3
  <2> QED
    BY <2>2, <2>3
<1>4. WaitsAreCovered'
  <2>1. ASSUME NEW index \in Indices, NEW message \in PendingStartMessage,
               Covered(index, message)
        PROVE  WaitsCrashed(message) =>
                 /\ message.sendOn <= now' + MaximumBackoffDelay
                 /\ LastsUntil(index, message.sendOn + MaximumBackoffDelay)'
    <3> SUFFICES ASSUME WaitsCrashed(message)
                 PROVE  /\ message.sendOn <= now' + MaximumBackoffDelay
                        /\ LastsUntil(index,
                             message.sendOn + MaximumBackoffDelay)'
      OBVIOUS
    <3>1. message.sendOn \in Int
      BY SendOnType
    <3>2. message.sendOn + MaximumBackoffDelay \in Int
      BY <1>2, <3>1
    <3>3. /\ message.sendOn <= now + MaximumBackoffDelay
          /\ LastsUntil(index, message.sendOn + MaximumBackoffDelay)
      BY <2>1 DEF Covered
    <3> QED
      BY <1>1, <1>2, <1>3, <3>1, <3>2, <3>3
  <2>2. ASSUME NEW index \in Indices
        PROVE  /\ Covered(index, starts[index])
               /\ Covered(index, pendingStarts[index])
    BY <1>1 DEF InTime, WaitsAreCovered, AboutToBeCovered
  <2>3. \A index \in Indices : /\ starts[index] \in PendingStartMessage
                               /\ pendingStarts[index] \in PendingStartMessage
    BY Numbers
  <2> QED
    BY <1>1, <2>1, <2>2, <2>3 DEF WaitsAreCovered, Covered
<1>5. CountsLast'
  <2> SUFFICES ASSUME NEW index \in Indices,
                      NEW k \in DOMAIN startsAccepted[index],
                      startsAccepted[index][k].reason = "CRASHED"
               PROVE  /\ startsAccepted[index][k].at <= now'
                      /\ LastsUntil(index, startsAccepted[index][k].at
                           + MaximumBackoffDelay - 2 * PollingInterval)'
    BY <1>1 DEF CountsLast
  <2>1. startsAccepted[index][k].at \in Nat
    BY AcceptedType
  <2>2. /\ startsAccepted[index][k].at <= now
        /\ LastsUntil(index, startsAccepted[index][k].at
             + MaximumBackoffDelay - 2 * PollingInterval)
    BY DEF InTime, CountsLast
  <2>3. startsAccepted[index][k].at + MaximumBackoffDelay
          - 2 * PollingInterval \in Int
    BY <1>2, <2>1
  <2> QED
    BY <1>1, <1>2, <1>3, <2>1, <2>2, <2>3
<1> QED
  BY <1>4, <1>5 DEF InTime

(* Steps that change nothing of this.                                      *)
LEMMA SameInTime ==
  ASSUME InTime, UNCHANGED <<now, timed>>
  PROVE  InTime'
BY DEF InTime, WaitsAreCovered, Covered, AboutToBeCovered, LastsUntil,
       CountsLast, timed, counts

(* Steps that accept no crashed start.                                     *)
LEMMA SameCountsLast ==
  ASSUME CountsLast, UNCHANGED <<now, counts>>,
         \A index \in Indices : \A k \in DOMAIN startsAccepted'[index] :
           \/ /\ k \in DOMAIN startsAccepted[index]
              /\ startsAccepted'[index][k] = startsAccepted[index][k]
           \/ startsAccepted'[index][k].reason # "CRASHED"
  PROVE  CountsLast'
BY DEF CountsLast, LastsUntil, counts

(* One more acceptance leaves the earlier ones as they are.                *)
LEMMA AcceptedEntries ==
  ASSUME TypeOK, NEW index \in Indices, NEW message \in PendingStartMessage,
         NEW time \in Nat,
         startsAccepted' = Accept(startsAccepted, index, message, time)
  PROVE  \A i \in Indices : \A k \in DOMAIN startsAccepted'[i] :
           \/ /\ k \in DOMAIN startsAccepted[i]
              /\ startsAccepted'[i][k] = startsAccepted[i][k]
           \/ /\ i = index
              /\ startsAccepted'[i][k].at = time
              /\ startsAccepted'[i][k].reason = message.reason
<1> DEFINE e == [at |-> time, keepAlive |-> message.keepAlive,
                 reason |-> message.reason]
<1>1. e \in Acceptance
  BY DEF Acceptance, PendingStartMessage
<1>2. startsAccepted \in [Indices -> Seq(Acceptance)]
  BY Numbers
<1>3. startsAccepted' = [startsAccepted EXCEPT ![index] = Append(@, e)]
  BY DEF Accept
<1>4. e.at = time /\ e.reason = message.reason
  OBVIOUS
<1> HIDE DEF e
<1> SUFFICES ASSUME NEW k \in DOMAIN startsAccepted'[index]
             PROVE  \/ /\ k \in DOMAIN startsAccepted[index]
                       /\ startsAccepted'[index][k] = startsAccepted[index][k]
                    \/ startsAccepted'[index][k] = e
  BY <1>2, <1>3, <1>4
<1>5. /\ startsAccepted[index] \in Seq(Acceptance)
      /\ startsAccepted'[index] = Append(startsAccepted[index], e)
  BY <1>2, <1>3
<1> QED
  BY <1>1, <1>5

(* The evacuator and the listener save and send no crashed start.          *)
LEMMA OthersInTime ==
  ASSUME TypeOK, CountsInv, InTime, EvacuatorActs \/ ListenerActs
  PROVE  InTime'
<1>1. UNCHANGED <<now, counts, pc, pendingStarts, analysis>>
  BY DEF EvacuatorActs, EvacuatorStep, HandleExited, EvacuatorSends,
         EvacuatorSendFails, EvacuatorKeeps, ListenerActs, ListenerStep,
         ListenerSends, ListenerSendFails, ListenerHolds, ListenerKeeps,
         ListenerGivesUp, ListenerDies, shared, messages, analyzerVars,
         pending
<1>2. /\ now \in Nat /\ exited \in Indices /\ evacuating \in Indices
      /\ startMessage \in PendingStartMessage
      /\ markedByListener \in [Indices -> SUBSET PendingStartMessage]
      /\ starts \in [Indices -> PendingStartMessage]
  BY DEF TypeOK, SharedTypeOK, EvacuatorTypeOK, ListenerTypeOK
<1>3. /\ startMessage.reason # "CRASHED"
      /\ \A index \in Indices : \A m \in markedByListener[index] :
           m.reason # "CRASHED"
  BY DEF CountsInv, OthersSaveNoCrash
<1>4. /\ EvacuationStart(now) \in PendingStartMessage
      /\ EvacuationStart(now).reason # "CRASHED"
  BY <1>2, EvacuationStartType DEF EvacuationStart
<1>5. \A index \in Indices : \/ starts'[index] = starts[index]
                             \/ ~WaitsCrashed(starts'[index])
  <2>1. CASE \E index \in Indices : HandleExited(index)
    BY <1>2, <1>4, <2>1 DEF HandleExited, WaitsCrashed
  <2>2. CASE EvacuatorKeeps
    BY <1>2, <1>3, <2>2 DEF EvacuatorKeeps, WaitsCrashed
  <2>3. CASE ListenerKeeps
    BY <1>3, <2>3, ListenerKeepsMarked
    DEF TypeOK, SharedTypeOK, WaitsCrashed
  <2> QED
    BY <2>1, <2>2, <2>3
    DEF EvacuatorActs, EvacuatorStep, EvacuatorSends, EvacuatorSendFails,
        ListenerActs, ListenerStep, ListenerSends, ListenerSendFails,
        ListenerHolds, ListenerGivesUp, ListenerDies, shared, messages
<1>6. CountsLast'
  <2>1. ASSUME NEW index \in Indices, NEW message \in PendingStartMessage,
               message.reason # "CRASHED",
               startsAccepted' = Accept(startsAccepted, index, message, now)
        PROVE  CountsLast'
    BY <1>1, <1>2, <2>1, AcceptedEntries, SameCountsLast DEF InTime
  <2>2. CASE UNCHANGED startsAccepted
    BY <1>1, <2>2, SameCountsLast DEF InTime
  <2> QED
    BY <1>2, <1>3, <1>4, <2>1, <2>2
    DEF EvacuatorActs, EvacuatorStep, HandleExited, EvacuatorSends,
        EvacuatorSendFails, EvacuatorKeeps, ListenerActs, ListenerStep,
        ListenerSends, ListenerSendFails, ListenerHolds, ListenerKeeps,
        ListenerGivesUp, ListenerDies, shared, accepted
<1>7. WaitsAreCovered'
  BY <1>1, <1>5
  DEF InTime, WaitsAreCovered, Covered, AboutToBeCovered, LastsUntil, counts
<1> QED
  BY <1>6, <1>7 DEF InTime

---------------------------------------------------------------------------
(* The steps of a pass.                                                    *)

(* The reads.                                                              *)
LEMMA ReadsInTime ==
  ASSUME InTime,
         \/ PassBegins \/ FetchDesiredState \/ GetInstanceHeartbeats
         \/ GetCrashCounts
         \/ GetPendingStartMessages \/ GetPendingStopMessages
  PROVE  InTime'
<1>1. /\ UNCHANGED <<now, counts, starts, analysis, startsAccepted>>
      /\ pc # "saveCrashCounts"
      /\ pendingStarts' \in {pendingStarts, starts}
  BY DEF PassBegins, FetchDesiredState, GetInstanceHeartbeats, GetCrashCounts,
         GetPendingStartMessages, GetPendingStopMessages, ReadingPoint, shared,
         messages, accepted, pending
<1> QED
  BY <1>1 DEF InTime, WaitsAreCovered, CountsLast, Covered, AboutToBeCovered,
              LastsUntil, counts

(* The analysis: a crashed start is due after its backoff, and its count   *)
(* is saved before it.                                                     *)
LEMMA AnalysisInTime ==
  ASSUME PowersOfTwo, TypeOK, InTime, AnalyzeApp
  PROVE  InTime'
<1>1. PICK a : /\ a.app = app' /\ a.now = now
               /\ analysis' = Analysis(a)
               /\ \A index \in Indices :
                    analysis'.starts[index] = NewStart(a, index)
  BY AnalysisMade
<1>2. /\ pc = "analyze" /\ pc' = "saveCrashCounts"
      /\ UNCHANGED <<now, counts, starts, startsAccepted>>
  BY DEF AnalyzeApp, shared, messages, accepted
<1>3. /\ now \in Nat /\ MaximumBackoffDelay \in Nat
      /\ app'.crashCounts \in [Indices -> Nat]
  BY AnalysisMade, Numbers DEF App
<1>4. ASSUME NEW index \in Indices, WaitsCrashed(analysis'.starts[index])
      PROVE  /\ analysis'.crashCounts[index] # 0
             /\ analysis'.starts[index].sendOn \in now..now + MaximumBackoffDelay
  <2>1. analysis'.starts[index].reason = "CRASHED"
    BY <1>4 DEF WaitsCrashed
  <2>2. analysis'.crashCounts[index] # 0
    BY <1>1, <1>3, <2>1, AnalysisCounts
  <2>3. analysis'.starts[index].sendOn =
          now + ComputeCrashDelay(a.app.crashCounts[index])
    BY <1>1, <2>1, StartReasons
  <2>4. ComputeCrashDelay(a.app.crashCounts[index]) \in 0..MaximumBackoffDelay
    BY <1>1, <1>3, DelayBound
  <2> QED
    BY <1>3, <2>2, <2>3, <2>4
<1>5. CountsLast'
  BY <1>2 DEF InTime, CountsLast, LastsUntil, counts
<1>6. WaitsAreCovered'
  <2>1. \A index \in Indices : /\ Covered(index, starts[index])
                               /\ Covered(index, pendingStarts[index])
    BY <1>2 DEF InTime, WaitsAreCovered, AboutToBeCovered
  <2>2. ASSUME NEW index \in Indices
        PROVE  \/ Covered(index, pendingStarts[index])'
               \/ AboutToBeCovered(index, pendingStarts[index])'
    <3>1. CASE pendingStarts'[index] = pendingStarts[index]
      BY <1>2, <2>1, <3>1 DEF Covered, LastsUntil, counts
    <3>2. CASE pendingStarts'[index] = analysis'.starts[index]
      BY <1>2, <1>3, <1>4, <3>2 DEF Covered, AboutToBeCovered
    <3> QED
      BY <3>1, <3>2, AnalysisMade
  <2> QED
    BY <1>2, <2>1, <2>2 DEF WaitsAreCovered, Covered, LastsUntil, counts
<1> QED
  BY <1>5, <1>6 DEF InTime

(* The saves, none of which fails.                                         *)
LEMMA SavesInTime ==
  ASSUME TypeOK, KeepsUp, InTime, faults' = faults, ~Fault,
         SaveCrashCounts \/ SaveStarts \/ SaveStops
  PROVE  InTime'
<1>1. /\ UNCHANGED <<now, pendingStarts, analysis, startsAccepted>>
      /\ pc' # "saveCrashCounts"
  BY DEF SaveCrashCounts, SaveStarts, SaveStops, AfterSave, accepted, pending
<1>2. /\ now \in Nat /\ PollingInterval \in Nat
      /\ MaximumBackoffDelay \in Nat
      /\ starts \in [Indices -> PendingStartMessage]
      /\ pendingStarts \in [Indices -> PendingStartMessage]
      /\ analysis.starts \in [Indices -> PendingStartMessage]
      /\ analysis.crashCounts \in [Indices -> Nat]
      /\ crashCounts \in [Indices -> Nat]
      /\ crashExpiry \in [Indices -> Nat]
  BY Numbers
<1>3. CASE SaveCrashCounts
  <2>1. /\ pc = "saveCrashCounts" /\ pc' = "saveStarts" /\ starts' = starts
        /\ crashCounts' = Write(crashCounts, analysis.crashCounts,
             {index \in Indices : analysis.crashCounts[index] # 0})
        /\ crashExpiry' = [index \in Indices |->
             IF analysis.crashCounts[index] # 0
             THEN now + CrashCountTTL ELSE crashExpiry[index]]
    BY <1>3 DEF SaveCrashCounts, AfterSave, Handled
  <2>2. ASSUME NEW index \in Indices, NEW time \in Int,
               time <= now + 2 * MaximumBackoffDelay,
               LastsUntil(index, time) \/ analysis.crashCounts[index] # 0
        PROVE  LastsUntil(index, time)'
    BY <1>1, <1>2, <2>1, <2>2 DEF LastsUntil, Write, CrashCountTTL
  <2>3. WaitsAreCovered'
    <3>1. ASSUME NEW index \in Indices, NEW message \in PendingStartMessage,
                 Covered(index, message) \/ AboutToBeCovered(index, message)
          PROVE  WaitsCrashed(message) =>
                   /\ message.sendOn <= now + MaximumBackoffDelay
                   /\ LastsUntil(index, message.sendOn + MaximumBackoffDelay)'
      <4>1. message.sendOn \in Int
        BY SendOnType
      <4> QED
        BY <1>2, <2>2, <3>1, <4>1 DEF Covered, AboutToBeCovered
    <3>2. \A index \in Indices : /\ starts[index] \in PendingStartMessage
                                 /\ pendingStarts[index] \in PendingStartMessage
      BY <1>2
    <3>3. \A index \in Indices :
            /\ Covered(index, starts[index])
            /\ Covered(index, pendingStarts[index])
               \/ AboutToBeCovered(index, pendingStarts[index])
      BY DEF InTime, WaitsAreCovered
    <3> QED
      BY <1>1, <2>1, <3>1, <3>2, <3>3 DEF WaitsAreCovered, Covered
  <2>4. CountsLast'
    <3> SUFFICES ASSUME NEW index \in Indices,
                        NEW k \in DOMAIN startsAccepted[index],
                        startsAccepted[index][k].reason = "CRASHED"
                 PROVE  /\ startsAccepted[index][k].at <= now
                        /\ LastsUntil(index, startsAccepted[index][k].at
                             + MaximumBackoffDelay - 2 * PollingInterval)'
      BY <1>1 DEF CountsLast
    <3>1. startsAccepted[index][k].at \in Nat
      BY AcceptedType
    <3>2. /\ startsAccepted[index][k].at <= now
          /\ LastsUntil(index, startsAccepted[index][k].at
               + MaximumBackoffDelay - 2 * PollingInterval)
      BY DEF InTime, CountsLast
    <3>3. PICK time \in Int : time = startsAccepted[index][k].at
                                      + MaximumBackoffDelay - 2 * PollingInterval
      BY <1>2, <3>1
    <3>4. time <= now + 2 * MaximumBackoffDelay /\ LastsUntil(index, time)
      BY <1>2, <3>1, <3>2, <3>3
    <3>5. LastsUntil(index, time)'
      BY <2>2, <3>4
    <3> QED
      BY <1>1, <3>2, <3>3, <3>5
  <2> QED
    BY <2>3, <2>4 DEF InTime
<1>4. CASE SaveStarts
  <2>1. /\ pc = "saveStarts" /\ pc' = "saveStops"
        /\ UNCHANGED counts
        /\ starts' = Write(starts, analysis.starts, QueuedKeys(analysis.starts))
    BY <1>4 DEF SaveStarts, AfterSave, Handled
  <2>2. \A index \in Indices :
          \/ starts'[index] = starts[index]
          \/ starts'[index] = pendingStarts[index]
    BY <1>2, <2>1
    DEF KeepsUp, Paced, OverdueIsRead, Write, QueuedKeys
  <2>3. WaitsAreCovered'
    BY <1>1, <2>1, <2>2
    DEF InTime, WaitsAreCovered, Covered, AboutToBeCovered, LastsUntil, counts
  <2>4. CountsLast'
    BY <1>1, <2>1 DEF InTime, CountsLast, LastsUntil, counts
  <2> QED
    BY <2>3, <2>4 DEF InTime
<1>5. CASE SaveStops
  <2>1. /\ pc = "saveStops" /\ pc' = "verify"
        /\ UNCHANGED <<counts, starts>>
    BY <1>5 DEF SaveStops, AfterSave
  <2> QED
    BY <1>1, <2>1
    DEF InTime, WaitsAreCovered, Covered, AboutToBeCovered, LastsUntil, counts,
        CountsLast
<1> QED
  BY <1>3, <1>4, <1>5

(* A crashed start is posted no more than two intervals after it was due,  *)
(* and so early enough in the life of its count.                           *)
LEMMA PostInTime ==
  ASSUME TypeOK, KeepsUp, InTime, PostStart
  PROVE  InTime'
<1>1. PICK index \in startsToSend :
        startsAccepted' =
          Accept(startsAccepted, index, pendingStarts[index], currentTime)
  BY DEF PostStart
<1>2. /\ pc = "post" /\ pc' = "post"
      /\ UNCHANGED <<now, counts, starts, pendingStarts, analysis>>
  BY DEF PostStart, messages, pending
<1>3. /\ now \in Nat /\ nextPass \in Nat /\ PollingInterval \in Nat \ {0}
      /\ MaximumBackoffDelay \in Nat
      /\ index \in Indices /\ startsToSend \subseteq Indices
      /\ pendingStarts \in [Indices -> PendingStartMessage]
  BY Numbers
<1>4. /\ currentTime = now /\ nextPass = now + PollingInterval
      /\ Queued(pendingStarts[index]) /\ ~HasBeenSent(pendingStarts[index])
  BY <1>2 DEF KeepsUp, Paced, OnTime, OldestGoFirst
<1>5. WaitsAreCovered'
  BY <1>2 DEF InTime, WaitsAreCovered, Covered, AboutToBeCovered, LastsUntil,
              counts
<1>6. CountsLast'
  <2>1. pendingStarts[index].reason = "CRASHED" =>
          LastsUntil(index, now + MaximumBackoffDelay - 2 * PollingInterval)
    <3> SUFFICES ASSUME WaitsCrashed(pendingStarts[index])
                 PROVE  LastsUntil(index,
                          now + MaximumBackoffDelay - 2 * PollingInterval)
      BY <1>4 DEF WaitsCrashed
    <3>1. pendingStarts[index].sendOn \in Int
      BY <1>3, SendOnType
    <3>2. LastsUntil(index, pendingStarts[index].sendOn + MaximumBackoffDelay)
      BY <1>2, <1>3
      DEF InTime, WaitsAreCovered, Covered, AboutToBeCovered
    <3>3. ~Overdue(pendingStarts[index], LastPass - 2 * PollingInterval)
      BY <1>2, <1>3 DEF KeepsUp, Paced, WaitsAreShort, OverdueKeys
    <3>4. now + MaximumBackoffDelay - 2 * PollingInterval
            <= pendingStarts[index].sendOn + MaximumBackoffDelay
      BY <1>3, <1>4, <3>1, <3>3 DEF LastPass, Overdue
    <3> QED
      BY <1>3, <3>1, <3>2, <3>4, LastsBefore
  <2>2. \A i \in Indices : \A k \in DOMAIN startsAccepted'[i] :
          \/ /\ k \in DOMAIN startsAccepted[i]
             /\ startsAccepted'[i][k] = startsAccepted[i][k]
          \/ /\ i = index
             /\ startsAccepted'[i][k].at = now
             /\ startsAccepted'[i][k].reason = pendingStarts[index].reason
    BY <1>1, <1>3, <1>4, AcceptedEntries
  <2> SUFFICES ASSUME NEW i \in Indices, NEW k \in DOMAIN startsAccepted'[i],
                      startsAccepted'[i][k].reason = "CRASHED"
               PROVE  /\ startsAccepted'[i][k].at <= now
                      /\ LastsUntil(i, startsAccepted'[i][k].at
                           + MaximumBackoffDelay - 2 * PollingInterval)
    BY <1>2 DEF CountsLast, LastsUntil, counts
  <2>3. CASE /\ k \in DOMAIN startsAccepted[i]
             /\ startsAccepted'[i][k] = startsAccepted[i][k]
    BY <2>3 DEF InTime, CountsLast
  <2>4. CASE /\ i = index
             /\ startsAccepted'[i][k].at = now
             /\ startsAccepted'[i][k].reason = pendingStarts[index].reason
    BY <1>3, <2>1, <2>4
  <2> QED
    BY <2>2, <2>3, <2>4
<1> QED
  BY <1>5, <1>6 DEF InTime

(* The rest of the sending, and the sender's store calls: the starts they  *)
(* write have been sent.                                                   *)
LEMMA SendingInTime ==
  ASSUME InTime, Send \/ HoldStarts \/ PostStop \/ PostingDone \/ KeepStops
  PROVE  InTime'
<1>1. /\ UNCHANGED <<now, counts, starts, pendingStarts, analysis,
                     startsAccepted>>
      /\ pc # "saveCrashCounts"
  BY DEF Send, HoldStarts, PostStop, PostingDone, KeepStops, shared, messages,
         accepted, pending
<1> QED
  BY <1>1 DEF InTime, WaitsAreCovered, CountsLast, Covered, AboutToBeCovered,
              LastsUntil, counts

(* What the sender stores and deletes: no start that waits is made.        *)
LEMMA KeepingInTime ==
  ASSUME TypeOK, KeepsUp, InTime, KeepStarts \/ DeleteStarts \/ DeleteStops
  PROVE  InTime'
<1>1. /\ UNCHANGED <<now, counts, startsAccepted>>
      /\ pc # "saveCrashCounts"
  BY DEF KeepStarts, DeleteStarts, DeleteStops, accepted
<1>2. /\ starts \in [Indices -> PendingStartMessage]
      /\ startMessagesToSave \in [Indices -> PendingStartMessage]
  BY Numbers
<1>3. \A index \in Indices : \/ starts'[index] = starts[index]
                             \/ ~WaitsCrashed(starts'[index])
  <2>1. CASE KeepStarts
    <3>1. PICK kept \in SUBSET Indices :
            /\ kept \subseteq QueuedKeys(startMessagesToSave)
            /\ starts' = Write(starts, startMessagesToSave, kept)
      BY <2>1 DEF KeepStarts, Handled
    <3>2. \A index \in kept : HasBeenSent(startMessagesToSave[index])
      BY <3>1 DEF KeepsUp, Paced, OldestGoFirst
    <3> QED
      BY <1>2, <3>1, <3>2 DEF Write, WaitsCrashed
  <2>2. CASE DeleteStarts
    BY <1>2, <2>2, AbsentDoesNotWait DEF DeleteStarts, Write, NoStarts
  <2> QED
    BY <2>1, <2>2 DEF DeleteStops
<1>4. \A index \in Indices : \/ pendingStarts'[index] = pendingStarts[index]
                             \/ ~WaitsCrashed(pendingStarts'[index])
  BY AbsentDoesNotWait
  DEF KeepStarts, DeleteStarts, DeleteStops, PassEnds, pending, NoStarts
<1> QED
  BY <1>1, <1>3, <1>4
  DEF InTime, WaitsAreCovered, CountsLast, Covered, AboutToBeCovered,
      LastsUntil, counts

---------------------------------------------------------------------------
(* Every step while nothing fails.                                         *)

(* At the start no start is queued and none was sent.                      *)
LEMMA InitTimely == Init => TimelyInv
<1> SUFFICES ASSUME Init PROVE TimelyInv
  OBVIOUS
<1>1. /\ starts = NoStarts /\ pendingStarts = NoStarts
      /\ startsAccepted = [index \in Indices |-> <<>>]
  BY DEF Init, SharedInit, AnalyzerInit
<1>2. \A index \in Indices : startsAccepted[index] = <<>>
  BY <1>1
<1> QED
  BY <1>1, <1>2, AbsentDoesNotWait
  DEF TimelyInv, InTime, WaitsAreCovered, Covered, CountsLast, NoStarts

(* Every step keeps the invariant.                                         *)
LEMMA NextTimely ==
  ASSUME PowersOfTwo, PassesKeepUp
  PROVE  TypeOK /\ CountsInv /\ PaceInv /\ TimelyInv /\ [Next]_vars
           => TimelyInv'
<1> SUFFICES ASSUME TypeOK, CountsInv, PaceInv, TimelyInv, [Next]_vars,
                    faults' = 0
             PROVE  InTime'
  BY DEF TimelyInv
<1>1. faults = 0 /\ ~Fault /\ InTime /\ KeepsUp
  BY FaultsStay DEF TimelyInv, PaceInv
<1>2. CASE Tick
  BY <1>1, <1>2, TickInTime
<1>3. CASE AnalyzerActs
  BY <1>1, <1>3, ReadsInTime, AnalysisInTime, SavesInTime, PostInTime,
     SendingInTime, KeepingInTime
  DEF AnalyzerActs, AnalyzerStep, PostStartFails, PostStopFails, PassFails,
      ProcessDies
<1>4. CASE EvacuatorActs \/ ListenerActs
  BY <1>1, <1>4, OthersInTime
<1>5. CASE \/ \E guid \in Guids, state \in State \cup {NoHeartbeat} :
                ReportHeartbeat(guid, state)
           \/ \E desired \in Wanted : ChangeDesired(desired)
           \/ TimeIsUp
           \/ UNCHANGED vars
  <2>1. UNCHANGED <<now, timed>>
    BY <1>5
    DEF ReportHeartbeat, ChangeDesired, TimeIsUp, vars, shared, messages,
        accepted, analyzerVars, pending, timed
  <2> QED
    BY <1>1, <2>1, SameInTime
<1> QED
  BY <1>2, <1>3, <1>4, <1>5 DEF Next, Environment

(* CountOutlivesStart: while nothing fails and the passes keep up, the     *)
(* count of a crashed start that was sent is there when its instance has   *)
(* had time to crash again (crash_count.go:25), however many starts the    *)
(* limit made wait for the next pass (sender.go:229).                      *)
THEOREM CountsAreKept ==
  ASSUME PowersOfTwo, PassesKeepUp
  PROVE  Spec => []CountOutlivesStart
<1>1. Init => TypeOK /\ CountsInv /\ PaceInv /\ TimelyInv
  BY InitTypeOK, InitCounts, InitPace, InitTimely
<1>2. TypeOK /\ CountsInv /\ PaceInv /\ TimelyInv /\ [Next]_vars
        => (TypeOK /\ CountsInv /\ PaceInv /\ TimelyInv)'
  BY NextTypeOK, NextCounts, NextPace, NextTimely
<1>3. TypeOK /\ TimelyInv => CountOutlivesStart
  <2> SUFFICES ASSUME TypeOK, TimelyInv, faults = 0, NEW index \in Indices,
                      NEW k \in DOMAIN startsAccepted[index],
                      startsAccepted[index][k].reason = "CRASHED",
                      now < startsAccepted[index][k].at + MaximumBackoffDelay
                              - 2 * PollingInterval
               PROVE  crashCounts[index] # 0
    BY DEF CountOutlivesStart
  <2>1. LastsUntil(index, startsAccepted[index][k].at + MaximumBackoffDelay
                            - 2 * PollingInterval)
    BY DEF TimelyInv, InTime, CountsLast
  <2> QED
    BY <2>1, Numbers, AcceptedType DEF LastsUntil
<1> QED
  BY <1>1, <1>2, <1>3, PTL DEF Spec

---------------------------------------------------------------------------
(* How long an index stays missing.                                        *)

(* Even a start held off by the longest backoff is not in the way of one   *)
(* for an index found missing before it was queued.                        *)
GraceIsShort == GracePeriod + PollingInterval <= MaximumBackoffDelay

Since(index) == missingSince[index]

(* The index is missing and has not been started since.                    *)
Unserved(index) ==
  /\ Since(index) # 0
  /\ \A k \in DOMAIN startsAccepted[index] :
       startsAccepted[index][k].at < Since(index)

HasNone(heartbeats, index) ==
  \A g \in Guids : heartbeats[g] = NoHeartbeat \/ IndexOf[g] # index

Wants(desired, index) ==
  desired.desired /\ desired.staged /\ index < desired.instances

(* A pass that begins after an index went missing sees that it is missing, *)
(* and has a start queued for it when the analysis is done.                *)
MissingIsSeen ==
  /\ wanted \in Wanted
  /\ pc = "idle" => page = NotFetched
  /\ \A index \in Indices : Since(index) # 0 =>
       /\ Since(index) <= now
       /\ HasNone(actual, index)
       /\ Wants(wanted, index)
       /\ Since(index) < now =>
            /\ pc \notin {"idle", "apps"} => HasNone(app.heartbeats, index)
            /\ page # NotFetched => Wants(page, index)
            /\ pc \in SavingPoint \cup {"verify"} =>
                 /\ Wants(app.desired, index)
                 /\ Queued(pendingStarts[index])

(* What becomes of the stored start once the sender has kept and deleted.  *)
Outcome(index) ==
  IF pc \in {"post", "keepStarts", "deleteStarts"}
     /\ index \in startMessagesToDelete
  THEN NoStart
  ELSE IF pc \in {"post", "keepStarts"} /\ Queued(startMessagesToSave[index])
  THEN startMessagesToSave[index]
  ELSE starts[index]

(* When a sender last dealt with the index.                                *)
IsSorted(index) ==
  \/ pc \in {"idle"} \cup KeepingPoint
  \/ pc = "post" /\ index \notin startsToSend

Passed(index) ==
  IF IsSorted(index) THEN LastPass ELSE LastPass - PollingInterval

(* No start stays: it is due before long, and once sent it is dropped by   *)
(* the first pass after its keep-alive.                                    *)
Moves(message, time) ==
  Queued(message) =>
    /\ message.keepAlive \in 0..GracePeriod
    /\ IF HasBeenSent(message)
       THEN message.sentOn + message.keepAlive > time
       ELSE message.sendOn <= now + MaximumBackoffDelay

(* The key of an unserved index is free soon after it went missing, and    *)
(* the start then queued is due soon after that.                           *)
Hurries(index, message, time) ==
  Unserved(index) =>
    IF Queued(message)
    THEN ~HasBeenSent(message) =>
           message.sendOn <= Since(index) + MaximumBackoffDelay + GracePeriod
                               + PollingInterval
    ELSE time <= Since(index) + MaximumBackoffDelay

StartsMove ==
  /\ \A index \in Indices :
       /\ Moves(Outcome(index), Passed(index))
       /\ Hurries(index, Outcome(index), Passed(index))
  /\ pc \in {"saveCrashCounts", "saveStarts"} =>
       \A index \in Indices :
         /\ Moves(pendingStarts[index], Passed(index))
         /\ Hurries(index, pendingStarts[index], Passed(index))

MissingInv == Quiet => MissingIsSeen /\ StartsMove

---------------------------------------------------------------------------
(* What is missing is seen.                                                *)

(* An index is missing if it is wanted and nothing reports there.          *)
LEMMA MissingMeans ==
  ASSUME NEW desired \in Wanted, NEW heartbeats, NEW index,
         IsMissing(index, desired, heartbeats)
  PROVE  HasNone(heartbeats, index) /\ Wants(desired, index)
BY DEF Wanted, IsMissing, HasNone, Wants, NotDesired

(* The clock: no pass is in progress, so nothing has been read too early.  *)
LEMMA TickSees ==
  ASSUME PassesKeepUp, TypeOK, MissingIsSeen, Tick
  PROVE  MissingIsSeen'
<1>1. /\ pc = "idle" /\ now' = now + 1
      /\ UNCHANGED <<pc, page, wanted, actual, missingSince>>
  BY DEF PassesKeepUp, Tick, analyzerVars
<1>2. now \in Nat /\ \A index \in Indices : Since(index) \in Nat
  BY Numbers DEF TypeOK, Since
<1> QED
  BY <1>1, <1>2 DEF MissingIsSeen, Since, SavingPoint

(* What changes outside the health manager.                                *)
LEMMA ChangesAreSeen ==
  ASSUME TypeOK, MissingIsSeen,
         \/ \E guid \in Guids, state \in State \cup {NoHeartbeat} :
              ReportHeartbeat(guid, state)
         \/ \E desired \in Wanted : ChangeDesired(desired)
  PROVE  /\ MissingIsSeen'
         /\ \A index \in Indices :
              \/ Since(index)' = Since(index)
              \/ Since(index)' = 0
              \/ Since(index)' = now
<1>1. /\ UNCHANGED <<now, pc, page, app, pendingStarts>>
      /\ WatchMissing
      /\ wanted' \in Wanted
  BY DEF ReportHeartbeat, ChangeDesired, analyzerVars, pending, MissingIsSeen
<1>2. now \in Nat
  BY Numbers
<1>3. ASSUME NEW index \in Indices
      PROVE  /\ Since(index)' # 0 => /\ HasNone(actual', index)
                                     /\ Wants(wanted', index)
             /\ \/ Since(index)' = Since(index)
                \/ Since(index)' = 0
                \/ Since(index)' = now
  BY <1>1, MissingMeans DEF WatchMissing, Since
<1>4. MissingIsSeen'
  BY <1>1, <1>2, <1>3 DEF MissingIsSeen
<1> QED
  BY <1>3, <1>4

(* The steps of a pass, none of which fails.                               *)
LEMMA PassSees ==
  ASSUME TypeOK, MissingIsSeen, faults' = faults, ~Fault, AnalyzerActs
  PROVE  MissingIsSeen'
<1>1. UNCHANGED <<now, wanted, actual, missingSince>>
  BY DEF AnalyzerActs, AnalyzerStep, PassBegins, FetchDesiredState,
         GetInstanceHeartbeats, GetCrashCounts, GetPendingStartMessages,
         GetPendingStopMessages, AnalyzeApp, SaveCrashCounts, SaveStarts,
         SaveStops, Send, PostStart, PostStartFails, HoldStarts, PostStop,
         PostStopFails, PostingDone, KeepStarts, DeleteStarts, KeepStops,
         DeleteStops, PassFails, ProcessDies, shared
<1>2. CASE \/ PassBegins \/ FetchDesiredState
           \/ GetPendingStartMessages \/ GetPendingStopMessages
  BY <1>1, <1>2
  DEF PassBegins, FetchDesiredState, GetPendingStartMessages,
      GetPendingStopMessages, MissingIsSeen, Since, ReadingPoint, SavingPoint
<1>3. CASE GetInstanceHeartbeats
  <2>1. app'.heartbeats = actual
    BY <1>3 DEF GetInstanceHeartbeats, NoApp
  <2> QED
    BY <1>1, <1>3, <2>1
    DEF GetInstanceHeartbeats, MissingIsSeen, Since, SavingPoint, pending
<1>4. CASE GetCrashCounts
  <2>1. app'.heartbeats = app.heartbeats
    BY <1>4 DEF GetCrashCounts, TypeOK, AnalyzerTypeOK, App
  <2> QED
    BY <1>1, <1>4, <2>1
    DEF GetCrashCounts, MissingIsSeen, Since, SavingPoint, pending
<1>5. CASE \/ SaveCrashCounts \/ SaveStarts \/ SaveStops \/ Send \/ PostStart
           \/ HoldStarts \/ PostStop \/ PostingDone \/ KeepStarts
           \/ DeleteStarts \/ KeepStops
  <2>1. /\ UNCHANGED <<page, app, pendingStarts>>
        /\ pc \notin {"idle", "apps"} /\ pc' # "idle"
        /\ pc' \in SavingPoint \cup {"verify"} => pc \in SavingPoint
    BY <1>5
    DEF SaveCrashCounts, SaveStarts, SaveStops, AfterSave, Send, PostStart,
        HoldStarts, PostStop, PostingDone, KeepStarts, DeleteStarts, KeepStops,
        pending, SavingPoint
  <2> QED
    BY <1>1, <2>1 DEF MissingIsSeen, Since
<1>6. CASE DeleteStops
  <2>1. pc' = "idle" /\ page' = NotFetched
    BY <1>6 DEF DeleteStops, PassEnds
  <2> QED
    BY <1>1, <2>1 DEF MissingIsSeen, Since, SavingPoint
<1>7. CASE AnalyzeApp
  <2>1. PICK a : /\ a.app = app' /\ a.starts = pendingStarts
                 /\ \A index \in Indices :
                      analysis'.starts[index] = NewStart(a, index)
    BY <1>7, AnalysisMade
  <2>2. /\ pc = "analyze" /\ pc' = "saveCrashCounts"
        /\ page' = page /\ page # NotFetched
        /\ app'.desired = page /\ app'.heartbeats = app.heartbeats
    BY <1>7 DEF AnalyzeApp, TypeOK, AnalyzerTypeOK, App
  <2>3. ASSUME NEW index \in Indices, Since(index) # 0, Since(index) < now
        PROVE  /\ HasNone(app'.heartbeats, index)
               /\ Wants(app'.desired, index)
               /\ Queued(pendingStarts'[index])
    <3>1. HasNone(app'.heartbeats, index) /\ Wants(app'.desired, index)
      BY <2>2, <2>3 DEF MissingIsSeen
    <3>2. InstanceHeartbeatsAtIndex(app', index) = {}
      BY <3>1 DEF InstanceHeartbeatsAtIndex, HasNone
    <3>3. Queued(pendingStarts[index]) \/ StartsMissing(a, index)
      BY <2>1, <3>1, <3>2
      DEF StartsMissing, AlreadyQueued, Wants, IsIndexDesired,
          HasStartingOrRunningInstanceAtIndex, HasCrashedInstanceAtIndex,
          StartingOrRunningInstancesAtIndex, EvacuatingInstancesAtIndex,
          InstancesAtIndex
    <3>4. Queued(pendingStarts[index]) \/ Queued(analysis'.starts[index])
      <4>1. StartsMissing(a, index) => Queued(NewStart(a, index))
        BY StartReasons
      <4> QED
        BY <2>1, <3>3, <4>1
    <3> QED
      BY <1>7, <3>1, <3>4, AnalysisMade
  <2> QED
    BY <1>1, <2>2, <2>3 DEF MissingIsSeen, Since
<1> QED
  BY <1>2, <1>3, <1>4, <1>5, <1>6, <1>7
  DEF AnalyzerActs, AnalyzerStep, PostStartFails, PostStopFails, PassFails,
      ProcessDies

---------------------------------------------------------------------------
(* The starts move on.                                                     *)

(* The times that are compared.                                            *)
LEMMA MovingTypes ==
  ASSUME TypeOK, NEW index \in Indices
  PROVE  /\ Since(index) \in Nat /\ GracePeriod \in Nat \ {0}
         /\ Passed(index) \in Int
         /\ Passed(index) >= LastPass - PollingInterval
         /\ Outcome(index) \in PendingStartMessage
<1>1. LastPass \in Int /\ PollingInterval \in Nat
  BY PassTimes, Numbers
<1>2. Outcome(index) \in PendingStartMessage
  BY AbsentTypes, Numbers DEF Outcome
<1> QED
  BY <1>1, <1>2, DelaysAssumption DEF TypeOK, Since, Passed

(* Steps that change nothing of it.                                        *)
LEMMA SameMoves ==
  ASSUME StartsMove, UNCHANGED <<now, missingSince, startsAccepted>>,
         \A index \in Indices :
           Outcome(index)' = Outcome(index) /\ Passed(index)' = Passed(index),
         pc' \in {"saveCrashCounts", "saveStarts"} =>
           /\ pc \in {"saveCrashCounts", "saveStarts"}
           /\ pendingStarts' = pendingStarts
  PROVE  StartsMove'
BY DEF StartsMove, Moves, Hurries, Unserved, Since

(* The clock.                                                              *)
LEMMA TickMoves ==
  ASSUME PassesKeepUp, TypeOK, StartsMove, Tick
  PROVE  StartsMove'
<1>1. /\ pc = "idle" /\ now' = now + 1
      /\ UNCHANGED <<pc, nextPass, starts, pendingStarts, startsToSend,
                     startMessagesToSave, startMessagesToDelete,
                     startsAccepted, missingSince>>
  BY DEF PassesKeepUp, Tick, analyzerVars, pending, queues, accepted
<1>2. now \in Nat /\ MaximumBackoffDelay \in Nat
  BY Numbers
<1>3. \A index \in Indices :
        Outcome(index)' = Outcome(index) /\ Passed(index)' = Passed(index)
  BY <1>1 DEF Outcome, Passed, IsSorted, LastPass
<1>4. ASSUME NEW message \in PendingStartMessage, NEW time,
             Moves(message, time)
      PROVE  Moves(message, time)'
  BY <1>1, <1>2, <1>4, SendOnType DEF Moves
<1>5. ASSUME NEW index, NEW message, NEW time, Hurries(index, message, time)
      PROVE  Hurries(index, message, time)'
  BY <1>1, <1>5 DEF Hurries, Unserved, Since
<1> QED
  BY <1>1, <1>3, <1>4, <1>5, MovingTypes DEF StartsMove, Moves, Hurries

(* An index that goes missing now has nothing queued that is due later     *)
(* than the longest backoff from now.                                      *)
LEMMA ChangesMove ==
  ASSUME TypeOK, KeepsUp, MissingIsSeen, StartsMove,
         \/ \E guid \in Guids, state \in State \cup {NoHeartbeat} :
              ReportHeartbeat(guid, state)
         \/ \E desired \in Wanted : ChangeDesired(desired)
  PROVE  StartsMove'
<1>1. UNCHANGED <<now, pc, nextPass, starts, pendingStarts, startsToSend,
                  startMessagesToSave, startMessagesToDelete, startsAccepted>>
  BY DEF ReportHeartbeat, ChangeDesired, analyzerVars, pending, queues, messages,
         accepted
<1>2. /\ now \in Nat /\ MaximumBackoffDelay \in Nat /\ PollingInterval \in Nat
      /\ GracePeriod \in Nat /\ LastPass \in Int /\ LastPass <= now
      /\ pendingStarts \in [Indices -> PendingStartMessage]
  BY Numbers, DelaysAssumption, PassTimes DEF KeepsUp, Paced
<1>3. \A index \in Indices :
        Outcome(index)' = Outcome(index) /\ Passed(index)' = Passed(index)
  BY <1>1 DEF Outcome, Passed, IsSorted, LastPass
<1>4. \A message, time : Moves(message, time)' <=> Moves(message, time)
  BY <1>1 DEF Moves
<1>5. ASSUME NEW index \in Indices, NEW message \in PendingStartMessage,
             NEW time \in Int, time <= now,
             Moves(message, time), Hurries(index, message, time)
      PROVE  Hurries(index, message, time)'
  <2>1. CASE Since(index)' = Since(index)
    BY <1>1, <1>5, <2>1 DEF Hurries, Unserved
  <2>2. CASE Since(index)' = 0
    BY <2>2 DEF Hurries, Unserved
  <2>3. CASE Since(index)' = now
    <3>1. message.sendOn \in Int
      BY SendOnType
    <3> QED
      BY <1>1, <1>2, <1>5, <2>3, <3>1 DEF Hurries, Unserved, Moves
  <2> QED
    BY <2>1, <2>2, <2>3, ChangesAreSeen
<1>6. \A index \in Indices : Passed(index) \in Int /\ Passed(index) <= now
  BY <1>2 DEF Passed
<1>7. \A index \in Indices : Outcome(index) \in PendingStartMessage
  BY MovingTypes
<1>8. ASSUME NEW index \in Indices
      PROVE  /\ Moves(Outcome(index), Passed(index))'
             /\ Hurries(index, Outcome(index), Passed(index))'
  BY <1>3, <1>4, <1>5, <1>6, <1>7 DEF StartsMove, Moves, Hurries
<1>9. ASSUME pc \in {"saveCrashCounts", "saveStarts"}, NEW index \in Indices
      PROVE  /\ Moves(pendingStarts[index], Passed(index))'
             /\ Hurries(index, pendingStarts[index], Passed(index))'
  BY <1>1, <1>2, <1>3, <1>4, <1>5, <1>6, <1>9 DEF StartsMove, Moves, Hurries
<1> QED
  BY <1>1, <1>8, <1>9 DEF StartsMove

(* The reads: a pass that begins takes the place of the one before it.     *)
LEMMA ReadsMove ==
  ASSUME TypeOK, KeepsUp, StartsMove, UNCHANGED missingSince,
         \/ PassBegins \/ FetchDesiredState \/ GetInstanceHeartbeats
         \/ GetCrashCounts
         \/ GetPendingStartMessages \/ GetPendingStopMessages
  PROVE  StartsMove'
<1>1. /\ UNCHANGED <<now, starts, startsAccepted>>
      /\ pc \in {"idle"} \cup ReadingPoint /\ pc' \in ReadingPoint
  BY DEF PassBegins, FetchDesiredState, GetInstanceHeartbeats, GetCrashCounts,
         GetPendingStartMessages, GetPendingStopMessages, ReadingPoint, shared,
         messages, accepted
<1>2. \A index \in Indices : Outcome(index)' = Outcome(index)
  BY <1>1 DEF Outcome, ReadingPoint
<1>3. \A index \in Indices : Passed(index)' = Passed(index)
  <2>1. CASE PassBegins
    <3>1. /\ pc = "idle" /\ now = nextPass /\ nextPass' = now + PollingInterval
          /\ now \in Nat /\ PollingInterval \in Nat
      BY <2>1, Numbers DEF PassBegins, KeepsUp, Paced, OnTime
    <3> QED
      BY <1>1, <3>1 DEF Passed, IsSorted, LastPass, ReadingPoint, KeepingPoint
  <2>2. CASE ~PassBegins
    <3>1. pc \in ReadingPoint /\ nextPass' = nextPass
      BY <2>2 DEF FetchDesiredState, GetInstanceHeartbeats, GetCrashCounts,
                  GetPendingStartMessages, GetPendingStopMessages, ReadingPoint
    <3> QED
      BY <1>1, <3>1 DEF Passed, IsSorted, LastPass, ReadingPoint, KeepingPoint
  <2> QED
    BY <2>1, <2>2
<1> QED
  BY <1>1, <1>2, <1>3, SameMoves DEF ReadingPoint

(* The analysis: the start it makes for an index that was missing when the *)
(* pass began is a missing one, and the key was free in time.              *)
LEMMA AnalysisMoves ==
  ASSUME PowersOfTwo, GraceIsShort, TypeOK, KeepsUp, ReadIsStored,
         MissingIsSeen, StartsMove, UNCHANGED missingSince, AnalyzeApp
  PROVE  StartsMove'
<1>1. /\ pc = "analyze" /\ pc' = "saveCrashCounts"
      /\ UNCHANGED <<now, nextPass, starts, startsAccepted>>
      /\ app'.heartbeats = app.heartbeats
  BY DEF AnalyzeApp, shared, messages, accepted, TypeOK, AnalyzerTypeOK, App
<1>2. /\ now \in Nat /\ PollingInterval \in Nat \ {0}
      /\ MaximumBackoffDelay \in Nat /\ GracePeriod \in Nat
      /\ GracePeriod + PollingInterval <= MaximumBackoffDelay
      /\ LastPass = now
  BY <1>1, PassTimes, Numbers, DelaysAssumption
  DEF KeepsUp, Paced, GraceIsShort
<1>3. PICK a : /\ a.app = app' /\ a.now = now
               /\ \A index \in Indices :
                    analysis'.starts[index] = NewStart(a, index)
  BY AnalysisMade
<1>4. \A index \in Indices :
        /\ Outcome(index) = starts[index] /\ Outcome(index)' = starts[index]
        /\ Passed(index) = now - PollingInterval
        /\ Passed(index)' = now - PollingInterval
  BY <1>1, <1>2 DEF Outcome, Passed, IsSorted, LastPass, KeepingPoint
<1>5. pendingStarts = starts
  BY <1>1 DEF ReadIsStored
<1>6. ASSUME NEW index \in Indices
      PROVE  /\ Moves(starts[index], now - PollingInterval)'
             /\ Hurries(index, starts[index], now - PollingInterval)'
  BY <1>1, <1>4 DEF StartsMove, Moves, Hurries, Unserved, Since
<1>7. ASSUME NEW index \in Indices, Queued(analysis'.starts[index])
      PROVE  /\ Moves(analysis.starts[index], now - PollingInterval)'
             /\ Hurries(index, analysis.starts[index], now - PollingInterval)'
  <2> DEFINE m == NewStart(a, index)
  <2>1. /\ analysis'.starts[index] = m
        /\ Queued(m)
        /\ m.sendOn \in now..now + MaximumBackoffDelay \cup {now + GracePeriod}
        /\ m.keepAlive \in 0..GracePeriod
        /\ ~HasBeenSent(m)
    BY <1>2, <1>3, <1>7, AnalysisMade, NewStartTimes
  <2>2. Since(index) \in Nat /\ Since(index)' = Since(index)
    BY MovingTypes DEF Since
  <2>3. Since(index) # 0 /\ Since(index) < now =>
          m.sendOn \in {now, now + GracePeriod}
    <3> SUFFICES ASSUME Since(index) # 0, Since(index) < now
                 PROVE  m.sendOn = now + GracePeriod
      OBVIOUS
    <3>1. HasNone(app'.heartbeats, index)
      BY <1>1 DEF MissingIsSeen
    <3>2. InstanceHeartbeatsAtIndex(a.app, index) = {}
      BY <1>3, <3>1 DEF InstanceHeartbeatsAtIndex, HasNone
    <3>3. ~StartsEvacuating(a, index) /\ ~StartsCrashed(a, index)
      BY <3>2
      DEF StartsEvacuating, StartsCrashed, EvacuatingInstancesAtIndex,
          HasCrashedInstanceAtIndex, InstancesAtIndex
    <3>4. m = NewPendingStartMessage(now, GracePeriod, 0, "MISSING")
      BY <1>3, <2>1, <3>3, AbsentNotQueued DEF NewStart
    <3> QED
      BY <3>4 DEF NewPendingStartMessage
  <2>4. Unserved(index) => /\ Since(index) # 0 /\ Since(index) <= now
                           /\ now <= Since(index) + MaximumBackoffDelay
                                        + PollingInterval
    <3> SUFFICES ASSUME Unserved(index)
                 PROVE  /\ Since(index) # 0 /\ Since(index) <= now
                        /\ now <= Since(index) + MaximumBackoffDelay
                                    + PollingInterval
      OBVIOUS
    <3>1. Since(index) # 0 /\ Since(index) <= now
      BY DEF Unserved, MissingIsSeen
    <3>2. ~Queued(Outcome(index))
      BY <1>4, <1>5, <1>7, AnalysisMade
    <3>3. now - PollingInterval <= Since(index) + MaximumBackoffDelay
      BY <1>4, <3>2 DEF StartsMove, Hurries
    <3> QED
      BY <1>2, <2>2, <3>1, <3>3
  <2>5. Unserved(index)' <=> Unserved(index)
    BY <1>1 DEF Unserved, Since
  <2> HIDE DEF m
  <2>6. Moves(m, now - PollingInterval)'
    BY <1>1, <1>2, <2>1 DEF Moves
  <2>7. Hurries(index, m, now - PollingInterval)'
    BY <1>1, <1>2, <2>1, <2>2, <2>3, <2>4, <2>5 DEF Hurries
  <2> QED
    BY <2>1, <2>6, <2>7 DEF Moves, Hurries
<1>8. ASSUME NEW index \in Indices
      PROVE  /\ Moves(pendingStarts[index], now - PollingInterval)'
             /\ Hurries(index, pendingStarts[index], now - PollingInterval)'
  <2>1. pendingStarts'[index] = IF Queued(analysis'.starts[index])
                                THEN analysis'.starts[index]
                                ELSE starts[index]
    BY <1>5, AnalysisMade
  <2> QED
    BY <1>1, <1>6, <1>7, <2>1 DEF Moves, Hurries
<1> QED
  BY <1>1, <1>4, <1>6, <1>8 DEF StartsMove, Moves, Hurries

(* The saves, none of which fails, store what the pass has of the starts.  *)
LEMMA SavesMove ==
  ASSUME TypeOK, ReadIsStored, StartsMove, UNCHANGED missingSince,
         faults' = faults, ~Fault, SaveCrashCounts \/ SaveStarts \/ SaveStops
  PROVE  StartsMove'
<1>1. UNCHANGED <<now, nextPass, startsAccepted, pendingStarts>>
  BY DEF SaveCrashCounts, SaveStarts, SaveStops, AfterSave, accepted, pending
<1>2. CASE SaveCrashCounts \/ SaveStops
  <2>1. /\ pc \in SavingPoint /\ pc' \in {"saveStarts", "verify"}
        /\ pc' = "saveStarts" => pc = "saveCrashCounts"
        /\ starts' = starts
    BY <1>2 DEF SaveCrashCounts, SaveStops, AfterSave, SavingPoint
  <2>2. \A index \in Indices :
          Outcome(index)' = Outcome(index) /\ Passed(index)' = Passed(index)
    BY <1>1, <2>1
    DEF Outcome, Passed, IsSorted, LastPass, SavingPoint, KeepingPoint
  <2> QED
    BY <1>1, <2>1, <2>2, SameMoves DEF SavingPoint
<1>3. CASE SaveStarts
  <2>1. /\ pc = "saveStarts" /\ pc' = "saveStops"
        /\ starts' = Write(starts, analysis.starts, QueuedKeys(analysis.starts))
    BY <1>3 DEF SaveStarts, AfterSave, Handled
  <2>2. starts' = pendingStarts
    BY <2>1 DEF ReadIsStored
  <2>3. \A index \in Indices :
          /\ Outcome(index)' = pendingStarts[index]
          /\ Passed(index)' = Passed(index)
    BY <1>1, <2>1, <2>2 DEF Outcome, Passed, IsSorted, LastPass, KeepingPoint
  <2> QED
    BY <1>1, <2>1, <2>3 DEF StartsMove, Moves, Hurries, Unserved, Since
<1> QED
  BY <1>2, <1>3

(* Send drops a start that was sent before its index went missing only     *)
(* soon after, and one not sent only if its index is not missing.          *)
LEMMA SendMoves ==
  ASSUME GraceIsShort, TypeOK, MarksInv, KeepsUp, ReadIsStored,
         SenderIsCareful, MissingIsSeen, StartsMove, UNCHANGED missingSince,
         Send
  PROVE  StartsMove'
<1>1. /\ pc = "verify" /\ pc' = "post"
      /\ UNCHANGED <<now, nextPass, app, starts, pendingStarts,
                     startMessagesToSave, startsAccepted>>
  BY DEF Send, shared, messages, accepted, pending
<1>2. /\ now \in Nat /\ PollingInterval \in Nat \ {0}
      /\ MaximumBackoffDelay \in Nat /\ GracePeriod \in Nat
      /\ GracePeriod + PollingInterval <= MaximumBackoffDelay
      /\ LastPass = now
      /\ pendingStarts \in [Indices -> PendingStartMessage]
      /\ pendingStarts = starts /\ startMessagesToSave = NoStarts
  BY <1>1, PassTimes, Numbers, DelaysAssumption
  DEF KeepsUp, Paced, GraceIsShort, ReadIsStored, SenderIsCareful
<1> SUFFICES ASSUME NEW index \in Indices
             PROVE  /\ Moves(Outcome(index), Passed(index))'
                    /\ Hurries(index, Outcome(index), Passed(index))'
  BY <1>1 DEF StartsMove, Moves, Hurries
<1> DEFINE m == starts[index]
           before == now - PollingInterval
<1>3. /\ Moves(m, before) /\ Hurries(index, m, before)
      /\ Outcome(index)' = IF index \in startMessagesToDelete'
                           THEN NoStart ELSE m
      /\ Passed(index)' = IF index \in startsToSend' THEN before ELSE now
  <2>1. Outcome(index) = m /\ Passed(index) = before
    BY <1>1, <1>2 DEF Outcome, Passed, IsSorted, KeepingPoint
  <2>2. Outcome(index)' = IF index \in startMessagesToDelete'
                          THEN NoStart ELSE m
    BY <1>1, <1>2, AbsentNotQueued DEF Outcome, NoStarts
  <2>3. Passed(index)' = IF index \in startsToSend' THEN before ELSE now
    BY <1>1, <1>2 DEF Passed, IsSorted, KeepingPoint, LastPass
  <2> QED
    BY <2>1, <2>2, <2>3 DEF StartsMove, Moves, Hurries
<1>4. /\ m \in PendingStartMessage
      /\ m.sendOn \in Int /\ m.sentOn \in Int /\ m.keepAlive \in Int
      /\ Since(index) \in Nat
  BY <1>2, SendOnType, MovingTypes DEF PendingStartMessage
<1>5. Unserved(index) => Since(index) # 0 /\ Since(index) <= now
  BY DEF Unserved, MissingIsSeen
<1>6. ASSUME Unserved(index), Since(index) < now
      PROVE  /\ Queued(m)
             /\ ShouldStart(index, m)
  <2>1. /\ HasNone(app.heartbeats, index) /\ Wants(app.desired, index)
        /\ Queued(m)
    BY <1>1, <1>2, <1>5, <1>6 DEF MissingIsSeen
  <2>2. InstanceHeartbeatsAtIndex(app, index) = {}
    BY <2>1 DEF InstanceHeartbeatsAtIndex, HasNone
  <2> QED
    BY <2>1, <2>2
    DEF ShouldStart, Wants, IsIndexDesired,
        HasStartingOrRunningInstanceAtIndex, StartingOrRunningInstancesAtIndex
<1>7. ASSUME Unserved(index), Queued(m), HasBeenSent(m)
      PROVE  now <= Since(index) + MaximumBackoffDelay
  <2>1. PICK k \in DOMAIN startsAccepted[index] :
          startsAccepted[index][k].at = m.sentOn
    BY <1>7 DEF MarksInv, SentMarksAreTrue, IsTrueMark
  <2>2. m.sentOn < Since(index)
    BY <1>7, <2>1 DEF Unserved
  <2>3. m.keepAlive \in 0..GracePeriod /\ m.sentOn + m.keepAlive > before
    BY <1>3, <1>7 DEF Moves
  <2> HIDE DEF m
  <2> QED
    BY <1>2, <1>4, <2>2, <2>3
<1>8. /\ Unserved(index)' <=> Unserved(index)
      /\ Since(index)' = Since(index)
  BY <1>1 DEF Unserved, Since
<1>9. /\ index \in startsToSend' <=> /\ Queued(m) /\ IsTimeToSend(m, now)
                                     /\ ShouldStart(index, m)
      /\ index \in startMessagesToDelete' <=>
           \/ Queued(m) /\ IsExpired(m, now)
           \/ Queued(m) /\ IsTimeToSend(m, now) /\ ~ShouldStart(index, m)
  BY <1>2 DEF Send, DueKeys, ExpiredKeys, QueuedKeys
<1> HIDE DEF m
<1>10. CASE index \in startMessagesToDelete'
  <2>1. /\ Outcome(index)' = NoStart /\ ~Queued(NoStart)
        /\ Passed(index)' = now
    BY <1>3, <1>9, <1>10, AbsentNotQueued DEF IsExpired, IsTimeToSend
  <2>2. Unserved(index) => now <= Since(index) + MaximumBackoffDelay
    <3>1. CASE Queued(m) /\ IsExpired(m, now)
      BY <1>7, <3>1 DEF IsExpired
    <3>2. CASE ~ShouldStart(index, m)
      BY <1>2, <1>4, <1>5, <1>6, <3>2
    <3> QED
      BY <1>9, <1>10, <3>1, <3>2
  <2> QED
    BY <1>8, <2>1, <2>2 DEF Moves, Hurries
<1>11. CASE index \in startsToSend'
  <2>1. /\ Outcome(index)' = m /\ Passed(index)' = before
    BY <1>3, <1>9, <1>11 DEF IsExpired, IsTimeToSend
  <2> QED
    BY <1>1, <1>3, <1>8, <2>1 DEF Moves, Hurries
<1>12. CASE index \notin startMessagesToDelete' \cup startsToSend'
  <2>1. /\ Outcome(index)' = m /\ Passed(index)' = now
    BY <1>3, <1>12
  <2>2. Queued(m) /\ HasBeenSent(m) => m.sentOn + m.keepAlive > now
    BY <1>2, <1>4, <1>9, <1>12 DEF IsExpired
  <2>3. Moves(m, now)
    BY <1>3, <2>2 DEF Moves
  <2>4. Hurries(index, m, now)
    BY <1>2, <1>3, <1>4, <1>5, <1>6 DEF Hurries
  <2> QED
    BY <1>1, <1>8, <2>1, <2>3, <2>4 DEF Moves, Hurries
<1> QED
  BY <1>10, <1>11, <1>12

(* A start that is posted stays no longer than its keep-alive, and serves  *)
(* its index.                                                              *)
LEMMA PostMoves ==
  ASSUME TypeOK, now >= 1, KeepsUp, ReadIsStored, SenderIsCareful,
         MissingIsSeen, StartsMove, UNCHANGED missingSince, PostStart
  PROVE  StartsMove'
<1>1. PICK index \in startsToSend :
        /\ startsToSend' = startsToSend \ {index}
        /\ startsAccepted' =
             Accept(startsAccepted, index, pendingStarts[index], currentTime)
        /\ IF pendingStarts[index].keepAlive = 0
           THEN /\ startMessagesToDelete' = startMessagesToDelete \cup {index}
                /\ UNCHANGED startMessagesToSave
           ELSE /\ startMessagesToSave' = [startMessagesToSave EXCEPT ![index] =
                     [pendingStarts[index] EXCEPT !.sentOn = currentTime]]
                /\ UNCHANGED startMessagesToDelete
  BY DEF PostStart
<1>2. /\ pc = "post" /\ pc' = "post"
      /\ UNCHANGED <<now, nextPass, starts, pendingStarts, currentTime>>
  BY DEF PostStart, messages, pending
<1>3. /\ now \in Nat /\ currentTime = now /\ LastPass = now
      /\ index \in Indices /\ startsToSend \subseteq Indices
      /\ startMessagesToSave \in [Indices -> PendingStartMessage]
      /\ pendingStarts[index] \in PendingStartMessage
      /\ pendingStarts = starts
  BY <1>2, Numbers, PassTimes DEF KeepsUp, Paced, OnTime, ReadIsStored
<1>4. /\ index \notin startMessagesToDelete
      /\ ~Queued(startMessagesToSave[index])
      /\ Queued(starts[index])
  BY <1>1, <1>2, <1>3 DEF SenderIsCareful, QueuedKeys
<1>5. ASSUME NEW other \in Indices \ {index}
      PROVE  /\ Moves(Outcome(other), Passed(other))'
             /\ Hurries(other, Outcome(other), Passed(other))'
  <2>1. Outcome(other)' = Outcome(other) /\ Passed(other)' = Passed(other)
    BY <1>1, <1>2, <1>3 DEF Outcome, Passed, IsSorted, LastPass, KeepingPoint
  <2>2. startsAccepted'[other] = startsAccepted[other]
    BY <1>1, <1>3, AcceptedLast
  <2> QED
    BY <1>2, <2>1, <2>2 DEF StartsMove, Moves, Hurries, Unserved, Since
<1>6. /\ Moves(Outcome(index), Passed(index))'
      /\ Hurries(index, Outcome(index), Passed(index))'
  <2>1. ~Unserved(index)'
    <3>1. /\ LastAccepted(index)'.at = now
          /\ Len(startsAccepted'[index]) = Len(startsAccepted[index]) + 1
          /\ Len(startsAccepted[index]) \in Nat
          /\ startsAccepted[index] \in Seq(Acceptance)
      BY <1>1, <1>3, AcceptedLast
    <3>2. Len(startsAccepted'[index]) \in DOMAIN startsAccepted'[index]
      <4>1. startsAccepted' \in [Indices -> Seq(Acceptance)]
        BY <1>1, <1>3, AcceptType DEF TypeOK, SharedTypeOK
      <4> QED
        BY <1>3, <3>1, <4>1
    <3>3. Since(index)' # 0 => Since(index)' <= now
      BY <1>3 DEF MissingIsSeen, Since
    <3>4. Since(index)' \in Nat
      BY <1>3, MovingTypes DEF Since
    <3> QED
      BY <1>3, <3>1, <3>2, <3>3, <3>4 DEF Unserved, LastAccepted
  <2>2. Passed(index)' = now
    BY <1>1, <1>2, <1>3 DEF Passed, IsSorted, LastPass, KeepingPoint
  <2>3. Moves(starts[index], Passed(index))
    BY <1>2, <1>3, <1>4 DEF StartsMove, Outcome
  <2>4. starts[index].keepAlive \in 0..GracePeriod /\ GracePeriod \in Nat
    BY <1>3, <1>4, <2>3, MovingTypes DEF Moves
  <2>5. CASE starts[index].keepAlive = 0
    <3>1. Outcome(index)' = NoStart
      BY <1>1, <1>2, <1>3, <2>5 DEF Outcome
    <3> QED
      BY <2>1, <3>1, AbsentNotQueued DEF Moves, Hurries
  <2>6. CASE starts[index].keepAlive # 0
    <3>1. /\ startMessagesToSave'[index] =
               [starts[index] EXCEPT !.sentOn = now]
          /\ index \notin startMessagesToDelete'
      BY <1>1, <1>3, <1>4, <2>6
    <3>2. /\ startMessagesToSave'[index].sentOn = now
          /\ startMessagesToSave'[index].keepAlive = starts[index].keepAlive
          /\ startMessagesToSave'[index].reason = starts[index].reason
      BY <1>3, <3>1 DEF PendingStartMessage
    <3>3. Outcome(index)' = startMessagesToSave'[index]
      BY <1>2, <1>4, <3>1, <3>2 DEF Outcome, Queued
    <3>4. now + starts[index].keepAlive > now
      BY <1>3, <2>4, <2>6
    <3>5. Moves(Outcome(index), Passed(index))'
      BY <1>3, <2>2, <2>4, <3>2, <3>3, <3>4 DEF Moves, HasBeenSent
    <3> QED
      BY <2>1, <3>5 DEF Hurries
  <2> QED
    BY <2>5, <2>6
<1> QED
  BY <1>2, <1>3, <1>5, <1>6 DEF StartsMove

(* Starts held back by the limit wait for the next pass.                   *)
LEMMA HoldMoves ==
  ASSUME TypeOK, KeepsUp, ReadIsStored, SenderIsCareful, StartsMove,
         UNCHANGED missingSince, HoldStarts
  PROVE  StartsMove'
<1>1. /\ pc = "post" /\ pc' = "post" /\ startsToSend' = {}
      /\ UNCHANGED <<now, nextPass, starts, startMessagesToSave,
                     startMessagesToDelete, startsAccepted>>
  BY DEF HoldStarts, shared, messages, accepted
<1>2. \A index \in Indices : Outcome(index)' = Outcome(index)
  BY <1>1 DEF Outcome
<1>3. ASSUME NEW index \in Indices
      PROVE  /\ Moves(Outcome(index), Passed(index))'
             /\ Hurries(index, Outcome(index), Passed(index))'
  <2>1. CASE index \in startsToSend
    <3>1. /\ Outcome(index) = starts[index]
          /\ Queued(starts[index]) /\ ~HasBeenSent(starts[index])
      BY <1>1, <2>1
      DEF Outcome, SenderIsCareful, ReadIsStored, KeepsUp, Paced, OldestGoFirst
    <3> QED
      BY <1>1, <1>2, <3>1 DEF StartsMove, Moves, Hurries, Unserved, Since
  <2>2. CASE index \notin startsToSend
    <3>1. Passed(index)' = Passed(index)
      BY <1>1, <2>2 DEF Passed, IsSorted, LastPass
    <3> QED
      BY <1>1, <1>2, <3>1 DEF StartsMove, Moves, Hurries, Unserved, Since
  <2> QED
    BY <2>1, <2>2
<1> QED
  BY <1>1, <1>3 DEF StartsMove

(* The rest of a pass, of which no call fails, does with the starts what   *)
(* the sender has decided.                                                 *)
LEMMA RestMoves ==
  ASSUME TypeOK, KeepsUp, StartsMove, UNCHANGED missingSince,
         faults' = faults, ~Fault,
         \/ PostStop \/ PostingDone \/ KeepStarts \/ DeleteStarts
         \/ KeepStops \/ DeleteStops
  PROVE  StartsMove'
<1>1. /\ UNCHANGED <<now, nextPass, startsAccepted>>
      /\ pc \in {"post"} \cup KeepingPoint
      /\ pc' \in {"post", "idle"} \cup KeepingPoint
      /\ starts \in [Indices -> PendingStartMessage]
      /\ startMessagesToSave \in [Indices -> PendingStartMessage]
      /\ startMessagesToDelete \subseteq Indices
  BY Numbers
  DEF PostStop, PostingDone, KeepStarts, DeleteStarts, KeepStops, DeleteStops,
      PassEnds, shared, accepted, KeepingPoint, TypeOK, AnalyzerTypeOK
<1>2. ASSUME NEW index \in Indices
      PROVE  Passed(index)' = Passed(index)
  BY <1>1
  DEF PostStop, PostingDone, KeepStarts, DeleteStarts, KeepStops, DeleteStops,
      PassEnds, queues, Passed, IsSorted, LastPass, KeepingPoint
<1>3. ASSUME NEW index \in Indices
      PROVE  Outcome(index)' = Outcome(index)
  <2>1. CASE PostStop \/ PostingDone
    BY <2>1 DEF PostStop, PostingDone, queues, shared, messages, Outcome
  <2>2. CASE KeepStarts
    <3>1. /\ starts' = Write(starts, startMessagesToSave,
                             QueuedKeys(startMessagesToSave))
          /\ pc = "keepStarts" /\ pc' = "deleteStarts"
          /\ UNCHANGED <<startMessagesToSave, startMessagesToDelete>>
      BY <2>2 DEF KeepStarts, Handled, queues
    <3>2. starts'[index] = IF Queued(startMessagesToSave[index])
                           THEN startMessagesToSave[index] ELSE starts[index]
      BY <1>1, <3>1 DEF Write, QueuedKeys
    <3> QED
      BY <3>1, <3>2 DEF Outcome
  <2>3. CASE DeleteStarts
    <3>1. /\ starts' = Write(starts, NoStarts, startMessagesToDelete)
          /\ pc = "deleteStarts" /\ pc' = "keepStops"
      BY <2>3 DEF DeleteStarts, Handled
    <3> QED
      BY <1>1, <3>1 DEF Outcome, Write, NoStarts
  <2>4. CASE KeepStops \/ DeleteStops
    BY <2>4 DEF KeepStops, DeleteStops, PassEnds, Outcome
  <2> QED
    BY <2>1, <2>2, <2>3, <2>4
<1> QED
  BY <1>1, <1>2, <1>3, SameMoves DEF KeepingPoint

---------------------------------------------------------------------------
(* Every step of a quiet behaviour.                                        *)

(* Steps that change none of it.                                           *)
LEMMA SameMissing ==
  ASSUME MissingIsSeen, StartsMove,
         UNCHANGED <<now, held, nextPass, page, app, wanted, actual,
                     missingSince>>
  PROVE  MissingIsSeen' /\ StartsMove'
BY DEF MissingIsSeen, StartsMove, Moves, Hurries, Unserved, Since, Outcome,
       Passed, IsSorted, LastPass, held

(* The steps of a pass.                                                    *)
LEMMA PassMoves ==
  ASSUME PowersOfTwo, GraceIsShort, TypeOK, MarksInv, now >= 1, KeepsUp,
         ReadIsStored, SenderIsCareful, MissingIsSeen, StartsMove,
         faults' = faults, ~Fault, AnalyzerActs
  PROVE  StartsMove'
<1>1. UNCHANGED missingSince
  BY DEF AnalyzerActs
<1> QED
  BY <1>1, ReadsMove, AnalysisMoves, SavesMove, SendMoves, PostMoves,
     HoldMoves, RestMoves
  DEF AnalyzerActs, AnalyzerStep, PostStartFails, PostStopFails, PassFails,
      ProcessDies

(* At the start no start is queued, and what is missing is so since now.   *)
LEMMA InitMissing == Init => MissingInv
<1> SUFFICES ASSUME Init PROVE MissingIsSeen /\ StartsMove
  BY DEF MissingInv
<1>1. /\ pc = "idle" /\ now = 1 /\ nextPass = 1 /\ page = NotFetched
      /\ starts = NoStarts /\ wanted \in Wanted
      /\ missingSince = [index \in Indices |->
           IF IsMissing(index, wanted, actual) THEN now ELSE 0]
  BY DEF Init, SharedInit, AnalyzerInit
<1>2. \A index \in Indices :
        /\ Since(index) \in {0, 1}
        /\ Since(index) # 0 => HasNone(actual, index) /\ Wants(wanted, index)
  BY <1>1, MissingMeans DEF Since
<1>3. MissingIsSeen
  BY <1>1, <1>2 DEF MissingIsSeen
<1>4. PollingInterval \in Nat \ {0} /\ MaximumBackoffDelay \in Nat
  BY InitTypeOK, Numbers
<1>5. ASSUME NEW index \in Indices
      PROVE  /\ Moves(Outcome(index), Passed(index))
             /\ Hurries(index, Outcome(index), Passed(index))
  <2>1. Outcome(index) = NoStart /\ Passed(index) = 1 - PollingInterval
    BY <1>1 DEF Outcome, Passed, IsSorted, LastPass, NoStarts
  <2> QED
    BY <1>2, <1>4, <2>1, AbsentNotQueued DEF Moves, Hurries, Unserved
<1> QED
  BY <1>1, <1>3, <1>5 DEF StartsMove

(* Every step keeps the invariant.                                         *)
LEMMA NextMissing ==
  ASSUME PowersOfTwo, PassesKeepUp, GraceIsShort
  PROVE  TypeOK /\ MarksInv /\ KeepAliveInv /\ PaceInv /\ MissingInv
           /\ [Next]_vars => MissingInv'
<1> SUFFICES ASSUME TypeOK, MarksInv, KeepAliveInv, PaceInv, MissingInv,
                    [Next]_vars, Quiet'
             PROVE  MissingIsSeen' /\ StartsMove'
  BY DEF MissingInv
<1>1. /\ Quiet /\ faults = 0 /\ faults' = 0 /\ ~Fault
      /\ MissingIsSeen /\ StartsMove
      /\ now >= 1 /\ KeepsUp /\ OthersAreQuiet /\ ReadIsStored
      /\ SenderIsCareful
  BY QuietBefore DEF Quiet, Fault, MissingInv, PaceInv, KeepAliveInv
<1>2. CASE Tick
  BY <1>1, <1>2, TickSees, TickMoves
<1>3. CASE \/ \E guid \in Guids, state \in State \cup {NoHeartbeat} :
                ReportHeartbeat(guid, state)
           \/ \E desired \in Wanted : ChangeDesired(desired)
  BY <1>1, <1>3, ChangesAreSeen, ChangesMove
<1>4. CASE AnalyzerActs
  BY <1>1, <1>4, PassSees, PassMoves
<1>5. CASE EvacuatorActs \/ ListenerActs
  <2>1. UNCHANGED <<now, held>>
    BY <1>1, <1>5, OthersChangeNothing
  <2>2. UNCHANGED <<nextPass, page, app, wanted, actual, missingSince>>
    BY <1>5
    DEF EvacuatorActs, EvacuatorStep, HandleExited, EvacuatorSends,
        EvacuatorSendFails, EvacuatorKeeps, ListenerActs, ListenerStep,
        ListenerSends, ListenerSendFails, ListenerHolds, ListenerKeeps,
        ListenerGivesUp, ListenerDies, shared, analyzerVars
  <2> QED
    BY <1>1, <2>1, <2>2, SameMissing
<1>6. CASE TimeIsUp \/ UNCHANGED vars
  <2>1. UNCHANGED <<now, held, nextPass, page, app, wanted, actual,
                    missingSince>>
    BY <1>6 DEF TimeIsUp, vars, shared, messages, accepted, analyzerVars,
                pending, queues, history, held
  <2> QED
    BY <1>1, <2>1, SameMissing
<1> QED
  BY <1>2, <1>3, <1>4, <1>5, <1>6 DEF Next, Environment

(* What the invariants say of an index that has been missing for long.     *)
LEMMA LateIsServed ==
  ASSUME TypeOK, MarksInv, KeepAliveInv, PaceInv, MissingInv, Quiet,
         NEW index \in Indices, Unserved(index)
  PROVE  now <= Since(index) + RestartBound
<1> DEFINE m == Outcome(index)
<1>1. /\ MissingIsSeen /\ StartsMove /\ KeepsUp /\ ReadIsStored
      /\ now >= 1
  BY DEF MissingInv, PaceInv, KeepAliveInv, Quiet
<1>2. /\ now \in Nat /\ PollingInterval \in Nat \ {0}
      /\ MaximumBackoffDelay \in Nat /\ GracePeriod \in Nat
      /\ Since(index) \in Nat /\ Passed(index) \in Int
      /\ m \in PendingStartMessage /\ nextPass \in Nat
  BY Numbers, MovingTypes
<1>3. m.sendOn \in Int /\ m.sentOn \in Int /\ m.keepAlive \in Int
  BY <1>2 DEF PendingStartMessage
<1>4. now <= LastPass + PollingInterval /\ Passed(index) >= now - 2 * PollingInterval
  BY <1>1, <1>2 DEF KeepsUp, Paced, OnTime, LastPass, Passed
<1>5. /\ Moves(m, Passed(index))
      /\ Hurries(index, m, Passed(index))
  BY <1>1 DEF StartsMove
<1>6. CASE ~Queued(m)
  BY <1>2, <1>4, <1>5, <1>6 DEF Hurries, RestartBound
<1>7. CASE Queued(m) /\ HasBeenSent(m)
  <2>1. IsTrueMark(m, startsAccepted[index])
    <3>1. /\ IsTrueMark(starts[index], startsAccepted[index])
          /\ IsTrueMark(startMessagesToSave[index], startsAccepted[index])
      <4>1. DOMAIN startMessagesToSave = Indices
        BY Numbers
      <4> QED
        BY <4>1
        DEF MarksInv, SentMarksAreTrue, CopiedMarksAreTrue, AllTrueMarks
    <3> QED
      BY <1>7, <3>1, AbsentNotQueued DEF Outcome
  <2>2. m.sentOn < Since(index)
    BY <1>7, <2>1 DEF IsTrueMark, Unserved
  <2>3. m.keepAlive <= GracePeriod /\ m.sentOn + m.keepAlive > Passed(index)
    BY <1>2, <1>5, <1>7 DEF Moves
  <2> HIDE DEF m
  <2> QED
    BY <1>2, <1>3, <1>4, <2>2, <2>3 DEF RestartBound
<1>8. CASE Queued(m) /\ ~HasBeenSent(m)
  <2>1. m.sendOn <= Since(index) + MaximumBackoffDelay + GracePeriod
                      + PollingInterval
    BY <1>5, <1>8 DEF Hurries
  <2>2. m = starts[index]
        /\ (pc \in {"post", "keepStarts", "deleteStarts"} =>
              index \notin startMessagesToDelete)
    <3>1. Queued(startMessagesToSave[index]) =>
            HasBeenSent(startMessagesToSave[index])
      <4>1. DOMAIN startMessagesToSave = Indices
        BY Numbers
      <4> QED
        BY <1>1, <4>1 DEF KeepsUp, Paced, OldestGoFirst, QueuedKeys
    <3> QED
      BY <1>8, <3>1, AbsentNotQueued DEF Outcome
  <2>3. m.sendOn >= now - 2 * PollingInterval
    <3> SUFFICES ASSUME m.sendOn < now - 2 * PollingInterval PROVE FALSE
      BY <1>2, <1>3
    <3> HIDE DEF m
    <3>1. CASE pc \in {"idle", "keepStops", "deleteStops"}
      <4>1. m.sendOn < LastPass - PollingInterval
        BY <1>2, <1>3, <1>4 DEF LastPass
      <4>2. index \in OverdueKeys(starts, LastPass - PollingInterval)
        BY <1>8, <2>2, <4>1 DEF OverdueKeys, Overdue
      <4> QED
        BY <1>1, <3>1, <4>2 DEF KeepsUp, Paced, WaitsAreShort
    <3>2. CASE pc \notin {"idle", "keepStops", "deleteStops"}
      <4>1. LastPass = now
        BY <1>1, <3>2, PassTimes DEF KeepsUp, Paced
      <4>2. index \in OverdueKeys(starts, LastPass - 2 * PollingInterval)
        BY <1>8, <2>2, <4>1 DEF OverdueKeys, Overdue
      <4> QED
        BY <1>1, <3>2, <4>2 DEF KeepsUp, Paced, WaitsAreShort
    <3> QED
      BY <3>1, <3>2
  <2> HIDE DEF m
  <2> QED
    BY <1>2, <1>3, <2>1, <2>3 DEF RestartBound
<1> QED
  BY <1>6, <1>7, <1>8

(* MissingIsStarted: while nothing fails, no instance evacuates and the    *)
(* passes keep up, an index that stays missing is started in time,         *)
(* whatever was queued for it before it went missing: a crashed start held *)
(* back by the backoff, or one already sent (app_analyzer.go:47-60).       *)
THEOREM MissingAreStarted ==
  ASSUME PowersOfTwo, PassesKeepUp, GraceIsShort
  PROVE  Spec => [](Quiet => MissingIsStarted)
<1> DEFINE Inv == TypeOK /\ MarksInv /\ KeepAliveInv /\ PaceInv /\ MissingInv
<1>1. Init => Inv
  BY InitTypeOK, InitMarks, InitKeepAlive, InitPace, InitMissing
<1>2. Inv /\ [Next]_vars => Inv'
  BY NextTypeOK, NextMarks, NextKeepAlive, NextPace, NextMissing
<1>3. Inv => (Quiet => MissingIsStarted)
  <2> SUFFICES ASSUME Inv, Quiet, NEW index \in Indices,
                      missingSince[index] \in 1..now - RestartBound - 1
               PROVE  \E k \in DOMAIN startsAccepted[index] :
                        startsAccepted[index][k].at >= missingSince[index]
    BY DEF MissingIsStarted
  <2>1. /\ now \in Nat /\ RestartBound \in Nat
        /\ missingSince[index] \in Nat
        /\ \A k \in DOMAIN startsAccepted[index] :
             startsAccepted[index][k].at \in Nat
    <3>1. now \in Nat /\ RestartBound \in Nat
      BY Numbers, DelaysAssumption DEF RestartBound
    <3>2. missingSince[index] \in Nat
      BY MovingTypes DEF Since
    <3> QED
      BY <3>1, <3>2, AcceptedType
  <2>2. ~Unserved(index)
    BY <2>1, LateIsServed DEF Since
  <2> QED
    BY <2>1, <2>2 DEF Unserved, Since
<1> QED
  BY <1>1, <1>2, <1>3, PTL DEF Spec

---------------------------------------------------------------------------
(* The stops of duplicates.  The first of two is due a grace period before *)
(* the second, and a pass comes in between.                                *)

(* Passes take no time, no index has more than two instances, and of the   *)
(* passes after an analysis one falls between the times at which the two   *)
(* stops it makes are due.                                                 *)
PassesSplitStops ==
  /\ PromptPasses
  /\ \A f, g, h \in Guids :
       IndexOf[f] = IndexOf[g] /\ IndexOf[g] = IndexOf[h] =>
         f = g \/ g = h \/ f = h
  /\ GracePeriod <= PollingInterval
  /\ \E k \in Nat : /\ 4 * GracePeriod <= k * PollingInterval
                    /\ k * PollingInterval < 5 * GracePeriod

Siblings(g, h) == g # h /\ IndexOf[g] = IndexOf[h]

(* The instances that have not been asked to stop.                         *)
Unasked == {guid \in Guids : stopsAccepted[guid] = <<>>}

(* One of the passes at this time and every polling interval from then on. *)
PassBetween(first, second, time) ==
  \E k \in Nat : /\ first <= time + k * PollingInterval
                 /\ time + k * PollingInterval < second

(* A pass finds the one stop due and the other not.                        *)
InTurn(m, n, time) ==
  /\ n.sendOn <= m.sendOn + GracePeriod
  /\ PassBetween(m.sendOn, n.sendOn, time)

(* Between passes: of two siblings with stops one is stopped first, and    *)
(* the stop of a single one is due when the next pass comes.               *)
WaitApart(map, guids, time) ==
  \A g, h \in guids :
    Siblings(g, h) /\ Queued(map[g]) =>
      IF Queued(map[h])
      THEN InTurn(map[g], map[h], time) \/ InTurn(map[h], map[g], time)
      ELSE map[g].sendOn <= time

AreDuplicates(g, h) ==
  /\ app.desired.desired
  /\ IsIndexDesired(app, IndexOf[g])
  /\ {g, h} \subseteq StartingOrRunningInstancesAtIndex(app, IndexOf[g])

(* The one is stopped by this pass, the other stays.                       *)
GoesFirst(g, h, map) ==
  map[g].sendOn <= now /\ now < map[h].sendOn /\ ShouldStop(g)

(* After the analysis there may be new stops.                              *)
Decided(map) ==
  \A g, h \in Unasked :
    Siblings(g, h) /\ Queued(map[g]) =>
      IF Queued(map[h])
      THEN \/ InTurn(map[g], map[h], now) \/ InTurn(map[h], map[g], now)
           \/ GoesFirst(g, h, map) \/ GoesFirst(h, g, map)
           \/ /\ map[g].sendOn <= now /\ map[h].sendOn <= now
              /\ ~AreDuplicates(g, h)
      ELSE map[g].sendOn <= now

(* What will be stored when the sender has deleted what it is to delete.   *)
StopsLeft ==
  [guid \in Guids |-> IF guid \in stopMessagesToDelete THEN NoStop
                      ELSE stops[guid]]

(* The sender sends only one of two duplicates, and what it verified.      *)
ToStop == stopsToSend \cup QueuedKeys(stopMessagesToSave)
SparesOne ==
  /\ \A guid \in ToStop : ShouldStop(guid)
  /\ \A g, h \in ToStop :
       Siblings(g, h) /\ AreDuplicates(g, h) =>
         AskedBefore(g) \/ AskedBefore(h)

PassTime == IF pc = "idle" THEN nextPass ELSE now

(* What was sent was sent by this pass or at the time of an earlier one.   *)
AskedInTime ==
  \A guid \in Guids : \A k \in DOMAIN stopsAccepted[guid] :
    /\ stopsAccepted[guid][k].at <= PassTime
    /\ pc \notin SenderPoint => stopsAccepted[guid][k].at < PassTime

StopsApart ==
  /\ pc \in {"idle"} \cup ReadingPoint => WaitApart(stops, Unasked, PassTime)
  /\ pc \in SavingPoint => Decided(pendingStops)
  /\ pc = "verify" => Decided(stops)
  /\ pc \in SenderPoint =>
       /\ WaitApart(StopsLeft, Unasked \ stopsToSend, nextPass)
       /\ SparesOne
  /\ pc \in SenderPoint \ {"post"} => stopsToSend = {}

DuplicateInv == faults = 0 => OnTime /\ AskedInTime /\ StopsApart

(* What these say something of.                                            *)
apart == <<pc, nextPass, currentTime, app, stops, stopsAccepted, pendingStops,
           stopsToSend, stopMessagesToSave, stopMessagesToDelete>>

---------------------------------------------------------------------------
(* The next pass is a polling interval later.                              *)
LEMMA NextIsBetween ==
  ASSUME NEW first \in Int, NEW second \in Int, NEW time \in Int,
         PassBetween(first, second, time)
  PROVE  /\ time < second
         /\ time < first => PassBetween(first, second, time + PollingInterval)
<1>1. PICK k \in Nat : /\ first <= time + k * PollingInterval
                       /\ time + k * PollingInterval < second
  BY DEF PassBetween
<1>2. PollingInterval \in Nat \ {0}
  BY PollingAssumption
<1> DEFINE later == k * PollingInterval
<1>3. later \in Nat
  BY <1>2
<1>4. k = 0 => later = 0
  BY <1>2
<1>5. k # 0 => k - 1 \in Nat /\ later = PollingInterval + (k - 1) * PollingInterval
  BY <1>2
<1>6. time < second
  BY <1>1, <1>3
<1>7. ASSUME time < first
      PROVE  PassBetween(first, second, time + PollingInterval)
  <2>1. k # 0
    BY <1>1, <1>4, <1>7
  <2> DEFINE before == (k - 1) * PollingInterval
  <2>2. before \in Int
    BY <1>2
  <2>3. later = PollingInterval + before
    BY <1>5, <2>1
  <2> HIDE DEF later, before
  <2>4. time + later = time + PollingInterval + before
    BY <1>2, <1>3, <2>2, <2>3
  <2>5. /\ first <= time + PollingInterval + before
        /\ time + PollingInterval + before < second
    BY <1>1, <2>4 DEF later
  <2> QED
    BY <1>5, <2>1, <2>5 DEF PassBetween, before
<1> QED
  BY <1>6, <1>7

(* The stops of two duplicates are staggered.                              *)
LEMMA AnalysisSplits ==
  ASSUME PassesSplitStops, NEW time \in Int
  PROVE  PassBetween(time + 4 * GracePeriod, time + 5 * GracePeriod, time)
<1>1. PICK k \in Nat : /\ 4 * GracePeriod <= k * PollingInterval
                       /\ k * PollingInterval < 5 * GracePeriod
  BY DEF PassesSplitStops
<1>2. GracePeriod \in Nat /\ PollingInterval \in Nat
  BY DelaysAssumption, PollingAssumption
<1> DEFINE later == k * PollingInterval
<1>3. later \in Nat /\ 4 * GracePeriod <= later /\ later < 5 * GracePeriod
  BY <1>1, <1>2
<1> HIDE DEF later
<1>4. time + 4 * GracePeriod <= time + later /\ time + later < time + 5 * GracePeriod
  BY <1>2, <1>3
<1> QED
  BY <1>4 DEF PassBetween, later

(* More than one instance runs at the index of a sibling only if both do.  *)
LEMMA TwoRun ==
  ASSUME PassesSplitStops, NEW x, NEW g \in Guids, NEW h \in Guids,
         Siblings(g, h)
  PROVE  Cardinality(StartingOrRunningInstancesAtIndex(x, IndexOf[g])) > 1
           <=> StartingOrRunningInstancesAtIndex(x, IndexOf[g]) = {g, h}
<1> DEFINE S == StartingOrRunningInstancesAtIndex(x, IndexOf[g])
<1>1. S \subseteq {g, h}
  BY DEF StartingOrRunningInstancesAtIndex, InstanceHeartbeatsAtIndex,
         Siblings, PassesSplitStops
<1>2. g # h
  BY DEF Siblings
<1>3. IsFiniteSet({g}) /\ Cardinality({g}) = 1
      /\ IsFiniteSet({h}) /\ Cardinality({h}) = 1
  BY FS_Singleton
<1>4. Cardinality({g, h}) = 2
  <2>1. {g, h} = {g} \cup {h} /\ h \notin {g}
    BY <1>2
  <2> QED
    BY <1>3, <2>1, FS_AddElement
<1> HIDE DEF S
<1>5. CASE S = {g, h}
  BY <1>4, <1>5 DEF S
<1>6. CASE S \subseteq {g} \/ S \subseteq {h}
  <2>1. Cardinality(S) <= 1
    BY <1>3, <1>6, FS_Subset
  <2>2. IsFiniteSet(S)
    BY <1>3, <1>6, FS_Subset
  <2>3. Cardinality(S) \in Nat
    BY <2>2, FS_CardinalityType
  <2>4. S # {g, h}
    BY <1>2, <1>6
  <2> QED
    BY <2>1, <2>3, <2>4 DEF S
<1> QED
  BY <1>1, <1>5, <1>6

(* When it is due, a new stop is one of a duplicate, or due at once and of *)
(* an instance that is not to run where it does.                           *)
LEMMA NewStopTimes ==
  ASSUME NEW a, a.now \in Nat, NEW guid \in Guids, Queued(NewStop(a, guid))
  PROVE  \/ /\ StopsDuplicate(a, guid)
            /\ NewStop(a, guid).sendOn = a.now + DuplicateDelay(a, guid)
         \/ /\ NewStop(a, guid).sendOn = a.now
            /\ \/ ~IsIndexDesired(a.app, IndexOf[guid])
               \/ ~IsStartingOrRunning(a.app.heartbeats[guid])
<1>1. ~Queued(a.stops[guid])
  BY StopReasons
<1>2. CASE StopsEvacuatingExtra(a, guid) \/ StopsExtra(a, guid)
  <2>1. NewStop(a, guid).sendOn = a.now + 0
    BY <1>1, <1>2 DEF NewStop, NewPendingStopMessage
  <2>2. \/ ~IsIndexDesired(a.app, IndexOf[guid])
        \/ ~IsStartingOrRunning(a.app.heartbeats[guid])
    BY <1>2 DEF StopsEvacuatingExtra, StopsExtra,
                ExtraStartingOrRunningInstances
  <2> QED
    BY <2>1, <2>2
<1>3. CASE /\ ~(StopsEvacuatingExtra(a, guid) \/ StopsExtra(a, guid))
           /\ StopsEvacuated(a, guid)
  <2>1. NewStop(a, guid).sendOn = a.now + 0
    BY <1>1, <1>3 DEF NewStop, NewPendingStopMessage
  <2>2. ~IsStartingOrRunning(a.app.heartbeats[guid])
    BY <1>3 DEF StopsEvacuated, IsStartingOrRunning
  <2> QED
    BY <2>1, <2>2
<1>4. CASE /\ ~(StopsEvacuatingExtra(a, guid) \/ StopsExtra(a, guid))
           /\ ~StopsEvacuated(a, guid)
  <2>1. StopsDuplicate(a, guid)
    BY <1>4, StopReasons
  <2>2. NewStop(a, guid).sendOn = a.now + DuplicateDelay(a, guid)
    BY <1>1, <1>4, <2>1 DEF NewStop, NewPendingStopMessage
  <2> QED
    BY <2>1, <2>2
<1> QED
  BY <1>2, <1>3, <1>4

(* A duplicate's sibling is one as well.                                   *)
LEMMA BothAreDuplicates ==
  ASSUME PassesSplitStops, NEW a, NEW g \in Guids, NEW h \in Guids,
         Siblings(g, h), StopsDuplicate(a, g)
  PROVE  /\ IsIndexDesired(a.app, IndexOf[g])
         /\ Duplicates(a, g) = {g, h} /\ Duplicates(a, h) = {g, h}
         /\ IsStartingOrRunning(a.app.heartbeats[g])
         /\ IsStartingOrRunning(a.app.heartbeats[h])
         /\ ~Queued(a.stops[h]) => Queued(NewStop(a, h))
<1>1. /\ StartsNothing(a) /\ IsIndexDesired(a.app, IndexOf[g])
      /\ Cardinality(Duplicates(a, g)) > 1
  BY DEF StopsDuplicate
<1>2. Duplicates(a, g) = {g, h}
  BY <1>1, TwoRun DEF Duplicates
<1>3. Duplicates(a, h) = Duplicates(a, g)
  BY DEF Duplicates, Siblings
<1>4. /\ IsStartingOrRunning(a.app.heartbeats[g])
      /\ IsStartingOrRunning(a.app.heartbeats[h])
  <2>1. g \in Duplicates(a, g) /\ h \in Duplicates(a, g)
    BY <1>2
  <2> QED
    BY <2>1 DEF Duplicates, StartingOrRunningInstancesAtIndex
<1>5. StopsDuplicate(a, h)
  BY <1>1, <1>2, <1>3 DEF StopsDuplicate, Siblings
<1>6. ~Queued(a.stops[h]) => Queued(NewStop(a, h))
  BY <1>5, StopReasons
<1> QED
  BY <1>1, <1>2, <1>3, <1>4, <1>6

(* The delays of two duplicates.                                           *)
LEMMA TwoDelays ==
  ASSUME NEW a, NEW g \in Guids, NEW h \in Guids, g # h,
         Duplicates(a, g) = {g, h}, Duplicates(a, h) = {g, h},
         \A x \in Guids : a.order[x] \in Int, a.order[g] < a.order[h]
  PROVE  /\ DuplicateDelay(a, g) = 4 * GracePeriod
         /\ DuplicateDelay(a, h) = 5 * GracePeriod
<1>1. a.order[g] \in Int /\ a.order[h] \in Int
  OBVIOUS
<1>2. DuplicatesBefore(a, g) = {}
  BY <1>1 DEF DuplicatesBefore
<1>3. DuplicatesBefore(a, h) = {g}
  BY <1>1 DEF DuplicatesBefore
<1>4. Cardinality({}) = 0 /\ Cardinality({g}) = 1
  BY FS_EmptySet, FS_Singleton
<1>5. /\ DuplicateDelay(a, g) = 4 * GracePeriod + GracePeriod * 0
      /\ DuplicateDelay(a, h) = 4 * GracePeriod + GracePeriod * 1
  BY <1>2, <1>3, <1>4, DuplicatesCounted
<1> QED
  BY <1>5, DelaysAssumption

(* Of two siblings that have both a new stop.                              *)
LEMMA BothNew ==
  ASSUME PassesSplitStops, NEW a, a.now \in Nat,
         \A x \in Guids : a.order[x] \in Int,
         \A x, y \in Guids : a.order[x] = a.order[y] => x = y,
         NEW g \in Guids, NEW h \in Guids, Siblings(g, h),
         Queued(NewStop(a, g)), Queued(NewStop(a, h))
  PROVE  \/ InTurn(NewStop(a, g), NewStop(a, h), a.now)
         \/ InTurn(NewStop(a, h), NewStop(a, g), a.now)
         \/ /\ NewStop(a, g).sendOn = a.now /\ NewStop(a, h).sendOn = a.now
            /\ \/ ~IsIndexDesired(a.app, IndexOf[g])
               \/ ~IsStartingOrRunning(a.app.heartbeats[g])
<1>1. Siblings(h, g) /\ IndexOf[g] = IndexOf[h] /\ g # h
  BY DEF Siblings
<1>2. CASE StopsDuplicate(a, g) \/ StopsDuplicate(a, h)
  <2>1. /\ IsIndexDesired(a.app, IndexOf[g])
        /\ Duplicates(a, g) = {g, h} /\ Duplicates(a, h) = {g, h}
        /\ IsStartingOrRunning(a.app.heartbeats[g])
        /\ IsStartingOrRunning(a.app.heartbeats[h])
    BY <1>1, <1>2, BothAreDuplicates
  <2>2. /\ NewStop(a, g).sendOn = a.now + DuplicateDelay(a, g)
        /\ NewStop(a, h).sendOn = a.now + DuplicateDelay(a, h)
    BY <1>1, <2>1, NewStopTimes
  <2>3. ASSUME NEW x \in {g, h}, NEW y \in {g, h}, a.order[x] < a.order[y]
        PROVE  InTurn(NewStop(a, x), NewStop(a, y), a.now)
    <3>1. a.order[x] \in Int
      OBVIOUS
    <3>2. x # y
      BY <2>3, <3>1
    <3>3. /\ DuplicateDelay(a, x) = 4 * GracePeriod
          /\ DuplicateDelay(a, y) = 5 * GracePeriod
      BY <1>1, <2>1, <2>3, <3>2, TwoDelays
    <3>4. /\ NewStop(a, x).sendOn = a.now + 4 * GracePeriod
          /\ NewStop(a, y).sendOn = a.now + 5 * GracePeriod
      BY <2>2, <3>3
    <3>5. a.now + 5 * GracePeriod <= a.now + 4 * GracePeriod + GracePeriod
      BY DelaysAssumption
    <3>6. PassBetween(a.now + 4 * GracePeriod, a.now + 5 * GracePeriod, a.now)
      BY AnalysisSplits
    <3> QED
      BY <3>4, <3>5, <3>6 DEF InTurn
  <2>4. a.order[g] < a.order[h] \/ a.order[h] < a.order[g]
    <3>1. a.order[g] # a.order[h] /\ a.order[g] \in Int /\ a.order[h] \in Int
      BY <1>1
    <3> QED
      BY <3>1
  <2> QED
    BY <2>3, <2>4
<1>3. CASE ~StopsDuplicate(a, g) /\ ~StopsDuplicate(a, h)
  BY <1>3, NewStopTimes
<1> QED
  BY <1>2, <1>3

(* A sibling of an instance with a due stop gets one.                      *)
LEMMA OneNew ==
  ASSUME PassesSplitStops, NEW a, a.now \in Nat,
         NEW g \in Guids, NEW h \in Guids, Siblings(g, h),
         Queued(a.stops[g]), Queued(NewStop(a, h))
  PROVE  \/ /\ NewStop(a, h).sendOn = a.now
            /\ \/ ~IsIndexDesired(a.app, IndexOf[h])
               \/ ~IsStartingOrRunning(a.app.heartbeats[h])
         \/ /\ NewStop(a, h).sendOn > a.now
            /\ Duplicates(a, g) = {g, h}
<1>1. Siblings(h, g)
  BY DEF Siblings
<1>2. CASE StopsDuplicate(a, h)
  <2>1. /\ IsIndexDesired(a.app, IndexOf[h])
        /\ IsStartingOrRunning(a.app.heartbeats[h])
        /\ Duplicates(a, g) = {g, h}
    BY <1>1, <1>2, BothAreDuplicates
  <2>2. NewStop(a, h).sendOn = a.now + DuplicateDelay(a, h)
    BY <2>1, NewStopTimes
  <2>3. DuplicateDelay(a, h) \in Int /\ DuplicateDelay(a, h) >= 4 * GracePeriod
    BY DuplicatesWait
  <2>4. a.now + DuplicateDelay(a, h) > a.now
    BY <2>3, DelaysAssumption
  <2> QED
    BY <2>1, <2>2, <2>4
<1>3. CASE ~StopsDuplicate(a, h)
  BY <1>3, NewStopTimes
<1> QED
  BY <1>2, <1>3

(* An instance whose sibling gets none.                                    *)
LEMMA AloneNew ==
  ASSUME PassesSplitStops, NEW a, a.now \in Nat,
         NEW g \in Guids, NEW h \in Guids, Siblings(g, h),
         Queued(NewStop(a, g)), ~Queued(a.stops[h]), ~Queued(NewStop(a, h))
  PROVE  NewStop(a, g).sendOn = a.now
<1>1. ~StopsDuplicate(a, g)
  BY BothAreDuplicates
<1> QED
  BY <1>1, NewStopTimes

(* The types of what is stored, and of what is about to be.                *)
LEMMA StopTypes ==
  ASSUME TypeOK
  PROVE  /\ stops \in [Guids -> PendingStopMessage]
         /\ pendingStops \in [Guids -> PendingStopMessage]
         /\ analysis.stops \in [Guids -> PendingStopMessage]
         /\ stopMessagesToSave \in [Guids -> PendingStopMessage]
         /\ stopsToSend \subseteq Guids /\ stopMessagesToDelete \subseteq Guids
         /\ stopsAccepted \in [Guids -> Seq(Acceptance)]
         /\ \A guid \in Guids : /\ stops[guid].sendOn \in Int
                                /\ pendingStops[guid].sendOn \in Int
         /\ now \in Nat /\ nextPass \in Nat /\ currentTime \in Nat
         /\ PollingInterval \in Nat \ {0} /\ GracePeriod \in Nat \ {0}
<1>1. /\ stops \in [Guids -> PendingStopMessage]
      /\ pendingStops \in [Guids -> PendingStopMessage]
      /\ analysis.stops \in [Guids -> PendingStopMessage]
      /\ stopMessagesToSave \in [Guids -> PendingStopMessage]
      /\ stopsToSend \subseteq Guids /\ stopMessagesToDelete \subseteq Guids
      /\ stopsAccepted \in [Guids -> Seq(Acceptance)]
      /\ now \in Nat /\ nextPass \in Nat /\ currentTime \in Nat
  BY DEF TypeOK, SharedTypeOK, AnalyzerTypeOK
<1>2. \A m \in PendingStopMessage : m.sendOn \in Int
  BY DEF PendingStopMessage
<1> QED
  BY <1>1, <1>2, PollingAssumption, DelaysAssumption

(* The analysis.                                                           *)
LEMMA AnalysisDecides ==
  ASSUME PassesSplitStops, TypeOK, pendingStops = stops, AnalyzeApp,
         WaitApart(stops, Unasked, now)
  PROVE  Decided(pendingStops)'
<1>1. PICK order \in Orders :
        analysis' = Analysis([app |-> app', now |-> now, order |-> order,
                              starts |-> pendingStarts, stops |-> pendingStops])
  BY DEF AnalyzeApp
<1> DEFINE a == [app |-> app', now |-> now, order |-> order,
                 starts |-> pendingStarts, stops |-> pendingStops]
<1>2. a.stops = stops /\ a.now = now /\ a.app = app' /\ a.order = order
  OBVIOUS
<1> HIDE DEF a
<1>3. analysis' = Analysis(a)
  BY <1>1 DEF a
<1>4. \A guid \in Guids : analysis'.stops[guid] = NewStop(a, guid)
  BY <1>3 DEF Analysis, NewStops
<1>5. /\ now' = now /\ now \in Nat /\ stopsAccepted' = stopsAccepted
      /\ a.now \in Nat
  BY <1>2, StopTypes DEF AnalyzeApp, shared, accepted
<1>6. /\ \A x \in Guids : a.order[x] \in Int
      /\ \A x, y \in Guids : a.order[x] = a.order[y] => x = y
  <2>1. Cardinality(Guids) \in Nat
    BY InstancesAssumption, FS_CardinalityType
  <2>2. \A x \in 0..Cardinality(Guids) - 1 : x \in Int
    BY <2>1
  <2>3. /\ order \in [Guids -> 0..Cardinality(Guids) - 1]
        /\ \A x, y \in Guids : order[x] = order[y] => x = y
    BY DEF Orders
  <2> QED
    BY <1>2, <2>2, <2>3
<1>7. analysis'.stops \in [Guids -> PendingStopMessage]
  BY ReadingTypeOK DEF TypeOK, AnalyzerTypeOK
<1>8. /\ stops \in [Guids -> PendingStopMessage]
      /\ \A guid \in Guids : stops[guid].sendOn \in Int
  BY StopTypes
<1>9. \A guid \in Guids :
        /\ Queued(stops[guid]) =>
             ~Queued(NewStop(a, guid)) /\ pendingStops'[guid] = stops[guid]
        /\ Queued(NewStop(a, guid)) => pendingStops'[guid] = NewStop(a, guid)
        /\ ~Queued(NewStop(a, guid)) => pendingStops'[guid] = stops[guid]
  <2>1. \A guid \in Guids : Queued(stops[guid]) => ~Queued(NewStop(a, guid))
    BY <1>2, StopReasons
  <2>2. \A guid \in Guids :
          pendingStops'[guid] = IF Queued(NewStop(a, guid))
                                THEN NewStop(a, guid) ELSE stops[guid]
    BY <1>4, <1>7, <1>8 DEF AnalyzeApp, Write, QueuedKeys
  <2> QED
    BY <2>1, <2>2
<1> SUFFICES ASSUME NEW g \in Unasked, NEW h \in Unasked, Siblings(g, h),
                    Queued(pendingStops'[g])
             PROVE  IF Queued(pendingStops'[h])
                    THEN \/ InTurn(pendingStops'[g], pendingStops'[h], now)
                         \/ InTurn(pendingStops'[h], pendingStops'[g], now)
                         \/ GoesFirst(g, h, pendingStops)'
                         \/ GoesFirst(h, g, pendingStops)'
                         \/ /\ pendingStops'[g].sendOn <= now
                            /\ pendingStops'[h].sendOn <= now
                            /\ ~AreDuplicates(g, h)'
                    ELSE pendingStops'[g].sendOn <= now
  BY <1>5 DEF Decided, Unasked
<1>10. g \in Guids /\ h \in Guids /\ Siblings(h, g) /\ IndexOf[g] = IndexOf[h]
  BY DEF Unasked, Siblings
<1>11. /\ ~IsIndexDesired(app', IndexOf[g]) => ~AreDuplicates(g, h)'
       /\ ~IsStartingOrRunning(app'.heartbeats[g]) => ~AreDuplicates(g, h)'
       /\ ~IsStartingOrRunning(app'.heartbeats[h]) => ~AreDuplicates(g, h)'
  BY DEF AreDuplicates, StartingOrRunningInstancesAtIndex
<1>12. CASE Queued(NewStop(a, g)) /\ Queued(NewStop(a, h))
  BY <1>2, <1>5, <1>6, <1>9, <1>10, <1>11, <1>12, BothNew
<1>13. CASE Queued(NewStop(a, g)) /\ ~Queued(pendingStops'[h])
  BY <1>2, <1>5, <1>9, <1>10, <1>13, AloneNew
<1>14. ASSUME NEW x \in {g, h}, NEW y \in {g, h}, Siblings(x, y),
              Queued(stops[x]), Queued(NewStop(a, y))
       PROVE  \/ GoesFirst(x, y, pendingStops)'
              \/ /\ pendingStops'[x].sendOn <= now
                 /\ pendingStops'[y].sendOn <= now
                 /\ ~AreDuplicates(g, h)'
  <2>1. x \in Unasked /\ y \in Unasked /\ x \in Guids /\ y \in Guids
    BY <1>10
  <2>2. ~Queued(stops[y])
    BY <1>9, <1>14, <2>1
  <2>3. stops[x].sendOn <= now
    BY <1>14, <2>1, <2>2 DEF WaitApart
  <2>4. pendingStops'[x] = stops[x] /\ pendingStops'[y] = NewStop(a, y)
    BY <1>9, <1>14, <2>1
  <2>5. CASE /\ NewStop(a, y).sendOn = a.now
             /\ \/ ~IsIndexDesired(a.app, IndexOf[y])
                \/ ~IsStartingOrRunning(a.app.heartbeats[y])
    <3>1. ~AreDuplicates(g, h)'
      BY <1>2, <1>10, <1>11, <2>5
    <3> QED
      BY <1>2, <1>5, <2>3, <2>4, <2>5, <3>1
  <2>6. CASE NewStop(a, y).sendOn > a.now /\ Duplicates(a, x) = {x, y}
    <3>1. StartingOrRunningInstancesAtIndex(app', IndexOf[x]) = {x, y}
      BY <1>2, <2>6 DEF Duplicates
    <3>2. /\ Cardinality(StartingOrRunningInstancesAtIndex(app', IndexOf[x])) > 1
      BY <1>14, <2>1, <3>1, TwoRun
    <3>3. app'.heartbeats[x] # NoHeartbeat
      BY <2>1, <3>1 DEF StartingOrRunningInstancesAtIndex,
                        InstanceHeartbeatsAtIndex
    <3>4. ShouldStop(x)'
      BY <2>1, <3>2, <3>3 DEF ShouldStop, ReportedIndex
    <3> QED
      BY <1>2, <1>5, <2>3, <2>4, <2>6, <3>4 DEF GoesFirst
  <2> QED
    BY <1>2, <1>5, <1>14, <2>1, <2>5, <2>6, OneNew
<1>15. CASE Queued(NewStop(a, g)) /\ Queued(stops[h])
  BY <1>9, <1>10, <1>14, <1>15
<1>16. CASE Queued(stops[g]) /\ Queued(NewStop(a, h))
  BY <1>9, <1>10, <1>14, <1>16
<1>17. CASE Queued(stops[g]) /\ ~Queued(NewStop(a, h))
  BY <1>9, <1>10, <1>17 DEF WaitApart
<1> QED
  BY <1>9, <1>10, <1>12, <1>13, <1>15, <1>16, <1>17

(* A stop that was never sent has no mark, in the store or in a copy.      *)
LEMMA UnaskedUnsent ==
  ASSUME TypeOK, MarksInv, NEW guid \in Unasked
  PROVE  /\ ~HasBeenSent(stops[guid])
         /\ ~HasBeenSent(stopMessagesToSave[guid])
<1>1. guid \in Guids /\ stopsAccepted[guid] = <<>>
  BY DEF Unasked
<1>2. /\ IsTrueMark(stops[guid], stopsAccepted[guid])
      /\ IsTrueMark(stopMessagesToSave[guid], stopsAccepted[guid])
  BY <1>1, StopTypes
  DEF MarksInv, SentMarksAreTrue, CopiedMarksAreTrue, AllTrueMarks
<1> QED
  BY <1>1, <1>2 DEF IsTrueMark

(* Send.                                                                   *)
LEMMA SendSpares ==
  ASSUME PassesSplitStops, TypeOK, MarksInv, SenderIsFresh, AskedInTime,
         nextPass = now + PollingInterval, pendingStops = stops, Send,
         Decided(stops)
  PROVE  /\ WaitApart(StopsLeft, Unasked \ stopsToSend, nextPass)'
         /\ SparesOne'
<1>1. /\ pc = "verify" /\ currentTime' = now
      /\ stopsToSend' = {guid \in DueKeys(stops, now) : ShouldStop(guid)}
      /\ stopMessagesToDelete' = ExpiredKeys(stops, now)
           \cup (DueKeys(stops, now) \ stopsToSend')
      /\ UNCHANGED <<now, app, nextPass, stops, stopsAccepted,
                     stopMessagesToSave>>
  BY DEF Send, shared, messages, accepted
<1>2. /\ now \in Nat /\ PollingInterval \in Nat \ {0} /\ GracePeriod \in Nat
      /\ \A guid \in Guids : stops[guid].sendOn \in Int
      /\ DOMAIN stops = Guids
  BY StopTypes
<1>3. \A guid \in Unasked :
        /\ guid \in Guids
        /\ guid \in DueKeys(stops, now) <=>
             Queued(stops[guid]) /\ stops[guid].sendOn <= now
        /\ guid \notin ExpiredKeys(stops, now)
  BY <1>2, UnaskedUnsent
  DEF DueKeys, ExpiredKeys, QueuedKeys, IsTimeToSend, IsExpired, Unasked
<1>4. /\ \A guid : ShouldStop(guid)' <=> ShouldStop(guid)
      /\ \A g, h : AreDuplicates(g, h)' <=> AreDuplicates(g, h)
  BY <1>1 DEF ShouldStop, AreDuplicates
<1>5. ASSUME NEW g \in Unasked, NEW h \in Unasked,
             InTurn(stops[g], stops[h], now)
      PROVE  /\ now < stops[h].sendOn
             /\ stops[h].sendOn <= stops[g].sendOn + GracePeriod
             /\ now < stops[g].sendOn =>
                  InTurn(stops[g], stops[h], now + PollingInterval)
  BY <1>2, <1>3, <1>5, NextIsBetween DEF InTurn
<1>6. ToStop' = stopsToSend'
  <2>1. stopMessagesToSave' = NoStops
    BY <1>1 DEF SenderIsFresh, SenderPoint, StopSendingPoint
  <2>2. QueuedKeys(NoStops) = {}
    BY AbsentNotQueued DEF QueuedKeys, NoStops
  <2> QED
    BY <2>1, <2>2 DEF ToStop
<1>7. SparesOne'
  <2>1. \A guid \in ToStop' : ShouldStop(guid)'
    BY <1>1, <1>4, <1>6
  <2>2. ASSUME NEW g \in ToStop', NEW h \in ToStop',
               Siblings(g, h), AreDuplicates(g, h)',
               ~AskedBefore(g)', ~AskedBefore(h)'
        PROVE  FALSE
    <3>1. ASSUME NEW x \in ToStop', ~AskedBefore(x)'
          PROVE  x \in Unasked
      <4>1. x \in Guids
        BY <1>1, <1>2, <1>6 DEF DueKeys, QueuedKeys
      <4>2. stopsAccepted[x] \in Seq(Acceptance)
        BY <4>1, StopTypes
      <4>3. \A k \in DOMAIN stopsAccepted[x] : stopsAccepted[x][k].at < now
        BY <1>1, <4>1
        DEF AskedInTime, PassTime, SenderPoint, StopSendingPoint
      <4>4. DOMAIN stopsAccepted[x] = {}
        BY <1>1, <3>1, <4>3 DEF AskedBefore
      <4>5. DOMAIN stopsAccepted[x] = 1..Len(stopsAccepted[x])
            /\ Len(stopsAccepted[x]) \in Nat
        BY <4>2
      <4>6. Len(stopsAccepted[x]) = 0
        <5>1. Len(stopsAccepted[x]) # 0 => 1 \in 1..Len(stopsAccepted[x])
          BY <4>5
        <5> QED
          BY <4>4, <4>5, <5>1
      <4>7. stopsAccepted[x] = <<>>
        BY <4>2, <4>6
      <4> QED
        BY <4>1, <4>7 DEF Unasked
    <3>2. g \in Unasked /\ h \in Unasked
      BY <2>2, <3>1
    <3>3. /\ Queued(stops[g]) /\ stops[g].sendOn <= now
          /\ Queued(stops[h]) /\ stops[h].sendOn <= now
      BY <1>1, <1>3, <1>6, <3>2
    <3>4. \/ InTurn(stops[g], stops[h], now) \/ InTurn(stops[h], stops[g], now)
          \/ GoesFirst(g, h, stops) \/ GoesFirst(h, g, stops)
      BY <1>4, <2>2, <3>2, <3>3 DEF Decided
    <3> QED
      BY <1>2, <1>3, <1>5, <3>2, <3>3, <3>4 DEF GoesFirst
  <2> QED
    BY <2>1, <2>2 DEF SparesOne
<1>8. WaitApart(StopsLeft, Unasked \ stopsToSend, nextPass)'
  <2> SUFFICES ASSUME NEW g \in Unasked, NEW h \in Unasked, Siblings(g, h),
                      g \notin stopsToSend', h \notin stopsToSend',
                      Queued(StopsLeft'[g])
               PROVE  IF Queued(StopsLeft'[h])
                      THEN \/ InTurn(StopsLeft'[g], StopsLeft'[h],
                                     now + PollingInterval)
                           \/ InTurn(StopsLeft'[h], StopsLeft'[g],
                                     now + PollingInterval)
                      ELSE StopsLeft'[g].sendOn <= now + PollingInterval
    BY <1>1 DEF WaitApart, Unasked
  <2>1. \A x \in {g, h} :
          StopsLeft'[x] = IF x \in stopMessagesToDelete' THEN NoStop
                          ELSE stops[x]
    BY <1>1, <1>3 DEF StopsLeft
  <2>2. \A x \in {g, h} :
          x \in stopMessagesToDelete' <=>
            Queued(stops[x]) /\ stops[x].sendOn <= now
    BY <1>1, <1>3
  <2>3. \A x \in {g, h} :
          Queued(stops[x]) /\ stops[x].sendOn <= now => ~ShouldStop(x)
    BY <1>1, <1>3
  <2>4. /\ Queued(stops[g]) /\ ~(stops[g].sendOn <= now)
        /\ StopsLeft'[g] = stops[g]
    BY <2>1, <2>2, AbsentNotQueued
  <2>5. now < stops[g].sendOn
    BY <1>2, <1>3, <2>4
  <2>6. CASE ~Queued(stops[h])
    BY <2>4, <2>6 DEF Decided
  <2>7. CASE Queued(stops[h]) /\ ~(stops[h].sendOn <= now)
    <3>1. now < stops[h].sendOn
      BY <1>2, <1>3, <2>7
    <3>2. InTurn(stops[g], stops[h], now) \/ InTurn(stops[h], stops[g], now)
      BY <2>4, <2>7 DEF Decided, GoesFirst
    <3>3. StopsLeft'[h] = stops[h]
      BY <2>1, <2>2, <2>7
    <3> QED
      BY <1>5, <2>4, <2>5, <2>7, <3>1, <3>2, <3>3
  <2>8. CASE Queued(stops[h]) /\ stops[h].sendOn <= now
    <3>1. ~ShouldStop(h) /\ StopsLeft'[h] = NoStop
      BY <2>1, <2>2, <2>3, <2>8
    <3>2. InTurn(stops[g], stops[h], now) \/ InTurn(stops[h], stops[g], now)
      BY <2>4, <2>8, <3>1 DEF Decided, GoesFirst
    <3>3. stops[g].sendOn <= stops[h].sendOn + GracePeriod
      BY <1>2, <1>3, <1>5, <2>8, <3>2
    <3>4. GracePeriod <= PollingInterval
      BY DEF PassesSplitStops
    <3>5. stops[g].sendOn <= now + PollingInterval
      BY <1>2, <1>3, <2>8, <3>3, <3>4
    <3> QED
      BY <2>4, <3>1, <3>5, AbsentNotQueued
  <2> QED
    BY <2>6, <2>7, <2>8
<1> QED
  BY <1>7, <1>8

(* A stop is accepted.                                                     *)
LEMMA PostSpares ==
  ASSUME TypeOK, PostStop, SparesOne,
         WaitApart(StopsLeft, Unasked \ stopsToSend, nextPass)
  PROVE  /\ WaitApart(StopsLeft, Unasked \ stopsToSend, nextPass)'
         /\ SparesOne'
<1>1. PICK guid \in stopsToSend :
        /\ stopsToSend' = stopsToSend \ {guid}
        /\ stopsAccepted' =
             Accept(stopsAccepted, guid, pendingStops[guid], currentTime)
        /\ stopMessagesToSave' = [stopMessagesToSave EXCEPT ![guid] =
             [pendingStops[guid] EXCEPT !.sentOn = currentTime]]
  BY DEF PostStop
<1>2. /\ UNCHANGED <<nextPass, app, currentTime, stops, stopMessagesToDelete>>
      /\ guid \in Guids
      /\ stopsAccepted \in [Guids -> Seq(Acceptance)]
      /\ stopMessagesToSave \in [Guids -> PendingStopMessage]
  BY StopTypes DEF PostStop, messages
<1> DEFINE e == [at |-> currentTime, keepAlive |-> pendingStops[guid].keepAlive,
                 reason |-> pendingStops[guid].reason]
<1>3. e \in Acceptance
  BY StopTypes DEF Acceptance, PendingStopMessage
<1>4. \A x \in Guids :
        stopsAccepted'[x] = IF x = guid THEN Append(stopsAccepted[x], e)
                            ELSE stopsAccepted[x]
  BY <1>1, <1>2 DEF Accept
<1> HIDE DEF e
<1>5. Append(stopsAccepted[guid], e) # <<>>
  BY <1>2, <1>3
<1>6. Unasked' \ stopsToSend' \subseteq Unasked \ stopsToSend
  BY <1>1, <1>2, <1>4, <1>5 DEF Unasked
<1>7. WaitApart(StopsLeft, Unasked \ stopsToSend, nextPass)'
  <2>1. StopsLeft' = StopsLeft
    BY <1>2 DEF StopsLeft
  <2> QED
    BY <1>2, <1>6, <2>1 DEF WaitApart
<1>8. ToStop' \subseteq ToStop
  BY <1>1, <1>2 DEF ToStop, QueuedKeys
<1>9. ASSUME NEW x \in ToStop, ~AskedBefore(x)'
      PROVE  ~AskedBefore(x)
  <2>1. x \in Guids
    BY <1>2, StopTypes DEF ToStop, QueuedKeys
  <2>2. stopsAccepted[x] \in Seq(Acceptance)
    BY <1>2, <2>1
  <2>3. ASSUME NEW k \in DOMAIN stopsAccepted[x]
        PROVE  /\ k \in DOMAIN stopsAccepted'[x]
               /\ stopsAccepted'[x][k] = stopsAccepted[x][k]
    <3>1. k \in DOMAIN Append(stopsAccepted[x], e)
          /\ Append(stopsAccepted[x], e)[k] = stopsAccepted[x][k]
      BY <1>3, <2>2
    <3> QED
      BY <1>4, <2>1, <3>1
  <2> QED
    BY <1>2, <1>9, <2>3 DEF AskedBefore
<1>10. \A x : ShouldStop(x)' <=> ShouldStop(x)
  BY <1>2 DEF ShouldStop
<1>11. \A g, h : AreDuplicates(g, h)' <=> AreDuplicates(g, h)
  BY <1>2 DEF AreDuplicates
<1>12. SparesOne'
  BY <1>8, <1>9, <1>10, <1>11 DEF SparesOne
<1> QED
  BY <1>7, <1>12

(* The sender saves what it marked.                                        *)
LEMMA KeepSpares ==
  ASSUME TypeOK, MarksInv, SenderIsFresh, StopsAreRead, pc = "keepStops",
         KeepStops, WaitApart(StopsLeft, Unasked \ stopsToSend, nextPass)
  PROVE  WaitApart(StopsLeft, Unasked \ stopsToSend, nextPass)'
<1>1. PICK kept \in SUBSET Guids :
        /\ Handled(QueuedKeys(stopMessagesToSave), kept)
        /\ stops' = Write(stops, stopMessagesToSave, kept)
  BY DEF KeepStops
<1>2. UNCHANGED <<nextPass, stopsAccepted, stopsToSend, stopMessagesToDelete>>
  BY DEF KeepStops, queues, accepted
<1>3. Sorted(stops, stopsToSend, stopMessagesToSave, stopMessagesToDelete,
             currentTime)
      /\ currentTime \in 1..now
  BY DEF StopsAreRead, StopSendingPoint, SenderIsFresh, SenderPoint
<1>4. ASSUME NEW guid \in Unasked
      PROVE  stops'[guid] = stops[guid]
  <2>1. guid \in Guids
    BY DEF Unasked
  <2>2. guid \notin QueuedKeys(stopMessagesToSave)
    <3> SUFFICES ASSUME guid \in QueuedKeys(stopMessagesToSave) PROVE FALSE
      OBVIOUS
    <3>1. stopMessagesToSave[guid] = [stops[guid] EXCEPT !.sentOn = currentTime]
      BY <1>3 DEF Sorted
    <3>2. currentTime \in Nat \ {0}
      BY <1>3, StopTypes
    <3>3. stops[guid] \in PendingStopMessage
      BY <2>1, StopTypes
    <3>4. HasBeenSent(stopMessagesToSave[guid])
      BY <3>1, <3>2, <3>3 DEF PendingStopMessage, HasBeenSent
    <3> QED
      BY <3>4, UnaskedUnsent
  <2>3. guid \notin kept
    BY <1>1, <2>2 DEF Handled
  <2> QED
    BY <1>1, <2>1, <2>3, StopTypes DEF Write
<1>5. \A guid \in Unasked : StopsLeft'[guid] = StopsLeft[guid]
  BY <1>2, <1>4 DEF StopsLeft, Unasked
<1>6. Unasked' = Unasked
  BY <1>2 DEF Unasked
<1> QED
  BY <1>2, <1>5, <1>6 DEF WaitApart

(* The sender deletes, and the pass is over.                               *)
LEMMA DeleteSpares ==
  ASSUME TypeOK, ~Fault, DeleteStops, stopsToSend = {},
         WaitApart(StopsLeft, Unasked \ stopsToSend, nextPass)
  PROVE  WaitApart(stops, Unasked, nextPass)'
<1>1. PICK deleted \in SUBSET Guids :
        /\ Handled(stopMessagesToDelete, deleted)
        /\ stops' = Write(stops, NoStops, deleted)
  BY DEF DeleteStops
<1>2. deleted = stopMessagesToDelete
  BY <1>1 DEF Handled
<1>3. UNCHANGED <<nextPass, stopsAccepted>>
  BY DEF DeleteStops, accepted
<1>4. stops' = StopsLeft
  BY <1>1, <1>2, StopTypes DEF Write, StopsLeft, NoStops
<1>5. Unasked' = Unasked
  BY <1>3 DEF Unasked
<1> QED
  BY <1>3, <1>4, <1>5 DEF WaitApart

---------------------------------------------------------------------------
(* Every step keeps the stops apart.                                       *)

(* What a step of the others or of the environment leaves as it is.        *)
LEMMA OthersLeaveStops ==
  ASSUME ~Fault,
         \/ EvacuatorActs \/ ListenerActs \/ TimeIsUp \/ UNCHANGED vars
         \/ \E guid \in Guids, state \in State \cup {NoHeartbeat} :
              ReportHeartbeat(guid, state)
         \/ \E desired \in Wanted : ChangeDesired(desired)
  PROVE  UNCHANGED <<now, apart>>
BY DEF EvacuatorActs, EvacuatorStep, HandleExited, EvacuatorSends,
       EvacuatorSendFails, EvacuatorKeeps, ListenerActs, ListenerStep,
       ListenerSends, ListenerSendFails, ListenerHolds, ListenerKeeps,
       ListenerGivesUp, ListenerDies, ReportHeartbeat, ChangeDesired, TimeIsUp,
       vars, shared, messages, accepted, analyzerVars, pending, queues, apart

(* Steps that change nothing of this.                                      *)
LEMMA SameApart ==
  ASSUME OnTime, AskedInTime, StopsApart, UNCHANGED <<now, apart>>
  PROVE  OnTime' /\ AskedInTime' /\ StopsApart'
<1> USE DEF apart
<1>1. OnTime' /\ AskedInTime'
  BY DEF OnTime, AskedInTime, PassTime
<1>2. /\ Unasked' = Unasked /\ StopsLeft' = StopsLeft /\ PassTime' = PassTime
      /\ ToStop' = ToStop
      /\ \A guid : ShouldStop(guid)' <=> ShouldStop(guid)
      /\ \A g, h : AreDuplicates(g, h)' <=> AreDuplicates(g, h)
      /\ \A guid : AskedBefore(guid)' <=> AskedBefore(guid)
  BY DEF Unasked, StopsLeft, PassTime, ToStop, ShouldStop, AreDuplicates,
         AskedBefore
<1>3. SparesOne' <=> SparesOne
  BY <1>2 DEF SparesOne
<1>4. Decided(stops)' <=> Decided(stops)
  BY <1>2 DEF Decided, GoesFirst
<1>5. Decided(pendingStops)' <=> Decided(pendingStops)
  BY <1>2 DEF Decided, GoesFirst
<1>6. /\ WaitApart(stops, Unasked, PassTime)' <=>
           WaitApart(stops, Unasked, PassTime)
      /\ WaitApart(StopsLeft, Unasked \ stopsToSend, nextPass)' <=>
           WaitApart(StopsLeft, Unasked \ stopsToSend, nextPass)
  BY <1>2 DEF WaitApart
<1>7. StopsApart'
  BY <1>3, <1>4, <1>5, <1>6 DEF StopsApart
<1> QED
  BY <1>1, <1>7

(* The clock waits for the pass.                                           *)
LEMMA TickApart ==
  ASSUME PassesSplitStops, TypeOK, OnTime, AskedInTime, StopsApart, Tick
  PROVE  OnTime' /\ AskedInTime' /\ StopsApart'
<1>1. /\ pc = "idle" /\ now < nextPass /\ now' = now + 1
      /\ UNCHANGED apart
  BY DEF PassesSplitStops, Tick, analyzerVars, pending, queues, accepted, apart
<1>2. now \in Nat /\ nextPass \in Nat /\ PollingInterval \in Nat
  BY StopTypes
<1>3. OnTime'
  BY <1>1, <1>2 DEF OnTime, KeepingPoint, apart
<1>4. PassTime' = PassTime /\ Unasked' = Unasked
  BY <1>1 DEF PassTime, Unasked, apart
<1>5. AskedInTime'
  BY <1>1, <1>4 DEF AskedInTime, apart
<1>6. StopsApart'
  BY <1>1, <1>4
  DEF StopsApart, WaitApart, SavingPoint, SenderPoint, StopSendingPoint, apart
<1> QED
  BY <1>3, <1>5, <1>6

(* A pass begins, and reads.                                               *)
LEMMA ReadsApart ==
  ASSUME TypeOK, OnTime, AskedInTime, StopsApart,
         \/ PassBegins \/ FetchDesiredState \/ GetInstanceHeartbeats
         \/ GetCrashCounts
         \/ GetPendingStartMessages \/ GetPendingStopMessages
  PROVE  OnTime' /\ AskedInTime' /\ StopsApart'
<1>1. /\ pc \in {"idle"} \cup ReadingPoint /\ pc' \in ReadingPoint
      /\ UNCHANGED <<now, stops, stopsAccepted>>
      /\ IF pc = "idle" THEN now >= nextPass /\ nextPass' = now + PollingInterval
                        ELSE nextPass' = nextPass
  BY DEF PassBegins, FetchDesiredState, GetInstanceHeartbeats, GetCrashCounts,
         GetPendingStartMessages, GetPendingStopMessages, ReadingPoint, shared,
         messages, accepted
<1>2. now \in Nat /\ nextPass \in Nat /\ PollingInterval \in Nat \ {0}
  BY StopTypes
<1>3. PassTime' = PassTime /\ PassTime = now
  BY <1>1, <1>2 DEF OnTime, PassTime, ReadingPoint
<1>4. OnTime'
  BY <1>1, <1>2 DEF OnTime, ReadingPoint, KeepingPoint
<1>5. AskedInTime'
  BY <1>1, <1>3 DEF AskedInTime, ReadingPoint, SenderPoint, StopSendingPoint
<1>6. Unasked' = Unasked
  BY <1>1 DEF Unasked
<1>7. WaitApart(stops, Unasked, PassTime)'
  BY <1>1, <1>3, <1>6 DEF StopsApart, WaitApart
<1>8. StopsApart'
  BY <1>1, <1>7 DEF StopsApart, ReadingPoint, SavingPoint, SenderPoint,
                    StopSendingPoint
<1> QED
  BY <1>4, <1>5, <1>8

(* Steps within a pass, before anything is sent: what was sent and when    *)
(* the next pass comes stays as it is.                                     *)
LEMMA WithinPass ==
  ASSUME TypeOK, OnTime, AskedInTime, pc # "idle", pc \notin SenderPoint,
         pc' # "idle", UNCHANGED <<now, nextPass, stopsAccepted>>,
         pc' \in SenderPoint => currentTime' = now
  PROVE  OnTime' /\ AskedInTime'
<1>1. now \in Nat /\ nextPass \in Nat /\ PollingInterval \in Nat
  BY StopTypes
<1>2. OnTime'
  BY <1>1 DEF OnTime, SenderPoint, StopSendingPoint, KeepingPoint
<1>3. PassTime' = PassTime
  BY DEF PassTime
<1> QED
  BY <1>2, <1>3 DEF AskedInTime

(* The analysis, and the saves after it.                                   *)
LEMMA SavesApart ==
  ASSUME PassesSplitStops, TypeOK, TypeOK', LifeInv, LifeInv', OnTime,
         AskedInTime, StopsApart, ~Fault,
         AnalyzeApp \/ SaveCrashCounts \/ SaveStarts \/ SaveStops
  PROVE  OnTime' /\ AskedInTime' /\ StopsApart'
<1>1. /\ pc \in {"analyze"} \cup SavingPoint
      /\ pc' \in SavingPoint \cup {"verify"}
      /\ UNCHANGED <<now, nextPass, stopsAccepted>>
  BY DEF AnalyzeApp, SaveCrashCounts, SaveStarts, SaveStops, Handled, NoFault,
         AfterSave, SavingPoint, shared, accepted
<1>2. OnTime' /\ AskedInTime'
  BY <1>1, WithinPass
  DEF SavingPoint, SenderPoint, StopSendingPoint
<1>3. CASE AnalyzeApp
  <2>1. pc = "analyze" /\ pendingStops = stops /\ PassTime = now
    BY <1>3 DEF AnalyzeApp, LifeInv, StopsAreRead, PassTime
  <2>2. WaitApart(stops, Unasked, now)
    BY <2>1 DEF StopsApart, ReadingPoint
  <2>3. Decided(pendingStops)'
    BY <1>3, <2>1, <2>2, AnalysisDecides
  <2>4. pc' = "saveCrashCounts"
    BY <1>3 DEF AnalyzeApp
  <2>5. StopsApart'
    BY <2>3, <2>4
    DEF StopsApart, ReadingPoint, SavingPoint, SenderPoint, StopSendingPoint
  <2> QED
    BY <1>2, <2>5
<1>4. CASE SaveCrashCounts \/ SaveStarts \/ SaveStops
  <2>1. /\ pc \in SavingPoint /\ UNCHANGED <<app, pendingStops>>
    BY <1>4 DEF SaveCrashCounts, SaveStarts, SaveStops, Handled, NoFault,
                AfterSave, pending, SavingPoint
  <2>2. Decided(pendingStops)
    BY <2>1 DEF StopsApart
  <2>3. /\ Unasked' = Unasked
        /\ \A guid : ShouldStop(guid)' <=> ShouldStop(guid)
        /\ \A g, h : AreDuplicates(g, h)' <=> AreDuplicates(g, h)
    BY <1>1, <2>1 DEF Unasked, ShouldStop, AreDuplicates
  <2>4. Decided(pendingStops)'
    BY <1>1, <2>1, <2>2, <2>3 DEF Decided, GoesFirst
  <2>5. pc' = "verify" => Decided(stops)'
    <3>1. pc' = "verify" => pendingStops' = stops'
      BY DEF LifeInv, StopsAreRead
    <3> QED
      BY <2>4, <3>1 DEF Decided, GoesFirst
  <2>6. StopsApart'
    BY <1>1, <2>4, <2>5
    DEF StopsApart, ReadingPoint, SavingPoint, SenderPoint, StopSendingPoint
  <2> QED
    BY <1>2, <2>6
<1> QED
  BY <1>3, <1>4

(* The sender sends and keeps: the times.                                  *)
LEMMA SenderOnTime ==
  ASSUME TypeOK, OnTime, AskedInTime, pc \in SenderPoint, pc' \in SenderPoint,
         UNCHANGED <<now, nextPass, currentTime>>,
         UNCHANGED stopsAccepted \/ PostStop
  PROVE  OnTime' /\ AskedInTime'
<1>1. OnTime'
  BY DEF OnTime, SenderPoint, StopSendingPoint, KeepingPoint
<1>2. pc # "idle" /\ PassTime' = PassTime /\ PassTime = now
  BY DEF PassTime, SenderPoint, StopSendingPoint
<1>3. CASE UNCHANGED stopsAccepted
  <2>1. \A guid \in Guids : \A k \in DOMAIN stopsAccepted[guid] :
          stopsAccepted[guid][k].at <= PassTime
    BY DEF AskedInTime
  <2> QED
    BY <1>1, <1>2, <1>3, <2>1 DEF AskedInTime, SenderPoint, StopSendingPoint
<1>4. CASE PostStop
  <2>1. PICK guid \in stopsToSend :
          stopsAccepted' =
            Accept(stopsAccepted, guid, pendingStops[guid], currentTime)
    BY <1>4 DEF PostStop
  <2>2. currentTime = now /\ now \in Nat
    BY StopTypes DEF OnTime, SenderPoint, StopSendingPoint, KeepingPoint
  <2>3. /\ stopsAccepted \in [Guids -> Seq(Acceptance)] /\ guid \in Guids
        /\ pendingStops[guid] \in PendingStopMessage
    BY StopTypes
  <2> DEFINE e == [at |-> currentTime,
                   keepAlive |-> pendingStops[guid].keepAlive,
                   reason |-> pendingStops[guid].reason]
  <2>4. e \in Acceptance /\ e.at = now
    BY <2>2, <2>3 DEF Acceptance, PendingStopMessage
  <2>5. \A x \in Guids :
          stopsAccepted'[x] = IF x = guid THEN Append(stopsAccepted[x], e)
                              ELSE stopsAccepted[x]
    BY <2>1, <2>3 DEF Accept
  <2> HIDE DEF e
  <2>6. ASSUME NEW x \in Guids, NEW k \in DOMAIN stopsAccepted'[x]
        PROVE  stopsAccepted'[x][k].at <= now
    <3>1. stopsAccepted[x] \in Seq(Acceptance)
      BY <2>3
    <3>2. \A i \in DOMAIN stopsAccepted[x] : stopsAccepted[x][i].at <= now
      BY <1>2 DEF AskedInTime
    <3>3. CASE x = guid
      <4>1. \/ /\ k \in DOMAIN stopsAccepted[x]
               /\ Append(stopsAccepted[x], e)[k] = stopsAccepted[x][k]
            \/ Append(stopsAccepted[x], e)[k] = e
        <5>1. k \in DOMAIN Append(stopsAccepted[x], e)
          BY <2>5, <3>3
        <5> QED
          BY <2>4, <3>1, <5>1
      <4>2. stopsAccepted'[x] = Append(stopsAccepted[x], e)
        BY <2>5, <3>3
      <4>3. e.at <= now
        BY <2>2, <2>4
      <4> QED
        BY <3>2, <4>1, <4>2, <4>3
    <3>4. CASE x # guid
      BY <2>5, <3>2, <3>4
    <3> QED
      BY <3>3, <3>4
  <2> QED
    BY <1>1, <1>2, <2>6 DEF AskedInTime, SenderPoint, StopSendingPoint
<1> QED
  BY <1>1, <1>3, <1>4

(* Send, and what follows until the pass is over.                          *)
LEMMA SendApart ==
  ASSUME PassesSplitStops, TypeOK, MarksInv, LifeInv, OnTime, AskedInTime,
         StopsApart, Send
  PROVE  OnTime' /\ AskedInTime' /\ StopsApart'
<1>1. /\ pc = "verify" /\ pc' = "post" /\ currentTime' = now
      /\ UNCHANGED <<now, nextPass, stopsAccepted>>
  BY DEF Send, shared, accepted
<1>2. OnTime' /\ AskedInTime'
  BY <1>1, WithinPass DEF SenderPoint, StopSendingPoint
<1>3. /\ pendingStops = stops /\ SenderIsFresh
      /\ nextPass = now + PollingInterval /\ Decided(stops)
  BY <1>1 DEF LifeInv, StopsAreRead, OnTime, StopsApart
<1>4. /\ WaitApart(StopsLeft, Unasked \ stopsToSend, nextPass)'
      /\ SparesOne'
  BY <1>3, SendSpares
<1> QED
  BY <1>1, <1>2, <1>4
  DEF StopsApart, ReadingPoint, SavingPoint, SenderPoint, StopSendingPoint

LEMMA SenderApart ==
  ASSUME PassesSplitStops, TypeOK, MarksInv, LifeInv, OnTime, AskedInTime,
         StopsApart,
         \/ PostStart \/ HoldStarts \/ PostStop \/ PostingDone
         \/ KeepStarts \/ DeleteStarts \/ KeepStops
  PROVE  OnTime' /\ AskedInTime' /\ StopsApart'
<1>1. /\ pc \in SenderPoint /\ pc' \in SenderPoint /\ pc' # "verify"
      /\ pc \notin {"idle"} \cup ReadingPoint \cup SavingPoint
      /\ pc' \notin {"idle"} \cup ReadingPoint \cup SavingPoint
      /\ UNCHANGED <<now, nextPass, currentTime, app, pendingStops,
                     stopMessagesToDelete>>
      /\ UNCHANGED stopsAccepted \/ PostStop
  BY DEF PostStart, HoldStarts, PostStop, PostingDone, KeepStarts,
         DeleteStarts, KeepStops, SenderPoint, StopSendingPoint, ReadingPoint,
         SavingPoint, shared, accepted, pending, queues
<1>2. OnTime' /\ AskedInTime'
  BY <1>1, SenderOnTime
<1>3. /\ WaitApart(StopsLeft, Unasked \ stopsToSend, nextPass)
      /\ SparesOne
      /\ pc # "post" => stopsToSend = {}
  BY <1>1 DEF StopsApart
<1>4. pc' # "post" => stopsToSend' = {}
  BY <1>3 DEF PostStart, HoldStarts, PostStop, PostingDone, KeepStarts,
              DeleteStarts, KeepStops, queues
<1>5. ASSUME UNCHANGED <<stopsToSend, stopMessagesToSave, stopsAccepted>>
      PROVE  SparesOne'
  <2>1. ToStop' = ToStop
    BY <1>5 DEF ToStop
  <2>2. \A guid : ShouldStop(guid)' <=> ShouldStop(guid)
    BY <1>1 DEF ShouldStop
  <2>3. \A g, h : AreDuplicates(g, h)' <=> AreDuplicates(g, h)
    BY <1>1 DEF AreDuplicates
  <2>4. \A guid : AskedBefore(guid)' <=> AskedBefore(guid)
    BY <1>1, <1>5 DEF AskedBefore
  <2> QED
    BY <1>3, <2>1, <2>2, <2>3, <2>4 DEF SparesOne
<1>6. /\ WaitApart(StopsLeft, Unasked \ stopsToSend, nextPass)'
      /\ SparesOne'
  <2>1. CASE PostStop
    BY <1>3, <2>1, PostSpares
  <2>2. CASE KeepStops
    <3>1. /\ pc = "keepStops" /\ SenderIsFresh /\ StopsAreRead
          /\ UNCHANGED <<stopsToSend, stopMessagesToSave, stopsAccepted>>
      BY <2>2 DEF KeepStops, LifeInv, queues, accepted
    <3> QED
      BY <1>3, <1>5, <2>2, <3>1, KeepSpares
  <2>3. CASE PostStart \/ HoldStarts \/ PostingDone \/ KeepStarts \/ DeleteStarts
    <3>1. UNCHANGED <<stopsToSend, stopMessagesToSave, stopsAccepted, stops>>
      BY <2>3 DEF PostStart, HoldStarts, PostingDone, KeepStarts, DeleteStarts,
                  queues, shared, messages, accepted
    <3>2. Unasked' = Unasked /\ StopsLeft' = StopsLeft
      BY <1>1, <3>1 DEF Unasked, StopsLeft
    <3>3. WaitApart(StopsLeft, Unasked \ stopsToSend, nextPass)'
      BY <1>1, <1>3, <3>1, <3>2 DEF WaitApart
    <3> QED
      BY <1>5, <3>1, <3>3
  <2> QED
    BY <2>1, <2>2, <2>3
<1>7. StopsApart'
  BY <1>1, <1>4, <1>6
  DEF StopsApart, ReadingPoint, SavingPoint, SenderPoint, StopSendingPoint
<1> QED
  BY <1>2, <1>7

LEMMA DeleteApart ==
  ASSUME TypeOK, OnTime, AskedInTime, StopsApart, ~Fault, DeleteStops
  PROVE  OnTime' /\ AskedInTime' /\ StopsApart'
<1>1. /\ pc = "deleteStops" /\ pc' = "idle"
      /\ UNCHANGED <<now, nextPass, stopsAccepted>>
  BY DEF DeleteStops, PassEnds, accepted
<1>2. now \in Nat /\ nextPass \in Nat /\ PollingInterval \in Nat \ {0}
  BY StopTypes
<1>3. nextPass = now + PollingInterval
  BY <1>1 DEF OnTime
<1>4. OnTime'
  BY <1>1, <1>2, <1>3 DEF OnTime, KeepingPoint
<1>5. PassTime = now /\ PassTime' = nextPass
  BY <1>1 DEF PassTime
<1>6. AskedInTime'
  <2> SUFFICES ASSUME NEW guid \in Guids, NEW k \in DOMAIN stopsAccepted[guid]
               PROVE  /\ stopsAccepted[guid][k].at <= nextPass
                      /\ stopsAccepted[guid][k].at < nextPass
    BY <1>1, <1>5 DEF AskedInTime
  <2>1. stopsAccepted[guid][k].at <= now
    BY <1>5 DEF AskedInTime
  <2>2. stopsAccepted[guid][k] \in Acceptance
    BY StopTypes
  <2>3. stopsAccepted[guid][k].at \in Nat
    BY <2>2 DEF Acceptance
  <2> QED
    BY <1>2, <1>3, <2>1, <2>3
<1>7. WaitApart(stops, Unasked, nextPass)'
  BY <1>1, DeleteSpares DEF StopsApart, SenderPoint, StopSendingPoint
<1>8. StopsApart'
  BY <1>1, <1>5, <1>7
  DEF StopsApart, WaitApart, SavingPoint, SenderPoint, StopSendingPoint
<1> QED
  BY <1>4, <1>6, <1>8

(* At the start nothing is queued.                                         *)
LEMMA InitDuplicates == Init => DuplicateInv
<1> SUFFICES ASSUME Init PROVE DuplicateInv
  OBVIOUS
<1>1. /\ pc = "idle" /\ now = 1 /\ nextPass = 1 /\ stops = NoStops
      /\ stopsAccepted = [guid \in Guids |-> <<>>]
  BY DEF Init, SharedInit, AnalyzerInit
<1>2. OnTime
  BY <1>1, PollingAssumption DEF OnTime, KeepingPoint
<1>3. AskedInTime
  BY <1>1 DEF AskedInTime
<1>4. \A guid \in Guids : ~Queued(stops[guid])
  BY <1>1, AbsentNotQueued DEF NoStops
<1>5. StopsApart
  BY <1>1, <1>4
  DEF StopsApart, WaitApart, Unasked, SavingPoint, SenderPoint, StopSendingPoint
<1> QED
  BY <1>2, <1>3, <1>5 DEF DuplicateInv

(* Every step keeps the invariant.                                         *)
LEMMA NextDuplicates ==
  ASSUME PassesSplitStops
  PROVE  /\ TypeOK /\ TypeOK' /\ MarksInv /\ LifeInv /\ LifeInv'
         /\ DuplicateInv /\ [Next]_vars
         => DuplicateInv'
<1> SUFFICES ASSUME TypeOK, TypeOK', MarksInv, LifeInv, LifeInv', DuplicateInv,
                    [Next]_vars, faults' = 0
             PROVE  OnTime' /\ AskedInTime' /\ StopsApart'
  BY DEF DuplicateInv
<1>1. faults = 0 /\ ~Fault /\ OnTime /\ AskedInTime /\ StopsApart
  BY FaultsStay DEF DuplicateInv
<1>2. CASE AnalyzerActs
  BY <1>1, <1>2, ReadsApart, SavesApart, SendApart, SenderApart, DeleteApart
  DEF AnalyzerActs, AnalyzerStep, PostStartFails, PostStopFails, PassFails,
      ProcessDies
<1>3. CASE Tick
  BY <1>1, <1>3, TickApart
<1>4. CASE ~AnalyzerActs /\ ~Tick
  <2>1. UNCHANGED <<now, apart>>
    BY <1>1, <1>4, OthersLeaveStops DEF Next, Environment
  <2> QED
    BY <1>1, <2>1, SameApart
<1> QED
  BY <1>2, <1>3, <1>4

(* A Send that stops all the instances of an index stops two duplicates.   *)
LEMMA ApartLeavesOne ==
  ASSUME PassesSplitStops, TypeOK, LifeInv, DuplicateInv
  PROVE  FirstStopsLeaveOne
<1> SUFFICES ASSUME faults = 0, NEW index \in Indices,
                    app.desired.desired, IsIndexDesired(app, index),
                    StartingOrRunningInstancesAtIndex(app, index) # {},
                    \A guid \in StartingOrRunningInstancesAtIndex(app, index) :
                      ~AskedBefore(guid),
                    \A guid \in StartingOrRunningInstancesAtIndex(app, index) :
                      Queued(stopMessagesToSave[guid])
             PROVE  FALSE
  BY DEF FirstStopsLeaveOne
<1> DEFINE S == StartingOrRunningInstancesAtIndex(app, index)
<1>1. PICK g \in S : TRUE
  OBVIOUS
<1>2. \A x \in S :
        /\ x \in Guids /\ IndexOf[x] = index
        /\ app.heartbeats[x] # NoHeartbeat /\ app.heartbeats[x] # "EVACUATING"
  BY DEF StartingOrRunningInstancesAtIndex, InstanceHeartbeatsAtIndex,
         IsStartingOrRunning
<1>3. S \subseteq ToStop
  BY <1>2, StopTypes DEF ToStop, QueuedKeys
<1>4. pc \in SenderPoint
  <2>1. QueuedKeys(NoStops) = {}
    BY AbsentNotQueued DEF QueuedKeys, NoStops
  <2>2. g \in QueuedKeys(stopMessagesToSave)
    BY <1>1, <1>2, StopTypes DEF QueuedKeys
  <2> QED
    BY <2>1, <2>2 DEF LifeInv, SenderIsFresh
<1>5. SparesOne
  BY <1>4 DEF DuplicateInv, StopsApart
<1>6. ShouldStop(g)
  BY <1>1, <1>3, <1>5 DEF SparesOne
<1>7. Cardinality(S) > 1
  BY <1>1, <1>2, <1>6 DEF ShouldStop, ReportedIndex
<1>8. \E h \in S : h # g
  <2> SUFFICES ASSUME S = {g} PROVE FALSE
    BY <1>1
  <2>1. Cardinality({g}) = 1
    BY FS_Singleton
  <2> QED
    BY <1>7, <2>1
<1>9. PICK h \in S : h # g
  BY <1>8
<1>10. Siblings(g, h) /\ AreDuplicates(g, h)
  BY <1>1, <1>2, <1>9 DEF Siblings, AreDuplicates
<1> QED
  BY <1>1, <1>3, <1>5, <1>9, <1>10 DEF SparesOne

(* FirstStopsLeaveOne: while nothing fails and passes fall between the     *)
(* times at which two duplicates are to be stopped, no Send stops both     *)
(* unless one had been sent a stop before, whatever is reported or desired *)
(* meanwhile and in whatever order instances are listed                    *)
(* (app_analyzer.go:121-143, sender.go:320-362).                           *)
THEOREM OneIsLeftAtFirst ==
  ASSUME PassesSplitStops
  PROVE  Spec => []FirstStopsLeaveOne
<1> DEFINE Inv == TypeOK /\ MarksInv /\ LifeInv /\ DuplicateInv
<1>1. Init => Inv
  BY InitTypeOK, InitMarks, InitLife, InitDuplicates
<1>2. Inv /\ [Next]_vars => Inv'
  BY NextTypeOK, NextMarks, NextLife, NextDuplicates
<1>3. Inv => FirstStopsLeaveOne
  BY ApartLeavesOne
<1> QED
  BY <1>1, <1>2, <1>3, PTL DEF Spec
=============================================================================
