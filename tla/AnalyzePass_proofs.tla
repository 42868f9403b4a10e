------------------------- MODULE AnalyzePass_proofs -------------------------
(***************************************************************************)
(* Proofs about AnalyzePass, for any number of pages.  The invariants are  *)
(* not inductive by themselves: what makes them so is how the success flag *)
(* travels from the fetcher to the analyzer through the closing of the     *)
(* batch channel, which Handover states.                                   *)
(***************************************************************************)
EXTENDS AnalyzePass, TLAPS

Buffered == {desiredApps[k] : k \in DOMAIN desiredApps}

(* While the fetch can still succeed, no served batch is lost: it has been *)
(* analyzed, or waits in the buffer, or is the one being offered.          *)
NoBatchLost ==
  /\ fetcher \in {"fetch", "flag", "report"} \/ success =>
       analyzed \cup Buffered = 1..served
  /\ fetcher = "offer" =>
       served \in Nat \ {0} /\ analyzed \cup Buffered = 1..(served - 1)

(* The flag is raised before the result is reported and the channel        *)
(* closed, and never on the way of a failed fetch.                         *)
FlagOrder ==
  /\ success => fetcher \in {"report", "closeApps", "end"}
  /\ fetcher = "report" => success
  /\ appsClosed => fetcher = "end"
  /\ fetchErr = "failed" => ~success /\ fetcher \in {"closeApps", "end"}

(* Past the drain loop the channel is closed and empty; past the check of  *)
(* the flag the flag is up.                                                *)
Handover ==
  /\ analyzer \in {"check", "return", "output"} \cup Writing \/ written # {} =>
       appsClosed /\ desiredApps = <<>>
  /\ analyzer \in {"return", "output"} \cup Writing \/ written # {} => success

(* What each point of the analyzer, and each message to main, says of the  *)
(* writes made.                                                            *)
WriteOrder ==
  /\ analyzer \in {"verify", "load", "drain", "check", "saveCrashes"} =>
       written = {}
  /\ analyzer = "saveStarts" => written = {"crashes"}
  /\ analyzer = "saveStops" => written = {"crashes", "starts"}
  /\ analyzer = "fail" \/ analyzeErr = "failed" => written # Write
  /\ analyzer \in {"return", "output"} => written = Write
  /\ analyzeOut # Empty => written = Write
  /\ main \in {"send", "returned"} => written = Write

(* main gives up only when there is nothing left to be written.            *)
AbortedForGood ==
  /\ analyzeErr = "failed" => analyzer = "end"
  /\ main = "aborted" => analyzer = "end"
                         \/ (~success /\ fetcher \in {"closeApps", "end"})

IInv == /\ TypeOK
        /\ NoBatchLost
        /\ FlagOrder
        /\ Handover
        /\ WriteOrder
        /\ AbortedForGood

---------------------------------------------------------------------------
(* The invariant holds at the start and is kept by every step.             *)
LEMMA InitIInv == Init => IInv
<1> SUFFICES ASSUME Init PROVE IInv
  OBVIOUS
<1>1. NoBatchLost
  <2>1. Buffered = {} /\ 1..served = {}
    BY DEF Init, Buffered
  <2> QED
    BY <2>1 DEF Init, NoBatchLost
<1>2. TypeOK
  <2>1. desiredApps \in {<<>>} \cup {<<b>> : b \in 1..MaxPages}
    BY Zenon DEF Init
  <2>2. served \in 0..MaxPages
    BY MaxPagesAssumption DEF Init
  <2> QED
    BY <2>1, <2>2
    DEF Init, TypeOK, FetcherPoint, AnalyzerPoint, MainPoint, Channel, Empty
<1> QED
  BY <1>1, <1>2
  DEF Init, IInv, FlagOrder, Handover, WriteOrder, AbortedForGood, Writing,
      Empty

(* Every step of a pass keeps the invariant.                               *)
LEMMA NextIInv == IInv /\ [Next]_vars => IInv'
<1> SUFFICES ASSUME IInv, [Next]_vars PROVE IInv'
  OBVIOUS
<1> USE MaxPagesAssumption
    DEF IInv, TypeOK, NoBatchLost, FlagOrder, Handover, WriteOrder,
        AbortedForGood, Buffered, FetcherPoint, AnalyzerPoint, MainPoint,
        Write, Writing, Channel, Result, Empty
<1>1. CASE FetchPage
  BY <1>1 DEF FetchPage, fetcherOnly
<1>2. CASE FetchLastPage
  BY <1>2 DEF FetchLastPage, fetcherOnly
<1>3. CASE FetchFails
  BY <1>3 DEF FetchFails, fetcherOnly
<1>4. CASE OfferBatch
  BY <1>4 DEF OfferBatch, fetcherOnly
<1>5. CASE StopOffering
  BY <1>5 DEF StopOffering, fetcherOnly
<1>6. CASE RaiseFlag
  BY <1>6 DEF RaiseFlag, fetcherOnly
<1>7. CASE ReportFetched
  BY <1>7 DEF ReportFetched, fetcherOnly
<1>8. CASE ReportFetchFailed
  BY <1>8 DEF ReportFetchFailed, fetcherOnly
<1>9. CASE CloseApps
  BY <1>9 DEF CloseApps, fetcherOnly
<1>10. CASE Verify
  BY <1>10 DEF Verify, analyzerOnly, ReadStore
<1>11. CASE Load
  BY <1>11 DEF Load, analyzerOnly, ReadStore
<1>12. CASE StoreFails
  <2>1. "stops" \notin written
    BY <1>12 DEF StoreFails
  <2>2. written' # Write'
    BY <1>12, <2>1 DEF StoreFails
  <2>3. WriteOrder'
    BY <1>12, <2>2 DEF StoreFails, analyzerOnly
  <2> QED
    BY <1>12, <2>3 DEF StoreFails, analyzerOnly
<1>13. CASE DrainBatch
  <2>1. PICK b \in 1..MaxPages : desiredApps = <<b>>
    BY <1>13 DEF DrainBatch
  <2>2. desiredApps' = <<>> /\ analyzed' = analyzed \cup {b}
    BY <1>13, <2>1 DEF DrainBatch
  <2>3. Buffered = {b} /\ Buffered' = {}
    BY <2>1, <2>2
  <2>4. TypeOK'
    BY <1>13, <2>1, <2>2 DEF DrainBatch, analyzerOnly
  <2>5. NoBatchLost'
    <3>1. analyzed' \cup Buffered' = analyzed \cup Buffered
      BY <2>2, <2>3
    <3> HIDE DEF Buffered
    <3> QED
      BY <1>13, <3>1 DEF DrainBatch, analyzerOnly
  <2> HIDE DEF Buffered, TypeOK, NoBatchLost
  <2> QED
    BY <1>13, <2>2, <2>4, <2>5 DEF DrainBatch, analyzerOnly
<1>14. CASE DrainEnds
  BY <1>14 DEF DrainEnds, analyzerOnly
<1>15. CASE CheckFetch
  BY <1>15 DEF CheckFetch, analyzerOnly, CheckFetchAsRead
<1>16. CASE SaveCrashes
  BY <1>16 DEF SaveCrashes, analyzerOnly, Save
<1>17. CASE SaveStarts
  BY <1>17 DEF SaveStarts, analyzerOnly, Save
<1>18. CASE SaveStops
  BY <1>18 DEF SaveStops, analyzerOnly, Save
<1>19. CASE AnalyzeReturns
  BY <1>19 DEF AnalyzeReturns, analyzerOnly
<1>20. CASE ReportOutput
  BY <1>20 DEF ReportOutput, analyzerOnly
<1>21. CASE ReceiveFetchErr
  BY <1>21 DEF ReceiveFetchErr, mainOnly
<1>22. CASE ReceiveAnalyzeErr
  BY <1>22 DEF ReceiveAnalyzeErr, mainOnly
<1>23. CASE ReceiveOutput
  BY <1>23 DEF ReceiveOutput, mainOnly
<1>24. CASE SendMessages
  BY <1>24 DEF SendMessages, mainOnly
<1>25. CASE UNCHANGED vars
  BY <1>25 DEF vars
<1> QED
  BY <1>1, <1>2, <1>3, <1>4, <1>5, <1>6, <1>7, <1>8, <1>9, <1>10, <1>11,
     <1>12, <1>13, <1>14, <1>15, <1>16, <1>17, <1>18, <1>19, <1>20, <1>21,
     <1>22, <1>23, <1>24, <1>25
  DEF Next, Fetcher, Analyzer, Main

(* The inductive invariant holds of every pass, of any number of pages.    *)
THEOREM Invariance == Spec => []IInv
  BY InitIInv, NextIInv, PTL DEF Spec

(* Every variable keeps its type.                                          *)
THEOREM TypeCorrect == Spec => []TypeOK
  BY Invariance, PTL DEF IInv

(* The analyzer's writes rest on the complete list of desired apps: the    *)
(* channel closed, nothing buffered, and the flag up.                      *)
THEOREM CompleteBeforeWrite == Spec => []WritesOnlyComplete
<1>1. IInv => WritesOnlyComplete
  <2>1. desiredApps = <<>> => Buffered = {}
    BY DEF Buffered
  <2> QED
    BY <2>1 DEF IInv, NoBatchLost, FlagOrder, Handover, WritesOnlyComplete,
                Writing
<1> QED
  BY <1>1, Invariance, PTL

(* The sender is only called on the output of an analysis that has made    *)
(* all its writes.                                                         *)
THEOREM SendAfterWrites == Spec => []SendsOnlyAnalyzed
<1>1. IInv => SendsOnlyAnalyzed
  BY DEF IInv, WriteOrder, SendsOnlyAnalyzed
<1> QED
  BY <1>1, Invariance, PTL

(* The goroutines of an aborted pass make no further write.                *)
THEOREM AbortIsFinal == Spec => AbortedPassNeverWrites
<1>1. IInv /\ [Next]_vars => [main = "aborted" => written' = written]_vars
  <2> SUFFICES ASSUME IInv, Next, main = "aborted"
               PROVE  written' = written
    BY DEF vars
  <2>1. analyzer \notin Writing
    BY DEF IInv, AbortedForGood, Handover, Writing
  <2> QED
    BY <2>1 DEF Next, Fetcher, FetchPage, FetchLastPage, FetchFails,
      OfferBatch, StopOffering, RaiseFlag, ReportFetched, ReportFetchFailed,
      CloseApps, fetcherOnly, Analyzer, Verify, Load, ReadStore, StoreFails,
      DrainBatch, DrainEnds, CheckFetch, SaveCrashes, SaveStarts, SaveStops,
      Save, Writing, AnalyzeReturns, ReportOutput, Main, ReceiveFetchErr,
      ReceiveAnalyzeErr, ReceiveOutput, SendMessages, mainOnly, vars
<1> QED
  BY <1>1, Invariance, PTL DEF Spec, AbortedPassNeverWrites

---------------------------------------------------------------------------
(* The refinement: which step of the abstract pass each step is.           *)

(* A step that leaves the four abstract variables as they are.             *)
LEMMA StutterOfPromise ==
  ASSUME served' = served, success' = success, written' = written, main' = main
  PROVE  UNCHANGED Promise!vars
BY DEF Promise!vars, Outcome

(* main ends the pass by a message, or goes on listening.                  *)
LEMMA EndOfPromise ==
  ASSUME IInv, Main
  PROVE  [Promise!Send \/ Promise!Abort]_Promise!vars
<1> USE DEF IInv, TypeOK, WriteOrder, Handover, FlagOrder, Outcome, Write,
        Promise!vars, mainOnly
<1>1. CASE ReceiveFetchErr
  <2>1. CASE fetchErr = "failed"
    <3>1. written = {}
      BY <2>1
    <3> QED
      BY <1>1, <2>1, <3>1 DEF ReceiveFetchErr, Promise!Abort, Promise!Write
  <2>2. CASE fetchErr # "failed"
    BY <1>1, <2>2 DEF ReceiveFetchErr
  <2> QED
    BY <2>1, <2>2
<1>2. CASE ReceiveAnalyzeErr
  <2>1. CASE analyzeErr = "failed"
    BY <1>2, <2>1 DEF ReceiveAnalyzeErr, Promise!Abort, Promise!Write
  <2>2. CASE analyzeErr # "failed"
    BY <1>2, <2>2 DEF ReceiveAnalyzeErr
  <2> QED
    BY <2>1, <2>2
<1>3. CASE ReceiveOutput
  BY <1>3 DEF ReceiveOutput
<1>4. CASE SendMessages
  BY <1>4 DEF SendMessages, Promise!Send, Promise!Write
<1> QED
  BY <1>1, <1>2, <1>3, <1>4 DEF Main

(* A save of the analyzer is the abstract write of its kind: the list is   *)
(* complete, the earlier writes are made and the pass is not given up.     *)
LEMMA SaveOfPromise ==
  ASSUME IInv, SaveCrashes \/ SaveStarts \/ SaveStops
  PROVE  Promise!Next
<1>1. success /\ Outcome = "none"
  <2>1. analyzer \in Writing
    BY DEF SaveCrashes, SaveStarts, SaveStops, Save, Writing
  <2>2. success /\ main # "aborted"
    BY <2>1 DEF IInv, Handover, AbortedForGood, Writing
  <2>3. written # Write
    BY DEF IInv, WriteOrder, SaveCrashes, SaveStarts, SaveStops, Save, Write
  <2> QED
    BY <2>2, <2>3 DEF IInv, TypeOK, MainPoint, WriteOrder, Outcome
<1>2. UNCHANGED <<served, success, Outcome>>
  BY DEF SaveCrashes, SaveStarts, SaveStops, Save, analyzerOnly, Outcome
<1>3. CASE SaveCrashes
  <2>1. Promise!MakeWrite("crashes")
    BY <1>1, <1>2, <1>3
    DEF SaveCrashes, Save, IInv, WriteOrder, Promise!MakeWrite, Promise!Before
  <2> QED
    BY <2>1 DEF Promise!Next, Promise!Write
<1>4. CASE SaveStarts
  <2>1. Promise!MakeWrite("starts")
    BY <1>1, <1>2, <1>4
    DEF SaveStarts, Save, IInv, WriteOrder, Promise!MakeWrite, Promise!Before
  <2> QED
    BY <2>1 DEF Promise!Next, Promise!Write
<1>5. CASE SaveStops
  <2>1. Promise!MakeWrite("stops")
    BY <1>1, <1>2, <1>5
    DEF SaveStops, Save, IInv, WriteOrder, Promise!MakeWrite, Promise!Before
  <2> QED
    BY <2>1 DEF Promise!Next, Promise!Write
<1> QED
  BY <1>3, <1>4, <1>5

(* Every step of the goroutines is a step of the abstract pass or none.    *)
LEMMA StepOfPromise == IInv /\ [Next]_vars => [Promise!Next]_Promise!vars
<1> SUFFICES ASSUME IInv, [Next]_vars
             PROVE  [Promise!Next]_Promise!vars
  OBVIOUS
<1>1. CASE FetchPage
  BY <1>1
  DEF FetchPage, fetcherOnly, IInv, FlagOrder, Outcome, Promise!LearnPage,
      Promise!Next
<1>2. CASE RaiseFlag
  BY <1>2
  DEF RaiseFlag, fetcherOnly, IInv, FlagOrder, Outcome, Promise!LearnEnd,
      Promise!Next
<1>3. CASE SaveCrashes \/ SaveStarts \/ SaveStops
  BY <1>3, SaveOfPromise
<1>4. CASE Main
  BY <1>4, EndOfPromise DEF Promise!Next
<1>5. CASE \/ FetchLastPage \/ FetchFails \/ OfferBatch \/ StopOffering
           \/ ReportFetched \/ ReportFetchFailed \/ CloseApps
  BY <1>5, StutterOfPromise
  DEF FetchLastPage, FetchFails, OfferBatch, StopOffering, ReportFetched,
      ReportFetchFailed, CloseApps, fetcherOnly
<1>6. CASE \/ Verify \/ Load \/ StoreFails \/ DrainBatch \/ DrainEnds
           \/ CheckFetch \/ AnalyzeReturns \/ ReportOutput
  BY <1>6, StutterOfPromise
  DEF Verify, Load, ReadStore, StoreFails, DrainBatch, DrainEnds, CheckFetch,
      AnalyzeReturns, ReportOutput, analyzerOnly
<1>7. CASE UNCHANGED vars
  BY <1>7, StutterOfPromise DEF vars
<1> QED
  BY <1>1, <1>2, <1>3, <1>4, <1>5, <1>6, <1>7 DEF Next, Fetcher, Analyzer

(* The goroutines of analyze() implement the abstract pass, its safety:    *)
(* that a pass also ends is model-checked.                                 *)
THEOREM PassRefines == Spec => Promise!Safety
<1>1. Init => Promise!Init
  BY DEF Init, Promise!Init, Outcome
<1> QED
  BY <1>1, StepOfPromise, Invariance, PTL DEF Spec, Promise!Safety
=============================================================================
