---------------------------- MODULE AnalyzePass ----------------------------
(***************************************************************************)
(* One call of analyze() (hm/manage_desired_state.go): the three           *)
(* goroutines of a pass and the channels between them.                     *)
(*                                                                         *)
(*   fetcher   pages through the Cloud Controller's desired apps and       *)
(*             offers each batch on appQueue.DesiredApps (capacity 1);     *)
(*   analyzer  reads the store, drains the batches and, if the fetch was   *)
(*             complete, writes crash counts, starts and stops;            *)
(*   main      selects over the three result channels and, once it holds   *)
(*             an analysis, calls the sender.                              *)
(*                                                                         *)
(* The contents of a batch and of the store do not matter to what is said  *)
(* here: a batch is its number, a store write is its kind.  What an        *)
(* analysis computes and what the sender does with it is AppAnalyzer and   *)
(* HealthManager.                                                          *)
(***************************************************************************)
EXTENDS Naturals, Sequences, FiniteSets

CONSTANT MaxPages        \* bound: non-empty pages the Cloud Controller serves

ASSUME MaxPagesAssumption == MaxPages \in Nat

VARIABLES
  fetcher,        \* control point of the fetching goroutine
  analyzer,       \* control point of the analyzing goroutine
  main,           \* control point of analyze() itself
  served,         \* number of non-empty pages fetched so far
  desiredApps,    \* appQueue.DesiredApps: the buffered batches
  appsClosed,     \* appQueue.DesiredApps has been closed
  doneAnalyzing,  \* appQueue.DoneAnalyzing has been closed
  success,        \* appQueue.fetchDesiredAppsSuccess
  analyzed,       \* the batches the analyzer has received
  written,        \* the kinds of store write the analyzer has made
  fetchErr,       \* fetchDesiredErr: content of the one-place buffer
  analyzeErr,     \* analyzeStateErr: likewise
  analyzeOut      \* analyzeStateOutput: likewise

vars == <<fetcher, analyzer, main, served, desiredApps, appsClosed,
          doneAnalyzing, success, analyzed, written, fetchErr, analyzeErr,
          analyzeOut>>

(***************************************************************************)
(* A one-place result channel holds nothing, or the value sent on it.      *)
(* Closing it changes nothing a receiver can tell: it then yields nil      *)
(* errors and an output without apps, which the loop of main ignores.      *)
(***************************************************************************)
Empty == "empty"
Result == {"ok", "failed"}
Channel == Result \cup {Empty}

FetcherPoint == {"fetch", "offer", "flag", "report", "fail",
                 "closeApps", "end"}
AnalyzerPoint == {"verify", "load", "drain", "check", "saveCrashes",
                  "saveStarts", "saveStops", "return", "fail", "output", "end"}
MainPoint == {"select", "send", "returned", "aborted"}
Write == {"crashes", "starts", "stops"}

(* The control points at which the analyzer still has writes to make.      *)
Writing == {"saveCrashes", "saveStarts", "saveStops"}

TypeOK ==
  /\ fetcher \in FetcherPoint
  /\ analyzer \in AnalyzerPoint
  /\ main \in MainPoint
  /\ served \in 0..MaxPages
  /\ desiredApps \in {<<>>} \cup {<<b>> : b \in 1..MaxPages}
  /\ appsClosed \in BOOLEAN
  /\ doneAnalyzing \in BOOLEAN
  /\ success \in BOOLEAN
  /\ analyzed \in SUBSET (1..MaxPages)
  /\ written \in SUBSET Write
  /\ fetchErr \in Channel
  /\ analyzeErr \in Channel
  /\ analyzeOut \in Channel

Init ==
  /\ fetcher = "fetch"
  /\ analyzer = "verify"
  /\ main = "select"
  /\ served = 0
  /\ desiredApps = <<>>
  /\ appsClosed = FALSE
  /\ doneAnalyzing = FALSE
  /\ success = FALSE
  /\ analyzed = {}
  /\ written = {}
  /\ fetchErr = Empty
  /\ analyzeErr = Empty
  /\ analyzeOut = Empty

---------------------------------------------------------------------------
(* The fetching goroutine.                                                 *)

fetcherOnly == <<analyzer, main, analyzed, written, analyzeErr, analyzeOut,
                 doneAnalyzing>>

(* fetchBatch: the Cloud Controller answers with a non-empty page.         *)
FetchPage ==
  /\ fetcher = "fetch"
  /\ served < MaxPages
  /\ served' = served + 1
  /\ fetcher' = "offer"
  /\ UNCHANGED <<desiredApps, appsClosed, success, fetchErr>>
  /\ UNCHANGED fetcherOnly

(* fetchBatch: an empty page ends the fetch.                               *)
FetchLastPage ==
  /\ fetcher = "fetch"
  /\ fetcher' = "flag"
  /\ UNCHANGED <<served, desiredApps, appsClosed, success, fetchErr>>
  /\ UNCHANGED fetcherOnly

(* fetchBatch: no connection, a timeout, a refusal, an unreadable answer.  *)
FetchFails ==
  /\ fetcher = "fetch"
  /\ fetcher' = "fail"
  /\ UNCHANGED <<served, desiredApps, appsClosed, success, fetchErr>>
  /\ UNCHANGED fetcherOnly

(* Faulty variant: a channel without a bound.                              *)
OfferBatchUnbounded ==
  /\ fetcher = "offer"
  /\ desiredApps' = Append(desiredApps, served)
  /\ fetcher' = "fetch"
  /\ UNCHANGED <<served, appsClosed, success, fetchErr>>
  /\ UNCHANGED fetcherOnly

(* sendBatch: the select takes the batch when the buffer has room ...      *)
OfferBatch ==
  /\ fetcher = "offer"
  /\ desiredApps = <<>>
  /\ desiredApps' = <<served>>
  /\ fetcher' = "fetch"
  /\ UNCHANGED <<served, appsClosed, success, fetchErr>>
  /\ UNCHANGED fetcherOnly

(* ... or gives up when the analyzer has stopped; with both possible Go    *)
(* picks either.                                                           *)
StopOffering ==
  /\ fetcher = "offer"
  /\ doneAnalyzing
  /\ fetcher' = "fail"
  /\ UNCHANGED <<served, desiredApps, appsClosed, success, fetchErr>>
  /\ UNCHANGED fetcherOnly

(* fetchDesiredState: the flag is raised, and only then is the result      *)
(* reported.                                                               *)
RaiseFlag ==
  /\ fetcher = "flag"
  /\ success' = TRUE
  /\ fetcher' = "report"
  /\ UNCHANGED <<served, desiredApps, appsClosed, fetchErr>>
  /\ UNCHANGED fetcherOnly

ReportFetched ==
  /\ fetcher = "report"
  /\ fetchErr' = "ok"
  /\ fetcher' = "closeApps"
  /\ UNCHANGED <<served, desiredApps, appsClosed, success>>
  /\ UNCHANGED fetcherOnly

ReportFetchFailed ==
  /\ fetcher = "fail"
  /\ fetchErr' = "failed"
  /\ fetcher' = "closeApps"
  /\ UNCHANGED <<served, desiredApps, appsClosed, success>>
  /\ UNCHANGED fetcherOnly

(* Faulty variant: the channel is left open.                               *)
CloseAppsForgotten ==
  /\ fetcher = "closeApps"
  /\ fetcher' = "end"
  /\ UNCHANGED <<served, desiredApps, appsClosed, success, fetchErr>>
  /\ UNCHANGED fetcherOnly

(* The deferred close of DesiredApps, after the result has been reported.  *)
CloseApps ==
  /\ fetcher = "closeApps"
  /\ appsClosed' = TRUE
  /\ fetcher' = "end"
  /\ UNCHANGED <<served, desiredApps, success, fetchErr>>
  /\ UNCHANGED fetcherOnly

Fetcher == \/ FetchPage \/ FetchLastPage \/ FetchFails \/ OfferBatch
           \/ StopOffering \/ RaiseFlag \/ ReportFetched
           \/ ReportFetchFailed \/ CloseApps

---------------------------------------------------------------------------
(* The analyzing goroutine.                                                *)

analyzerOnly == <<fetcher, main, served, appsClosed, success, fetchErr>>

(* VerifyFreshness, then GetApps and the two reads of pending messages.    *)
ReadStore(from, to) ==
  /\ analyzer = from
  /\ analyzer' = to
  /\ UNCHANGED <<desiredApps, doneAnalyzing, analyzed, written, analyzeErr,
                 analyzeOut>>
  /\ UNCHANGED analyzerOnly

Verify == ReadStore("verify", "load")
Load == ReadStore("load", "drain")

(* Faulty variant: the error of a save is ignored.                         *)
SaveErrorIgnored ==
  /\ analyzer \in Writing
  /\ analyzer' = "return"
  /\ UNCHANGED <<desiredApps, doneAnalyzing, analyzed, written, analyzeErr,
                 analyzeOut>>
  /\ UNCHANGED analyzerOnly

(* Any store call the analyzer makes may fail; Analyze then returns at     *)
(* once.  A failed write is taken to have written nothing: a partial write *)
(* is HealthManager's subject.                                             *)
StoreFails ==
  /\ analyzer \in {"verify", "load"} \cup Writing
  /\ analyzer' = "fail"
  /\ UNCHANGED <<desiredApps, doneAnalyzing, analyzed, written, analyzeErr,
                 analyzeOut>>
  /\ UNCHANGED analyzerOnly

(* for desiredAppBatch := range appQueue.DesiredApps: a batch ...          *)
DrainBatch ==
  /\ analyzer = "drain"
  /\ desiredApps # <<>>
  /\ analyzed' = analyzed \cup {Head(desiredApps)}
  /\ desiredApps' = Tail(desiredApps)
  /\ UNCHANGED <<analyzer, doneAnalyzing, written, analyzeErr, analyzeOut>>
  /\ UNCHANGED analyzerOnly

(* ... or the end of the range: the channel is closed and empty.           *)
DrainEnds ==
  /\ analyzer = "drain"
  /\ desiredApps = <<>>
  /\ appsClosed
  /\ analyzer' = "check"
  /\ UNCHANGED <<desiredApps, doneAnalyzing, analyzed, written, analyzeErr,
                 analyzeOut>>
  /\ UNCHANGED analyzerOnly

(* Faulty variant: the flag is not looked at.                              *)
FlagIgnored(flag) == "saveCrashes"

CheckFetchAsRead(flag) == IF flag THEN "saveCrashes" ELSE "fail"

CheckFetch ==
  /\ analyzer = "check"
  /\ analyzer' = CheckFetchAsRead(success)
  /\ UNCHANGED <<desiredApps, doneAnalyzing, analyzed, written, analyzeErr,
                 analyzeOut>>
  /\ UNCHANGED analyzerOnly

Save(from, kind, to) ==
  /\ analyzer = from
  /\ written' = written \cup {kind}
  /\ analyzer' = to
  /\ UNCHANGED <<desiredApps, doneAnalyzing, analyzed, analyzeErr, analyzeOut>>
  /\ UNCHANGED analyzerOnly

(* Faulty variant: starts are saved before the crash counts.               *)
SaveStartsUncounted == Save("saveCrashes", "starts", "saveStarts")

SaveCrashes == Save("saveCrashes", "crashes", "saveStarts")
SaveStarts == Save("saveStarts", "starts", "saveStops")
SaveStops == Save("saveStops", "stops", "return")

(* Faulty variant: DoneAnalyzing is left open.                             *)
DoneAnalyzingForgotten ==
  /\ analyzer \in {"return", "fail"}
  /\ analyzeErr' = IF analyzer = "return" THEN "ok" ELSE "failed"
  /\ analyzer' = IF analyzer = "return" THEN "output" ELSE "end"
  /\ UNCHANGED <<desiredApps, doneAnalyzing, analyzed, written, analyzeOut>>
  /\ UNCHANGED analyzerOnly

(* Analyze returns: DoneAnalyzing is closed on every path out of it, and   *)
(* the error is reported before the output.                                *)
AnalyzeReturns ==
  /\ analyzer \in {"return", "fail"}
  /\ doneAnalyzing' = TRUE
  /\ analyzeErr' = IF analyzer = "return" THEN "ok" ELSE "failed"
  /\ analyzer' = IF analyzer = "return" THEN "output" ELSE "end"
  /\ UNCHANGED <<desiredApps, analyzed, written, analyzeOut>>
  /\ UNCHANGED analyzerOnly

(* The output of a failed analysis has no apps, which main takes for       *)
(* nothing: only the successful one is sent here.                          *)
ReportOutput ==
  /\ analyzer = "output"
  /\ analyzeOut' = "ok"
  /\ analyzer' = "end"
  /\ UNCHANGED <<desiredApps, doneAnalyzing, analyzed, written, analyzeErr>>
  /\ UNCHANGED analyzerOnly

Analyzer == \/ Verify \/ Load \/ StoreFails \/ DrainBatch \/ DrainEnds
            \/ CheckFetch \/ SaveCrashes \/ SaveStarts \/ SaveStops
            \/ AnalyzeReturns \/ ReportOutput

---------------------------------------------------------------------------
(* analyze(): the select loop and the call of send.                        *)

mainOnly == <<fetcher, analyzer, served, desiredApps, appsClosed,
              doneAnalyzing, success, analyzed, written>>

ReceiveFetchErr ==
  /\ main = "select"
  /\ fetchErr # Empty
  /\ main' = IF fetchErr = "failed" THEN "aborted" ELSE "select"
  /\ fetchErr' = Empty
  /\ UNCHANGED <<analyzeErr, analyzeOut>>
  /\ UNCHANGED mainOnly

ReceiveAnalyzeErr ==
  /\ main = "select"
  /\ analyzeErr # Empty
  /\ main' = IF analyzeErr = "failed" THEN "aborted" ELSE "select"
  /\ analyzeErr' = Empty
  /\ UNCHANGED <<fetchErr, analyzeOut>>
  /\ UNCHANGED mainOnly

ReceiveOutput ==
  /\ main = "select"
  /\ analyzeOut # Empty
  /\ main' = "send"
  /\ analyzeOut' = Empty
  /\ UNCHANGED <<fetchErr, analyzeErr>>
  /\ UNCHANGED mainOnly

(* send(): whether it succeeds makes no difference to the goroutines.      *)
SendMessages ==
  /\ main = "send"
  /\ main' = "returned"
  /\ UNCHANGED <<fetchErr, analyzeErr, analyzeOut>>
  /\ UNCHANGED mainOnly

Main == ReceiveFetchErr \/ ReceiveAnalyzeErr \/ ReceiveOutput \/ SendMessages

---------------------------------------------------------------------------

Next == Fetcher \/ Analyzer \/ Main

(***************************************************************************)
(* The Go scheduler runs every goroutine that can run.  HTTP and store     *)
(* calls return (with an answer or an error): the client has a timeout.    *)
(* A closed result channel is always ready, but select picks among the     *)
(* ready cases at random, so a case that stays ready is taken eventually;  *)
(* Main is one goroutine whose only useful steps are these receives.       *)
(***************************************************************************)
Fairness == WF_vars(Fetcher) /\ WF_vars(Analyzer) /\ WF_vars(Main)

Spec == Init /\ [][Next]_vars /\ Fairness

---------------------------------------------------------------------------
(* Properties.                                                             *)

(* "On an error ... the analyzer should not send any updates"              *)
(* (manage_desired_state.go:83-84): the analyzer writes to the store only  *)
(* once the Cloud Controller has said there are no more pages and every    *)
(* page it served has been analyzed.  An app missing from a truncated list *)
(* would otherwise be stopped as undesired.                                *)
WritesOnlyComplete ==
  analyzer \in Writing \cup {"return"} \/ written # {} =>
    /\ success
    /\ analyzed = 1..served
    /\ fetcher = "end"

(* Component.Run starts the next pass as soon as analyze() has returned,   *)
(* while goroutines of the aborted pass may still run.  They must not      *)
(* write to the store any more: the next pass would race with them.        *)
AbortedPassNeverWrites ==
  [][main = "aborted" => written' = written]_vars

(* The sender runs on a finished analysis: all three writes were made, in  *)
(* this pass, before it is called.                                         *)
SendsOnlyAnalyzed == main \in {"send", "returned"} => written = Write

(* analyze() returns, whatever fails.                                      *)
PassReturns == <>(main \in {"returned", "aborted"})

(* Neither goroutine outlives the pass for ever: a fetcher is not left     *)
(* blocked on a batch nobody drains, nor an analyzer on a channel nobody   *)
(* closes.                                                                 *)
GoroutinesEnd == <>[](fetcher = "end" /\ analyzer = "end")

---------------------------------------------------------------------------
(* What the rest of the system sees of the goroutines: main has not yet    *)
(* ended the pass, or has sent the messages, or has given up.              *)
Outcome ==
  IF main = "returned" THEN "sent"
  ELSE IF main = "aborted" THEN "aborted" ELSE "none"

Promise == INSTANCE AbstractPass
             WITH pages <- served, complete <- success, outcome <- Outcome

(* The three goroutines and their channels together keep the promise of a  *)
(* pass: nothing is written before the list of apps is complete, nothing   *)
(* out of order, nothing once the pass is given up, and the messages are   *)
(* sent when, and only when, all writes were made.                         *)
ImplementsAbstractPass == Promise!Spec
=============================================================================
