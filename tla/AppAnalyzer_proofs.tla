------------------------- MODULE AppAnalyzer_proofs -------------------------
(***************************************************************************)
(* What one analysis of one app returns, for every app, every set of       *)
(* queued messages and every order of its instances: the facts that the    *)
(* proofs about the analyzer by itself (MCAppAnalyzer_proofs) and about    *)
(* the health manager (HealthManager_proofs) rest on.                      *)
(***************************************************************************)
EXTENDS AppAnalyzer, FiniteSetTheorems, TLAPS

---------------------------------------------------------------------------
(* Messages.                                                               *)

(* A save of some keys of a map keeps its type.                            *)
LEMMA WriteType ==
  ASSUME NEW K, NEW M, NEW map \in [K -> M], NEW new \in [K -> M], NEW keys
  PROVE  Write(map, new, keys) \in [K -> M]
BY DEF Write

(* What stands for an absent message or app.                               *)
LEMMA AbsentTypes ==
  /\ NoStart \in PendingStartMessage
  /\ NoStop \in PendingStopMessage
  /\ NotDesired \in DesiredAppState
<1>1. NoStart \in PendingStartMessage
  BY DEF NoStart, NewPendingStartMessage, PendingStartMessage
<1>2. NoStop \in PendingStopMessage
  BY DEF NoStop, NewPendingStopMessage, PendingStopMessage
<1>3. NotDesired \in DesiredAppState
  BY InstancesAssumption DEF NotDesired, DesiredAppState
<1> QED
  BY <1>1, <1>2, <1>3

(* An absent message has not been sent.                                    *)
LEMMA AbsentNotSent == ~HasBeenSent(NoStart) /\ ~HasBeenSent(NoStop)
BY DEF NoStart, NoStop, NewPendingStartMessage, NewPendingStopMessage,
       HasBeenSent

(* An absent message is not queued.                                        *)
LEMMA AbsentNotQueued == ~Queued(NoStart) /\ ~Queued(NoStop)
BY DEF Queued, NoStart, NoStop, NewPendingStartMessage, NewPendingStopMessage

(* The constructors of the messages.                                       *)
LEMMA NewMessageTypes ==
  ASSUME NEW time \in Int, NEW delay \in Int, NEW keepAlive \in Int
  PROVE  /\ \A reason \in StartReason :
              NewPendingStartMessage(time, delay, keepAlive, reason)
                \in PendingStartMessage
         /\ \A reason \in StopReason :
              NewPendingStopMessage(time, delay, keepAlive, reason)
                \in PendingStopMessage
BY DEF NewPendingStartMessage, PendingStartMessage, NewPendingStopMessage,
       PendingStopMessage, StartReason, StopReason

(* Marking a message as sent keeps its type.                               *)
LEMMA MarkTypes ==
  ASSUME NEW time \in Int
  PROVE  /\ \A message \in PendingStartMessage :
              [message EXCEPT !.sentOn = time] \in PendingStartMessage
         /\ \A message \in PendingStopMessage :
              [message EXCEPT !.sentOn = time] \in PendingStopMessage
BY DEF PendingStartMessage, PendingStopMessage, StartReason, StopReason

---------------------------------------------------------------------------
(* Analyses.                                                               *)

(* The backoff is a number, whatever the count.                            *)
LEMMA DelayType ==
  ASSUME NEW crashCount \in Nat
  PROVE  ComputeCrashDelay(crashCount) \in Int
<1> DEFINE doublings == crashCount - NumberOfCrashesBeforeBackoffBegins
<1>1. doublings \in Int
  BY DelaysAssumption
<1>2. 2^doublings \in Int
  BY <1>1
<1> QED
  BY <1>1, <1>2, DelaysAssumption DEF ComputeCrashDelay

(* A power of two is the double of the one before: what is used of them,   *)
(* none of the provers having the definition of powers.                    *)
PowersOfTwo == \A n \in Nat : 2^n \in Nat /\ 2^(n + 1) = 2 * 2^n

(* The backoff is never longer than the maximum.                           *)
LEMMA DelayBound ==
  ASSUME PowersOfTwo, NEW crashCount \in Nat
  PROVE  ComputeCrashDelay(crashCount) \in 0..MaximumBackoffDelay
<1> DEFINE doublings == crashCount - NumberOfCrashesBeforeBackoffBegins
           p == 2^doublings
<1>1. doublings \in Int
  BY DelaysAssumption
<1>2. doublings >= 0 => p \in Nat
  BY <1>1 DEF PowersOfTwo
<1>3. ComputeCrashDelay(crashCount) =
        IF doublings < 0 THEN 0
        ELSE IF StartingBackoffDelay * p > MaximumBackoffDelay
             THEN MaximumBackoffDelay ELSE StartingBackoffDelay * p
  BY DEF ComputeCrashDelay
<1> HIDE DEF doublings, p
<1>4. p \in Nat => StartingBackoffDelay * p \in Nat
  BY DelaysAssumption
<1> QED
  BY <1>1, <1>2, <1>3, <1>4, DelaysAssumption

(* What an analysis adds has the types of what it is added to.             *)
LEMMA AnalysisType ==
  ASSUME NEW a, a.app \in App, a.now \in Nat
  PROVE  Analysis(a) \in [starts : [Indices -> PendingStartMessage],
                          stops : [Guids -> PendingStopMessage],
                          crashCounts : [Indices -> Nat]]
<1>1. ASSUME NEW index \in Indices PROVE NewStart(a, index) \in PendingStartMessage
  <2>1. ASSUME NEW delay \in Int, NEW keepAlive \in Int,
               NEW reason \in StartReason
        PROVE  NewPendingStartMessage(a.now, delay, keepAlive, reason)
                 \in PendingStartMessage
    BY NewMessageTypes
  <2>2. ComputeCrashDelay(a.app.crashCounts[index]) \in Int
    BY DelayType DEF App
  <2>3. GracePeriod \in Int
    BY DelaysAssumption
  <2>4. NoStart \in PendingStartMessage
    BY AbsentTypes
  <2>5. /\ NewPendingStartMessage(a.now, 0, GracePeriod, "EVACUATING")
             \in PendingStartMessage
        /\ NewPendingStartMessage(a.now,
             ComputeCrashDelay(a.app.crashCounts[index]), GracePeriod,
             "CRASHED") \in PendingStartMessage
        /\ NewPendingStartMessage(a.now, GracePeriod, 0, "MISSING")
             \in PendingStartMessage
    BY <2>1, <2>2, <2>3 DEF StartReason
  <2> QED
    BY <2>4, <2>5, Zenon DEF NewStart
<1>2. ASSUME NEW guid \in Guids PROVE NewStop(a, guid) \in PendingStopMessage
  <2>1. ASSUME NEW delay \in Int, NEW reason \in StopReason
        PROVE  NewPendingStopMessage(a.now, delay, GracePeriod, reason)
                 \in PendingStopMessage
    BY NewMessageTypes, DelaysAssumption
  <2>2. DuplicateDelay(a, guid) \in Int
    <3> DEFINE before == {h \in Duplicates(a, guid) : a.order[h] < a.order[guid]}
    <3>1. before \subseteq Guids
      BY DEF Duplicates, StartingOrRunningInstancesAtIndex,
             InstanceHeartbeatsAtIndex
    <3>2. Cardinality(before) \in Nat
      BY <3>1, InstancesAssumption, FS_Subset, FS_CardinalityType
    <3> QED
      BY <3>2, DelaysAssumption DEF DuplicateDelay
  <2>3. NoStop \in PendingStopMessage
    BY AbsentTypes
  <2>4. /\ NewPendingStopMessage(a.now, 0, GracePeriod, "EXTRA")
             \in PendingStopMessage
        /\ NewPendingStopMessage(a.now, 0, GracePeriod,
             "EVACUATION_COMPLETE") \in PendingStopMessage
        /\ NewPendingStopMessage(a.now, DuplicateDelay(a, guid), GracePeriod,
             "DUPLICATE") \in PendingStopMessage
    BY <2>1, <2>2 DEF StopReason
  <2> QED
    BY <2>3, <2>4, Zenon DEF NewStop
<1>3. CrashCountsToSave(a) \in [Indices -> Nat]
  BY DEF CrashCountsToSave, App
<1> QED
  BY <1>1, <1>2, <1>3 DEF Analysis, NewStarts, NewStops

(* An analysis makes messages that have not been sent.                     *)
LEMMA AnalysisUnmarked ==
  ASSUME NEW a
  PROVE  /\ \A index \in Indices : ~HasBeenSent(Analysis(a).starts[index])
         /\ \A guid \in Guids : ~HasBeenSent(Analysis(a).stops[guid])
<1>1. ASSUME NEW time, NEW delay, NEW keepAlive, NEW reason
      PROVE  /\ ~HasBeenSent(
                   NewPendingStartMessage(time, delay, keepAlive, reason))
             /\ ~HasBeenSent(
                   NewPendingStopMessage(time, delay, keepAlive, reason))
  BY DEF NewPendingStartMessage, NewPendingStopMessage, HasBeenSent
<1>2. ASSUME NEW index \in Indices PROVE ~HasBeenSent(NewStart(a, index))
  BY <1>1, AbsentNotSent, Zenon DEF NewStart
<1>3. ASSUME NEW guid \in Guids PROVE ~HasBeenSent(NewStop(a, guid))
  BY <1>1, AbsentNotSent, Zenon DEF NewStop
<1> QED
  BY <1>2, <1>3 DEF Analysis, NewStarts, NewStops

(* An analysis raises the count of every index it restarts after a crash,  *)
(* and of no other.                                                        *)
LEMMA AnalysisCounts ==
  ASSUME NEW a, NEW index \in Indices, a.app.crashCounts \in [Indices -> Nat]
  PROVE  /\ Analysis(a).crashCounts[index] # 0 =>
              /\ Analysis(a).crashCounts[index] = a.app.crashCounts[index] + 1
              /\ \E g \in Guids : a.app.heartbeats[g] # NoHeartbeat
         /\ Analysis(a).starts[index].reason = "CRASHED" =>
              Analysis(a).crashCounts[index] # 0
<1>1. StartsCrashed(a, index) =>
        \E g \in Guids : a.app.heartbeats[g] # NoHeartbeat
  BY DEF StartsCrashed, HasCrashedInstanceAtIndex, InstancesAtIndex,
         InstanceHeartbeatsAtIndex
<1>2. Analysis(a).crashCounts[index] =
        IF StartsCrashed(a, index) THEN a.app.crashCounts[index] + 1 ELSE 0
  BY DEF Analysis, CrashCountsToSave
<1>3. NewStart(a, index).reason = "CRASHED" => StartsCrashed(a, index)
  BY DEF NewStart, NewPendingStartMessage, NoStart
<1>4. Analysis(a).starts[index] = NewStart(a, index)
  BY DEF Analysis, NewStarts
<1> QED
  BY <1>1, <1>2, <1>3, <1>4

(* An analysis adds nothing under a key that was queued when it was read.  *)
LEMMA AnalysisAddsOnly ==
  ASSUME NEW a
  PROVE  /\ \A index \in Indices :
              Queued(a.starts[index]) => ~Queued(Analysis(a).starts[index])
         /\ \A guid \in Guids :
              Queued(a.stops[guid]) => ~Queued(Analysis(a).stops[guid])
<1>1. ASSUME NEW index \in Indices, Queued(a.starts[index])
      PROVE  ~Queued(Analysis(a).starts[index])
  <2>1. ~StartsEvacuating(a, index) /\ ~StartsCrashed(a, index)
        /\ ~StartsMissing(a, index)
    BY <1>1 DEF StartsEvacuating, StartsCrashed, StartsMissing, AlreadyQueued
  <2>2. NewStart(a, index) = NoStart
    BY <2>1 DEF NewStart
  <2> QED
    BY <2>2, AbsentNotQueued DEF Analysis, NewStarts
<1>2. ASSUME NEW guid \in Guids, Queued(a.stops[guid])
      PROVE  ~Queued(Analysis(a).stops[guid])
  <2>1. NewStop(a, guid) = NoStop
    BY <1>2 DEF NewStop
  <2> QED
    BY <2>1, AbsentNotQueued DEF Analysis, NewStops
<1> QED
  BY <1>1, <1>2

---------------------------------------------------------------------------
(* Why a message is made.                                                  *)

(* A start is made for one of three reasons, which one its reason tells.   *)
LEMMA StartReasons ==
  ASSUME NEW a, NEW index
  PROVE  /\ Queued(NewStart(a, index)) <=>
              \/ StartsEvacuating(a, index)
              \/ StartsCrashed(a, index)
              \/ StartsMissing(a, index)
         /\ NewStart(a, index).reason = "CRASHED" =>
              /\ StartsCrashed(a, index)
              /\ NewStart(a, index).sendOn =
                   a.now + ComputeCrashDelay(a.app.crashCounts[index])
<1>1. CASE StartsEvacuating(a, index)
  BY <1>1 DEF NewStart, NewPendingStartMessage, Queued
<1>2. CASE ~StartsEvacuating(a, index) /\ StartsCrashed(a, index)
  BY <1>2 DEF NewStart, NewPendingStartMessage, Queued
<1>3. CASE /\ ~StartsEvacuating(a, index)
           /\ ~StartsCrashed(a, index)
           /\ StartsMissing(a, index)
  BY <1>3 DEF NewStart, NewPendingStartMessage, Queued
<1>4. CASE /\ ~StartsEvacuating(a, index)
           /\ ~StartsCrashed(a, index)
           /\ ~StartsMissing(a, index)
  <2>1. NewStart(a, index) = NoStart
    BY <1>4 DEF NewStart
  <2>2. NoStart.reason = "" /\ NoStart.reason # "CRASHED"
    BY DEF NoStart, NewPendingStartMessage
  <2> QED
    BY <1>4, <2>1, <2>2, Zenon DEF Queued
<1> QED
  BY <1>1, <1>2, <1>3, <1>4

(* When the start of an analysis is due and how long it is kept: no start  *)
(* is overdue when it is made.                                             *)
LEMMA NewStartTimes ==
  ASSUME PowersOfTwo, NEW a, a.app \in App, a.now \in Nat, NEW index \in Indices
  PROVE  Queued(NewStart(a, index)) =>
           /\ NewStart(a, index).sendOn
                \in a.now..a.now + MaximumBackoffDelay
                   \cup {a.now + GracePeriod}
           /\ NewStart(a, index).keepAlive \in 0..GracePeriod
           /\ ~HasBeenSent(NewStart(a, index))
           /\ ~NewStart(a, index).skipVerification
<1>1. ASSUME NEW delay, NEW keepAlive, NEW reason
      PROVE  LET m == NewPendingStartMessage(a.now, delay, keepAlive, reason)
             IN  /\ m.sendOn = a.now + delay /\ m.keepAlive = keepAlive
                 /\ ~HasBeenSent(m) /\ ~m.skipVerification
  BY DEF NewPendingStartMessage, HasBeenSent
<1>2. a.app.crashCounts[index] \in Nat
  BY DEF App
<1>3. ComputeCrashDelay(a.app.crashCounts[index]) \in 0..MaximumBackoffDelay
  BY <1>2, DelayBound
<1>4. CASE StartsEvacuating(a, index)
  <2>1. NewStart(a, index) =
          NewPendingStartMessage(a.now, 0, GracePeriod, "EVACUATING")
    BY <1>4 DEF NewStart
  <2> QED
    BY <1>1, <2>1, DelaysAssumption
<1>5. CASE ~StartsEvacuating(a, index) /\ StartsCrashed(a, index)
  <2>1. NewStart(a, index) =
          NewPendingStartMessage(a.now,
            ComputeCrashDelay(a.app.crashCounts[index]), GracePeriod, "CRASHED")
    BY <1>5 DEF NewStart
  <2> QED
    BY <1>1, <1>3, <2>1, DelaysAssumption
<1>6. CASE /\ ~StartsEvacuating(a, index) /\ ~StartsCrashed(a, index)
           /\ StartsMissing(a, index)
  <2>1. NewStart(a, index) =
          NewPendingStartMessage(a.now, GracePeriod, 0, "MISSING")
    BY <1>6 DEF NewStart
  <2> QED
    BY <1>1, <2>1, DelaysAssumption
<1> QED
  BY <1>4, <1>5, <1>6, StartReasons

(* A stop is made for one of four reasons; only that of a duplicate is not *)
(* due at once.                                                            *)
LEMMA StopReasons ==
  ASSUME NEW a, NEW guid
  PROVE  /\ Queued(NewStop(a, guid)) <=>
              /\ ~Queued(a.stops[guid])
              /\ \/ StopsEvacuatingExtra(a, guid)
                 \/ StopsExtra(a, guid)
                 \/ StopsEvacuated(a, guid)
                 \/ StopsDuplicate(a, guid)
         /\ NewStop(a, guid).reason = "DUPLICATE" =>
              /\ StopsDuplicate(a, guid)
              /\ NewStop(a, guid).sendOn = a.now + DuplicateDelay(a, guid)
         /\ NewStop(a, guid).reason \in {"EXTRA", "EVACUATION_COMPLETE"} =>
              \/ StopsEvacuatingExtra(a, guid)
              \/ StopsExtra(a, guid)
              \/ StopsEvacuated(a, guid)
         /\ NewStop(a, guid).reason \in StopReason \cup {""}
<1>1. CASE /\ ~Queued(a.stops[guid])
           /\ StopsEvacuatingExtra(a, guid) \/ StopsExtra(a, guid)
  BY <1>1 DEF NewStop, NewPendingStopMessage, Queued, StopReason
<1>2. CASE /\ ~Queued(a.stops[guid])
           /\ ~(StopsEvacuatingExtra(a, guid) \/ StopsExtra(a, guid))
           /\ StopsEvacuated(a, guid)
  BY <1>2 DEF NewStop, NewPendingStopMessage, Queued, StopReason
<1>3. CASE /\ ~Queued(a.stops[guid])
           /\ ~(StopsEvacuatingExtra(a, guid) \/ StopsExtra(a, guid))
           /\ ~StopsEvacuated(a, guid)
           /\ StopsDuplicate(a, guid)
  BY <1>3 DEF NewStop, NewPendingStopMessage, Queued, StopReason
<1>4. CASE \/ Queued(a.stops[guid])
           \/ /\ ~(StopsEvacuatingExtra(a, guid) \/ StopsExtra(a, guid))
              /\ ~StopsEvacuated(a, guid)
              /\ ~StopsDuplicate(a, guid)
  <2>1. NewStop(a, guid) = NoStop
    BY <1>4 DEF NewStop
  <2>2. /\ NoStop.reason = ""
        /\ NoStop.reason \notin {"DUPLICATE", "EXTRA", "EVACUATION_COMPLETE"}
    BY DEF NoStop, NewPendingStopMessage
  <2> QED
    BY <1>4, <2>1, <2>2, Zenon DEF Queued
<1> QED
  BY <1>1, <1>2, <1>3, <1>4

(* The duplicates before one in the list of heartbeats can be counted.     *)
DuplicatesBefore(a, guid) ==
  {h \in Duplicates(a, guid) : a.order[h] < a.order[guid]}

(* There are finitely many, and the delay of a stop is counted from them.  *)
LEMMA DuplicatesCounted ==
  ASSUME NEW a, NEW guid
  PROVE  /\ Duplicates(a, guid) \subseteq Guids
         /\ IsFiniteSet(DuplicatesBefore(a, guid))
         /\ Cardinality(DuplicatesBefore(a, guid)) \in Nat
         /\ DuplicateDelay(a, guid) =
              4 * GracePeriod
                + GracePeriod * Cardinality(DuplicatesBefore(a, guid))
<1>1. Duplicates(a, guid) \subseteq Guids
  BY DEF Duplicates, StartingOrRunningInstancesAtIndex,
         InstanceHeartbeatsAtIndex
<1>2. DuplicatesBefore(a, guid) \in SUBSET Guids
  BY <1>1 DEF DuplicatesBefore
<1> QED
  BY <1>1, <1>2, InstancesAssumption, FS_Subset, FS_CardinalityType
  DEF DuplicateDelay, DuplicatesBefore

(* The stop of a duplicate is put off by four grace periods at least.      *)
LEMMA DuplicatesWait ==
  ASSUME NEW a, NEW guid
  PROVE  /\ DuplicateDelay(a, guid) \in Int
         /\ DuplicateDelay(a, guid) >= 4 * GracePeriod
<1> DEFINE n == GracePeriod * Cardinality(DuplicatesBefore(a, guid))
<1>1. n \in Nat
  BY DuplicatesCounted, DelaysAssumption
<1>2. DuplicateDelay(a, guid) = 4 * GracePeriod + n
  BY DuplicatesCounted
<1> HIDE DEF n
<1> QED
  BY <1>1, <1>2, DelaysAssumption

(* Of two duplicates of an index the one further down the list of          *)
(* heartbeats waits a grace period longer, or more.                        *)
LEMMA DuplicatesApart ==
  ASSUME NEW a, \A x \in Guids : a.order[x] \in Int,
         NEW g \in Guids, NEW h \in Guids,
         Duplicates(a, g) = Duplicates(a, h), g \in Duplicates(a, g),
         a.order[g] < a.order[h]
  PROVE  DuplicateDelay(a, h) >= DuplicateDelay(a, g) + GracePeriod
<1>1. DuplicatesBefore(a, g) \subseteq DuplicatesBefore(a, h)
  <2>1. Duplicates(a, g) \subseteq Guids
    BY DuplicatesCounted
  <2> QED
    BY <2>1 DEF DuplicatesBefore
<1>2. g \in DuplicatesBefore(a, h) /\ g \notin DuplicatesBefore(a, g)
  BY DEF DuplicatesBefore
<1> DEFINE n == Cardinality(DuplicatesBefore(a, g))
           m == Cardinality(DuplicatesBefore(a, h))
<1>3. n \in Nat /\ m \in Nat
  BY DuplicatesCounted
<1>4. n <= m /\ n # m
  BY <1>1, <1>2, DuplicatesCounted, FS_Subset
<1>5. /\ DuplicateDelay(a, g) = 4 * GracePeriod + GracePeriod * n
      /\ DuplicateDelay(a, h) = 4 * GracePeriod + GracePeriod * m
  BY DuplicatesCounted
<1> HIDE DEF n, m
<1>6. m - n - 1 \in Nat
  BY <1>3, <1>4
<1>7. GracePeriod * m =
        GracePeriod * n + GracePeriod + GracePeriod * (m - n - 1)
  BY <1>3, DelaysAssumption
<1>8. /\ GracePeriod * (m - n - 1) \in Nat
      /\ GracePeriod * n \in Nat
      /\ GracePeriod * m \in Nat
  BY <1>3, <1>6, DelaysAssumption
<1> QED
  BY <1>5, <1>7, <1>8, DelaysAssumption
=============================================================================
