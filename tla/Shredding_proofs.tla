-------------------------- MODULE Shredding_proofs --------------------------
(***************************************************************************)
(* Proofs about Shredding, for any number of processes, keys, versions,    *)
(* intervals and failures.                                                 *)
(***************************************************************************)
EXTENDS Shredding, TLAPS

---------------------------------------------------------------------------
(* The polling loop.                                                       *)

(* What a step is to the loop: that of a process, time, or nothing.        *)
LEMMA StepsOfLoop ==
  ASSUME [Next]_vars
  PROVE  \/ \E p \in Processes :
              \/ StartsAction(p) \/ EndsProcess(p) \/ ActionReturns(p)
              \/ LoopStep(p)
         \/ TimePasses
         \/ UNCHANGED loopVars
BY DEF Next, Pass, Loop, vars

(* Whose lock it is, and where an action may be running.  A process in the *)
(* loop holds the lock, or was cut off from consul: the group stops its    *)
(* members in the reverse order, so that the lock goes after the Component.*)
HasLock(p) == main[p] \in Leading \cup {"stopping"} => holder = p \/ p \in expired
MayRun(p) ==
  running[p] # "no" => main[p] \in {"pass", "stopping", "released", "once"}

LoopTypes ==
  /\ main \in [Processes -> MainPoint]
  /\ running \in [Processes -> {"no", "yes", "stuck"}]
  /\ holder \in Processes \cup {Nobody}
  /\ expired \in SUBSET Processes

LoopInv == LoopTypes /\ \A p \in Processes : HasLock(p) /\ MayRun(p)

(* Nothing runs and nobody has the lock at the start.                      *)
LEMMA InitLoop == Init => LoopInv
BY DEF Init, LoopInit, LoopInv, LoopTypes, HasLock, MayRun, MainPoint, Leading

(* The steps of one process keep the types.                                *)
LEMMA StepLoopTypes ==
  ASSUME LoopTypes, NEW p \in Processes,
         StartsAction(p) \/ EndsProcess(p) \/ ActionReturns(p) \/ LoopStep(p)
  PROVE  LoopTypes'
<1> USE DEF LoopTypes, MainPoint, Go
<1>1. CASE StartsAction(p)
  BY <1>1 DEF StartsAction, BeginsPass, RunsOnce
<1>2. CASE EndsProcess(p)
  BY <1>2 DEF EndsProcess, Exits, Dies
<1>3. CASE ActionReturns(p)
  BY <1>3 DEF ActionReturns
<1>4. CASE Starts(p) \/ AcquiresLock(p) \/ Signalled(p) \/ LockRunnerEnds(p)
  BY <1>4 DEF Starts, AcquiresLock, Signalled, LockRunnerEnds
<1>5. CASE NoticesLoss(p) \/ SessionExpires(p) \/ GetsStuck(p)
  BY <1>5 DEF NoticesLoss, SessionExpires, GetsStuck
<1>6. CASE PassEnds(p) \/ TimesOut(p) \/ IntervalEnds(p)
  BY <1>6 DEF PassEnds, TimesOut, IntervalEnds
<1> QED
  BY <1>1, <1>2, <1>3, <1>4, <1>5, <1>6 DEF LoopStep

(* They touch the main function and the action of that process alone, the  *)
(* lock only to give up its own or to take one that nobody has.            *)
LEMMA StepOfOne ==
  ASSUME LoopTypes, NEW p \in Processes, NEW q \in Processes, q # p,
         StartsAction(p) \/ EndsProcess(p) \/ ActionReturns(p) \/ LoopStep(p)
  PROVE  /\ main'[q] = main[q] /\ running'[q] = running[q]
         /\ q \in expired => q \in expired'
         /\ holder = q => holder' = q
<1> USE PollLoopAssumption DEF LoopTypes, Go
<1>1. CASE StartsAction(p)
  BY <1>1 DEF StartsAction, BeginsPass, RunsOnce
<1>2. CASE EndsProcess(p)
  BY <1>2 DEF EndsProcess, Exits, Dies
<1>3. CASE ActionReturns(p)
  BY <1>3 DEF ActionReturns
<1>4. CASE Starts(p) \/ AcquiresLock(p) \/ Signalled(p) \/ LockRunnerEnds(p)
  BY <1>4 DEF Starts, AcquiresLock, Signalled, LockRunnerEnds
<1>5. CASE NoticesLoss(p) \/ SessionExpires(p) \/ GetsStuck(p)
  BY <1>5 DEF NoticesLoss, SessionExpires, GetsStuck
<1>6. CASE PassEnds(p) \/ TimesOut(p) \/ IntervalEnds(p)
  BY <1>6 DEF PassEnds, TimesOut, IntervalEnds
<1> QED
  BY <1>1, <1>2, <1>3, <1>4, <1>5, <1>6 DEF LoopStep

(* What they do to the process itself.                                     *)
LEMMA StepOfSelf ==
  ASSUME LoopTypes, NEW p \in Processes, HasLock(p), MayRun(p),
         StartsAction(p) \/ EndsProcess(p) \/ ActionReturns(p) \/ LoopStep(p)
  PROVE  HasLock(p)' /\ MayRun(p)'
<1> USE DEF LoopTypes, HasLock, MayRun, Leading, Go
<1>1. CASE StartsAction(p)
  BY <1>1 DEF StartsAction, BeginsPass, RunsOnce
<1>2. CASE EndsProcess(p)
  BY <1>2 DEF EndsProcess, Exits, Dies
<1>3. CASE ActionReturns(p)
  BY <1>3 DEF ActionReturns
<1>4. CASE Starts(p) \/ AcquiresLock(p) \/ Signalled(p) \/ LockRunnerEnds(p)
  BY <1>4 DEF Starts, AcquiresLock, Signalled, LockRunnerEnds
<1>5. CASE NoticesLoss(p) \/ SessionExpires(p) \/ GetsStuck(p)
  BY <1>5 DEF NoticesLoss, SessionExpires, GetsStuck
<1>6. CASE PassEnds(p) \/ TimesOut(p) \/ IntervalEnds(p)
  BY <1>6 DEF PassEnds, TimesOut, IntervalEnds
<1> QED
  BY <1>1, <1>2, <1>3, <1>4, <1>5, <1>6 DEF LoopStep

(* Every step keeps the invariant of the loop.                             *)
LEMMA NextLoop == LoopInv /\ [Next]_vars => LoopInv'
<1> SUFFICES ASSUME LoopInv, [Next]_vars PROVE LoopInv'
  OBVIOUS
<1>1. ASSUME NEW p \in Processes,
             StartsAction(p) \/ EndsProcess(p) \/ ActionReturns(p) \/ LoopStep(p)
      PROVE  LoopInv'
  <2>1. LoopTypes'
    BY <1>1, StepLoopTypes DEF LoopInv
  <2>2. HasLock(p)' /\ MayRun(p)'
    BY <1>1, StepOfSelf DEF LoopInv
  <2>3. ASSUME NEW q \in Processes, q # p PROVE HasLock(q)' /\ MayRun(q)'
    <3>1. /\ main'[q] = main[q] /\ running'[q] = running[q]
          /\ q \in expired => q \in expired'
          /\ holder = q => holder' = q
      BY <1>1, <2>3, StepOfOne DEF LoopInv
    <3> QED
      BY <3>1 DEF LoopInv, HasLock, MayRun
  <2> QED
    BY <2>1, <2>2, <2>3 DEF LoopInv
<1>2. CASE TimePasses
  BY <1>2 DEF TimePasses, LoopInv, LoopTypes, HasLock, MayRun
<1>3. CASE UNCHANGED loopVars
  BY <1>3 DEF loopVars, LoopInv, LoopTypes, HasLock, MayRun
<1> QED
  BY <1>1, <1>2, <1>3, StepsOfLoop

(* A process never begins a pass while an action it began still runs: a    *)
(* pass that takes too long ends the process (ifrit.go:81-88).             *)
THEOREM OnePassAtATime == Spec => []NoPassOverrun
<1>1. LoopInv => NoPassOverrun
  BY DEF LoopInv, MayRun, NoPassOverrun
<1> QED
  BY <1>1, InitLoop, NextLoop, PTL DEF Spec

(* Passes of two processes overlap only if one is on its way out, run by   *)
(* hand, or cut off from consul (ifrit.go:44-54).                          *)
THEOREM LeaderRunsAlone == Spec => []OverlapOnlyOnExit
<1>1. LoopInv => OverlapOnlyOnExit
  <2> SUFFICES ASSUME LoopInv, NEW p \in Processes, NEW q \in Processes,
                      p # q, running[p] # "no", running[q] # "no",
                      main[p] \notin {"released", "once"}, p \notin expired,
                      main[q] \notin {"released", "once"}, q \notin expired
               PROVE  FALSE
    BY DEF OverlapOnlyOnExit
  <2>1. main[p] \in {"pass", "stopping"} /\ main[q] \in {"pass", "stopping"}
    BY DEF LoopInv, MayRun
  <2>2. holder = p /\ holder = q
    BY <2>1 DEF LoopInv, HasLock, Leading
  <2> QED
    BY <2>2
<1> QED
  BY <1>1, InitLoop, NextLoop, PTL DEF Spec

---------------------------------------------------------------------------
(* Compact.                                                                *)

Paths == Keys \cup Directories

(* Keys and directories are sequences; a directory is above some key.      *)
LEMMA PathTypes ==
  /\ \A key \in Keys : Ancestors(key) \subseteq Directories
  /\ \A n \in Paths : n \in Seq(STRING)
<1>1. \A key \in Keys : Ancestors(key) \subseteq Directories
  BY DEF Directories
<1>2. ASSUME NEW key \in Keys, NEW n \in Ancestors(key) PROVE n \in Seq(STRING)
  <2>1. PICK k \in 1..Len(key) - 1 : n = SubSeq(key, 1, k)
    BY DEF Ancestors
  <2>2. key \in Seq(STRING) /\ Len(key) \in Nat
    BY CompactionAssumption
  <2>3. \A i \in 1..k : key[i] \in STRING
    BY <2>2
  <2> QED
    BY <2>1, <2>2, <2>3
<1> QED
  BY <1>1, <1>2, CompactionAssumption DEF Paths, Directories

(* A node is among those below it, and what is below a first name begins   *)
(* with it.                                                                *)
LEMMA PathPrefixes ==
  /\ \A n \in Paths : IsPrefix(n, n)
  /\ \A n, key \in Paths : Len(n) = 1 /\ IsPrefix(n, key) => Head(key) = Head(n)
<1>1. ASSUME NEW n \in Paths PROVE IsPrefix(n, n)
  <2>1. Len(n) \in Nat
    BY PathTypes
  <2> QED
    BY <2>1 DEF IsPrefix
<1>2. ASSUME NEW n \in Paths, NEW key \in Paths, Len(n) = 1, IsPrefix(n, key)
      PROVE  Head(key) = Head(n)
  <2>1. n \in Seq(STRING) /\ key \in Seq(STRING) /\ Len(key) >= 1
    BY <1>2, PathTypes DEF IsPrefix
  <2>2. SubSeq(n, 1, 1) = SubSeq(key, 1, 1)
    BY <1>2 DEF IsPrefix
  <2>3. SubSeq(n, 1, 1)[1] = n[1] /\ SubSeq(key, 1, 1)[1] = key[1]
    BY <2>1, <1>2
  <2> QED
    BY <2>1, <2>2, <2>3, <1>2
<1> QED
  BY <1>1, <1>2

(* What Compact has decided to delete: first names that are condemned,     *)
(* then directories of which the listing shows no key below.               *)
Decided(p) ==
  /\ step[p] = "versions" =>
       \A n \in toDelete[p] : Len(n) = 1 /\ Condemned(Head(n))
  /\ step[p] = "empty" =>
       \A n \in toDelete[p] : \A key \in seen[p] : ~IsPrefix(n, key)

CompactInv == CompactTypeOK /\ \A p \in Shredders : Decided(p)

(* At the start nothing is to be deleted.                                  *)
LEMMA InitCompact == Init => CompactInv
<1> SUFFICES ASSUME Init PROVE CompactInv
  OBVIOUS
<1>1. 0 \in 0..MaxSaves
  BY CompactionAssumption
<1>2. CompactTypeOK
  BY <1>1 DEF Init, CompactInit, CompactTypeOK
<1>3. \A p \in Shredders : step[p] = "none"
  BY DEF Init, CompactInit
<1> QED
  BY <1>2, <1>3 DEF CompactInv, Decided

(* The other processes save and remove keys, and leave the decisions alone.*)
LEMMA OthersCompact ==
  ASSUME CompactInv, OthersStep
  PROVE  CompactInv'
<1>1. PICK key \in Keys : SavesKey(key) \/ RemovesKey(key)
  BY DEF OthersStep
<1>2. nodes' \in SUBSET (Keys \cup Directories)
  BY <1>1, PathTypes DEF SavesKey, RemovesKey, CompactInv, CompactTypeOK
<1>3. saves' \in 0..MaxSaves
  BY <1>1, CompactionAssumption
  DEF SavesKey, RemovesKey, CompactInv, CompactTypeOK
<1>4. UNCHANGED <<step, toDelete, failed, seen>>
  BY <1>1 DEF SavesKey, RemovesKey
<1> QED
  BY <1>2, <1>3, <1>4 DEF CompactInv, CompactTypeOK, Decided

(* What a step of a shredder may do to the variables of Compact.           *)
CompactFrame(p) ==
  /\ step' = [step EXCEPT ![p] = step'[p]]
  /\ toDelete' = [toDelete EXCEPT ![p] = toDelete'[p]]
  /\ failed' = [failed EXCEPT ![p] = failed'[p]]
  /\ seen' = [seen EXCEPT ![p] = seen'[p]]
  /\ step'[p] \in {"none", "list", "versions", "listRoot", "empty", "done"}
  /\ toDelete'[p] \in SUBSET Directories
  /\ failed'[p] \in BOOLEAN
  /\ seen'[p] \in SUBSET Keys
  /\ nodes' \in SUBSET (Keys \cup Directories)
  /\ saves' = saves

(* A step within that frame keeps the invariant if its decision is right.  *)
LEMMA FrameCompact ==
  ASSUME CompactInv, NEW p \in Shredders, CompactFrame(p), Decided(p)'
  PROVE  CompactInv'
<1>1. CompactTypeOK'
  BY DEF CompactFrame, CompactInv, CompactTypeOK
<1>2. ASSUME NEW q \in Shredders, q # p PROVE Decided(q)'
  <2>1. /\ step'[q] = step[q] /\ toDelete'[q] = toDelete[q]
        /\ seen'[q] = seen[q]
    BY <1>2 DEF CompactFrame, CompactInv, CompactTypeOK
  <2> QED
    BY <2>1 DEF CompactInv, Decided
<1> QED
  BY <1>1, <1>2 DEF CompactInv

(* The two listings decide from what they show.                            *)
LEMMA ListingDecides ==
  ASSUME CompactInv, NEW p \in Shredders, ListsEverything(p) \/ ListsRoot(p)
  PROVE  CompactFrame(p) /\ Decided(p)'
<1> USE DEF CompactInv, CompactTypeOK, CompactFrame
<1>1. CASE ListsEverything(p)
  <2>1. {n \in nodes : Len(n) = 1 /\ Condemned(Head(n))} \subseteq Directories
    <3>1. ASSUME NEW n \in Keys PROVE Len(n) # 1
      <4>1. Len(n) > 1 /\ n \in Seq(STRING)
        BY CompactionAssumption
      <4>2. \A k \in Nat : k > 1 => k # 1
        OBVIOUS
      <4> QED
        BY <4>1, <4>2
    <3> QED
      BY <3>1
  <2>2. /\ step' = [step EXCEPT ![p] = "versions"]
        /\ toDelete' = [toDelete EXCEPT ![p] =
             {n \in nodes : Len(n) = 1 /\ Condemned(Head(n))}]
        /\ seen' = [seen EXCEPT ![p] = Keys \cap nodes]
        /\ UNCHANGED <<nodes, failed, saves>>
    BY <1>1 DEF ListsEverything, Compacts
  <2>3. CompactFrame(p)
    BY <2>1, <2>2
  <2> QED
    BY <2>2, <2>3 DEF Decided
<1>2. CASE ListsRoot(p)
  <2> DEFINE listing == Tree(Root, nodes)
             empty == {n \in listing : Hollow(n, listing)}
  <2>1. ASSUME NEW n \in empty
        PROVE  n \in Directories /\ \A key \in Keys \cap listing : ~IsPrefix(n, key)
    <3>1. n \in Paths /\ n \in listing /\ Hollow(n, listing)
      BY DEF Tree, Paths
    <3>2. \A key \in Keys \cap listing : ~IsPrefix(n, key)
      BY <3>1 DEF Hollow, Tree
    <3>3. IsPrefix(n, n)
      BY <3>1, PathPrefixes
    <3> HIDE DEF listing
    <3>4. n \notin Keys
      BY <3>1, <3>2, <3>3
    <3> QED
      BY <3>1, <3>2, <3>4 DEF Paths
  <2>2. /\ step' = [step EXCEPT ![p] = IF Root \in nodes THEN "empty" ELSE "done"]
        /\ toDelete' = [toDelete EXCEPT ![p] = empty]
        /\ seen' = [seen EXCEPT ![p] = Keys \cap listing]
        /\ UNCHANGED <<nodes, failed, saves>>
    BY <1>2 DEF ListsRoot, Compacts
  <2>3. empty \subseteq Directories
    BY <2>1
  <2> HIDE DEF empty, listing
  <2>4. CompactFrame(p)
    BY <2>2, <2>3
  <2> QED
    BY <2>1, <2>2, <2>4 DEF Decided
<1> QED
  BY <1>1, <1>2

(* The other steps decide nothing new.                                     *)
LEMMA ShredderDecides ==
  ASSUME CompactInv, NEW p \in Shredders,
         \/ CompactBegins(p) \/ CompactEnds(p) \/ ListFails(p)
         \/ VersionsDeleted(p) \/ EmptyDeleted(p)
         \/ \E n \in toDelete[p] : DeletesVersion(p, n) \/ DeletesEmpty(p, n)
  PROVE  CompactFrame(p) /\ Decided(p)'
<1> USE DEF CompactInv, CompactTypeOK, CompactFrame, Decided
<1>1. CASE CompactBegins(p) \/ CompactEnds(p)
  BY <1>1 DEF CompactBegins, CompactEnds
<1>2. CASE ListFails(p) \/ VersionsDeleted(p) \/ EmptyDeleted(p)
  BY <1>2 DEF ListFails, VersionsDeleted, EmptyDeleted, Compacts
<1>3. ASSUME NEW n \in toDelete[p], DeletesVersion(p, n)
      PROVE  CompactFrame(p) /\ Decided(p)'
  BY <1>3 DEF DeletesVersion
<1>4. ASSUME NEW n \in toDelete[p], DeletesEmpty(p, n)
      PROVE  CompactFrame(p) /\ Decided(p)'
  BY <1>4 DEF DeletesEmpty
<1> QED
  BY <1>1, <1>2, <1>3, <1>4

(* Every step keeps the decisions of every shredder.                       *)
LEMMA NextCompact == CompactInv /\ [Next]_vars => CompactInv'
<1> SUFFICES ASSUME CompactInv, [Next]_vars PROVE CompactInv'
  OBVIOUS
<1>1. CASE UNCHANGED compactVars
  BY <1>1 DEF compactVars, CompactInv, CompactTypeOK, Decided
<1>2. ASSUME NEW p \in Processes, Pass(p) PROVE CompactInv'
  <2>1. p \in Shredders
    BY ShreddingAssumption
  <2>2. CompactBegins(p) \/ CompactEnds(p) \/ CompactStep(p)
    BY <1>2 DEF Pass
  <2> QED
    BY <2>1, <2>2, ListingDecides, ShredderDecides, FrameCompact
    DEF CompactStep
<1> QED
  BY <1>1, <1>2, OthersCompact DEF Next, Loop, vars

(* Compact deletes no key it saw, but those under condemned names, with    *)
(* any number of shredders at work, in whatever order (compact.go:35-88).  *)
THEOREM SeenKeysStay == Spec => SparesWhatItSaw
<1>1. ASSUME CompactInv, [Next]_vars, NEW p \in Shredders, Deletes(p),
             NEW key \in seen[p], key \notin nodes', key \in nodes
      PROVE  Condemned(Head(key))
  <2>1. key \in Paths
    BY <1>1 DEF CompactInv, CompactTypeOK, Paths
  <2>2. PICK n \in toDelete[p] : DeletesVersion(p, n) \/ DeletesEmpty(p, n)
    <3>1. ASSUME NEW q \in Processes, Pass(q)
          PROVE  \E n \in toDelete[p] : DeletesVersion(p, n) \/ DeletesEmpty(p, n)
      <4>1. q \in Shredders
        BY ShreddingAssumption
      <4>2. CASE q = p
        BY <1>1, <3>1, <4>2
        DEF Pass, CompactStep, CompactBegins, CompactEnds, ListFails,
            ListsEverything, VersionsDeleted, ListsRoot, EmptyDeleted
      <4>3. CASE q # p
        BY <1>1, <3>1, <4>1, <4>3, ListingDecides, ShredderDecides
        DEF Deletes, Pass, CompactStep, CompactFrame, CompactInv, CompactTypeOK
      <4> QED
        BY <4>2, <4>3
    <3>2. OthersStep \/ UNCHANGED compactVars => UNCHANGED toDelete
      BY DEF OthersStep, SavesKey, RemovesKey, compactVars
    <3> QED
      BY <1>1, <3>1, <3>2 DEF Deletes, Next, Loop, vars
  <2>3. IsPrefix(n, key)
    BY <1>1, <2>2 DEF DeletesVersion, DeletesEmpty, Tree
  <2>4. n \in Paths
    BY <1>1 DEF CompactInv, CompactTypeOK, Paths
  <2>5. CASE DeletesVersion(p, n)
    <3>1. Len(n) = 1 /\ Condemned(Head(n))
      BY <1>1, <2>5 DEF DeletesVersion, CompactInv, Decided
    <3>2. Head(key) = Head(n)
      BY <2>1, <2>3, <2>4, <3>1, PathPrefixes
    <3> QED
      BY <3>1, <3>2
  <2>6. CASE DeletesEmpty(p, n)
    BY <1>1, <2>3, <2>6 DEF DeletesEmpty, CompactInv, Decided
  <2> QED
    BY <2>2, <2>5, <2>6
<1>2. ASSUME CompactInv, [Next]_vars
      PROVE  [\A p \in Shredders :
                Deletes(p) =>
                  \A key \in seen[p] \ nodes' :
                    key \in nodes =>
                      Head(key) \notin Locks
                      /\ (Head(key) \in DOMAIN VersionOf =>
                            VersionOf[Head(key)] < SchemaVersion)]_compactVars
  BY <1>1, <1>2 DEF Condemned
<1> QED
  BY <1>2, InitCompact, NextCompact, PTL DEF Spec, SparesWhatItSaw

---------------------------------------------------------------------------
(* Type correctness: what is left is the clock and the count of failures.  *)

ClockInv == age \in [Processes -> 0..Oldest] /\ faults \in 0..MaxFaults

(* Ages start at 0, and so do failures.                                    *)
LEMMA InitClock == Init => ClockInv
<1>1. 0 \in 0..Oldest
  BY PollLoopAssumption DEF Oldest
<1>2. 0 \in 0..MaxFaults
  BY MaxFaultsAssumption
<1> QED
  BY <1>1, <1>2 DEF Init, LoopInit, ClockInv

(* A step counts at most one failure, and only below the bound.            *)
LEMMA StepsCountFaults ==
  ASSUME [Next]_vars
  PROVE  Fault \/ NoFault
<1>1. ASSUME NEW p \in Processes, Pass(p) PROVE Fault \/ NoFault
  <2>1. CASE CompactStep(p) /\ UNCHANGED loopVars
    BY <2>1
    DEF CompactStep, ListFails, ListsEverything, VersionsDeleted, ListsRoot,
        EmptyDeleted, DeletesVersion, DeletesEmpty
  <2> QED
    BY <1>1, <2>1
    DEF Pass, StartsAction, BeginsPass, RunsOnce, ActionReturns, EndsProcess,
        Exits, Dies
<1>2. ASSUME NEW p \in Processes, Loop(p) PROVE Fault \/ NoFault
  BY <1>2
  DEF Loop, LoopStep, Starts, AcquiresLock, Signalled, LockRunnerEnds,
      NoticesLoss, SessionExpires, GetsStuck, PassEnds, TimesOut, IntervalEnds
<1>3. TimePasses \/ OthersStep => NoFault
  BY DEF TimePasses, OthersStep, SavesKey, RemovesKey
<1>4. UNCHANGED vars => NoFault
  BY DEF vars, NoFault
<1> QED
  BY <1>1, <1>2, <1>3, <1>4 DEF Next

(* Every step keeps the ages and the count.                                *)
LEMMA NextClock == ClockInv /\ [Next]_vars => ClockInv'
<1> SUFFICES ASSUME ClockInv, [Next]_vars PROVE ClockInv'
  OBVIOUS
<1>1. faults' \in 0..MaxFaults
  BY StepsCountFaults, MaxFaultsAssumption DEF Fault, NoFault, ClockInv
<1>2. Oldest \in Nat
  BY PollLoopAssumption DEF Oldest
<1>3. ASSUME NEW p \in Processes,
             StartsAction(p) \/ EndsProcess(p) \/ ActionReturns(p) \/ LoopStep(p)
      PROVE  age' = age \/ age' = [age EXCEPT ![p] = 0]
  BY <1>3
  DEF StartsAction, BeginsPass, RunsOnce, EndsProcess, Exits, Dies,
      ActionReturns, LoopStep, Starts, AcquiresLock, Signalled, LockRunnerEnds,
      NoticesLoss, SessionExpires, GetsStuck, PassEnds, TimesOut, IntervalEnds
<1>4. CASE TimePasses
  <2>1. \A k \in 0..Oldest : k < Oldest => k + 1 \in 0..Oldest
    BY <1>2
  <2> QED
    BY <1>1, <1>4, <2>1 DEF TimePasses, ClockInv
<1>5. UNCHANGED loopVars => age' = age
  BY DEF loopVars
<1> QED
  BY <1>1, <1>2, <1>3, <1>4, <1>5, StepsOfLoop DEF ClockInv

(* The store holds only keys and the directories they need, a shredder     *)
(* decides only about directories, and every other variable has its type   *)
(* (compact.go:71-92, ifrit.go:70-97).                                     *)
THEOREM TypeCorrect == Spec => []TypeOK
<1>1. LoopInv /\ CompactInv /\ ClockInv => TypeOK
  BY DEF LoopInv, LoopTypes, CompactInv, ClockInv, TypeOK, LoopTypeOK
<1> QED
  BY <1>1, InitLoop, NextLoop, InitCompact, NextCompact, InitClock, NextClock,
     PTL DEF Spec

=============================================================================
