----------------------------- MODULE Shredding -----------------------------
(***************************************************************************)
(* The shredder: the processes of PollLoop with Compact as their action,   *)
(* over the store that the rest of the health manager writes to.           *)
(***************************************************************************)
EXTENDS PollLoop, Compaction

ASSUME ShreddingAssumption == Shredders = Processes

vars == <<loopVars, compactVars, faults>>

TypeOK == LoopTypeOK /\ CompactTypeOK /\ faults \in 0..MaxFaults

Init == LoopInit /\ CompactInit /\ faults = 0

(* The action goroutine runs Compact and returns when Compact does; it is  *)
(* cut short only by the end of its process.                               *)
Pass(p) ==
  \/ StartsAction(p) /\ CompactBegins(p)
  \/ running[p] # "no" /\ CompactStep(p) /\ UNCHANGED loopVars
  \/ step[p] = "done" /\ ActionReturns(p) /\ CompactEnds(p)
  \/ EndsProcess(p) /\ CompactEnds(p)

Loop(p) == (LoopStep(p) /\ UNCHANGED compactVars)

Next ==
  \/ \E p \in Processes : Pass(p) \/ Loop(p)
  \/ TimePasses /\ UNCHANGED compactVars
  \/ OthersStep /\ UNCHANGED loopVars

(***************************************************************************)
(* A process is started again, its select takes a case that stays ready,   *)
(* an action that is not stuck goes on, time passes and the session of a   *)
(* process that is gone expires.  A process that waits for the lock is not *)
(* promised to be the one that gets it: the one that gives it up may get   *)
(* it again.  The signal that the lock is lost stays in its channel, and   *)
(* every select of Run listens to it: hence strong fairness.  Nothing is   *)
(* assumed of the other processes, of faults, of a stuck action.           *)
(***************************************************************************)
Fairness ==
  /\ \A p \in Processes :
       /\ WF_vars(Starts(p) /\ UNCHANGED compactVars)
       /\ WF_vars((LockRunnerEnds(p) \/ PassEnds(p) \/ TimesOut(p) \/ IntervalEnds(p))
                  /\ UNCHANGED compactVars)
       /\ WF_vars(BeginsPass(p) /\ CompactBegins(p))
       /\ WF_vars(Exits(p) /\ CompactEnds(p))
       /\ WF_vars(running[p] = "yes" /\ CompactStep(p) /\ UNCHANGED loopVars)
       /\ WF_vars(/\ running[p] = "yes" /\ step[p] = "done"
                  /\ ActionReturns(p) /\ CompactEnds(p))
       /\ WF_vars(SessionExpires(p) /\ NoFault /\ UNCHANGED compactVars)
       /\ SF_vars(NoticesLoss(p) /\ UNCHANGED compactVars)
  /\ WF_vars(\E p \in Processes : AcquiresLock(p) /\ UNCHANGED compactVars)
  /\ WF_vars(TimePasses /\ UNCHANGED compactVars)

Spec == Init /\ [][Next]_vars /\ Fairness
=============================================================================
