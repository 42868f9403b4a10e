------------------------------ MODULE PollLoop ------------------------------
(***************************************************************************)
(* The processes of one polling component, the analyzer or the shredder:   *)
(* several run, on several hosts, and the one that holds the lock in       *)
(* consul calls the component's action every polling interval              *)
(* (hm/ifrit.go, and the main functions Analyze and Shred that use it).    *)
(*                                                                         *)
(* A process is an ordered ifrit group: first the lock runner, then the    *)
(* Component.  What ends a member ends the group, in the reverse order;    *)
(* then main calls os.Exit.  The Component runs its action in a goroutine, *)
(* which nothing waits for once Run has returned: it ends with the         *)
(* process.  The lock is a key held by a consul session, which expires     *)
(* when the process does not renew it.                                     *)
(*                                                                         *)
(* What the action does is left open here: Shredding fills it in.          *)
(***************************************************************************)
EXTENDS Failures, FiniteSets

CONSTANTS
  Processes,       \* the processes of the component
  Nobody,          \* the lock's holder when it has none
  PollingInterval, \* from the start of a pass to the start of the next
  Timeout          \* a pass that takes longer ends the process

ASSUME PollLoopAssumption ==
  /\ Nobody \notin Processes
  /\ PollingInterval \in Nat
  /\ Timeout \in Nat \ {0}

VARIABLES
  holder,   \* consul: whose session holds the lock
  main,     \* control point of each process
  running,  \* whether its action goroutine runs, and whether it is stuck
  age,      \* time since its pass began, up to Oldest
  expired   \* history: processes whose session expired while they were up

loopVars == <<holder, main, running, age, expired>>

(***************************************************************************)
(* locking   the lock runner waits for the lock                            *)
(* begin     at the top of the loop of Run                                 *)
(* pass      in the first select: result, timeout or signal                *)
(* rest      in the second select: signal or the polling interval          *)
(* stopping  Run has returned, the lock runner is told to stop             *)
(* released  the group has ended, os.Exit is next                          *)
(* once      run without -poll: the action alone, without lock or loop     *)
(***************************************************************************)
MainPoint ==
  {"down", "locking", "begin", "pass", "rest", "stopping", "released", "once"}
Leading == {"begin", "pass", "rest"}

Oldest == IF PollingInterval > Timeout THEN PollingInterval ELSE Timeout

LoopTypeOK ==
  /\ holder \in Processes \cup {Nobody}
  /\ main \in [Processes -> MainPoint]
  /\ running \in [Processes -> {"no", "yes", "stuck"}]
  /\ age \in [Processes -> 0..Oldest]
  /\ expired \in SUBSET Processes

LoopInit ==
  /\ holder = Nobody
  /\ main = [p \in Processes |-> "down"]
  /\ running = [p \in Processes |-> "no"]
  /\ age = [p \in Processes |-> 0]
  /\ expired = {}

Go(p, from, to) == main[p] \in from /\ main' = [main EXCEPT ![p] = to]

---------------------------------------------------------------------------
(* The life of a process.                                                  *)

(* monit starts the process, or starts it again.                           *)
Starts(p) ==
  /\ Go(p, {"down"}, "locking")
  /\ NoFault
  /\ UNCHANGED <<holder, running, age, expired>>

(* Faulty variant: the lock is taken from a session that still lives.      *)
AcquiresLockOfAnother(p) ==
  /\ Go(p, {"locking"}, "begin")
  /\ holder' = p
  /\ NoFault
  /\ UNCHANGED <<running, age, expired>>

AcquiresLock(p) ==
  /\ holder = Nobody
  /\ Go(p, {"locking"}, "begin")
  /\ holder' = p
  /\ NoFault
  /\ UNCHANGED <<running, age, expired>>

(* An operator's signal.  Either select of Run takes it at once; while the *)
(* lock is waited for, the lock runner does.  It is counted as a fault.    *)
Signalled(p) ==
  /\ \/ Go(p, {"pass", "rest"}, "stopping")
     \/ Go(p, {"locking"}, "released")
  /\ Fault
  /\ UNCHANGED <<holder, running, age, expired>>

(* The Component's end stops the lock runner, which gives the lock back.   *)
LockRunnerEnds(p) ==
  /\ Go(p, {"stopping"}, "released")
  /\ holder' = IF holder = p THEN Nobody ELSE holder
  /\ NoFault
  /\ UNCHANGED <<running, age, expired>>

(* Faulty variant: the selects do not listen to the signals.               *)
LossUnnoticed(p) == FALSE /\ UNCHANGED <<loopVars, faults>>

(* The lock runner finds its lock lost and returns; the group signals the  *)
(* Component, whose next select takes the signal.                          *)
NoticesLoss(p) ==
  /\ holder # p
  /\ Go(p, {"pass", "rest"}, "released")
  /\ NoFault
  /\ UNCHANGED <<holder, running, age, expired>>

(* os.Exit, with whatever its goroutines are doing.                        *)
Exits(p) ==
  /\ \/ Go(p, {"released"}, "down")
     \/ Go(p, {"once"}, "down") /\ running[p] = "no"
  /\ running' = [running EXCEPT ![p] = "no"]
  /\ age' = [age EXCEPT ![p] = 0]
  /\ expired' = expired \ {p}
  /\ NoFault
  /\ UNCHANGED holder

(* The process or its host dies: its session lives on.                     *)
Dies(p) ==
  /\ main[p] # "down"
  /\ main' = [main EXCEPT ![p] = "down"]
  /\ running' = [running EXCEPT ![p] = "no"]
  /\ age' = [age EXCEPT ![p] = 0]
  /\ expired' = expired \ {p}
  /\ Fault
  /\ UNCHANGED holder

(* A session that is not renewed expires: that of a process which is gone, *)
(* or, as a fault, that of one cut off from consul.                        *)
SessionExpires(p) ==
  /\ holder = p
  /\ holder' = Nobody
  /\ \/ /\ main[p] \in {"down", "locking", "once"}
        /\ NoFault
        /\ UNCHANGED expired
     \/ /\ main[p] \in Leading \cup {"stopping"}
        /\ Fault
        /\ expired' = expired \cup {p}
  /\ UNCHANGED <<main, running, age>>

---------------------------------------------------------------------------
(* Component.Run.                                                          *)

(* The timers are set and the action is called in a goroutine.             *)
BeginsPass(p) ==
  /\ Go(p, {"begin"}, "pass")
  /\ running' = [running EXCEPT ![p] = "yes"]
  /\ age' = [age EXCEPT ![p] = 0]
  /\ NoFault
  /\ UNCHANGED <<holder, expired>>

(* Without -poll: an operator runs the action by hand.                     *)
RunsOnce(p) ==
  /\ Go(p, {"down"}, "once")
  /\ running' = [running EXCEPT ![p] = "yes"]
  /\ Fault
  /\ UNCHANGED <<holder, age, expired>>

(* The action hangs: it may return late, or never.                         *)
GetsStuck(p) ==
  /\ running[p] = "yes"
  /\ running' = [running EXCEPT ![p] = "stuck"]
  /\ Fault
  /\ UNCHANGED <<holder, main, age, expired>>

(* The action returns.  The channel it reports on has room for one result, *)
(* so that the goroutine ends whether or not Run still listens.            *)
ActionReturns(p) ==
  /\ running[p] # "no"
  /\ running' = [running EXCEPT ![p] = "no"]
  /\ NoFault
  /\ UNCHANGED <<holder, main, age, expired>>

(* case <-errorChan: the error itself is not looked at.                    *)
PassEnds(p) ==
  /\ running[p] = "no"
  /\ Go(p, {"pass"}, "rest")
  /\ NoFault
  /\ UNCHANGED <<holder, running, age, expired>>

(* Faulty variant: the pass is given up and the next one begins.           *)
TimesOutAndGoesOn(p) ==
  /\ age[p] >= Timeout
  /\ Go(p, {"pass"}, "rest")
  /\ NoFault
  /\ UNCHANGED <<holder, running, age, expired>>

(* Faulty variant: the ticker never ticks.                                 *)
TimesOutNever(p) == FALSE /\ UNCHANGED <<loopVars, faults>>

(* case <-timeoutTicker.C: Run returns, the action still running.          *)
TimesOut(p) ==
  /\ age[p] >= Timeout
  /\ Go(p, {"pass"}, "stopping")
  /\ NoFault
  /\ UNCHANGED <<holder, running, age, expired>>

(* case <-afterChan: round the loop.                                       *)
IntervalEnds(p) ==
  /\ age[p] >= PollingInterval
  /\ Go(p, {"rest"}, "begin")
  /\ NoFault
  /\ UNCHANGED <<holder, running, age, expired>>

(* An action that is not stuck takes less than the timeout.                *)
TimePasses ==
  /\ \A p \in Processes : running[p] = "yes" => age[p] + 1 < Timeout
  /\ \E p \in Processes : main[p] \in {"pass", "rest"} /\ age[p] < Oldest
  /\ age' = [p \in Processes |-> IF main[p] \in {"pass", "rest"} /\ age[p] < Oldest
                                 THEN age[p] + 1 ELSE age[p]]
  /\ NoFault
  /\ UNCHANGED <<holder, main, running, expired>>

---------------------------------------------------------------------------
(* The steps by what they do to the action goroutine.                      *)

StartsAction(p) == BeginsPass(p) \/ RunsOnce(p)
EndsProcess(p) == Exits(p) \/ Dies(p)
LoopStep(p) ==
  \/ Starts(p) \/ AcquiresLock(p) \/ Signalled(p) \/ LockRunnerEnds(p)
  \/ NoticesLoss(p) \/ SessionExpires(p) \/ GetsStuck(p) \/ PassEnds(p)
  \/ TimesOut(p) \/ IntervalEnds(p)

---------------------------------------------------------------------------
(* Properties.                                                             *)

(* A process makes one pass at a time: it begins one only when the action  *)
(* of the last has returned.  That is why a pass that takes too long ends  *)
(* the process instead of the pass (ifrit.go:81-88).                       *)
NoPassOverrun ==
  \A p \in Processes : main[p] = "begin" => running[p] = "no"

(* Two passes run at once only if one of them is that of a process on its  *)
(* way out, run by hand, or cut off from consul: short of that, the        *)
(* instance that grabs the lock is the one that runs (README.md:17).       *)
OverlapOnlyOnExit ==
  \A p, q \in Processes :
    p # q /\ running[p] # "no" /\ running[q] # "no" =>
      \E r \in {p, q} : main[r] \in {"released", "once"} \/ r \in expired

(* Once the faults are over the overlap ends too: a process that lost the  *)
(* lock does not go on without it.                                         *)
OverlapEnds ==
  <>[](Cardinality({p \in Processes : running[p] # "no"}) <= 1)

(* Passes go on, whichever process dies, hangs or loses the lock: "should  *)
(* that instance enter a bad state or die, the lock becomes available      *)
(* allowing another instance to pick up the slack" (README.md:17).         *)
PassesGoOn == []<>(\E p \in Processes : main[p] = "begin")
=============================================================================
