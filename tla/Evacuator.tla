------------------------------ MODULE Evacuator ------------------------------
(***************************************************************************)
(* The evacuator process (evacuator/evacuator.go): for an instance that    *)
(* exits because its DEA evacuates or shuts down, it saves a start message *)
(* that must be sent and sends it at once, with a sender of its own.       *)
(* droplet.exited messages are handled one at a time.                      *)
(***************************************************************************)
EXTENDS SharedStore

CONSTANT MaxExits     \* bound: droplet.exited messages

ASSUME MaxExitsAssumption == MaxExits \in Nat

VARIABLES
  evacuator,      \* control point
  exited,         \* exited.InstanceIndex
  startMessage,   \* the start made for it
  exits           \* how many messages have been handled

evacuatorVars == <<evacuator, exited, startMessage, exits>>

EvacuatorTypeOK ==
  /\ evacuator \in {"idle", "send", "keep"}
  /\ exited \in Indices
  /\ startMessage \in PendingStartMessage
  /\ exits \in 0..MaxExits

EvacuatorInit ==
  /\ evacuator = "idle"
  /\ exited = 0
  /\ startMessage = NoStart
  /\ exits = 0

EvacuatorRests ==
  /\ evacuator' = "idle"
  /\ exited' = 0
  /\ startMessage' = NoStart

(* Faulty variant: the message is saved as one already sent.               *)
HandleExitedMarked(index) ==
  /\ evacuator = "idle"
  /\ exits < MaxExits
  /\ exits' = exits + 1
  /\ exited' = index
  /\ startMessage' = [EvacuationStart(now) EXCEPT !.sentOn = now]
  /\ evacuator' = "send"
  /\ starts' = [starts EXCEPT ![index] = startMessage']
  /\ NoFault
  /\ UNCHANGED <<now, wanted, actual, counts, stops, accepted>>

(* handleExited: whether the save succeeds is not looked at.               *)
HandleExited(index) ==
  /\ evacuator = "idle"
  /\ exits < MaxExits
  /\ exits' = exits + 1
  /\ exited' = index
  /\ startMessage' = EvacuationStart(now)
  /\ evacuator' = "send"
  /\ \/ NoFault /\ starts' = [starts EXCEPT ![index] = startMessage']
     \/ Fault /\ UNCHANGED starts
  /\ UNCHANGED <<now, wanted, actual, counts, stops, accepted>>

(* Send, the Cloud Controller accepting the start.  A fresh sender is      *)
(* within its limit; the message is due at once and skips verification.    *)
EvacuatorSends ==
  /\ evacuator = "send"
  /\ startMessage' = [startMessage EXCEPT !.sentOn = now]
  /\ startsAccepted' = Accept(startsAccepted, exited, startMessage, now)
  /\ evacuator' = "keep"
  /\ UNCHANGED <<exited, exits, now, wanted, actual, messages, stopsAccepted,
                 faults>>

(* The state is not fresh, the call fails or is refused, or its answer is  *)
(* lost: nothing more is written, and nothing reports the error.           *)
EvacuatorSendFails ==
  /\ evacuator = "send"
  /\ Fault
  /\ \/ UNCHANGED startsAccepted
     \/ startsAccepted' = Accept(startsAccepted, exited, startMessage, now)
  /\ EvacuatorRests
  /\ UNCHANGED <<exits, now, wanted, actual, messages, stopsAccepted>>

EvacuatorKeeps ==
  /\ evacuator = "keep"
  /\ \/ NoFault /\ starts' = [starts EXCEPT ![exited] = startMessage]
     \/ Fault /\ UNCHANGED starts
  /\ EvacuatorRests
  /\ UNCHANGED <<exits, now, wanted, actual, counts, stops, accepted>>

EvacuatorStep ==
  \/ \E index \in Indices : HandleExited(index)
  \/ EvacuatorSends \/ EvacuatorSendFails \/ EvacuatorKeeps
=============================================================================
