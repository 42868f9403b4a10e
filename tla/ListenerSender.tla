---------------------------- MODULE ListenerSender ----------------------------
(***************************************************************************)
(* The listener as a writer of start messages.  When a heartbeat says that *)
(* an instance has begun to evacuate, syncHeartbeats                       *)
(* (actualstatelisteners/actual_state_syncer.go) sends a start for its     *)
(* index with a sender that is made once for the process                   *)
(* (hm/start_listening_for_actual.go).  Send never empties that sender:    *)
(* every Send saves all the messages it has ever marked as sent, and the   *)
(* starts it sends count together towards the limit of one Send.           *)
(*                                                                         *)
(* How heartbeats are received and saved is Listener's subject.  Instances *)
(* that begin to evacuate in one batch are taken one at a time here.       *)
(***************************************************************************)
EXTENDS SharedStore

VARIABLES
  listener,         \* control point of syncHeartbeats
  evacuating,       \* the index to start, while a Send is under way
  sentByListener,   \* the sender's numberOfStartMessagesSent
  markedByListener  \* the sender's startMessagesToSave, by index

listenerVars == <<listener, evacuating, sentByListener, markedByListener>>

ListenerTypeOK ==
  /\ listener \in {"idle", "send", "keep"}
  /\ evacuating \in Indices
  /\ sentByListener \in Nat
  /\ markedByListener \in [Indices -> SUBSET PendingStartMessage]

NoMarks == [index \in Indices |-> {}]

ListenerInit ==
  /\ listener = "idle"
  /\ evacuating = 0
  /\ sentByListener = 0
  /\ markedByListener = NoMarks

(* SyncHeartbeats has found the instance in a new state.                   *)
ListenerHears(guid, state) ==
  /\ listener = "idle"
  /\ IF state = "EVACUATING" /\ actual[guid] # "CRASHED"
     THEN listener' = "send" /\ evacuating' = IndexOf[guid]
     ELSE UNCHANGED <<listener, evacuating>>
  /\ UNCHANGED <<sentByListener, markedByListener>>

UnderListenersLimit == sentByListener < SenderMessageLimit

(* Send, the Cloud Controller accepting the start.  The start was not      *)
(* saved before, and is marked as one sent now.                            *)
ListenerSends ==
  /\ listener = "send"
  /\ UnderListenersLimit
  /\ startsAccepted' =
       Accept(startsAccepted, evacuating, EvacuationStart(now), now)
  /\ sentByListener' = sentByListener + 1
  /\ markedByListener' =
       [markedByListener EXCEPT ![evacuating] =
          @ \cup {[EvacuationStart(now) EXCEPT !.sentOn = now]}]
  /\ listener' = "keep"
  /\ UNCHANGED <<evacuating, now, wanted, actual, messages, stopsAccepted,
                 faults>>

(* The call failed or was refused, or its answer is lost: Send goes on to  *)
(* its saves.                                                              *)
ListenerSendFails ==
  /\ listener = "send"
  /\ UnderListenersLimit
  /\ Fault
  /\ \/ UNCHANGED startsAccepted
     \/ startsAccepted' =
          Accept(startsAccepted, evacuating, EvacuationStart(now), now)
  /\ listener' = "keep"
  /\ UNCHANGED <<evacuating, sentByListener, markedByListener, now, wanted,
                 actual, messages, stopsAccepted>>

(* Over the limit of all its Sends the start is left out, for good.        *)
ListenerHolds ==
  /\ listener = "send"
  /\ ~UnderListenersLimit
  /\ listener' = "keep"
  /\ UNCHANGED <<evacuating, sentByListener, markedByListener, shared>>

(* Every message this sender has marked is saved again, those of one index *)
(* under one key and in any order: each may be the one that stays.         *)
MarkedIndices == {index \in Indices : markedByListener[index] # {}}
LastWritten ==
  {last \in [MarkedIndices -> UNION {markedByListener[i] : i \in Indices}] :
     \A index \in MarkedIndices : last[index] \in markedByListener[index]}

ListenerKeeps ==
  /\ listener = "keep"
  /\ \E kept \in SUBSET Indices, last \in LastWritten :
       /\ Handled(MarkedIndices, kept)
       /\ starts' = [index \in Indices |-> IF index \in kept THEN last[index]
                                          ELSE starts[index]]
  /\ listener' = "idle"
  /\ evacuating' = 0
  /\ UNCHANGED <<sentByListener, markedByListener, now, wanted, actual, counts,
                 stops, accepted>>

(* The state is not fresh: Send gives up.                                  *)
ListenerGivesUp ==
  /\ listener = "send"
  /\ Fault
  /\ listener' = "idle"
  /\ evacuating' = 0
  /\ UNCHANGED <<sentByListener, markedByListener, now, wanted, actual,
                 messages, accepted>>

(* The process dies or loses its lock; the next one has a new sender.      *)
ListenerDies ==
  /\ Fault
  /\ listener' = "idle"
  /\ evacuating' = 0
  /\ sentByListener' = 0
  /\ markedByListener' = NoMarks
  /\ UNCHANGED <<now, wanted, actual, messages, accepted>>

ListenerStep ==
  \/ ListenerSends \/ ListenerSendFails \/ ListenerHolds \/ ListenerKeeps
  \/ ListenerGivesUp \/ ListenerDies
=============================================================================
