----------------------------- MODULE SharedStore -----------------------------
(***************************************************************************)
(* What the health manager's processes share: the clock, the Cloud         *)
(* Controller they ask and command over HTTP, and the store.  The analyzer *)
(* (AnalyzerProcess), the evacuator (Evacuator) and the listener           *)
(* (ListenerSender) each act on these variables with a read or a write at  *)
(* a time; nothing in the store spans two calls.                           *)
(***************************************************************************)
EXTENDS AppAnalyzer, Failures, Sequences

CONSTANT SenderMessageLimit     \* conf.SenderMessageLimit

ASSUME SenderAssumption == SenderMessageLimit \in Nat \ {0}

VARIABLES
  now,            \* the clock
  wanted,         \* Cloud Controller: the desired state of the app
  actual,         \* store, /apps/actual: the heartbeats of the app
  crashCounts,    \* store, /apps/crashes: 0 where there is no count
  crashExpiry,    \* when the TTL of each count ends
  starts,         \* store, /start
  stops,          \* store, /stop
  startsAccepted, \* history: the starts the Cloud Controller accepted
  stopsAccepted   \* history: likewise for the stops

counts == <<crashCounts, crashExpiry>>
messages == <<counts, starts, stops>>
accepted == <<startsAccepted, stopsAccepted>>
shared == <<now, wanted, actual, messages, accepted, faults>>

(* A message the Cloud Controller accepts is remembered with the clock of  *)
(* the sender that posted it.                                              *)
Acceptance ==
  [at : Nat, keepAlive : Int, reason : StartReason \cup StopReason \cup {""}]
Accept(sent, key, message, time) ==
  [sent EXCEPT ![key] =
     Append(@, [at |-> time, keepAlive |-> message.keepAlive,
                reason |-> message.reason])]

(* The start made for an instance that leaves its DEA: due at once, and    *)
(* not verified when it is sent.                                           *)
EvacuationStart(time) ==
  [reason |-> "EVACUATING", sendOn |-> time, sentOn |-> 0,
   keepAlive |-> GracePeriod, skipVerification |-> TRUE]

NoStarts == [index \in Indices |-> NoStart]
NoStops == [guid \in Guids |-> NoStop]

(* An app the fetcher passes on is started, and staged or about to be.     *)
Wanted == {NotDesired} \cup {d \in DesiredAppState : d.desired}

SharedTypeOK ==
  /\ now \in Nat
  /\ wanted \in DesiredAppState
  /\ actual \in Heartbeats
  /\ crashCounts \in [Indices -> Nat]
  /\ crashExpiry \in [Indices -> Nat]
  /\ starts \in [Indices -> PendingStartMessage]
  /\ stops \in [Guids -> PendingStopMessage]
  /\ startsAccepted \in [Indices -> Seq(Acceptance)]
  /\ stopsAccepted \in [Guids -> Seq(Acceptance)]
  /\ faults \in 0..MaxFaults

SharedInit ==
  /\ now = 1
  /\ wanted \in Wanted
  /\ actual \in Heartbeats
  /\ crashCounts = [index \in Indices |-> 0]
  /\ crashExpiry = [index \in Indices |-> 0]
  /\ starts = NoStarts
  /\ stops = NoStops
  /\ startsAccepted = [index \in Indices |-> <<>>]
  /\ stopsAccepted = [guid \in Guids |-> <<>>]
  /\ faults = 0
=============================================================================
