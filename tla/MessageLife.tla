----------------------------- MODULE MessageLife -----------------------------
(***************************************************************************)
(* What is promised of pending messages, whoever writes the store and      *)
(* whatever fails: a message waits until it is due; the Cloud Controller   *)
(* is asked only while it waits and is due; it counts as sent only from a  *)
(* time at which the Cloud Controller accepted it; and it leaves the store *)
(* neither before it is due nor while the keep-alive of what was sent      *)
(* runs.  No message takes the place of another.  The stops of             *)
(* HealthManager have this life; so have its starts until an instance      *)
(* evacuates.                                                              *)
(***************************************************************************)
EXTENDS Integers, Sequences

CONSTANT Keys

VARIABLES
  life,           \* the message of each key
  posted,         \* when the Cloud Controller accepted one, by key
  clock

vars == <<life, posted, clock>>

(* `time' is when a waiting message is due, and when a sent one was sent.  *)
Absent == [state |-> "absent", time |-> 0, keepAlive |-> 0]

Init ==
  /\ life = [key \in Keys |-> Absent]
  /\ posted = [key \in Keys |-> <<>>]
  /\ clock = 1

Tick ==
  /\ clock' = clock + 1
  /\ UNCHANGED <<life, posted>>

Rests(key) ==
  life'[key] = life[key] /\ posted'[key] = posted[key]

Enqueue(key) ==
  /\ life[key].state = "absent"
  /\ life'[key].state = "waiting"
  /\ posted'[key] = posted[key]

(* The answer may be lost: an accepted message may be posted again.        *)
Post(key) ==
  /\ life[key].state = "waiting"
  /\ \E time \in life[key].time..clock :
       posted'[key] = Append(posted[key], time)
  /\ life'[key] = life[key]

Mark(key) ==
  /\ life[key].state = "waiting"
  /\ \E k \in DOMAIN posted[key] :
       /\ posted[key][k] >= life[key].time
       /\ life'[key] = [state |-> "sent", time |-> posted[key][k],
                        keepAlive |-> life[key].keepAlive]
  /\ posted'[key] = posted[key]

Leave(key) ==
  /\ \/ life[key].state = "waiting" /\ life[key].time <= clock
     \/ life[key].state = "sent"
        /\ life[key].time + life[key].keepAlive <= clock
  /\ life'[key] = Absent
  /\ posted'[key] = posted[key]

(* A call writes several keys at a time.                                   *)
Write ==
  /\ \A key \in Keys :
       Rests(key) \/ Enqueue(key) \/ Post(key) \/ Mark(key) \/ Leave(key)
  /\ UNCHANGED clock

Next == Tick \/ Write

Spec == Init /\ [][Next]_vars
=============================================================================
