-------------------------- MODULE AbstractChannel --------------------------
(***************************************************************************)
(* What a Channel promises its users, without waiters, parks or wakes: a   *)
(* first-in first-out queue of accepted values.  A value leaves the queue  *)
(* to be consumed once; one that was handed to a receiver which then went  *)
(* away comes back to the front of the queue, so it is neither lost nor    *)
(* overtaken by a value that was never handed out.  Two values handed to   *)
(* two receivers that both go away may come back in either order.          *)
(***************************************************************************)
EXTENDS Naturals, Sequences

CONSTANT Values   \* each value is sent once

VARIABLES
  queue,      \* accepted values no receiver was given, oldest first
  inhand,     \* values given to a receiver that has not resumed yet
  consumed    \* values a receive answered

vars == <<queue, inhand, consumed>>

Init == queue = <<>> /\ inhand = {} /\ consumed = {}

Accepted == {queue[i] : i \in 1..Len(queue)} \cup inhand \cup consumed
Fresh == Values \ Accepted

\* A send that found no receiver.
Enqueue(v) == queue' = Append(queue, v) /\ UNCHANGED <<inhand, consumed>>

\* A send that met a waiting receiver: nothing may be queued before it.
HandOff(v) ==
  /\ queue = <<>>
  /\ inhand' = inhand \cup {v}
  /\ UNCHANGED <<queue, consumed>>

\* A receive that met a waiting sender.
Meet(v) ==
  /\ queue = <<>>
  /\ consumed' = consumed \cup {v}
  /\ UNCHANGED <<queue, inhand>>

\* A receive from the queue; a waiting sender may take the freed place.
Take ==
  /\ queue # <<>>
  /\ consumed' = consumed \cup {Head(queue)}
  /\ \/ queue' = Tail(queue)
     \/ \E v \in Fresh : queue' = Append(Tail(queue), v)
  /\ UNCHANGED inhand

\* The receiver resumes with its value ...
Consume(v) ==
  /\ inhand' = inhand \ {v}
  /\ consumed' = consumed \cup {v}
  /\ UNCHANGED queue

\* ... or was cancelled, and the value goes back.
GiveBack(v) ==
  /\ inhand' = inhand \ {v}
  /\ queue' = <<v>> \o queue
  /\ UNCHANGED consumed

Next ==
  \/ \E v \in Fresh : Enqueue(v) \/ HandOff(v) \/ Meet(v)
  \/ Take
  \/ \E v \in inhand : Consume(v) \/ GiveBack(v)

Spec == Init /\ [][Next]_vars
=============================================================================
