------------------------------ MODULE Channel ------------------------------
(***************************************************************************)
(* A Channel in the isolate that owns it (src/runtime/channel.rs): the     *)
(* buffer, the two FIFO waiter queues, and the park, wake, cancel and      *)
(* redelivery protocol of the tasks that send and receive on it.  A waiter *)
(* is a local task, named by slot and park epoch, or the pending operation *)
(* of an endpoint in another isolate, named by its correlation id; the     *)
(* answer to a remote one is a frame on `outbound`.  This module has the   *)
(* operations of local tasks; ChannelRelay adds the far side.              *)
(*                                                                         *)
(* Each action is one uninterrupted run of the single-threaded VM.  A      *)
(* woken or cancelled task resumes at any later time, whatever the order   *)
(* of the ready queue.  Every send carries a value of its own.             *)
(***************************************************************************)
EXTENDS Integers, FiniteSets, SequencesExt

CONSTANTS
  LocalTasks,   \* task slots of the owning VM
  RemoteTasks,  \* task slots of a VM that holds endpoints
  Values,       \* the values sent, each by one send
  Portable,     \* the values that can cross an isolate boundary
  Caps,         \* the capacities a channel may be made with; 0 is a rendezvous
  NoTask, NoVal,
  MaxEpoch      \* bound on the times one slot is resumed

Tasks == LocalTasks \cup RemoteTasks

ASSUME ChannelAssumption ==
  /\ Caps \subseteq Nat /\ MaxEpoch \in Nat
  /\ Portable \subseteq Values
  /\ NoTask \notin Tasks /\ NoVal \notin Values
  /\ LocalTasks \cap RemoteTasks = {}

VARIABLES
  cap,               \* NativeChannelState: fixed when the channel is made,
  closed, buffer, recv_waiters, send_waiters,  \* ... and what its operations change
  refs,              \* ChanShip::refs, 0 when the channel is not shipped
  outbound,          \* the owner's relay lane to the endpoint isolate
  parked_on_channel, cancel_requested, wake,   \* struct Task, per slot
  park_epoch,        \* per slot: only its equality with an entry's matters
  op, opval,         \* the operation the task's coroutine is suspended in
  fate,              \* history: what became of each value's send
  received           \* history: how often a receive answered each value

chanVars == <<closed, buffer, recv_waiters, send_waiters>>
wakeVars == <<parked_on_channel, wake>>
coroVars == <<op, opval>>
vars == <<cap, chanVars, refs, outbound, wakeVars, cancel_requested, park_epoch, coroVars,
          fate, received>>

LocalEntry(t, e, v) == [remote |-> FALSE, task |-> t, id |-> e, val |-> v]
RemoteEntry(corr, v) == [remote |-> TRUE, task |-> NoTask, id |-> corr, val |-> v]
Entries == [remote : BOOLEAN, task : Tasks \cup {NoTask}, id : Nat,
            val : Values \cup {NoVal}]
Wake(k, v) == [kind |-> k, val |-> v]
NoWake == Wake("none", NoVal)
Frame(type, corr, v) == [type |-> type, corr |-> corr, val |-> v]

Init ==
  /\ cap \in Caps
  /\ closed = FALSE /\ buffer = <<>> /\ recv_waiters = <<>> /\ send_waiters = <<>>
  /\ refs = 0 /\ outbound = <<>>
  /\ parked_on_channel = [t \in Tasks |-> FALSE]
  /\ cancel_requested = [t \in Tasks |-> FALSE]
  /\ wake = [t \in Tasks |-> NoWake]
  /\ park_epoch = [t \in Tasks |-> 0]
  /\ op = [t \in Tasks |-> "none"] /\ opval = [t \in Tasks |-> NoVal]
  /\ fate = [v \in Values |-> "new"]
  /\ received = [v \in Values |-> 0]

-----------------------------------------------------------------------------
(* Waiter queues.                                                           *)

\* Mutant: the entry's park epoch is not compared, so a slot that parked again
\* stands in for the cancelled operation whose entry it left behind.
channel_waiter_live_slot(t, epoch) == parked_on_channel[t] /\ ~cancel_requested[t]

\* The task is still parked at the epoch the entry captured, uncancelled.
channel_waiter_live(t, epoch) ==
  parked_on_channel[t] /\ park_epoch[t] = epoch /\ ~cancel_requested[t]

\* Remote entries are always taken for live.
EntryLive(e) == e.remote \/ channel_waiter_live(e.task, e.id)
LiveIn(q) == {i \in 1..Len(q) : EntryLive(q[i])}
AnyLive(q) == LiveIn(q) # {}

\* pop_live_recv and pop_live_send: the first live entry, dropping the ghosts
\* before it; a queue of ghosts only is emptied.
PopLive(q) == q[Min(LiveIn(q))]
\* Mutant: popping one waiter drops the rest.
AfterPopCleared(q) == <<>>
AfterPop(q) == IF AnyLive(q) THEN SubSeq(q, Min(LiveIn(q)) + 1, Len(q)) ELSE <<>>

\* Vec::retain: the elements of q at the positions S, in their order.
Retain(q, S) ==
  LET n == Cardinality(S)
      at == CHOOSE f \in [1..n -> S] : /\ \A i, j \in 1..n : i < j => f[i] < f[j]
                                      /\ \A x \in S : \E i \in 1..n : f[i] = x
  IN [i \in 1..n |-> q[at[i]]]

wake_channel_task(t, w) ==
  /\ parked_on_channel' = [parked_on_channel EXCEPT ![t] = FALSE]
  /\ wake' = [wake EXCEPT ![t] = w]

\* A promoted sender learns that its value was accepted.
complete_send(e) ==
  /\ fate' = [fate EXCEPT ![e.val] = "accepted"]
  /\ \/ /\ ~e.remote
        /\ wake_channel_task(e.task, Wake("SendOk", NoVal))
        /\ UNCHANGED outbound
     \/ /\ e.remote
        /\ outbound' = Append(outbound, Frame("Ack", e.id, NoVal))
        /\ UNCHANGED wakeVars

\* Hand v to the first live receiver.  A value that cannot cross fails the
\* remote receive and is refiled at the front of the buffer.  `w` is `wake`
\* as the caller leaves it, and `out` the lane.
deliver_to_recv(v, w, out) ==
  LET e == PopLive(recv_waiters) IN
  /\ AnyLive(recv_waiters)
  /\ recv_waiters' = AfterPop(recv_waiters)
  /\ \/ /\ ~e.remote
        /\ parked_on_channel' = [parked_on_channel EXCEPT ![e.task] = FALSE]
        /\ wake' = [w EXCEPT ![e.task] = Wake("Recv", v)]
        /\ outbound' = out
        /\ UNCHANGED buffer
     \/ /\ e.remote /\ v \in Portable
        /\ outbound' = Append(out, Frame("Value", e.id, v))
        /\ wake' = w
        /\ UNCHANGED <<buffer, parked_on_channel>>
     \/ /\ e.remote /\ v \notin Portable
        /\ outbound' = Append(out, Frame("RecvError", e.id, NoVal))
        /\ buffer' = <<v>> \o buffer
        /\ wake' = w
        /\ UNCHANGED parked_on_channel

\* Mutants: the value of a cancelled receiver is dropped, or queued behind the
\* values accepted after it.
channel_redeliver_drop(v, w) ==
  /\ wake' = w
  /\ UNCHANGED <<recv_waiters, buffer, outbound, parked_on_channel>>
channel_redeliver_last(v, w) ==
  \/ deliver_to_recv(v, w, outbound)
  \/ /\ ~AnyLive(recv_waiters)
     /\ recv_waiters' = <<>>
     /\ buffer' = Append(buffer, v)
     /\ wake' = w
     /\ UNCHANGED <<outbound, parked_on_channel>>

\* A committed value whose receiver is gone: to the next live receiver, else
\* to the front of the buffer, above the capacity if need be.
channel_redeliver(v, w) ==
  \/ deliver_to_recv(v, w, outbound)
  \/ /\ ~AnyLive(recv_waiters)
     /\ recv_waiters' = <<>>
     /\ buffer' = <<v>> \o buffer
     /\ wake' = w
     /\ UNCHANGED <<outbound, parked_on_channel>>

-----------------------------------------------------------------------------
(* Operations of a running task of the owning VM.                           *)

Idle(t) == op[t] = "none"

\* Suspend in an operation; the caller has queued the waiter entry.
ParkTask(t, what, v) ==
  /\ parked_on_channel' = [parked_on_channel EXCEPT ![t] = TRUE]
  /\ op' = [op EXCEPT ![t] = what]
  /\ opval' = [opval EXCEPT ![t] = v]

SendRefused(v) ==
  /\ closed \/ (refs > 0 /\ v \notin Portable)
  /\ fate' = [fate EXCEPT ![v] = "refused"]
  /\ UNCHANGED <<chanVars, outbound, wakeVars, coroVars>>

SendHandOff(v) ==
  /\ deliver_to_recv(v, wake, outbound)
  /\ fate' = [fate EXCEPT ![v] = "accepted"]
  /\ UNCHANGED <<closed, send_waiters, coroVars>>

SendBuffered(v) ==
  /\ ~AnyLive(recv_waiters) /\ Len(buffer) < cap
  /\ recv_waiters' = <<>>
  /\ buffer' = Append(buffer, v)
  /\ fate' = [fate EXCEPT ![v] = "accepted"]
  /\ UNCHANGED <<closed, send_waiters, outbound, wakeVars, coroVars>>

SendParked(t, v) ==
  /\ ~AnyLive(recv_waiters) /\ Len(buffer) >= cap
  /\ recv_waiters' = <<>>
  /\ send_waiters' = Append(send_waiters, LocalEntry(t, park_epoch[t], v))
  /\ ParkTask(t, "send", v)
  /\ fate' = [fate EXCEPT ![v] = "parked"]
  /\ UNCHANGED <<closed, buffer, outbound, wake>>

channel_send(t, v) ==
  /\ Idle(t) /\ fate[v] = "new"
  /\ \/ SendRefused(v)
     \/ /\ ~closed /\ (refs > 0 => v \in Portable)
        /\ SendHandOff(v) \/ SendBuffered(v) \/ SendParked(t, v)
  /\ UNCHANGED <<cap, refs, cancel_requested, park_epoch, received>>

\* Mutants: the freed place is not offered to a parked sender, or is filled
\* with the waiter entry instead of its value.
TakeBufferedOnly ==
  /\ buffer # <<>>
  /\ buffer' = Tail(buffer)
  /\ UNCHANGED <<send_waiters, outbound, wakeVars, fate>>
TakeBufferedEntry ==
  /\ buffer # <<>>
  /\ send_waiters' = AfterPop(send_waiters)
  /\ \/ /\ AnyLive(send_waiters)
        /\ buffer' = Append(Tail(buffer), PopLive(send_waiters))
        /\ complete_send(PopLive(send_waiters))
     \/ /\ ~AnyLive(send_waiters)
        /\ buffer' = Tail(buffer)
        /\ UNCHANGED <<outbound, wakeVars, fate>>

\* Take the oldest value: from the buffer, a parked sender's value moving into
\* the freed place, or else straight from a parked sender.
TakeBuffered ==
  /\ buffer # <<>>
  /\ send_waiters' = AfterPop(send_waiters)
  /\ \/ /\ AnyLive(send_waiters)
        /\ buffer' = Append(Tail(buffer), PopLive(send_waiters).val)
        /\ complete_send(PopLive(send_waiters))
     \/ /\ ~AnyLive(send_waiters)
        /\ buffer' = Tail(buffer)
        /\ UNCHANGED <<outbound, wakeVars, fate>>

TakeFromSender ==
  /\ buffer = <<>> /\ AnyLive(send_waiters)
  /\ send_waiters' = AfterPop(send_waiters)
  /\ complete_send(PopLive(send_waiters))
  /\ UNCHANGED buffer

Available == buffer # <<>> \/ AnyLive(send_waiters)
Oldest == IF buffer # <<>> THEN Head(buffer) ELSE PopLive(send_waiters).val

RecvNow ==
  /\ TakeBuffered \/ TakeFromSender
  /\ received' = [received EXCEPT ![Oldest] = @ + 1]
  /\ UNCHANGED <<closed, recv_waiters, coroVars>>

RecvClosed ==
  /\ ~Available /\ closed
  /\ send_waiters' = <<>>
  /\ UNCHANGED <<closed, buffer, recv_waiters, outbound, wakeVars, coroVars, fate, received>>

RecvParked(t) ==
  /\ ~Available /\ ~closed
  /\ send_waiters' = <<>>
  /\ recv_waiters' = Append(recv_waiters, LocalEntry(t, park_epoch[t], NoVal))
  /\ ParkTask(t, "recv", NoVal)
  /\ UNCHANGED <<closed, buffer, outbound, wake, fate, received>>

channel_recv(t) ==
  /\ Idle(t)
  /\ RecvNow \/ RecvClosed \/ RecvParked(t)
  /\ UNCHANGED <<cap, refs, cancel_requested, park_epoch>>

\* Mutants: close wakes the tasks of stale entries too, or forgets the senders.
CloseEffectUnchecked ==
  LET all == recv_waiters \o send_waiters
      woken == {all[i].task : i \in {j \in 1..Len(all) : ~all[j].remote}}
  IN
  /\ closed' = TRUE
  /\ recv_waiters' = <<>> /\ send_waiters' = <<>>
  /\ parked_on_channel' = [t \in Tasks |-> parked_on_channel[t] /\ t \notin woken]
  /\ wake' = [t \in Tasks |-> IF t \in woken THEN Wake("Closed", NoVal) ELSE wake[t]]
  /\ UNCHANGED <<buffer, outbound>>
CloseEffectReceivers ==
  LET woken == {recv_waiters[i].task : i \in LiveIn(recv_waiters)} IN
  /\ closed' = TRUE
  /\ recv_waiters' = <<>>
  /\ parked_on_channel' = [t \in Tasks |-> parked_on_channel[t] /\ t \notin woken]
  /\ wake' = [t \in Tasks |-> IF t \in woken THEN Wake("Closed", NoVal) ELSE wake[t]]
  /\ UNCHANGED <<buffer, send_waiters, outbound>>

\* Wake every live local waiter as closed and answer every remote one.
CloseEffect ==
  LET all == recv_waiters \o send_waiters
      woken == {all[i].task : i \in {j \in LiveIn(all) : ~all[j].remote}}
      far == Retain(all, {i \in 1..Len(all) : all[i].remote})
  IN
  /\ closed' = TRUE
  /\ recv_waiters' = <<>> /\ send_waiters' = <<>>
  /\ parked_on_channel' = [t \in Tasks |-> parked_on_channel[t] /\ t \notin woken]
  /\ wake' = [t \in Tasks |-> IF t \in woken THEN Wake("Closed", NoVal) ELSE wake[t]]
  /\ outbound' = outbound \o [i \in 1..Len(far) |-> Frame("ClosedFor", far[i].id, NoVal)]
  /\ UNCHANGED buffer

channel_close(t) ==
  /\ Idle(t)
  /\ CloseEffect
  /\ UNCHANGED <<cap, refs, cancel_requested, park_epoch, coroVars, fate, received>>

\* The task parks on another channel or claim, and is woken there.
ParkElsewhere(t) ==
  /\ Idle(t)
  /\ ParkTask(t, "other", NoVal)
  /\ UNCHANGED <<chanVars, cap, refs, outbound, cancel_requested, park_epoch, wake, fate, received>>

WakeElsewhere(t) ==
  /\ op[t] = "other" /\ channel_waiter_live(t, park_epoch[t])
  /\ wake_channel_task(t, Wake("Other", NoVal))
  /\ UNCHANGED <<chanVars, cap, refs, outbound, cancel_requested, park_epoch, coroVars, fate,
                 received>>

\* request_cancel of a suspended task: it is nudged out of its park, and its
\* queue entry stays behind as a ghost.
request_cancel(t) ==
  /\ op[t] # "none" /\ ~cancel_requested[t]
  /\ cancel_requested' = [cancel_requested EXCEPT ![t] = TRUE]
  /\ parked_on_channel' = [parked_on_channel EXCEPT ![t] = FALSE]
  /\ UNCHANGED <<chanVars, cap, refs, outbound, park_epoch, wake, coroVars, fate, received>>

-----------------------------------------------------------------------------
(* Resuming: load_task_context stamps a fresh epoch, then the tail of       *)
(* channel_park looks at the cancel flag before the wake.                   *)

\* The driver resumes t, which a wake or a cancel made ready.
Resumes(t) ==
  /\ op[t] # "none" /\ ~parked_on_channel[t] /\ park_epoch[t] < MaxEpoch
  /\ park_epoch' = [park_epoch EXCEPT ![t] = @ + 1]
  /\ op' = [op EXCEPT ![t] = "none"]
  /\ opval' = [opval EXCEPT ![t] = NoVal]

Woken(t) == [wake EXCEPT ![t] = NoWake]

\* What the end of its operation makes of a value that was still waiting.
SendEnds(t, as) ==
  fate' = [v \in Values |-> IF v = opval[t] /\ fate[v] = "parked" THEN as ELSE fate[v]]

\* Cancelled: a value a sender already committed to this receiver goes back.
ParkCancelled(t) ==
  /\ Resumes(t) /\ cancel_requested[t]
  /\ cancel_requested' = [cancel_requested EXCEPT ![t] = FALSE]
  /\ SendEnds(t, "cancelled")
  /\ \/ wake[t].kind = "Recv" /\ channel_redeliver(wake[t].val, Woken(t))
     \/ /\ wake[t].kind # "Recv"
        /\ wake' = Woken(t)
        /\ UNCHANGED <<buffer, recv_waiters, outbound, parked_on_channel>>
  /\ UNCHANGED <<closed, send_waiters, cap, refs, received>>

\* Resumed with a result.
ParkEnds(t) ==
  /\ Resumes(t) /\ ~cancel_requested[t]
  /\ wake' = Woken(t)
  /\ received' = [v \in Values |->
       IF wake[t].kind = "Recv" /\ v = wake[t].val THEN received[v] + 1 ELSE received[v]]
  /\ SendEnds(t, "refused")
  /\ UNCHANGED <<chanVars, cap, refs, outbound, parked_on_channel, cancel_requested>>

LocalNext ==
  \E t \in LocalTasks :
    \/ \E v \in Values : channel_send(t, v)
    \/ channel_recv(t) \/ channel_close(t)
    \/ ParkElsewhere(t) \/ WakeElsewhere(t)
    \/ request_cancel(t) \/ ParkCancelled(t) \/ ParkEnds(t)

Next == LocalNext

Spec == Init /\ [][Next]_vars

-----------------------------------------------------------------------------
(* Properties.                                                              *)

TypeOK ==
  /\ cap \in Caps /\ closed \in BOOLEAN /\ refs \in Nat
  /\ buffer \in Seq(Values)
  /\ recv_waiters \in Seq(Entries) /\ send_waiters \in Seq(Entries)
  /\ parked_on_channel \in [Tasks -> BOOLEAN]
  /\ cancel_requested \in [Tasks -> BOOLEAN]
  /\ park_epoch \in [Tasks -> Nat]
  /\ wake \in [Tasks -> [kind : {"none", "Recv", "SendOk", "Closed", "Err", "Other"},
                         val : Values \cup {NoVal}]]
  /\ op \in [Tasks -> {"none", "send", "recv", "other"}]
  /\ opval \in [Tasks -> Values \cup {NoVal}]
  /\ fate \in [Values -> {"new", "parked", "accepted", "refused", "cancelled"}]
  /\ received \in [Values -> Nat]

InWakes == {wake[t].val : t \in {u \in Tasks : wake[u].kind = "Recv"}}

(* An accepted value is in exactly one place: once in the buffer, in the    *)
(* wake of one receiver, or answered once by a receive - "the alternative   *)
(* is silently dropping a value whose send reported success".  A value that *)
(* was not accepted is nowhere a receiver could find it.                    *)
Copies(v) ==
  Cardinality({i \in 1..Len(buffer) : buffer[i] = v})
    + Cardinality({t \in Tasks : wake[t] = Wake("Recv", v)})
    + received[v]
ValueConserved ==
  \A v \in Values : Copies(v) = IF fate[v] = "accepted" THEN 1 ELSE 0

(* No missed rendezvous: a live receiver is parked only while there is      *)
(* nothing to receive, and a live sender only while the buffer is full.     *)
NoMissedRendezvous ==
  /\ AnyLive(recv_waiters) => ~Available
  /\ AnyLive(send_waiters) => Len(buffer) >= cap

(* A wake answers the operation its task is suspended in: a queue entry     *)
(* that outlived its park never routes a value or an acknowledgement to a   *)
(* later park of the same slot ("channel send resumed as a receive").       *)
WakeFitsOp ==
  \A t \in Tasks :
    /\ wake[t].kind = "Recv" => op[t] = "recv"
    /\ wake[t].kind = "SendOk" => op[t] = "send"
    /\ wake[t].kind = "Closed" => op[t] \in {"send", "recv"}
    /\ op[t] # "none" /\ ~parked_on_channel[t] =>
         cancel_requested[t] \/ wake[t].kind # "none"

(* close wakes everyone: no task stays parked on a closed channel.          *)
ClosedWakesAll ==
  closed => \A t \in LocalTasks : op[t] \in {"send", "recv"} => ~parked_on_channel[t]

(* A live parked task waits in the queue of its own operation exactly once  *)
(* and in no other: no pop, close or redelivery leaves one behind, and no   *)
(* ghost entry of an earlier park counts as a waiter.                       *)
ParkedIsQueued ==
  \A t \in LocalTasks :
    LET here(q) == {i \in LiveIn(q) : ~q[i].remote /\ q[i].task = t}
        live == channel_waiter_live(t, park_epoch[t])
    IN
    /\ Cardinality(here(recv_waiters)) = (IF live /\ op[t] = "recv" THEN 1 ELSE 0)
    /\ Cardinality(here(send_waiters)) = (IF live /\ op[t] = "send" THEN 1 ELSE 0)

(* Nobody sleeps through what would serve it: no live waiter while its      *)
(* counterpart is there or the channel is closed, each live waiter queued   *)
(* once, and every wake answers the operation it was parked for.            *)
WaitersServed == NoMissedRendezvous /\ ClosedWakesAll /\ ParkedIsQueued /\ WakeFitsOp

(* What became of a send's value is final: the value of a cancelled or      *)
(* refused send is never accepted later from the ghost entry it left in     *)
(* the queue, whatever its slot does next, and an accepted value stays with *)
(* the channel although a cancel that arrives before the sender resumes     *)
(* makes the send itself raise (channel_park looks at the cancel first).    *)
SendOutcomeFinal ==
  [][\A v \in Values : fate[v] \in {"accepted", "refused", "cancelled"} =>
       fate'[v] = fate[v]]_vars

Abstract == INSTANCE AbstractChannel WITH
  queue <- buffer,
  inhand <- InWakes,
  consumed <- {v \in Values : received[v] > 0}

(* The channel implements the lossless, at-most-once FIFO queue.            *)
ImplementsAbstractChannel == Abstract!Spec

\* Tasks and values are interchangeable: for TLC.
Symmetry == Permutations(LocalTasks) \cup Permutations(Values)

=============================================================================
