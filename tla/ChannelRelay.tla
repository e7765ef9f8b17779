---------------------------- MODULE ChannelRelay ----------------------------
(***************************************************************************)
(* A channel shipped to another isolate (src/runtime/channel_relay.rs and  *)
(* the owner side in src/runtime/channel.rs).  The owner keeps the one     *)
(* channel of module Channel; the far isolate holds relay endpoints whose  *)
(* operations cross as frames on a FIFO lane each way and park their task  *)
(* until the answer comes back.  Each side's relay agent applies the       *)
(* frames of its inbound lane one at a time.                               *)
(*                                                                         *)
(* One link and one channel: ChanLink::shipped[chan] equals `refs`, and    *)
(* the channel is in the hosted table exactly while refs > 0.  Either      *)
(* isolate may die; its peer's agent notices after draining the lane.  A   *)
(* lane between threads closes with its reader; one to a process ends in a *)
(* writer thread, which keeps it open until a write to the dead socket     *)
(* fails (worker_spawn.rs).                                                *)
(***************************************************************************)
EXTENDS Channel

CONSTANTS
  Endpoints,   \* the endpoint objects the channel is shipped as, in order
  MaxCorr,     \* bound on the relay operations begun
  NoEnd,
  MayDie,      \* the isolates that may die: a subset of {"owner", "remote"}
  Backings     \* how the isolates may be joined: a subset of {"thread", "process"}

ASSUME RelayAssumption == MaxCorr \in Nat /\ IsFiniteSet(Endpoints) /\ NoEnd \notin Endpoints
                            /\ MayDie \subseteq {"owner", "remote"}
                            /\ Backings \subseteq {"thread", "process"}

VARIABLES
  toOwner,      \* the endpoint side's outbound lane
  next_corr, pending,   \* ChanLink of the endpoint side
  endpoint,     \* "none", "shipping", "live", "reaped" (dropped), "released";
                \* "undelivered": shipped after the owner knew the isolate was dead
  opend, opcorr,        \* the endpoint and correlation of a task's operation
  dead, noticed,        \* which isolate died, and whether its peer's agent knows
  out_lane,     \* ChanLink::out of the endpoint side: "open", "broken" (its writer
                \* holds a frame for a dead socket), "closed"
  lost          \* history: returned values that found no hosted channel

relayVars == <<toOwner, next_corr, pending, endpoint, opend, opcorr, dead, noticed,
              out_lane, lost>>
allVars == <<vars, relayVars>>

RInit ==
  /\ Init
  /\ toOwner = <<>> /\ next_corr = 1 /\ pending = {}
  /\ endpoint = [n \in Endpoints |-> "none"]
  /\ opend = [t \in RemoteTasks |-> NoEnd] /\ opcorr = [t \in RemoteTasks |-> 0]
  /\ dead = "none" /\ noticed = FALSE /\ out_lane = "open"
  /\ lost = {}

OwnerUp == dead # "owner"
RemoteUp == dead # "remote"

\* A frame emitted on a lane whose reader is gone is dropped; a writer thread
\* that still took it fails on it.
Emit(fs) ==
  /\ toOwner' = IF OwnerUp THEN toOwner \o fs ELSE toOwner
  /\ out_lane' = IF ~OwnerUp /\ out_lane = "open" /\ fs # <<>> THEN "broken" ELSE out_lane
Answer(fs) == outbound' = IF RemoteUp THEN outbound \o fs ELSE outbound

-----------------------------------------------------------------------------
(* Shipping and release.                                                    *)

\* ship_channel: count the endpoint and send it over.  The count is raised
\* before the send is tried, and stays raised when the far isolate is gone.
ship_channel(t, n) ==
  /\ Idle(t) /\ endpoint[n] = "none"
  /\ refs' = refs + 1
  /\ endpoint' = [endpoint EXCEPT ![n] = IF dead = "remote" /\ noticed THEN "undelivered"
                                         ELSE "shipping"]
  /\ UNCHANGED <<cap, chanVars, outbound, wakeVars, cancel_requested, park_epoch, coroVars,
                 fate, received, toOwner, next_corr, pending, opend, opcorr, dead,
                 noticed, out_lane, lost>>

relay_endpoint(n) ==
  /\ RemoteUp /\ endpoint[n] = "shipping"
  /\ endpoint' = [endpoint EXCEPT ![n] = "live"]
  /\ UNCHANGED <<vars, toOwner, next_corr, pending, opend, opcorr, dead, noticed, out_lane, lost>>

\* The collector drops an endpoint no task is using.
drop(n) ==
  /\ RemoteUp /\ endpoint[n] = "live"
  /\ \A t \in RemoteTasks : opend[t] # n
  /\ endpoint' = [endpoint EXCEPT ![n] = "reaped"]
  /\ UNCHANGED <<vars, toOwner, next_corr, pending, opend, opcorr, dead, noticed, out_lane, lost>>

\* flush_chan_reap: one Release per endpoint dropped since the last flush.
Reaped == {n \in Endpoints : endpoint[n] = "reaped"}
Releases == [i \in 1..Cardinality(Reaped) |-> Frame("Release", 0, NoVal)]
flush_chan_reap == endpoint' = [n \in Endpoints |->
                                  IF n \in Reaped THEN "released" ELSE endpoint[n]]

-----------------------------------------------------------------------------
(* Operations of a task of the endpoint isolate.                            *)

UsesEndpoint(t, n) == RemoteUp /\ Idle(t) /\ endpoint[n] = "live"

\* Register the pending operation, emit its frame and park for the answer: all
\* that is looked at is whether the lane still takes a frame.
begin_op(t, n, what, v) ==
  /\ out_lane # "closed" /\ next_corr <= MaxCorr
  /\ next_corr' = next_corr + 1
  /\ pending' = pending \cup {[corr |-> next_corr, task |-> t, epoch |-> park_epoch[t]]}
  /\ Emit(Releases \o <<Frame(IF what = "send" THEN "Send" ELSE "Recv", next_corr, v)>>)
  /\ ParkTask(t, what, v)
  /\ opend' = [opend EXCEPT ![t] = n]
  /\ opcorr' = [opcorr EXCEPT ![t] = next_corr]

\* The lane is closed, so the owning isolate is gone: the operation raises.
begin_op_fails ==
  /\ out_lane = "closed"
  /\ Emit(Releases)
  /\ UNCHANGED <<next_corr, pending, opend, opcorr, parked_on_channel, coroVars>>

relay_send(t, n, v) ==
  /\ UsesEndpoint(t, n) /\ fate[v] = "new"
  /\ flush_chan_reap
  /\ \/ /\ v \notin Portable
        /\ fate' = [fate EXCEPT ![v] = "refused"]
        /\ Emit(Releases)
        /\ UNCHANGED <<next_corr, pending, opend, opcorr, parked_on_channel, coroVars>>
     \/ /\ v \in Portable /\ begin_op(t, n, "send", v)
        /\ fate' = [fate EXCEPT ![v] = "parked"]
     \/ /\ v \in Portable /\ begin_op_fails
        /\ fate' = [fate EXCEPT ![v] = "refused"]
  /\ UNCHANGED <<chanVars, cap, refs, outbound, wake, cancel_requested, park_epoch, received,
                 dead, noticed, lost>>

relay_recv(t, n) ==
  /\ UsesEndpoint(t, n)
  /\ flush_chan_reap
  /\ begin_op(t, n, "recv", NoVal) \/ begin_op_fails
  /\ UNCHANGED <<chanVars, cap, refs, outbound, wake, cancel_requested, park_epoch, fate,
                 received, dead, noticed, lost>>

\* Close is idempotent at the owner: the model keeps one such frame in flight.
OneCloseInFlight == ~closed /\ \A f \in ToSet(toOwner) : f.type # "Close"

relay_close(t, n) ==
  /\ UsesEndpoint(t, n) /\ OneCloseInFlight
  /\ flush_chan_reap
  /\ Emit(Releases \o <<Frame("Close", 0, NoVal)>>)
  /\ UNCHANGED <<vars, next_corr, pending, opend, opcorr, dead, noticed, lost>>

\* The tail of relay_send and relay_recv.  A cancelled operation that was not
\* answered is retracted, and a value it was answered goes home; the pending
\* entry stays.
RelayResume(t) ==
  /\ RemoteUp /\ Resumes(t)
  /\ opend' = [opend EXCEPT ![t] = NoEnd]
  /\ opcorr' = [opcorr EXCEPT ![t] = 0]
  /\ cancel_requested' = [cancel_requested EXCEPT ![t] = FALSE]
  /\ wake' = Woken(t)
  /\ \/ /\ cancel_requested[t]
        /\ Emit(CASE wake[t].kind = "SendOk" -> <<>>
                  [] wake[t].kind = "Recv" -> <<Frame("Return", 0, wake[t].val)>>
                  [] OTHER -> <<Frame("Cancel", opcorr[t], NoVal)>>)
        /\ UNCHANGED <<fate, received>>
     \/ /\ ~cancel_requested[t]
        /\ received' = [v \in Values |->
             IF wake[t].kind = "Recv" /\ v = wake[t].val THEN received[v] + 1
             ELSE received[v]]
        /\ SendEnds(t, "refused")
        /\ UNCHANGED <<toOwner, out_lane>>
  /\ UNCHANGED <<chanVars, cap, refs, outbound, parked_on_channel, next_corr, pending,
                 endpoint, dead, noticed, lost>>

-----------------------------------------------------------------------------
(* The endpoint side's relay agent.                                         *)

\* resolve_pending: wake the task the answer is for, unless it is gone.
WakeFor(f) ==
  CASE f.type = "Ack" -> Wake("SendOk", NoVal)
    [] f.type = "Value" -> Wake("Recv", f.val)
    [] f.type = "ClosedFor" -> Wake("Closed", NoVal)
    [] f.type = "RecvError" -> Wake("Err", NoVal)

EndpointAgent ==
  LET f == Head(outbound)
      entries == {p \in pending : p.corr = f.corr}
      takers == {p \in entries : channel_waiter_live(p.task, p.epoch)}
      home == IF f.type = "Value" /\ entries # {} /\ takers = {}
              THEN <<Frame("Return", 0, f.val)>> ELSE <<>>
  IN
  /\ RemoteUp /\ outbound # <<>>
  /\ outbound' = Tail(outbound)
  /\ pending' = pending \ entries
  /\ IF takers # {}
     THEN wake_channel_task((CHOOSE p \in takers : TRUE).task, WakeFor(f))
     ELSE UNCHANGED wakeVars
  /\ flush_chan_reap
  /\ Emit(home \o Releases)
  /\ UNCHANGED <<chanVars, cap, refs, cancel_requested, park_epoch, coroVars, fate, received,
                 next_corr, opend, opcorr, dead, noticed, lost>>

\* Mutant: the agent ends without waking anybody.
EndpointAgentEndsSilently ==
  /\ dead = "owner" /\ outbound = <<>> /\ ~noticed
  /\ noticed' = TRUE
  /\ pending' = {}
  /\ UNCHANGED <<vars, toOwner, next_corr, endpoint, opend, opcorr, dead, out_lane, lost>>

\* The lane closed: wake the pending operations as closed.
EndpointAgentEnds ==
  LET woken == {p.task : p \in {q \in pending : channel_waiter_live(q.task, q.epoch)}} IN
  /\ dead = "owner" /\ outbound = <<>> /\ ~noticed
  /\ noticed' = TRUE
  /\ pending' = {}
  /\ parked_on_channel' = [t \in Tasks |-> parked_on_channel[t] /\ t \notin woken]
  /\ wake' = [t \in Tasks |-> IF t \in woken THEN Wake("Closed", NoVal) ELSE wake[t]]
  /\ UNCHANGED <<chanVars, cap, refs, outbound, cancel_requested, park_epoch, coroVars, fate,
                 received, toOwner, next_corr, endpoint, opend, opcorr, dead, out_lane, lost>>

-----------------------------------------------------------------------------
(* channel_apply_owner_frame: the owner side's relay agent.                 *)

Hosted == refs > 0

\* The operations of a remote sender and receiver on the owner's channel.
ApplySend(f) ==
  \/ /\ ~Hosted \/ closed
     /\ Answer(<<Frame("ClosedFor", f.corr, NoVal)>>)
     /\ UNCHANGED <<chanVars, wakeVars, fate>>
  \/ /\ Hosted /\ ~closed /\ AnyLive(recv_waiters)
     /\ LET e == PopLive(recv_waiters)
            out == IF e.remote THEN <<Frame("Value", e.id, f.val)>> ELSE <<>>
        IN
        /\ Answer(out \o <<Frame("Ack", f.corr, NoVal)>>)
        /\ IF e.remote THEN UNCHANGED wakeVars
           ELSE wake_channel_task(e.task, Wake("Recv", f.val))
     /\ recv_waiters' = AfterPop(recv_waiters)
     /\ fate' = [fate EXCEPT ![f.val] = "accepted"]
     /\ UNCHANGED <<closed, buffer, send_waiters>>
  \/ /\ Hosted /\ ~closed /\ ~AnyLive(recv_waiters) /\ Len(buffer) < cap
     /\ recv_waiters' = <<>>
     /\ buffer' = Append(buffer, f.val)
     /\ Answer(<<Frame("Ack", f.corr, NoVal)>>)
     /\ fate' = [fate EXCEPT ![f.val] = "accepted"]
     /\ UNCHANGED <<closed, send_waiters, wakeVars>>
  \/ /\ Hosted /\ ~closed /\ ~AnyLive(recv_waiters) /\ Len(buffer) >= cap
     /\ recv_waiters' = <<>>
     /\ send_waiters' = Append(send_waiters, RemoteEntry(f.corr, f.val))
     /\ UNCHANGED <<closed, buffer, outbound, wakeVars, fate>>

\* What TakeBuffered or TakeFromSender would do to the channel, with the
\* taken value answered to the remote receiver, or bounced to the front.
ApplyRecv(f) ==
  LET promoted == AnyLive(send_waiters)
      s == PopLive(send_waiters)
      rest == IF buffer = <<>> THEN <<>>
              ELSE IF promoted THEN Append(Tail(buffer), s.val) ELSE Tail(buffer)
      ack == IF promoted /\ s.remote THEN <<Frame("Ack", s.id, NoVal)>> ELSE <<>>
  IN
  \/ /\ ~Hosted
     /\ Answer(<<Frame("ClosedFor", f.corr, NoVal)>>)
     /\ UNCHANGED <<chanVars, wakeVars, fate>>
  \/ /\ Hosted /\ Available
     /\ send_waiters' = AfterPop(send_waiters)
     /\ fate' = IF promoted THEN [fate EXCEPT ![s.val] = "accepted"] ELSE fate
     /\ IF promoted /\ ~s.remote THEN wake_channel_task(s.task, Wake("SendOk", NoVal))
        ELSE UNCHANGED wakeVars
     /\ \/ /\ Oldest \in Portable
           /\ buffer' = rest
           /\ Answer(ack \o <<Frame("Value", f.corr, Oldest)>>)
        \/ /\ Oldest \notin Portable
           /\ buffer' = <<Oldest>> \o rest
           /\ Answer(ack \o <<Frame("RecvError", f.corr, NoVal)>>)
     /\ UNCHANGED <<closed, recv_waiters>>
  \/ /\ Hosted /\ ~Available /\ closed
     /\ send_waiters' = <<>>
     /\ Answer(<<Frame("ClosedFor", f.corr, NoVal)>>)
     /\ UNCHANGED <<closed, buffer, recv_waiters, wakeVars, fate>>
  \/ /\ Hosted /\ ~Available /\ ~closed
     /\ send_waiters' = <<>>
     /\ recv_waiters' = Append(recv_waiters, RemoteEntry(f.corr, NoVal))
     /\ UNCHANGED <<closed, buffer, outbound, wakeVars, fate>>

ApplyClose ==
  \/ Hosted /\ CloseEffect /\ UNCHANGED fate
  \/ ~Hosted /\ UNCHANGED <<chanVars, outbound, wakeVars, fate>>

\* Mutant: a retraction takes every remote waiter with it.
WithoutRemote(q, corr) == Retain(q, {i \in 1..Len(q) : ~q[i].remote})
\* A retraction: the entry goes, if the channel is still hosted; no answer.
Without(q, corr) == Retain(q, {i \in 1..Len(q) : ~(q[i].remote /\ q[i].id = corr)})
\* Mutant: a retraction is confirmed even when the operation was answered.
ApplyCancelConfirmed(f) ==
  /\ Answer(<<Frame("ClosedFor", f.corr, NoVal)>>)
  /\ recv_waiters' = Without(recv_waiters, f.corr)
  /\ send_waiters' = Without(send_waiters, f.corr)
  /\ UNCHANGED <<closed, buffer, wakeVars, fate>>
ApplyCancel(f) ==
  LET gone == {e.val : e \in {x \in ToSet(send_waiters) : x.remote /\ x.id = f.corr}} IN
  /\ IF Hosted
     THEN /\ recv_waiters' = Without(recv_waiters, f.corr)
          /\ send_waiters' = Without(send_waiters, f.corr)
          /\ fate' = [v \in Values |-> IF v \in gone THEN "cancelled" ELSE fate[v]]
     ELSE UNCHANGED <<recv_waiters, send_waiters, fate>>
  /\ UNCHANGED <<closed, buffer, outbound, wakeVars>>

\* Mutant: a value coming home is discarded.
ApplyReturnDropped(f) == UNCHANGED <<chanVars, outbound, wakeVars, fate, lost>>

\* A value coming home.
ApplyReturn(f) ==
  /\ \/ Hosted /\ channel_redeliver(f.val, wake) /\ UNCHANGED lost
     \/ /\ ~Hosted
        /\ lost' = lost \cup {f.val}
        /\ UNCHANGED <<buffer, recv_waiters, outbound, wakeVars>>
  /\ UNCHANGED <<closed, send_waiters, fate>>

OwnerAgent ==
  LET f == Head(toOwner) IN
  /\ OwnerUp /\ toOwner # <<>>
  /\ toOwner' = Tail(toOwner)
  /\ refs' = IF f.type = "Release" /\ refs > 0 THEN refs - 1 ELSE refs
  /\ \/ f.type = "Send" /\ ApplySend(f) /\ UNCHANGED lost
     \/ f.type = "Recv" /\ ApplyRecv(f) /\ UNCHANGED lost
     \/ f.type = "Close" /\ ApplyClose /\ UNCHANGED lost
     \/ f.type = "Cancel" /\ ApplyCancel(f) /\ UNCHANGED lost
     \/ f.type = "Release" /\ UNCHANGED <<chanVars, outbound, wakeVars, fate, lost>>
     \/ f.type = "Return" /\ ApplyReturn(f)
  /\ UNCHANGED <<cap, cancel_requested, park_epoch, coroVars, received, next_corr, pending,
                 endpoint, opend, opcorr, dead, noticed, out_lane>>

\* channel_link_died: purge the dead isolate's receivers and its references.
channel_link_died ==
  /\ dead = "remote" /\ toOwner = <<>> /\ ~noticed
  /\ noticed' = TRUE
  /\ recv_waiters' = IF Hosted
                     THEN Retain(recv_waiters, {i \in 1..Len(recv_waiters) :
                                                  ~recv_waiters[i].remote})
                     ELSE recv_waiters
  /\ refs' = 0
  /\ UNCHANGED <<cap, closed, buffer, send_waiters, outbound, wakeVars, cancel_requested,
                 park_epoch, coroVars, fate, received, toOwner, next_corr, pending,
                 endpoint, opend, opcorr, dead, out_lane, lost>>

-----------------------------------------------------------------------------
(* Death of an isolate: its tasks stop and its lane ends close.             *)

OwnerDies ==
  /\ dead = "none" /\ "owner" \in MayDie
  /\ dead' = "owner"
  /\ toOwner' = <<>>
  /\ \E b \in Backings : out_lane' = IF b = "thread" THEN "closed" ELSE "open"
  /\ UNCHANGED <<vars, next_corr, pending, endpoint, opend, opcorr, noticed, lost>>

RemoteDies ==
  /\ dead = "none" /\ "remote" \in MayDie
  /\ dead' = "remote"
  /\ outbound' = <<>> /\ pending' = {}
  /\ parked_on_channel' = [t \in Tasks |-> t \in LocalTasks /\ parked_on_channel[t]]
  /\ wake' = [t \in Tasks |-> IF t \in LocalTasks THEN wake[t] ELSE NoWake]
  /\ op' = [t \in Tasks |-> IF t \in LocalTasks THEN op[t] ELSE "none"]
  /\ opval' = [t \in Tasks |-> IF t \in LocalTasks THEN opval[t] ELSE NoVal]
  /\ UNCHANGED <<chanVars, cap, refs, cancel_requested, park_epoch, fate, received, toOwner,
                 next_corr, endpoint, opend, opcorr, noticed, out_lane, lost>>

\* The writer thread's write failed: it ends, and the lane closes with it.
WriterEnds ==
  /\ RemoteUp /\ out_lane = "broken"
  /\ out_lane' = "closed"
  /\ UNCHANGED <<vars, toOwner, next_corr, pending, endpoint, opend, opcorr, dead, noticed, lost>>

\* A local task's operation; a frame for a dead isolate stays unread.
OwnerTask ==
  \E t \in LocalTasks :
    \/ \E v \in Values : channel_send(t, v)
    \/ channel_recv(t) \/ channel_close(t)
    \/ ParkCancelled(t) \/ ParkEnds(t)

RNext ==
  \/ OwnerUp /\ OwnerTask /\ UNCHANGED relayVars
  \/ \E t \in LocalTasks, n \in Endpoints : OwnerUp /\ ship_channel(t, n)
  \/ \E t \in LocalTasks : OwnerUp /\ request_cancel(t) /\ UNCHANGED relayVars
  \/ \E t \in RemoteTasks : RemoteUp /\ request_cancel(t) /\ UNCHANGED relayVars
  \/ \E n \in Endpoints : relay_endpoint(n) \/ drop(n)
  \/ \E t \in RemoteTasks, n \in Endpoints :
       \/ \E v \in Values : relay_send(t, n, v)
       \/ relay_recv(t, n) \/ relay_close(t, n)
  \/ \E t \in RemoteTasks : RelayResume(t)
  \/ EndpointAgent \/ EndpointAgentEnds \/ OwnerAgent \/ channel_link_died
  \/ OwnerDies \/ RemoteDies \/ WriterEnds

RSpec == RInit /\ [][RNext]_allVars

\* Each agent keeps draining its lane until it is closed and ends then; a
\* writer thread that holds a frame writes it.
RFairSpec ==
  /\ RSpec
  /\ WF_allVars(EndpointAgent \/ EndpointAgentEnds)
  /\ WF_allVars(OwnerAgent \/ channel_link_died)
  /\ WF_allVars(WriterEnds)

-----------------------------------------------------------------------------
(* Properties.                                                              *)

OFrames == {"Send", "Recv", "Close", "Cancel", "Release", "Return"}

RelayTypeOK ==
  /\ TypeOK
  /\ \A f \in ToSet(toOwner) : f.type \in OFrames /\ f.corr < next_corr
  /\ \A f \in ToSet(outbound) :
       f.type \in {"Ack", "Value", "ClosedFor", "RecvError"} /\ f.corr < next_corr
  /\ pending \subseteq [corr : 1..MaxCorr, task : RemoteTasks, epoch : Nat]

Carried(lane, types, v) ==
  Cardinality({i \in 1..Len(lane) : lane[i].type \in types /\ lane[i].val = v})

(* While both isolates live, an accepted value is in exactly one place: at  *)
(* the owner, on a lane, with a receiver, or answered once - except a       *)
(* returned value that found the channel no longer hosted.                  *)
RelayConserved ==
  dead = "none" => \A v \in Values :
    Copies(v) + Carried(outbound, {"Value"}, v) + Carried(toOwner, {"Return"}, v)
      = IF fate[v] = "accepted" /\ v \notin lost THEN 1 ELSE 0

(* "Never silently dropped": a value delivered to a since-cancelled remote  *)
(* receiver is redelivered, or goes home to a channel that takes it.        *)
NeverSilentlyDropped == lost = {}

(* The correlation of an operation is in one stage at a time: its request   *)
(* on the lane, its entry in one waiter queue, or its answer on the way     *)
(* back, so it is answered at most once.  (A retracted one is not answered  *)
(* at all: see RetractionConfirmed.)                                        *)
Stages(c) ==
  Cardinality({i \in 1..Len(toOwner) :
                 toOwner[i].type \in {"Send", "Recv"} /\ toOwner[i].corr = c})
    + Cardinality({i \in 1..Len(recv_waiters) :
                     recv_waiters[i].remote /\ recv_waiters[i].id = c})
    + Cardinality({i \in 1..Len(send_waiters) :
                     send_waiters[i].remote /\ send_waiters[i].id = c})
    + Cardinality({i \in 1..Len(outbound) : outbound[i].corr = c})
OneAnswer == RemoteUp => \A c \in 1..MaxCorr : Stages(c) <= 1

(* A task parked on an endpoint has its operation registered and somewhere  *)
(* on its way, so the answer cannot have been lost between the agents.      *)
ParkedRemotelyIsAnswered ==
  dead = "none" => \A t \in RemoteTasks : parked_on_channel[t] =>
    /\ Stages(opcorr[t]) = 1
    /\ [corr |-> opcorr[t], task |-> t, epoch |-> park_epoch[t]] \in pending

(* The owner counts every endpoint that can still reach it: the channel is  *)
(* hosted while an endpoint is on the way, live, or has not been released.  *)
RefsCoverEndpoints ==
  dead = "none" =>
    refs = Cardinality({n \in Endpoints : endpoint[n] \in {"shipping", "live", "reaped"}})
             + Cardinality({i \in 1..Len(toOwner) : toOwner[i].type = "Release"})

(* Once the owner's agent knows of the death, the dead isolate leaves no    *)
(* parked receiver behind for a later send to vanish into, and none of the  *)
(* references it held: a reference left is of a channel that was shipped to *)
(* it afterwards, which nothing takes back (channel_link_died ran once).    *)
DeadLinkPurged ==
  dead = "remote" /\ noticed =>
    /\ \A e \in ToSet(recv_waiters) : ~e.remote
    /\ refs > 0 => \E n \in Endpoints : endpoint[n] = "undelivered"

(* "The roots must not leak": a dead isolate holds no reference.  A channel *)
(* shipped after the death stays rooted, and refuses values that could not  *)
(* cross, for ever.                                                         *)
DeadHoldsNothing == dead = "remote" /\ noticed => refs = 0

(* "Each correlation gets exactly one answer", the owner's confirmation of  *)
(* a retraction included: a registered operation is under way or is being   *)
(* retracted.  The owner confirms no retraction, so the entry stays.        *)
RetractionConfirmed ==
  dead = "none" => \A p \in pending :
    Stages(p.corr) = 1 \/ \E f \in ToSet(toOwner) : f.type = "Cancel" /\ f.corr = p.corr

(* The two ends of a link agree: an operation is in one stage and answered  *)
(* at most once, the owner counts every endpoint that can still reach it,   *)
(* and forgets the ones whose isolate died under them.                      *)
LinkAgrees == OneAnswer /\ RefsCoverEndpoints /\ DeadLinkPurged

(* An operation on an endpoint does not hang when the channel is closed or  *)
(* the owner dies under it: a task parked before its agent has seen the     *)
(* lane close is woken.                                                     *)
EndpointWoken ==
  \A t \in RemoteTasks :
    parked_on_channel[t] /\ (IF OwnerUp THEN closed ELSE ~noticed) ~> ~parked_on_channel[t]

(* "Wake them as closed so nothing hangs": nor does an operation begun      *)
(* after the agent has ended.  Through a writer thread it does.             *)
NothingHangs ==
  \A t \in RemoteTasks :
    parked_on_channel[t] /\ (closed \/ dead = "owner") ~> ~parked_on_channel[t]

=============================================================================
