--------------------------- MODULE TaskScheduler ---------------------------
(***************************************************************************)
(* The cooperative task scheduler of the Quoin VM: the task table and its  *)
(* operations (src/vm/scheduler.rs) and the driver loop that picks, loads  *)
(* and resumes tasks and delivers I/O completions and deadlines            *)
(* (src/runner_driver.rs).  Everything runs on one thread: a running task  *)
(* executes until it suspends, and deliveries happen only while the driver *)
(* is idle or at a cooperative-yield boundary.                             *)
(*                                                                         *)
(* A task is a slot of the table; a finished task's slot is reused by the  *)
(* next spawn.  The fields of `struct Task` are functions on slots, and    *)
(* pc/unwinding/timeout_child hold what the suspended coroutine remembers. *)
(* The guest program is nondeterministic: at every instruction the current *)
(* task performs any operation of Task and Async, at most MaxOps in all.   *)
(***************************************************************************)
EXTENDS Integers, FiniteSets, SequencesExt

CONSTANTS
  MaxSlots,     \* bound on the length of the task table
  MaxHandles,   \* bound on the detached tasks ever spawned
  MaxOps,       \* bound on the operations the whole program performs
  MaxGather,    \* bound on the blocks of one Async.gather:
  SchedStress   \* QN_SCHED_STRESS: pick at random and always preempt

ASSUME BoundsAssumption ==
  /\ MaxSlots \in Nat \ {0}
  /\ MaxHandles \in Nat
  /\ MaxOps \in Nat
  /\ MaxGather \in Nat
  /\ SchedStress \in BOOLEAN

Slots == 0..(MaxSlots - 1)
Handles == 1..MaxHandles
Main == 0
NoTask == -1
NoHandle == 0

VARIABLES
  \* struct Task, per slot
  kind,              \* "free": the slot is None; else which completion path
  parent,            \* gather child: the gathering task
  pending,           \* GatherState::pending, 0 when not gathering
  first_error,       \* GatherState::first_error is set
  handle,            \* detached: its handle object
  waiters,           \* tasks parked in join on this one, in join order
  cancel_requested, joining, park_epoch, parked_on_channel, wake,
  io,                \* in-flight future of the slot: "inflight" while the
                     \* abort handle is held, "aborted" once it was taken
  \* the suspended coroutine
  pc,                \* where it is suspended ("run": between instructions)
  unwinding,         \* a Cancelled is propagating through finally blocks
  timeout_child,     \* await_timeout's local `child`
  timeout_handle,    \* history: which task that child really was
  \* NativeTaskHandle, per handle object
  handle_id, status,
  \* struct Scheduler
  ready, current_task, cancel_current, sched_wake, park_seq,
  \* driver locals
  current, deadlines, signal_cancel_sent, mode,
  ops                \* operations performed so far

tableVars == <<kind, parent, pending, first_error, handle>>
parkVars == <<waiters, cancel_requested, joining, park_epoch,
              parked_on_channel, wake, io>>
coroVars == <<pc, unwinding, timeout_child, timeout_handle>>
handleVars == <<handle_id, status>>
schedVars == <<ready, current_task, cancel_current, sched_wake, park_seq>>
driverVars == <<current, deadlines, signal_cancel_sent, mode>>
vars == <<tableVars, parkVars, coroVars, handleVars, schedVars, driverVars, ops>>

JoinWakes == {"Joined", "Failed", "JoinedCancelled"}
Wakes == {"none", "Io", "Gather", "GatherErr", "TimedOut", "Channel"} \cup JoinWakes
Drains == {"drainTimeout", "drainCancel"}
Pcs == {"run", "io", "gather", "join", "joinTimed", "channel"} \cup Drains
Deadlines == [joiner : Slots, target : Slots, epoch : Nat]

Free == {s \in Slots : kind[s] = "free"}

Init ==
  /\ kind = [s \in Slots |-> IF s = Main THEN "main" ELSE "free"]
  /\ parent = [s \in Slots |-> NoTask]
  /\ pending = [s \in Slots |-> 0]
  /\ first_error = [s \in Slots |-> FALSE]
  /\ handle = [s \in Slots |-> NoHandle]
  /\ waiters = [s \in Slots |-> <<>>]
  /\ cancel_requested = [s \in Slots |-> FALSE]
  /\ joining = [s \in Slots |-> NoTask]
  /\ park_epoch = [s \in Slots |-> IF s = Main THEN 1 ELSE 0]
  /\ parked_on_channel = [s \in Slots |-> FALSE]
  /\ wake = [s \in Slots |-> "none"]
  /\ io = [s \in Slots |-> "none"]
  /\ pc = [s \in Slots |-> "run"]
  /\ unwinding = [s \in Slots |-> FALSE]
  /\ timeout_child = [s \in Slots |-> NoTask]
  /\ timeout_handle = [s \in Slots |-> NoHandle]
  /\ handle_id = [h \in Handles |-> NoTask]
  /\ status = [h \in Handles |-> "unborn"]
  /\ ready = <<>>
  /\ current_task = Main
  /\ cancel_current = FALSE
  /\ sched_wake = "none"
  /\ park_seq = 1
  /\ current = Main
  /\ deadlines = {}
  /\ signal_cancel_sent = FALSE
  /\ mode = "top"
  /\ ops = 0

-----------------------------------------------------------------------------
(* Cancellation: request_cancel and nudge_cancelled.                        *)

\* Mutant: the whole waiter list is cleared instead of one entry.
RetainNone(ws, s) == <<>>

\* waiters.retain(|w| *w != s): a task is in a waiter list at most once
\* (WaitersAgree), so dropping the first occurrence drops them all.
Retain(ws, s) ==
  IF Contains(ws, s) THEN RemoveAt(ws, CHOOSE i \in 1..Len(ws) : ws[i] = s) ELSE ws

\* The branch nudge_cancelled takes for a cancel-flagged task.
NudgeBranch(t) ==
  CASE io[t] = "inflight" -> "abort"
    [] io[t] # "inflight" /\ wake[t] # "none" -> "woken"
    [] io[t] # "inflight" /\ wake[t] = "none" /\ joining[t] # NoTask -> "join"
    [] io[t] # "inflight" /\ wake[t] = "none" /\ joining[t] = NoTask
         /\ parked_on_channel[t] -> "channel"
    [] OTHER -> "nothing"

\* What nudge_cancelled(t) leaves in io, waiters, joining, parked_on_channel
\* and ready.
NudgedIo(t) ==
  IF NudgeBranch(t) = "abort" THEN [io EXCEPT ![t] = "aborted"] ELSE io
\* Mutant: a cancelled joiner stays in its target's waiter list.
NudgedWaitersKept(t) == waiters
NudgedWaiters(t) ==
  IF NudgeBranch(t) = "join"
  THEN [waiters EXCEPT ![joining[t]] = Retain(@, t)] ELSE waiters
NudgedJoining(t) ==
  IF NudgeBranch(t) = "join" THEN [joining EXCEPT ![t] = NoTask] ELSE joining
\* Mutant: a cancelled channel waiter still passes for a parked one.
NudgedChannelKept(t) == parked_on_channel
NudgedChannel(t) ==
  IF NudgeBranch(t) = "channel"
  THEN [parked_on_channel EXCEPT ![t] = FALSE] ELSE parked_on_channel
NudgedReady(t) ==
  IF NudgeBranch(t) \in {"join", "channel"} THEN Append(ready, t) ELSE ready

\* Flag t and nudge it out of its park.
CancelParked(t) ==
  /\ cancel_requested' = [cancel_requested EXCEPT ![t] = TRUE]
  /\ io' = NudgedIo(t)
  /\ waiters' = NudgedWaiters(t)
  /\ joining' = NudgedJoining(t)
  /\ parked_on_channel' = NudgedChannel(t)
  /\ ready' = NudgedReady(t)

\* Flag t, whose context is live: the mirror on the hot path suffices.
CancelLive(t) ==
  /\ cancel_requested' = [cancel_requested EXCEPT ![t] = TRUE]
  /\ cancel_current' = TRUE
  /\ UNCHANGED <<io, waiters, joining, parked_on_channel, ready>>

request_cancel(t) ==
  \/ /\ kind[t] = "free"
     /\ UNCHANGED <<cancel_requested, cancel_current, io, waiters, joining,
                    parked_on_channel, ready>>
  \/ /\ kind[t] # "free" /\ t = current_task
     /\ CancelLive(t)
  \/ /\ kind[t] # "free" /\ t # current_task
     /\ CancelParked(t)
     /\ UNCHANGED cancel_current

\* Mutant: a signal is taken for a live cancel when the main task was merely
\* the last one loaded.
SignalBySticky(t, loaded) == request_cancel(t)

\* The fatal-signal variant, sent between resumes: `loaded` replaces the
\* comparison with the sticky current_task.
request_cancel_from_driver(t, loaded) ==
  \/ /\ kind[t] = "free"
     /\ UNCHANGED <<cancel_requested, cancel_current, io, waiters, joining,
                    parked_on_channel, ready>>
  \/ /\ kind[t] # "free" /\ loaded
     /\ CancelLive(t)
  \/ /\ kind[t] # "free" /\ ~loaded
     /\ CancelParked(t)
     /\ UNCHANGED cancel_current

\* One-shot: both the live flag and the durable one are cleared.
take_cancellation ==
  /\ cancel_current' = FALSE
  /\ cancel_requested' = [cancel_requested EXCEPT ![current] = FALSE]

-----------------------------------------------------------------------------
(* The driver.                                                              *)

\* Make s current: surface a pending cancel, drop its park state, stamp a
\* fresh epoch and move its wake into the scheduler's delivery slot.
load_task_context(s) ==
  /\ current_task' = s
  /\ park_seq' = park_seq + 1
  /\ cancel_current' = cancel_requested[s]
  /\ joining' = [joining EXCEPT ![s] = NoTask]
  /\ parked_on_channel' = [parked_on_channel EXCEPT ![s] = FALSE]
  /\ park_epoch' = [park_epoch EXCEPT ![s] = park_seq + 1]
  /\ sched_wake' = wake[s]
  /\ wake' = [wake EXCEPT ![s] = "none"]

\* Pop the next ready task (any of them under stress), load and resume it.
Pick ==
  /\ mode = "top" /\ current = NoTask
  /\ \E i \in 1..Len(ready) :
       /\ SchedStress \/ i = 1
       /\ load_task_context(ready[i])
       /\ current' = ready[i]
       /\ ready' = RemoveAt(ready, i)
  /\ mode' = "task"
  /\ UNCHANGED <<tableVars, waiters, cancel_requested, io, coroVars, handleVars,
                 deadlines, signal_cancel_sent, ops>>

\* Resume the task the driver still holds (no rotation happened).
ResumeCurrent ==
  /\ mode = "top" /\ current # NoTask
  /\ mode' = "task"
  /\ UNCHANGED <<tableVars, parkVars, coroVars, handleVars, schedVars,
                 current, deadlines, signal_cancel_sent, ops>>

\* A fatal signal latched: cancel the main task, once.
SignalCancel ==
  /\ mode = "top" /\ ~signal_cancel_sent
  /\ signal_cancel_sent' = TRUE
  /\ request_cancel_from_driver(Main, current = Main)
  /\ UNCHANGED <<tableVars, park_epoch, wake, coroVars, handleVars, current_task,
                 sched_wake, park_seq, current, deadlines, mode, ops>>

\* When background completions are delivered: by the idle reactor wait, or
\* by the non-blocking drain at a yield boundary.
Delivering == \/ mode = "top" /\ current = NoTask /\ ready = <<>>
              \/ mode = "drain"

\* An I/O future resolved.  An aborted one leaves `wake` unset.
DeliverIo(s) ==
  /\ Delivering /\ io[s] # "none"
  /\ io' = [io EXCEPT ![s] = "none"]
  /\ wake' = IF io[s] = "inflight" THEN [wake EXCEPT ![s] = "Io"] ELSE wake
  /\ ready' = Append(ready, s)
  /\ UNCHANGED <<tableVars, waiters, cancel_requested, joining, park_epoch,
                 parked_on_channel, coroVars, handleVars, current_task,
                 cancel_current, sched_wake, park_seq, driverVars, ops>>

\* Mutant: any join on the same target passes for the park the deadline armed.
DeadlineLiveNoEpoch(d) ==
  /\ kind[d.joiner] # "free"
  /\ joining[d.joiner] = d.target
  /\ wake[d.joiner] = "none"

\* The deadline still names the park that armed it.
DeadlineLive(d) ==
  /\ kind[d.joiner] # "free"
  /\ joining[d.joiner] = d.target
  /\ park_epoch[d.joiner] = d.epoch
  /\ wake[d.joiner] = "none"

\* A deadline timer resolved, by expiry or because it was disarmed: the
\* disarmed one also arrives here, and must be ignored.
DeliverDeadline(d) ==
  /\ Delivering /\ d \in deadlines
  /\ deadlines' = deadlines \ {d}
  /\ \/ /\ DeadlineLive(d)
        /\ waiters' = [waiters EXCEPT ![d.target] = Retain(@, d.joiner)]
        /\ joining' = [joining EXCEPT ![d.joiner] = NoTask]
        /\ wake' = [wake EXCEPT ![d.joiner] = "TimedOut"]
        /\ ready' = Append(ready, d.joiner)
     \/ ~DeadlineLive(d) /\ UNCHANGED <<waiters, joining, wake, ready>>
  /\ UNCHANGED <<tableVars, cancel_requested, park_epoch, parked_on_channel, io,
                 coroVars, handleVars, current_task, cancel_current, sched_wake,
                 park_seq, current, signal_cancel_sent, mode, ops>>

\* The preempt decision that ends a yield boundary.
Rotate ==
  /\ mode = "drain"
  /\ mode' = "top"
  /\ IF SchedStress \/ ready # <<>>
     THEN current' = NoTask /\ ready' = Append(ready, current)
     ELSE UNCHANGED <<current, ready>>
  /\ UNCHANGED <<tableVars, parkVars, coroVars, handleVars, current_task,
                 cancel_current, sched_wake, park_seq, deadlines,
                 signal_cancel_sent, ops>>

\* Nothing ready and nothing in flight while main is parked: the run ends
\* with the deadlock error.
GlobalDeadlock ==
  /\ mode = "top" /\ current = NoTask /\ ready = <<>>
  /\ deadlines = {} /\ \A s \in Slots : io[s] = "none"
  /\ kind[Main] # "free"
  /\ mode' = "ended"
  /\ UNCHANGED <<tableVars, parkVars, coroVars, handleVars, schedVars, current,
                 deadlines, signal_cancel_sent, ops>>

-----------------------------------------------------------------------------
(* Operations of the running task.                                          *)

\* Every instruction starts by checking the cancel flag, so an operation is
\* reached only while it is clear.
Running == mode = "task" /\ pc[current] = "run" /\ ~cancel_current
Operate == Running /\ ops < MaxOps /\ ops' = ops + 1

\* Suspend the current task at `where` and return to the driver.
Park(where) ==
  /\ pc' = [pc EXCEPT ![current] = where]
  /\ current' = NoTask
  /\ mode' = "top"

\* alloc_task takes the first free slot.
FirstFree(s) == s \in Free /\ \A r \in Free : s <= r

\* The cancel checkpoint of the dispatch loop.
Checkpoint ==
  /\ mode = "task" /\ pc[current] = "run" /\ cancel_current
  /\ take_cancellation
  /\ unwinding' = [unwinding EXCEPT ![current] = TRUE]
  /\ UNCHANGED <<tableVars, waiters, joining, park_epoch, parked_on_channel, wake,
                 io, pc, timeout_child, timeout_handle, handleVars, ready,
                 current_task, sched_wake, park_seq, driverVars, ops>>

\* One QN_BATCH of instructions is spent.
Yield ==
  /\ Operate
  /\ mode' = "drain"
  /\ UNCHANGED <<tableVars, parkVars, coroVars, handleVars, schedVars, current,
                 deadlines, signal_cancel_sent>>

AwaitIo ==
  /\ Operate
  /\ Park("io")
  /\ io' = [io EXCEPT ![current] = "inflight"]
  /\ UNCHANGED <<tableVars, waiters, cancel_requested, joining, park_epoch,
                 parked_on_channel, wake, unwinding, timeout_child, timeout_handle,
                 handleVars, schedVars, deadlines, signal_cancel_sent>>

\* Gather over no blocks: nothing will ever complete, so deliver at once.
GatherNone ==
  /\ Operate
  /\ Park("gather")
  /\ wake' = [wake EXCEPT ![current] = "Gather"]
  /\ ready' = Append(ready, current)
  /\ UNCHANGED <<tableVars, waiters, cancel_requested, joining, park_epoch,
                 parked_on_channel, io, unwinding, timeout_child, timeout_handle,
                 handleVars, current_task, cancel_current, sched_wake, park_seq,
                 deadlines, signal_cancel_sent>>

\* spawn_gather: `ids` are the slots the n successive alloc_task calls
\* return, lowest free slot first.
Gather(n) ==
  /\ Operate
  /\ Park("gather")
  /\ \E ids \in [1..n -> Free] :
       /\ \A i, j \in 1..n : i < j => ids[i] < ids[j]
       /\ \A r \in Free, i \in 1..n :
            (\A j \in 1..n : ids[j] # r) => ids[i] < r
       /\ kind' = [s \in Slots |-> IF \E i \in 1..n : ids[i] = s THEN "child" ELSE kind[s]]
       /\ parent' = [s \in Slots |-> IF \E i \in 1..n : ids[i] = s THEN current ELSE parent[s]]
       /\ ready' = ready \o ids
  /\ pending' = [pending EXCEPT ![current] = n]
  /\ first_error' = [first_error EXCEPT ![current] = FALSE]
  /\ UNCHANGED <<handle, parkVars, unwinding, timeout_child, timeout_handle,
                 handleVars, current_task, cancel_current, sched_wake, park_seq,
                 deadlines, signal_cancel_sent>>

\* spawn_detached_id into slot s with handle object h.
SpawnDetached(s, h) ==
  /\ FirstFree(s)
  /\ status[h] = "unborn" /\ \A g \in Handles : status[g] = "unborn" => h <= g
  /\ kind' = [kind EXCEPT ![s] = "detached"]
  /\ handle' = [handle EXCEPT ![s] = h]
  /\ handle_id' = [handle_id EXCEPT ![h] = s]
  /\ status' = [status EXCEPT ![h] = "Running"]
  /\ ready' = Append(ready, s)
  /\ UNCHANGED <<parent, pending, first_error>>

\* Task.spawn:
Spawn ==
  /\ Operate
  /\ \E s \in Slots, h \in Handles : SpawnDetached(s, h)
  /\ UNCHANGED <<parkVars, coroVars, current_task, cancel_current, sched_wake,
                 park_seq, driverVars>>

\* handle.join on a running task other than the caller; the joins that
\* answer without parking change nothing.
Join(h) ==
  /\ Operate
  /\ status[h] = "Running" /\ handle_id[h] # current_task
  /\ kind[handle_id[h]] # "free"
  /\ Park("join")
  /\ waiters' = [waiters EXCEPT ![handle_id[h]] = Append(@, current)]
  /\ joining' = [joining EXCEPT ![current] = handle_id[h]]
  /\ UNCHANGED <<tableVars, cancel_requested, park_epoch, parked_on_channel, wake, io,
                 unwinding, timeout_child, timeout_handle, handleVars, schedVars,
                 deadlines, signal_cancel_sent>>

\* handle.cancel
Cancel(h) ==
  /\ Operate
  /\ status[h] = "Running"
  /\ request_cancel(handle_id[h])
  /\ UNCHANGED <<tableVars, park_epoch, wake, coroVars, handleVars, current_task,
                 sched_wake, park_seq, driverVars>>

\* Async.timeout:do: - spawn the child and park on it or the deadline.
Timeout ==
  /\ Operate
  /\ Park("joinTimed")
  /\ \E s \in Slots, h \in Handles :
       /\ SpawnDetached(s, h)
       /\ waiters' = [waiters EXCEPT ![s] = Append(@, current)]
       /\ joining' = [joining EXCEPT ![current] = s]
       /\ timeout_child' = [timeout_child EXCEPT ![current] = s]
       /\ timeout_handle' = [timeout_handle EXCEPT ![current] = h]
       /\ deadlines' = deadlines \cup
            {[joiner |-> current, target |-> s, epoch |-> park_epoch[current]]}
  /\ UNCHANGED <<cancel_requested, park_epoch, parked_on_channel, wake, io, unwinding,
                 current_task, cancel_current, sched_wake, park_seq,
                 signal_cancel_sent>>

\* A channel (or claim) park; the queue that holds the waiter is abstract.
ChannelPark ==
  /\ Operate
  /\ Park("channel")
  /\ parked_on_channel' = [parked_on_channel EXCEPT ![current] = TRUE]
  /\ UNCHANGED <<tableVars, waiters, cancel_requested, joining, park_epoch, wake, io,
                 unwinding, timeout_child, timeout_handle, handleVars, schedVars,
                 deadlines, signal_cancel_sent>>

\* A counterpart wakes a live channel waiter (wake_channel_task).
ChannelWake(s) ==
  /\ Operate
  /\ kind[s] # "free" /\ parked_on_channel[s] /\ ~cancel_requested[s]
  /\ parked_on_channel' = [parked_on_channel EXCEPT ![s] = FALSE]
  /\ wake' = [wake EXCEPT ![s] = "Channel"]
  /\ ready' = Append(ready, s)
  /\ UNCHANGED <<tableVars, waiters, cancel_requested, joining, park_epoch, io,
                 coroVars, handleVars, current_task, cancel_current, sched_wake,
                 park_seq, driverVars>>

-----------------------------------------------------------------------------
(* Resuming from a park: the code of await_* after its suspend.             *)

\* A pending cancel raises before the wake is consumed; otherwise the wake
\* is taken and matched.
AwaitResume ==
  /\ mode = "task" /\ pc[current] \in {"io", "gather", "join", "channel"}
  /\ pc' = [pc EXCEPT ![current] = "run"]
  /\ \/ /\ cancel_current
        /\ take_cancellation
        /\ unwinding' = [unwinding EXCEPT ![current] = TRUE]
        /\ UNCHANGED sched_wake
     \/ /\ ~cancel_current
        /\ sched_wake' = "none"
        /\ UNCHANGED <<cancel_current, cancel_requested, unwinding>>
  /\ UNCHANGED <<tableVars, waiters, joining, park_epoch, parked_on_channel, wake, io,
                 timeout_child, timeout_handle, handleVars, ready, current_task,
                 park_seq, driverVars, ops>>

\* drain_cancelled(child): nothing to do when its slot is free, else cancel
\* whatever occupies the slot and join it.
DrainFinished(raise) ==
  /\ kind[timeout_child[current]] = "free"
  /\ pc' = [pc EXCEPT ![current] = "run"]
  /\ unwinding' = [unwinding EXCEPT ![current] = @ \/ raise]
  /\ UNCHANGED <<waiters, joining, parked_on_channel, io, ready, current, mode>>

DrainPark(where) ==
  LET child == timeout_child[current] IN
  /\ kind[child] # "free"
  /\ Park(where)
  /\ io' = NudgedIo(child)
  /\ waiters' = [NudgedWaiters(child) EXCEPT ![child] = Append(@, current)]
  /\ joining' = [NudgedJoining(child) EXCEPT ![current] = child]
  /\ parked_on_channel' = NudgedChannel(child)
  /\ ready' = NudgedReady(child)
  /\ UNCHANGED unwinding

\* The flags after the drain: the child's is set, and the caller's own is
\* cleared when the drain follows its cancellation.
DrainFlags(own) ==
  cancel_requested' =
    [s \in Slots |->
       IF s = current THEN cancel_requested[s] /\ ~own
       ELSE cancel_requested[s]
              \/ (s = timeout_child[current] /\ kind[s] # "free")]

\* await_timeout after its timed join: completed, deadline, or outer cancel.
TimeoutResume ==
  /\ mode = "task" /\ pc[current] = "joinTimed"
  /\ \/ /\ cancel_current
        /\ cancel_current' = FALSE
        /\ DrainFlags(TRUE)
        /\ DrainFinished(TRUE) \/ DrainPark("drainCancel")
        /\ UNCHANGED sched_wake
     \/ /\ ~cancel_current /\ sched_wake = "TimedOut"
        /\ sched_wake' = "none"
        /\ DrainFlags(FALSE)
        /\ DrainFinished(FALSE) \/ DrainPark("drainTimeout")
        /\ UNCHANGED cancel_current
     \/ /\ ~cancel_current /\ sched_wake # "TimedOut"
        /\ sched_wake' = "none"
        /\ pc' = [pc EXCEPT ![current] = "run"]
        /\ UNCHANGED <<cancel_current, cancel_requested, waiters, joining, io,
                       parked_on_channel, ready, unwinding, current, mode>>
  /\ UNCHANGED <<tableVars, park_epoch, wake, timeout_child, timeout_handle,
                 handleVars, current_task, park_seq, deadlines,
                 signal_cancel_sent, ops>>

\* drain_cancelled after its join: the outcome is discarded, an own
\* cancellation that arrived meanwhile included.
DrainResume ==
  /\ mode = "task" /\ pc[current] \in Drains
  /\ pc' = [pc EXCEPT ![current] = "run"]
  /\ unwinding' = [unwinding EXCEPT ![current] = @ \/ pc[current] = "drainCancel"]
  /\ \/ cancel_current /\ take_cancellation /\ UNCHANGED sched_wake
     \/ /\ ~cancel_current /\ sched_wake' = "none"
        /\ UNCHANGED <<cancel_current, cancel_requested>>
  /\ UNCHANGED <<tableVars, waiters, joining, park_epoch, parked_on_channel, wake, io,
                 timeout_child, timeout_handle, handleVars, ready, current_task,
                 park_seq, driverVars, ops>>

-----------------------------------------------------------------------------
(* Completion of the current task's root coroutine.                         *)

Outcome == IF unwinding[current] THEN {"Cancelled"} ELSE {"Done", "Failed"}

\* tasks[cur] = None; a later task in the slot starts from these defaults.
FreeCurrent ==
  /\ kind' = [kind EXCEPT ![current] = "free"]
  /\ parent' = [parent EXCEPT ![current] = NoTask]
  /\ handle' = [handle EXCEPT ![current] = NoHandle]
  /\ waiters' = [waiters EXCEPT ![current] = <<>>]
  /\ park_epoch' = [park_epoch EXCEPT ![current] = 0]
  /\ unwinding' = [unwinding EXCEPT ![current] = FALSE]
  /\ timeout_child' = [timeout_child EXCEPT ![current] = NoTask]
  /\ timeout_handle' = [timeout_handle EXCEPT ![current] = NoHandle]
  /\ current' = NoTask

\* Mutant: the outcome is sent on as it is, not as a join wake.
JoinWakeRaw(out) == out
JoinWake(out) ==
  CASE out = "Done" -> "Joined" [] out = "Failed" -> "Failed"
    [] out = "Cancelled" -> "JoinedCancelled"

\* Mutant: the handle is not told that its task ended.
complete_detached_silent(out) ==
  /\ kind[current] = "detached"
  /\ FreeCurrent
  /\ joining' = [s \in Slots |-> IF Contains(waiters[current], s) THEN NoTask ELSE joining[s]]
  /\ wake' = [s \in Slots |-> IF Contains(waiters[current], s) THEN JoinWake(out) ELSE wake[s]]
  /\ ready' = ready \o waiters[current]
  /\ mode' = "top"
  /\ UNCHANGED <<pending, first_error, status>>

\* Write the outcome into the handle, free the slot, wake every joiner.
complete_detached(out) ==
  /\ kind[current] = "detached"
  /\ FreeCurrent
  /\ status' = [status EXCEPT ![handle[current]] = out]
  /\ joining' = [s \in Slots |-> IF Contains(waiters[current], s) THEN NoTask ELSE joining[s]]
  /\ wake' = [s \in Slots |-> IF Contains(waiters[current], s) THEN JoinWake(out) ELSE wake[s]]
  /\ ready' = ready \o waiters[current]
  /\ mode' = "top"
  /\ UNCHANGED <<pending, first_error>>

\* Mutant: the first failure delivers the batch at once.
complete_child_eager(out) ==
  LET p == parent[current]
      failed == first_error[p] \/ out # "Done"
  IN
  /\ kind[current] = "child"
  /\ FreeCurrent
  /\ mode' = "top"
  /\ IF failed \/ pending[p] = 1
     THEN /\ first_error' = [first_error EXCEPT ![p] = FALSE]
          /\ pending' = [pending EXCEPT ![p] = 0]
          /\ wake' = [wake EXCEPT ![p] = IF failed THEN "GatherErr" ELSE "Gather"]
          /\ ready' = Append(ready, p)
     ELSE /\ pending' = [pending EXCEPT ![p] = @ - 1]
          /\ UNCHANGED <<first_error, wake, ready>>
  /\ UNCHANGED <<status, joining>>

\* Report into the parent's batch; the last child wakes the parent.
complete_child(out) ==
  LET p == parent[current]
      failed == first_error[p] \/ out # "Done"
  IN
  /\ kind[current] = "child"
  /\ FreeCurrent
  /\ pending' = [pending EXCEPT ![p] = @ - 1]
  /\ mode' = "top"
  /\ IF pending[p] = 1
     THEN /\ first_error' = [first_error EXCEPT ![p] = FALSE]
          /\ wake' = [wake EXCEPT ![p] = IF failed THEN "GatherErr" ELSE "Gather"]
          /\ ready' = Append(ready, p)
     ELSE /\ first_error' = [first_error EXCEPT ![p] = failed]
          /\ UNCHANGED <<wake, ready>>
  /\ UNCHANGED <<status, joining>>

\* The main task ends the program.
complete_main ==
  /\ kind[current] = "main"
  /\ FreeCurrent
  /\ mode' = "ended"
  /\ UNCHANGED <<pending, first_error, status, joining, wake, ready>>

Finish ==
  /\ Running
  /\ \E out \in Outcome :
       complete_detached(out) \/ complete_child(out) \/ complete_main
  /\ UNCHANGED <<cancel_requested, parked_on_channel, io, pc, handle_id, current_task,
                 cancel_current, sched_wake, park_seq, deadlines,
                 signal_cancel_sent, ops>>

\* The run is over.
Ended == mode = "ended" /\ UNCHANGED vars

Next ==
  \/ Pick \/ ResumeCurrent \/ SignalCancel \/ Rotate \/ GlobalDeadlock
  \/ \E s \in Slots : DeliverIo(s)
  \/ \E d \in deadlines : DeliverDeadline(d)
  \/ Checkpoint \/ Yield \/ AwaitIo \/ GatherNone
  \/ \E n \in 1..MaxGather : Gather(n)
  \/ Spawn \/ Timeout \/ ChannelPark
  \/ \E h \in Handles : Join(h) \/ Cancel(h)
  \/ \E s \in Slots : ChannelWake(s)
  \/ AwaitResume \/ TimeoutResume \/ DrainResume \/ Finish \/ Ended

Spec == Init /\ [][Next]_vars

\* The driver loop never stops by itself, and an in-flight future resolves.
FairSpec == Spec /\ WF_vars(Next)

-----------------------------------------------------------------------------
(* Properties.                                                              *)

TableTypeOK ==
  /\ kind \in [Slots -> {"free", "main", "child", "detached"}]
  /\ parent \in [Slots -> Slots \cup {NoTask}]
  /\ pending \in [Slots -> Int]
  /\ first_error \in [Slots -> BOOLEAN]
  /\ handle \in [Slots -> Handles \cup {NoHandle}]

ParkTypeOK ==
  /\ waiters \in [Slots -> Seq(Slots)]
  /\ cancel_requested \in [Slots -> BOOLEAN]
  /\ joining \in [Slots -> Slots \cup {NoTask}]
  /\ park_epoch \in [Slots -> Nat]
  /\ parked_on_channel \in [Slots -> BOOLEAN]
  /\ wake \in [Slots -> Wakes]
  /\ io \in [Slots -> {"none", "inflight", "aborted"}]

CoroTypeOK ==
  /\ pc \in [Slots -> Pcs]
  /\ unwinding \in [Slots -> BOOLEAN]
  /\ timeout_child \in [Slots -> Slots \cup {NoTask}]
  /\ timeout_handle \in [Slots -> Handles \cup {NoHandle}]

HandleTypeOK ==
  /\ handle_id \in [Handles -> Slots \cup {NoTask}]
  /\ status \in [Handles -> {"unborn", "Running", "Done", "Failed", "Cancelled"}]

SchedTypeOK ==
  /\ ready \in Seq(Slots)
  /\ current_task \in Slots
  /\ cancel_current \in BOOLEAN
  /\ sched_wake \in Wakes
  /\ park_seq \in Nat

DriverTypeOK ==
  /\ current \in Slots \cup {NoTask}
  /\ deadlines \subseteq Deadlines
  /\ signal_cancel_sent \in BOOLEAN
  /\ mode \in {"top", "task", "drain", "ended"}
  /\ ops \in Nat

TypeOK == TableTypeOK /\ ParkTypeOK /\ CoroTypeOK /\ HandleTypeOK
            /\ SchedTypeOK /\ DriverTypeOK

Runnable(s) == s = current \/ Contains(ready, s)
Parked(s) == kind[s] # "free" /\ ~Runnable(s)
Children(p) == {s \in Slots : kind[s] = "child" /\ parent[s] = p}

(* A runnable task is queued exactly once, in a live slot, and nothing that *)
(* could wake it a second time still refers to it: no future, no waiter     *)
(* list, no channel park, no gather.  The "double-resume" nudge_cancelled   *)
(* and complete_detached guard against: a queued id resumes a freed or      *)
(* reused slot.                                                             *)
ReadyOnce ==
  /\ \A i, j \in 1..Len(ready) : i # j => ready[i] # ready[j]
  /\ ~Contains(ready, current)
  /\ \A s \in Slots : Runnable(s) =>
       /\ kind[s] # "free" /\ io[s] = "none" /\ joining[s] = NoTask
       /\ ~parked_on_channel[s] /\ pending[s] = 0
       /\ \A t \in Slots : ~Contains(waiters[t], s)

(* No lost wakeup: a parked task is registered with whatever will wake it - *)
(* its future, the waiter list of a live target, its children, or a channel *)
(* park.  (The join inside drain_cancelled is the exception that the run    *)
(* DrainOwnChild is about.)                                                 *)
ParkedHasWaker ==
  mode # "ended" => \A s \in Slots : Parked(s) =>
    CASE pc[s] = "io" -> io[s] # "none"
      [] pc[s] = "gather" -> Children(s) # {}
      [] pc[s] \in {"join", "joinTimed"} ->
           /\ joining[s] # NoTask /\ kind[joining[s]] # "free"
           /\ Contains(waiters[joining[s]], s)
      [] pc[s] = "channel" -> parked_on_channel[s]
      [] pc[s] \in Drains -> joining[s] # NoTask
      [] pc[s] = "run" -> FALSE

WakeFits(w, at) ==
  \/ w = "Io" /\ at = "io"
  \/ w \in {"Gather", "GatherErr"} /\ at = "gather"
  \/ w \in JoinWakes /\ at \in {"join", "joinTimed"} \cup Drains
  \/ w = "TimedOut" /\ at = "joinTimed"
  \/ w = "Channel" /\ at = "channel"

(* A task resumed from a park finds a wake of the park's own kind or a      *)
(* pending cancel: no "I/O resumed without a result" and its siblings, and  *)
(* no outcome of one park consumed by a later one.                          *)
ResumedWithResult ==
  /\ \A s \in Slots : wake[s] # "none" => Contains(ready, s) /\ WakeFits(wake[s], pc[s])
  /\ \A i \in 1..Len(ready) : pc[ready[i]] # "run" =>
       wake[ready[i]] # "none" \/ cancel_requested[ready[i]]
  /\ mode = "task" /\ pc[current] # "run" =>
       cancel_current \/ WakeFits(sched_wake, pc[current])

(* A deadline that fires is the one its own park armed: a TimedOut wake     *)
(* never comes from a timer left over from an earlier park or from an       *)
(* earlier occupant of the slot (the exact race resolution deliver_deadline *)
(* promises).                                                               *)
TimedOutByOwnDeadline ==
  \A s \in Slots : wake[s] = "TimedOut" =>
    ~\E d \in deadlines : d.joiner = s /\ d.epoch = park_epoch[s]

(* A waiter list names each joiner once, and only tasks that are parked on  *)
(* this very target.                                                        *)
WaitersAgree ==
  \A t \in Slots :
    /\ \A i, j \in 1..Len(waiters[t]) : i # j => waiters[t][i] # waiters[t][j]
    /\ \A s \in Slots : Contains(waiters[t], s) => joining[s] = t

(* A handle that says Running names the slot that holds its own task, and a *)
(* finished one holds none: NativeTaskHandle's "a freed/reused slot is      *)
(* never touched through a finished handle".                                *)
HandleNamesItsTask ==
  /\ \A h \in Handles : status[h] = "Running" =>
       handle_id[h] # NoTask /\ kind[handle_id[h]] = "detached" /\ handle[handle_id[h]] = h
  /\ \A s \in Slots : kind[s] = "detached" =>
       handle[s] # NoHandle /\ status[handle[s]] = "Running" /\ handle_id[handle[s]] = s

(* GatherState::pending counts the live children of the gathering task, so  *)
(* the batch is delivered exactly when the last of them ends, and a child   *)
(* never completes into a slot that is not gathering.                       *)
PendingCountsChildren ==
  \A p \in Slots :
    /\ pending[p] = Cardinality(Children(p))
    /\ pending[p] > 0 => kind[p] # "free" /\ pc[p] = "gather"

(* A cancelled task is on its way to a checkpoint: it is runnable, or its   *)
(* future was aborted, or it waits for its own gather (the v1 scope note).  *)
(* In particular a fatal signal reaches a main task parked anywhere.        *)
CancelReachesTask ==
  \A s \in Slots : cancel_requested[s] /\ kind[s] # "free" =>
    Runnable(s) \/ io[s] = "aborted" \/ pc[s] = "gather"

(* Who waits and who will wake it agree across the task table: a parked     *)
(* task has a waker, is queued or named as a waiter once, and a gathering   *)
(* parent counts the children that still owe it a result.                   *)
WakersAgree == ParkedHasWaker /\ WaitersAgree /\ ReadyOnce /\ PendingCountsChildren

(* await_timeout: "cancel and drain the child" - the task the drain joins   *)
(* is the one the timeout spawned.                                          *)
DrainOwnChild ==
  \A s \in Slots : pc[s] \in Drains /\ joining[s] # NoTask =>
    handle[joining[s]] = timeout_handle[s]

(* handle.cancel: "the task raises an uncatchable cancellation at its next  *)
(* checkpoint" - a consumed cancel request leaves the task unwinding.       *)
CancelIsRaised ==
  [][\A s \in Slots :
       cancel_requested[s] /\ ~cancel_requested'[s] /\ kind'[s] # "free" =>
         unwinding'[s] \/ pc'[s] = "drainCancel"]_vars

=============================================================================
