----------------------------- MODULE Subprocess -----------------------------
(* [OS]Process start: a child in the backend's table, a guest handle that    *)
(* owns it, tasks that wait for it, signal it or probe it, the collection of *)
(* the handle, and the end of the VM.  The operating system may give a       *)
(* reaped pid to another process.                                            *)
EXTENDS Naturals

CONSTANTS PTasks   \* tasks using the handle

VARIABLES
    os,       \* the pid: "running", "zombie", "reaped", "recycled"
    slot,     \* ChildSlot: in the table, exited recorded, waiting, detached
    handle,   \* the guest handle: "live", "collected"
    childReap,\* the child is in io.child_reap
    waits,    \* task -> "no", "waiting", "busy" (refused), "told"
    stray,    \* a signal went to a pid that was no longer the child's
    vm        \* "up" or "down"
procVars == <<os, slot, handle, childReap, waits, stray, vm>>

ProcInit ==
    /\ os = "running"
    /\ slot = [there |-> TRUE, exited |-> FALSE, waiting |-> FALSE, detached |-> FALSE]
    /\ handle = "live"
    /\ childReap = FALSE
    /\ waits = [t \in PTasks |-> "no"]
    /\ stray = FALSE
    /\ vm = "up"

ChildExits ==
    /\ os = "running" /\ os' = "zombie"
    /\ UNCHANGED <<slot, handle, childReap, waits, stray, vm>>
PidReused ==
    /\ os = "reaped" /\ os' = "recycled"
    /\ UNCHANGED <<slot, handle, childReap, waits, stray, vm>>

\* libc::kill by pid
Kill(fatal) ==
    /\ stray' = (stray \/ os \in {"reaped", "recycled"})
    /\ os' = IF os = "running" /\ fatal THEN "zombie" ELSE os

Uses(t) == vm = "up" /\ handle = "live" /\ waits[t] # "waiting"

\* wait: ChildWait, refused while another wait is in flight
wait(t) ==
    /\ Uses(t) /\ slot.there /\ ~slot.exited
    /\ IF slot.waiting
       THEN waits' = [waits EXCEPT ![t] = "busy"] /\ UNCHANGED slot
       ELSE waits' = [waits EXCEPT ![t] = "waiting"] /\ slot' = [slot EXCEPT !.waiting = TRUE]
    /\ UNCHANGED <<os, handle, childReap, stray, vm>>

RecordedAfter == [slot EXCEPT !.waiting = FALSE]
Recorded == [slot EXCEPT !.exited = TRUE, !.waiting = FALSE]

\* child.status() resolves, which reaps the pid, and the exit is recorded
WaitResolves(t) ==
    /\ waits[t] = "waiting" /\ os = "zombie" /\ vm = "up"
    /\ os' = "reaped"
    /\ slot' = Recorded
    /\ waits' = [waits EXCEPT ![t] = "told"]
    /\ UNCHANGED <<handle, childReap, stray, vm>>

\* the waiting task is cancelled: WaitGuard clears the flag
WaitCancelled(t) ==
    /\ waits[t] = "waiting" /\ vm = "up"
    /\ slot' = [slot EXCEPT !.waiting = FALSE]
    /\ waits' = [waits EXCEPT ![t] = "no"]
    /\ UNCHANGED <<os, handle, childReap, stray, vm>>

\* running?: probes unless a wait is parked; records an exit it discovers
child_running(t) ==
    /\ Uses(t) /\ slot.there /\ ~slot.exited /\ ~slot.waiting /\ os = "zombie"
    /\ os' = "reaped"
    /\ slot' = [slot EXCEPT !.exited = TRUE]
    /\ UNCHANGED <<handle, childReap, waits, stray, vm>>

\* kill and terminate (which the child may ignore)
child_signal(t, fatal) ==
    /\ Uses(t) /\ slot.there /\ ~slot.exited
    /\ Kill(fatal)
    /\ UNCHANGED <<slot, handle, childReap, waits, vm>>

child_detach(t) ==
    /\ Uses(t) /\ slot.there
    /\ slot' = [slot EXCEPT !.detached = TRUE]
    /\ UNCHANGED <<os, handle, childReap, waits, stray, vm>>

\* No task holds the handle any more: NativeProcess::drop
Collected ==
    /\ vm = "up" /\ handle = "live" /\ \A t \in PTasks : waits[t] # "waiting"
    /\ handle' = "collected"
    /\ childReap' = ~slot.detached
    /\ UNCHANGED <<os, slot, waits, stray, vm>>

SparedDetached == slot.detached
Spared == slot.exited \/ slot.detached

\* The driver drains child_reap; the VM's end kills what is still in the table.
KillUnlessSpared == IF Spared THEN UNCHANGED <<os, stray>> ELSE Kill(TRUE)
reap_child ==
    /\ vm = "up" /\ childReap
    /\ KillUnlessSpared
    /\ slot' = [slot EXCEPT !.there = FALSE]
    /\ childReap' = FALSE
    /\ UNCHANGED <<handle, waits, vm>>
SmolInnerDropChildren ==
    /\ vm = "up" /\ vm' = "down"
    /\ IF slot.there THEN KillUnlessSpared ELSE UNCHANGED <<os, stray>>
    /\ UNCHANGED <<slot, handle, childReap, waits>>

ProcNext ==
    \/ ChildExits \/ PidReused \/ Collected \/ reap_child \/ SmolInnerDropChildren
    \/ \E t \in PTasks : \/ wait(t) \/ WaitResolves(t) \/ WaitCancelled(t) \/ child_running(t)
                         \/ child_detach(t) \/ \E fatal \in BOOLEAN : child_signal(t, fatal)
ProcSpec == ProcInit /\ [][ProcNext]_procVars

(* No signal ever reaches a pid after it was reaped, when it may belong to   *)
(* another process, and once the handle is collected and drained, or the VM  *)
(* is down, a child that was not detached no longer runs.                    *)
ChildOwned ==
    /\ ~stray
    /\ (~slot.there \/ vm = "down") /\ ~slot.detached => os # "running"
=============================================================================
