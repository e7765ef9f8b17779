------------------------------- MODULE Fibers -------------------------------
(* Guest fibers.  A task runs a chain of activations: its root block, which *)
(* resumed a fiber, which resumed another.  Only the last of the chain runs, *)
(* the others wait inside fiber_resume.  A fiber that yields leaves the     *)
(* chain with its frames and may be resumed later, by any task.  The driver *)
(* switches tasks between instruction batches, moving every register of the *)
(* chain to the task and back.                                              *)
EXTENDS Naturals, Sequences, SequencesExt, FiniteSetsExt

CONSTANTS FTasks,          \* tasks; a task also names its own root activation
          FFibers,         \* guest fibers
          MaxNativeReentry \* VmState::MAX_NATIVE_REENTRY

VARIABLES
    running,   \* sched.current_task
    reg,       \* the VM's registers of the running task (see Fresh)
    parked,    \* task -> its saved registers
    fiber,     \* fiber -> NativeFiberState
    transfer,  \* fiber_transfer / fiber_error: the activation it was put there for
    taking,    \* the coroutine just switched to has not taken the transfer yet
    nest,      \* activation -> native re-entries on its own coroutine's stack
    refused    \* a re-entry was refused though the chain's real depth allowed it
fiberVars == <<running, reg, parked, fiber, transfer, taking, nest, refused>>

Activations == FTasks \union FFibers
Nobody == "nobody"

\* current_fiber and resume_stack (None is the task's root), main_saved_*, the
\* owner of the frames now in the VM, native_reentry_depth
Fresh(t) == [cf |-> t, rs |-> <<>>, root |-> Nobody, frames |-> t, depth |-> 0]

FiberInit ==
    /\ running \in FTasks
    /\ reg = Fresh(running)
    /\ parked = [t \in FTasks |-> Fresh(t)]
    /\ fiber = [f \in FFibers |-> [status |-> "created", started |-> FALSE,
                                   frames |-> Nobody, owner |-> Nobody]]
    /\ transfer = Nobody
    /\ taking = FALSE
    /\ nest = [a \in Activations |-> 0]
    /\ refused = FALSE

\* save_task_context of the running task, load_task_context of another
SwitchTask(t) ==
    /\ ~taking /\ t # running
    /\ parked' = [parked EXCEPT ![running] = reg]
    /\ reg' = parked[t]
    /\ running' = t
    /\ UNCHANGED <<fiber, transfer, taking, nest, refused>>

\* save_fiber_context then load_fiber_context: the frames of `out` go to its
\* fiber or to main_saved_*, those of `in` come from theirs.
SwappedRoot(out, in) == IF out \in FTasks THEN reg.frames
                        ELSE IF in \in FTasks THEN Nobody ELSE reg.root
Kept(out, in) ==
    [f \in FFibers |-> IF f = out THEN [fiber[f] EXCEPT !.frames = reg.frames]
                       ELSE IF f = in THEN [fiber[f] EXCEPT !.frames = Nobody]
                       ELSE fiber[f]]
Loaded(in) == IF in \in FTasks THEN reg.root ELSE fiber[in].frames

NotMineNever(f) == FALSE
NotMine(f) == fiber[f].owner \notin {Nobody, running}

\* Fiber.resume: fiber_resume's refusals, then do_resume_switch
fiber_resume(f) ==
    LET out == reg.cf
        kept == Kept(out, f)
    IN
    /\ ~taking
    /\ fiber[f].status \notin {"done", "failed"}
    /\ f # out /\ ~Contains(reg.rs, f)
    /\ ~NotMine(f)
    /\ reg' = [reg EXCEPT !.cf = f, !.rs = Append(@, out),
                          !.root = SwappedRoot(out, f),
                          !.frames = IF fiber[f].started THEN Loaded(f) ELSE f]
    /\ fiber' = [g \in FFibers |->
          IF g = f THEN [kept[g] EXCEPT !.status = "running", !.started = TRUE, !.owner = running]
          ELSE IF g = out THEN [kept[g] EXCEPT !.status = "suspended"]
          ELSE kept[g]]
    /\ taking' = fiber[f].started
    /\ transfer' = IF fiber[f].started THEN f ELSE transfer
    /\ UNCHANGED <<running, parked, nest, refused>>

Resumer == Last(reg.rs)
BackTo(in, root) == [reg EXCEPT !.cf = in, !.rs = Front(@), !.root = root, !.frames = Loaded(in)]

YieldedBare(f) == [fiber[f] EXCEPT !.status = "suspended", !.owner = Nobody]
Yielded(f) == [fiber[f] EXCEPT !.status = "suspended", !.owner = Nobody, !.frames = reg.frames]

\* Fiber.yield: fiber_yield and do_yield_switch
fiber_yield ==
    LET out == reg.cf
        in == Resumer
    IN
    /\ ~taking
    /\ out \in FFibers
    /\ fiber' = [f \in FFibers |->
          IF f = out THEN Yielded(f)
          ELSE IF f = in THEN [Kept(out, in)[f] EXCEPT !.status = "running"]
          ELSE fiber[f]]
    /\ reg' = BackTo(in, SwappedRoot(out, in))
    /\ transfer' = in
    /\ taking' = TRUE
    /\ UNCHANGED <<running, parked, nest, refused>>

\* The fiber's block returns, or an error leaves it, unwinding its native
\* calls, each of which lowers the depth.
do_fiber_done(st) ==
    LET out == reg.cf
        in == Resumer
    IN
    /\ ~taking
    /\ out \in FFibers
    /\ st = "done" => nest[out] = 0
    /\ fiber' = [f \in FFibers |->
          IF f = out THEN [fiber[f] EXCEPT !.status = st, !.owner = Nobody]
          ELSE IF f = in THEN [Kept(out, in)[f] EXCEPT !.status = "running"]
          ELSE fiber[f]]
    /\ reg' = [BackTo(in, SwappedRoot(out, in)) EXCEPT
                  !.depth = IF @ > nest[out] THEN @ - nest[out] ELSE 0]
    /\ nest' = [nest EXCEPT ![out] = 0]
    /\ transfer' = in
    /\ taking' = TRUE
    /\ UNCHANGED <<running, parked, refused>>

\* fiber_resume or fiber_yield answers in the coroutine switched to
TakeTransfer ==
    /\ taking
    /\ taking' = FALSE
    /\ transfer' = Nobody
    /\ UNCHANGED <<running, reg, parked, fiber, nest, refused>>

ChainOf(r) == Range(Append(r.rs, r.cf))
RealDepth == MapThenSumSet(LAMBDA a : nest[a], ChainOf(reg))

\* call_method / call_method_value: enter_native_reentry ...
enter_native_reentry ==
    /\ ~taking /\ nest[reg.cf] < MaxNativeReentry
    /\ IF reg.depth >= MaxNativeReentry
       THEN refused' = (refused \/ RealDepth < MaxNativeReentry) /\ UNCHANGED <<reg, nest>>
       ELSE /\ reg' = [reg EXCEPT !.depth = @ + 1]
            /\ nest' = [nest EXCEPT ![reg.cf] = @ + 1]
            /\ UNCHANGED refused
    /\ UNCHANGED <<running, parked, fiber, transfer, taking>>

\* ... and the saturating decrement when the call returns
leave_native_reentry ==
    /\ ~taking /\ nest[reg.cf] > 0
    /\ nest' = [nest EXCEPT ![reg.cf] = @ - 1]
    /\ reg' = [reg EXCEPT !.depth = IF @ > 0 THEN @ - 1 ELSE 0]
    /\ UNCHANGED <<running, parked, fiber, transfer, taking, refused>>

FiberNext ==
    \/ \E t \in FTasks : SwitchTask(t)
    \/ \E f \in FFibers : fiber_resume(f)
    \/ fiber_yield
    \/ \E st \in {"done", "failed"} : do_fiber_done(st)
    \/ TakeTransfer \/ enter_native_reentry \/ leave_native_reentry
FiberSpec == FiberInit /\ [][FiberNext]_fiberVars

RegistersOf(t) == IF t = running THEN reg ELSE parked[t]

(* The driver resumes the coroutine of current_fiber (or of the task) with   *)
(* whatever frames are in the VM: they are that coroutine's own frames, the  *)
(* value or error it is about to take was put there for it, and no fiber is  *)
(* in two places, on the chains of two tasks or twice on one, however tasks  *)
(* are switched, fibers handed from task to task and chains nested.          *)
FramesFollowCoroutine ==
    /\ \A t \in FTasks : RegistersOf(t).frames = RegistersOf(t).cf
    /\ taking => transfer = reg.cf
    /\ \A f \in FFibers :
          /\ fiber[f].frames \in {Nobody, f}
          /\ Cardinality({t \in FTasks : f \in ChainOf(RegistersOf(t))}) <= 1
          /\ (fiber[f].status = "suspended" => fiber[f].frames = f)

(* enter_native_reentry refuses a call only when the native calls really on  *)
(* the stacks of the running chain have reached the limit.                   *)
RefusedOnlyAtLimit == ~refused
=============================================================================
