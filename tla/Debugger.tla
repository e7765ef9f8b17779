------------------------------ MODULE Debugger ------------------------------
(* The debugger (src/debug.rs) and its two frontends, the `$`-command loop  *)
(* (src/debug_cli.rs) and the debug adapter (src/runner_dap.rs): a session  *)
(* is configured, the program runs under a checkpoint per instruction, and  *)
(* each pause stops every task until the user resumes.                      *)
EXTENDS Naturals, Sequences, FiniteSets, SequencesExt

CONSTANTS DbgTasks, MainTask, MaxStops, MaxHandles

VARIABLES phase,         \* "configure", "run", "paused" or "over"
          dap,           \* the adapter: is a program still to come, the variable handles
          debug,         \* the session's state, or what a run without one has
          frames,        \* the frames of each task, innermost last
          current,       \* the task that runs
          active,        \* the exception being raised
          resumed,       \* does the current task stand right after a pause
          told,          \* the breakpoints the client was told are set, since the launch
          asked,         \* the last step asked for, for the properties
          stops, caught, nextFrame, trace
bvars == <<phase, dap, debug, frames, current, active, resumed, told, asked, stops, caught, nextFrame, trace>>
----------------------------------------------------------------------------
(* The debuggee: lines, and what each instruction does.                     *)
I(line, op, to) == [line |-> line, op |-> op, to |-> to]
Code == [main |-> <<I(1, "try", "f"), I(1, "call", "g"), I(3, "park", ""),
                    I(4, "op", ""), I(4, "ret", "")>>,
         f |-> <<I(5, "op", ""), I(6, "raise", ""), I(6, "ret", "")>>,
         g |-> <<I(7, "op", ""), I(8, "ret", "")>>]
Lines == {1, 6, 7}
Frame(b, id, catching) == [b |-> b, ip |-> 1, id |-> id, catching |-> catching]
NoDebug == [on |-> FALSE, breaks |-> {}, step |-> "none", depth |-> 0, at_throw |-> FALSE, onThrow |-> FALSE, focus |-> 0]
DebugState(onThrow) == [NoDebug EXCEPT !.on = TRUE, !.onThrow = onThrow]
Depth(t) == Len(frames[t])
Top(t) == frames[t][Depth(t)]
At(t) == Code[Top(t).b][Top(t).ip]
Ids(t) == {frames[t][i].id : i \in DOMAIN frames[t]}

\* Right after a raise, until the catch has taken the frame away.
Unwinding(t) == Top(t).ip > 1 /\ Code[Top(t).b][Top(t).ip - 1].op = "raise"

is_line_start(b, ip) == ip # 1 => Code[b][ip - 1].line # Code[b][ip].line
StartsLine(t) == is_line_start(Top(t).b, Top(t).ip)
StepDone(t) ==
    \/ debug.step = "into"
    \/ debug.step = "over" /\ Depth(t) <= debug.depth
\* The mutant: an armed step hides the breakpoints it passes.
should_pause_stepping(t) ==
    \/ debug.step = "out" /\ Depth(t) < debug.depth
    \/ StartsLine(t) /\ IF debug.step = "none" THEN At(t).line \in debug.breaks ELSE StepDone(t)
should_pause(t) ==
    \/ debug.step = "out" /\ Depth(t) < debug.depth
    \/ StartsLine(t) /\ (At(t).line \in debug.breaks \/ StepDone(t))
----------------------------------------------------------------------------
(* The adapter's configuration.                                             *)
Configuring == phase = "configure"
\* The program arrives with the launch, which starts a session of its own: the
\* breakpoints a client set before it were answered as verified and are gone.
install_dap_program(stopOnEntry, onThrow) ==
    /\ debug' = [DebugState(onThrow) EXCEPT !.step = IF stopOnEntry THEN "into" ELSE "none"]
    /\ frames' = [t \in DbgTasks |-> <<Frame("main", 0, FALSE)>>]
Launch(stopOnEntry, onThrow) ==
    /\ Configuring /\ dap.pending
    /\ install_dap_program(stopOnEntry, onThrow)
    /\ dap' = [dap EXCEPT !.pending = FALSE]
    /\ told' = {} /\ trace' = [what |-> "launch", ok |-> TRUE]
    /\ UNCHANGED <<phase, current, active, resumed, asked, stops, caught, nextFrame>>
LaunchFails ==
    /\ Configuring /\ dap.pending
    /\ phase' = "over" /\ trace' = [what |-> "launch", ok |-> FALSE]
    /\ UNCHANGED <<dap, debug, frames, current, active, resumed, told, asked, stops, caught, nextFrame>>
\* Every line is answered as verified.
dap_set_breakpoints(ls) ==
    /\ Configuring
    /\ debug' = IF debug.on THEN [debug EXCEPT !.breaks = ls] ELSE debug
    /\ told' = ls /\ trace' = [what |-> "setBreakpoints", ok |-> TRUE]
    /\ UNCHANGED <<phase, dap, frames, current, active, resumed, asked, stops, caught, nextFrame>>
ConfigurationDone ==
    /\ Configuring /\ ~dap.pending
    /\ phase' = "run" /\ trace' = [what |-> "configurationDone", ok |-> TRUE]
    /\ UNCHANGED <<dap, debug, frames, current, active, resumed, told, asked, stops, caught, nextFrame>>
Disconnect ==
    /\ phase \in {"configure", "paused"}
    /\ phase' = "over" /\ trace' = [what |-> "disconnect", ok |-> TRUE]
    /\ UNCHANGED <<dap, debug, frames, current, active, resumed, told, asked, stops, caught, nextFrame>>
----------------------------------------------------------------------------
(* Running.  A checkpoint precedes every instruction.                       *)
on_pause_keeping(t) == dap' = dap
on_pause(t) == dap' = [dap EXCEPT !.handles = <<>>]
Stop(t, why) ==
    /\ stops < MaxStops /\ stops' = stops + 1
    /\ phase' = "paused" /\ on_pause(t)
    /\ trace' = [what |-> "stopped", why |-> why, t |-> t, frame |-> Top(t).id, line |-> At(t).line,
                 told |-> told, ids |-> Ids(t)]
    /\ UNCHANGED <<frames, current, active, told, asked, caught, nextFrame>>
debug_checkpoint(t) ==
    /\ phase = "run" /\ current = t /\ frames[t] # <<>> /\ ~resumed /\ debug.on /\ ~Unwinding(t)
    /\ should_pause(t) = TRUE
    /\ debug' = [debug EXCEPT !.focus = Depth(t)] /\ resumed' = TRUE
    /\ Stop(t, IF At(t).line \in debug.breaks /\ StartsLine(t) THEN "breakpoint" ELSE "step")

Executes(t) == phase = "run" /\ current = t /\ frames[t] # <<>> /\ ~Unwinding(t) /\ (should_pause(t) => resumed)
Advance(fs) == [fs EXCEPT ![Len(fs)].ip = @ + 1]
Run(t, fs) ==
    /\ frames' = [frames EXCEPT ![t] = fs]
    /\ resumed' = FALSE /\ trace' = [what |-> "ran", t |-> t, line |-> At(t).line, start |-> StartsLine(t), paused |-> resumed]
    /\ UNCHANGED <<phase, dap, debug, told, asked, stops>>
ExecOp(t) == Executes(t) /\ At(t).op = "op" /\ Run(t, Advance(frames[t])) /\ UNCHANGED <<current, active, caught, nextFrame>>
ExecCall(t) ==
    /\ Executes(t) /\ At(t).op \in {"try", "call"}
    /\ Run(t, Append(Advance(frames[t]), Frame(At(t).to, nextFrame, At(t).op = "try")))
    /\ nextFrame' = nextFrame + 1 /\ UNCHANGED <<current, active, caught>>
ExecReturn(t) ==
    /\ Executes(t) /\ At(t).op = "ret"
    /\ Run(t, Front(frames[t])) /\ UNCHANGED <<current, active, caught, nextFrame>>
\* Waiting lets the other tasks run; here they come back in any order.
ExecPark(t) ==
    /\ Executes(t) /\ At(t).op = "park" /\ Run(t, Advance(frames[t]))
    /\ current' \in {u \in DbgTasks : frames'[u] # <<>>} /\ UNCHANGED <<active, caught, nextFrame>>
SwitchTask ==
    /\ phase = "run" /\ frames[current] = <<>>
    /\ current' \in {u \in DbgTasks : frames[u] # <<>>}
    /\ UNCHANGED <<phase, dap, debug, frames, active, resumed, told, asked, stops, caught, nextFrame, trace>>
\* A raise leaves the frames as they are until the catch below has looked.
ExecRaise(t) ==
    /\ Executes(t) /\ At(t).op = "raise"
    /\ active' = "thrown" /\ resumed' = FALSE
    /\ frames' = [frames EXCEPT ![t] = Advance(@)]
    /\ trace' = [what |-> "ran", t |-> t, line |-> At(t).line, start |-> StartsLine(t), paused |-> resumed]
    /\ UNCHANGED <<phase, dap, debug, current, told, asked, stops, caught, nextFrame>>
debug_check_throw(t) ==
    /\ phase = "run" /\ current = t /\ frames[t] # <<>> /\ Unwinding(t) /\ debug.onThrow /\ ~debug.at_throw /\ ~resumed
    /\ debug' = [debug EXCEPT !.at_throw = TRUE, !.focus = Depth(t)] /\ resumed' = TRUE
    /\ Stop(t, "exception")
\* The catch: what the handler is given is what was raised.
do_catch(t) ==
    /\ phase = "run" /\ current = t /\ frames[t] # <<>> /\ Top(t).catching /\ Unwinding(t)
    /\ (debug.onThrow => resumed)
    /\ caught' = IF active # "none" THEN active ELSE IF asked.failed THEN "spoiled" ELSE "materialized"
    /\ active' = "none" /\ resumed' = FALSE /\ asked' = [asked EXCEPT !.failed = FALSE]
    /\ frames' = [frames EXCEPT ![t] = Front(@)]
    /\ trace' = [what |-> "caught"]
    /\ UNCHANGED <<phase, dap, debug, current, told, stops, nextFrame>>
Finish ==
    /\ phase = "run" /\ \A t \in DbgTasks : frames[t] = <<>>
    /\ phase' = "over" /\ trace' = [what |-> "terminated", ok |-> TRUE]
    /\ UNCHANGED <<dap, debug, frames, current, active, resumed, told, asked, stops, caught, nextFrame>>
----------------------------------------------------------------------------
(* Paused: the client's requests and the user's commands.                   *)
Paused == phase = "paused"
arm_step(mode) == [debug EXCEPT !.at_throw = FALSE, !.step = mode, !.depth = IF mode = "none" THEN 0 ELSE Depth(current)]
apply_debug_action(mode) ==
    /\ Paused /\ phase' = "run" /\ debug' = arm_step(mode)
    /\ asked' = [asked EXCEPT !.mode = mode, !.t = current, !.ids = Ids(current), !.frame = Top(current).id]
    /\ trace' = [what |-> "resumed"]
    /\ UNCHANGED <<dap, frames, current, active, resumed, told, stops, caught, nextFrame>>
Minted == Len(dap.handles)
Scopes(i) ==
    /\ Paused /\ Minted < MaxHandles
    /\ dap' = [dap EXCEPT !.handles = Append(@, [frame |-> i, path |-> <<>>, stop |-> stops])]
    /\ trace' = [what |-> "scopes"]
    /\ UNCHANGED <<phase, debug, frames, current, active, resumed, told, asked, stops, caught, nextFrame>>
\* The variables behind a handle, each that can be opened with one of its own.
Variables(h) ==
    /\ Paused /\ Minted < MaxHandles
    /\ dap' = [dap EXCEPT !.handles = Append(@, [@[h] EXCEPT !.path = Append(@, 1)])]
    /\ trace' = [what |-> "variables", frame |-> dap.handles[h].frame, stop |-> dap.handles[h].stop]
    /\ UNCHANGED <<phase, debug, frames, current, active, resumed, told, asked, stops, caught, nextFrame>>
\* An expression runs beside the paused frames; what it raises is dropped
\* with whatever was being raised.
debug_eval(ok) ==
    /\ Paused
    /\ active' = IF ok THEN active ELSE "none"
    /\ asked' = [asked EXCEPT !.failed = @ \/ (~ok /\ active # "none")]
    /\ trace' = [what |-> "evaluated"]
    /\ UNCHANGED <<phase, dap, debug, frames, current, resumed, told, stops, caught, nextFrame>>
\* The command loop's own: breakpoints while paused, and the focus.
set_breakpoint(line, add) ==
    /\ Paused
    /\ debug' = [debug EXCEPT !.breaks = IF add THEN @ \cup {line} ELSE @ \ {line}]
    /\ told' = IF add THEN told \cup {line} ELSE told \ {line}
    /\ trace' = [what |-> "break"]
    /\ UNCHANGED <<phase, dap, frames, current, active, resumed, asked, stops, caught, nextFrame>>
debug_move_focus(up) ==
    /\ Paused
    /\ debug' = [debug EXCEPT !.focus = IF up THEN IF @ > 1 THEN @ - 1 ELSE 1 ELSE IF @ < Depth(current) THEN @ + 1 ELSE Depth(current)]
    /\ trace' = [what |-> "focus"]
    /\ UNCHANGED <<phase, dap, frames, current, active, resumed, told, asked, stops, caught, nextFrame>>
exec_command ==
    \/ \E m \in {"none", "into", "over", "out"} : apply_debug_action(m)
    \/ \E b \in BOOLEAN : debug_eval(b) \/ debug_move_focus(b) \/ \E l \in Lines : set_breakpoint(l, b)
----------------------------------------------------------------------------
BInit ==
    /\ phase = "configure" /\ dap = [pending |-> TRUE, handles |-> <<>>]
    /\ debug = NoDebug /\ frames = [t \in DbgTasks |-> <<>>] /\ current = MainTask
    /\ active = "none" /\ resumed = FALSE /\ told = {} /\ stops = 0 /\ caught = "none" /\ nextFrame = 1
    /\ asked = [mode |-> "none", t |-> MainTask, ids |-> {}, frame |-> 0, failed |-> FALSE] /\ trace = [what |-> "start"]
BNext ==
    \/ \E e, x \in BOOLEAN : Launch(e, x)
    \/ LaunchFails \/ ConfigurationDone \/ Disconnect \/ SwitchTask \/ Finish
    \/ \E ls \in {{}, {1}, {6, 7}} : dap_set_breakpoints(ls)
    \/ \E t \in DbgTasks : \/ debug_checkpoint(t) \/ ExecOp(t) \/ ExecCall(t) \/ ExecReturn(t) \/ ExecPark(t)
                           \/ ExecRaise(t) \/ debug_check_throw(t) \/ do_catch(t)
    \/ exec_command
    \/ \E i \in DOMAIN frames[current] : Scopes(i)
    \/ \E h \in DOMAIN dap.handles : Variables(h)
DebugSpec == BInit /\ [][BNext]_bvars

Stopped == trace.what = "stopped"
(* A step that stops in the task it was asked in lands where it was asked   *)
(* to: over, in the frame it began in as long as that lives, then in a      *)
(* caller of it or in the next callee of its caller; out, in a caller only, *)
(* whatever is called, raised, caught or awaited meanwhile.                 *)
StepLandsWhereAsked ==
    Stopped /\ trace.why = "step" /\ asked.mode \in {"over", "out"} /\ trace.t = asked.t =>
        IF asked.frame \in trace.ids THEN asked.mode = "over" /\ trace.frame = asked.frame
        ELSE \/ trace.frame \in asked.ids
             \/ asked.mode = "over" /\ Cardinality(trace.ids) = Cardinality(asked.ids)
(* A line the client was told has a breakpoint, since the program was       *)
(* launched, never starts without a stop.                                   *)
BreakpointsStop ==
    trace.what = "ran" /\ trace.line \in told /\ trace.start => trace.paused
(* What the user looks at or evaluates while an exception is on its way     *)
(* does not change what its handler is given, unless an evaluation fails.   *)
CaughtIsThrown == caught # "materialized"
(* A variable handle is only ever followed in the stop it was made for.     *)
HandlesAreOfThisStop == trace.what = "variables" => trace.stop = stops
=============================================================================
