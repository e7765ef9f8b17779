------------------------------- MODULE Unwind -------------------------------
(* Unwinding in the interpreter: frames and operand stacks, the nested      *)
(* dispatch loops of the natives that run blocks (`catch:`, `finally:` and  *)
(* compiled methods), and the five ways a block ends early: a throw, an     *)
(* error raised by the runtime, `^^`, a cancel and a requested exit.        *)
(* Sources: vm/exec.rs (MethodReturn, dispatch_send_rooted), vm/call.rs     *)
(* (run_nested, execute_block, start_block), runtime/block.rs (do_catch,    *)
(* do_catch_finally), codegen/invoke.rs (finish_frame), vm/error.rs         *)
(* (quoinerror_to_value).                                                   *)
(*                                                                          *)
(* Each task has its own frames and operand stack; `active`, the exception  *)
(* in flight, is one slot for the whole VM.  Operands are counted, not      *)
(* named: `ops` is how many the code of a frame has pushed.                 *)
EXTENDS Integers, Sequences, SequencesExt

CONSTANTS UTasks,
          ThrowValues, \* what guest code throws
          MaxIds,      \* bound: frames ever started, by all tasks
          MaxNatives,  \* bound: nested natives of a task
          MaxRaises    \* bound: errors ever raised, by all tasks

NONE == "none"
Arith == "arith"               \* the object a runtime error is turned into
Strings == {"thrown", "nlr"}   \* Display of Thrown and of NonLocalReturn
Values == ThrowValues \cup {Arith}
AnyValue == Values \cup Strings

VARIABLES frames,  \* task -> <<[id, home, base, ops], ...>>
          natives, \* task -> the activations of catch:, finally: and compiled methods, innermost last
          height,  \* task -> operands on its stack
          ctl,     \* task -> what its innermost loop is doing, see Run, Ok, Err
          active,  \* exceptions.active
          ids,     \* task -> frames started
          raises,  \* task -> errors raised
          given,   \* task -> <<raised, seen>> of the last handler entered, or of its end
          taken,   \* task -> its cancel was raised
          target,  \* task -> aot.nlr_target, 0 is none
          past,    \* task -> what happened in it: "exit", and see Loose, Crossed, Masked
          over     \* task -> "no", "ok", "failed", "cancelled", "exit"

unwindVars == <<frames, natives, height, ctl, active, ids, raises, given, taken, target, past, over>>

Run    == [k |-> "run", v |-> NONE]
Ok     == [k |-> "ok", v |-> NONE]      \* execute_block has a result for its native
Err(k, v) == [k |-> k, v |-> v]         \* k: "thrown", "structured", "nlr", "cancelled", "exit"
IsErr(c) == c.k \notin {"run", "ok"}

Top(t)   == Last(frames[t])
Inner(t) == Last(natives[t])
Frame(id, home, base) == [id |-> id, home |-> home, base |-> base, ops |-> 0]
(* A frame that pushed one operand more.                                    *)
Pushed(fs) == [fs EXCEPT ![Len(fs)].ops = @ + 1]

UnwindInit ==
    /\ frames = [t \in UTasks |-> <<Frame(1, 1, 0)>>]
    /\ natives = [t \in UTasks |-> <<>>]
    /\ height = [t \in UTasks |-> 0]
    /\ ctl = [t \in UTasks |-> Run]
    /\ active = NONE
    /\ ids = [t \in UTasks |-> 1] /\ raises = [t \in UTasks |-> 0]
    /\ given = [t \in UTasks |-> <<NONE, NONE>>]
    /\ taken = [t \in UTasks |-> FALSE]
    /\ target = [t \in UTasks |-> 0]
    /\ past = [t \in UTasks |-> {}]
    /\ over = [t \in UTasks |-> "no"]

(* A task is preempted between instructions only, and runs no more once     *)
(* another has requested the exit.                                          *)
Turn(t)    == over[t] = "no" /\ \A u \in UTasks \ {t} :
                  (ctl[u] = Run \/ over[u] # "no") /\ "exit" \notin past[u]
Running(t) == Turn(t) /\ ctl[t] = Run
Total(f)   == FoldFunction(LAMBDA n, m : n + m, 0, f)
Fresh      == Total(ids) < MaxIds
(* What a task went through, for the properties.                            *)
Note(t, what) == past' = [past EXCEPT ![t] = @ \cup what]
Only(what, if) == IF if THEN {what} ELSE {}

-----------------------------------------------------------------------------
(* The loops.  A value was pushed on the operand stack and `fs` are the     *)
(* frames left: run_nested ends at its baseline and execute_block pops the  *)
(* value, the outermost loop ends without frames, and otherwise the value   *)
(* is an operand of the top frame.                                          *)
Arrive(t, fs, h, ns) ==
    /\ natives' = [natives EXCEPT ![t] = ns]
    /\ IF ns # <<>> /\ Len(fs) <= Last(ns).loop
       THEN /\ ctl' = [ctl EXCEPT ![t] = Ok] /\ height' = [height EXCEPT ![t] = h - 1]
            /\ frames' = [frames EXCEPT ![t] = fs] /\ UNCHANGED over
       ELSE IF fs = <<>>
       THEN /\ over' = [over EXCEPT ![t] = "ok"] /\ ctl' = [ctl EXCEPT ![t] = Run]
            /\ frames' = [frames EXCEPT ![t] = fs] /\ height' = [height EXCEPT ![t] = 0]
       ELSE /\ ctl' = [ctl EXCEPT ![t] = Run] /\ height' = [height EXCEPT ![t] = h]
            /\ frames' = [frames EXCEPT ![t] = Pushed(fs)] /\ UNCHANGED over

(* nlr_must_propagate: a `^^` goes on past a loop whose baseline it passed, *)
(* and past every loop while its home is a live compiled method.            *)
NlrArrives(t, fs, h, ns, tg) ==
    IF ns # <<>> /\ (Len(fs) < Last(ns).loop \/ tg # 0)
    THEN /\ ctl' = [ctl EXCEPT ![t] = Err("nlr", "nlr")]
         /\ frames' = [frames EXCEPT ![t] = fs] /\ height' = [height EXCEPT ![t] = h]
         /\ natives' = [natives EXCEPT ![t] = ns] /\ UNCHANGED over
    ELSE Arrive(t, fs, h, ns)

(* What a handler, a failed task or a printed trace shows for error c.      *)
Materialised(c) == IF c.k = "structured" THEN c.v ELSE c.k
exception_value(c) == IF active # NONE THEN active ELSE Materialised(c)

(* The native on top answers r to the send that called it, with h operands  *)
(* on the stack: dispatch_send_rooted.  An Ok result is put over the window *)
(* of receiver and arguments at `recv`; an error other than `^^` drops the  *)
(* window.                                                                  *)
(* Mutant: the result is left above the window.                             *)
ReseatedAbove(h, recv) == h + 1
Reseated(h, recv) == IF h + 1 > recv THEN (IF h < recv THEN h ELSE recv) + 1 ELSE h + 1
NativeAnswersWith(t, r, fs, h, tg) ==
    LET ns == Front(natives[t])  recv == Inner(t).recv IN
    IF r = Ok THEN Arrive(t, fs, Reseated(h, recv), ns)
    ELSE IF r.k = "nlr" THEN NlrArrives(t, fs, h, ns, tg)
    ELSE /\ ctl' = [ctl EXCEPT ![t] = r] /\ natives' = [natives EXCEPT ![t] = ns]
         /\ height' = [height EXCEPT ![t] = IF h < recv THEN h ELSE recv]
         /\ frames' = [frames EXCEPT ![t] = fs] /\ UNCHANGED over

NativeAnswers(t, r, fs, h) == NativeAnswersWith(t, r, fs, h, target[t])

(* execute_block from the native on top: a frame for a block literal of the *)
(* method the native was called from, and a loop with the present baseline. *)
ExecuteBlock(t, phase, hold, fs, h) ==
    /\ Fresh
    /\ ids' = [ids EXCEPT ![t] = @ + 1]
    /\ frames' = [frames EXCEPT ![t] = Append(fs, Frame(ids[t] + 1, Inner(t).home, h))]
    /\ natives' = [natives EXCEPT ![t][Len(natives[t])] =
                     [@ EXCEPT !.phase = phase, !.hold = hold, !.loop = Len(fs)]]
    /\ height' = [height EXCEPT ![t] = h]
    /\ ctl' = [ctl EXCEPT ![t] = Run]
    /\ UNCHANGED over

-----------------------------------------------------------------------------
(* Instructions.                                                            *)

PushOperand(t) ==
    /\ Running(t) /\ Top(t).ops = 0
    /\ frames' = [frames EXCEPT ![t] = Pushed(@)]
    /\ height' = [height EXCEPT ![t] = @ + 1]
    /\ UNCHANGED <<natives, ctl, active, ids, raises, given, taken, target, past, over>>

(* A send to an interpreted method: the window is consumed before the       *)
(* frame starts; a method is its own home.                                  *)
start_block_as_method(t) ==
    /\ Running(t) /\ Fresh
    /\ ids' = [ids EXCEPT ![t] = @ + 1]
    /\ frames' = [frames EXCEPT ![t] = Append(@, Frame(ids[t] + 1, ids[t] + 1, height[t]))]
    /\ UNCHANGED <<natives, height, ctl, active, raises, given, taken, target, past, over>>

(* catch:, catch:finally: and finally: with literal blocks, or with a block *)
(* that outlived its method.  `catches` is what the handler's type admits.  *)
CatchSend(t) ==
    /\ Running(t) /\ Fresh /\ Len(natives[t]) < MaxNatives
    /\ \E catches \in {AnyValue, {Arith}, {}}, fin \in BOOLEAN,
          home \in {Top(t).home} \cup (IF ids[t] = 2 THEN {2} ELSE {}) :
          /\ catches = {} => fin
          /\ ids' = [ids EXCEPT ![t] = @ + 1]
          /\ natives' = [natives EXCEPT ![t] = Append(@,
                [id |-> 0, fin |-> fin, catches |-> catches, home |-> Top(t).home, initial |-> Len(frames[t]),
                 loop |-> Len(frames[t]), recv |-> height[t], phase |-> "protected", hold |-> Ok])]
          /\ height' = [height EXCEPT ![t] = @ + 2]
          /\ frames' = [frames EXCEPT ![t] = Append(@, Frame(ids[t] + 1, home, height[t] + 2))]
    /\ UNCHANGED <<ctl, active, raises, given, taken, target, past, over>>

(* A send to a compiled method that runs a block of its own: no frame, but  *)
(* a mark with the id blocks made there carry as their home, and a window   *)
(* of slots where the receiver and arguments were.                          *)
CompiledSend(t) ==
    /\ Running(t) /\ Fresh /\ Len(natives[t]) < MaxNatives
    /\ LET id == ids[t] + 1 IN
       /\ ids' = [ids EXCEPT ![t] = id]
       /\ natives' = [natives EXCEPT ![t] = Append(@,
             [id |-> -id, fin |-> FALSE, catches |-> {}, home |-> -id, initial |-> Len(frames[t]),
              loop |-> Len(frames[t]), recv |-> height[t], phase |-> "compiled", hold |-> Ok])]
       /\ height' = [height EXCEPT ![t] = @ + 2]
       /\ frames' = [frames EXCEPT ![t] = Append(@, Frame(id, -id, height[t] + 2))]
    /\ UNCHANGED <<ctl, active, raises, given, taken, target, past, over>>

Return(t) ==
    /\ Running(t)
    /\ Arrive(t, Front(frames[t]), Top(t).base + 1, natives[t])
    /\ UNCHANGED <<active, ids, raises, given, taken, target, past>>

(* `^^`: frames are popped up to and with the home, or down to the mark of  *)
(* a compiled home; a home that returned long ago is not found and every    *)
(* frame goes.                                                              *)
HomeAt(t) == {i \in 1..Len(frames[t]) : frames[t][i].id = Top(t).home}
MarkAt(t) == {n \in 1..Len(natives[t]) : natives[t][n].id = Top(t).home}
MethodReturn(t) ==
    /\ Running(t)
    /\ \/ \E n \in MarkAt(t) :
             /\ target' = [target EXCEPT ![t] = Top(t).home]
             /\ NlrArrives(t, SubSeq(frames[t], 1, natives[t][n].initial), natives[t][n].recv + 1,
                           natives[t], Top(t).home)
       \/ \E i \in HomeAt(t) :
             /\ UNCHANGED target
             /\ NlrArrives(t, SubSeq(frames[t], 1, i - 1), frames[t][i].base + 1, natives[t], target[t])
       \/ /\ MarkAt(t) = {} /\ HomeAt(t) = {} /\ UNCHANGED target
          /\ NlrArrives(t, <<>>, height[t] + 1, natives[t], target[t])
    /\ UNCHANGED <<active, ids, raises, given, taken, past>>

Raised(t, c) ==
    /\ Total(raises) < MaxRaises /\ raises' = [raises EXCEPT ![t] = @ + 1]
    /\ ctl' = [ctl EXCEPT ![t] = c]
    /\ UNCHANGED <<frames, natives, height, ids, given, target, over>>
Throw(t) ==
    /\ Running(t)
    /\ \E v \in ThrowValues : active' = v /\ Raised(t, Err("thrown", v))
    /\ UNCHANGED <<taken, past>>
(* The runtime's own errors do not touch `active`.                          *)
RuntimeError(t) ==
    /\ Running(t)
    /\ Raised(t, Err("structured", Arith))
    /\ UNCHANGED <<active, taken, past>>
(* take_cancellation at a checkpoint, once.                                 *)
CancelRaised(t) ==
    /\ Running(t) /\ ~taken[t]
    /\ taken' = [taken EXCEPT ![t] = TRUE]
    /\ Raised(t, Err("cancelled", "cancelled"))
    /\ UNCHANGED <<active, past>>

(* Runtime.exit: also sets requested_exit, which stops every other task.    *)
ExitRaised(t) ==
    /\ Running(t)
    /\ Raised(t, Err("exit", "exit")) /\ Note(t, {"exit"})
    /\ UNCHANGED <<active, taken>>

-----------------------------------------------------------------------------
(* The natives.                                                             *)

(* unwind(vm, initial): pops frames, never pushes; operands stay.           *)
Unwound(t) == SubSeq(frames[t], 1, IF Len(frames[t]) < Inner(t).initial THEN Len(frames[t]) ELSE Inner(t).initial)

(* Nothing waits for the error: the task ends with it.                      *)
Uncaught(t) ==
    /\ Turn(t) /\ IsErr(ctl[t]) /\ natives[t] = <<>>
    /\ over' = [over EXCEPT ![t] = IF ctl[t].k \in {"cancelled", "exit"} THEN ctl[t].k ELSE "failed"]
    /\ given' = [given EXCEPT ![t] = IF ctl[t].k \in {"cancelled", "exit"} THEN @
                                     ELSE <<ctl[t].v, exception_value(ctl[t])>>]
    /\ Note(t, Only("loose", ctl[t].k = "thrown"))
    /\ ctl' = [ctl EXCEPT ![t] = Run] /\ frames' = [frames EXCEPT ![t] = <<>>]
    /\ UNCHANGED <<natives, height, active, ids, raises, taken, target>>

ProtectedOk(t) ==
    /\ Turn(t) /\ ctl[t] = Ok /\ Inner(t).phase = "protected"
    /\ IF Inner(t).fin THEN ExecuteBlock(t, "fin", Ok, frames[t], height[t] + 1)
       ELSE NativeAnswers(t, Ok, frames[t], height[t]) /\ UNCHANGED ids
    /\ UNCHANGED <<active, raises, given, taken, target, past>>

(* Mutant: a catch-all handler may take a cancel.                           *)
UncatchableNothing(t) == FALSE
(* A cancel, an exit and a `^^` on its way to a compiled method are never   *)
(* offered to the handlers, and what their finally block ends with is       *)
(* thrown away.                                                             *)
Uncatchable(t) == ctl[t].k \in {"cancelled", "exit"} \/ (ctl[t].k = "nlr" /\ target[t] # 0)
ProtectedForced(t) ==
    /\ Turn(t) /\ IsErr(ctl[t]) /\ natives[t] # <<>> /\ Inner(t).phase = "protected" /\ Uncatchable(t)
    /\ IF Inner(t).fin THEN ExecuteBlock(t, "forced", ctl[t], Unwound(t), height[t])
       ELSE NativeAnswers(t, ctl[t], Unwound(t), height[t]) /\ UNCHANGED ids
    /\ UNCHANGED <<active, raises, given, taken, target, past>>

(* Mutant: the exception stays in flight.                                   *)
ResolvedNot == UNCHANGED active
(* run_first_matching resolves the exception before the handler runs.       *)
Resolved == active' = NONE
ProtectedErr(t) ==
    /\ Turn(t) /\ IsErr(ctl[t]) /\ natives[t] # <<>> /\ Inner(t).phase = "protected" /\ ~Uncatchable(t)
    /\ LET exc == exception_value(ctl[t]) IN
       IF exc \in Inner(t).catches
       THEN /\ ExecuteBlock(t, "handler", ctl[t], Unwound(t), height[t])
            /\ Resolved
            /\ given' = [given EXCEPT ![t] = <<ctl[t].v, exc>>]
            /\ Note(t, Only("crossed", ctl[t].k = "nlr"))
       ELSE /\ IF Inner(t).fin THEN ExecuteBlock(t, "fin", ctl[t], Unwound(t), height[t])
               ELSE NativeAnswers(t, ctl[t], Unwound(t), height[t]) /\ UNCHANGED ids
            /\ Note(t, Only("loose", Inner(t).fin /\ ctl[t].k = "thrown"))
            /\ UNCHANGED <<active, given>>
    /\ UNCHANGED <<raises, taken, target>>

HandlerEnds(t) ==
    /\ Turn(t) /\ ctl[t] # Run /\ natives[t] # <<>> /\ Inner(t).phase = "handler"
    /\ IF Inner(t).fin
       THEN ExecuteBlock(t, "fin", ctl[t], Unwound(t), IF ctl[t] = Ok THEN height[t] + 1 ELSE height[t])
       ELSE NativeAnswers(t, ctl[t], Unwound(t), height[t]) /\ UNCHANGED ids
    /\ Note(t, Only("loose", Inner(t).fin /\ ctl[t].k = "thrown"))
    /\ UNCHANGED <<active, raises, given, taken, target>>

(* finally ended, after a result that may be overridden by its own error,   *)
(* or by a `^^` that left the protection scope.                             *)
FinallyEnds(t) ==
    /\ Turn(t) /\ ctl[t] # Run /\ natives[t] # <<>> /\ Inner(t).phase = "fin"
    /\ IF Len(frames[t]) < Inner(t).loop THEN NativeAnswers(t, ctl[t], frames[t], height[t])
       ELSE IF Inner(t).hold = Ok
       THEN NativeAnswers(t, ctl[t], frames[t], height[t] - 1)
       ELSE NativeAnswers(t, IF ctl[t] = Ok THEN Inner(t).hold ELSE ctl[t], frames[t], height[t])
    /\ Note(t, Only("masked", ctl[t] # Ok /\ Inner(t).hold.k = "cancelled") \cup
               Only("crossed", ctl[t] # Ok /\ Inner(t).hold.k = "nlr"))
    /\ UNCHANGED <<active, ids, raises, given, taken, target>>
ForcedFinallyEnds(t) ==
    /\ Turn(t) /\ ctl[t] # Run /\ natives[t] # <<>> /\ Inner(t).phase = "forced"
    /\ NativeAnswers(t, Inner(t).hold, Unwound(t), height[t])
    /\ Note(t, Only("masked", ctl[t].k = "cancelled" /\ Inner(t).hold.k # "cancelled") \cup
               Only("crossed", ctl[t] # Ok /\ Inner(t).hold.k = "nlr") \cup Only("loose", ctl[t].k = "thrown"))
    /\ UNCHANGED <<active, ids, raises, given, taken, target>>

(* finish_frame: a `^^` whose home this invocation is becomes its result;   *)
(* one that passes leaves the stack alone, anything else drops the window.  *)
CompiledEnds(t) ==
    /\ Turn(t) /\ ctl[t] # Run /\ natives[t] # <<>> /\ Inner(t).phase = "compiled"
    /\ IF ctl[t].k = "nlr"
       THEN IF target[t] = Inner(t).id
            THEN /\ target' = [target EXCEPT ![t] = 0]
                 /\ NativeAnswersWith(t, Ok, frames[t], height[t] - 1, 0)
            ELSE NativeAnswers(t, ctl[t], frames[t], height[t]) /\ UNCHANGED target
       ELSE NativeAnswers(t, ctl[t], frames[t], Inner(t).recv) /\ UNCHANGED target
    /\ UNCHANGED <<active, ids, raises, given, taken, past>>

UnwindNext == \E t \in UTasks :
    \/ PushOperand(t) \/ start_block_as_method(t) \/ CatchSend(t) \/ CompiledSend(t) \/ Return(t) \/ MethodReturn(t)
    \/ Throw(t) \/ RuntimeError(t) \/ CancelRaised(t) \/ ExitRaised(t)
    \/ Uncaught(t) \/ ProtectedOk(t) \/ ProtectedForced(t) \/ ProtectedErr(t)
    \/ HandlerEnds(t) \/ FinallyEnds(t) \/ ForcedFinallyEnds(t) \/ CompiledEnds(t)
UnwindSpec == UnwindInit /\ [][UnwindNext]_unwindVars

-----------------------------------------------------------------------------
Loose      == \E t \in UTasks : "loose" \in past[t]   \* a throw ended a task or a forced finally, or met a finally first
Crossed(t) == "crossed" \in past[t]   \* a handler took a `^^`, or a finally failed under one
Masked(t)  == "masked" \in past[t]    \* a finally took the place of a cancel

(* However control reached a frame - a result, a `^^` through natives, a    *)
(* handler's value, an error that dropped its window - its operand stack    *)
(* holds what its code pushed, unless a handler took a `^^` in flight or a  *)
(* finally block failed under one.                                          *)
StackBalanced == \A t \in UTasks :
    (over[t] = "no" /\ ctl[t] = Run /\ ~Crossed(t)) => height[t] = Top(t).base + Top(t).ops

(* A handler, and the handle of a failed task, get the error that was       *)
(* raised in their own protected block or task.                             *)
HandlerGetsOwnError == \A t \in UTasks : given[t][1] = given[t][2]

(* What holds of it with several tasks and the one slot: as long as no      *)
(* throw ended a task uncaught and none waited for a finally block, every   *)
(* handler gets the error of its own block.                                 *)
ThrowReachesHandler == Loose \/ HandlerGetsOwnError

(* A raised cancel ends its task as cancelled, whatever handlers and        *)
(* cleanup do on the way, except where a finally block took its place.      *)
CancelWins == \A t \in UTasks : (taken[t] /\ over[t] # "no") => over[t] = "cancelled" \/ Masked(t)
=============================================================================
