----------------------------- MODULE ClassBody -----------------------------
(* Class bodies.  `Name <- { ... }` compiles to DefineClass, which registers *)
(* the class and leaves its name in the VM's pending_class_def, and          *)
(* ExecuteBlockWithSelf, which hands that name to the body's frame.  A mixin *)
(* requirement checked at the end of the body may fail, and the frame then   *)
(* unregisters the class.  `Name <-- { ... }` reopens a class with           *)
(* ExecuteBlockWithSelf alone.  Tasks may be switched between instructions,  *)
(* and cancelled at the checkpoint of either.                                *)
EXTENDS Naturals

CONSTANTS BTasks,     \* the tasks that run class bodies
          BNames,     \* class names
          MaxDefines, \* bound on DefineClass instructions
          MayCancel   \* whether a task may be cancelled between the two instructions

VARIABLES globals,    \* class name -> the task that defined it, or "none"
          pending,    \* pending_class_def
          body,       \* task -> the class body it is in
          defines
bodyVars == <<globals, pending, body, defines>>

Outside == [at |-> "none", name |-> "-", unreg |-> "-", new |-> FALSE, defer |-> FALSE]
Named(n, fresh) == [at |-> "named", name |-> n, unreg |-> "-", new |-> fresh, defer |-> FALSE]

BodyInit ==
    /\ globals = [n \in BNames |-> "none"]
    /\ pending = "-"
    /\ body = [t \in BTasks |-> Outside]
    /\ defines = 0

DefineClass(t, n) ==
    /\ body[t].at = "none" /\ globals[n] = "none" /\ defines < MaxDefines
    /\ globals' = [globals EXCEPT ![n] = t]
    /\ pending' = n
    /\ body' = [body EXCEPT ![t] = Named(n, TRUE)]
    /\ defines' = defines + 1

ReopenClass(t, n) ==
    /\ body[t].at = "none" /\ globals[n] # "none"
    /\ body' = [body EXCEPT ![t] = Named(n, FALSE)]
    /\ UNCHANGED <<globals, pending, defines>>

CopyPending(t) == body' = [body EXCEPT ![t].at = "in", ![t].unreg = pending] /\ UNCHANGED pending
TakePending(t) == body' = [body EXCEPT ![t].at = "in", ![t].unreg = pending] /\ pending' = "-"

ExecuteBlockWithSelf(t) ==
    /\ body[t].at = "named"
    /\ TakePending(t)
    /\ UNCHANGED <<globals, defines>>

\* mix: of a mixin with assertMeetsRequirements: puts a call on the frame's defers
mix(t) ==
    /\ body[t].at = "in"
    /\ body' = [body EXCEPT ![t].defer = TRUE]
    /\ UNCHANGED <<globals, pending, defines>>

BodyEnds(t) ==
    /\ body[t].at = "in"
    /\ body' = [body EXCEPT ![t] = Outside]
    /\ UNCHANGED <<globals, pending, defines>>

\* A deferred requirement fails: the frame's class, if it has one, is unregistered.
run_frame_defers(t) ==
    /\ body[t].at = "in" /\ body[t].defer
    /\ globals' = [n \in BNames |-> IF n = body[t].unreg THEN "none" ELSE globals[n]]
    /\ body' = [body EXCEPT ![t].at = "failed"]
    /\ UNCHANGED <<pending, defines>>

\* The error leaves the body, or the task is cancelled before the body's block started.
Unwinds(t) ==
    /\ body[t].at = "failed" \/ (MayCancel /\ body[t].at = "named")
    /\ body' = [body EXCEPT ![t] = Outside]
    /\ UNCHANGED <<globals, pending, defines>>

BodyNext == \E t \in BTasks :
    \/ \E n \in BNames : DefineClass(t, n) \/ ReopenClass(t, n)
    \/ ExecuteBlockWithSelf(t) \/ mix(t) \/ BodyEnds(t) \/ run_frame_defers(t) \/ Unwinds(t)
BodySpec == BodyInit /\ [][BodyNext]_bodyVars

(* A class body that fails its requirements unregisters the class it was    *)
(* defining and no other, and a failing body that only reopens a class      *)
(* leaves every class registered.                                           *)
FailureUnregistersOwn == \A t \in BTasks : body[t].at = "failed" =>
    body[t].unreg = IF body[t].new THEN body[t].name ELSE "-"
=============================================================================
