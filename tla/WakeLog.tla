------------------------------ MODULE WakeLog ------------------------------
(* Record and replay of the scheduler's wake decisions (replay.rs and the   *)
(* hooks of runner_driver.rs).  One process records its driver runs, and a  *)
(* second replays them over real completions that arrive when they like:    *)
(* picks and preemptions are forced from the log, early completions held    *)
(* back until the log delivers them.                                        *)
EXTENDS Integers, Sequences, FiniteSets, SequencesExt

CONSTANTS Tasks,         \* 0..n; task 0 is main
          Programs,      \* what the tasks of a driver run may do
          Batches        \* instructions between two yield boundaries
VARIABLES process,       \* "record" or "replay"
          plan, batch,   \* the programs of the driver runs and the cadence
          stress,        \* the seeded scheduler picks and preempts at random
          file, pending, \* the log, and its sections not yet claimed
          drive, world, replay, outcome
wlvars == <<process, plan, batch, stress, file, pending, drive, world, replay, outcome>>

Pick(t)     == [k |-> "P", t |-> t]
Rotate(b)   == [k |-> "R", preempt |-> b]
wake_event_for(f) ==
    IF f.k = "io" THEN [k |-> "I", t |-> f.t, aborted |-> f.aborted]
    ELSE [k |-> "D", t |-> f.t, target |-> f.target, epoch |-> f.epoch]
is_delivery(e) == e.k \in {"I", "D"}
----------------------------------------------------------------------------
(* The scheduler, as far as its decisions go: a task works, waits for an    *)
(* operation, cancels another or joins it with a deadline.                  *)
Fresh == [pc |-> 1, ran |-> 0, waits |-> "no", on |-> 0, epoch |-> 0, flag |-> FALSE, wake |-> "none", seen |-> <<>>]
NewDrive == [ready |-> [i \in 1..(Cardinality(Tasks) - 1) |-> i], current |-> 0, at |-> "run"]
NewWorld == [task |-> [t \in Tasks |-> Fresh], futures |-> {}]
Over(w, t) == w.task[t].waits = "over"
Push(d, t) == [d EXCEPT !.ready = Append(@, t)]
Woken(w, t, why) == [w EXCEPT !.task[t].waits = "no", !.task[t].wake = why]
Settled(w, Is(_), aborted) ==
    [w EXCEPT !.futures = {IF Is(f) THEN [f EXCEPT !.done = TRUE, !.aborted = aborted] ELSE f : f \in @}]

\* Waking a cancelled task: its operation is aborted, a join is left at once.
Nudged(s, t) ==
    IF Over(s.w, t) THEN s
    ELSE LET w == [s.w EXCEPT !.task[t].flag = TRUE]
         IN  CASE w.task[t].waits = "io" -> [s EXCEPT !.w = Settled(w, LAMBDA f : f.k = "io" /\ f.t = t, TRUE)]
               [] w.task[t].waits = "join" -> [w |-> Woken(w, t, "none"), d |-> Push(s.d, t)]
               [] OTHER -> [s EXCEPT !.w = w]
\* A finished task wakes who joins it and aborts their deadlines.
Joiners(w, t) == {u \in Tasks : w.task[u].waits = "join" /\ w.task[u].on = t}
Finished(s, t, why) ==
    LET js == Joiners(s.w, t)
        w == Settled([s.w EXCEPT !.task = [u \in Tasks |->
                CASE u = t -> [@[u] EXCEPT !.waits = "over", !.seen = Append(@, why)]
                  [] u \in js -> [@[u] EXCEPT !.waits = "no", !.wake = "joined"]
                  [] OTHER -> @[u]]],
             LAMBDA f : f.k = "deadline" /\ f.t \in js, TRUE)
    IN  [w |-> w, d |-> [s.d EXCEPT !.ready = @ \o SetToSortSeq(js, <), !.current = -1]]
deliver(s, f) ==
    IF f.k = "io"
    THEN [w |-> Woken(s.w, f.t, IF f.aborted THEN "none" ELSE "io"), d |-> Push(s.d, f.t)]
    ELSE IF s.w.task[f.t].waits = "join" /\ s.w.task[f.t].epoch = f.epoch
    THEN [w |-> Woken(s.w, f.t, "timedOut"), d |-> Push(s.d, f.t)]
    ELSE s
----------------------------------------------------------------------------
(* The log.                                                                 *)
NoCtx == [out |-> <<>>, events |-> <<>>, pos |-> 1, held |-> {}, run |-> 1]
Replaying == process = "replay"
log(ctx, e) == [ctx EXCEPT !.out = Append(@, e)]
peek == IF replay.pos <= Len(replay.events) THEN replay.events[replay.pos] ELSE [k |-> "end"]
consume(ctx) == [ctx EXCEPT !.pos = @ + 1]
\* A log is only read under the cadence it was written with.
parse_log_any(f, b) == [ok |-> TRUE, runs |-> f.runs]
parse_log(f, b) == [ok |-> f.batch = b, runs |-> f.runs]
from_env(run, sections) ==
    IF sections = <<>> THEN [NoCtx EXCEPT !.run = run] ELSE [NoCtx EXCEPT !.run = run, !.events = Head(sections)]
divergence_msg(why) == outcome' = why /\ UNCHANGED <<process, plan, batch, stress, file, pending, drive, world, replay>>
Apply(s, ctx) ==
    /\ drive' = s.d /\ world' = s.w /\ replay' = ctx
    /\ UNCHANGED <<process, plan, batch, stress, file, pending, outcome>>
State == [d |-> drive, w |-> world]
Live == outcome = "running" /\ ~Over(world, 0)     \* the driver loops until main ends
----------------------------------------------------------------------------
(* The driver loop.                                                         *)
Current == drive.current
Idle == Live /\ Current = -1 /\ drive.ready = <<>>
Chosen(i, e) ==
    Apply([State EXCEPT !.d.ready = RemoveAt(@, i), !.d.current = drive.ready[i]], log(e, Pick(drive.ready[i])))
PickReady ==
    /\ Live /\ Current = -1 /\ drive.ready # <<>> /\ ~Replaying
    /\ \E i \in DOMAIN drive.ready : (stress \/ i = 1) /\ Chosen(i, replay)
expect_pick ==
    /\ Live /\ Current = -1 /\ drive.ready # <<>> /\ Replaying
    /\ IF peek.k # "P" \/ ~ \E i \in DOMAIN drive.ready : drive.ready[i] = peek.t THEN divergence_msg("diverged")
       ELSE Chosen(CHOOSE i \in DOMAIN drive.ready : drive.ready[i] = peek.t, consume(replay))

Delivered(f, ctx) ==
    Apply(deliver([State EXCEPT !.w.futures = @ \ {f}], f), log(ctx, wake_event_for(f)))
Arrived == {f \in world.futures : f.done}
\* Recording: what is complete is delivered, at a boundary or when idle.
DeliverArrived ==
    /\ Idle \/ (Live /\ drive.at = "boundary")
    /\ ~Replaying \/ (peek.k = "end" /\ Idle)
    /\ \E f \in Arrived : Delivered(f, replay)
\* Replaying: what the log delivers next, held back or awaited.
Wanted == (Idle \/ (Live /\ drive.at = "boundary")) /\ Replaying /\ is_delivery(peek)
Matching_any == replay.held
Matching == {f \in replay.held : wake_event_for(f) = peek}
HoldBack ==
    /\ Wanted /\ Matching = {}
    /\ \E f \in Arrived : Apply([State EXCEPT !.w.futures = @ \ {f}], [replay EXCEPT !.held = @ \cup {f}])
\* Nothing left that could be what the log wants, or the log wants a pick.
Mismatch == IF Wanted THEN Matching = {} /\ world.futures = {}
            ELSE Idle /\ peek.k \in {"P", "R"} /\ (world.futures # {} \/ replay.held # {})
DeliverLogged ==
    /\ Replaying /\ (Wanted \/ Mismatch)
    /\ IF Mismatch THEN divergence_msg("diverged")
       ELSE \E f \in Matching : Delivered(f, consume([replay EXCEPT !.held = @ \ {f}]))

AtBoundary(b, ctx) ==
    Apply([State EXCEPT !.d = [(IF b THEN Push(@, Current) ELSE @) EXCEPT
                                !.current = IF b THEN -1 ELSE @, !.at = "run"]], log(ctx, Rotate(b)))
RotateOrNot ==
    /\ Live /\ drive.at = "boundary" /\ ~Replaying /\ Arrived = {}
    /\ AtBoundary(stress \/ drive.ready # <<>>, replay)
expect_rotate ==
    /\ Live /\ drive.at = "boundary" /\ Replaying /\ ~is_delivery(peek)
    /\ IF peek.k # "R" THEN divergence_msg("diverged") ELSE AtBoundary(peek.preempt, consume(replay))

(* The current task's next step.                                            *)
Me == world.task[Current]
Op == plan[replay.run][Current][Me.pc]
Next1(w) == [w EXCEPT !.task[Current].pc = @ + 1, !.task[Current].wake = "none"]
Note(w, what) == [w EXCEPT !.task[Current].seen = Append(@, what)]
Parked(w, waits, on, f) ==
    [w |-> [w EXCEPT !.task[Current].waits = waits, !.task[Current].on = on, !.task[Current].epoch = @ + 1,
                     !.futures = @ \cup {f}],
     d |-> [drive EXCEPT !.current = -1]]
Future(k, target) == [k |-> k, t |-> Current, target |-> target, epoch |-> Me.epoch + 1, done |-> FALSE, aborted |-> FALSE]
Worked(w) ==
    LET full == (Me.ran + 1) % batch = 0
    IN  [w |-> [Next1(w) EXCEPT !.task[Current].ran = @ + 1], d |-> [drive EXCEPT !.at = IF full THEN "boundary" ELSE "run"]]
Stepped ==
    CASE Me.flag -> Finished(State, Current, "cancelled")
      [] Me.wake # "none" -> [State EXCEPT !.w = Note(Next1(@), Me.wake)]
      [] Me.pc > Len(plan[replay.run][Current]) -> Finished(State, Current, "done")
      [] Op[1] = "work" -> Worked(world)
      [] Op[1] = "io" -> Parked(world, "io", 0, Future("io", 0))
      [] Op[1] = "cancel" -> [Nudged(State, Op[2]) EXCEPT !.w = Next1(@)]
      [] Op[1] = "timed" -> IF Over(world, Op[2]) THEN [State EXCEPT !.w = Note(Next1(@), "joined")]
                            ELSE Parked(world, "join", Op[2], Future("deadline", Op[2]))
resume_current_task == Live /\ Current # -1 /\ drive.at = "run" /\ Apply(Stepped, replay)

\* The world: an operation or a timer completes.
Complete ==
    /\ Live
    /\ \E f \in world.futures : ~f.done /\ Apply([State EXCEPT !.w = Settled(@, LAMBDA g : g = f, FALSE)], replay)
----------------------------------------------------------------------------
(* Driver runs and processes.  The log is rewritten whole at each run's     *)
(* end; the replaying process claims its sections in the same order.        *)
RunOver == outcome = "running" /\ (Over(world, 0) \/ (Idle /\ world.futures = {} /\ replay.held = {}))
Seen == [t \in Tasks |-> world.task[t].seen]
Section == [events |-> replay.out, seen |-> Seen]
NewRun(ctx) == drive' = NewDrive /\ world' = NewWorld /\ replay' = ctx
EndRun ==
    /\ RunOver /\ ~Replaying /\ replay.run < Len(plan)
    /\ file' = [file EXCEPT !.runs = Append(@, Section)]
    /\ NewRun(from_env(replay.run + 1, <<>>))
    /\ UNCHANGED <<process, plan, batch, stress, pending, outcome>>
\* The recording ends, and a process that replays it starts.
StartReplay ==
    /\ RunOver /\ ~Replaying /\ replay.run = Len(plan)
    /\ file' = [file EXCEPT !.runs = Append(@, Section)]
    /\ process' = "replay" /\ stress' \in BOOLEAN /\ batch' \in Batches
    /\ LET p == parse_log(file', batch')
           runs == [i \in DOMAIN p.runs |-> p.runs[i].events]
       IN  /\ outcome' = IF p.ok THEN "running" ELSE "refused"
           /\ pending' = Tail(runs) /\ NewRun(from_env(1, runs))
    /\ UNCHANGED plan
EndReplayed ==
    /\ RunOver /\ Replaying
    /\ IF Len(pending) = 0 THEN outcome' = "replayed" /\ UNCHANGED <<pending, drive, world, replay>>
       ELSE pending' = Tail(pending) /\ NewRun(from_env(replay.run + 1, pending)) /\ UNCHANGED outcome
    /\ UNCHANGED <<process, plan, batch, stress, file>>

WlInit ==
    /\ process = "record" /\ plan \in Programs /\ batch \in Batches /\ stress \in BOOLEAN
    /\ file = [batch |-> batch, runs |-> <<>>] /\ pending = <<>>
    /\ drive = NewDrive /\ world = NewWorld /\ replay = NoCtx /\ outcome = "running"
WlNext ==
    \/ PickReady \/ expect_pick \/ DeliverArrived \/ HoldBack \/ DeliverLogged
    \/ RotateOrNot \/ expect_rotate \/ resume_current_task \/ Complete
    \/ EndRun \/ StartReplay \/ EndReplayed
WakeSpec == WlInit /\ [][WlNext]_wlvars

(* A replay is the recorded execution: whatever order the completions       *)
(* really arrive in, each decision the scheduler comes to is the one the    *)
(* log has next, every decision is made, and each task is told what it was  *)
(* told before.  The exception is an operation the recorded run aborted:    *)
(* when it completes in the replay before its abort, it is held for a       *)
(* delivery that never comes.                                               *)
AbortedAhead(f) ==
    \E i \in replay.pos..Len(replay.events) :
        f.k = "io" /\ ~f.aborted /\ replay.events[i] = [wake_event_for(f) EXCEPT !.aborted = TRUE]
ReplayIsFaithful ==
    \/ \E f \in replay.held : AbortedAhead(f)
    \/ outcome # "diverged" /\ (Replaying /\ RunOver => Section = file.runs[replay.run])
=============================================================================
