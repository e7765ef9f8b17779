---------------------------- MODULE Supervision ----------------------------
(***************************************************************************)
(* Death, restart and supervision of one hosted service.                   *)
(*                                                                         *)
(* A service is a worker (an OS thread or a child process) that a root     *)
(* proxy of the parent VM is bound to.  Its life is recorded in a LifeSink *)
(* that both sides write: the worker's own thread emits the terminal       *)
(* record, and a caller of the parent that finds the reply lane closed     *)
(* emits it too; the first one wins (runtime/lifecycle.rs).  A restart     *)
(* rebinds the root to a fresh worker while the service's gate parks the   *)
(* callers; it is done by hand (serviceRestart) or by the supervisor task  *)
(* that serviceSupervise: starts (runtime/worker_service.rs).              *)
(*                                                                         *)
(* The tasks of the parent VM interleave only where they park, so an       *)
(* action is what a task does between two parks.  The worker's thread runs *)
(* beside them: the swap of the terminal flag, the write of the status and *)
(* the notification of the watchers are three actions.                     *)
(***************************************************************************)
EXTENDS Integers, FiniteSets

CONSTANTS Tasks,        \* the tasks that use the service
          Callers,      \* bound: the tasks that call it
          Keepers,      \* bound: the tasks that restart, stop and terminate it
          None,         \* no task
          Sup,          \* the supervisor task
          MaxWorkers,   \* bound: workers ever started for this service
          MaxRestarts,  \* SupervisePolicy.max_restarts
          Dying,        \* bound: the workers that may die by themselves
          Failing       \* bound: the workers whose body may end with an error

ASSUME SupervisionAssumption ==
    /\ Callers \subseteq Tasks /\ Keepers \subseteq Tasks
    /\ Sup \notin Tasks /\ None \notin Tasks \cup {Sup}
    /\ MaxWorkers \in Nat \ {0} /\ MaxRestarts \in Nat \ {0}

VARIABLES gate,      \* the restart gate all proxies share: phase, exempt, waiters, and
                     \* (history) the worker whose death closed it, 0 when it is open
          policy,    \* has a policy been attached
          root,      \* the worker the root proxy is bound to
          worker,    \* worker -> "unborn", "running", "dead", "ended" or "failed"
          emitting,  \* worker -> what its thread has still to do to the sink
          sink,      \* worker -> its LifeSink
          stopped,   \* worker -> the deliberate-stop flag of its incarnation
          deaths,    \* deaths the supervisor counts inside the policy's window
          pc,        \* task -> where it is
          ctx,       \* task -> the worker its snapshot addresses
          fresh,     \* task -> the worker its attempt has spawned and not bound, or 0
          dropped,   \* worker -> has the parent let go of its lanes
          minted,    \* worker -> the incarnation number of its proxies, 0 before a binding
          cur        \* task -> the incarnation number its attempt began from, or 0

births == <<fresh, dropped, minted, cur>>

vars == <<gate, policy, root, worker, emitting, sink, stopped, deaths, pc, ctx, births>>

Workers == 1..MaxWorkers
Owners  == Tasks \cup {Sup}

Attempting == {"boot", "ready", "hook", "hookstop"}

TypeOK ==
    /\ gate \in [phase   : {"Open", "Restarting", "GaveUp"},
                 exempt  : Owners \cup {None},
                 waiters : SUBSET Tasks,
                 closer  : 0..MaxWorkers]
    /\ policy \in BOOLEAN
    /\ root \in Workers
    /\ worker \in [Workers -> {"unborn", "running", "dead", "ended", "failed"}]
    /\ emitting \in [Workers -> {"no", "swap", "status", "notify"}]
    /\ sink \in [Workers -> [terminal  : BOOLEAN,
                             status    : {"Running", "Died", "Stopped"},
                             watched   : BOOLEAN,
                             delivered : BOOLEAN]]
    /\ stopped \in [Workers -> BOOLEAN]
    /\ deaths \in 0..(MaxRestarts + 1)
    /\ pc \in [Owners -> {"idle", "gate", "woken", "call", "callback",
                          "stopping", "boot", "ready", "hook", "hookstop",
                          "off", "watch", "wait", "backoff", "done", "gaveup", "gone"}]
    /\ ctx \in [Owners -> Workers]
    /\ fresh \in [Owners -> 0..MaxWorkers]
    /\ dropped \in [Workers -> BOOLEAN]
    /\ minted \in [Workers -> Nat]
    /\ cur \in [Owners -> Nat]

-----------------------------------------------------------------------------
(* The LifeSink.                                                            *)

LifeSink == [terminal |-> FALSE, status |-> "Running",
             watched |-> FALSE, delivered |-> FALSE]

(* Draining the watchers hands each of them the record.                     *)
NotifyWatchers(s) == [s EXCEPT !.watched = FALSE,
                               !.delivered = @ \/ s.watched]

(* emit_stopped and emit_died, called by the parent's thread: no other task *)
(* of the parent sees a part of it.                                         *)
Emit(s, status) ==
    IF s.terminal THEN s
    ELSE NotifyWatchers([s EXCEPT !.terminal = TRUE, !.status = status])

(* watch(): under the watchers' lock, enroll while the peer runs, deliver   *)
(* at once otherwise.                                                       *)
Watch(s) ==
    IF s.status = "Running" THEN [s EXCEPT !.watched = TRUE, !.delivered = FALSE]
                            ELSE [s EXCEPT !.delivered = TRUE]

(* The same emission by the worker's thread, in its three steps; a swap     *)
(* that finds the flag set ends it.                                         *)
EmitSwap(w) ==
    /\ emitting[w] = "swap"
    /\ sink' = [sink EXCEPT ![w].terminal = TRUE]
    /\ emitting' = [emitting EXCEPT ![w] = IF sink[w].terminal THEN "no" ELSE "status"]
    /\ UNCHANGED <<gate, policy, root, worker, stopped, deaths, pc, ctx, births>>

EmitStatus(w) ==
    /\ emitting[w] = "status"
    /\ sink' = [sink EXCEPT ![w].status = IF worker[w] = "dead" THEN "Died" ELSE "Stopped"]
    /\ emitting' = [emitting EXCEPT ![w] = "notify"]
    /\ UNCHANGED <<gate, policy, root, worker, stopped, deaths, pc, ctx, births>>

EmitNotify(w) ==
    /\ emitting[w] = "notify"
    /\ sink' = [sink EXCEPT ![w] = NotifyWatchers(@)]
    /\ emitting' = [emitting EXCEPT ![w] = "no"]
    /\ UNCHANGED <<gate, policy, root, worker, stopped, deaths, pc, ctx, births>>

(* No call is in flight on w (drain_lanes waits for that).                  *)
Drained(w) == \A t \in Tasks : pc[t] \in {"call", "callback"} => ctx[t] # w

(* The worker ends by itself: it dies (a panic, a lost process), or its     *)
(* body fails, which its thread reports as a stop.                          *)
WorkerDies(w) ==
    /\ w \in Dying /\ worker[w] = "running"
    /\ worker' = [worker EXCEPT ![w] = "dead"]
    /\ emitting' = [emitting EXCEPT ![w] = "swap"]
    /\ UNCHANGED <<gate, policy, root, sink, stopped, deaths, pc, ctx, births>>

WorkerFails(w) ==
    /\ w \in Failing /\ worker[w] = "running"
    /\ worker' = [worker EXCEPT ![w] = "failed"]
    /\ emitting' = [emitting EXCEPT ![w] = "swap"]
    /\ UNCHANGED <<gate, policy, root, sink, stopped, deaths, pc, ctx, births>>

(* A worker whose lanes the parent let go of finds them closed and shuts    *)
(* down, once no call is left on it.                                        *)
OrphanEnds(w) ==
    /\ worker[w] = "running"
    /\ dropped[w] /\ Drained(w)
    /\ worker' = [worker EXCEPT ![w] = "ended"]
    /\ emitting' = [emitting EXCEPT ![w] = "swap"]
    /\ UNCHANGED <<gate, policy, root, sink, stopped, deaths, pc, ctx, births>>

Gone(w) == worker[w] \in {"dead", "ended", "failed"}

-----------------------------------------------------------------------------
(* Calls.                                                                   *)

(* Task t goes on at x, with a snapshot of worker w; an idle task has none, *)
(* which is written 1.                                                      *)
Goes(t, x, w) ==
    /\ pc' = [pc EXCEPT ![t] = x]
    /\ ctx' = [ctx EXCEPT ![t] = w]

(* await_restart_window, for the proxies of worker w: a call through a      *)
(* proxy of another incarnation number is refused as stale, an open gate    *)
(* lets it through, a restart parks it unless it comes from the restart     *)
(* hook.  (Mutant: the incarnation is not compared.)                        *)
RefusedLenient(w) == gate.phase = "GaveUp"
Refused(w)   == minted[w] # minted[root] \/ gate.phase = "GaveUp"
Parks(t, w)  == ~Refused(w) /\ gate.phase = "Restarting" /\ gate.exempt # t
Passes(t, w) == ~Refused(w) /\ ~Parks(t, w)

AwaitWindow(t, w) ==
    \/ /\ Passes(t, w) /\ ~stopped[w]
       /\ Goes(t, "call", w)
       /\ UNCHANGED gate
    \/ /\ Refused(w) \/ (Passes(t, w) /\ stopped[w])
       /\ Goes(t, "idle", 1)
       /\ UNCHANGED gate
    \/ /\ Parks(t, w)
       /\ gate' = [gate EXCEPT !.waiters = @ \cup {t}]
       /\ Goes(t, "gate", w)

(* A task calls through the root, or through a proxy it kept from an        *)
(* earlier worker; the root is looked up again after the wait.              *)
Call(t) ==
    /\ t \in Callers /\ pc[t] = "idle"
    /\ \E w \in Workers : minted[w] # 0 /\ AwaitWindow(t, w)
    /\ UNCHANGED <<policy, root, worker, emitting, sink, stopped, deaths, births>>

CallAfterWait(t) ==
    /\ pc[t] = "woken"
    /\ \E w \in {ctx[t], root} : AwaitWindow(t, w)
    /\ UNCHANGED <<policy, root, worker, emitting, sink, stopped, deaths, births>>

(* A parked caller that is cancelled takes its own entry out.               *)
CancelWait(t) ==
    /\ pc[t] = "gate"
    /\ gate' = [gate EXCEPT !.waiters = @ \ {t}]
    /\ Goes(t, "idle", 1)
    /\ UNCHANGED <<policy, root, worker, emitting, sink, stopped, deaths, births>>

CallReturns(t) ==
    /\ pc[t] = "call"
    /\ worker[ctx[t]] = "running"
    /\ Goes(t, "idle", 1)
    /\ UNCHANGED <<gate, policy, root, worker, emitting, sink, stopped, deaths, births>>

(* The worker asks the parent to run a block: the calling task runs guest   *)
(* code, which may park for as long as it likes.                            *)
CallbackStarts(t) ==
    /\ pc[t] = "call"
    /\ worker[ctx[t]] = "running"
    /\ pc' = [pc EXCEPT ![t] = "callback"]
    /\ UNCHANGED <<gate, policy, root, worker, emitting, sink, stopped, deaths, ctx, births>>

CallbackEnds(t) ==
    /\ pc[t] = "callback"
    /\ pc' = [pc EXCEPT ![t] = "call"]
    /\ UNCHANGED <<gate, policy, root, worker, emitting, sink, stopped, deaths, ctx, births>>

(* The gate closes for the end of worker w.                                 *)
CloseGate(w) == [gate EXCEPT !.phase = "Restarting", !.closer = w]

(* Mutant: a death that a deliberate stop ordered closes the gate.          *)
NoteDeadAlways(w) ==
    /\ gate' = IF policy /\ gate.phase = "Open" THEN CloseGate(w) ELSE gate
    /\ sink' = [sink EXCEPT ![w] = Emit(@, "Died")]

(* In a thread-backed service the answer of the callback is refused at once *)
(* when the worker is gone, and the call ends without noting the death.     *)
CallbackRefused(t) ==
    /\ pc[t] = "callback"
    /\ Gone(ctx[t])
    /\ Goes(t, "idle", 1)
    /\ UNCHANGED <<gate, policy, root, worker, emitting, sink, stopped, deaths, births>>

(* note_service_dead, with the snapshot of the call that found worker w     *)
(* gone: the gate and the policy are the service's, the stop flag and the   *)
(* sink are the snapshot's.                                                 *)
NoteDead(w) ==
    /\ gate' = IF policy /\ ~stopped[w] /\ gate.phase = "Open" THEN CloseGate(w) ELSE gate
    /\ sink' = [sink EXCEPT ![w] = Emit(@, "Died")]

(* The reply lane or the dispatch queue is closed: the call notes it when   *)
(* its task runs again, which may be after the restart has completed.       *)
CallDies(t) ==
    /\ pc[t] = "call"
    /\ Gone(ctx[t])
    /\ NoteDead(ctx[t])
    /\ Goes(t, "idle", 1)
    /\ UNCHANGED <<policy, root, worker, emitting, stopped, deaths, births>>

-----------------------------------------------------------------------------
(* One attempt to restart, by a task that asked for it or by the supervisor.*)

(* The gate opens or is given up, and the exemption ends with the hook; the *)
(* live waiters are woken.                                                  *)
OpenGate(phase, hooked) ==
    gate' = [gate EXCEPT !.phase = phase, !.waiters = {}, !.closer = 0,
                         !.exempt = IF hooked THEN None ELSE @]

WakeWaiters(f) == [t \in Owners |-> IF t \in gate.waiters THEN "woken" ELSE f[t]]

(* serviceRestart: only an unsupervised service that died, one at a time.   *)
ServiceRestart(t) ==
    /\ t \in Keepers /\ pc[t] = "idle"
    /\ ~policy
    /\ sink[root].status = "Died"
    /\ gate.phase = "Open"
    /\ gate' = CloseGate(root)
    /\ pc' = [pc EXCEPT ![t] = "boot"]
    /\ ctx' = [ctx EXCEPT ![t] = root]
    /\ cur' = [cur EXCEPT ![t] = minted[root]]
    /\ UNCHANGED <<policy, root, worker, emitting, sink, stopped, deaths,
                   fresh, dropped, minted>>

(* The worker is spawned; its ready manifest is awaited.                    *)
Spawned(o) ==
    /\ pc[o] = "boot"
    /\ \E w \in Workers :
          /\ worker[w] = "unborn" /\ \A v \in 1..(w - 1) : worker[v] # "unborn"
          /\ worker' = [worker EXCEPT ![w] = "running"]
          /\ fresh' = [fresh EXCEPT ![o] = w]
    /\ pc' = [pc EXCEPT ![o] = "ready"]
    /\ UNCHANGED <<gate, policy, root, emitting, sink, stopped, deaths, ctx,
                   dropped, minted, cur>>

(* The manifest matches: the root lets go of the old lanes and is rebound,  *)
(* with fresh stop flag, claims and sink and the next incarnation number,   *)
(* whatever happened to the root since the attempt began; the hook starts.  *)
Rebind(o) ==
    /\ pc[o] = "ready"
    /\ root' = fresh[o]
    /\ ctx' = [ctx EXCEPT ![o] = fresh[o]]
    /\ fresh' = [fresh EXCEPT ![o] = 0]
    /\ dropped' = [dropped EXCEPT ![root] = TRUE]
    /\ minted' = [minted EXCEPT ![fresh[o]] = cur[o] + 1]
    /\ gate' = [gate EXCEPT !.exempt = o]
    /\ pc' = [pc EXCEPT ![o] = "hook"]
    /\ cur' = [cur EXCEPT ![o] = 0]
    /\ UNCHANGED <<policy, worker, emitting, sink, stopped, deaths>>

(* The hook calls the service; its worker may be gone by then.              *)
HookCallDies(o) ==
    /\ pc[o] = "hook"
    /\ Passes(o, root) /\ ~stopped[root]
    /\ Gone(root)
    /\ NoteDead(root)
    /\ UNCHANGED <<policy, root, worker, emitting, stopped, deaths, pc, ctx, births>>

(* A failed hook stops the fresh worker before the attempt fails.           *)
HookFails(o) ==
    /\ pc[o] = "hook"
    /\ gate' = [gate EXCEPT !.exempt = None]
    /\ stopped' = [stopped EXCEPT ![root] = TRUE]
    /\ ctx' = [ctx EXCEPT ![o] = root]
    /\ pc' = [pc EXCEPT ![o] = "hookstop"]
    /\ UNCHANGED <<policy, root, worker, emitting, sink, deaths, births>>

(* Mutant: the channels of a refused worker are kept.                       *)
KeepFresh(o) ==
    /\ fresh' = [fresh EXCEPT ![o] = 0]
    /\ UNCHANGED <<dropped, minted>>

(* The spawned worker's channels go with the attempt that fails.            *)
LetGo(o) ==
    /\ fresh' = [fresh EXCEPT ![o] = 0]
    /\ dropped' = [w \in Workers |-> dropped[w] \/ w = fresh[o]]
    /\ UNCHANGED minted

(* An attempt fails in the spawn or the boot, because the manifest differs  *)
(* or never comes, or when the worker of a failed hook has been stopped.    *)
AttemptFailed(o) ==
    /\ \/ pc[o] \in {"boot", "ready"}
       \/ pc[o] = "hookstop" /\ Gone(ctx[o]) /\ emitting[ctx[o]] = "no"
    /\ LetGo(o)
    /\ cur' = [cur EXCEPT ![o] = 0]

(* After a manual attempt the gate opens, whatever its outcome.             *)
RestartEnds(t) ==
    /\ (pc[t] = "hook" /\ UNCHANGED births) \/ AttemptFailed(t)
    /\ OpenGate("Open", pc[t] = "hook")
    /\ pc' = WakeWaiters([pc EXCEPT ![t] = "idle"])
    /\ ctx' = [ctx EXCEPT ![t] = 1]
    /\ UNCHANGED <<policy, root, worker, emitting, sink, stopped, deaths>>

-----------------------------------------------------------------------------
(* The supervisor.                                                          *)

ServiceSupervise(t) ==
    /\ pc[t] = "idle"
    /\ ~policy
    /\ policy' = TRUE
    /\ pc' = [pc EXCEPT ![Sup] = "watch"]
    /\ UNCHANGED <<gate, root, worker, emitting, sink, stopped, deaths, ctx, births>>

SupWatch ==
    /\ pc[Sup] = "watch"
    /\ sink' = [sink EXCEPT ![root] = Watch(@)]
    /\ ctx' = [ctx EXCEPT ![Sup] = root]
    /\ pc' = [pc EXCEPT ![Sup] = "wait"]
    /\ UNCHANGED <<gate, policy, root, worker, emitting, stopped, deaths, births>>

(* Another death is counted, and those the window has outlived are not.     *)
CountDeath == deaths' \in 1..(IF deaths <= MaxRestarts THEN deaths + 1 ELSE deaths)

(* The watch delivers: a stop ends supervision, a death closes the gate and *)
(* starts the attempts.                                                     *)
SupStopped ==
    /\ pc[Sup] = "wait"
    /\ sink[ctx[Sup]].delivered
    /\ sink[ctx[Sup]].status = "Stopped"
    /\ pc' = [pc EXCEPT ![Sup] = "done"]
    /\ UNCHANGED <<gate, policy, root, worker, emitting, sink, stopped, deaths, ctx, births>>

SupDied ==
    /\ pc[Sup] = "wait"
    /\ sink[ctx[Sup]].delivered
    /\ sink[ctx[Sup]].status = "Died"
    /\ gate' = IF gate.phase = "Open" THEN CloseGate(ctx[Sup]) ELSE gate
    /\ CountDeath
    /\ pc' = [pc EXCEPT ![Sup] = "backoff"]
    /\ UNCHANGED <<policy, root, worker, emitting, sink, stopped, ctx, births>>

(* Each round: give up over the budget, otherwise sleep and try.            *)
SupAttempt ==
    /\ pc[Sup] = "backoff"
    /\ deaths <= MaxRestarts
    /\ pc' = [pc EXCEPT ![Sup] = "boot"]
    /\ cur' = [cur EXCEPT ![Sup] = minted[root]]
    /\ UNCHANGED <<gate, policy, root, worker, emitting, sink, stopped, deaths, ctx,
                   fresh, dropped, minted>>

SupAttemptFails ==
    /\ AttemptFailed(Sup)
    /\ CountDeath
    /\ pc' = [pc EXCEPT ![Sup] = "backoff"]
    /\ UNCHANGED <<gate, policy, root, worker, emitting, sink, stopped, ctx>>

SupGivesUp ==
    /\ pc[Sup] = "backoff"
    /\ deaths > MaxRestarts
    /\ OpenGate("GaveUp", FALSE)
    /\ pc' = WakeWaiters([pc EXCEPT ![Sup] = "gaveup"])
    /\ UNCHANGED <<policy, root, worker, emitting, sink, stopped, deaths, ctx, births>>

SupReopens ==
    /\ pc[Sup] = "hook"
    /\ OpenGate("Open", TRUE)
    /\ pc' = WakeWaiters([pc EXCEPT ![Sup] = "watch"])
    /\ UNCHANGED <<policy, root, worker, emitting, sink, stopped, deaths, ctx, births>>

(* A cancel ends the supervisor with `?` in its watch and in its sleep; in  *)
(* an attempt it is one more failure.                                       *)
SupCancelled ==
    /\ pc[Sup] \in {"wait", "backoff"}
    /\ pc' = [pc EXCEPT ![Sup] = "gone"]
    /\ UNCHANGED <<gate, policy, root, worker, emitting, sink, stopped, deaths, ctx, births>>

-----------------------------------------------------------------------------
(* Stopping.                                                                *)

(* serviceTerminate waits out a restart, marks the stop before it kills.    *)
ServiceTerminate(t) ==
    /\ t \in Keepers /\ pc[t] = "idle"
    /\ Passes(t, root)
    /\ stopped' = [stopped EXCEPT ![root] = TRUE]
    /\ sink' = [sink EXCEPT ![root] = Emit(@, "Stopped")]
    /\ worker' = [worker EXCEPT ![root] = IF @ = "running" THEN "dead" ELSE @]
    /\ emitting' = [emitting EXCEPT ![root] = IF worker[root] = "running" THEN "swap" ELSE @]
    /\ UNCHANGED <<gate, policy, root, deaths, pc, ctx, births>>

(* serviceStop does not wait for a restart: it marks the stop, drains the   *)
(* lanes, stops each of them and joins.                                     *)
ServiceStop(t) ==
    /\ t \in Keepers /\ pc[t] = "idle"
    /\ stopped' = [stopped EXCEPT ![root] = TRUE]
    /\ ctx' = [ctx EXCEPT ![t] = root]
    /\ pc' = [pc EXCEPT ![t] = "stopping"]
    /\ UNCHANGED <<gate, policy, root, worker, emitting, sink, deaths, births>>

StopWorker(o) ==
    /\ pc[o] \in {"stopping", "hookstop"}
    /\ worker[ctx[o]] = "running"
    /\ Drained(ctx[o])
    /\ worker' = [worker EXCEPT ![ctx[o]] = "ended"]
    /\ emitting' = [emitting EXCEPT ![ctx[o]] = "swap"]
    /\ UNCHANGED <<gate, policy, root, sink, stopped, deaths, pc, ctx, births>>

StopReturns(t) ==
    /\ pc[t] = "stopping"
    /\ Gone(ctx[t]) /\ emitting[ctx[t]] = "no"
    /\ Goes(t, "idle", 1)
    /\ UNCHANGED <<gate, policy, root, worker, emitting, sink, stopped, deaths, births>>

-----------------------------------------------------------------------------
Init ==
    /\ gate = [phase |-> "Open", exempt |-> None, waiters |-> {}, closer |-> 0]
    /\ policy = FALSE
    /\ root = 1
    /\ worker = [w \in Workers |-> IF w = 1 THEN "running" ELSE "unborn"]
    /\ emitting = [w \in Workers |-> "no"]
    /\ sink = [w \in Workers |-> LifeSink]
    /\ stopped = [w \in Workers |-> FALSE]
    /\ deaths = 0
    /\ pc = [o \in Owners |-> IF o = Sup THEN "off" ELSE "idle"]
    /\ ctx = [o \in Owners |-> 1]
    /\ fresh = [o \in Owners |-> 0]
    /\ dropped = [w \in Workers |-> FALSE]
    /\ minted = [w \in Workers |-> IF w = 1 THEN 1 ELSE 0]
    /\ cur = [o \in Owners |-> 0]

WorkerStep(w) ==
    \/ EmitSwap(w) \/ EmitStatus(w) \/ EmitNotify(w)
    \/ WorkerDies(w) \/ WorkerFails(w) \/ OrphanEnds(w)

TaskStep(t) ==
    \/ Call(t) \/ CallAfterWait(t) \/ CancelWait(t) \/ CallReturns(t)
    \/ CallbackStarts(t) \/ CallbackEnds(t) \/ CallbackRefused(t) \/ CallDies(t)
    \/ ServiceRestart(t) \/ RestartEnds(t) \/ ServiceSupervise(t)
    \/ ServiceTerminate(t) \/ ServiceStop(t) \/ StopReturns(t)

SupStep ==
    \/ SupWatch \/ SupStopped \/ SupDied \/ SupAttempt \/ SupAttemptFails
    \/ SupGivesUp \/ SupReopens \/ SupCancelled

AttemptStep(o) ==
    Spawned(o) \/ Rebind(o) \/ HookCallDies(o) \/ HookFails(o) \/ StopWorker(o)

Next ==
    \/ \E w \in Workers : WorkerStep(w)
    \/ \E t \in Tasks : TaskStep(t)
    \/ \E o \in Owners : AttemptStep(o)
    \/ SupStep

Spec == Init /\ [][Next]_vars

-----------------------------------------------------------------------------
(* The ways the code leaves a closed gate behind: a call noted the end of a *)
(* worker that is no longer the root's; the body of the root's worker ended *)
(* with an error, which is recorded as a stop although nobody asked for     *)
(* one; the supervisor was cancelled, or had given up when a manual restart *)
(* that overlapped it opened the gate again; or it watches a worker that    *)
(* such a restart has replaced.                                             *)
Stranded ==
    \/ gate.closer # root
    \/ worker[root] = "failed"
    \/ pc[Sup] \in {"gone", "gaveup"}
    \/ pc[Sup] \in {"wait", "done"} /\ ctx[Sup] # root

(* A closed gate is going to be opened: a restart is in flight, or the      *)
(* supervisor watches a sink on which a death is recorded or about to be.   *)
(* (note_service_dead closes the gate itself, before the supervisor has     *)
(* seen the death; a gate nobody opens parks every caller for good.)  The   *)
(* exceptions are the four above and no other.                              *)
RestartingHasOpener ==
    gate.phase = "Restarting" =>
        \/ \E o \in Owners : pc[o] \in Attempting \cup {"backoff"}
        \/ pc[Sup] = "watch" /\ sink[root].terminal
        \/ pc[Sup] = "wait" /\ sink[ctx[Sup]].terminal /\ sink[ctx[Sup]].status # "Stopped"
        \/ Stranded

(* A caller is parked at the gate only while a restart is going on, and     *)
(* then its entry is in the gate's list: every way to open the gate, giving *)
(* up included, wakes all of them.                                          *)
ParkedOnlyWhileRestarting ==
    \A t \in Tasks : pc[t] = "gate" <=> (t \in gate.waiters /\ gate.phase = "Restarting")

(* The supervisor cannot miss a death: when the emission on the sink it     *)
(* waits on has ended, its record has been delivered to it, however watch() *)
(* and the emitting thread interleaved.                                     *)
NoMissedDeath ==
    pc[Sup] = "wait" /\ sink[ctx[Sup]].terminal /\ emitting[ctx[Sup]] \notin {"status", "notify"}
        => sink[ctx[Sup]].delivered

(* No restart leaves a worker running behind: one that runs is the root's,  *)
(* is held by an attempt, or has lost its lanes and so shuts down.          *)
NoOrphanWorker ==
    \A w \in Workers : worker[w] = "running" =>
        w = root \/ dropped[w] \/ \E o \in Owners : fresh[o] = w

(* A call starts only with the root's incarnation number, and never on a    *)
(* worker that was stopped: waiting at the gate lets no older proxy through.*)
CallsCurrent ==
    [][\A t \in Tasks : pc[t] # "call" /\ pc'[t] = "call" /\ pc[t] # "callback"
           => minted[ctx'[t]] = minted[root] /\ ~stopped[ctx'[t]]]_vars

(* A restart only follows a death: a root that still runs is replaced only  *)
(* by an attempt that began before another one bound that root.             *)
RestartFollowsDeath ==
    [][\A o \in Owners : pc[o] = "ready" /\ pc'[o] = "hook"
           => Gone(root) \/ ctx[o] # root]_vars

(* The terminal record of a peer is written once: what a watcher was told   *)
(* is what status() says for ever after.                                    *)
FirstTerminalWins ==
    [][\A w \in Workers : sink[w].status # "Running" => sink'[w].status = sink[w].status]_vars

(* A restart leaves nobody and nothing behind: no caller parked at an open  *)
(* gate, no death the supervisor waits for in vain, no worker that keeps    *)
(* running unknown to anybody.                                              *)
RestartIsComplete == ParkedOnlyWhileRestarting /\ NoMissedDeath /\ NoOrphanWorker

(* Lives only go forward: a call starts on the current incarnation, what a  *)
(* watcher was told of an earlier one stays true, and an attempt replaces   *)
(* the worker it saw die.                                                   *)
LivesGoForward == CallsCurrent /\ FirstTerminalWins /\ RestartFollowsDeath
=============================================================================
