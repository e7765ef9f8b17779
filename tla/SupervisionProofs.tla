------------------------- MODULE SupervisionProofs -------------------------
(***************************************************************************)
(* Proofs about Supervision for every set of tasks, number of workers and  *)
(* restart budget, and whichever workers die or fail.  Four inductive      *)
(* invariants build on each other: what the restart gate knows of its      *)
(* waiters (GateInv), how a LifeSink and the thread that emits on it agree *)
(* (SinkInv), who holds the workers that attempts have spawned and that an *)
(* attempt replaces what is gone (AttemptInv), and who will open a closed  *)
(* gate (OpenerInv).                                                       *)
(***************************************************************************)
EXTENDS Supervision, TLAPS

-----------------------------------------------------------------------------
(* Type correctness.                                                        *)

(* An attempt that awaits a manifest has a worker to await it from.         *)
ReadyHasWorker == \A o \in Owners : pc[o] = "ready" => fresh[o] \in Workers

(* The service starts with one running worker, an open gate and no policy.  *)
LEMMA TypeInit == Init => TypeOK /\ ReadyHasWorker
<1> SUFFICES ASSUME Init PROVE TypeOK /\ ReadyHasWorker
  OBVIOUS
<1>1. 1 \in Workers /\ 0 \in 0..(MaxRestarts + 1) /\ 0 \in 0..MaxWorkers /\ 0 \in Nat /\ 1 \in Nat
  BY SupervisionAssumption DEF Workers
<1>2. sink \in [Workers -> [terminal : BOOLEAN, status : {"Running", "Died", "Stopped"},
                            watched : BOOLEAN, delivered : BOOLEAN]]
  BY DEF Init, LifeSink
<1>3. QED
  BY <1>1, <1>2, SupervisionAssumption DEF Init, TypeOK, ReadyHasWorker, Owners

(* Emitting on a sink, draining its watchers and enrolling yield a sink.    *)
LEMMA EmitType ==
  ASSUME NEW s \in [terminal : BOOLEAN, status : {"Running", "Died", "Stopped"},
                    watched : BOOLEAN, delivered : BOOLEAN],
         NEW status \in {"Died", "Stopped"}
  PROVE  /\ Emit(s, status) \in [terminal : BOOLEAN, status : {"Running", "Died", "Stopped"},
                                 watched : BOOLEAN, delivered : BOOLEAN]
         /\ NotifyWatchers(s) \in [terminal : BOOLEAN, status : {"Running", "Died", "Stopped"},
                                   watched : BOOLEAN, delivered : BOOLEAN]
         /\ Watch(s) \in [terminal : BOOLEAN, status : {"Running", "Died", "Stopped"},
                          watched : BOOLEAN, delivered : BOOLEAN]
  BY DEF Emit, NotifyWatchers, Watch

(* The steps of a worker thread are type correct.                           *)
LEMMA WorkerStepType ==
  ASSUME TypeOK, NEW w \in Workers, WorkerStep(w)
  PROVE  TypeOK'
<1>1. CASE EmitSwap(w)
  <2>1. PICK e \in {"no", "status"} : emitting' = [emitting EXCEPT ![w] = e]
    BY <1>1 DEF EmitSwap
  <2>2. /\ sink' = [sink EXCEPT ![w].terminal = TRUE]
        /\ UNCHANGED <<gate, policy, root, worker, stopped, deaths, pc, ctx, births>>
    BY <1>1 DEF EmitSwap
  <2>3. sink' \in [Workers -> [terminal  : BOOLEAN, status : {"Running", "Died", "Stopped"},
                             watched   : BOOLEAN, delivered : BOOLEAN]]
    <3> DEFINE Sinks == [terminal  : BOOLEAN, status : {"Running", "Died", "Stopped"},
                         watched   : BOOLEAN, delivered : BOOLEAN]
    <3>1. sink \in [Workers -> Sinks]
      BY DEF TypeOK
    <3>2. PICK s \in Sinks : s = [sink[w] EXCEPT !.terminal = TRUE]
      BY <3>1
    <3>3. sink' = [sink EXCEPT ![w] = s]
      BY <2>2, <3>2
    <3> HIDE DEF Sinks
    <3>4. sink' \in [Workers -> Sinks]
      BY <3>1, <3>2, <3>3
    <3>5. QED
      BY <3>4 DEF Sinks
  <2>4. emitting' \in [Workers -> {"no", "swap", "status", "notify"}]
    BY <2>1 DEF TypeOK
  <2>5. QED
    BY <2>2, <2>3, <2>4 DEF TypeOK, births
<1>2. CASE EmitStatus(w)
  <2>1. PICK s \in {"Died", "Stopped"} : sink' = [sink EXCEPT ![w].status = s]
    BY <1>2 DEF EmitStatus
  <2>2. /\ emitting' = [emitting EXCEPT ![w] = "notify"]
        /\ UNCHANGED <<gate, policy, root, worker, stopped, deaths, pc, ctx, births>>
    BY <1>2 DEF EmitStatus
  <2>3. QED
    BY <2>1, <2>2 DEF TypeOK, births
<1>3. CASE EmitNotify(w)
  BY <1>3, EmitType DEF EmitNotify, TypeOK, births
<1>4. CASE WorkerDies(w) \/ WorkerFails(w) \/ OrphanEnds(w)
  <2>1. PICK e \in {"dead", "failed", "ended"} : worker' = [worker EXCEPT ![w] = e]
    BY <1>4 DEF WorkerDies, WorkerFails, OrphanEnds
  <2>2. /\ emitting' = [emitting EXCEPT ![w] = "swap"]
        /\ UNCHANGED <<gate, policy, root, sink, stopped, deaths, pc, ctx, births>>
    BY <1>4 DEF WorkerDies, WorkerFails, OrphanEnds
  <2>3. QED
    BY <2>1, <2>2 DEF TypeOK, births
<1>5. QED
  BY <1>1, <1>2, <1>3, <1>4 DEF WorkerStep

(* What the gate makes of a call is type correct.                           *)
LEMMA AwaitWindowType ==
  ASSUME TypeOK, NEW t \in Tasks, NEW w \in Workers, AwaitWindow(t, w)
  PROVE  /\ gate' \in [phase   : {"Open", "Restarting", "GaveUp"},
                       exempt  : Owners \cup {None},
                       waiters : SUBSET Tasks,
                       closer  : 0..MaxWorkers]
         /\ pc' \in [Owners -> {"idle", "gate", "woken", "call", "callback",
                          "stopping", "boot", "ready", "hook", "hookstop",
                          "off", "watch", "wait", "backoff", "done", "gaveup", "gone"}]
         /\ ctx' \in [Owners -> Workers]
<1> 1 \in Workers
  BY SupervisionAssumption DEF Workers
<1>1. gate' \in [phase   : {"Open", "Restarting", "GaveUp"},
                exempt  : Owners \cup {None},
                waiters : SUBSET Tasks,
                closer  : 0..MaxWorkers]
  BY DEF AwaitWindow, TypeOK
<1>2. PICK x \in {"idle", "gate", "call"}, v \in Workers : Goes(t, x, v)
  BY DEF AwaitWindow
<1>3. t \in Owners
  BY DEF Owners
<1>4. QED
  BY <1>1, <1>2, <1>3 DEF Goes, TypeOK

(* note_service_dead is type correct.                                       *)
LEMMA NoteDeadType ==
  ASSUME TypeOK, NEW w \in Workers, NoteDead(w)
  PROVE  /\ gate' \in [phase   : {"Open", "Restarting", "GaveUp"},
                       exempt  : Owners \cup {None},
                       waiters : SUBSET Tasks,
                       closer  : 0..MaxWorkers]
         /\ sink' \in [Workers -> [terminal  : BOOLEAN,
                             status    : {"Running", "Died", "Stopped"},
                             watched   : BOOLEAN,
                             delivered : BOOLEAN]]
<1> w \in 0..MaxWorkers
  BY SupervisionAssumption DEF Workers
<1>1. QED
  BY EmitType DEF NoteDead, CloseGate, TypeOK

(* An attempt that fails lets go of a worker, and that is type correct.     *)
LEMMA AttemptFailedType ==
  ASSUME TypeOK, NEW o \in Owners, AttemptFailed(o)
  PROVE  /\ fresh' \in [Owners -> 0..MaxWorkers] /\ dropped' \in [Workers -> BOOLEAN]
         /\ minted' \in [Workers -> Nat] /\ cur' \in [Owners -> Nat]
<1>1. /\ fresh' = [fresh EXCEPT ![o] = 0] /\ minted' = minted
      /\ dropped' = [w \in Workers |-> dropped[w] \/ w = fresh[o]]
      /\ cur' = [cur EXCEPT ![o] = 0]
  BY DEF AttemptFailed, LetGo
<1>2. 0 \in 0..MaxWorkers
  BY SupervisionAssumption
<1>3. QED
  BY <1>1, <1>2 DEF TypeOK

(* The steps of a task of the parent are type correct.                      *)
LEMMA TaskStepType ==
  ASSUME TypeOK, NEW t \in Tasks, TaskStep(t)
  PROVE  TypeOK'
<1> t \in Owners /\ 1 \in Workers /\ Workers \subseteq 0..MaxWorkers /\ 0 \in 0..MaxWorkers
  BY SupervisionAssumption DEF Owners, Workers
<1>1. CASE Call(t)
  <2>1. PICK w \in Workers : AwaitWindow(t, w)
    BY <1>1 DEF Call
  <2>2. QED
    BY <1>1, <2>1, AwaitWindowType DEF Call, TypeOK, births
<1>2. CASE CallAfterWait(t)
  <2>1. PICK w \in {ctx[t], root} : AwaitWindow(t, w)
    BY <1>2 DEF CallAfterWait
  <2>2. w \in Workers
    BY DEF TypeOK
  <2>3. QED
    BY <1>2, <2>1, <2>2, AwaitWindowType DEF CallAfterWait, TypeOK, births
<1>3. CASE CancelWait(t) \/ CallReturns(t) \/ CallbackStarts(t) \/ CallbackEnds(t)
             \/ CallbackRefused(t)
  <2>1. gate' \in [phase   : {"Open", "Restarting", "GaveUp"},
                  exempt  : Owners \cup {None},
                  waiters : SUBSET Tasks,
                  closer  : 0..MaxWorkers]
    <3>1. UNCHANGED gate \/ gate' = [gate EXCEPT !.waiters = @ \ {t}]
      BY <1>3 DEF CancelWait, CallReturns, CallbackStarts, CallbackEnds, CallbackRefused
    <3>2. QED
      BY <3>1 DEF TypeOK
  <2>2. \E x \in {"idle", "call", "callback"}, v \in Workers : Goes(t, x, v)
    <3>1. ctx[t] \in Workers /\ ctx = [ctx EXCEPT ![t] = ctx[t]]
      BY DEF TypeOK
    <3>2. QED
      BY <1>3, <3>1
         DEF CancelWait, CallReturns, CallbackStarts, CallbackEnds, CallbackRefused, Goes
  <2>3. UNCHANGED <<policy, root, worker, emitting, sink, stopped, deaths, births>>
    BY <1>3 DEF CancelWait, CallReturns, CallbackStarts, CallbackEnds, CallbackRefused
  <2>4. QED
    BY <2>1, <2>2, <2>3 DEF Goes, TypeOK, births
<1>4. CASE CallDies(t)
  <2>1. ctx[t] \in Workers
    BY DEF TypeOK
  <2>2. QED
    BY <1>4, <2>1, NoteDeadType DEF CallDies, Goes, TypeOK, births
<1>5. CASE ServiceRestart(t)
  BY <1>5 DEF ServiceRestart, CloseGate, TypeOK
<1>6. CASE RestartEnds(t)
  <2>1. /\ gate' \in [phase   : {"Open", "Restarting", "GaveUp"},
                     exempt  : Owners \cup {None},
                     waiters : SUBSET Tasks,
                     closer  : 0..MaxWorkers]
        /\ pc' \in [Owners -> {"idle", "gate", "woken", "call", "callback",
                          "stopping", "boot", "ready", "hook", "hookstop",
                          "off", "watch", "wait", "backoff", "done", "gaveup", "gone"}]
        /\ ctx' \in [Owners -> Workers]
    BY <1>6 DEF RestartEnds, OpenGate, WakeWaiters, TypeOK
  <2>2. /\ fresh' \in [Owners -> 0..MaxWorkers] /\ dropped' \in [Workers -> BOOLEAN]
        /\ minted' \in [Workers -> Nat] /\ cur' \in [Owners -> Nat]
    BY <1>6, AttemptFailedType DEF RestartEnds, births, TypeOK
  <2>3. QED
    BY <1>6, <2>1, <2>2 DEF RestartEnds, TypeOK
<1>7. CASE ServiceSupervise(t)
  BY <1>7 DEF ServiceSupervise, TypeOK, births
<1>8. CASE ServiceTerminate(t)
  <2>1. sink[root] \in [terminal : BOOLEAN, status : {"Running", "Died", "Stopped"},
                       watched : BOOLEAN, delivered : BOOLEAN]
    BY DEF TypeOK
  <2>2. sink' \in [Workers -> [terminal  : BOOLEAN, status : {"Running", "Died", "Stopped"},
                             watched   : BOOLEAN, delivered : BOOLEAN]]
    BY <1>8, <2>1, EmitType DEF ServiceTerminate, TypeOK
  <2>3. QED
    BY <1>8, <2>2 DEF ServiceTerminate, TypeOK, births
<1>9. CASE ServiceStop(t)
  BY <1>9 DEF ServiceStop, TypeOK, births
<1>10. CASE StopReturns(t)
  BY <1>10 DEF StopReturns, Goes, TypeOK, births
<1>11. QED
  BY <1>1, <1>2, <1>3, <1>4, <1>5, <1>6, <1>7, <1>8, <1>9, <1>10 DEF TaskStep

(* The steps of a restart attempt are type correct.                         *)
LEMMA AttemptStepType ==
  ASSUME TypeOK, ReadyHasWorker, NEW o \in Owners, AttemptStep(o)
  PROVE  TypeOK'
<1> Workers \subseteq 0..MaxWorkers /\ 0 \in 0..MaxWorkers
  BY SupervisionAssumption DEF Workers
<1>1. CASE Spawned(o)
  BY <1>1 DEF Spawned, TypeOK
<1>2. CASE Rebind(o)
  <2>1. fresh[o] \in Workers /\ cur[o] + 1 \in Nat
    BY <1>2 DEF Rebind, ReadyHasWorker, TypeOK
  <2>2. QED
    BY <1>2, <2>1 DEF Rebind, TypeOK
<1>3. CASE HookCallDies(o)
  <2>1. root \in Workers
    BY DEF TypeOK
  <2>2. QED
    BY <1>3, <2>1, NoteDeadType DEF HookCallDies, TypeOK, births
<1>4. CASE HookFails(o)
  BY <1>4 DEF HookFails, TypeOK, births
<1>5. CASE StopWorker(o)
  BY <1>5 DEF StopWorker, TypeOK, births
<1>6. QED
  BY <1>1, <1>2, <1>3, <1>4, <1>5 DEF AttemptStep

(* The steps of the supervisor are type correct.                            *)
LEMMA SupStepType ==
  ASSUME TypeOK, SupStep
  PROVE  TypeOK'
<1> Sup \in Owners /\ Workers \subseteq 0..MaxWorkers /\ 0 \in 0..MaxWorkers /\ 0 \in Nat
  BY SupervisionAssumption DEF Owners, Workers
<1>1. CASE SupWatch
  BY <1>1, EmitType DEF SupWatch, TypeOK, births
<1>2. CASE SupStopped \/ SupCancelled
  BY <1>2 DEF SupStopped, SupCancelled, TypeOK, births
<1>3. CASE SupAttempt
  BY <1>3 DEF SupAttempt, TypeOK
<1>4. CASE SupDied \/ SupAttemptFails
  <2>1. deaths' \in 0..(MaxRestarts + 1)
    <3>1. CountDeath
      BY <1>4 DEF SupDied, SupAttemptFails
    <3>2. deaths \in 0..(MaxRestarts + 1)
      BY DEF TypeOK
    <3>3. QED
      BY <3>1, <3>2, SupervisionAssumption DEF CountDeath
  <2>2. gate' \in [phase   : {"Open", "Restarting", "GaveUp"},
                  exempt  : Owners \cup {None},
                  waiters : SUBSET Tasks,
                  closer  : 0..MaxWorkers]
    <3>1. gate' = gate \/ gate' = CloseGate(ctx[Sup])
      BY <1>4 DEF SupDied, SupAttemptFails
    <3>2. ctx[Sup] \in 0..MaxWorkers
      BY DEF TypeOK
    <3>3. QED
      BY <3>1, <3>2 DEF CloseGate, TypeOK
  <2>3. /\ fresh' \in [Owners -> 0..MaxWorkers] /\ dropped' \in [Workers -> BOOLEAN]
        /\ minted' \in [Workers -> Nat] /\ cur' \in [Owners -> Nat]
    BY <1>4, AttemptFailedType DEF SupDied, SupAttemptFails, births, TypeOK
  <2>4. /\ pc' = [pc EXCEPT ![Sup] = "backoff"]
        /\ UNCHANGED <<policy, root, worker, emitting, sink, stopped, ctx>>
    BY <1>4 DEF SupDied, SupAttemptFails
  <2>5. QED
    BY <2>1, <2>2, <2>3, <2>4 DEF TypeOK
<1>5. CASE SupGivesUp \/ SupReopens
  <2>1. gate' \in [phase   : {"Open", "Restarting", "GaveUp"},
                  exempt  : Owners \cup {None},
                  waiters : SUBSET Tasks,
                  closer  : 0..MaxWorkers]
    BY <1>5 DEF SupGivesUp, SupReopens, OpenGate, TypeOK
  <2>2. pc' \in [Owners -> {"idle", "gate", "woken", "call", "callback",
                          "stopping", "boot", "ready", "hook", "hookstop",
                          "off", "watch", "wait", "backoff", "done", "gaveup", "gone"}]
    <3>1. \E where \in {"gaveup", "watch"} : pc' = WakeWaiters([pc EXCEPT ![Sup] = where])
      BY <1>5 DEF SupGivesUp, SupReopens
    <3>2. QED
      BY <3>1 DEF WakeWaiters, TypeOK
  <2>3. QED
    BY <1>5, <2>1, <2>2 DEF SupGivesUp, SupReopens, TypeOK, births
<1>6. QED
  BY <1>1, <1>2, <1>3, <1>4, <1>5 DEF SupStep

(* A worker is spawned on the way to the manifest, and bound on the way on. *)
LEMMA ReadyNext ==
  ASSUME TypeOK, ReadyHasWorker, [Next]_vars
  PROVE  ReadyHasWorker'
<1> USE DEF ReadyHasWorker
<1> Sup \in Owners /\ Tasks \subseteq Owners
  BY DEF Owners
<1>1. CASE UNCHANGED vars
  BY <1>1 DEF vars, births
<1>2. ASSUME NEW w \in Workers, WorkerStep(w) PROVE ReadyHasWorker'
  BY <1>2 DEF WorkerStep, EmitSwap, EmitStatus, EmitNotify, WorkerDies, WorkerFails, OrphanEnds,
              births
<1>3. ASSUME NEW t \in Tasks, TaskStep(t) PROVE ReadyHasWorker'
  <2>1. CASE RestartEnds(t)
    BY <2>1 DEF RestartEnds, AttemptFailed, LetGo, WakeWaiters, TypeOK, births
  <2>2. CASE Call(t) \/ CallAfterWait(t)
    BY <2>2 DEF Call, CallAfterWait, AwaitWindow, Goes, TypeOK, births
  <2>3. CASE ServiceRestart(t)
    BY <2>3 DEF ServiceRestart, TypeOK
  <2>4. CASE CancelWait(t) \/ CallReturns(t) \/ CallbackStarts(t) \/ CallbackEnds(t)
             \/ CallbackRefused(t) \/ CallDies(t) \/ ServiceSupervise(t)
             \/ ServiceTerminate(t) \/ ServiceStop(t) \/ StopReturns(t)
    BY <2>4 DEF CancelWait, CallReturns, CallbackStarts, CallbackEnds, CallbackRefused, CallDies,
                ServiceSupervise, ServiceTerminate, ServiceStop, StopReturns, Goes, TypeOK, births
  <2>5. QED
    BY <1>3, <2>1, <2>2, <2>3, <2>4 DEF TaskStep
<1>4. ASSUME NEW o \in Owners, AttemptStep(o) PROVE ReadyHasWorker'
  BY <1>4 DEF AttemptStep, Spawned, Rebind, HookCallDies, HookFails, StopWorker, TypeOK, births
<1>5. CASE SupStep
  <2>1. CASE SupAttemptFails
    BY <2>1 DEF SupAttemptFails, AttemptFailed, LetGo, TypeOK
  <2>2. CASE SupWatch \/ SupStopped \/ SupDied \/ SupAttempt \/ SupGivesUp \/ SupReopens
             \/ SupCancelled
    BY <2>2 DEF SupWatch, SupStopped, SupDied, SupAttempt, SupGivesUp, SupReopens, SupCancelled,
                WakeWaiters, TypeOK, births
  <2>3. QED
    BY <1>5, <2>1, <2>2 DEF SupStep
<1>6. QED
  BY <1>1, <1>2, <1>3, <1>4, <1>5 DEF Next

(* Every step is type correct.                                              *)
LEMMA TypeNext == TypeOK /\ ReadyHasWorker /\ [Next]_vars => TypeOK'
<1> SUFFICES ASSUME TypeOK, ReadyHasWorker, [Next]_vars PROVE TypeOK'
  OBVIOUS
<1>1. CASE UNCHANGED vars
  BY <1>1 DEF vars, births, TypeOK
<1>2. QED
  BY <1>1, WorkerStepType, TaskStepType, AttemptStepType, SupStepType DEF Next

(* Types and the spawned worker of an attempt, in every reachable state.    *)
LEMMA TypeInvariant == Spec => [](TypeOK /\ ReadyHasWorker)
  BY TypeInit, TypeNext, ReadyNext, PTL DEF Spec

(* The supervision state is well-typed in every reachable state.            *)
THEOREM TypeCorrect == Spec => []TypeOK
  BY TypeInvariant, PTL

-----------------------------------------------------------------------------
(* The gate and its waiters.                        *)

(* A task is parked exactly when its entry is in the gate's list, and the   *)
(* list is empty unless a restart is going on.                              *)
GateInv ==
  /\ \A t \in Tasks : pc[t] = "gate" <=> t \in gate.waiters
  /\ gate.waiters # {} => gate.phase = "Restarting"

(* A call at the gate is let through, refused, or parked and listed.        *)
LEMMA AwaitWindowGate ==
  ASSUME TypeOK, GateInv, NEW t \in Tasks, pc[t] \in {"idle", "woken"},
         NEW w, AwaitWindow(t, w)
  PROVE  GateInv'
<1>1. CASE UNCHANGED gate /\ pc' \in {[pc EXCEPT ![t] = "idle"], [pc EXCEPT ![t] = "call"]}
  BY <1>1 DEF GateInv, TypeOK, Owners
<1>2. CASE Parks(t, w) /\ gate' = [gate EXCEPT !.waiters = @ \cup {t}]
                       /\ pc' = [pc EXCEPT ![t] = "gate"]
  BY <1>2 DEF GateInv, TypeOK, Owners, Parks
<1>3. QED
  BY <1>1, <1>2 DEF AwaitWindow, Goes

(* Opening the gate and waking everyone on its list leaves nobody parked.   *)
LEMMA WakeAllGate ==
  ASSUME TypeOK, GateInv, NEW o \in Owners, NEW where \in {"idle", "gaveup", "watch"},
         gate'.waiters = {}, pc' = WakeWaiters([pc EXCEPT ![o] = where])
  PROVE  GateInv'
  BY DEF GateInv, TypeOK, Owners, WakeWaiters

(* A step that keeps the list, moves nobody to or from the gate and does    *)
(* not open it keeps the invariant.                                         *)
LEMMA SameGate ==
  ASSUME TypeOK, GateInv, gate'.waiters = gate.waiters,
         gate'.phase = gate.phase \/ gate'.phase = "Restarting",
         \A t \in Tasks : pc'[t] = pc[t] \/ (pc[t] # "gate" /\ pc'[t] # "gate")
  PROVE  GateInv'
  BY DEF GateInv

(* Every step keeps the gate and its list of waiters in agreement.          *)
LEMMA GateNext == TypeOK /\ GateInv /\ [Next]_vars => GateInv'
<1> SUFFICES ASSUME TypeOK, GateInv, [Next]_vars PROVE GateInv'
  OBVIOUS
<1> USE DEF Owners
<1>1. CASE UNCHANGED vars
  BY <1>1 DEF vars, GateInv
<1>2. ASSUME NEW w \in Workers, WorkerStep(w) PROVE GateInv'
  BY <1>2 DEF WorkerStep, EmitSwap, EmitStatus, EmitNotify, WorkerDies, WorkerFails,
              OrphanEnds, GateInv
<1>3. ASSUME NEW t \in Tasks, TaskStep(t) PROVE GateInv'
  <2>1. CASE Call(t) \/ CallAfterWait(t)
    BY <2>1, AwaitWindowGate DEF Call, CallAfterWait
  <2>2. CASE CancelWait(t)
    BY <2>2 DEF CancelWait, Goes, GateInv, TypeOK
  <2>3. CASE CallReturns(t) \/ CallbackStarts(t) \/ CallbackEnds(t) \/ CallbackRefused(t)
    <3>1. UNCHANGED gate /\ \A u \in Tasks : pc'[u] = pc[u] \/ (pc[u] # "gate" /\ pc'[u] # "gate")
      BY <2>3 DEF CallReturns, CallbackStarts, CallbackEnds, CallbackRefused, Goes, TypeOK
    <3>2. QED
      BY <3>1, SameGate
  <2>4. CASE CallDies(t)
    <3>1. /\ gate'.waiters = gate.waiters
          /\ gate'.phase = gate.phase \/ gate'.phase = "Restarting"
      BY <2>4 DEF CallDies, Goes, NoteDead, CloseGate, TypeOK
    <3>2. \A u \in Tasks : pc'[u] = pc[u] \/ (pc[u] # "gate" /\ pc'[u] # "gate")
      BY <2>4 DEF CallDies, Goes, TypeOK
    <3>3. QED
      BY <3>1, <3>2, SameGate
  <2>5. CASE ServiceRestart(t)
    BY <2>5 DEF ServiceRestart, CloseGate, TypeOK, GateInv
  <2>6. CASE RestartEnds(t)
    <3>1. gate'.waiters = {} /\ pc' = WakeWaiters([pc EXCEPT ![t] = "idle"])
      BY <2>6 DEF RestartEnds, OpenGate, TypeOK
    <3>2. QED
      BY <3>1, WakeAllGate
  <2>7. CASE ServiceSupervise(t) \/ ServiceStop(t) \/ StopReturns(t) \/ ServiceTerminate(t)
    <3>1. UNCHANGED gate /\ \A u \in Tasks : pc'[u] = pc[u] \/ (pc[u] # "gate" /\ pc'[u] # "gate")
      BY <2>7, SupervisionAssumption
         DEF ServiceSupervise, ServiceStop, StopReturns, Goes, ServiceTerminate, TypeOK
    <3>2. QED
      BY <3>1, SameGate
  <2>8. QED
    BY <1>3, <2>1, <2>2, <2>3, <2>4, <2>5, <2>6, <2>7 DEF TaskStep
<1>4. ASSUME NEW o \in Owners, AttemptStep(o) PROVE GateInv'
  <2>1. /\ gate'.waiters = gate.waiters
        /\ gate'.phase = gate.phase \/ gate'.phase = "Restarting"
    BY <1>4 DEF AttemptStep, Spawned, Rebind, HookCallDies, HookFails, StopWorker, NoteDead,
                CloseGate, TypeOK
  <2>2. \A u \in Tasks : pc'[u] = pc[u] \/ (pc[u] # "gate" /\ pc'[u] # "gate")
    BY <1>4 DEF AttemptStep, Spawned, Rebind, HookCallDies, HookFails, StopWorker, TypeOK
  <2>3. QED
    BY <2>1, <2>2, SameGate
<1>5. CASE SupStep
  <2>1. CASE SupGivesUp \/ SupReopens
    <3>1. gate'.waiters = {} /\ \E where \in {"gaveup", "watch"} :
                                  pc' = WakeWaiters([pc EXCEPT ![Sup] = where])
      BY <2>1 DEF SupGivesUp, SupReopens, OpenGate, TypeOK
    <3>2. QED
      BY <3>1, WakeAllGate
  <2>2. CASE SupWatch \/ SupStopped \/ SupDied \/ SupAttempt \/ SupAttemptFails \/ SupCancelled
    <3>1. /\ gate'.waiters = gate.waiters
          /\ gate'.phase = gate.phase \/ gate'.phase = "Restarting"
      BY <2>2 DEF SupWatch, SupStopped, SupDied, SupAttempt, SupAttemptFails, SupCancelled,
                 CloseGate, TypeOK
    <3>2. \A u \in Tasks : pc'[u] = pc[u]
      BY <2>2, SupervisionAssumption
         DEF SupWatch, SupStopped, SupDied, SupAttempt, SupAttemptFails, SupCancelled, TypeOK
    <3>3. QED
      BY <3>1, <3>2, SameGate
  <2>3. QED
    BY <1>5, <2>1, <2>2 DEF SupStep
<1>6. QED
  BY <1>1, <1>2, <1>3, <1>4, <1>5 DEF Next

(* The gate and its list agree in every reachable state.                    *)
LEMMA GateInvariant == Spec => [](TypeOK /\ GateInv)
<1>1. Init => GateInv
  BY SupervisionAssumption DEF Init, GateInv, Owners
<1>2. QED
  BY <1>1, TypeInvariant, GateNext, PTL DEF Spec

(* await_restart_window and the three ways to open the gate, whatever       *)
(* faults happen: a caller is parked only while a restart is going on, and  *)
(* no opening of the gate leaves one behind.                                *)
THEOREM ParkedCorrect == Spec => []ParkedOnlyWhileRestarting
<1>1. TypeOK /\ GateInv => ParkedOnlyWhileRestarting
  BY DEF GateInv, ParkedOnlyWhileRestarting
<1>2. QED
  BY <1>1, GateInvariant, PTL

-----------------------------------------------------------------------------
(* The LifeSink and the threads that write it.                              *)

(* The flag is set before the status, the status before the watchers are    *)
(* drained, and nobody writes a sink whose flag is set but the thread that  *)
(* set it.                                                                  *)
SinkOK(w) ==
  /\ worker[w] \in {"unborn", "running"} => emitting[w] = "no"
  /\ emitting[w] \in {"status", "notify"} => sink[w].terminal
  /\ emitting[w] = "status" => sink[w].status = "Running"
  /\ ~sink[w].terminal => sink[w].status = "Running"
  /\ sink[w].terminal /\ emitting[w] # "status" => sink[w].status # "Running"
  /\ sink[w].terminal /\ emitting[w] \notin {"status", "notify"} => ~sink[w].watched

(* The supervisor that waits on a sink is enrolled there or has been told.  *)
SinkInv ==
  /\ \A w \in Workers : SinkOK(w)
  /\ pc[Sup] = "wait" => sink[ctx[Sup]].watched \/ sink[ctx[Sup]].delivered

(* A step that writes no sink and starts no watch.                          *)
LEMMA SameSink ==
  ASSUME SinkInv, UNCHANGED <<worker, emitting, sink>>,
         pc'[Sup] # "wait" \/ (pc[Sup] = "wait" /\ ctx'[Sup] = ctx[Sup])
  PROVE  SinkInv'
  BY DEF SinkInv, SinkOK

(* The first record of the end is kept; a new one drains the watchers.      *)
LEMMA EmitFacts ==
  ASSUME NEW s \in [terminal : BOOLEAN, status : {"Running", "Died", "Stopped"},
                    watched : BOOLEAN, delivered : BOOLEAN],
         NEW as \in {"Died", "Stopped"}
  PROVE  /\ Emit(s, as).terminal
         /\ s.terminal => Emit(s, as) = s
         /\ ~s.terminal => /\ Emit(s, as).status = as
                           /\ ~Emit(s, as).watched
         /\ s.watched \/ s.delivered => Emit(s, as).watched \/ Emit(s, as).delivered
  BY DEF Emit, NotifyWatchers

(* A parent task that records the end of a worker.                          *)
LEMMA EmitSink ==
  ASSUME TypeOK, SinkInv, NEW v \in Workers, NEW as \in {"Died", "Stopped"},
         sink' = [sink EXCEPT ![v] = Emit(@, as)],
         UNCHANGED <<worker, emitting>>,
         pc'[Sup] = pc[Sup], ctx'[Sup] = ctx[Sup]
  PROVE  SinkInv'
<1>0. ctx[Sup] \in Workers
      /\ sink[v] \in [terminal : BOOLEAN, status : {"Running", "Died", "Stopped"},
                                          watched : BOOLEAN, delivered : BOOLEAN]
  BY DEF TypeOK, Owners
<1>1. ASSUME NEW w \in Workers PROVE SinkOK(w)'
  <2>1. CASE w = v
    <3>1. SinkOK(v) /\ sink'[v] = Emit(sink[v], as)
      BY DEF SinkInv, TypeOK
    <3>2. /\ Emit(sink[v], as).terminal
          /\ sink[v].terminal => Emit(sink[v], as) = sink[v]
          /\ ~sink[v].terminal => /\ Emit(sink[v], as).status = as
                                  /\ ~Emit(sink[v], as).watched
      BY <1>0 DEF Emit, NotifyWatchers
    <3>3. QED
      BY <2>1, <3>1, <3>2 DEF SinkOK, TypeOK
  <2>2. CASE w # v
    <3>1. SinkOK(w) /\ sink'[w] = sink[w] /\ worker'[w] = worker[w] /\ emitting'[w] = emitting[w]
      BY <2>2 DEF SinkInv, TypeOK
    <3>2. QED
      BY <3>1 DEF SinkOK
  <2>3. QED
    BY <2>1, <2>2
<1>2. pc[Sup] = "wait" => sink'[ctx[Sup]].watched \/ sink'[ctx[Sup]].delivered
  <2>1. sink'[ctx[Sup]] = sink[ctx[Sup]] \/ (ctx[Sup] = v /\ sink'[v] = Emit(sink[v], as))
    BY <1>0 DEF TypeOK
  <2>2. sink[v].watched \/ sink[v].delivered
          => Emit(sink[v], as).watched \/ Emit(sink[v], as).delivered
    BY <1>0, EmitFacts
  <2>3. QED
    BY <2>1, <2>2 DEF SinkInv
<1>3. QED
  BY <1>1, <1>2 DEF SinkInv

(* The worker's thread: the three steps of its emission, and its end.       *)
LEMMA WorkerSink ==
  ASSUME TypeOK, SinkInv, NEW v \in Workers, WorkerStep(v)
  PROVE  SinkInv'
<1>1. ASSUME NEW w \in Workers PROVE SinkOK(w)'
  <2>1. CASE EmitSwap(v)
    BY <2>1 DEF EmitSwap, SinkInv, SinkOK, TypeOK
  <2>2. CASE EmitStatus(v)
    BY <2>2 DEF EmitStatus, SinkInv, SinkOK, TypeOK
  <2>3. CASE EmitNotify(v)
    BY <2>3 DEF EmitNotify, SinkInv, SinkOK, TypeOK, NotifyWatchers
  <2>4. CASE WorkerDies(v) \/ WorkerFails(v) \/ OrphanEnds(v)
    BY <2>4 DEF WorkerDies, WorkerFails, OrphanEnds, SinkInv, SinkOK, TypeOK
  <2>5. QED
    BY <2>1, <2>2, <2>3, <2>4 DEF WorkerStep
<1>2. UNCHANGED <<pc, ctx>>
  BY DEF WorkerStep, EmitSwap, EmitStatus, EmitNotify, WorkerDies, WorkerFails, OrphanEnds
<1>3. ctx[Sup] \in Workers
  BY DEF TypeOK, Owners
<1>4. pc[Sup] = "wait" => sink'[ctx[Sup]].watched \/ sink'[ctx[Sup]].delivered
  <2>1. sink'[ctx[Sup]] = sink[ctx[Sup]]
        \/ /\ sink'[ctx[Sup]].watched = sink[ctx[Sup]].watched
           /\ sink'[ctx[Sup]].delivered = sink[ctx[Sup]].delivered
        \/ sink'[ctx[Sup]] = NotifyWatchers(sink[ctx[Sup]])
    BY <1>3 DEF WorkerStep, EmitSwap, EmitStatus, EmitNotify, WorkerDies, WorkerFails,
                OrphanEnds, TypeOK
  <2>2. sink[ctx[Sup]] \in [terminal : BOOLEAN, status : {"Running", "Died", "Stopped"},
                            watched : BOOLEAN, delivered : BOOLEAN]
    BY <1>3 DEF TypeOK
  <2>3. QED
    BY <2>1, <2>2 DEF SinkInv, NotifyWatchers
<1>5. QED
  BY <1>1, <1>2, <1>4 DEF SinkInv

(* A worker that a stop or a kill ends has an emission before it.           *)
LEMMA EndedSink ==
  ASSUME TypeOK, SinkInv, NEW v \in Workers, worker[v] = "running",
         NEW as \in {"dead", "ended"},
         worker' = [worker EXCEPT ![v] = as], emitting' = [emitting EXCEPT ![v] = "swap"],
         sink' = sink \/ sink' = [sink EXCEPT ![v] = Emit(@, "Stopped")],
         UNCHANGED <<pc, ctx>>
  PROVE  SinkInv'
<1>0. ctx[Sup] \in Workers
      /\ sink[v] \in [terminal : BOOLEAN, status : {"Running", "Died", "Stopped"},
                                          watched : BOOLEAN, delivered : BOOLEAN]
  BY DEF TypeOK, Owners
<1>1. ASSUME NEW w \in Workers PROVE SinkOK(w)'
  <2>1. CASE w = v
    <3>1. SinkOK(v) /\ sink'[v] \in {sink[v], Emit(sink[v], "Stopped")}
      BY DEF SinkInv, TypeOK
    <3>2. /\ Emit(sink[v], "Stopped").terminal
          /\ sink[v].terminal => Emit(sink[v], "Stopped") = sink[v]
          /\ ~sink[v].terminal => /\ Emit(sink[v], "Stopped").status = "Stopped"
                                  /\ ~Emit(sink[v], "Stopped").watched
      BY <1>0, EmitFacts
    <3>3. QED
      BY <2>1, <3>1, <3>2 DEF SinkOK, TypeOK
  <2>2. CASE w # v
    <3>1. SinkOK(w) /\ sink'[w] = sink[w] /\ worker'[w] = worker[w] /\ emitting'[w] = emitting[w]
      BY <2>2 DEF SinkInv, TypeOK
    <3>2. QED
      BY <3>1 DEF SinkOK
  <2>3. QED
    BY <2>1, <2>2
<1>2. pc[Sup] = "wait" => sink'[ctx[Sup]].watched \/ sink'[ctx[Sup]].delivered
  <2>1. sink'[ctx[Sup]] = sink[ctx[Sup]] \/ (ctx[Sup] = v /\ sink'[v] = Emit(sink[v], "Stopped"))
    BY <1>0 DEF TypeOK
  <2>2. sink[v].watched \/ sink[v].delivered
          => Emit(sink[v], "Stopped").watched \/ Emit(sink[v], "Stopped").delivered
    BY <1>0, EmitFacts
  <2>3. QED
    BY <2>1, <2>2 DEF SinkInv
<1>3. QED
  BY <1>1, <1>2 DEF SinkInv

(* The tasks of the parent record an end only through Emit.                 *)
LEMMA TaskSink ==
  ASSUME TypeOK, SinkInv, NEW t \in Tasks, TaskStep(t)
  PROVE  SinkInv'
<1> t \in Owners /\ Sup \in Owners /\ t # Sup /\ root \in Workers /\ ctx[t] \in Workers
  BY SupervisionAssumption DEF Owners, TypeOK
<1>1. CASE Call(t) \/ CallAfterWait(t)
  <2>1. PICK w : AwaitWindow(t, w)
    BY <1>1 DEF Call, CallAfterWait
  <2>2. pc'[Sup] = pc[Sup] /\ ctx'[Sup] = ctx[Sup] /\ UNCHANGED <<worker, emitting, sink>>
    BY <1>1, <2>1 DEF Call, CallAfterWait, AwaitWindow, Goes, TypeOK
  <2>3. QED
    BY <2>2, SameSink
<1>2. CASE CancelWait(t) \/ CallReturns(t) \/ CallbackStarts(t) \/ CallbackEnds(t)
           \/ CallbackRefused(t) \/ ServiceRestart(t) \/ ServiceStop(t) \/ StopReturns(t)
  <2>1. pc'[Sup] = pc[Sup] /\ ctx'[Sup] = ctx[Sup] /\ UNCHANGED <<worker, emitting, sink>>
    BY <1>2 DEF CancelWait, CallReturns, CallbackStarts, CallbackEnds, CallbackRefused,
                ServiceRestart, ServiceStop, StopReturns, Goes, TypeOK
  <2>2. QED
    BY <2>1, SameSink
<1>3. CASE RestartEnds(t) \/ ServiceSupervise(t)
  <2>1. /\ UNCHANGED <<worker, emitting, sink>> /\ ctx'[Sup] = ctx[Sup]
        /\ pc'[Sup] = pc[Sup] \/ pc'[Sup] = "watch" \/ pc'[Sup] = "woken"
    BY <1>3 DEF RestartEnds, ServiceSupervise, WakeWaiters, TypeOK
  <2>2. QED
    BY <2>1, SameSink
<1>4. CASE CallDies(t)
  <2>1. /\ sink' = [sink EXCEPT ![ctx[t]] = Emit(@, "Died")]
        /\ pc'[Sup] = pc[Sup] /\ ctx'[Sup] = ctx[Sup] /\ UNCHANGED <<worker, emitting>>
    BY <1>4 DEF CallDies, Goes, NoteDead, CloseGate, TypeOK
  <2>2. QED
    BY <2>1, EmitSink
<1>5. CASE ServiceTerminate(t)
  <2>1. CASE worker[root] = "running"
    <3>1. /\ worker' = [worker EXCEPT ![root] = "dead"]
          /\ emitting' = [emitting EXCEPT ![root] = "swap"]
          /\ sink' = [sink EXCEPT ![root] = Emit(@, "Stopped")]
          /\ UNCHANGED <<pc, ctx>>
      BY <1>5, <2>1 DEF ServiceTerminate
    <3>2. QED
      BY <3>1, <2>1, EndedSink
  <2>2. CASE worker[root] # "running"
    <3>1. /\ UNCHANGED <<worker, emitting, pc, ctx>>
          /\ sink' = [sink EXCEPT ![root] = Emit(@, "Stopped")]
      BY <1>5, <2>2 DEF ServiceTerminate, TypeOK
    <3>2. QED
      BY <3>1, EmitSink
  <2>3. QED
    BY <2>1, <2>2
<1>6. QED
  BY <1>1, <1>2, <1>3, <1>4, <1>5 DEF TaskStep

(* A restart writes a sink only when its hook finds the worker gone.        *)
LEMMA AttemptSink ==
  ASSUME TypeOK, SinkInv, NEW o \in Owners, AttemptStep(o)
  PROVE  SinkInv'
<1> Sup \in Owners /\ root \in Workers /\ ctx[o] \in Workers
  BY DEF Owners, TypeOK
<1>0. CASE Spawned(o)
  <2>1. PICK v \in Workers : /\ worker[v] = "unborn"
                             /\ worker' = [worker EXCEPT ![v] = "running"]
    BY <1>0 DEF Spawned
  <2>2. ASSUME NEW w \in Workers PROVE SinkOK(w)'
    BY <1>0, <2>1 DEF Spawned, SinkInv, SinkOK, TypeOK
  <2>3. pc'[Sup] = "wait" => pc[Sup] = "wait" /\ ctx'[Sup] = ctx[Sup]
    BY <1>0 DEF Spawned, TypeOK
  <2>4. QED
    BY <1>0, <2>2, <2>3 DEF Spawned, SinkInv
<1>1. CASE Rebind(o)
  <2>1. pc'[Sup] # "wait" \/ (pc[Sup] = "wait" /\ ctx'[Sup] = ctx[Sup])
    BY <1>1 DEF Rebind, TypeOK
  <2>2. QED
    BY <1>1, <2>1, SameSink DEF Rebind
<1>2. CASE HookCallDies(o)
  <2>1. /\ sink' = [sink EXCEPT ![root] = Emit(@, "Died")]
        /\ UNCHANGED <<worker, emitting, pc, ctx>>
    BY <1>2 DEF HookCallDies, NoteDead
  <2>2. QED
    BY <2>1, EmitSink
<1>3. CASE HookFails(o)
  <2>1. pc'[Sup] # "wait" \/ (pc[Sup] = "wait" /\ ctx'[Sup] = ctx[Sup])
    BY <1>3 DEF HookFails, TypeOK
  <2>2. QED
    BY <1>3, <2>1, SameSink DEF HookFails
<1>4. CASE StopWorker(o)
  BY <1>4, EndedSink DEF StopWorker
<1>5. QED
  BY <1>0, <1>1, <1>2, <1>3, <1>4 DEF AttemptStep

(* The supervisor enrols once, when its watch begins.                       *)
LEMMA SupSink ==
  ASSUME TypeOK, SinkInv, SupStep
  PROVE  SinkInv'
<1> Sup \in Owners /\ root \in Workers
  BY DEF Owners, TypeOK
<1>1. CASE SupWatch
  <2>1. ASSUME NEW w \in Workers PROVE SinkOK(w)'
    BY <1>1 DEF SupWatch, Watch, SinkInv, SinkOK, TypeOK
  <2>2. ctx'[Sup] = root /\ (sink'[root].watched \/ sink'[root].delivered)
    BY <1>1 DEF SupWatch, Watch, TypeOK
  <2>3. QED
    BY <2>1, <2>2 DEF SinkInv
<1>2. CASE SupStopped \/ SupDied \/ SupAttempt \/ SupAttemptFails \/ SupGivesUp
           \/ SupReopens \/ SupCancelled
  <2>1. UNCHANGED <<worker, emitting, sink>> /\ pc'[Sup] # "wait"
    BY <1>2 DEF SupStopped, SupDied, SupAttempt, SupAttemptFails, SupGivesUp, SupReopens,
                SupCancelled, WakeWaiters, TypeOK
  <2>2. QED
    BY <2>1, SameSink
<1>3. QED
  BY <1>1, <1>2 DEF SupStep

(* Every step keeps a sink and its emitting thread in agreement.            *)
LEMMA SinkNext == TypeOK /\ SinkInv /\ [Next]_vars => SinkInv'
<1> SUFFICES ASSUME TypeOK, SinkInv, [Next]_vars PROVE SinkInv'
  OBVIOUS
<1>1. CASE UNCHANGED vars
  BY <1>1, SameSink DEF vars
<1>2. QED
  BY <1>1, WorkerSink, TaskSink, AttemptSink, SupSink DEF Next

(* Sinks and emitting threads agree in every reachable state.               *)
LEMMA SinkInvariant == Spec => [](TypeOK /\ SinkInv)
<1>1. Init => SinkInv
  BY SupervisionAssumption DEF Init, SinkInv, SinkOK, LifeSink, Owners
<1>2. QED
  BY <1>1, TypeInvariant, SinkNext, PTL DEF Spec

(* LifeSink::watch against the emitting thread: the *)
(* record of the end reaches the supervisor in every interleaving of the    *)
(* swap, the status, the drain of the watchers and the enrolment.           *)
THEOREM DeathNotMissed == Spec => []NoMissedDeath
<1>1. TypeOK /\ SinkInv => NoMissedDeath
  BY DEF TypeOK, Owners, SinkInv, SinkOK, NoMissedDeath
<1>2. QED
  BY <1>1, SinkInvariant, PTL

-----------------------------------------------------------------------------
(* What no step may do.                                                     *)

(* The status of a sink, once written, is left alone by every step.         *)
LEMMA StatusKept ==
  ASSUME TypeOK, SinkInv, [Next]_vars, NEW w \in Workers, sink[w].status # "Running"
  PROVE  sink'[w].status = sink[w].status
<1> SinkOK(w) /\ sink[w].terminal
  BY DEF SinkInv, SinkOK
<1>1. ASSUME NEW v, NEW as, sink' = [sink EXCEPT ![v] = Emit(@, as)]
      PROVE  sink'[w].status = sink[w].status
  BY <1>1 DEF Emit, TypeOK
<1>2. ASSUME NEW v \in Workers, WorkerStep(v) PROVE sink'[w].status = sink[w].status
  <2>1. CASE EmitStatus(v)
    BY <2>1 DEF EmitStatus, SinkOK, TypeOK
  <2>2. CASE EmitSwap(v)
    BY <2>2 DEF EmitSwap, TypeOK
  <2>3. CASE EmitNotify(v)
    BY <2>3 DEF EmitNotify, NotifyWatchers, TypeOK
  <2>4. CASE WorkerDies(v) \/ WorkerFails(v) \/ OrphanEnds(v)
    BY <2>4 DEF WorkerDies, WorkerFails, OrphanEnds
  <2>5. QED
    BY <1>2, <2>1, <2>2, <2>3, <2>4 DEF WorkerStep
<1>3. ASSUME NEW t \in Tasks, TaskStep(t) PROVE sink'[w].status = sink[w].status
  <2>1. CASE CallDies(t) \/ ServiceTerminate(t)
    BY <1>1, <2>1 DEF CallDies, Goes, NoteDead, CloseGate, ServiceTerminate
  <2>2. CASE UNCHANGED sink
    BY <2>2
  <2>3. QED
    BY <1>3, <2>1, <2>2 DEF TaskStep, Call, CallAfterWait, CancelWait, CallReturns,
       CallbackStarts, CallbackEnds, CallbackRefused, ServiceRestart, RestartEnds,
       ServiceSupervise, ServiceStop, StopReturns
<1>4. ASSUME NEW o \in Owners, AttemptStep(o) PROVE sink'[w].status = sink[w].status
  BY <1>1, <1>4 DEF AttemptStep, Spawned, Rebind, HookCallDies, NoteDead, HookFails, StopWorker
<1>5. CASE SupStep
  <2>1. CASE SupWatch
    BY <2>1 DEF SupWatch, Watch, TypeOK
  <2>2. CASE UNCHANGED sink
    BY <2>2
  <2>3. QED
    BY <1>5, <2>1, <2>2 DEF SupStep, SupStopped, SupDied, SupAttempt, SupAttemptFails,
       SupGivesUp, SupReopens, SupCancelled
<1>6. CASE UNCHANGED vars
  BY <1>6 DEF vars
<1>7. QED
  BY <1>2, <1>3, <1>4, <1>5, <1>6 DEF Next

(* A call that starts has passed the gate with the root's incarnation.      *)
LEMMA CallStarts ==
  ASSUME TypeOK, [Next]_vars, NEW t \in Tasks,
         pc[t] # "call", pc'[t] = "call", pc[t] # "callback"
  PROVE  minted[ctx'[t]] = minted[root] /\ ~stopped[ctx'[t]]
<1> t \in Owners /\ t # Sup
  BY SupervisionAssumption DEF Owners
<1>1. ASSUME NEW u \in Tasks, NEW w, AwaitWindow(u, w)
      PROVE  minted[ctx'[t]] = minted[root] /\ ~stopped[ctx'[t]]
  BY <1>1 DEF AwaitWindow, Goes, Passes, Refused, TypeOK, Owners
<1>2. ASSUME NEW u \in Tasks, TaskStep(u)
      PROVE  minted[ctx'[t]] = minted[root] /\ ~stopped[ctx'[t]]
  <2>1. CASE Call(u) \/ CallAfterWait(u)
    BY <1>1, <2>1 DEF Call, CallAfterWait
  <2>2. CASE CancelWait(u) \/ CallReturns(u) \/ CallbackStarts(u) \/ CallbackEnds(u)
             \/ CallbackRefused(u) \/ CallDies(u) \/ ServiceRestart(u) \/ RestartEnds(u)
             \/ ServiceSupervise(u) \/ ServiceTerminate(u) \/ ServiceStop(u) \/ StopReturns(u)
    BY <2>2 DEF CancelWait, CallReturns, CallbackStarts, CallbackEnds, CallbackRefused, CallDies,
                ServiceRestart, RestartEnds, WakeWaiters, ServiceSupervise, ServiceTerminate,
                ServiceStop, StopReturns, Goes, TypeOK, Owners
  <2>3. QED
    BY <1>2, <2>1, <2>2 DEF TaskStep
<1>3. ASSUME NEW w \in Workers, WorkerStep(w) PROVE FALSE
  BY <1>3 DEF WorkerStep, EmitSwap, EmitStatus, EmitNotify, WorkerDies, WorkerFails, OrphanEnds
<1>4. ASSUME NEW o \in Owners, AttemptStep(o) PROVE FALSE
  BY <1>4 DEF AttemptStep, Spawned, Rebind, HookCallDies, HookFails, StopWorker, TypeOK
<1>5. CASE SupStep
  BY <1>5 DEF SupStep, SupWatch, SupStopped, SupDied, SupAttempt, SupAttemptFails,
     SupGivesUp, SupReopens, SupCancelled, WakeWaiters, TypeOK
<1>6. CASE UNCHANGED vars
  BY <1>6 DEF vars
<1>7. QED
  BY <1>2, <1>3, <1>4, <1>5, <1>6 DEF Next

-----------------------------------------------------------------------------
(* Where the supervisor is.                                                 *)

(* The supervisor runs once a policy is attached, and is never at a call.   *)
PlaceInv ==
  /\ policy <=> pc[Sup] # "off"
  /\ pc[Sup] \in Attempting \cup {"off", "watch", "wait", "backoff", "done", "gaveup", "gone"}

(* Every step keeps the supervisor in its loop.                             *)
LEMMA PlaceNext == TypeOK /\ PlaceInv /\ [Next]_vars => PlaceInv'
<1> SUFFICES ASSUME TypeOK, PlaceInv, [Next]_vars PROVE PlaceInv'
  OBVIOUS
<1> Sup \in Owners /\ Sup \notin Tasks /\ Sup \notin gate.waiters
  BY SupervisionAssumption DEF Owners, TypeOK
<1>1. CASE UNCHANGED <<policy, pc>>
  BY <1>1 DEF PlaceInv
<1>2. ASSUME NEW w \in Workers, WorkerStep(w) PROVE UNCHANGED <<policy, pc>>
  BY <1>2 DEF WorkerStep, EmitSwap, EmitStatus, EmitNotify, WorkerDies, WorkerFails, OrphanEnds
<1>3. ASSUME NEW t \in Tasks, TaskStep(t) PROVE PlaceInv'
  <2>1. CASE ServiceSupervise(t)
    BY <2>1 DEF ServiceSupervise, PlaceInv, TypeOK
  <2>2. CASE Call(t) \/ CallAfterWait(t)
    BY <2>2 DEF Call, CallAfterWait, AwaitWindow, Goes, PlaceInv, TypeOK
  <2>3. CASE RestartEnds(t)
    BY <2>3 DEF RestartEnds, WakeWaiters, PlaceInv, TypeOK
  <2>4. CASE CancelWait(t) \/ CallReturns(t) \/ CallbackStarts(t) \/ CallbackEnds(t)
             \/ CallbackRefused(t) \/ CallDies(t) \/ ServiceRestart(t)
             \/ ServiceTerminate(t) \/ ServiceStop(t) \/ StopReturns(t)
    BY <2>4 DEF CancelWait, CallReturns, CallbackStarts, CallbackEnds, CallbackRefused, CallDies,
                ServiceRestart, ServiceTerminate, ServiceStop, StopReturns, Goes, PlaceInv, TypeOK
  <2>5. QED
    BY <1>3, <2>1, <2>2, <2>3, <2>4 DEF TaskStep
<1>4. ASSUME NEW o \in Owners, AttemptStep(o) PROVE PlaceInv'
  BY <1>4 DEF AttemptStep, Spawned, Rebind, HookCallDies, HookFails, StopWorker,
              Attempting, PlaceInv, TypeOK
<1>5. CASE SupStep
  BY <1>5 DEF SupStep, SupWatch, SupStopped, SupDied, SupAttempt, SupAttemptFails, AttemptFailed,
              SupGivesUp, SupReopens, SupCancelled, WakeWaiters, Attempting, PlaceInv, TypeOK
<1>6. QED
  BY <1>1, <1>2, <1>3, <1>4, <1>5 DEF Next, vars

-----------------------------------------------------------------------------
(* Who holds the workers, and what an attempt replaces.                     *)

(* Only the end of a worker is recorded as a death.                         *)
GoneOK(w) ==
  /\ emitting[w] # "no" => Gone(w)
  /\ sink[w].status = "Died" => Gone(w)

(* An attempt holds a worker exactly while it awaits the manifest; nobody   *)
(* else holds it, and neither it nor the root's has been let go of.         *)
HeldInv ==
  /\ \A o \in Owners : pc[o] = "ready" <=> fresh[o] # 0
  /\ \A o, p \in Owners : fresh[o] # 0 /\ fresh[o] = fresh[p] => o = p
  /\ \A o \in Owners : fresh[o] # 0 =>
        fresh[o] # root /\ ~dropped[fresh[o]] /\ worker[fresh[o]] # "unborn"
  /\ ~dropped[root] /\ worker[root] # "unborn"
  /\ \A w \in Workers : dropped[w] => worker[w] # "unborn"

(* Whoever is about to replace a worker has seen that worker go.            *)
ReplacesGone == \A o \in Owners : pc[o] \in {"boot", "ready", "backoff"} => Gone(ctx[o])

AttemptInv ==
  /\ NoOrphanWorker
  /\ \A w \in Workers : GoneOK(w)
  /\ HeldInv
  /\ ReplacesGone

(* The worker's thread: it can only go.                                     *)
LEMMA WorkerAttempt ==
  ASSUME TypeOK, AttemptInv, NEW v \in Workers, WorkerStep(v)
  PROVE  AttemptInv'
<1> USE DEF Gone
<1>1. UNCHANGED <<gate, policy, root, pc, ctx, fresh, dropped>>
  BY DEF WorkerStep, EmitSwap, EmitStatus, EmitNotify, WorkerDies, WorkerFails, OrphanEnds, births
<1>2. \A w \in Workers : /\ worker'[w] = "running" => worker[w] = "running"
                         /\ Gone(w) => Gone(w)'
                         /\ worker'[w] = "unborn" => worker[w] = "unborn"
  BY DEF WorkerStep, EmitSwap, EmitStatus, EmitNotify, WorkerDies, WorkerFails, OrphanEnds, TypeOK
<1>3. ASSUME NEW w \in Workers PROVE GoneOK(w)'
  <2>1. CASE EmitSwap(v)
    BY <2>1 DEF EmitSwap, AttemptInv, GoneOK, TypeOK
  <2>2. CASE EmitStatus(v)
    BY <2>2 DEF EmitStatus, AttemptInv, GoneOK, TypeOK
  <2>3. CASE EmitNotify(v)
    BY <2>3 DEF EmitNotify, NotifyWatchers, AttemptInv, GoneOK, TypeOK
  <2>4. CASE WorkerDies(v) \/ WorkerFails(v) \/ OrphanEnds(v)
    BY <2>4 DEF WorkerDies, WorkerFails, OrphanEnds, AttemptInv, GoneOK, TypeOK
  <2>5. QED
    BY <2>1, <2>2, <2>3, <2>4 DEF WorkerStep
<1>4. NoOrphanWorker' /\ ReplacesGone'
  BY <1>1, <1>2 DEF AttemptInv, NoOrphanWorker, ReplacesGone, TypeOK
<1>5. \A o \in Owners : fresh[o] # 0 => fresh[o] \in Workers
  BY SupervisionAssumption DEF TypeOK, Workers
<1>6. HeldInv'
  BY <1>1, <1>2, <1>5 DEF AttemptInv, HeldInv, TypeOK
<1>7. QED
  BY <1>3, <1>4, <1>6 DEF AttemptInv

(* A step that leaves the workers, their sinks and their holders alone.     *)
LEMMA SameHeld ==
  ASSUME TypeOK, AttemptInv, UNCHANGED <<worker, emitting, sink, root, fresh, dropped>>,
         \A o \in Owners : pc'[o] = "ready" <=> pc[o] = "ready",
         \A o \in Owners : pc'[o] \in {"boot", "ready", "backoff"} => Gone(ctx'[o])
  PROVE  AttemptInv'
  BY DEF AttemptInv, NoOrphanWorker, GoneOK, Gone, HeldInv, ReplacesGone

(* Recording the end of a worker that is gone keeps the record truthful.    *)
LEMMA EmitGone ==
  ASSUME TypeOK, AttemptInv, NEW v \in Workers, NEW as \in {"Died", "Stopped"},
         as = "Died" => Gone(v),
         sink' = [sink EXCEPT ![v] = Emit(@, as)],
         UNCHANGED <<worker, emitting, root, fresh, dropped>>,
         \A o \in Owners : pc'[o] = "ready" <=> pc[o] = "ready",
         \A o \in Owners : pc'[o] \in {"boot", "ready", "backoff"} => Gone(ctx'[o])
  PROVE  AttemptInv'
<1>1. NoOrphanWorker' /\ HeldInv' /\ ReplacesGone'
  BY DEF AttemptInv, NoOrphanWorker, HeldInv, ReplacesGone, Gone
<1>2. ASSUME NEW w \in Workers PROVE GoneOK(w)'
  <2>1. CASE w = v
    <3>1. sink'[v].status \in {sink[v].status, as}
      BY DEF TypeOK, Emit, NotifyWatchers
    <3>2. QED
      BY <2>1, <3>1 DEF AttemptInv, GoneOK, Gone
  <2>2. CASE w # v
    BY <2>2 DEF AttemptInv, GoneOK, Gone, TypeOK
  <2>3. QED
    BY <2>1, <2>2
<1>3. QED
  BY <1>1, <1>2 DEF AttemptInv

(* A worker that a stop or a kill ends is gone when its emission begins.    *)
LEMMA EndedGone ==
  ASSUME TypeOK, AttemptInv, NEW v \in Workers, worker[v] = "running",
         NEW as \in {"dead", "ended"},
         worker' = [worker EXCEPT ![v] = as], emitting' = [emitting EXCEPT ![v] = "swap"],
         sink' = sink \/ sink' = [sink EXCEPT ![v] = Emit(@, "Stopped")],
         UNCHANGED <<root, fresh, dropped, pc, ctx>>
  PROVE  AttemptInv'
<1>1. \A w \in Workers : worker'[w] = (IF w = v THEN as ELSE worker[w])
  BY DEF TypeOK
<1>2. \A w \in Workers : Gone(w) => Gone(w)'
  BY <1>1 DEF Gone
<1>3. ASSUME NEW w \in Workers PROVE GoneOK(w)'
  BY <1>1 DEF AttemptInv, GoneOK, Gone, TypeOK, Emit, NotifyWatchers
<1>4. NoOrphanWorker'
  BY <1>1 DEF AttemptInv, NoOrphanWorker
<1>5. \A o \in Owners : ctx[o] \in Workers /\ (fresh[o] # 0 => fresh[o] \in Workers)
  BY SupervisionAssumption DEF TypeOK, Workers
<1>6. HeldInv'
  <2>1. root \in Workers
    BY DEF TypeOK
  <2>2. \A w \in Workers : worker[w] # "unborn" => worker'[w] # "unborn"
    BY <1>1
  <2>3. QED
    BY <1>5, <2>1, <2>2 DEF AttemptInv, HeldInv
<1>7. ReplacesGone'
  BY <1>2, <1>5 DEF AttemptInv, ReplacesGone
<1>8. QED
  BY <1>3, <1>4, <1>6, <1>7 DEF AttemptInv

(* A task that is not attempting a restart and does not begin one.          *)
LEMMA QuietTask ==
  ASSUME TypeOK, AttemptInv, NEW t \in Tasks, pc[t] # "ready",
         NEW x \in {"idle", "gate", "call", "callback", "stopping"},
         pc' = [pc EXCEPT ![t] = x],
         \A o \in Owners : o # t => ctx'[o] = ctx[o], UNCHANGED worker
  PROVE  /\ \A o \in Owners : pc'[o] = "ready" <=> pc[o] = "ready"
         /\ \A o \in Owners : pc'[o] \in {"boot", "ready", "backoff"} => Gone(ctx'[o])
<1> t \in Owners
  BY DEF Owners
<1>1. \A o \in Owners : pc'[o] = (IF o = t THEN x ELSE pc[o])
  BY DEF TypeOK
<1>2. QED
  BY <1>1 DEF AttemptInv, ReplacesGone

(* An attempt that fails lets go of the worker it holds and of no other.    *)
LEMMA FailedAttempt ==
  ASSUME TypeOK, GateInv, AttemptInv, NEW o \in Owners, AttemptFailed(o),
         UNCHANGED <<worker, emitting, sink, root>>,
         NEW where \in {"idle", "backoff"},
         \A p \in Owners : pc'[p] = pc[p] \/ (p = o /\ pc'[p] = where)
                              \/ (pc[p] = "gate" /\ pc'[p] = "woken"),
         pc'[o] = where,
         \A p \in Owners : p # o => ctx'[p] = ctx[p],
         where = "backoff" => ctx'[o] = ctx[o]
  PROVE  AttemptInv'
<1>1. /\ \A p \in Owners : fresh'[p] = (IF p = o THEN 0 ELSE fresh[p])
      /\ \A w \in Workers : dropped'[w] = (dropped[w] \/ w = fresh[o])
  BY DEF AttemptFailed, LetGo, TypeOK
<1>2. \A p \in Owners : fresh[p] # 0 => fresh[p] \in Workers
  BY SupervisionAssumption DEF TypeOK, Workers
<1>3. root \in Workers
  BY DEF TypeOK
<1>4. HeldInv'
  <2>1. \A p \in Owners : pc'[p] = "ready" <=> fresh'[p] # 0
    BY <1>1 DEF AttemptInv, HeldInv
  <2>2. \A p \in Owners : fresh'[p] # 0 =>
          fresh'[p] # root' /\ ~dropped'[fresh'[p]] /\ worker'[fresh'[p]] # "unborn"
    BY <1>1, <1>2 DEF AttemptInv, HeldInv
  <2>3. ~dropped'[root] /\ worker[root] # "unborn"
    <3>1. fresh[o] # root
      BY <1>3, SupervisionAssumption DEF AttemptInv, HeldInv, Workers
    <3>2. QED
      BY <1>1, <1>3, <3>1 DEF AttemptInv, HeldInv
  <2>4. \A w \in Workers : dropped'[w] => worker'[w] # "unborn"
    <3>1. \A w \in Workers : w # 0
      BY SupervisionAssumption DEF Workers
    <3>2. QED
      BY <1>1, <3>1 DEF AttemptInv, HeldInv
  <2>5. \A p, q \in Owners : fresh'[p] # 0 /\ fresh'[p] = fresh'[q] => p = q
    BY <1>1 DEF AttemptInv, HeldInv
  <2>6. QED
    BY <2>1, <2>2, <2>3, <2>4, <2>5 DEF HeldInv
<1>5. NoOrphanWorker'
  <2>1. SUFFICES ASSUME NEW w \in Workers, worker[w] = "running", w # root, ~dropped'[w]
                 PROVE  \E p \in Owners : fresh'[p] = w
    BY DEF NoOrphanWorker
  <2>2. PICK p \in Owners : fresh[p] = w
    BY <1>1, <2>1 DEF AttemptInv, NoOrphanWorker
  <2>3. p # o
    BY <1>1, <2>1, <2>2
  <2>4. QED
    BY <1>1, <2>2, <2>3
<1>6. \A w \in Workers : GoneOK(w)' /\ (Gone(w) => Gone(w)')
  BY DEF AttemptInv, GoneOK, Gone
<1>7. ReplacesGone'
  <2>1. where = "backoff" => Gone(ctx[o])
    BY DEF AttemptFailed, AttemptInv, ReplacesGone
  <2>2. \A p \in Owners : ctx[p] \in Workers
    BY DEF TypeOK
  <2>3. QED
    BY <1>6, <2>1, <2>2 DEF AttemptInv, ReplacesGone
<1>8. QED
  BY <1>4, <1>5, <1>6, <1>7 DEF AttemptInv

(* Waking the gate's waiters wakes tasks that were parked at it.            *)
LEMMA WokenFromGate ==
  ASSUME TypeOK, GateInv, NEW o \in Owners, NEW where, o \notin gate.waiters,
         pc' = WakeWaiters([pc EXCEPT ![o] = where])
  PROVE  /\ pc'[o] = where
         /\ \A p \in Owners : pc'[p] = pc[p] \/ (p = o /\ pc'[p] = where)
                              \/ (p \in Tasks /\ p # o /\ pc[p] = "gate" /\ pc'[p] = "woken")
<1>1. \A p \in Owners : pc'[p] = (IF p \in gate.waiters THEN "woken"
                                  ELSE IF p = o THEN where ELSE pc[p])
  BY DEF WakeWaiters, TypeOK
<1>2. \A p \in Owners : p \in gate.waiters => p \in Tasks /\ pc[p] = "gate"
  BY DEF TypeOK, GateInv
<1>3. QED
  BY <1>1, <1>2

(* A task begins a restart only of a dead worker.                           *)
LEMMA TaskAttempt ==
  ASSUME TypeOK, GateInv, PlaceInv, AttemptInv, NEW t \in Tasks, TaskStep(t)
  PROVE  AttemptInv'
<1> t \in Owners /\ t # Sup /\ Sup \in Owners /\ Tasks \subseteq Owners
    /\ root \in Workers /\ ctx[t] \in Workers
  BY SupervisionAssumption DEF Owners, TypeOK
<1>1. CASE Call(t) \/ CallAfterWait(t)
  <2>1. PICK w : AwaitWindow(t, w)
    BY <1>1 DEF Call, CallAfterWait
  <2>2. pc[t] # "ready" /\ UNCHANGED <<root, worker, emitting, sink, fresh, dropped>>
    BY <1>1 DEF Call, CallAfterWait, births
  <2>3. /\ \E x \in {"idle", "gate", "call"} : pc' = [pc EXCEPT ![t] = x]
        /\ \A o \in Owners : o # t => ctx'[o] = ctx[o]
    BY <2>1 DEF AwaitWindow, Goes, TypeOK
  <2>4. QED
    BY <2>2, <2>3, QuietTask, SameHeld
<1>2. CASE CancelWait(t) \/ CallReturns(t) \/ CallbackStarts(t) \/ CallbackEnds(t)
           \/ CallbackRefused(t) \/ ServiceStop(t) \/ StopReturns(t)
  <2>1. pc[t] # "ready" /\ UNCHANGED <<root, worker, emitting, sink, fresh, dropped>>
    BY <1>2 DEF CancelWait, CallReturns, CallbackStarts, CallbackEnds, CallbackRefused,
                ServiceStop, StopReturns, births
  <2>2. /\ \E x \in {"idle", "call", "callback", "stopping"} : pc' = [pc EXCEPT ![t] = x]
        /\ \A o \in Owners : o # t => ctx'[o] = ctx[o]
    BY <1>2 DEF CancelWait, CallReturns, CallbackStarts, CallbackEnds, CallbackRefused,
                ServiceStop, StopReturns, Goes, TypeOK
  <2>3. QED
    BY <2>1, <2>2, QuietTask, SameHeld
<1>3. CASE CallDies(t)
  <2>1. /\ pc[t] # "ready" /\ pc' = [pc EXCEPT ![t] = "idle"]
        /\ \A o \in Owners : o # t => ctx'[o] = ctx[o]
        /\ UNCHANGED <<root, worker, emitting, fresh, dropped>> /\ Gone(ctx[t])
        /\ sink' = [sink EXCEPT ![ctx[t]] = Emit(@, "Died")]
    BY <1>3 DEF CallDies, NoteDead, Goes, TypeOK, births
  <2>2. QED
    BY <2>1, QuietTask, EmitGone
<1>4. CASE ServiceTerminate(t)
  <2>1. UNCHANGED <<root, fresh, dropped, pc, ctx>>
    BY <1>4 DEF ServiceTerminate, births
  <2>2. CASE worker[root] = "running"
    <3>1. /\ worker' = [worker EXCEPT ![root] = "dead"]
          /\ emitting' = [emitting EXCEPT ![root] = "swap"]
          /\ sink' = [sink EXCEPT ![root] = Emit(@, "Stopped")]
      BY <1>4, <2>2 DEF ServiceTerminate
    <3>2. QED
      BY <2>1, <2>2, <3>1, EndedGone
  <2>3. CASE worker[root] # "running"
    <3>1. /\ UNCHANGED <<worker, emitting>>
          /\ sink' = [sink EXCEPT ![root] = Emit(@, "Stopped")]
      BY <1>4, <2>3 DEF ServiceTerminate, TypeOK
    <3>2. \A o \in Owners : pc'[o] \in {"boot", "ready", "backoff"} => Gone(ctx'[o])
      BY <2>1 DEF AttemptInv, ReplacesGone
    <3>3. QED
      BY <2>1, <3>1, <3>2, EmitGone
  <2>4. QED
    BY <2>2, <2>3
<1>5. CASE ServiceRestart(t)
  <2>1. /\ UNCHANGED <<root, worker, emitting, sink, fresh, dropped>> /\ pc[t] = "idle"
        /\ \A o \in Owners : pc'[o] = (IF o = t THEN "boot" ELSE pc[o])
        /\ \A o \in Owners : ctx'[o] = (IF o = t THEN root ELSE ctx[o])
    BY <1>5 DEF ServiceRestart, TypeOK
  <2>2. Gone(root)
    BY <1>5 DEF ServiceRestart, AttemptInv, GoneOK
  <2>3. QED
    BY <2>1, <2>2, SameHeld DEF AttemptInv, ReplacesGone
<1>6. CASE RestartEnds(t)
  <2>1. pc[t] \in Attempting
    BY <1>6 DEF RestartEnds, AttemptFailed, Attempting
  <2>2. t \notin gate.waiters
    BY <2>1 DEF GateInv, Attempting
  <2>3. /\ pc' = WakeWaiters([pc EXCEPT ![t] = "idle"])
        /\ UNCHANGED <<root, worker, emitting, sink>>
        /\ \A o \in Owners : o # t => ctx'[o] = ctx[o]
    BY <1>6 DEF RestartEnds, TypeOK
  <2>4. /\ pc'[t] = "idle"
        /\ \A p \in Owners : pc'[p] = pc[p] \/ (p = t /\ pc'[p] = "idle")
                             \/ (p \in Tasks /\ p # t /\ pc[p] = "gate" /\ pc'[p] = "woken")
    BY <2>2, <2>3, WokenFromGate
  <2>5. CASE pc[t] = "hook" /\ UNCHANGED births
    BY <2>3, <2>4, <2>5, SameHeld DEF births, AttemptInv, ReplacesGone
  <2>6. CASE AttemptFailed(t)
    BY <2>3, <2>4, <2>6, FailedAttempt
  <2>7. QED
    BY <1>6, <2>5, <2>6 DEF RestartEnds
<1>7. CASE ServiceSupervise(t)
  <2>1. /\ UNCHANGED <<root, worker, emitting, sink, fresh, dropped, ctx>>
        /\ \A o \in Owners : pc'[o] = (IF o = Sup THEN "watch" ELSE pc[o])
    BY <1>7 DEF ServiceSupervise, TypeOK, births
  <2>2. pc[Sup] = "off"
    BY <1>7 DEF ServiceSupervise, PlaceInv
  <2>3. QED
    BY <2>1, <2>2, SameHeld DEF AttemptInv, ReplacesGone
<1>8. QED
  BY <1>1, <1>2, <1>3, <1>4, <1>5, <1>6, <1>7 DEF TaskStep

(* An attempt spawns, binds and stops workers.                              *)
LEMMA StepAttempt ==
  ASSUME TypeOK, AttemptInv, NEW o \in Owners, AttemptStep(o)
  PROVE  AttemptInv'
<1> root \in Workers /\ ctx[o] \in Workers /\ \A w \in Workers : w # 0
  BY SupervisionAssumption DEF TypeOK, Workers
<1>0. \A p \in Owners : fresh[p] # 0 => fresh[p] \in Workers
  BY SupervisionAssumption DEF TypeOK, Workers
<1>1. CASE Spawned(o)
  <2>1. PICK v \in Workers : /\ worker[v] = "unborn"
                             /\ worker' = [worker EXCEPT ![v] = "running"]
                             /\ fresh' = [fresh EXCEPT ![o] = v]
    BY <1>1 DEF Spawned
  <2>2. /\ UNCHANGED <<root, emitting, sink, ctx, dropped>>
        /\ pc[o] = "boot" /\ fresh[o] = 0
        /\ \A p \in Owners : pc'[p] = (IF p = o THEN "ready" ELSE pc[p])
        /\ \A p \in Owners : fresh'[p] = (IF p = o THEN v ELSE fresh[p])
        /\ \A w \in Workers : worker'[w] = (IF w = v THEN "running" ELSE worker[w])
    BY <1>1, <2>1 DEF Spawned, AttemptInv, HeldInv, TypeOK
  <2>3. \A w \in Workers : Gone(w) => Gone(w)'
    BY <2>1, <2>2 DEF Gone
  <2>4. \A w \in Workers : GoneOK(w)'
    BY <2>2, <2>3 DEF AttemptInv, GoneOK
  <2>5. NoOrphanWorker'
    BY <2>2 DEF AttemptInv, NoOrphanWorker
  <2>6. HeldInv'
    <3>1. root # v /\ ~dropped[v] /\ \A p \in Owners : fresh[p] # v
      BY <2>1, <1>0 DEF AttemptInv, HeldInv
    <3>2. QED
      BY <1>0, <2>2, <3>1 DEF AttemptInv, HeldInv
  <2>7. ReplacesGone'
    BY <2>2, <2>3 DEF AttemptInv, ReplacesGone, TypeOK
  <2>8. QED
    BY <2>4, <2>5, <2>6, <2>7 DEF AttemptInv
<1>2. CASE Rebind(o)
  <2>1. /\ UNCHANGED <<worker, emitting, sink>> /\ root' = fresh[o]
        /\ pc[o] = "ready"
        /\ \A p \in Owners : pc'[p] = (IF p = o THEN "hook" ELSE pc[p])
        /\ \A p \in Owners : fresh'[p] = (IF p = o THEN 0 ELSE fresh[p])
        /\ \A p \in Owners : ctx'[p] = (IF p = o THEN fresh[o] ELSE ctx[p])
        /\ \A w \in Workers : dropped'[w] = (dropped[w] \/ w = root)
    BY <1>2 DEF Rebind, TypeOK
  <2>2. fresh[o] # 0
    BY <2>1 DEF AttemptInv, HeldInv
  <2>3. \A w \in Workers : GoneOK(w)' /\ (Gone(w) => Gone(w)')
    BY <2>1 DEF AttemptInv, GoneOK, Gone
  <2>4. NoOrphanWorker'
    <3>1. SUFFICES ASSUME NEW w \in Workers, worker[w] = "running", w # fresh[o], ~dropped'[w]
                   PROVE  \E p \in Owners : fresh'[p] = w
      BY <2>1 DEF NoOrphanWorker
    <3>2. PICK p \in Owners : fresh[p] = w
      BY <2>1, <3>1 DEF AttemptInv, NoOrphanWorker
    <3>3. QED
      BY <2>1, <3>1, <3>2
  <2>5. HeldInv'
    <3>1. fresh[o] \in Workers /\ ~dropped'[fresh[o]] /\ worker[fresh[o]] # "unborn"
      BY <1>0, <2>1, <2>2 DEF AttemptInv, HeldInv
    <3>2. \A p \in Owners : pc'[p] = "ready" <=> fresh'[p] # 0
      BY <2>1 DEF AttemptInv, HeldInv
    <3>3. \A p, q \in Owners : fresh'[p] # 0 /\ fresh'[p] = fresh'[q] => p = q
      BY <2>1 DEF AttemptInv, HeldInv
    <3>4. ASSUME NEW p \in Owners, fresh'[p] # 0
          PROVE  fresh'[p] # root' /\ ~dropped'[fresh'[p]] /\ worker'[fresh'[p]] # "unborn"
      <4>1. p # o /\ fresh'[p] = fresh[p] /\ fresh[p] # 0 /\ fresh[p] \in Workers
        BY <1>0, <2>1, <3>4
      <4>2. fresh[p] # fresh[o] /\ fresh[p] # root /\ ~dropped[fresh[p]]
            /\ worker[fresh[p]] # "unborn"
        BY <4>1 DEF AttemptInv, HeldInv
      <4>3. QED
        BY <2>1, <4>1, <4>2
    <3>5. \A w \in Workers : dropped'[w] => worker'[w] # "unborn"
      BY <2>1 DEF AttemptInv, HeldInv
    <3>6. QED
      BY <2>1, <3>1, <3>2, <3>3, <3>4, <3>5 DEF HeldInv
  <2>6. ReplacesGone'
    BY <2>1, <2>3 DEF AttemptInv, ReplacesGone, TypeOK
  <2>7. QED
    BY <2>3, <2>4, <2>5, <2>6 DEF AttemptInv
<1>3. CASE HookCallDies(o)
  <2>1. /\ Gone(root) /\ UNCHANGED <<root, worker, emitting, pc, ctx, fresh, dropped>>
        /\ sink' = [sink EXCEPT ![root] = Emit(@, "Died")]
    BY <1>3 DEF HookCallDies, NoteDead, births
  <2>2. \A p \in Owners : pc'[p] \in {"boot", "ready", "backoff"} => Gone(ctx'[p])
    BY <2>1 DEF AttemptInv, ReplacesGone
  <2>3. QED
    BY <2>1, <2>2, EmitGone
<1>4. CASE HookFails(o)
  <2>1. /\ UNCHANGED <<root, worker, emitting, sink, fresh, dropped>> /\ pc[o] = "hook"
        /\ \A p \in Owners : pc'[p] = (IF p = o THEN "hookstop" ELSE pc[p])
        /\ \A p \in Owners : ctx'[p] = (IF p = o THEN root ELSE ctx[p])
    BY <1>4 DEF HookFails, TypeOK, births
  <2>2. QED
    BY <2>1, SameHeld DEF AttemptInv, ReplacesGone
<1>5. CASE StopWorker(o)
  BY <1>5, EndedGone DEF StopWorker, births
<1>6. QED
  BY <1>1, <1>2, <1>3, <1>4, <1>5 DEF AttemptStep

(* The supervisor attempts only when the worker it watched has died.        *)
LEMMA SupAttempts ==
  ASSUME TypeOK, GateInv, AttemptInv, SupStep
  PROVE  AttemptInv'
<1> root \in Workers /\ ctx[Sup] \in Workers /\ Sup \in Owners /\ Sup \notin gate.waiters
  BY SupervisionAssumption DEF Owners, TypeOK
<1>1. CASE SupWatch
  <2>1. ASSUME NEW w \in Workers PROVE GoneOK(w)'
    BY <1>1 DEF SupWatch, Watch, AttemptInv, GoneOK, Gone, TypeOK
  <2>2. /\ UNCHANGED <<root, worker, fresh, dropped>> /\ pc[Sup] = "watch"
        /\ \A p \in Owners : pc'[p] = (IF p = Sup THEN "wait" ELSE pc[p])
        /\ \A p \in Owners : ctx'[p] = (IF p = Sup THEN root ELSE ctx[p])
    BY <1>1 DEF SupWatch, TypeOK, births
  <2>3. HeldInv' /\ ReplacesGone' /\ NoOrphanWorker'
    BY <2>2 DEF AttemptInv, HeldInv, ReplacesGone, NoOrphanWorker, Gone
  <2>4. QED
    BY <2>1, <2>3 DEF AttemptInv
<1>2. CASE SupStopped \/ SupDied \/ SupAttempt \/ SupCancelled
  <2>1. /\ UNCHANGED <<root, worker, emitting, sink, fresh, dropped, ctx>>
        /\ pc[Sup] \in {"wait", "backoff"} /\ pc'[Sup] \in {"done", "backoff", "boot", "gone"}
        /\ \A p \in Owners : p # Sup => pc'[p] = pc[p]
    BY <1>2 DEF SupStopped, SupDied, SupAttempt, SupCancelled, TypeOK, births
  <2>2. pc'[Sup] \in {"backoff", "boot"} => Gone(ctx[Sup])
    BY <1>2 DEF SupStopped, SupDied, SupAttempt, SupCancelled, AttemptInv, GoneOK, ReplacesGone,
                TypeOK
  <2>3. QED
    BY <2>1, <2>2, SameHeld DEF AttemptInv, ReplacesGone
<1>3. CASE SupAttemptFails
  <2>1. /\ AttemptFailed(Sup) /\ UNCHANGED <<root, worker, emitting, sink, ctx>>
        /\ \A p \in Owners : pc'[p] = (IF p = Sup THEN "backoff" ELSE pc[p])
    BY <1>3 DEF SupAttemptFails, TypeOK
  <2>2. QED
    BY <2>1, FailedAttempt
<1>4. CASE SupGivesUp \/ SupReopens
  <2>1. PICK where \in {"gaveup", "watch"} : pc' = WakeWaiters([pc EXCEPT ![Sup] = where])
    BY <1>4 DEF SupGivesUp, SupReopens
  <2>2. /\ pc'[Sup] = where
        /\ \A p \in Owners : pc'[p] = pc[p] \/ (p = Sup /\ pc'[p] = where)
                             \/ (p \in Tasks /\ p # Sup /\ pc[p] = "gate" /\ pc'[p] = "woken")
    BY <2>1, WokenFromGate
  <2>3. /\ UNCHANGED <<root, worker, emitting, sink, fresh, dropped, ctx>>
        /\ pc[Sup] \in {"backoff", "hook"}
    BY <1>4 DEF SupGivesUp, SupReopens, births
  <2>4. QED
    BY <2>2, <2>3, SameHeld DEF AttemptInv, ReplacesGone
<1>5. QED
  BY <1>1, <1>2, <1>3, <1>4 DEF SupStep

(* Every step keeps the workers held and the replaced ones gone.            *)
LEMMA AttemptNext ==
  TypeOK /\ GateInv /\ PlaceInv /\ AttemptInv /\ [Next]_vars => AttemptInv'
<1> SUFFICES ASSUME TypeOK, GateInv, PlaceInv, AttemptInv, [Next]_vars PROVE AttemptInv'
  OBVIOUS
<1>1. CASE UNCHANGED vars
  BY <1>1, SameHeld DEF vars, births, AttemptInv, ReplacesGone
<1>2. QED
  BY <1>1, WorkerAttempt, TaskAttempt, StepAttempt, SupAttempts DEF Next

(* No restart is attempted at the start.                                    *)
LEMMA AttemptInit == Init => PlaceInv /\ AttemptInv
<1> SUFFICES ASSUME Init PROVE PlaceInv /\ AttemptInv
  OBVIOUS
<1>1. NoOrphanWorker /\ \A w \in Workers : GoneOK(w)
  BY DEF Init, NoOrphanWorker, GoneOK, Gone, LifeSink
<1>2. 1 \in Workers
  BY SupervisionAssumption DEF Workers
<1>3. HeldInv /\ ReplacesGone /\ PlaceInv
  BY <1>2, SupervisionAssumption
     DEF Init, HeldInv, ReplacesGone, PlaceInv, Attempting, Owners
<1>4. QED
  BY <1>1, <1>3 DEF AttemptInv

(* What the steps below may use of the earlier invariants.                  *)
Known == TypeOK /\ ReadyHasWorker /\ GateInv /\ SinkInv /\ PlaceInv /\ AttemptInv

(* All of them hold in every reachable state.                               *)
LEMMA KnownInvariant == Spec => []Known
<1>1. Spec => [](TypeOK /\ PlaceInv)
  BY AttemptInit, TypeInvariant, PlaceNext, PTL DEF Spec
<1>2. Spec => []AttemptInv
  BY <1>1, AttemptInit, GateInvariant, AttemptNext, PTL DEF Spec
<1>3. QED
  BY <1>1, <1>2, TypeInvariant, GateInvariant, SinkInvariant, PTL DEF Known

(* serviceRestart and the supervisor leave nobody and nothing behind, for   *)
(* every interleaving with dying workers, late callers, failing bodies,     *)
(* refused manifests, overlapping attempts and a cancelled supervisor.      *)
THEOREM RestartCorrect == Spec => []RestartIsComplete
<1>1. AttemptInv => NoOrphanWorker
  BY DEF AttemptInv
<1>2. QED
  BY <1>1, KnownInvariant, ParkedCorrect, DeathNotMissed, PTL DEF RestartIsComplete, Known

(* Lives only go forward: await_restart_window lets a call start only with  *)
(* the root's incarnation number, the terminal record of a LifeSink is      *)
(* written once, and restart_attempt replaces a worker that is gone or one  *)
(* that another attempt has bound since.                                    *)
THEOREM LivesCorrect == Spec => LivesGoForward
<1>1. Known /\ [Next]_vars =>
        [\A t \in Tasks : pc[t] # "call" /\ pc'[t] = "call" /\ pc[t] # "callback"
           => minted[ctx'[t]] = minted[root] /\ ~stopped[ctx'[t]]]_vars
  BY CallStarts DEF Known
<1>2. Known /\ [Next]_vars =>
        [\A w \in Workers : sink[w].status # "Running" => sink'[w].status = sink[w].status]_vars
  BY StatusKept DEF Known
<1>3. Known /\ [Next]_vars =>
        [\A o \in Owners : pc[o] = "ready" /\ pc'[o] = "hook"
           => Gone(root) \/ ctx[o] # root]_vars
  BY DEF Known, AttemptInv, ReplacesGone
<1>4. QED
  BY <1>1, <1>2, <1>3, KnownInvariant, PTL
     DEF Spec, LivesGoForward, CallsCurrent, FirstTerminalWins, RestartFollowsDeath

-----------------------------------------------------------------------------
(* A closed gate has an opener, or is left behind in one of the ways that   *)
(* Stranded names.                                                          *)

(* A worker ends, and its end is recorded as a stop, only when somebody     *)
(* asked for it, when the parent let go of it, or when its body failed.     *)
StopAsked(w) ==
  /\ worker[w] = "ended" => stopped[w] \/ dropped[w]
  /\ sink[w].status = "Stopped" => stopped[w] \/ dropped[w] \/ worker[w] = "failed"

(* The death of the root's worker is recorded or about to be.               *)
RootDying ==
  /\ sink[root].terminal /\ sink[root].status # "Stopped"
  /\ sink[root].status = "Running" => worker[root] = "dead"

(* A restart is in flight, the supervisor is about to hear of the death of  *)
(* the root's worker, or nobody is going to open the gate.                  *)
GateOpener ==
  \/ \E o \in Owners : pc[o] \in Attempting \cup {"backoff"}
  \/ pc[Sup] \in {"watch", "wait"} /\ RootDying
  \/ Stranded

(* Supervision ends with a stop of the worker that was watched, and a       *)
(* closed gate has its opener.                                              *)
OpenerInv ==
  /\ \A w \in Workers : StopAsked(w)
  /\ \A o \in Owners : pc[o] \in {"stopping", "hookstop"} => stopped[ctx[o]]
  /\ pc[Sup] = "done" => sink[ctx[Sup]].status = "Stopped"
  /\ gate.phase = "Restarting" => GateOpener

(* A step that neither closes the gate nor ends an attempt.                 *)
LEMMA SameOpener ==
  ASSUME OpenerInv, UNCHANGED root,
         gate'.phase = "Restarting" => gate.phase = "Restarting" /\ gate'.closer = gate.closer,
         pc'[Sup] = pc[Sup], ctx'[Sup] = ctx[Sup],
         RootDying => RootDying', worker[root] = "failed" => worker'[root] = "failed",
         \A o \in Owners : pc[o] \in Attempting \cup {"backoff"}
                             => pc'[o] \in Attempting \cup {"backoff"}
  PROVE  gate'.phase = "Restarting" => GateOpener'
<1> SUFFICES ASSUME gate'.phase = "Restarting" PROVE GateOpener'
  OBVIOUS
<1>1. GateOpener
  BY DEF OpenerInv
<1>2. Stranded => Stranded'
  BY DEF Stranded
<1>3. QED
  BY <1>1, <1>2 DEF GateOpener

(* The worker's thread records a stop only of a worker that may stop.       *)
LEMMA WorkerOpener ==
  ASSUME Known, OpenerInv, NEW v \in Workers, WorkerStep(v)
  PROVE  OpenerInv'
<1> root \in Workers /\ SinkOK(v) /\ GoneOK(v) /\ TypeOK /\ ~dropped[root]
    /\ \A o \in Owners : ctx[o] \in Workers
  BY DEF Known, TypeOK, SinkInv, AttemptInv, HeldInv
<1>1. UNCHANGED <<gate, policy, root, pc, ctx, stopped, dropped>>
  BY DEF WorkerStep, EmitSwap, EmitStatus, EmitNotify, WorkerDies, WorkerFails, OrphanEnds, births
<1>2. ASSUME NEW w \in Workers PROVE StopAsked(w)'
  <2>0. CASE EmitSwap(v)
    BY <1>1, <2>0 DEF EmitSwap, OpenerInv, StopAsked, TypeOK
  <2>1. CASE EmitNotify(v)
    BY <1>1, <2>1 DEF EmitNotify, NotifyWatchers, OpenerInv, StopAsked, TypeOK
  <2>2. CASE EmitStatus(v)
    BY <1>1, <2>2 DEF EmitStatus, OpenerInv, StopAsked, GoneOK, Gone, TypeOK
  <2>3. CASE WorkerDies(v) \/ WorkerFails(v) \/ OrphanEnds(v)
    BY <1>1, <2>3 DEF WorkerDies, WorkerFails, OrphanEnds, OpenerInv, StopAsked, TypeOK
  <2>4. QED
    BY <2>0, <2>1, <2>2, <2>3 DEF WorkerStep
<1>3. RootDying => RootDying'
  <2>0. CASE EmitSwap(v)
    BY <1>1, <2>0 DEF EmitSwap, RootDying, TypeOK
  <2>1. CASE EmitNotify(v)
    BY <1>1, <2>1 DEF EmitNotify, NotifyWatchers, RootDying, TypeOK
  <2>2. CASE EmitStatus(v)
    BY <1>1, <2>2 DEF EmitStatus, RootDying, SinkOK, TypeOK
  <2>3. CASE WorkerDies(v) \/ WorkerFails(v) \/ OrphanEnds(v)
    BY <1>1, <2>3 DEF WorkerDies, WorkerFails, OrphanEnds, RootDying, TypeOK
  <2>4. QED
    BY <2>0, <2>1, <2>2, <2>3 DEF WorkerStep
<1>4. \A w \in Workers : sink[w].status = "Stopped" => sink'[w].status = "Stopped"
  BY StatusKept DEF Known, Next
<1>5. worker[root] = "failed" => worker'[root] = "failed"
  BY DEF WorkerStep, EmitSwap, EmitStatus, EmitNotify, WorkerDies, WorkerFails, OrphanEnds, TypeOK
<1>6. gate'.phase = "Restarting" => GateOpener'
  BY <1>1, <1>3, <1>5, SameOpener
<1>7. Sup \in Owners
  BY DEF Owners
<1>8. QED
  BY <1>1, <1>2, <1>4, <1>6, <1>7 DEF OpenerInv

(* A call that finds the root's worker gone leaves its death on record,     *)
(* unless the service was stopped or its body failed.                       *)
LEMMA NotedDying ==
  ASSUME Known, OpenerInv, Gone(root), ~stopped[root], worker[root] # "failed",
         sink' = [sink EXCEPT ![root] = Emit(@, "Died")], UNCHANGED <<worker, root>>
  PROVE  RootDying'
<1>1. root \in Workers /\ SinkOK(root) /\ StopAsked(root) /\ TypeOK /\ ~dropped[root]
  BY DEF Known, TypeOK, SinkInv, OpenerInv, AttemptInv, HeldInv
<1>2. sink'[root] = Emit(sink[root], "Died")
  BY <1>1 DEF TypeOK
<1>3. worker[root] = "dead" /\ sink[root].status # "Stopped"
  BY <1>1 DEF StopAsked, Gone
<1>4. CASE sink[root].terminal
  BY <1>2, <1>3, <1>4 DEF Emit, RootDying
<1>5. CASE ~sink[root].terminal
  <2>1. sink[root] \in [terminal : BOOLEAN, status : {"Running", "Died", "Stopped"},
                        watched : BOOLEAN, delivered : BOOLEAN]
    BY <1>1 DEF TypeOK
  <2>2. sink'[root].terminal /\ sink'[root].status = "Died"
    BY <1>2, <1>5, <2>1, EmitFacts
  <2>3. QED
    BY <2>2 DEF RootDying
<1>6. QED
  BY <1>4, <1>5

(* Recording a death asks for no stop and unsays none.                      *)
LEMMA NotedAsked ==
  ASSUME Known, OpenerInv, NEW v \in Workers,
         sink' = [sink EXCEPT ![v] = Emit(@, "Died")], UNCHANGED <<worker, stopped, dropped, root>>
  PROVE  /\ \A w \in Workers : StopAsked(w)'
         /\ \A w \in Workers : sink[w].status = "Stopped" => sink'[w].status = "Stopped"
         /\ RootDying => RootDying'
<1> TypeOK /\ root \in Workers
  BY DEF Known, TypeOK
<1>1. ASSUME NEW w \in Workers
      PROVE  /\ StopAsked(w)' /\ (sink[w].status = "Stopped" => sink'[w].status = "Stopped")
             /\ (sink[w].terminal => sink'[w] = sink[w])
  <2>1. sink'[w] = sink[w] \/ sink'[w] = Emit(sink[w], "Died")
    BY DEF TypeOK
  <2>2. sink[w] \in [terminal : BOOLEAN, status : {"Running", "Died", "Stopped"},
                     watched : BOOLEAN, delivered : BOOLEAN]
    BY DEF TypeOK
  <2>3. /\ sink'[w].status = "Stopped" => sink[w].status = "Stopped"
        /\ sink[w].terminal => sink'[w] = sink[w]
    BY <2>1, <2>2 DEF Emit, NotifyWatchers
  <2>4. sink[w].status = "Stopped" => sink[w].terminal
    BY DEF Known, SinkInv, SinkOK
  <2>5. QED
    BY <2>3, <2>4 DEF OpenerInv, StopAsked
<1>2. QED
  BY <1>1 DEF RootDying

(* A call that closes the gate: the supervisor has a death to hear of, or   *)
(* the gate is left behind.                                                 *)
LEMMA NotedOpener ==
  ASSUME Known, OpenerInv, NEW w \in Workers, Gone(w), NoteDead(w),
         UNCHANGED <<worker, stopped, dropped, root>>, pc'[Sup] = pc[Sup], ctx'[Sup] = ctx[Sup],
         \A o \in Owners : pc[o] \in Attempting \cup {"backoff"} => pc'[o] = pc[o]
  PROVE  gate'.phase = "Restarting" => GateOpener'
<1> SUFFICES ASSUME gate'.phase = "Restarting" PROVE GateOpener'
  OBVIOUS
<1>0. sink' = [sink EXCEPT ![w] = Emit(@, "Died")] /\ Sup \in Owners /\ TypeOK
      /\ ctx[Sup] \in Workers
  BY DEF NoteDead, Owners, Known, TypeOK
<1>1. RootDying => RootDying'
  BY <1>0, NotedAsked
<1>2. CASE gate.phase = "Restarting"
  <2>1. gate'.closer = gate.closer
    BY <1>2 DEF NoteDead
  <2>2. QED
    BY <1>1, <1>2, <2>1, SameOpener
<1>3. CASE gate.phase # "Restarting"
  <2>1. policy /\ ~stopped[w] /\ gate'.closer = w
    BY <1>0, <1>3 DEF NoteDead, CloseGate, TypeOK
  <2>2. CASE w # root \/ worker[root] = "failed"
    BY <2>1, <2>2 DEF GateOpener, Stranded
  <2>3. CASE w = root /\ worker[root] # "failed"
    <3>1. RootDying'
      BY <1>0, <2>1, <2>3, NotedDying
    <3>2. pc[Sup] \in Attempting \cup {"watch", "wait", "backoff", "done", "gaveup", "gone"}
      BY <2>1 DEF Known, PlaceInv
    <3>3. pc[Sup] = "done" => ctx[Sup] # root
      <4>1. sink[ctx[Sup]].status = "Stopped" => sink'[ctx[Sup]].status = "Stopped"
        BY <1>0, NotedAsked
      <4>2. QED
        BY <3>1, <4>1 DEF OpenerInv, RootDying
    <3>4. CASE pc[Sup] \in {"done", "gaveup", "gone"}
      BY <3>3, <3>4 DEF GateOpener, Stranded
    <3>5. CASE pc[Sup] \in {"watch", "wait"}
      BY <3>1, <3>5 DEF GateOpener
    <3>6. CASE pc[Sup] \in Attempting \cup {"backoff"}
      BY <1>0, <3>6 DEF GateOpener
    <3>7. QED
      BY <3>2, <3>4, <3>5, <3>6
  <2>4. QED
    BY <2>2, <2>3
<1>4. QED
  BY <1>2, <1>3

(* A step that leaves the workers and sinks, and the supervisor with its    *)
(* snapshot, as they are, and closes no gate.                               *)
LEMMA QuietOpener ==
  ASSUME Known, OpenerInv, NEW t \in Tasks, pc[t] \notin Attempting \cup {"backoff"},
         NEW x \in {"idle", "gate", "call", "callback", "stopping"},
         pc' = [pc EXCEPT ![t] = x],
         UNCHANGED <<root, worker, sink, dropped>>,
         gate'.phase = gate.phase, gate'.closer = gate.closer,
         \A o \in Owners : o # t => ctx'[o] = ctx[o],
         \A w \in Workers : stopped[w] => stopped'[w],
         x = "stopping" => stopped'[ctx'[t]]
  PROVE  OpenerInv'
<1> /\ t \in Owners /\ t # Sup /\ Sup \in Owners /\ TypeOK
    /\ \A o \in Owners : ctx[o] \in Workers
  BY SupervisionAssumption DEF Owners, Known, TypeOK
<1>1. \A o \in Owners : pc'[o] = (IF o = t THEN x ELSE pc[o])
  BY DEF TypeOK
<1>2. \A w \in Workers : StopAsked(w)'
  BY DEF OpenerInv, StopAsked
<1>3. \A o \in Owners : pc'[o] \in {"stopping", "hookstop"} => stopped'[ctx'[o]]
  BY <1>1 DEF OpenerInv
<1>4. gate'.phase = "Restarting" => GateOpener'
  <2>1. RootDying => RootDying'
    BY DEF RootDying
  <2>2. QED
    BY <1>1, <2>1, SameOpener
<1>5. QED
  BY <1>1, <1>2, <1>3, <1>4 DEF OpenerInv

(* The tasks: a call may close the gate, and a manual restart opens it.     *)
LEMMA TaskOpener ==
  ASSUME Known, OpenerInv, NEW t \in Tasks, TaskStep(t)
  PROVE  OpenerInv'
<1> /\ t \in Owners /\ t # Sup /\ Sup \in Owners /\ TypeOK /\ GateInv
    /\ root \in Workers /\ \A o \in Owners : ctx[o] \in Workers
  BY SupervisionAssumption DEF Owners, Known, TypeOK
<1>1. CASE Call(t) \/ CallAfterWait(t)
  <2>1. PICK w : AwaitWindow(t, w)
    BY <1>1 DEF Call, CallAfterWait
  <2>2. /\ pc[t] \notin Attempting \cup {"backoff"}
        /\ UNCHANGED <<root, worker, sink, stopped, dropped>>
    BY <1>1 DEF Call, CallAfterWait, Attempting, births
  <2>3. /\ gate'.phase = gate.phase /\ gate'.closer = gate.closer
        /\ \A o \in Owners : o # t => ctx'[o] = ctx[o]
    BY <2>1 DEF AwaitWindow, Goes, TypeOK
  <2>4. PICK x \in {"idle", "gate", "call"} : pc' = [pc EXCEPT ![t] = x]
    BY <2>1 DEF AwaitWindow, Goes
  <2>5. QED
    BY <2>2, <2>3, <2>4, QuietOpener
<1>2. CASE CancelWait(t) \/ CallReturns(t) \/ CallbackRefused(t) \/ StopReturns(t)
  <2>1. /\ pc[t] \notin Attempting \cup {"backoff"}
        /\ UNCHANGED <<root, worker, sink, stopped, dropped>>
        /\ gate'.phase = gate.phase /\ gate'.closer = gate.closer
        /\ pc' = [pc EXCEPT ![t] = "idle"]
        /\ \A o \in Owners : o # t => ctx'[o] = ctx[o]
    BY <1>2 DEF CancelWait, CallReturns, CallbackRefused, StopReturns, Goes, Attempting, TypeOK,
                births
  <2>2. QED
    BY <2>1, QuietOpener
<1>3. CASE CallbackStarts(t) \/ CallbackEnds(t)
  <2>1. PICK x \in {"call", "callback"} : pc' = [pc EXCEPT ![t] = x]
    BY <1>3 DEF CallbackStarts, CallbackEnds
  <2>2. /\ pc[t] \notin Attempting \cup {"backoff"}
        /\ UNCHANGED <<root, worker, sink, stopped, dropped, ctx, gate>>
    BY <1>3 DEF CallbackStarts, CallbackEnds, Attempting, births
  <2>3. QED
    BY <2>1, <2>2, QuietOpener
<1>4. CASE ServiceStop(t)
  <2>1. /\ pc[t] \notin Attempting \cup {"backoff"}
        /\ UNCHANGED <<root, worker, sink, gate, dropped>>
        /\ pc' = [pc EXCEPT ![t] = "stopping"] /\ ctx'[t] = root /\ stopped'[root]
        /\ \A w \in Workers : stopped[w] => stopped'[w]
        /\ \A o \in Owners : o # t => ctx'[o] = ctx[o]
    BY <1>4 DEF ServiceStop, Attempting, TypeOK, births
  <2>2. QED
    BY <2>1, QuietOpener
<1>5. CASE CallDies(t)
  <2>1. /\ Gone(ctx[t]) /\ NoteDead(ctx[t]) /\ pc[t] = "call"
        /\ UNCHANGED <<root, worker, stopped, dropped>>
        /\ sink' = [sink EXCEPT ![ctx[t]] = Emit(@, "Died")]
        /\ \A o \in Owners : pc'[o] = (IF o = t THEN "idle" ELSE pc[o])
        /\ \A o \in Owners : o # t => ctx'[o] = ctx[o]
    BY <1>5 DEF CallDies, NoteDead, Goes, TypeOK, births
  <2>2. /\ \A w \in Workers : StopAsked(w)'
        /\ \A w \in Workers : sink[w].status = "Stopped" => sink'[w].status = "Stopped"
    BY <2>1, NotedAsked
  <2>3. gate'.phase = "Restarting" => GateOpener'
    <3>1. \A o \in Owners : pc[o] \in Attempting \cup {"backoff"} => pc'[o] = pc[o]
      BY <2>1 DEF Attempting
    <3>2. QED
      BY <2>1, <3>1, NotedOpener
  <2>4. QED
    BY <2>1, <2>2, <2>3 DEF OpenerInv
<1>6. CASE ServiceTerminate(t)
  <2>1. /\ UNCHANGED <<root, gate, pc, ctx, dropped>> /\ stopped' = [stopped EXCEPT ![root] = TRUE]
        /\ sink' = [sink EXCEPT ![root] = Emit(@, "Stopped")]
        /\ \A w \in Workers : \/ worker'[w] = worker[w]
                              \/ worker[w] = "running" /\ worker'[w] = "dead"
    BY <1>6 DEF ServiceTerminate, TypeOK, births
  <2>2. ASSUME NEW w \in Workers PROVE StopAsked(w)'
    BY <2>1 DEF OpenerInv, StopAsked, TypeOK
  <2>3. \A w \in Workers : sink[w].status = "Stopped" => sink'[w].status = "Stopped"
    BY StatusKept DEF Known, Next
  <2>4. RootDying => RootDying'
    <3>1. sink[root].terminal => sink'[root] = sink[root]
      BY <2>1 DEF Emit, TypeOK
    <3>2. QED
      BY <2>1, <3>1 DEF RootDying
  <2>5. \A o \in Owners : stopped[ctx[o]] => stopped'[ctx[o]]
    BY <2>1 DEF TypeOK
  <2>6. gate'.phase = "Restarting" => GateOpener'
    BY <2>1, <2>4, SameOpener
  <2>7. QED
    BY <2>1, <2>2, <2>3, <2>5, <2>6 DEF OpenerInv
<1>7. CASE ServiceRestart(t)
  <2>1. /\ UNCHANGED <<root, worker, sink, stopped, dropped>> /\ pc[t] = "idle"
        /\ \A o \in Owners : pc'[o] = (IF o = t THEN "boot" ELSE pc[o])
        /\ \A o \in Owners : ctx'[o] = (IF o = t THEN root ELSE ctx[o])
    BY <1>7 DEF ServiceRestart, TypeOK
  <2>2. \A w \in Workers : StopAsked(w)'
    BY <2>1 DEF OpenerInv, StopAsked
  <2>3. GateOpener'
    BY <2>1 DEF GateOpener, Attempting
  <2>4. QED
    BY <2>1, <2>2, <2>3 DEF OpenerInv
<1>8. CASE RestartEnds(t)
  <2>1. /\ UNCHANGED <<root, worker, sink, stopped>> /\ gate'.phase = "Open"
        /\ pc' = WakeWaiters([pc EXCEPT ![t] = "idle"])
        /\ \A o \in Owners : o # t => ctx'[o] = ctx[o]
        /\ \A w \in Workers : dropped[w] => dropped'[w]
        /\ t \notin gate.waiters
    <3>1. pc[t] # "gate"
      BY <1>8 DEF RestartEnds, AttemptFailed
    <3>2. t \notin gate.waiters
      BY <3>1 DEF GateInv
    <3>3. \A w \in Workers : dropped[w] => dropped'[w]
      BY <1>8 DEF RestartEnds, AttemptFailed, LetGo, births
    <3>4. QED
      BY <1>8, <3>2, <3>3 DEF RestartEnds, OpenGate, TypeOK
  <2>2. /\ pc'[t] = "idle"
        /\ \A o \in Owners : o # t => pc'[o] = pc[o] \/ (pc[o] = "gate" /\ pc'[o] = "woken")
    BY <2>1, WokenFromGate
  <2>3. \A w \in Workers : StopAsked(w)'
    BY <2>1 DEF OpenerInv, StopAsked
  <2>4. QED
    BY <2>1, <2>2, <2>3 DEF OpenerInv
<1>9. CASE ServiceSupervise(t)
  <2>1. /\ UNCHANGED <<root, worker, sink, stopped, ctx, gate, dropped>> /\ ~policy
        /\ \A o \in Owners : pc'[o] = (IF o = Sup THEN "watch" ELSE pc[o])
    BY <1>9 DEF ServiceSupervise, TypeOK, births
  <2>2. pc[Sup] = "off"
    BY <2>1 DEF Known, PlaceInv
  <2>3. gate'.phase = "Restarting" => GateOpener'
    BY <2>1, <2>2 DEF OpenerInv, GateOpener, Stranded, Attempting
  <2>4. \A w \in Workers : StopAsked(w)'
    BY <2>1 DEF OpenerInv, StopAsked
  <2>5. QED
    BY <2>1, <2>3, <2>4 DEF OpenerInv
<1>10. QED
  BY <1>1, <1>2, <1>3, <1>4, <1>5, <1>6, <1>7, <1>8, <1>9 DEF TaskStep

(* A restart's own steps: an attempt is in flight before and after them.    *)
LEMMA AttemptOpener ==
  ASSUME Known, OpenerInv, NEW o \in Owners, AttemptStep(o)
  PROVE  OpenerInv'
<1> /\ Sup \in Owners /\ TypeOK
    /\ root \in Workers /\ \A p \in Owners : ctx[p] \in Workers
  BY SupervisionAssumption DEF Owners, Known, TypeOK
<1>1. CASE Spawned(o)
  <2>1. /\ UNCHANGED <<root, sink, stopped, ctx, dropped>> /\ pc[o] = "boot"
        /\ \A p \in Owners : pc'[p] = (IF p = o THEN "ready" ELSE pc[p])
        /\ \A w \in Workers : worker'[w] = worker[w]
                              \/ (worker[w] = "unborn" /\ worker'[w] = "running")
    BY <1>1 DEF Spawned, TypeOK
  <2>2. \A w \in Workers : StopAsked(w)'
    BY <2>1 DEF OpenerInv, StopAsked
  <2>3. GateOpener'
    BY <2>1 DEF GateOpener, Attempting
  <2>4. QED
    BY <2>1, <2>2, <2>3 DEF OpenerInv
<1>2. CASE Rebind(o)
  <2>1. /\ UNCHANGED <<worker, sink, stopped>> /\ pc[o] = "ready"
        /\ \A p \in Owners : pc'[p] = (IF p = o THEN "hook" ELSE pc[p])
        /\ \A p \in Owners : p # o => ctx'[p] = ctx[p]
        /\ \A w \in Workers : dropped[w] => dropped'[w]
    BY <1>2 DEF Rebind, TypeOK
  <2>2. \A w \in Workers : StopAsked(w)'
    BY <2>1 DEF OpenerInv, StopAsked
  <2>3. GateOpener'
    BY <2>1 DEF GateOpener, Attempting
  <2>4. QED
    BY <2>1, <2>2, <2>3 DEF OpenerInv
<1>3. CASE HookCallDies(o)
  <2>1. /\ UNCHANGED <<root, worker, pc, ctx, stopped, dropped>>
        /\ sink' = [sink EXCEPT ![root] = Emit(@, "Died")] /\ pc[o] \in Attempting
    BY <1>3 DEF HookCallDies, NoteDead, Attempting, births
  <2>2. /\ \A w \in Workers : StopAsked(w)'
        /\ \A w \in Workers : sink[w].status = "Stopped" => sink'[w].status = "Stopped"
    BY <2>1, NotedAsked
  <2>3. GateOpener'
    BY <2>1 DEF GateOpener
  <2>4. QED
    BY <2>1, <2>2, <2>3 DEF OpenerInv
<1>4. CASE HookFails(o)
  <2>1. /\ UNCHANGED <<root, worker, sink, dropped>> /\ pc[o] = "hook"
        /\ \A p \in Owners : pc'[p] = (IF p = o THEN "hookstop" ELSE pc[p])
        /\ \A p \in Owners : ctx'[p] = (IF p = o THEN root ELSE ctx[p])
        /\ stopped'[root] /\ \A w \in Workers : stopped[w] => stopped'[w]
    BY <1>4 DEF HookFails, TypeOK, births
  <2>2. \A w \in Workers : StopAsked(w)'
    BY <2>1 DEF OpenerInv, StopAsked
  <2>3. GateOpener'
    BY <2>1 DEF GateOpener, Attempting
  <2>4. QED
    BY <2>1, <2>2, <2>3 DEF OpenerInv
<1>5. CASE StopWorker(o)
  <2>1. /\ UNCHANGED <<gate, root, sink, stopped, pc, ctx, dropped>>
        /\ stopped[ctx[o]] /\ worker[ctx[o]] = "running"
        /\ worker' = [worker EXCEPT ![ctx[o]] = "ended"]
    BY <1>5 DEF StopWorker, OpenerInv, births
  <2>2. \A w \in Workers : StopAsked(w)'
    BY <2>1 DEF OpenerInv, StopAsked, TypeOK
  <2>3. (RootDying => RootDying') /\ (worker[root] = "failed" => worker'[root] = "failed")
    BY <2>1 DEF RootDying, TypeOK
  <2>4. gate'.phase = "Restarting" => GateOpener'
    BY <2>1, <2>3, SameOpener
  <2>5. QED
    BY <2>1, <2>2, <2>4 DEF OpenerInv
<1>6. QED
  BY <1>1, <1>2, <1>3, <1>4, <1>5 DEF AttemptStep

(* The supervisor leaves its watch for an attempt when the worker died, and *)
(* for good with a stop of the worker it watched, or when it gives up or is *)
(* cancelled.                                                               *)
LEMMA SupOpener ==
  ASSUME Known, OpenerInv, SupStep
  PROVE  OpenerInv'
<1> /\ Sup \in Owners /\ TypeOK /\ GateInv
    /\ root \in Workers /\ Sup \notin gate.waiters
  BY SupervisionAssumption DEF Owners, Known, TypeOK
<1>0. ASSUME UNCHANGED <<worker, sink, stopped, ctx, root>>,
             \A w \in Workers : dropped[w] => dropped'[w],
             \A p \in Owners : p # Sup => pc'[p] = pc[p] \/ (pc[p] = "gate" /\ pc'[p] = "woken"),
             pc'[Sup] \in {"watch", "boot", "backoff", "done", "gaveup", "gone"},
             pc'[Sup] = "done" => sink[ctx[Sup]].status = "Stopped",
             gate'.phase = "Restarting" => GateOpener'
      PROVE  OpenerInv'
  <2>1. \A w \in Workers : StopAsked(w)'
    BY <1>0 DEF OpenerInv, StopAsked
  <2>2. QED
    BY <1>0, <2>1 DEF OpenerInv
<1>1. CASE SupWatch
  <2>1. /\ UNCHANGED <<root, gate, worker, stopped, dropped>> /\ pc[Sup] = "watch"
        /\ \A p \in Owners : pc'[p] = (IF p = Sup THEN "wait" ELSE pc[p])
        /\ \A p \in Owners : ctx'[p] = (IF p = Sup THEN root ELSE ctx[p])
        /\ \A w \in Workers : /\ sink'[w].status = sink[w].status
                                /\ sink'[w].terminal = sink[w].terminal
    BY <1>1 DEF SupWatch, Watch, TypeOK, births
  <2>2. \A w \in Workers : StopAsked(w)'
    BY <2>1 DEF OpenerInv, StopAsked
  <2>3. RootDying => RootDying'
    BY <2>1 DEF RootDying
  <2>4. gate'.phase = "Restarting" => GateOpener'
    <3>1. \A p \in Owners : pc[p] \in Attempting \cup {"backoff"} => pc'[p] = pc[p]
      BY <2>1 DEF Attempting
    <3>2. Stranded => Stranded'
      BY <2>1 DEF Stranded
    <3>3. QED
      BY <2>1, <2>3, <3>1, <3>2 DEF OpenerInv, GateOpener
  <2>5. QED
    BY <2>1, <2>2, <2>4 DEF OpenerInv
<1>2. CASE SupStopped
  <2>1. /\ UNCHANGED <<gate, root, worker, sink, stopped, ctx, dropped>> /\ pc[Sup] = "wait"
        /\ \A o \in Owners : pc'[o] = (IF o = Sup THEN "done" ELSE pc[o])
        /\ sink[ctx[Sup]].status = "Stopped"
    BY <1>2 DEF SupStopped, TypeOK, births
  <2>2. gate'.phase = "Restarting" => GateOpener'
    <3>1. \A p \in Owners : pc[p] \in Attempting \cup {"backoff"} => pc'[p] = pc[p]
      BY <2>1 DEF Attempting
    <3>2. Stranded => Stranded'
      BY <2>1 DEF Stranded
    <3>3. RootDying => Stranded'
      BY <2>1 DEF Stranded, RootDying
    <3>4. QED
      BY <2>1, <3>1, <3>2, <3>3 DEF OpenerInv, GateOpener
  <2>3. QED
    BY <1>0, <2>1, <2>2
<1>3. CASE SupCancelled
  <2>1. /\ UNCHANGED <<gate, root, worker, sink, stopped, ctx, dropped>>
        /\ \A o \in Owners : pc'[o] = (IF o = Sup THEN "gone" ELSE pc[o])
    BY <1>3 DEF SupCancelled, TypeOK, births
  <2>2. GateOpener'
    BY <2>1 DEF GateOpener, Stranded
  <2>3. QED
    BY <1>0, <2>1, <2>2
<1>4. CASE SupDied \/ SupAttempt \/ SupAttemptFails
  <2>1. /\ UNCHANGED <<root, worker, sink, stopped, ctx>>
        /\ \A p \in Owners : p # Sup => pc'[p] = pc[p]
        /\ pc'[Sup] \in {"boot", "backoff"}
    BY <1>4 DEF SupDied, SupAttempt, SupAttemptFails, TypeOK
  <2>2. \A w \in Workers : dropped[w] => dropped'[w]
    BY <1>4 DEF SupDied, SupAttempt, SupAttemptFails, AttemptFailed, LetGo, births
  <2>3. GateOpener'
    BY <2>1 DEF GateOpener, Attempting
  <2>4. QED
    BY <1>0, <2>1, <2>2, <2>3
<1>5. CASE SupGivesUp \/ SupReopens
  <2>1. PICK where \in {"gaveup", "watch"} : pc' = WakeWaiters([pc EXCEPT ![Sup] = where])
    BY <1>5 DEF SupGivesUp, SupReopens
  <2>2. /\ pc'[Sup] = where
        /\ \A p \in Owners : p # Sup => pc'[p] = pc[p] \/ (pc[p] = "gate" /\ pc'[p] = "woken")
    BY <2>1, WokenFromGate
  <2>3. UNCHANGED <<root, worker, sink, stopped, ctx, dropped>> /\ gate'.phase # "Restarting"
    BY <1>5 DEF SupGivesUp, SupReopens, OpenGate, births, TypeOK
  <2>4. QED
    BY <1>0, <2>2, <2>3
<1>6. QED
  BY <1>1, <1>2, <1>3, <1>4, <1>5 DEF SupStep

(* Every step leaves a closed gate with an opener.                          *)
LEMMA OpenerNext == Known /\ OpenerInv /\ [Next]_vars => OpenerInv'
<1> SUFFICES ASSUME Known, OpenerInv, [Next]_vars PROVE OpenerInv'
  OBVIOUS
<1>1. CASE UNCHANGED vars
  BY <1>1 DEF vars, births, OpenerInv, StopAsked, GateOpener, RootDying, Stranded
<1>2. QED
  BY <1>1, WorkerOpener, TaskOpener, AttemptOpener, SupOpener DEF Next

(* note_service_dead closes the gate from any call, long before the         *)
(* supervisor has heard of the death: whatever the calls, the workers and   *)
(* the restarts do, the gate is one that a restart in flight or the         *)
(* supervisor's watch will open, but for the four ways Stranded names.      *)
THEOREM OpenerCorrect == Spec => []RestartingHasOpener
<1>1. Init => OpenerInv
  <2>1. Init => \A w \in Workers : StopAsked(w)
    BY DEF Init, StopAsked, LifeSink
  <2>2. QED
    BY <2>1, SupervisionAssumption DEF Init, OpenerInv, Owners
<1>2. Known /\ OpenerInv => RestartingHasOpener
  BY DEF OpenerInv, GateOpener, RootDying, RestartingHasOpener, Stranded
<1>3. QED
  BY <1>1, <1>2, KnownInvariant, OpenerNext, PTL DEF Spec
=============================================================================
