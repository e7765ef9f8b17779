# Verification of the Quoin runtime

Quoin is an object language with a virtual machine written in Rust. A program is
one main task and any number of cooperative tasks on one thread; tasks talk over
channels; objects can be hosted in other isolates (worker threads, worker
processes, extensions) and called through proxies; channels can be shipped across
isolates. Methods are compiled to bytecode, checked, interpreted, and translated to
native code once they are warm. This directory models the parts of that system in
which the order of events, a reused identifier or a second implementation of the
same meaning decides correctness; it checks them with TLC on small instances and
proves the central ones with TLAPS for every value of the constants.

Paths below are relative to the repository root. `PROJECT.json` maps every
definition to the lines it models, and lists the hazards, the runs, the mutants,
the findings and the theorems.

## 1. Inventory

| Part | State | Hard behaviour | Module |
|---|---|---|---|
| Task scheduler, driver loop, `Task`, `Async` (`src/vm/scheduler.rs`, `src/runner_driver.rs`, `src/runtime/{task,async_rt}.rs`) | reused task slots, ready queue, sticky `current_task`, live cancel flag, epochs, deadlines | one-shot cancel against a wake already delivered; stale deadlines; slot reuse; handles that outlive their task | `TaskScheduler` |
| Channel (`runtime/channel.rs`) | buffer, closed flag, two waiter queues | cancel between handoff and resume; ghost entries; capacity | `Channel`, `AbstractChannel` |
| Channel relay (`runtime/channel_relay.rs`) | two frame lanes, pending operations, endpoints | crossing cancel and answer; release by the collector; death of either side | `ChannelRelay` |
| Claims and lanes (`runtime/claims.rs`) | owner, depth, lane, waiters, reservation per object; lanes, lane queue, waits-for index per peer | joint object and lane waits; handoff against cancel; cycle detection | `Claims` |
| Supervision (`runtime/{worker_service,supervise,lifecycle}.rs`) | restart gate, budget, lifecycle sink | a gate that never reopens; a death observed twice or not at all | `Supervision` |
| Conversations (`worker_spawn.rs`, `runtime/worker_service.rs`) | levels counted by two relays on a reused socket | a stale frame met by the next call; cancellation inside a host-op | `Conversation` |
| Worker isolates (`worker_spawn.rs`, `runtime/worker.rs`) | helper thread, pumps, funnel, terminal frame | terminal against queued sends; cancel during the spawn; who reaps | `WorkerProcess` |
| Hosted objects (`vm/call.rs`, `runtime/worker_service.rs`) | pin table, proxies, announced classes | id reuse; release riding a later call | `Hosting`, `Tables` |
| Extension host and server (`runtime/extension.rs`, `crates/quoin-ext`) | sockets, claims, reap queue per child; the server's object table | a call ends on another child than it began on; lanes race for one object | `Extension`, `ExtServer` |
| Wire format (`crates/quoin-ext-proto`) | frames of tokens | integer widths at their boundary; newer peers; damage | `FrameCodec` |
| Fibers (`src/fiber.rs`, `vm/scheduler.rs`) | resume chain, re-entry depth | registers moved to the wrong activation | `Fibers` |
| Interpreter (`vm/*.rs`, `dispatch.rs`, `runtime/block.rs`) | frames, the exception in flight, method tables and three caches, instantiation plans | state of the VM where state of a task is meant; a cache that outlives its epoch | `Unwind`, `Dispatch`, `ClassBody`, `Instances` |
| Collections (`runtime/{map,set,list,elem_tag}.rs`) | entries, index tier, element tag | guest code inside `hash`, `==:` and comparisons | `Collections`, `Lists` |
| Compiler and checker (`src/compiler/*`, `types.rs`, `class_table.rs`) | code, beliefs, class signatures | the fused form must mean what the plain one means; a belief must hold on every path | `Lowering`, `Checker`, `ClassTable` |
| Native code (`src/codegen/*`) | abstract stack, local storage, registry, cells | a representation that disagrees with the interpreter; code that outlives a redefinition | `AotTranslate`, `Tiering` |
| Shipping blocks (`worker.rs`, `compiler/portability.rs`) | snapshot of free reads | the editor's verdict against the run-time scan | `Portable` |
| Wake log (`replay.rs`) | log, held completions | divergence from real completions | `WakeLog` |
| I/O (`io_smol.rs`, `runtime/{streams,sockets,process}.rs`) | descriptor registry and leases, buffers, children | cancel of an operation that succeeded; close under a lease; unflushed data; reused pids | `IoHandles`, `FileStreams`, `StreamFraming`, `Subprocess` |
| Parser and formatter (`crates/quoin-syntax`, `crates/quoin-fmt`) | tree, layout document | a layout that changes the program, or is not stable | `Syntax`, `Formatter` |
| Debugger (`debug*.rs`, `runner_dap.rs`) | breakpoints, step state, handles | a stop in the wrong frame or task | `Debugger` |
| REPL, documentation and package tools | | sequential text processing | not modelled |

How they interact. The driver holds at most one task and calls the scheduler
between resumes; a running task calls it directly and suspends back to the driver.
Channels and claims reach the ready queue only through `wake_channel_task`, and use
one park protocol: a queue entry captures the slot and its park epoch, and is live
only while the task is parked at that epoch and not cancelled. The relay turns an
endpoint's operation into a frame; the owner's agent applies it to the channel that
local tasks use. A service call takes its claim before it opens a conversation and
gives it up when the conversation ends; a death seen by any party goes to the
lifecycle sink, and from there to the supervisor and the gate. `Channel` and
`ChannelRelay` are composed (the second extends the first); the other interactions
appear in each module as the other side's possible steps.

What makes each part correct: a parked task has a waker and is woken once; a
resume finds the result of its own park; a cancel is seen; identifiers name what
they were made for; a channel loses, duplicates and reorders nothing; an operation
is answered once; lanes and claims are conserved and handed over in order; waiting
for ever is impossible or detected; and two implementations of one meaning agree.

## 2. Modules

Definitions keep the source's names where TLA+ allows it. Operators marked *Mutant*
are deliberately wrong forms of the definition that follows them; no specification
uses them, and each one shows that a property notices the corresponding bug.

**`TaskScheduler`** — the fields of `struct Task` are functions on slots; `ready`,
`current_task`, `cancel_current`, `sched_wake` and `park_seq` are the scheduler's;
`current` and `deadlines` are locals of `drive_to_completion`; `pc`, `unwinding`
and `timeout_child` are what a suspended coroutine remembers; `mode` says who runs.
The guest program is arbitrary: a running task performs any operation at each
instruction. `Pick`, `ResumeCurrent`, `Rotate`, `SignalCancel`, `GlobalDeadlock`,
`DeliverIo` and `DeliverDeadline` are the driver's steps; `Spawn`, `Gather`,
`GatherNone`, `Join`, `Cancel`, `Timeout`, `AwaitIo`, `ChannelPark`, `ChannelWake`,
`Yield` and `Checkpoint` a task's; `AwaitResume`, `TimeoutResume` and `DrainResume`
the code after a suspend; `Finish` one of the three completions. A disarmed
deadline still resolves and reaches `deliver_deadline`, as in the code.
`timeout_handle` is a history variable.

**`Channel`, `AbstractChannel`** — one channel in the isolate that owns it, its
capacity chosen from `Caps`. Each value is sent once, so that a value identifies its
send; `fate` and `received` are histories of what senders and receivers were told.
The abstract channel is a FIFO queue of accepted values, a set of values in the hands
of woken receivers and the consumed ones; a value comes back from a cancelled receiver
only to the front. The mapping: `queue` is the buffer, `inhand` the values in
undelivered receive wakes, `consumed` what `received` counted.

**`ChannelRelay`** — extends `Channel` with an endpoint isolate: a FIFO lane each
way, the pending table, endpoint objects with the collector's drop and the batched
release, one agent per side, and the death of either isolate.

**`Claims`** — the claims and lanes of one or more peers with the calls that use
them. `calls` is the stack of conversations a task is inside; lanes are
interchangeable, so only their number is kept. `FreeClaim` is the whole outermost
`end_call`: `promote_head`, `release_lane` with its walk over the lane queue, and
the wakes.

**`Supervision`** — one service, its callers, its successive workers and the
supervisor. An action is what a task does between two parks; the worker's thread runs
beside them, so the swap of the terminal flag, the write of the status and the
notification are three actions.

The other modules each model one part; the comment at the head of a module says what
it keeps and what it abstracts. `WorkerProcess` and `Conversation` have one action per
thread between two blocking calls. `Extension` names everything a rebind replaces by
the child's ordinal. `FrameCodec` scales the integer widths down so that every
boundary is reached. `Lowering` and `AotTranslate` run two codes for one program in
lockstep. `Checker`, `ClassTable`, `Syntax` and `Formatter` range over every program of
small families. `Collections`, `Lists`, `Dispatch`, `Unwind` and `Instances` let other
tasks run wherever guest code does.

`PeersMC`, `RuntimeMC` and `ToolsMC` collect the components that share no state: the
variable `focus` picks the one a behaviour explores and the others stay put, so one
run is the sum, not the product, of its components. `Conversation`, `Extension` and
`Fibers` are extended rather than instantiated, so that the run checks the definitions their
theorems are about. `ClaimsMC` names the
symmetry set and the concrete peers of the two claims runs; the other runs check a
component's own module.

## 3. Runs

| Run | Instance | Distinct states | Shows |
|---|---|---|---|
| `scheduler` | 3 slots, 2 handles, 4 operations, gathers of 2, any ready task next | 0.41 M | no lost waker or double resume, exact deadlines, every resume has its result, a cancel reaches its task, handles name their tasks; deadlock is checked |
| `channel` | 3 tasks, 3 values, no buffer and a buffer of 1 | 0.16 M | conservation through cancel and close races, no missed rendezvous, final outcomes, refinement of the FIFO queue |
| `relay` | 1 owner task, 2 endpoint tasks, a value that cannot cross, either side may die | 0.56 M | conservation across the lanes, one answer per operation, reference counts; a parked endpoint operation ends after close or death |
| `claims` | 3 tasks (2 cancellable, 1 that stops the service), 3 objects, 2 lanes, depth 2 | 0.35 M | lanes and claims conserved, FIFO order, nobody stranded, the drain ends on a quiet peer |
| `claims_fair` | 3 tasks, 2 peers, a lane per task, no cancels | 0.03 M | every queued call is granted |
| `supervision` | 2 callers, 3 workers, a supervisor | 1.5 M | the gate has an opener, a restart is complete, lives go forward |
| `peers` | seven components (`Peers.cfg`) | 0.34 M | frames survive, references hold, sockets follow lanes, lanes stay in step; every call and every join ends |
| `runtime` | sixteen components (`Runtime.cfg`) | 1.1 M | unwinding, caches, instances, fibers, collections, compiled code, replay, streams, debugger, shipping |
| `tools` | four components (`Tools.cfg`) | 0.1 M | lowering agrees, beliefs are true, formatting is faithful and stable |
| `scheduler_drain`, `unwind_tasks`, `hosting_again` | | | violations, see section 5 |

Bounds. Three slots let a task, its waker and a newcomer that reuses a slot
coexist; two handles and four operations let a slot be reused under a deadline, a
drain or a handle. Three channel tasks give a rendezvous with a competitor or a ghost.
In `claims`, more tasks than lanes and a nesting of two reach every branch of
`release_lane`; epochs wrap at 2, which suffices because no queue entry outlives the
resume of its task. The codec's widths are scaled so that each format's least and
greatest value are met. Every action of every next-state relation is taken in some
passing run. Unbounded counters are capped by guards (`MaxOps`, `MaxCalls`, `MaxSends`,
`MaxCorr`, ...); the caps bound how often a component is driven, not what it may do.

Fairness. The driver loop never stops by itself (`WF(Next)` in
`TaskScheduler!FairSpec`). A relay agent is a task that loops over its lane
(`EndpointAgent`, `OwnerAgent` weakly fair), the reader of a dead link ends it. In
`Claims!FairSpec` a task that is not parked for ever ends its calls: it is resumed, the
peer answers or dies, and bodies are finite. In `PeersSpec` the threads of a worker,
the pumps and the callers are operating-system threads or resumed tasks, each weakly
fair. Guests, cancels, deaths and faults are never assumed to happen.

Moves that are switched off. Some constants name moves of the code under which a
property fails because of the code (section 5): `Faults`, `SpawnFaults`, `ExtFaults`,
`SrvFaults`, `HostMoves`, `UMoves`, `InstMoves`, `AotShapes`, `TierMoves`, `WakeMoves`,
`PortMoves`, `DbgMoves`, `TableMoves`, `Shapes`, `Forms`, and the second task of `Unwind`,
`Dispatch` and `ClassBody`. The model has the move; a passing run leaves it out so that
the property is checked on everything else. Each comment at the constant says what the
move is.

## 4. Proofs

Proved for every value of the constants that satisfies the modules' named
assumptions (sizes are positive naturals, sentinels lie outside their sets); no
theorem bounds the number of tasks, slots, handles, values, workers or steps.

**`TaskSchedulerProofs`.** `HInv` is type correctness, `HandleNamesItsTask` and what
the actions take for granted (`ControlOK`); it gives `TypeCorrect` and
`HandlesCorrect`. `SInv` is the wake invariant, stated slot by slot: `QueueOK` (nobody
is queued or listed twice, the loaded task is not queued, a waiter list names tasks
that join its target), and for each slot `FreeOK` (a freed slot carries nothing over),
`PlaceOK` (the waker registered for a task is of the kind of the place it is suspended
at, and a runnable task has none), `WakeOK` (a delivered wake fits the place, and its
task is queued), `CancelOK` (a requested cancel is on its way) and `RestOK` (a task that
is neither loaded nor queued has a waker); then `LoadedOK` (the sticky `current_task`
and the live cancel flag mirror the loaded task), `DeadlineOK` (a deadline whose epoch
is its slot's epoch arms a park that is still that timed join, and is the only one) and
`PendingCountsChildren`. None of the four properties is inductive alone: the absence of
a double resume needs that a runnable task has no waker left, that needs the fit of
waker and place, that needs the fit of a wake, and cancellation needs the mirror of the
cancel flag. `SInv` was checked with TLC on the instance of the run `scheduler` before
it was proved; the proof has a lemma per action, in which every slot the action does not
touch is settled by `SameSlot`. It gives `WakersCorrect`, `ResultsCorrect`,
`CancelsCorrect` and `DeadlinesCorrect`. Park epochs are unbounded naturals, as the
64-bit counter in the code is for any real run.

**`ChannelProofs`.** `ChanInv`: every accepted value is in exactly one place (buffer,
live sender, undelivered wake, consumed), a live queue entry belongs to the operation
its task is parked in, queues hold a task's current epoch once, and no live receiver
stands beside a value or a live sender. It gives `ValuesConserved`, `WaitersAreServed`,
`OutcomesFinal` (an action property) and `Refinement`: each action is mapped to a step
of `AbstractChannel` or to a stutter.

**`RelayProofs`.** Extends `ChannelProofs` to two isolates and gives `RelayedConserved`,
`RelayedAnswered` and `RelayedAgrees`, for any tasks, values, capacities and operations and
any finite set of endpoints, with either isolate dying at any point. None of the three is
inductive: that a correlation is answered once needs that it is in one stage of the link
(`OneStage`), which needs that the pending table and the operations of the endpoint side
name it (`PendingOK`, `OpsOK`); that a value is in one spot (`SpotsOK`) needs that a value
still on its way has one sender and one frame or queue entry (`WayOK`, `SenderOK`). Three
conjuncts came out of failed attempts. `EpochOK`: an answer that arrives after its task
went on to another operation finds an older epoch, wakes nobody, and its value goes home
as a Return. `HeldOK`: the owner stops hosting a channel with its last release, so a receive
queued at the owner must have its task suspended on a live endpoint, or its retraction on
the lane ahead of that release; without it a purge could not be shown complete. `PurgeOK`,
what `HeldOK` becomes when the endpoint isolate dies with frames still on the lane: the
owner's agent applies them before it notices, and what they queue is either retracted by
them or purged. TLC confirms the invariant on the instance of the run `relay`. The
proof follows the code: a lemma for each step of a task at the owner, for each frame the
owner's agent applies, and for each step of the endpoint side, over lemmas on what an
append, a pop and a `retain` do to the keys of a queue or a lane.

**`SupervisionProofs`.** `ParkedCorrect` (a caller is parked exactly while the gate is
restarting and lists it), `DeathNotMissed` (however `watch()` and the emitting thread
interleave) and `LivesCorrect` hold with all faults. `RestartCorrect` assumes that
attaching to a fresh worker does not fail, and `OpenerCorrect` that no listed fault
occurs; these hypotheses are necessary, for the code breaks the properties otherwise
(section 5), and they are values of the constant `Faults`, not axioms.

**`ClaimsProofs`.** For any sets of tasks, objects and peers, any number of lanes, any cap
on re-entry and any wrap of the park epoch: `ClaimsStrandNobody` (`NoneStranded`),
`ClaimsStayAgreed` (`ClaimsAgree`), `ClaimsInOrder` (the action property `NoBarging`),
`ClaimsTypeCorrect` (`TypeOK`) and `ClaimsWakeTheirWaiter` (`GrantFitsWait`). None of these
is inductive: that a lane is free or an object reserved says nothing about who still waits.
`CInv` adds, task by task, object by object and peer by peer: an entry of a queue belongs to
a task that waits for that very object, at its present epoch, and once only (`QueueOK`); a
parked task stands in its queue and in the waits-for index (`EdgeOK`); a claim that was
handed over came with a lane exactly if its task had no conversation on the peer
(`HandedOK`), hence of a task's conversations on a peer one object holds the lane, and the
outermost (`LaneOK`), which is what makes a peer with every lane at home quiet; the lane
queue lists exactly the reserved objects, once each (`ObjectOK`, `PeerOK`), and a drain that
was woken finds all lanes at home (`HomeOK`). The long case is the end of a call:
`promote_head`, then `release_lane` with its loop over the lane queue. `Freeing` says what
the whole step does to objects, tasks, lanes and edges, and the lemmas about `CInv` use only
that.

The theorems assume `Cancellable \cap Stoppers = {}`: no task that may be cancelled drains a
peer. It is a hypothesis of the theorems, not of the module, and it is necessary: with a
task in both sets TLC finds a behaviour that violates `GrantFitsWait` (section 5), since
`drain_lanes` leaves the entry of a cancelled drain in `drain_waiters`. The theorems say
that this is the only way in.

**`ConversationProofs`.** `LanesStayInStep`: the invariant `LanesInStep` for any lanes,
conversations, number of calls and nesting. The property speaks of a lane at rest and of one
answer; what makes it inductive is that a conversation has exactly one frame or one turn.
`ConvInv` names the seven places it can be (`Starting`, `GoingDown`, `ToFiber`, `WithFiber`,
`FromFiber`, `GoingUp`, `WithCaller`); each fixes the level both relays count, how the
caller's stack mirrors the stack of the serving fiber, and that the other sockets and
channels of the lane are empty. Abandoned conversations (cancelled, or cut off by a dead
worker) have places of their own, in which the pump still drains what the worker answers.
The lemmas are about the values of a lane and a caller (`LaneView`, `CallerView`), so an action
is one lemma on values and the argument that the other lanes and callers stay. The theorem
is stated while `tainted` is empty, that is until a serving fiber is cancelled inside a
host-op, which the code does not survive (section 5). The attempt to prove it conversation
by conversation showed that the taint spreads: with four calls a later, untouched
conversation on the same lane reads the old answer. `AnswerFitsCall` says what holds.

**`ExtensionProofs`.** `SocketsMatch`: for any tasks, depth, number of children and with every
fault of `ExtFaults`, each socket of the bound child is free or pinned by exactly one
conversation (`HandleOK`), and `TokenHasSocket`: a task that got a lane token finds a socket,
which `ext_prelude` takes for granted with an `expect`. `NothingLeft`: no process of an earlier
incarnation runs on or keeps a host value. Its invariant says that a death is recorded only of a child that is
gone, that a restart is under way only while the bound child is gone, and only one
(`DeathsAreReal`), and that only the bound child runs or retains (`OnlyBoundRuns`). It assumes one restarter at a time: the fault `twice`, two
tasks inside the restart at once, breaks it.

**`FibersProofs`.** `FramesFollow`: `FramesFollowCoroutine` for any tasks and fibers, which the
theorem only assumes to be different things. `FiberInv` describes the resume chain of every
task, loaded or parked (`ChainShape`: it starts with the task's root, nobody is on it twice,
the root's frames are set aside exactly while a fiber runs; `ChainOwned`: its fibers belong to
the task, the waiting ones hold their own frames), and says that a fiber on no chain is at
rest (`FiberPlace`), which is what keeps it from being resumed by two tasks.

The provers used are Z3, Zenon and LS4. Only model-checked: every liveness property
(`EndpointWoken`, `QueuedIsGranted`, `EveryCallEnds`, `JoinEnds`) and the absence of
deadlock, because fairness and `ENABLED` are out of the prover's reach; and the
components of the suites `peers`, `runtime` and `tools` other than `Conversation`,
`Extension` and `Fibers`: several of them define programs, trees or encodings by
recursion, about which nothing can be proved for all inputs here.

## 5. Where the code and its documents disagree

Three runs exhibit a violation of what the repository says of itself:

- `scheduler_drain` (`DrainOwnChild`): `drain_cancelled` looks the timed-out child up
  by its slot number; if the child has ended and the slot was reused, a stranger is
  cancelled and joined.
- `unwind_tasks` (`HandlerGetsOwnError`): the exception in flight is one field of the
  VM, so a task that parks in a `finally:` can hand its value to another task's handler.
- `hosting_again` (`ProxyNamesItsObject`): an object answered twice shares one id
  between two proxies, and the release of the first frees it under the second.

`PROJECT.json` lists the others under "findings", each with the quoted sentence and the
constants that show it. They are why a move is off in a passing run: a discarded cancel
after a timeout (`TaskScheduler!CancelIsRaised`), a returned value lost with the last
endpoint (`ChannelRelay!NeverSilentlyDropped`), a hang through a reservation and a wake
for a stale drain (`Claims!NoSilentHang`, `Claims!GrantFitsWait`), a gate closed by a late
caller (`Supervision`, fault `late`), a lane left with a frame, whose answers then reach the wrong calls
(`Conversation!LaneInSync`),
classes and ids of hosted objects (`Hosting`), VM-wide flags used per task (`ClassBody`,
`Dispatch`, `Fibers`), an orphaned descriptor (`IoHandles`), a wrong narrowing
(`Checker`), a stale warning (`ClassTable`), an evaluation that clears an exception
(`Debugger`), a comment that refuses a file (`Formatter`), an aborted completion in a
replay (`WakeLog`), stale instantiation plans (`Instances`) and a wrong verdict
(`Portable`).

## 6. Not modelled

The REPL (its one shared state, the task table rebuilt per line, is listed as a hazard),
the documentation, package and coverage tools, strings, numbers, dates and codecs of the
standard library, TLS and name resolution, the JSON of the debug adapter, the native
code emitted by Cranelift, the collector (a third-party crate; its effects appear as
drops that may happen at any time), the adbc extension, and the pool of `Worker.map`.
Wording, formatting of messages, logging and statistics are left out everywhere.

## 7. Plan

Done: all components above, their runs and mutants; the proofs of section 4. Next:
the invariants of the suites' other components that are free of recursion (`Tables`,
`IoHandles`, `Dispatch`, `Unwind`).
