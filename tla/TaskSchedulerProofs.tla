------------------------ MODULE TaskSchedulerProofs ------------------------
(***************************************************************************)
(* Proofs about TaskScheduler for every size of the task table, of the     *)
(* handle set and of the program.  HInv: the specification is type         *)
(* correct, a task handle never names a slot that holds another task, and  *)
(* what the actions rely on without checking it (the driver holds a task   *)
(* whenever it runs one, a gather child has a parent, a task inside a      *)
(* timed join remembers a child).  SInv: who waits and what will wake it   *)
(* agree, slot by slot, which gives the wake, cancel and deadline          *)
(* properties.                                                             *)
(***************************************************************************)
EXTENDS TaskScheduler, TLAPS, SequenceTheorems, FiniteSetTheorems

(* What the actions of the driver and of a running task take for granted.   *)
ControlOK ==
  /\ mode \in {"task", "drain"} => current \in Slots
  /\ \A s \in Slots : kind[s] = "child" => parent[s] \in Slots
  /\ \A s \in Slots : pc[s] = "joinTimed" => timeout_child[s] \in Slots

HInv == TypeOK /\ ControlOK /\ HandleNamesItsTask

-----------------------------------------------------------------------------
(* Operators and helpers.                                                   *)

(* Removing an element of a queue leaves a queue over the same set.         *)
LEMMA RemoveAtType ==
  ASSUME NEW S, NEW q \in Seq(S), NEW i \in 1..Len(q)
  PROVE  RemoveAt(q, i) \in Seq(S)
  BY DEF RemoveAt

(* Retain drops a joiner from a waiter list and adds nothing.               *)
LEMMA RetainType ==
  ASSUME NEW S, NEW q \in Seq(S), NEW x
  PROVE  Retain(q, x) \in Seq(S)
  BY RemoveAtType DEF Retain, Contains

(* A count set for one slot leaves a function from slots to counts.         *)
LEMMA CountType ==
  ASSUME NEW S, NEW f \in [S -> Int], NEW x, NEW n \in Int
  PROVE  [f EXCEPT ![x] = n] \in [S -> Int]
  BY Zenon

(* The main task's slot is in the table.                                    *)
LEMMA MainSlot == Main \in Slots
  BY BoundsAssumption DEF Main, Slots

(* No slot and no handle object is the one that stands for none.            *)
LEMMA NoneOutside == NoTask \notin Slots /\ NoHandle \notin Handles
  BY BoundsAssumption DEF NoTask, NoHandle, Slots, Handles

(* nudge_cancelled leaves every structure it touches well-formed.           *)
LEMMA NudgeType ==
  ASSUME ParkTypeOK, SchedTypeOK, NEW t \in Slots
  PROVE  /\ NudgedIo(t) \in [Slots -> {"none", "inflight", "aborted"}]
         /\ NudgedWaiters(t) \in [Slots -> Seq(Slots)]
         /\ NudgedJoining(t) \in [Slots -> Slots \cup {NoTask}]
         /\ NudgedChannel(t) \in [Slots -> BOOLEAN]
         /\ NudgedReady(t) \in Seq(Slots)
<1>1. NudgedIo(t) \in [Slots -> {"none", "inflight", "aborted"}]
  BY DEF NudgedIo, ParkTypeOK
<1>2. NudgedWaiters(t) \in [Slots -> Seq(Slots)]
  <2>1. \A u \in Slots : Retain(waiters[u], t) \in Seq(Slots)
    BY RetainType DEF ParkTypeOK
  <2>2. QED
    BY <2>1 DEF NudgedWaiters, ParkTypeOK
<1>3. NudgedJoining(t) \in [Slots -> Slots \cup {NoTask}]
  BY DEF NudgedJoining, ParkTypeOK
<1>4. NudgedChannel(t) \in [Slots -> BOOLEAN]
  BY DEF NudgedChannel, ParkTypeOK
<1>5. NudgedReady(t) \in Seq(Slots)
  BY DEF NudgedReady, SchedTypeOK
<1>6. QED
  BY <1>1, <1>2, <1>3, <1>4, <1>5

(* A group of variables a step leaves alone keeps its type.                 *)
LEMMA SameTable == TableTypeOK /\ UNCHANGED tableVars => TableTypeOK'
  BY DEF TableTypeOK, tableVars

(* The park fields of a step that leaves them alone keep their type.        *)
LEMMA SamePark == ParkTypeOK /\ UNCHANGED parkVars => ParkTypeOK'
  BY DEF ParkTypeOK, parkVars

(* What suspended coroutines remember keeps its type when left alone.       *)
LEMMA SameCoro == CoroTypeOK /\ UNCHANGED coroVars => CoroTypeOK'
  BY DEF CoroTypeOK, coroVars

(* The handle objects keep their type when left alone.                      *)
LEMMA SameHandle == HandleTypeOK /\ UNCHANGED handleVars => HandleTypeOK'
  BY DEF HandleTypeOK, handleVars

(* The scheduler's own fields keep their type when left alone.              *)
LEMMA SameSched == SchedTypeOK /\ UNCHANGED schedVars => SchedTypeOK'
  BY DEF SchedTypeOK, schedVars

(* The driver's locals keep their type when left alone.                     *)
LEMMA SameDriver == DriverTypeOK /\ UNCHANGED <<driverVars, ops>> => DriverTypeOK'
  BY DEF DriverTypeOK, driverVars

(* Handles keep naming their tasks when table and handles are left alone.   *)
LEMMA SameNames ==
  HandleNamesItsTask /\ UNCHANGED <<tableVars, handleVars>> => HandleNamesItsTask'
  BY DEF HandleNamesItsTask, tableVars, handleVars

(* An operation of the running task is counted, and its task is loaded.     *)
LEMMA OperateFacts ==
  ASSUME HInv, Operate
  PROVE  current \in Slots /\ ops' \in Nat /\ pc[current] = "run" /\ mode = "task"
  BY DEF HInv, TypeOK, DriverTypeOK, ControlOK, Operate, Running

(* Suspending the current task at a place that is not a timed join.         *)
LEMMA ParkControl ==
  ASSUME HInv, current \in Slots, NEW where \in Pcs \ {"joinTimed"}, Park(where),
         UNCHANGED <<kind, parent, timeout_child>>
  PROVE  ControlOK'
  BY DEF HInv, TypeOK, CoroTypeOK, ControlOK, Park

-----------------------------------------------------------------------------
(* The invariant holds initially.                                           *)

(* The invariant holds before the first resume of the main task.            *)
LEMMA HInit == Init => HInv
<1> SUFFICES ASSUME Init PROVE HInv
  OBVIOUS
<1>1. TableTypeOK
  BY MainSlot DEF Init, TableTypeOK, NoHandle, NoTask
<1>2. ParkTypeOK
  BY DEF Init, ParkTypeOK, Wakes
<1>3. CoroTypeOK
  BY DEF Init, CoroTypeOK, Pcs
<1>4. HandleTypeOK
  BY DEF Init, HandleTypeOK
<1>5. SchedTypeOK
  <2>1. <<>> \in Seq(Slots)
    OBVIOUS
  <2>2. "none" \in Wakes
    BY DEF Wakes
  <2>3. QED
    BY <2>1, <2>2, MainSlot DEF Init, SchedTypeOK
<1>6. DriverTypeOK
  BY MainSlot DEF Init, DriverTypeOK
<1>7. ControlOK
  BY DEF Init, ControlOK
<1>8. HandleNamesItsTask
  BY DEF Init, HandleNamesItsTask
<1>9. QED
  BY <1>1, <1>2, <1>3, <1>4, <1>5, <1>6, <1>7, <1>8 DEF HInv, TypeOK

-----------------------------------------------------------------------------
(* Every action of the driver preserves it.                                 *)

(* Taking the next ready task keeps the invariant.                          *)
LEMMA PickH == HInv /\ Pick => HInv'
<1> SUFFICES ASSUME HInv, Pick PROVE HInv'
  OBVIOUS
<1> USE DEF HInv, TypeOK
<1>p. PICK i \in 1..Len(ready) :
       /\ load_task_context(ready[i])
       /\ current' = ready[i]
       /\ ready' = RemoveAt(ready, i)
  BY DEF Pick
<1>r. ready[i] \in Slots
  BY DEF SchedTypeOK
<1>1. TableTypeOK' /\ HandleTypeOK' /\ CoroTypeOK'
  BY SameTable, SameHandle, SameCoro DEF Pick
<1>2. ParkTypeOK'
  <2>1. waiters' \in [Slots -> Seq(Slots)]
          /\ cancel_requested' \in [Slots -> BOOLEAN]
          /\ io' \in [Slots -> {"none", "inflight", "aborted"}]
    BY DEF Pick, ParkTypeOK
  <2>2. joining' \in [Slots -> Slots \cup {NoTask}]
    BY <1>p DEF load_task_context, ParkTypeOK
  <2>3. park_epoch' \in [Slots -> Nat]
    BY <1>p DEF load_task_context, ParkTypeOK, SchedTypeOK
  <2>4. parked_on_channel' \in [Slots -> BOOLEAN]
    BY <1>p DEF load_task_context, ParkTypeOK
  <2>5. wake' \in [Slots -> Wakes]
    BY <1>p DEF load_task_context, ParkTypeOK, Wakes
  <2>6. QED
    BY <2>1, <2>2, <2>3, <2>4, <2>5 DEF ParkTypeOK
<1>3. SchedTypeOK'
  <2>1. ready' \in Seq(Slots)
    BY <1>p, RemoveAtType DEF SchedTypeOK
  <2>2. cancel_current' \in BOOLEAN
    BY <1>p, <1>r DEF load_task_context, ParkTypeOK
  <2>3. current_task' \in Slots /\ sched_wake' \in Wakes /\ park_seq' \in Nat
    BY <1>p, <1>r DEF load_task_context, ParkTypeOK, SchedTypeOK
  <2>4. QED
    BY <2>1, <2>2, <2>3 DEF SchedTypeOK
<1>4. DriverTypeOK'
  BY <1>p, <1>r DEF Pick, DriverTypeOK
<1>5. ControlOK'
  BY <1>p, <1>r DEF Pick, ControlOK, tableVars, coroVars
<1>6. HandleNamesItsTask'
  BY SameNames DEF Pick
<1>7. QED
  BY <1>1, <1>2, <1>3, <1>4, <1>5, <1>6

(* Resuming the held task keeps the invariant.                              *)
LEMMA ResumeCurrentH == HInv /\ ResumeCurrent => HInv'
<1> SUFFICES ASSUME HInv, ResumeCurrent PROVE HInv'
  OBVIOUS
<1> USE DEF HInv, TypeOK, ResumeCurrent
<1>1. TableTypeOK' /\ ParkTypeOK' /\ CoroTypeOK' /\ HandleTypeOK' /\ SchedTypeOK'
  BY SameTable, SamePark, SameCoro, SameHandle, SameSched
<1>2. DriverTypeOK' /\ ControlOK'
  BY DEF DriverTypeOK, ControlOK, tableVars, coroVars
<1>3. HandleNamesItsTask'
  BY SameNames
<1>4. QED
  BY <1>1, <1>2, <1>3

(* The part of the state request_cancel touches, in both its variants.      *)
LEMMA CancelType ==
  ASSUME HInv, NEW t \in Slots, NEW loaded,
         request_cancel(t) \/ request_cancel_from_driver(t, loaded),
         UNCHANGED <<park_epoch, wake, current_task, sched_wake, park_seq>>
  PROVE  ParkTypeOK' /\ SchedTypeOK'
<1> USE DEF HInv, TypeOK
<1>1. CASE CancelLive(t)
  BY <1>1 DEF CancelLive, ParkTypeOK, SchedTypeOK
<1>2. CASE CancelParked(t) /\ UNCHANGED cancel_current
  <2>1. cancel_requested' \in [Slots -> BOOLEAN]
    BY <1>2 DEF CancelParked, ParkTypeOK
  <2>2. ParkTypeOK'
    BY <1>2, <2>1, NudgeType DEF CancelParked, ParkTypeOK
  <2>3. SchedTypeOK'
    BY <1>2, NudgeType DEF CancelParked, SchedTypeOK
  <2>4. QED
    BY <2>2, <2>3
<1>3. CASE UNCHANGED <<cancel_requested, cancel_current, io, waiters, joining,
                       parked_on_channel, ready>>
  BY <1>3 DEF ParkTypeOK, SchedTypeOK
<1>4. QED
  BY <1>1, <1>2, <1>3 DEF request_cancel, request_cancel_from_driver

(* The fatal signal's cancel of main keeps the invariant.                   *)
LEMMA SignalCancelH == HInv /\ SignalCancel => HInv'
<1> SUFFICES ASSUME HInv, SignalCancel PROVE HInv'
  OBVIOUS
<1> USE DEF HInv, TypeOK, SignalCancel
<1>1. TableTypeOK' /\ CoroTypeOK' /\ HandleTypeOK'
  BY SameTable, SameCoro, SameHandle
<1>2. ParkTypeOK' /\ SchedTypeOK'
  BY MainSlot, CancelType
<1>3. DriverTypeOK'
  BY DEF DriverTypeOK
<1>4. ControlOK'
  BY DEF ControlOK, tableVars, coroVars
<1>5. HandleNamesItsTask'
  BY SameNames
<1>6. QED
  BY <1>1, <1>2, <1>3, <1>4, <1>5

(* The delivery of a completion keeps the invariant.                        *)
LEMMA DeliverIoH ==
  ASSUME HInv, NEW s \in Slots, DeliverIo(s)
  PROVE  HInv'
<1> USE DEF HInv, TypeOK, DeliverIo
<1>1. TableTypeOK' /\ CoroTypeOK' /\ HandleTypeOK' /\ DriverTypeOK'
  BY SameTable, SameCoro, SameHandle, SameDriver
<1>2. ParkTypeOK'
  <2>1. io' \in [Slots -> {"none", "inflight", "aborted"}]
    BY DEF ParkTypeOK
  <2>2. wake' \in [Slots -> Wakes]
    BY DEF ParkTypeOK, Wakes
  <2>3. QED
    BY <2>1, <2>2 DEF ParkTypeOK
<1>3. SchedTypeOK'
  BY DEF SchedTypeOK
<1>4. ControlOK'
  BY DEF ControlOK, tableVars, coroVars, driverVars
<1>5. HandleNamesItsTask'
  BY SameNames
<1>6. QED
  BY <1>1, <1>2, <1>3, <1>4, <1>5

(* The delivery of a deadline, live or stale, keeps the invariant.          *)
LEMMA DeliverDeadlineH ==
  ASSUME HInv, NEW d \in deadlines, DeliverDeadline(d)
  PROVE  HInv'
<1> USE DEF HInv, TypeOK, DeliverDeadline
<1>d. d.joiner \in Slots /\ d.target \in Slots
  BY DEF DriverTypeOK, Deadlines
<1>1. TableTypeOK' /\ CoroTypeOK' /\ HandleTypeOK'
  BY SameTable, SameCoro, SameHandle
<1>2. ParkTypeOK'
  <2>1. waiters' \in [Slots -> Seq(Slots)]
    <3>1. Retain(waiters[d.target], d.joiner) \in Seq(Slots)
      BY <1>d, RetainType DEF ParkTypeOK
    <3>2. QED
      BY <3>1 DEF ParkTypeOK
  <2>2. joining' \in [Slots -> Slots \cup {NoTask}]
    BY DEF ParkTypeOK
  <2>3. wake' \in [Slots -> Wakes]
    BY DEF ParkTypeOK, Wakes
  <2>4. QED
    BY <2>1, <2>2, <2>3 DEF ParkTypeOK
<1>3. SchedTypeOK'
  BY <1>d DEF SchedTypeOK
<1>4. DriverTypeOK'
  BY DEF DriverTypeOK
<1>5. ControlOK'
  BY DEF ControlOK, tableVars, coroVars
<1>6. HandleNamesItsTask'
  BY SameNames
<1>7. QED
  BY <1>1, <1>2, <1>3, <1>4, <1>5, <1>6

(* The rotation at a yield boundary keeps the invariant.                    *)
LEMMA RotateH == HInv /\ Rotate => HInv'
<1> SUFFICES ASSUME HInv, Rotate PROVE HInv'
  OBVIOUS
<1> USE DEF HInv, TypeOK, Rotate
<1>1. TableTypeOK' /\ ParkTypeOK' /\ CoroTypeOK' /\ HandleTypeOK'
  BY SameTable, SamePark, SameCoro, SameHandle
<1>2. SchedTypeOK'
  <2>1. current \in Slots
    BY DEF ControlOK
  <2>2. ready' \in Seq(Slots)
    BY <2>1 DEF SchedTypeOK
  <2>3. QED
    BY <2>2 DEF SchedTypeOK
<1>3. DriverTypeOK'
  BY DEF DriverTypeOK
<1>4. ControlOK'
  BY DEF ControlOK, tableVars, coroVars
<1>5. HandleNamesItsTask'
  BY SameNames
<1>6. QED
  BY <1>1, <1>2, <1>3, <1>4, <1>5

(* The end of a run in which everyone waits keeps the invariant.            *)
LEMMA GlobalDeadlockH == HInv /\ GlobalDeadlock => HInv'
<1> SUFFICES ASSUME HInv, GlobalDeadlock PROVE HInv'
  OBVIOUS
<1> USE DEF HInv, TypeOK, GlobalDeadlock
<1>1. TableTypeOK' /\ ParkTypeOK' /\ CoroTypeOK' /\ HandleTypeOK' /\ SchedTypeOK'
  BY SameTable, SamePark, SameCoro, SameHandle, SameSched
<1>2. DriverTypeOK' /\ ControlOK'
  BY DEF DriverTypeOK, ControlOK, tableVars, coroVars
<1>3. HandleNamesItsTask'
  BY SameNames
<1>4. QED
  BY <1>1, <1>2, <1>3

-----------------------------------------------------------------------------
(* Every operation of the running task preserves it.                        *)

(* Raising Cancelled at a checkpoint keeps the invariant.                   *)
LEMMA CheckpointH == HInv /\ Checkpoint => HInv'
<1> SUFFICES ASSUME HInv, Checkpoint PROVE HInv'
  OBVIOUS
<1> USE DEF HInv, TypeOK, Checkpoint
<1>1. TableTypeOK' /\ HandleTypeOK' /\ DriverTypeOK'
  BY SameTable, SameHandle, SameDriver
<1>2. ParkTypeOK'
  BY DEF take_cancellation, ParkTypeOK
<1>3. CoroTypeOK'
  BY DEF CoroTypeOK
<1>4. SchedTypeOK'
  BY DEF take_cancellation, SchedTypeOK
<1>5. ControlOK'
  BY DEF ControlOK, tableVars, driverVars
<1>6. HandleNamesItsTask'
  BY SameNames
<1>7. QED
  BY <1>1, <1>2, <1>3, <1>4, <1>5, <1>6

(* The yield of a running task keeps the invariant.                         *)
LEMMA YieldH == HInv /\ Yield => HInv'
<1> SUFFICES ASSUME HInv, Yield PROVE HInv'
  OBVIOUS
<1>o. current \in Slots /\ ops' \in Nat
  BY OperateFacts DEF Yield
<1> USE DEF HInv, TypeOK, Yield
<1>1. TableTypeOK' /\ ParkTypeOK' /\ CoroTypeOK' /\ HandleTypeOK' /\ SchedTypeOK'
  BY SameTable, SamePark, SameCoro, SameHandle, SameSched
<1>2. DriverTypeOK' /\ ControlOK'
  BY <1>o DEF DriverTypeOK, ControlOK, tableVars, coroVars
<1>3. HandleNamesItsTask'
  BY SameNames
<1>4. QED
  BY <1>1, <1>2, <1>3

(* Parking for a completion keeps the invariant.                            *)
LEMMA AwaitIoH == HInv /\ AwaitIo => HInv'
<1> SUFFICES ASSUME HInv, AwaitIo PROVE HInv'
  OBVIOUS
<1>o. current \in Slots /\ ops' \in Nat
  BY OperateFacts DEF AwaitIo
<1> USE DEF HInv, TypeOK, AwaitIo
<1>1. TableTypeOK' /\ HandleTypeOK' /\ SchedTypeOK'
  BY SameTable, SameHandle, SameSched
<1>2. ParkTypeOK'
  BY DEF ParkTypeOK
<1>3. CoroTypeOK'
  BY DEF Park, CoroTypeOK, Pcs
<1>4. DriverTypeOK'
  BY <1>o DEF Park, DriverTypeOK
<1>5. ControlOK'
  BY <1>o, ParkControl DEF Pcs, tableVars
<1>6. HandleNamesItsTask'
  BY SameNames
<1>7. QED
  BY <1>1, <1>2, <1>3, <1>4, <1>5, <1>6

(* A gather of no blocks keeps the invariant.                               *)
LEMMA GatherNoneH == HInv /\ GatherNone => HInv'
<1> SUFFICES ASSUME HInv, GatherNone PROVE HInv'
  OBVIOUS
<1>o. current \in Slots /\ ops' \in Nat
  BY OperateFacts DEF GatherNone
<1> USE DEF HInv, TypeOK, GatherNone
<1>1. TableTypeOK' /\ HandleTypeOK'
  BY SameTable, SameHandle
<1>2. ParkTypeOK'
  <2>1. wake' \in [Slots -> Wakes]
    BY DEF ParkTypeOK, Wakes
  <2>2. QED
    BY <2>1 DEF ParkTypeOK
<1>3. CoroTypeOK'
  BY DEF Park, CoroTypeOK, Pcs
<1>4. SchedTypeOK'
  BY <1>o DEF SchedTypeOK
<1>5. DriverTypeOK'
  BY <1>o DEF Park, DriverTypeOK
<1>6. ControlOK'
  BY <1>o, ParkControl DEF Pcs, tableVars
<1>7. HandleNamesItsTask'
  BY SameNames
<1>8. QED
  BY <1>1, <1>2, <1>3, <1>4, <1>5, <1>6, <1>7

(* A gather, which fills one free slot per child, keeps the invariant.      *)
LEMMA GatherH ==
  ASSUME HInv, NEW n \in 1..MaxGather, Gather(n)
  PROVE  HInv'
<1>o. current \in Slots /\ ops' \in Nat /\ mode = "task"
  BY OperateFacts DEF Gather
<1> USE DEF HInv, TypeOK, Gather
<1>p. PICK ids \in [1..n -> Free] :
        /\ kind' = [s \in Slots |-> IF \E i \in 1..n : ids[i] = s THEN "child" ELSE kind[s]]
        /\ parent' = [s \in Slots |-> IF \E i \in 1..n : ids[i] = s THEN current ELSE parent[s]]
        /\ ready' = ready \o ids
  OBVIOUS
<1>n. n \in Nat /\ n \in Int
  BY BoundsAssumption
<1>f. \A s \in Slots : kind'[s] = kind[s] \/ (kind[s] = "free" /\ kind'[s] = "child")
  BY <1>p DEF Free
<1>1. TableTypeOK'
  <2>1. kind' \in [Slots -> {"free", "main", "child", "detached"}]
    BY <1>p DEF TableTypeOK
  <2>2. parent' \in [Slots -> Slots \cup {NoTask}]
    BY <1>p, <1>o DEF TableTypeOK
  <2>3. pending' \in [Slots -> Int]
    <3>1. pending' = [pending EXCEPT ![current] = n] /\ pending \in [Slots -> Int]
      BY DEF TableTypeOK
    <3>2. QED
      BY <3>1, <1>n, CountType, Zenon
  <2>4. first_error' \in [Slots -> BOOLEAN]
    BY DEF TableTypeOK
  <2>5. handle' \in [Slots -> Handles \cup {NoHandle}]
    BY DEF TableTypeOK
  <2>6. QED
    BY <2>1, <2>2, <2>3, <2>4, <2>5 DEF TableTypeOK
<1>2. ParkTypeOK' /\ HandleTypeOK'
  BY SamePark, SameHandle
<1>3. CoroTypeOK'
  BY DEF Park, CoroTypeOK, Pcs
<1>4. SchedTypeOK'
  <2>1. ids \in Seq(Slots)
    BY <1>n DEF Free
  <2>2. ready' \in Seq(Slots)
    BY <1>p, <2>1 DEF SchedTypeOK
  <2>3. QED
    BY <2>2 DEF SchedTypeOK
<1>5. DriverTypeOK'
  BY <1>o DEF Park, DriverTypeOK
<1>6. ControlOK'
  <2>1. mode' = "top"
    BY DEF Park
  <2>2. \A s \in Slots : kind'[s] = "child" => parent'[s] \in Slots
    BY <1>p, <1>o DEF ControlOK, TableTypeOK
  <2>3. \A s \in Slots : pc'[s] = "joinTimed" => timeout_child'[s] \in Slots
    BY DEF ControlOK, Park, CoroTypeOK
  <2>4. QED
    BY <2>1, <2>2, <2>3 DEF ControlOK
<1>7. HandleNamesItsTask'
  BY SMTT(20), <1>f, NoneOutside DEF HandleNamesItsTask, HandleTypeOK, handleVars
<1>8. QED
  BY <1>1, <1>2, <1>3, <1>4, <1>5, <1>6, <1>7

(* A task spawned into a free slot with an unused handle object.            *)
LEMMA SpawnDetachedFacts ==
  ASSUME HInv, NEW s \in Slots, NEW h \in Handles, SpawnDetached(s, h)
  PROVE  /\ TableTypeOK' /\ HandleTypeOK' /\ HandleNamesItsTask'
         /\ ready' \in Seq(Slots)
         /\ \A r \in Slots : kind'[r] = "child" => parent'[r] \in Slots
<1> USE DEF HInv, TypeOK, SpawnDetached
<1>f. kind[s] = "free" /\ status[h] = "unborn"
  BY DEF FirstFree, Free
<1>1. TableTypeOK' /\ HandleTypeOK'
  BY DEF TableTypeOK, HandleTypeOK
<1>2. HandleNamesItsTask'
  BY <1>f, NoneOutside DEF HandleNamesItsTask, TableTypeOK, HandleTypeOK
<1>3. ready' \in Seq(Slots)
  BY DEF SchedTypeOK
<1>4. \A r \in Slots : kind'[r] = "child" => parent'[r] \in Slots
  BY DEF ControlOK, TableTypeOK
<1>5. QED
  BY <1>1, <1>2, <1>3, <1>4

(* A spawn, which binds a free slot and a new handle, keeps the invariant.  *)
LEMMA SpawnH == HInv /\ Spawn => HInv'
<1> SUFFICES ASSUME HInv, Spawn PROVE HInv'
  OBVIOUS
<1>o. current \in Slots /\ ops' \in Nat
  BY OperateFacts DEF Spawn
<1>p. PICK s \in Slots, h \in Handles : SpawnDetached(s, h)
  BY DEF Spawn
<1> USE DEF HInv, TypeOK, Spawn
<1>1. TableTypeOK' /\ HandleTypeOK' /\ HandleNamesItsTask'
  BY <1>p, SpawnDetachedFacts
<1>2. ParkTypeOK' /\ CoroTypeOK'
  BY SamePark, SameCoro
<1>3. SchedTypeOK'
  BY <1>p, SpawnDetachedFacts DEF SchedTypeOK
<1>4. DriverTypeOK'
  BY <1>o DEF DriverTypeOK, driverVars
<1>5. ControlOK'
  BY <1>p, SpawnDetachedFacts DEF ControlOK, coroVars, driverVars
<1>6. QED
  BY <1>1, <1>2, <1>3, <1>4, <1>5

(* A join, finished or parked, keeps the invariant.                         *)
LEMMA JoinH ==
  ASSUME HInv, NEW h \in Handles, Join(h)
  PROVE  HInv'
<1>o. current \in Slots /\ ops' \in Nat
  BY OperateFacts DEF Join
<1> USE DEF HInv, TypeOK, Join
<1>h. handle_id[h] \in Slots
  BY DEF HandleNamesItsTask, HandleTypeOK
<1>1. TableTypeOK' /\ HandleTypeOK' /\ SchedTypeOK'
  BY SameTable, SameHandle, SameSched
<1>2. ParkTypeOK'
  <2>1. waiters' \in [Slots -> Seq(Slots)]
    BY <1>o, <1>h DEF ParkTypeOK
  <2>2. joining' \in [Slots -> Slots \cup {NoTask}]
    BY <1>h DEF ParkTypeOK
  <2>3. QED
    BY <2>1, <2>2 DEF ParkTypeOK
<1>3. CoroTypeOK'
  BY DEF Park, CoroTypeOK, Pcs
<1>4. DriverTypeOK'
  BY <1>o DEF Park, DriverTypeOK
<1>5. ControlOK'
  BY <1>o, ParkControl DEF Pcs, tableVars
<1>6. HandleNamesItsTask'
  BY SameNames
<1>7. QED
  BY <1>1, <1>2, <1>3, <1>4, <1>5, <1>6

(* Task.cancel keeps the invariant.                                         *)
LEMMA CancelH ==
  ASSUME HInv, NEW h \in Handles, Cancel(h)
  PROVE  HInv'
<1>o. current \in Slots /\ ops' \in Nat
  BY OperateFacts DEF Cancel
<1> USE DEF HInv, TypeOK, Cancel
<1>h. handle_id[h] \in Slots
  BY DEF HandleNamesItsTask, HandleTypeOK
<1>1. TableTypeOK' /\ CoroTypeOK' /\ HandleTypeOK'
  BY SameTable, SameCoro, SameHandle
<1>2. ParkTypeOK' /\ SchedTypeOK'
  BY <1>h, CancelType
<1>3. DriverTypeOK'
  BY <1>o DEF DriverTypeOK, driverVars
<1>4. ControlOK'
  BY DEF ControlOK, tableVars, coroVars, driverVars
<1>5. HandleNamesItsTask'
  BY SameNames
<1>6. QED
  BY <1>1, <1>2, <1>3, <1>4, <1>5

(* The start of a timed join, with its child, keeps the invariant.          *)
LEMMA TimeoutH == HInv /\ Timeout => HInv'
<1> SUFFICES ASSUME HInv, Timeout PROVE HInv'
  OBVIOUS
<1>o. current \in Slots /\ ops' \in Nat
  BY OperateFacts DEF Timeout
<1> USE DEF HInv, TypeOK, Timeout
<1>p. PICK s \in Slots, h \in Handles :
        /\ SpawnDetached(s, h)
        /\ waiters' = [waiters EXCEPT ![s] = Append(@, current)]
        /\ joining' = [joining EXCEPT ![current] = s]
        /\ timeout_child' = [timeout_child EXCEPT ![current] = s]
        /\ timeout_handle' = [timeout_handle EXCEPT ![current] = h]
        /\ deadlines' = deadlines \cup
             {[joiner |-> current, target |-> s, epoch |-> park_epoch[current]]}
  OBVIOUS
<1>1. TableTypeOK' /\ HandleTypeOK' /\ HandleNamesItsTask'
  BY <1>p, SpawnDetachedFacts
<1>2. ParkTypeOK'
  <2>1. waiters' \in [Slots -> Seq(Slots)]
    BY <1>o, <1>p DEF ParkTypeOK
  <2>2. joining' \in [Slots -> Slots \cup {NoTask}]
    BY <1>p DEF ParkTypeOK
  <2>3. QED
    BY <2>1, <2>2 DEF ParkTypeOK
<1>3. CoroTypeOK'
  BY <1>p DEF Park, CoroTypeOK, Pcs
<1>4. SchedTypeOK'
  BY <1>p, SpawnDetachedFacts DEF SchedTypeOK
<1>5. DriverTypeOK'
  <2>1. [joiner |-> current, target |-> s, epoch |-> park_epoch[current]] \in Deadlines
    BY <1>o DEF Deadlines, ParkTypeOK
  <2>2. QED
    BY <1>o, <1>p, <2>1 DEF Park, DriverTypeOK
<1>6. ControlOK'
  <2>1. \A r \in Slots : pc'[r] = "joinTimed" => timeout_child'[r] \in Slots
    BY <1>p DEF Park, ControlOK, CoroTypeOK
  <2>2. QED
    BY <1>p, <2>1, SpawnDetachedFacts DEF Park, ControlOK
<1>7. QED
  BY <1>1, <1>2, <1>3, <1>4, <1>5, <1>6

(* Parking on a channel keeps the invariant.                                *)
LEMMA ChannelParkH == HInv /\ ChannelPark => HInv'
<1> SUFFICES ASSUME HInv, ChannelPark PROVE HInv'
  OBVIOUS
<1>o. current \in Slots /\ ops' \in Nat
  BY OperateFacts DEF ChannelPark
<1> USE DEF HInv, TypeOK, ChannelPark
<1>1. TableTypeOK' /\ HandleTypeOK' /\ SchedTypeOK'
  BY SameTable, SameHandle, SameSched
<1>2. ParkTypeOK'
  BY DEF ParkTypeOK
<1>3. CoroTypeOK'
  BY DEF Park, CoroTypeOK, Pcs
<1>4. DriverTypeOK'
  BY <1>o DEF Park, DriverTypeOK
<1>5. ControlOK'
  BY <1>o, ParkControl DEF Pcs, tableVars
<1>6. HandleNamesItsTask'
  BY SameNames
<1>7. QED
  BY <1>1, <1>2, <1>3, <1>4, <1>5, <1>6

(* Waking a task parked on a channel keeps the invariant.                   *)
LEMMA ChannelWakeH ==
  ASSUME HInv, NEW s \in Slots, ChannelWake(s)
  PROVE  HInv'
<1>o. current \in Slots /\ ops' \in Nat
  BY OperateFacts DEF ChannelWake
<1> USE DEF HInv, TypeOK, ChannelWake
<1>1. TableTypeOK' /\ CoroTypeOK' /\ HandleTypeOK'
  BY SameTable, SameCoro, SameHandle
<1>2. ParkTypeOK'
  <2>1. wake' \in [Slots -> Wakes]
    BY DEF ParkTypeOK, Wakes
  <2>2. parked_on_channel' \in [Slots -> BOOLEAN]
    BY DEF ParkTypeOK
  <2>3. QED
    BY <2>1, <2>2 DEF ParkTypeOK
<1>3. SchedTypeOK'
  BY DEF SchedTypeOK
<1>4. DriverTypeOK'
  BY <1>o DEF DriverTypeOK, driverVars
<1>5. ControlOK'
  BY DEF ControlOK, tableVars, coroVars, driverVars
<1>6. HandleNamesItsTask'
  BY SameNames
<1>7. QED
  BY <1>1, <1>2, <1>3, <1>4, <1>5, <1>6

-----------------------------------------------------------------------------
(* Every resumption from a park preserves it.                               *)

(* The code after a suspend keeps the invariant.                            *)
LEMMA AwaitResumeH == HInv /\ AwaitResume => HInv'
<1> SUFFICES ASSUME HInv, AwaitResume PROVE HInv'
  OBVIOUS
<1> USE DEF HInv, TypeOK, AwaitResume
<1>1. TableTypeOK' /\ HandleTypeOK' /\ DriverTypeOK'
  BY SameTable, SameHandle, SameDriver
<1>2. ParkTypeOK'
  <2>1. cancel_requested' \in [Slots -> BOOLEAN]
    BY DEF take_cancellation, ParkTypeOK
  <2>2. QED
    BY <2>1 DEF ParkTypeOK
<1>3. CoroTypeOK'
  <2>1. unwinding' \in [Slots -> BOOLEAN]
    BY DEF CoroTypeOK
  <2>2. pc' \in [Slots -> Pcs]
    BY DEF CoroTypeOK, Pcs
  <2>3. QED
    BY <2>1, <2>2 DEF CoroTypeOK
<1>4. SchedTypeOK'
  <2>1. cancel_current' \in BOOLEAN
    BY DEF take_cancellation, SchedTypeOK
  <2>2. sched_wake' \in Wakes
    BY DEF SchedTypeOK, Wakes
  <2>3. QED
    BY <2>1, <2>2 DEF SchedTypeOK
<1>5. ControlOK'
  BY DEF ControlOK, CoroTypeOK, tableVars, driverVars
<1>6. HandleNamesItsTask'
  BY SameNames
<1>7. QED
  BY <1>1, <1>2, <1>3, <1>4, <1>5, <1>6

(* The child of a timed join, drained: cancelled, and joined or found gone. *)
LEMMA DrainType ==
  ASSUME HInv, current \in Slots, timeout_child[current] \in Slots,
         UNCHANGED <<tableVars, handleVars, timeout_child, timeout_handle>>,
         NEW where \in Drains, NEW raise \in BOOLEAN,
         DrainFinished(raise) \/ DrainPark(where)
  PROVE  /\ waiters' \in [Slots -> Seq(Slots)]
         /\ joining' \in [Slots -> Slots \cup {NoTask}]
         /\ parked_on_channel' \in [Slots -> BOOLEAN]
         /\ io' \in [Slots -> {"none", "inflight", "aborted"}]
         /\ ready' \in Seq(Slots)
         /\ CoroTypeOK'
         /\ current' \in Slots \cup {NoTask}
         /\ mode' \in {mode, "top"}
         /\ mode' = mode => current' = current \/ mode = "top"
         /\ \A s \in Slots : pc'[s] = "joinTimed" => timeout_child'[s] \in Slots
<1> USE DEF HInv, TypeOK
<1>1. CASE DrainFinished(raise)
  <2>1. pc' \in [Slots -> Pcs]
    BY <1>1 DEF DrainFinished, CoroTypeOK, Pcs
  <2>2. unwinding' \in [Slots -> BOOLEAN]
    BY <1>1 DEF DrainFinished, CoroTypeOK
  <2>3. CoroTypeOK'
    BY <2>1, <2>2 DEF CoroTypeOK
  <2>4. \A s \in Slots : pc'[s] = "joinTimed" => timeout_child'[s] \in Slots
    BY <1>1 DEF DrainFinished, CoroTypeOK, ControlOK
  <2>5. QED
    BY <1>1, <2>3, <2>4 DEF DrainFinished, ParkTypeOK, SchedTypeOK, DriverTypeOK
<1>2. CASE DrainPark(where)
  <2>1. waiters' \in [Slots -> Seq(Slots)]
    BY <1>2, NudgeType DEF DrainPark
  <2>2. joining' \in [Slots -> Slots \cup {NoTask}]
    BY <1>2, NudgeType DEF DrainPark
  <2>3. /\ parked_on_channel' \in [Slots -> BOOLEAN]
        /\ io' \in [Slots -> {"none", "inflight", "aborted"}]
        /\ ready' \in Seq(Slots)
    BY <1>2, NudgeType DEF DrainPark
  <2>4. CoroTypeOK'
    BY <1>2 DEF DrainPark, Park, CoroTypeOK, Pcs
  <2>5. current' = NoTask /\ mode' = "top"
    BY <1>2 DEF DrainPark, Park
  <2>6. \A s \in Slots : pc'[s] = "joinTimed" => timeout_child'[s] \in Slots
    BY <1>2 DEF DrainPark, Park, CoroTypeOK, ControlOK, Drains
  <2>7. QED
    BY <2>1, <2>2, <2>3, <2>4, <2>5, <2>6
<1>3. QED
  BY <1>1, <1>2

(* The code after a timed join keeps the invariant, child drained or not.   *)
LEMMA TimeoutResumeH == HInv /\ TimeoutResume => HInv'
<1> SUFFICES ASSUME HInv, TimeoutResume PROVE HInv'
  OBVIOUS
<1> USE DEF HInv, TypeOK, TimeoutResume
<1>c. current \in Slots /\ timeout_child[current] \in Slots
  BY DEF ControlOK
<1>t. TableTypeOK' /\ HandleTypeOK' /\ HandleNamesItsTask'
  BY SameTable, SameHandle, SameNames
<1>f. \A own \in BOOLEAN : DrainFlags(own) => cancel_requested' \in [Slots -> BOOLEAN]
  BY DEF DrainFlags, ParkTypeOK
<1>1. CASE cancel_current
  <2>1. cancel_current' = FALSE /\ UNCHANGED sched_wake /\ DrainFlags(TRUE)
          /\ (DrainFinished(TRUE) \/ DrainPark("drainCancel"))
    BY <1>1
  <2>2. ParkTypeOK' /\ CoroTypeOK'
    BY <1>c, <1>f, <2>1, DrainType DEF ParkTypeOK, Drains
  <2>3. SchedTypeOK' /\ DriverTypeOK'
    BY <1>c, <2>1, DrainType DEF SchedTypeOK, DriverTypeOK, Drains
  <2>4. ControlOK'
    BY <1>c, <2>1, DrainType DEF ControlOK, Drains, tableVars
  <2>5. QED
    BY <1>t, <2>2, <2>3, <2>4
<1>2. CASE ~cancel_current /\ sched_wake = "TimedOut"
  <2>1. UNCHANGED cancel_current /\ sched_wake' = "none" /\ DrainFlags(FALSE)
          /\ (DrainFinished(FALSE) \/ DrainPark("drainTimeout"))
    BY <1>2
  <2>2. ParkTypeOK' /\ CoroTypeOK'
    BY <1>c, <1>f, <2>1, DrainType DEF ParkTypeOK, Drains
  <2>3. SchedTypeOK' /\ DriverTypeOK'
    BY <1>c, <2>1, DrainType DEF SchedTypeOK, DriverTypeOK, Drains, Wakes
  <2>4. ControlOK'
    BY <1>c, <2>1, DrainType DEF ControlOK, Drains, tableVars
  <2>5. QED
    BY <1>t, <2>2, <2>3, <2>4
<1>3. CASE ~cancel_current /\ sched_wake # "TimedOut"
  <2>1. /\ sched_wake' = "none"
        /\ pc' = [pc EXCEPT ![current] = "run"]
        /\ UNCHANGED <<cancel_current, cancel_requested, waiters, joining, io,
                       parked_on_channel, ready, unwinding, current, mode>>
    BY <1>3
  <2>2. ParkTypeOK'
    BY <2>1, SamePark DEF parkVars
  <2>3. CoroTypeOK'
    BY <2>1 DEF CoroTypeOK, Pcs
  <2>4. SchedTypeOK' /\ DriverTypeOK'
    BY <2>1 DEF SchedTypeOK, DriverTypeOK, Wakes
  <2>5. ControlOK'
    BY <2>1 DEF ControlOK, CoroTypeOK, tableVars
  <2>6. QED
    BY <1>t, <2>2, <2>3, <2>4, <2>5
<1>4. QED
  BY <1>1, <1>2, <1>3

(* The code after the drain of a timed-out child keeps the invariant.       *)
LEMMA DrainResumeH == HInv /\ DrainResume => HInv'
<1> SUFFICES ASSUME HInv, DrainResume PROVE HInv'
  OBVIOUS
<1> USE DEF HInv, TypeOK, DrainResume
<1>1. TableTypeOK' /\ HandleTypeOK' /\ DriverTypeOK'
  BY SameTable, SameHandle, SameDriver
<1>2. ParkTypeOK'
  <2>1. cancel_requested' \in [Slots -> BOOLEAN]
    BY DEF take_cancellation, ParkTypeOK
  <2>2. QED
    BY <2>1 DEF ParkTypeOK
<1>3. CoroTypeOK'
  <2>1. unwinding' \in [Slots -> BOOLEAN]
    BY DEF CoroTypeOK
  <2>2. pc' \in [Slots -> Pcs]
    BY DEF CoroTypeOK, Pcs
  <2>3. QED
    BY <2>1, <2>2 DEF CoroTypeOK
<1>4. SchedTypeOK'
  <2>1. cancel_current' \in BOOLEAN
    BY DEF take_cancellation, SchedTypeOK
  <2>2. sched_wake' \in Wakes
    BY DEF SchedTypeOK, Wakes
  <2>3. QED
    BY <2>1, <2>2 DEF SchedTypeOK
<1>5. ControlOK'
  BY DEF ControlOK, CoroTypeOK, tableVars, driverVars
<1>6. HandleNamesItsTask'
  BY SameNames
<1>7. QED
  BY <1>1, <1>2, <1>3, <1>4, <1>5, <1>6

-----------------------------------------------------------------------------
(* The completion of a task preserves it.                                   *)

(* A task that ends leaves its own slot clean and no other one touched.     *)
LEMMA FreeCurrentType ==
  ASSUME HInv, FreeCurrent
  PROVE  /\ kind' \in [Slots -> {"free", "main", "child", "detached"}]
         /\ parent' \in [Slots -> Slots \cup {NoTask}]
         /\ handle' \in [Slots -> Handles \cup {NoHandle}]
         /\ waiters' \in [Slots -> Seq(Slots)]
         /\ park_epoch' \in [Slots -> Nat]
         /\ unwinding' \in [Slots -> BOOLEAN]
         /\ timeout_child' \in [Slots -> Slots \cup {NoTask}]
         /\ timeout_handle' \in [Slots -> Handles \cup {NoHandle}]
         /\ current' = NoTask
<1> USE DEF HInv, TypeOK, FreeCurrent
<1>1. kind' \in [Slots -> {"free", "main", "child", "detached"}]
  BY DEF TableTypeOK
<1>2. parent' \in [Slots -> Slots \cup {NoTask}]
        /\ handle' \in [Slots -> Handles \cup {NoHandle}]
  BY DEF TableTypeOK
<1>3. waiters' \in [Slots -> Seq(Slots)]
  <2>1. <<>> \in Seq(Slots)
    OBVIOUS
  <2>2. QED
    BY <2>1, Zenon DEF ParkTypeOK
<1>4. park_epoch' \in [Slots -> Nat]
  BY DEF ParkTypeOK
<1>5. unwinding' \in [Slots -> BOOLEAN]
  BY DEF CoroTypeOK
<1>6. timeout_child' \in [Slots -> Slots \cup {NoTask}]
        /\ timeout_handle' \in [Slots -> Handles \cup {NoHandle}]
  BY DEF CoroTypeOK
<1>7. QED
  BY <1>1, <1>2, <1>3, <1>4, <1>5, <1>6

(* The end of a task, which frees its slot and settles its handle, keeps it.*)
LEMMA FinishH == HInv /\ Finish => HInv'
<1> SUFFICES ASSUME HInv, Finish PROVE HInv'
  OBVIOUS
<1> USE DEF HInv, TypeOK
<1>c. current \in Slots /\ pc[current] = "run"
  BY DEF Finish, Running, ControlOK
<1>p. PICK out \in Outcome : complete_detached(out) \/ complete_child(out) \/ complete_main
  BY DEF Finish
<1>o. out \in {"Done", "Failed", "Cancelled"}
  BY DEF Outcome
<1>f. FreeCurrent
  BY <1>p DEF complete_detached, complete_child, complete_main
<1>u. UNCHANGED <<cancel_requested, parked_on_channel, io, pc, handle_id, current_task,
                  cancel_current, sched_wake, park_seq, deadlines, signal_cancel_sent, ops>>
  BY DEF Finish
<1>k. \A s \in Slots : s # current => kind'[s] = kind[s] /\ parent'[s] = parent[s]
                                        /\ handle'[s] = handle[s]
  BY <1>f DEF FreeCurrent, TableTypeOK
<1>g. kind'[current] = "free"
  BY <1>c, <1>f DEF FreeCurrent, TableTypeOK
<1>1. CoroTypeOK'
  BY <1>f, <1>u, FreeCurrentType DEF CoroTypeOK
<1>2. ControlOK'
  <2>1. mode' \in {"top", "ended"}
    BY <1>p DEF complete_detached, complete_child, complete_main
  <2>2. \A s \in Slots : kind'[s] = "child" => parent'[s] \in Slots
    BY <1>k, <1>g DEF ControlOK
  <2>3. \A s \in Slots : pc'[s] = "joinTimed" => timeout_child'[s] \in Slots
    BY <1>c, <1>f, <1>u DEF ControlOK, CoroTypeOK, FreeCurrent
  <2>4. QED
    BY <2>1, <2>2, <2>3 DEF ControlOK
<1>3. DriverTypeOK'
  <2>1. mode' \in {"top", "ended"}
    BY <1>p DEF complete_detached, complete_child, complete_main
  <2>2. QED
    BY <1>f, <1>u, <2>1, FreeCurrentType DEF DriverTypeOK
<1>4. CASE complete_detached(out)
  <2> USE <1>4 DEF complete_detached
  <2>1. TableTypeOK'
    BY <1>f, FreeCurrentType DEF TableTypeOK
  <2>2. ParkTypeOK'
    <3>1. joining' \in [Slots -> Slots \cup {NoTask}]
      BY DEF ParkTypeOK
    <3>2. JoinWake(out) \in Wakes
      BY <1>o DEF JoinWake, Wakes, JoinWakes
    <3>3. wake' \in [Slots -> Wakes]
      BY <3>2 DEF ParkTypeOK
    <3>4. QED
      BY <1>f, <1>u, <3>1, <3>3, FreeCurrentType DEF ParkTypeOK
  <2>3. SchedTypeOK'
    <3>1. ready' \in Seq(Slots)
      BY <1>c DEF SchedTypeOK, ParkTypeOK
    <3>2. QED
      BY <1>u, <3>1 DEF SchedTypeOK
  <2>4. handle[current] \in Handles /\ status[handle[current]] = "Running"
          /\ handle_id[handle[current]] = current
    BY <1>c DEF HandleNamesItsTask, TableTypeOK
  <2>5. HandleTypeOK'
    BY <1>o, <1>u DEF HandleTypeOK
  <2>6. HandleNamesItsTask'
    <3>1. status' = [status EXCEPT ![handle[current]] = out] /\ out # "Running"
      BY <1>o
    <3>2. \A h \in Handles : h # handle[current] => status'[h] = status[h]
      BY <3>1, <2>4 DEF HandleTypeOK
    <3>3. status'[handle[current]] # "Running"
      BY <3>1, <2>4 DEF HandleTypeOK
    <3>4. ASSUME NEW h \in Handles, status'[h] = "Running"
          PROVE  handle_id'[h] # NoTask /\ kind'[handle_id'[h]] = "detached"
                   /\ handle'[handle_id'[h]] = h
      <4>1. h # handle[current] /\ status[h] = "Running"
        BY <3>2, <3>3, <3>4
      <4>2. handle_id[h] \in Slots /\ handle_id[h] # current
        BY <4>1 DEF HandleNamesItsTask, HandleTypeOK
      <4>3. QED
        BY <1>k, <1>u, <4>1, <4>2 DEF HandleNamesItsTask
    <3>5. ASSUME NEW s \in Slots, kind'[s] = "detached"
          PROVE  handle'[s] # NoHandle /\ status'[handle'[s]] = "Running"
                   /\ handle_id'[handle'[s]] = s
      <4>1. s # current /\ kind[s] = "detached" /\ handle'[s] = handle[s]
        BY <1>k, <1>g, <3>5
      <4>2. handle[s] \in Handles /\ status[handle[s]] = "Running" /\ handle_id[handle[s]] = s
        BY <4>1 DEF HandleNamesItsTask, TableTypeOK
      <4>3. handle[s] # handle[current]
        BY <2>4, <4>1, <4>2
      <4>4. QED
        BY <1>u, <3>2, <4>1, <4>2, <4>3, NoneOutside
    <3>6. QED
      BY <3>4, <3>5 DEF HandleNamesItsTask
  <2>7. QED
    BY <1>1, <1>2, <1>3, <2>1, <2>2, <2>3, <2>5, <2>6
<1>n. ASSUME kind[current] # "detached", UNCHANGED status PROVE HandleNamesItsTask'
  <2>1. ASSUME NEW h \in Handles, status'[h] = "Running"
        PROVE  handle_id'[h] # NoTask /\ kind'[handle_id'[h]] = "detached"
                 /\ handle'[handle_id'[h]] = h
    <3>1. handle_id[h] \in Slots /\ handle_id[h] # current
      BY <1>n, <2>1 DEF HandleNamesItsTask, HandleTypeOK
    <3>2. QED
      BY <1>n, <1>k, <1>u, <2>1, <3>1 DEF HandleNamesItsTask
  <2>2. ASSUME NEW s \in Slots, kind'[s] = "detached"
        PROVE  handle'[s] # NoHandle /\ status'[handle'[s]] = "Running"
                 /\ handle_id'[handle'[s]] = s
    BY <1>n, <1>k, <1>g, <1>u, <2>2 DEF HandleNamesItsTask
  <2>3. QED
    BY <2>1, <2>2 DEF HandleNamesItsTask
<1>5. CASE complete_child(out)
  <2> USE <1>5 DEF complete_child
  <2>p. parent[current] \in Slots
    BY <1>c DEF ControlOK
  <2>1. TableTypeOK'
    <3>1. pending' \in [Slots -> Int]
      BY <2>p DEF TableTypeOK
    <3>2. first_error' \in [Slots -> BOOLEAN]
      BY <2>p DEF TableTypeOK
    <3>3. QED
      BY <1>f, <3>1, <3>2, FreeCurrentType DEF TableTypeOK
  <2>2. ParkTypeOK'
    <3>1. wake' \in [Slots -> Wakes]
      BY DEF ParkTypeOK, Wakes
    <3>2. QED
      BY <1>f, <1>u, <3>1, FreeCurrentType DEF ParkTypeOK
  <2>3. SchedTypeOK'
    <3>1. ready' \in Seq(Slots)
      BY <2>p DEF SchedTypeOK
    <3>2. QED
      BY <1>u, <3>1 DEF SchedTypeOK
  <2>4. HandleTypeOK'
    BY <1>u DEF HandleTypeOK
  <2>5. HandleNamesItsTask'
    BY <1>n
  <2>6. QED
    BY <1>1, <1>2, <1>3, <2>1, <2>2, <2>3, <2>4, <2>5
<1>6. CASE complete_main
  <2> USE <1>6 DEF complete_main
  <2>1. TableTypeOK'
    BY <1>f, FreeCurrentType DEF TableTypeOK
  <2>2. ParkTypeOK'
    BY <1>f, <1>u, FreeCurrentType DEF ParkTypeOK
  <2>3. SchedTypeOK' /\ HandleTypeOK'
    BY <1>u DEF SchedTypeOK, HandleTypeOK
  <2>4. HandleNamesItsTask'
    BY <1>n
  <2>5. QED
    BY <1>1, <1>2, <1>3, <2>1, <2>2, <2>3, <2>4
<1>7. QED
  BY <1>p, <1>4, <1>5, <1>6

-----------------------------------------------------------------------------
(* The theorems.                                                            *)

(* Every step of the specification preserves the inductive invariant.       *)
LEMMA HNext == HInv /\ [Next]_vars => HInv'
<1> SUFFICES ASSUME HInv, [Next]_vars PROVE HInv'
  OBVIOUS
<1>1. CASE UNCHANGED vars
  <2>1. UNCHANGED <<tableVars, parkVars, coroVars, handleVars, schedVars, driverVars, ops>>
    BY <1>1 DEF vars
  <2>2. TypeOK'
    BY <2>1, SameTable, SamePark, SameCoro, SameHandle, SameSched, SameDriver
       DEF HInv, TypeOK
  <2>3. ControlOK' /\ HandleNamesItsTask'
    BY <2>1, SameNames DEF HInv, ControlOK, tableVars, coroVars, driverVars
  <2>4. QED
    BY <2>2, <2>3 DEF HInv
<1>2. CASE Pick \/ ResumeCurrent \/ SignalCancel \/ Rotate \/ GlobalDeadlock
  BY <1>2, PickH, ResumeCurrentH, SignalCancelH, RotateH, GlobalDeadlockH
<1>3. CASE (\E s \in Slots : DeliverIo(s)) \/ \E d \in deadlines : DeliverDeadline(d)
  BY <1>3, DeliverIoH, DeliverDeadlineH
<1>4. CASE Checkpoint \/ Yield \/ AwaitIo \/ GatherNone \/ Spawn \/ Timeout \/ ChannelPark
  BY <1>4, CheckpointH, YieldH, AwaitIoH, GatherNoneH, SpawnH, TimeoutH, ChannelParkH
<1>5. CASE \E n \in 1..MaxGather : Gather(n)
  BY <1>5, GatherH
<1>6. CASE \E h \in Handles : Join(h) \/ Cancel(h)
  BY <1>6, JoinH, CancelH
<1>7. CASE \E s \in Slots : ChannelWake(s)
  BY <1>7, ChannelWakeH
<1>8. CASE AwaitResume \/ TimeoutResume \/ DrainResume \/ Finish
  BY <1>8, AwaitResumeH, TimeoutResumeH, DrainResumeH, FinishH
<1>9. CASE Ended
  BY <1>1, <1>9 DEF Ended
<1>10. QED
  BY <1>1, <1>2, <1>3, <1>4, <1>5, <1>6, <1>7, <1>8, <1>9 DEF Next

(* The inductive invariant holds in every reachable state.                  *)
LEMMA HInvariant == Spec => []HInv
  BY HInit, HNext, PTL DEF Spec

(* The scheduler is type correct for every table size, handle count and     *)
(* program length: in particular a slot index that reaches the ready queue, *)
(* a waiter list or `parent` is always a slot of the table.                 *)
THEOREM TypeCorrect == Spec => []TypeOK
<1>1. HInv => TypeOK
  BY DEF HInv
<1>2. QED
  BY <1>1, HInvariant, PTL

(* NativeTaskHandle: a Running handle names the slot of its own task and a  *)
(* live detached task is named by its own handle, through every reuse of    *)
(* the slots.                                                               *)
THEOREM HandlesCorrect == Spec => []HandleNamesItsTask
<1>1. HInv => HandleNamesItsTask
  BY DEF HInv
<1>2. QED
  BY <1>1, HInvariant, PTL

-----------------------------------------------------------------------------
(* The wake invariant.                                                      *)

(* A queue names nobody twice.                                              *)
Once(q) == \A i, j \in 1..Len(q) : i # j => q[i] # q[j]
Queued(s) == Contains(ready, s)
Waits(t, s) == Contains(waiters[t], s)

(* Nobody is queued twice, the loaded task is not queued, and a waiter list *)
(* names tasks that are parked on its own target.                           *)
QueueOK ==
  /\ Once(ready)
  /\ ~Queued(current)
  /\ \A t \in Slots : Once(waiters[t])
  /\ \A s, t \in Slots : Waits(t, s) => joining[s] = t

(* Nothing that could wake the task refers to it.                           *)
Idle(s) == io[s] = "none" /\ joining[s] = NoTask /\ ~parked_on_channel[s] /\ pending[s] = 0

(* The park's own waker, where it is a live task.                           *)
Joined(s) == joining[s] \in Slots /\ kind[joining[s]] = "detached" /\ Waits(joining[s], s)

Joins == {"join", "joinTimed"}

(* A free slot carries nothing over to its next task.                       *)
FreeOK(s) == kind[s] = "free" =>
  /\ Idle(s) /\ pc[s] = "run" /\ wake[s] = "none" /\ ~cancel_requested[s]
  /\ park_epoch[s] = 0 /\ ~Queued(s) /\ s # current /\ waiters[s] = <<>>

(* The waker fits the place the coroutine is suspended at.                  *)
PlaceOK(s) ==
  /\ s = current \/ Queued(s) => Idle(s)
  /\ io[s] # "none" => pc[s] = "io"
  /\ joining[s] # NoTask => pc[s] \in Joins \cup Drains
  /\ parked_on_channel[s] => pc[s] = "channel"
  /\ pc[s] = "joinTimed" => timeout_child[s] # s

(* A delivered wake is of the park's kind, and its task is queued; a task   *)
(* that is queued out of a park has a wake or a cancel to find.             *)
WakeOK(s) ==
  /\ wake[s] # "none" => Queued(s) /\ WakeFits(wake[s], pc[s])
  /\ Queued(s) /\ pc[s] # "run" => wake[s] # "none" \/ cancel_requested[s]

(* A requested cancel is on its way.                                        *)
CancelOK(s) ==
  /\ io[s] = "aborted" => cancel_requested[s]
  /\ cancel_requested[s] /\ kind[s] # "free" =>
       s = current \/ Queued(s) \/ io[s] = "aborted" \/ pc[s] = "gather"

(* A task that is neither loaded nor queued has a waker.                    *)
RestOK(s) == kind[s] # "free" /\ s # current /\ ~Queued(s) =>
  /\ pc[s] # "run"
  /\ pc[s] = "io" => io[s] # "none"
  /\ pc[s] = "gather" => pending[s] > 0
  /\ pc[s] = "channel" => parked_on_channel[s]
  /\ pc[s] \in Drains => joining[s] # NoTask
  /\ pc[s] \in Joins => Joined(s)

SlotOK(s) == FreeOK(s) /\ PlaceOK(s) /\ WakeOK(s) /\ CancelOK(s) /\ RestOK(s)

(* The loaded task, its live cancel flag and the wake it is given.          *)
LoadedOK ==
  /\ current # NoTask =>
       /\ current = current_task
       /\ cancel_current <=> cancel_requested[current]
       /\ park_epoch[current] > 0
       /\ mode # "task" => pc[current] = "run"
  /\ mode = "task" /\ pc[current] # "run" => cancel_current \/ WakeFits(sched_wake, pc[current])

(* A deadline arms a park while the slot's epoch is the one it captured:    *)
(* then the slot is still in that very timed join, and no other deadline    *)
(* arms it.                                                                 *)
Arms(d, s) == d.joiner = s /\ d.epoch = park_epoch[s]
DeadlineOK ==
  /\ \A s \in Slots : park_epoch[s] <= park_seq
  /\ \A d \in deadlines : d.epoch > 0 /\ d.epoch <= park_seq
  /\ \A d \in deadlines, s \in Slots : Arms(d, s) =>
       pc[s] = "joinTimed" /\ s # current /\ wake[s] # "TimedOut"
  /\ \A d, e \in deadlines, s \in Slots : Arms(d, s) /\ Arms(e, s) => d = e

SInv == QueueOK /\ (\A s \in Slots : SlotOK(s)) /\ LoadedOK /\ DeadlineOK /\ PendingCountsChildren
(* A queue after one more entry: what it holds, and that nothing is twice.  *)
LEMMA AppendEntry ==
  ASSUME NEW q \in Seq(Slots), NEW x \in Slots
  PROVE  /\ \A y \in Slots : Contains(Append(q, x), y) <=> Contains(q, y) \/ y = x
         /\ Once(q) /\ ~Contains(q, x) => Once(Append(q, x))
<1>1. Len(Append(q, x)) = Len(q) + 1 /\ Append(q, x)[Len(q) + 1] = x
  OBVIOUS
<1>2. \A i \in 1..Len(q) : Append(q, x)[i] = q[i]
  OBVIOUS
<1>3. QED
  BY <1>1, <1>2 DEF Contains, Once

(* The entries of one queue behind another.                                 *)
LEMMA ConcatParts ==
  ASSUME NEW q \in Seq(Slots), NEW w \in Seq(Slots)
  PROVE  /\ Len(q \o w) = Len(q) + Len(w)
         /\ \A k \in 1..(Len(q) + Len(w)) :
              (q \o w)[k] = IF k <= Len(q) THEN q[k] ELSE w[k - Len(q)]
  OBVIOUS

(* One entry taken out of a queue that holds each entry once.               *)
LEMMA RemoveEntry ==
  ASSUME NEW q \in Seq(Slots), NEW i \in 1..Len(q), Once(q)
  PROVE  /\ Once(RemoveAt(q, i))
         /\ \A y \in Slots : Contains(RemoveAt(q, i), y) <=> Contains(q, y) /\ y # q[i]
<1> DEFINE r == RemoveAt(q, i)
<1> DEFINE a == SubSeq(q, 1, i - 1)
           b == SubSeq(q, i + 1, Len(q))
<1>a. a \in Seq(Slots) /\ Len(a) = i - 1 /\ \A k \in 1..(i - 1) : a[k] = q[k]
  OBVIOUS
<1>b. b \in Seq(Slots) /\ Len(b) = Len(q) - i /\ \A k \in 1..(Len(q) - i) : b[k] = q[k + i]
  OBVIOUS
<1>c. r = a \o b
  BY DEF RemoveAt
<1> HIDE DEF a, b, r
<1>d. /\ Len(r) = Len(a) + Len(b)
      /\ \A k \in 1..(Len(a) + Len(b)) : r[k] = IF k <= Len(a) THEN a[k] ELSE b[k - Len(a)]
  BY <1>a, <1>b, <1>c, ConcatParts
<1>1. Len(q) \in Nat /\ Len(r) = Len(q) - 1
  BY <1>a, <1>b, <1>d
<1>2. ASSUME NEW k \in 1..Len(r) PROVE r[k] = IF k < i THEN q[k] ELSE q[k + 1]
  <2>1. r[k] = IF k <= i - 1 THEN a[k] ELSE b[k - (i - 1)]
    BY <1>a, <1>b, <1>d, <1>1
  <2>2. CASE k < i
    BY <2>1, <2>2, <1>a
  <2>3. CASE k >= i
    <3>1. k - (i - 1) \in 1..(Len(q) - i)
      BY <2>3, <1>1
    <3>2. b[k - (i - 1)] = q[k - (i - 1) + i]
      BY <3>1, <1>b
    <3>3. QED
      BY <2>1, <2>3, <3>2, <1>1
  <2>4. QED
    BY <2>2, <2>3, <1>1
<1>3. Once(r)
  BY <1>1, <1>2 DEF Once
<1>4. ASSUME NEW y \in Slots, Contains(r, y) PROVE Contains(q, y) /\ y # q[i]
  BY <1>1, <1>2, <1>4 DEF Once, Contains
<1>5. ASSUME NEW y \in Slots, Contains(q, y), y # q[i] PROVE Contains(r, y)
  <2>1. PICK k \in 1..Len(q) : q[k] = y
    BY <1>5 DEF Contains
  <2>2. k # i
    BY <2>1, <1>5
  <2>3. CASE k < i
    BY <2>1, <2>3, <1>1, <1>2 DEF Contains
  <2>4. CASE k > i
    <3>1. k - 1 \in 1..Len(r) /\ r[k - 1] = q[k]
      BY <2>1, <2>4, <1>1, <1>2
    <3>2. QED
      BY <2>1, <3>1 DEF Contains
  <2>5. QED
    BY <2>1, <2>2, <2>3, <2>4
<1>6. QED
  BY <1>3, <1>4, <1>5 DEF r

(* Retain takes one joiner out of a waiter list.                            *)
LEMMA RetainEntry ==
  ASSUME NEW q \in Seq(Slots), NEW x \in Slots, Once(q)
  PROVE  /\ Once(Retain(q, x))
         /\ \A y \in Slots : Contains(Retain(q, x), y) <=> Contains(q, y) /\ y # x
<1>1. CASE Contains(q, x)
  <2>1. PICK i \in 1..Len(q) : i = CHOOSE k \in 1..Len(q) : q[k] = x
    BY <1>1 DEF Contains
  <2>2. q[i] = x
    BY <1>1, <2>1 DEF Contains
  <2>3. Retain(q, x) = RemoveAt(q, i)
    BY <1>1, <2>1 DEF Retain
  <2>4. QED
    BY <2>2, <2>3, RemoveEntry
<1>2. CASE ~Contains(q, x)
  BY <1>2 DEF Retain
<1>3. QED
  BY <1>1, <1>2

(* A queue with another one put behind it.                                  *)
LEMMA ConcatEntries ==
  ASSUME NEW q \in Seq(Slots), NEW w \in Seq(Slots)
  PROVE  /\ \A y \in Slots : Contains(q \o w, y) <=> Contains(q, y) \/ Contains(w, y)
         /\ Once(q) /\ Once(w) /\ (\A y \in Slots : ~(Contains(q, y) /\ Contains(w, y)))
              => Once(q \o w)
<1> DEFINE r == q \o w
<1>1. Len(r) = Len(q) + Len(w)
  OBVIOUS
<1>2. \A k \in 1..Len(q) : r[k] = q[k]
  OBVIOUS
<1>3. \A k \in 1..Len(w) : r[Len(q) + k] = w[k]
  OBVIOUS
<1>e. \A k \in 1..Len(r) : k \in 1..Len(q) \/ \E m \in 1..Len(w) : k = Len(q) + m
  <2> SUFFICES ASSUME NEW k \in 1..Len(r), k \notin 1..Len(q)
               PROVE  k - Len(q) \in 1..Len(w) /\ k = Len(q) + (k - Len(q))
    OBVIOUS
  <2>1. QED
    BY <1>1
<1>t. \A k \in 1..Len(q) : q[k] \in Slots
  OBVIOUS
<1> HIDE DEF r
<1>4. ASSUME NEW y \in Slots PROVE Contains(r, y) <=> Contains(q, y) \/ Contains(w, y)
  <2>1. ASSUME Contains(r, y) PROVE Contains(q, y) \/ Contains(w, y)
    BY <2>1, <1>2, <1>3, <1>e DEF Contains
  <2>2. ASSUME Contains(q, y) PROVE Contains(r, y)
    BY <2>2, <1>1, <1>2 DEF Contains
  <2>3. ASSUME Contains(w, y) PROVE Contains(r, y)
    <3>1. PICK m \in 1..Len(w) : w[m] = y
      BY <2>3 DEF Contains
    <3>2. Len(q) + m \in 1..Len(r) /\ r[Len(q) + m] = y
      BY <3>1, <1>1, <1>3
    <3>3. QED
      BY <3>2 DEF Contains
  <2>4. QED
    BY <2>1, <2>2, <2>3
<1>5. ASSUME Once(q), Once(w), \A y \in Slots : ~(Contains(q, y) /\ Contains(w, y))
      PROVE  Once(r)
  <2> SUFFICES ASSUME NEW i \in 1..Len(r), NEW j \in 1..Len(r), i # j, r[i] = r[j]
               PROVE  FALSE
    BY DEF Once
  <2>1. CASE i \in 1..Len(q) /\ j \in 1..Len(q)
    BY <2>1, <1>2, <1>5 DEF Once
  <2>2. ASSUME NEW k \in 1..Len(q), NEW m \in 1..Len(w), q[k] = w[m] PROVE FALSE
    <3>1. Contains(q, q[k]) /\ Contains(w, q[k])
      BY <2>2 DEF Contains
    <3>2. QED
      BY <3>1, <1>5, <1>t
  <2>3. CASE i \in 1..Len(q) /\ j \notin 1..Len(q)
    BY SMTT(20), <2>3, <2>2, <1>2, <1>3, <1>e
  <2>4. CASE i \notin 1..Len(q) /\ j \in 1..Len(q)
    BY SMTT(20), <2>4, <2>2, <1>2, <1>3, <1>e
  <2>5. CASE i \notin 1..Len(q) /\ j \notin 1..Len(q)
    <3>1. PICK k \in 1..Len(w) : i = Len(q) + k
      BY <2>5, <1>e
    <3>2. PICK m \in 1..Len(w) : j = Len(q) + m
      BY <2>5, <1>e
    <3>3. k # m /\ w[k] = w[m]
      BY <3>1, <3>2, <1>3
    <3>4. QED
      BY <3>3, <1>5 DEF Once
  <2>6. QED
    BY <2>1, <2>3, <2>4, <2>5
<1>6. QED
  BY <1>4, <1>5 DEF r

-----------------------------------------------------------------------------
(* What a step leaves alone.                                                *)

(* The functions on slots, from the type invariant.                         *)
LEMMA Typed ==
  ASSUME HInv
  PROVE  /\ kind \in [Slots -> {"free", "main", "child", "detached"}]
         /\ parent \in [Slots -> Slots \cup {NoTask}]
         /\ pending \in [Slots -> Int]
         /\ waiters \in [Slots -> Seq(Slots)]
         /\ cancel_requested \in [Slots -> BOOLEAN]
         /\ joining \in [Slots -> Slots \cup {NoTask}]
         /\ park_epoch \in [Slots -> Nat]
         /\ parked_on_channel \in [Slots -> BOOLEAN]
         /\ wake \in [Slots -> Wakes]
         /\ io \in [Slots -> {"none", "inflight", "aborted"}]
         /\ pc \in [Slots -> Pcs]
         /\ timeout_child \in [Slots -> Slots \cup {NoTask}]
         /\ ready \in Seq(Slots)
         /\ current \in Slots \cup {NoTask} /\ current_task \in Slots
         /\ park_seq \in Nat
         /\ deadlines \subseteq Deadlines
         /\ NoTask \notin Slots
  BY NoneOutside DEF HInv, TypeOK, TableTypeOK, ParkTypeOK, CoroTypeOK, SchedTypeOK, DriverTypeOK

(* Only slots are queued or listed.                                         *)
LEMMA QueuedIsSlot ==
  ASSUME HInv
  PROVE  /\ \A x : Queued(x) => x \in Slots
         /\ \A t \in Slots : \A x : Waits(t, x) => x \in Slots
         /\ ~Queued(NoTask)
<1>1. ASSUME NEW q \in Seq(Slots), NEW x, Contains(q, x) PROVE x \in Slots
  BY <1>1 DEF Contains
<1>2. ready \in Seq(Slots) /\ \A t \in Slots : waiters[t] \in Seq(Slots)
  BY Typed
<1>3. QED
  BY <1>1, <1>2, NoneOutside DEF Queued, Waits

(* Everything SlotOK says of slot x, but for the waiter lists, is as it was. *)
Same(x) ==
  /\ kind'[x] = kind[x] /\ io'[x] = io[x] /\ joining'[x] = joining[x]
  /\ parked_on_channel'[x] <=> parked_on_channel[x]
  /\ cancel_requested'[x] <=> cancel_requested[x]
  /\ pending'[x] = pending[x] /\ pc'[x] = pc[x] /\ wake'[x] = wake[x]
  /\ park_epoch'[x] = park_epoch[x] /\ timeout_child'[x] = timeout_child[x]
  /\ Queued(x)' <=> Queued(x)
  /\ x = current' <=> x = current

(* A slot that a step leaves alone stays as it should be.                   *)
LEMMA SameSlot ==
  ASSUME NEW x \in Slots, SlotOK(x), Same(x),
         waiters'[x] = waiters[x] \/ kind[x] # "free",
         Joined(x) => Joined(x)'
  PROVE  SlotOK(x)'
<1> USE DEF Same, SlotOK
<1>i. Idle(x)' <=> Idle(x)
  BY DEF Idle
<1>1. FreeOK(x)'
  BY <1>i DEF FreeOK
<1>2. PlaceOK(x)'
  BY <1>i DEF PlaceOK
<1>3. WakeOK(x)'
  BY DEF WakeOK, WakeFits
<1>4. CancelOK(x)'
  BY DEF CancelOK
<1>5. RestOK(x)'
  BY DEF RestOK
<1>6. QED
  BY <1>1, <1>2, <1>3, <1>4, <1>5

(* The queues of a step that leaves them alone.                             *)
LEMMA SameQueues ==
  ASSUME HInv, QueueOK, ready' = ready, waiters' = waiters,
         current' = current \/ current' = NoTask,
         \A s \in Slots : joining[s] # NoTask => joining'[s] = joining[s]
  PROVE  /\ QueueOK'
         /\ \A x : Queued(x)' <=> Queued(x)
         /\ \A t, x : Waits(t, x)' <=> Waits(t, x)
<1>1. /\ \A x : Queued(x)' <=> Queued(x)
      /\ \A t, x : Waits(t, x)' <=> Waits(t, x)
  BY DEF Queued, Waits
<1>2. ~Contains(ready', current')
  BY QueuedIsSlot DEF QueueOK, Queued
<1>3. \A s, t \in Slots : Waits(t, s) => joining[s] = t /\ joining[s] # NoTask
  BY NoneOutside DEF QueueOK
<1>4. \A s, t \in Slots : Contains(waiters'[t], s) => joining'[s] = t
  BY <1>3 DEF Waits
<1>5. QueueOK'
  BY <1>2, <1>4 DEF QueueOK, Queued, Waits
<1>6. QED
  BY <1>1, <1>5

(* The deadlines of a step that touches no armed park.                      *)
LEMMA SameDeadlines ==
  ASSUME DeadlineOK, deadlines' \subseteq deadlines,
         park_epoch' = park_epoch, park_seq' = park_seq,
         \A d \in deadlines', s \in Slots : Arms(d, s) =>
           pc'[s] = pc[s] /\ s # current' /\ wake'[s] # "TimedOut"
  PROVE  DeadlineOK'
<1>1. \A d, s : Arms(d, s)' <=> Arms(d, s)
  BY DEF Arms
<1>2. QED
  BY <1>1 DEF DeadlineOK

(* The counts of a step that ends or starts no child.                       *)
LEMMA SameCounts ==
  ASSUME PendingCountsChildren, UNCHANGED <<kind, parent, pending>>,
         \A p \in Slots : pc[p] = "gather" /\ pending[p] > 0 => pc'[p] = pc[p]
  PROVE  PendingCountsChildren'
<1>1. \A p : Children(p)' = Children(p)
  BY DEF Children
<1>2. QED
  BY <1>1 DEF PendingCountsChildren

(* The numbers of the task table.                                           *)
LEMMA Numbers ==
  ASSUME HInv, SInv
  PROVE  /\ park_seq \in Nat /\ \A x \in Slots : park_epoch[x] \in Nat
         /\ \A x \in Slots : pending[x] \in Nat /\ IsFiniteSet(Children(x))
         /\ \A d \in deadlines : d.joiner \in Slots /\ d.target \in Slots /\ d.epoch \in Nat
<1>1. park_seq \in Nat /\ \A x \in Slots : park_epoch[x] \in Nat
  BY Typed
<1>2. \A d \in deadlines : d.joiner \in Slots /\ d.target \in Slots /\ d.epoch \in Nat
  BY Typed DEF Deadlines
<1>3. ASSUME NEW x \in Slots PROVE IsFiniteSet(Children(x)) /\ pending[x] \in Nat
  <2>1. IsFiniteSet(Slots)
    BY BoundsAssumption, FS_Interval DEF Slots
  <2>2. Children(x) \in SUBSET Slots
    BY DEF Children
  <2>3. IsFiniteSet(Children(x))
    BY <2>1, <2>2, FS_Subset
  <2>4. QED
    BY <2>3, FS_CardinalityType DEF SInv, PendingCountsChildren
<1>4. QED
  BY <1>1, <1>2, <1>3

(* One more task in the ready queue.                                        *)
LEMMA Requeued ==
  ASSUME HInv, QueueOK, NEW s \in Slots, ~Queued(s), s # current',
         ready' = Append(ready, s), current' = current \/ current' = NoTask
  PROVE  /\ Once(ready') /\ ~Contains(ready', current')
         /\ \A x \in Slots : Contains(ready', x) <=> Contains(ready, x) \/ x = s
<1>1. ready \in Seq(Slots)
  BY Typed
<1>2. /\ Once(ready')
      /\ \A x \in Slots : Contains(ready', x) <=> Contains(ready, x) \/ x = s
  BY <1>1, AppendEntry DEF QueueOK, Queued
<1>3. ready' \in Seq(Slots)
  BY <1>1
<1>4. ASSUME Contains(ready', current') PROVE FALSE
  <2>1. current' \in Slots
    BY <1>3, <1>4 DEF Contains
  <2>2. Contains(ready, current')
    BY <2>1, <1>2, <1>4
  <2>3. QED
    BY <2>1, <2>2, NoneOutside DEF QueueOK, Queued
<1>5. QED
  BY <1>2, <1>4

(* A step that only moves the driver on.                                    *)
LEMMA AllSame ==
  ASSUME HInv, SInv,
         UNCHANGED <<tableVars, parkVars, coroVars, ready, park_seq, current, deadlines>>
  PROVE  QueueOK' /\ (\A s \in Slots : SlotOK(s)') /\ DeadlineOK' /\ PendingCountsChildren'
<1> USE DEF SInv
<1>f. /\ UNCHANGED <<kind, parent, pending, waiters, cancel_requested, joining>>
      /\ UNCHANGED <<park_epoch, parked_on_channel, wake, io, pc, timeout_child>>
  BY DEF tableVars, parkVars, coroVars
<1>1. QueueOK'
  BY <1>f, SameQueues
<1>2. ASSUME NEW x \in Slots PROVE SlotOK(x)'
  <2>1. Same(x) /\ waiters'[x] = waiters[x]
    BY <1>f DEF Same, Queued
  <2>2. Joined(x) => Joined(x)'
    BY <1>f DEF Joined, Waits
  <2>3. QED
    BY <2>1, <2>2, SameSlot
<1>3. DeadlineOK'
  BY <1>f, SameDeadlines DEF DeadlineOK
<1>4. PendingCountsChildren'
  BY <1>f, SameCounts
<1>5. QED
  BY <1>1, <1>2, <1>3, <1>4

(* Before the first resume only main exists, and it is loaded.              *)
LEMMA SInit == Init => SInv
<1> SUFFICES ASSUME Init PROVE SInv
  OBVIOUS
<1>h. HInv
  BY HInit
<1>e. \A x : ~Contains(<<>>, x)
  BY DEF Contains
<1>1. QueueOK
  BY <1>e DEF Init, QueueOK, Once, Queued, Waits
<1>2. ASSUME NEW x \in Slots PROVE SlotOK(x)
  <2>1. FreeOK(x) /\ PlaceOK(x)
    BY <1>e DEF Init, FreeOK, PlaceOK, Idle, Queued, Main
  <2>2. WakeOK(x) /\ CancelOK(x)
    BY <1>e DEF Init, WakeOK, CancelOK, Queued
  <2>3. RestOK(x)
    BY DEF Init, RestOK, Main
  <2>4. QED
    BY <2>1, <2>2, <2>3 DEF SlotOK
<1>3. LoadedOK
  BY MainSlot DEF Init, LoadedOK
<1>4. DeadlineOK
  BY DEF Init, DeadlineOK
<1>5. PendingCountsChildren
  <2>1. \A p \in Slots : Children(p) = {}
    BY DEF Init, Children
  <2>2. \A p \in Slots : Cardinality(Children(p)) = 0 /\ pending[p] = 0
    BY <2>1, FS_EmptySet DEF Init
  <2>3. QED
    BY <2>2 DEF PendingCountsChildren
<1>6. QED
  BY <1>1, <1>2, <1>3, <1>4, <1>5 DEF SInv

-----------------------------------------------------------------------------
(* The driver's steps.                                                      *)

(* The driver resumes the task it holds.                                    *)
LEMMA ResumeCurrentS ==
  ASSUME HInv, SInv, ResumeCurrent
  PROVE  SInv'
<1>1. LoadedOK'
  BY DEF ResumeCurrent, SInv, LoadedOK, schedVars, parkVars, coroVars
<1>2. QED
  BY <1>1, AllSame DEF ResumeCurrent, SInv, schedVars

(* The run ends with everyone parked.                                       *)
LEMMA GlobalDeadlockS ==
  ASSUME HInv, SInv, GlobalDeadlock
  PROVE  SInv'
<1>1. LoadedOK'
  BY DEF GlobalDeadlock, SInv, LoadedOK
<1>2. QED
  BY <1>1, AllSame DEF GlobalDeadlock, SInv, schedVars

(* A batch of instructions is spent.                                        *)
LEMMA YieldS ==
  ASSUME HInv, SInv, Yield
  PROVE  SInv'
<1>1. LoadedOK'
  BY DEF Yield, Operate, Running, SInv, LoadedOK, schedVars, parkVars, coroVars
<1>2. QED
  BY <1>1, AllSame DEF Yield, SInv, schedVars

(* A step that changes nothing.                                             *)
LEMMA StutterS ==
  ASSUME HInv, SInv, UNCHANGED vars
  PROVE  SInv'
<1>1. LoadedOK'
  BY DEF vars, driverVars, SInv, LoadedOK, schedVars, parkVars, coroVars
<1>2. QED
  BY <1>1, AllSame DEF vars, driverVars, SInv, schedVars

(* Taking the next task: its park is over, and its wake moves with it.      *)
LEMMA PickS ==
  ASSUME HInv, SInv, Pick
  PROVE  SInv'
<1> USE DEF SInv
<1>p. PICK i \in 1..Len(ready) : load_task_context(ready[i]) /\ current' = ready[i]
                                 /\ ready' = RemoveAt(ready, i)
  BY DEF Pick
<1>r. PICK s \in Slots : s = ready[i]
  BY SMTT(20), Typed
<1>c. current = NoTask /\ s # current /\ Queued(s)
  BY <1>p, <1>r, NoneOutside DEF Pick, Queued, Contains
<1>f. /\ UNCHANGED <<kind, parent, pending, waiters, cancel_requested>>
      /\ UNCHANGED <<io, pc, timeout_child, deadlines>>
      /\ current' = s /\ current_task' = s /\ mode' = "task" /\ sched_wake' = wake[s]
      /\ cancel_current' = cancel_requested[s] /\ park_seq' = park_seq + 1
  BY <1>p, <1>r DEF Pick, load_task_context, tableVars, coroVars
<1>g. \A x \in Slots :
        /\ joining'[x] = IF x = s THEN NoTask ELSE joining[x]
        /\ parked_on_channel'[x] <=> x # s /\ parked_on_channel[x]
        /\ park_epoch'[x] = IF x = s THEN park_seq + 1 ELSE park_epoch[x]
        /\ wake'[x] = IF x = s THEN "none" ELSE wake[x]
  BY <1>p, <1>r, Typed DEF load_task_context
<1>q. Once(ready') /\ \A x \in Slots : Contains(ready', x) <=> Contains(ready, x) /\ x # s
  BY <1>p, <1>r, RemoveEntry, Typed DEF QueueOK
<1>o. SlotOK(s) /\ kind[s] # "free" /\ Idle(s) /\ joining[s] = NoTask
  BY <1>c DEF SlotOK, FreeOK, PlaceOK, Idle
<1>1. QueueOK'
  BY <1>f, <1>g, <1>q, <1>o, NoneOutside DEF QueueOK, Queued, Waits
<1>2. ASSUME NEW x \in Slots PROVE SlotOK(x)'
  <2>1. CASE x = s
    <3>1. Idle(x)'
      BY <2>1, <1>o, <1>f, <1>g DEF Idle
    <3>2. FreeOK(x)' /\ PlaceOK(x)'
      BY <2>1, <3>1, <1>o, <1>f, <1>g DEF FreeOK, PlaceOK, SlotOK
    <3>3. WakeOK(x)' /\ RestOK(x)'
      BY <2>1, <1>f, <1>g, <1>q DEF WakeOK, RestOK, Queued
    <3>4. CancelOK(x)'
      BY <2>1, <1>f, <1>o DEF CancelOK, SlotOK
    <3>5. QED
      BY <3>2, <3>3, <3>4 DEF SlotOK
  <2>2. CASE x # s
    <3>1. Same(x)
      BY <2>2, <1>c, <1>f, <1>g, <1>q, NoneOutside DEF Same, Queued
    <3>2. Joined(x) => Joined(x)'
      BY <2>2, <1>f, <1>g DEF Joined, Waits
    <3>3. QED
      BY <3>1, <3>2, <1>f, SameSlot
  <2>3. QED
    BY <2>1, <2>2
<1>3. LoadedOK'
  <2>1. park_epoch'[s] > 0
    BY <1>g, Numbers
  <2>2. pc[s] # "run" => cancel_requested[s] \/ WakeFits(wake[s], pc[s])
    BY <1>c, <1>o DEF SlotOK, WakeOK
  <2>3. QED
    BY <2>1, <2>2, <1>f, NoneOutside DEF LoadedOK
<1>4. DeadlineOK'
  <2>1. \A d \in deadlines : d.epoch \in Nat
    BY Numbers
  <2>2. \A d \in deadlines, x \in Slots : Arms(d, x)' => x # s /\ Arms(d, x)
    BY <2>1, <1>f, <1>g, Numbers DEF Arms, DeadlineOK
  <2>3. \A x \in Slots : park_epoch'[x] <= park_seq'
    BY <1>f, <1>g, Numbers DEF DeadlineOK
  <2>4. \A d \in deadlines' : d.epoch > 0 /\ d.epoch <= park_seq'
    BY <2>1, <1>f, Numbers DEF DeadlineOK
  <2>5. \A d \in deadlines', x \in Slots : Arms(d, x)' =>
          pc'[x] = "joinTimed" /\ x # current' /\ wake'[x] # "TimedOut"
    BY <2>2, <1>f, <1>g DEF DeadlineOK
  <2>6. \A d, e \in deadlines', x \in Slots : Arms(d, x)' /\ Arms(e, x)' => d = e
    BY <2>2, <1>f DEF DeadlineOK
  <2>7. QED
    BY <2>3, <2>4, <2>5, <2>6 DEF DeadlineOK
<1>5. PendingCountsChildren'
  BY <1>f, SameCounts
<1>6. QED
  BY <1>1, <1>2, <1>3, <1>4, <1>5

(* A completion of a future queues its task, which was waiting for it.      *)
LEMMA DeliverIoS ==
  ASSUME HInv, SInv, NEW s \in Slots, DeliverIo(s)
  PROVE  SInv'
<1> USE DEF SInv
<1>f. /\ UNCHANGED <<kind, parent, pending, waiters, cancel_requested, joining>>
      /\ UNCHANGED <<park_epoch, parked_on_channel, pc, timeout_child, deadlines>>
      /\ UNCHANGED <<current, current_task, cancel_current, sched_wake, park_seq, mode>>
      /\ ready' = Append(ready, s) /\ io[s] # "none"
  BY DEF DeliverIo, tableVars, coroVars, driverVars
<1>g. \A x \in Slots :
        /\ io'[x] = IF x = s THEN "none" ELSE io[x]
        /\ wake'[x] = IF x = s /\ io[s] = "inflight" THEN "Io" ELSE wake[x]
  BY Typed DEF DeliverIo
<1>o. /\ SlotOK(s) /\ kind[s] # "free" /\ pc[s] = "io" /\ s # current /\ ~Queued(s)
      /\ wake[s] = "none" /\ io[s] \in {"inflight", "aborted"}
  BY <1>f, Typed DEF SlotOK, FreeOK, PlaceOK, WakeOK, Idle
<1>n. joining[s] = NoTask /\ ~parked_on_channel[s] /\ pending[s] = 0
  BY <1>o, Numbers DEF SlotOK, PlaceOK, Joins, Drains, PendingCountsChildren
<1>q. /\ Once(ready') /\ ~Contains(ready', current')
      /\ \A x \in Slots : Contains(ready', x) <=> Contains(ready, x) \/ x = s
  BY <1>f, <1>o, Requeued
<1>1. QueueOK'
  BY <1>f, <1>q DEF QueueOK, Queued, Waits
<1>2. ASSUME NEW x \in Slots PROVE SlotOK(x)'
  <2>1. CASE x = s
    <3>1. FreeOK(x)' /\ PlaceOK(x)' /\ RestOK(x)'
      BY <2>1, <1>o, <1>n, <1>f, <1>g, <1>q
         DEF FreeOK, PlaceOK, RestOK, Idle, SlotOK, Joins, Drains, Queued
    <3>2. WakeOK(x)' /\ CancelOK(x)'
      BY <2>1, <1>o, <1>f, <1>g, <1>q DEF WakeOK, WakeFits, CancelOK, SlotOK, Queued
    <3>3. QED
      BY <3>1, <3>2 DEF SlotOK
  <2>2. CASE x # s
    <3>1. Same(x)
      BY <2>2, <1>f, <1>g, <1>q DEF Same, Queued
    <3>2. Joined(x) => Joined(x)'
      BY <2>2, <1>f, <1>g DEF Joined, Waits
    <3>3. QED
      BY <3>1, <3>2, <1>f, SameSlot
  <2>3. QED
    BY <2>1, <2>2
<1>3. LoadedOK'
  BY <1>f, <1>o DEF LoadedOK
<1>4. DeadlineOK'
  BY <1>f, <1>g, <1>o, SameDeadlines DEF DeadlineOK
<1>5. PendingCountsChildren'
  BY <1>f, SameCounts
<1>6. QED
  BY <1>1, <1>2, <1>3, <1>4, <1>5

(* A rotation puts the held task, which is between two instructions, back   *)
(* into the queue.                                                          *)
LEMMA RotateS ==
  ASSUME HInv, SInv, Rotate
  PROVE  SInv'
<1> USE DEF SInv
<1>f. /\ UNCHANGED <<kind, parent, pending, waiters, cancel_requested, joining>>
      /\ UNCHANGED <<park_epoch, parked_on_channel, wake, io, pc, timeout_child>>
      /\ UNCHANGED <<current_task, cancel_current, sched_wake, park_seq, deadlines>>
      /\ mode = "drain" /\ mode' = "top"
  BY DEF Rotate, tableVars, parkVars, coroVars
<1>o. current \in Slots
  BY <1>f DEF HInv, ControlOK
<1>1. CASE UNCHANGED <<current, ready>>
  <2>1. LoadedOK'
    BY <1>1, <1>f DEF LoadedOK
  <2>2. QED
    BY <1>1, <2>1, AllSame DEF Rotate
<1>2. CASE current' = NoTask /\ ready' = Append(ready, current)
  <2>q. /\ Once(ready') /\ ~Contains(ready', current')
        /\ \A x \in Slots : Contains(ready', x) <=> Contains(ready, x) \/ x = current
    BY <1>2, <1>o, Requeued, NoneOutside DEF QueueOK
  <2>1. QueueOK'
    BY <2>q, <1>f DEF QueueOK, Queued, Waits
  <2>2. ASSUME NEW x \in Slots PROVE SlotOK(x)'
    <3>1. CASE x = current
      <4>1. SlotOK(x) /\ pc[x] = "run" /\ wake[x] = "none"
        BY <3>1, <1>o, <1>f, NoneOutside DEF LoadedOK, SlotOK, WakeOK, QueueOK
      <4>2. FreeOK(x)' /\ PlaceOK(x)'
        BY <3>1, <4>1, <1>f, <1>2 DEF FreeOK, PlaceOK, SlotOK, Idle
      <4>3. WakeOK(x)' /\ CancelOK(x)' /\ RestOK(x)'
        BY <3>1, <4>1, <2>q, <1>f DEF WakeOK, CancelOK, RestOK, SlotOK, Queued
      <4>4. QED
        BY <4>2, <4>3 DEF SlotOK
    <3>2. CASE x # current
      <4>1. Same(x) /\ waiters'[x] = waiters[x]
        BY <3>2, <2>q, <1>f, <1>2, NoneOutside DEF Same, Queued
      <4>2. Joined(x) => Joined(x)'
        BY <1>f DEF Joined, Waits
      <4>3. QED
        BY <4>1, <4>2, SameSlot
    <3>3. QED
      BY <3>1, <3>2
  <2>3. LoadedOK'
    BY <1>2, <1>f DEF LoadedOK
  <2>4. DeadlineOK'
    BY <1>2, <1>f, SameDeadlines, NoneOutside DEF DeadlineOK
  <2>5. PendingCountsChildren'
    BY <1>f, SameCounts
  <2>6. QED
    BY <2>1, <2>2, <2>3, <2>4, <2>5
<1>3. QED
  BY <1>1, <1>2 DEF Rotate

(* A deadline that arms its park ends it; any other one changes nothing.    *)
LEMMA DeliverDeadlineS ==
  ASSUME HInv, SInv, NEW d \in deadlines, DeliverDeadline(d)
  PROVE  SInv'
<1> USE DEF SInv
<1>f. /\ UNCHANGED <<kind, parent, pending, cancel_requested>>
      /\ UNCHANGED <<park_epoch, parked_on_channel, io, pc, timeout_child>>
      /\ UNCHANGED <<current, current_task, cancel_current, sched_wake, park_seq, mode>>
      /\ deadlines' = deadlines \ {d}
  BY DEF DeliverDeadline, tableVars, coroVars
<1>3. LoadedOK'
  BY <1>f DEF LoadedOK
<1>5. PendingCountsChildren'
  BY <1>f, SameCounts
<1>6. CASE ~DeadlineLive(d)
  <2>f. UNCHANGED <<waiters, joining, wake, ready>>
    BY <1>6 DEF DeliverDeadline
  <2>1. QueueOK'
    BY <2>f, <1>f, SameQueues
  <2>2. ASSUME NEW x \in Slots PROVE SlotOK(x)'
    <3>1. Same(x) /\ waiters'[x] = waiters[x]
      BY <2>f, <1>f DEF Same, Queued
    <3>2. Joined(x) => Joined(x)'
      BY <2>f, <1>f DEF Joined, Waits
    <3>3. QED
      BY <3>1, <3>2, SameSlot
  <2>4. DeadlineOK'
    BY <2>f, <1>f, SameDeadlines DEF DeadlineOK
  <2>5. QED
    BY <2>1, <2>2, <2>4, <1>3, <1>5
<1>7. CASE DeadlineLive(d)
  <2>t. PICK j \in Slots, t \in Slots : j = d.joiner /\ t = d.target
    BY Numbers
  <2>l. kind[j] # "free" /\ joining[j] = t /\ Arms(d, j) /\ wake[j] = "none"
    BY <1>7, <2>t DEF DeadlineLive, Arms
  <2>o. /\ SlotOK(j) /\ pc[j] = "joinTimed" /\ j # current /\ ~Queued(j)
        /\ io[j] = "none" /\ ~parked_on_channel[j] /\ pending[j] = 0
    <3>1. SlotOK(j) /\ pc[j] = "joinTimed" /\ j # current
      BY <2>l DEF DeadlineOK
    <3>2. ~Queued(j) /\ io[j] = "none" /\ ~parked_on_channel[j]
      BY <3>1, <2>l, NoneOutside DEF SlotOK, PlaceOK, Idle
    <3>3. pending[j] = 0
      BY <3>1, Numbers DEF PendingCountsChildren
    <3>4. QED
      BY <3>1, <3>2, <3>3
  <2>f. /\ ready' = Append(ready, j)
        /\ waiters' = [waiters EXCEPT ![t] = Retain(@, j)]
        /\ joining' = [joining EXCEPT ![j] = NoTask]
        /\ wake' = [wake EXCEPT ![j] = "TimedOut"]
    BY <1>7, <2>t DEF DeliverDeadline
  <2>g. \A x \in Slots :
          /\ joining'[x] = IF x = j THEN NoTask ELSE joining[x]
          /\ wake'[x] = IF x = j THEN "TimedOut" ELSE wake[x]
          /\ waiters'[x] = IF x = t THEN Retain(waiters[x], j) ELSE waiters[x]
    BY <2>f, Typed
  <2>w. \A u \in Slots : /\ Once(waiters'[u])
                         /\ \A x \in Slots : Contains(waiters'[u], x) <=> Waits(u, x) /\ x # j
    <3> SUFFICES ASSUME NEW u \in Slots
                 PROVE  /\ Once(waiters'[u])
                        /\ \A x \in Slots : Contains(waiters'[u], x) <=> Waits(u, x) /\ x # j
      OBVIOUS
    <3>1. waiters[u] \in Seq(Slots) /\ Once(waiters[u])
      BY Typed DEF QueueOK
    <3>2. CASE u = t
      BY <3>1, <3>2, <2>g, RetainEntry DEF Waits
    <3>3. CASE u # t
      BY <3>1, <3>3, <2>g, <2>l DEF Waits, QueueOK
    <3>4. QED
      BY <3>2, <3>3
  <2>q. /\ Once(ready') /\ ~Contains(ready', current')
        /\ \A x \in Slots : Contains(ready', x) <=> Contains(ready, x) \/ x = j
    BY <2>f, <2>o, <1>f, Requeued
  <2>1. QueueOK'
    BY <2>q, <2>w, <2>g DEF QueueOK, Queued, Waits
  <2>2. ASSUME NEW x \in Slots PROVE SlotOK(x)'
    <3>1. CASE x = j
      <4>1. FreeOK(x)' /\ PlaceOK(x)' /\ RestOK(x)'
        BY <3>1, <2>l, <2>o, <2>g, <2>q, <1>f DEF FreeOK, PlaceOK, RestOK, SlotOK, Idle, Queued
      <4>2. WakeOK(x)' /\ CancelOK(x)'
        BY <3>1, <2>l, <2>o, <2>g, <2>q, <1>f
           DEF WakeOK, WakeFits, JoinWakes, CancelOK, SlotOK, Queued
      <4>3. QED
        BY <4>1, <4>2 DEF SlotOK
    <3>2. CASE x # j
      <4>1. Same(x)
        BY <3>2, <2>g, <2>q, <1>f DEF Same, Queued
      <4>2. Joined(x) => Joined(x)'
        BY <3>2, <2>w, <2>g, <1>f DEF Joined, Waits
      <4>3. waiters'[x] = waiters[x] \/ kind[x] # "free"
        <5>1. Waits(t, j) => kind[t] # "free"
          BY <2>l DEF SlotOK, FreeOK, Waits, Contains
        <5>2. Retain(waiters[t], j) = waiters[t] \/ Waits(t, j)
          BY DEF Retain, Waits
        <5>3. QED
          BY <5>1, <5>2, <2>g
      <4>4. QED
        BY <4>1, <4>2, <4>3, SameSlot
    <3>3. QED
      BY <3>1, <3>2
  <2>4. DeadlineOK'
    <3>1. \A e \in deadlines', s \in Slots : Arms(e, s) => s # j
      BY <2>l, <1>f DEF DeadlineOK
    <3>2. QED
      BY <3>1, <2>g, <1>f, SameDeadlines DEF DeadlineOK
  <2>5. QED
    BY <2>1, <2>2, <2>4, <1>3, <1>5
<1>8. QED
  BY <1>6, <1>7

-----------------------------------------------------------------------------
(* Cancellation.                                                            *)

(* The task is parked where a cancel can take it out at once.               *)
Leaves(t) == joining[t] # NoTask \/ parked_on_channel[t]

(* What nudge_cancelled leaves: the future is aborted, a joiner is struck   *)
(* from its target's list, a joiner or channel waiter is queued.            *)
LEMMA NudgeFacts ==
  ASSUME HInv, SInv, NEW t \in Slots, t # current
  PROVE  /\ \A x \in Slots :
              /\ NudgedIo(t)[x] = IF x = t /\ io[t] = "inflight" THEN "aborted" ELSE io[x]
              /\ NudgedJoining(t)[x] = IF x = t THEN NoTask ELSE joining[x]
              /\ NudgedChannel(t)[x] <=> x # t /\ parked_on_channel[x]
              /\ kind[x] # "free" \/ NudgedWaiters(t)[x] = waiters[x]
         /\ \A u \in Slots :
              /\ Once(NudgedWaiters(t)[u])
              /\ \A x \in Slots : Contains(NudgedWaiters(t)[u], x) <=> Waits(u, x) /\ x # t
         /\ Once(NudgedReady(t)) /\ ~Contains(NudgedReady(t), current)
         /\ ~Contains(NudgedReady(t), NoTask)
         /\ \A x \in Slots :
              Contains(NudgedReady(t), x) <=> Contains(ready, x) \/ (x = t /\ Leaves(t))
<1> USE DEF SInv
<1>s. SlotOK(t)
  OBVIOUS
<1>j. joining[t] # NoTask => NudgeBranch(t) = "join" /\ ~Queued(t) /\ ~parked_on_channel[t]
  BY <1>s DEF NudgeBranch, SlotOK, PlaceOK, WakeOK, Idle, Joins, Drains
<1>c. parked_on_channel[t] => NudgeBranch(t) = "channel" /\ ~Queued(t)
  BY <1>s DEF NudgeBranch, SlotOK, PlaceOK, WakeOK, Idle, Joins, Drains
<1>b. /\ NudgeBranch(t) = "join" <=> joining[t] # NoTask
      /\ NudgeBranch(t) = "channel" <=> parked_on_channel[t]
  BY <1>j, <1>c DEF NudgeBranch
<1>a. NudgeBranch(t) = "abort" <=> io[t] = "inflight"
  BY DEF NudgeBranch
<1>1. \A x \in Slots :
        /\ NudgedIo(t)[x] = IF x = t /\ io[t] = "inflight" THEN "aborted" ELSE io[x]
        /\ NudgedJoining(t)[x] = IF x = t THEN NoTask ELSE joining[x]
        /\ NudgedChannel(t)[x] <=> x # t /\ parked_on_channel[x]
  <2>1. io \in [Slots -> {"none", "inflight", "aborted"}]
    BY Typed
  <2>2. joining \in [Slots -> Slots \cup {NoTask}] /\ parked_on_channel \in [Slots -> BOOLEAN]
    BY Typed
  <2>3. \A x \in Slots :
          NudgedIo(t)[x] = IF x = t /\ io[t] = "inflight" THEN "aborted" ELSE io[x]
    BY <2>1, <1>a DEF NudgedIo
  <2>4. \A x \in Slots : NudgedJoining(t)[x] = IF x = t THEN NoTask ELSE joining[x]
    BY <2>2, <1>b DEF NudgedJoining
  <2>5. \A x \in Slots : NudgedChannel(t)[x] <=> x # t /\ parked_on_channel[x]
    BY <2>2, <1>b DEF NudgedChannel
  <2>6. QED
    BY <2>3, <2>4, <2>5
<1>2. ASSUME NEW u \in Slots
      PROVE  /\ kind[u] # "free" \/ NudgedWaiters(t)[u] = waiters[u]
             /\ Once(NudgedWaiters(t)[u])
             /\ \A x \in Slots : Contains(NudgedWaiters(t)[u], x) <=> Waits(u, x) /\ x # t
  <2>1. waiters \in [Slots -> Seq(Slots)] /\ waiters[u] \in Seq(Slots) /\ Once(waiters[u])
    BY Typed DEF QueueOK
  <2>2. CASE joining[t] = u
    <3>1. NudgedWaiters(t)[u] = Retain(waiters[u], t)
      BY <2>1, <2>2, <1>b, NoneOutside DEF NudgedWaiters
    <3>2. Waits(u, t) => kind[u] # "free"
      BY DEF SlotOK, FreeOK, Waits, Contains
    <3>3. Retain(waiters[u], t) = waiters[u] \/ Waits(u, t)
      BY DEF Retain, Waits
    <3>4. QED
      BY <2>1, <3>1, <3>2, <3>3, RetainEntry DEF Waits
  <2>3. CASE joining[t] # u
    <3>1. NudgedWaiters(t)[u] = waiters[u]
      BY <2>1, <2>3 DEF NudgedWaiters
    <3>2. ~Waits(u, t)
      BY <2>3 DEF QueueOK
    <3>3. QED
      BY <2>1, <3>1, <3>2 DEF Waits
  <2>4. QED
    BY <2>2, <2>3
<1>3. /\ Once(NudgedReady(t)) /\ ~Contains(NudgedReady(t), current)
      /\ ~Contains(NudgedReady(t), NoTask)
      /\ \A x \in Slots :
           Contains(NudgedReady(t), x) <=> Contains(ready, x) \/ (x = t /\ Leaves(t))
  <2>1. ready \in Seq(Slots) /\ Once(ready) /\ ~Contains(ready, current) /\ ~Contains(ready, NoTask)
    BY Typed, QueuedIsSlot DEF QueueOK, Queued
  <2>2. CASE Leaves(t)
    <3>1. NudgedReady(t) = Append(ready, t) /\ ~Contains(ready, t)
      BY <2>2, <1>b, <1>j, <1>c DEF NudgedReady, Leaves, Queued
    <3>2. \A y \in Slots : Contains(Append(ready, t), y) <=> Contains(ready, y) \/ y = t
      BY <2>1, AppendEntry
    <3>3. Once(Append(ready, t))
      BY <2>1, <3>1, AppendEntry
    <3>4. \A y : Contains(Append(ready, t), y) => y \in Slots
      BY <2>1 DEF Contains
    <3>5. QED
      BY <2>1, <2>2, <3>1, <3>2, <3>3, <3>4, NoneOutside
  <2>3. CASE ~Leaves(t)
    BY <2>1, <2>3, <1>b DEF NudgedReady, Leaves
  <2>4. QED
    BY <2>2, <2>3
<1>4. QED
  BY <1>1, <1>2, <1>3

(* The slot of the task that is cancelled where it is parked.               *)
LEMMA NudgedSlot ==
  ASSUME HInv, SInv, NEW t \in Slots, kind[t] # "free", t # current, t # current',
         cancel_requested'[t],
         kind'[t] = kind[t], pc'[t] = pc[t], wake'[t] = wake[t], pending'[t] = pending[t],
         timeout_child'[t] = timeout_child[t],
         io'[t] = IF io[t] = "inflight" THEN "aborted" ELSE io[t],
         joining'[t] = NoTask, ~parked_on_channel'[t],
         Contains(ready', t) <=> Contains(ready, t) \/ Leaves(t)
  PROVE  SlotOK(t)'
<1> USE DEF SInv
<1>s. SlotOK(t) /\ pc[t] \in Pcs /\ io[t] \in {"none", "inflight", "aborted"}
  BY Typed
<1>g. pending[t] # 0 => pc[t] = "gather"
  BY Numbers DEF PendingCountsChildren
<1>1. FreeOK(t)'
  BY DEF FreeOK
<1>2. PlaceOK(t)'
  <2>1. Contains(ready, t) => io[t] = "none" /\ pending[t] = 0
    BY <1>s DEF SlotOK, PlaceOK, Idle, Queued
  <2>2. Leaves(t) => io[t] = "none" /\ pending[t] = 0
    BY <1>s, <1>g DEF SlotOK, PlaceOK, Leaves, Joins, Drains
  <2>3. QED
    BY <1>s, <2>1, <2>2 DEF SlotOK, PlaceOK, Idle, Queued
<1>3. WakeOK(t)'
  BY <1>s DEF SlotOK, WakeOK, Queued
<1>4. CancelOK(t)'
  BY <1>s, NoneOutside DEF SlotOK, CancelOK, RestOK, Joined, Leaves, Pcs, Joins, Drains, Queued
<1>5. RestOK(t)'
  BY <1>s, NoneOutside DEF SlotOK, RestOK, Joined, Leaves, Pcs, Joins, Drains, Queued
<1>6. QED
  BY <1>1, <1>2, <1>3, <1>4, <1>5 DEF SlotOK

(* A cancel request of either kind, which takes the task for the loaded one *)
(* exactly when the driver holds it.                                        *)
LEMMA RequestS ==
  ASSUME HInv, SInv, NEW t \in Slots,
         UNCHANGED <<tableVars, park_epoch, wake, coroVars, current_task, sched_wake>>,
         UNCHANGED <<park_seq, current, deadlines, mode>>,
         \/ /\ kind[t] = "free"
            /\ UNCHANGED <<cancel_requested, cancel_current, io, waiters, joining,
                           parked_on_channel, ready>>
         \/ kind[t] # "free" /\ t = current /\ CancelLive(t)
         \/ kind[t] # "free" /\ t # current /\ CancelParked(t) /\ UNCHANGED cancel_current
  PROVE  SInv'
<1> USE DEF SInv
<1>f. /\ UNCHANGED <<kind, parent, pending, park_epoch, wake, pc, timeout_child>>
      /\ UNCHANGED <<current_task, sched_wake, park_seq, current, deadlines, mode>>
  BY DEF tableVars, coroVars
<1>4. DeadlineOK'
  BY <1>f, SameDeadlines DEF DeadlineOK
<1>5. PendingCountsChildren'
  BY <1>f, SameCounts
<1>6. CASE UNCHANGED <<cancel_requested, cancel_current, io, waiters, joining,
                       parked_on_channel, ready>>
  <2>1. LoadedOK'
    BY <1>6, <1>f DEF LoadedOK
  <2>2. QED
    BY <1>6, <2>1, AllSame DEF parkVars
<1>7. CASE kind[t] # "free" /\ t = current /\ CancelLive(t)
  <2>f. /\ UNCHANGED <<io, waiters, joining, parked_on_channel, ready>>
        /\ cancel_current' = TRUE
        /\ \A x \in Slots : cancel_requested'[x] <=> cancel_requested[x] \/ x = t
    BY <1>7, Typed DEF CancelLive
  <2>1. QueueOK'
    BY <2>f, <1>f, SameQueues
  <2>2. ASSUME NEW x \in Slots PROVE SlotOK(x)'
    <3>1. CASE x = t
      <4>1. SlotOK(x) /\ Idle(x)'
        BY <3>1, <1>7, <1>f, <2>f DEF SlotOK, PlaceOK, Idle
      <4>2. QED
        BY <3>1, <4>1, <1>7, <1>f, <2>f
           DEF SlotOK, FreeOK, PlaceOK, WakeOK, CancelOK, RestOK, Queued
    <3>2. CASE x # t
      <4>1. Same(x) /\ waiters'[x] = waiters[x]
        BY <3>2, <1>f, <2>f DEF Same, Queued
      <4>2. Joined(x) => Joined(x)'
        BY <1>f, <2>f DEF Joined, Waits
      <4>3. QED
        BY <4>1, <4>2, SameSlot
    <3>3. QED
      BY <3>1, <3>2
  <2>3. LoadedOK'
    BY <1>7, <1>f, <2>f DEF LoadedOK
  <2>4. QED
    BY <2>1, <2>2, <2>3, <1>4, <1>5
<1>8. CASE kind[t] # "free" /\ t # current /\ CancelParked(t) /\ UNCHANGED cancel_current
  <2>f. /\ io' = NudgedIo(t) /\ waiters' = NudgedWaiters(t) /\ joining' = NudgedJoining(t)
        /\ parked_on_channel' = NudgedChannel(t) /\ ready' = NudgedReady(t)
    BY <1>8 DEF CancelParked
  <2>c. \A x \in Slots : cancel_requested'[x] <=> cancel_requested[x] \/ x = t
    BY <1>8, Typed DEF CancelParked
  <2>n. /\ \A x \in Slots :
             /\ io'[x] = IF x = t /\ io[t] = "inflight" THEN "aborted" ELSE io[x]
             /\ joining'[x] = IF x = t THEN NoTask ELSE joining[x]
             /\ parked_on_channel'[x] <=> x # t /\ parked_on_channel[x]
             /\ kind[x] # "free" \/ waiters'[x] = waiters[x]
        /\ \A u \in Slots :
             /\ Once(waiters'[u])
             /\ \A x \in Slots : Contains(waiters'[u], x) <=> Waits(u, x) /\ x # t
        /\ Once(ready') /\ ~Contains(ready', current)
        /\ \A x \in Slots : Contains(ready', x) <=> Contains(ready, x) \/ (x = t /\ Leaves(t))
    BY <1>8, <2>f, NudgeFacts
  <2>1. QueueOK'
    BY <2>n, <1>f DEF QueueOK, Queued, Waits
  <2>2. ASSUME NEW x \in Slots PROVE SlotOK(x)'
    <3>1. CASE x = t
      BY <3>1, <1>8, <1>f, <2>n, <2>c, NudgedSlot
    <3>2. CASE x # t
      <4>1. Same(x)
        BY <3>2, <1>f, <2>n, <2>c DEF Same, Queued
      <4>2. Joined(x) => Joined(x)'
        BY <3>2, <1>f, <2>n DEF Joined, Waits
      <4>3. QED
        BY <4>1, <4>2, <2>n, SameSlot
    <3>3. QED
      BY <3>1, <3>2
  <2>3. LoadedOK'
    <3>1. current # NoTask => (cancel_requested'[current] <=> cancel_requested[current])
      BY <1>8, <2>c, Typed
    <3>2. QED
      BY <3>1, <1>8, <1>f DEF LoadedOK
  <2>4. QED
    BY <2>1, <2>2, <2>3, <1>4, <1>5
<1>9. QED
  BY <1>6, <1>7, <1>8

(* The fatal signal: the driver knows whether it holds main.                *)
LEMMA SignalCancelS ==
  ASSUME HInv, SInv, SignalCancel
  PROVE  SInv'
  BY MainSlot, RequestS DEF SignalCancel, request_cancel_from_driver

(* handle.cancel: while a task runs, the sticky current_task is right.      *)
LEMMA CancelS ==
  ASSUME HInv, SInv, NEW h \in Handles, Cancel(h)
  PROVE  SInv'
<1>1. current = current_task
  BY OperateFacts, NoneOutside DEF Cancel, SInv, LoadedOK
<1>2. handle_id[h] \in Slots
  BY DEF Cancel, HInv, HandleNamesItsTask, TypeOK, HandleTypeOK
<1>3. QED
  BY <1>1, <1>2, RequestS DEF Cancel, request_cancel, driverVars

-----------------------------------------------------------------------------
(* Operations of the running task.                                          *)

(* The running task has no waker, no wake and no deadline left.             *)
LEMMA OperateS ==
  ASSUME HInv, SInv, Operate
  PROVE  /\ current \in Slots /\ current = current_task /\ kind[current] # "free"
         /\ mode = "task" /\ pc[current] = "run" /\ ~cancel_current
         /\ ~cancel_requested[current] /\ wake[current] = "none" /\ ~Queued(current)
         /\ SlotOK(current) /\ Idle(current) /\ park_epoch[current] > 0
         /\ \A d \in deadlines : ~Arms(d, current)
<1> USE DEF SInv
<1>1. current \in Slots /\ mode = "task" /\ pc[current] = "run" /\ ~cancel_current
  BY OperateFacts DEF Operate, Running
<1>2. SlotOK(current) /\ ~Queued(current) /\ current # NoTask
  BY <1>1, NoneOutside DEF QueueOK
<1>3. QED
  BY <1>1, <1>2 DEF LoadedOK, DeadlineOK, SlotOK, FreeOK, PlaceOK, WakeOK

(* Suspending: the slot of the task is its waker's business, the others are *)
(* not touched.                                                             *)
LEMMA ParkS ==
  ASSUME HInv, SInv, Operate, NEW where \in Pcs, Park(where),
         UNCHANGED <<park_epoch, park_seq, cancel_requested, timeout_child>>,
         \A x \in Slots : x # current =>
           /\ kind'[x] = kind[x] /\ io'[x] = io[x] /\ joining'[x] = joining[x]
           /\ (parked_on_channel'[x] <=> parked_on_channel[x])
           /\ pending'[x] = pending[x] /\ wake'[x] = wake[x]
           /\ (Contains(ready', x) <=> Contains(ready, x))
  PROVE  /\ \A x \in Slots : x # current => Same(x)
         /\ \A x \in Slots : pc'[x] = IF x = current THEN where ELSE pc[x]
         /\ current' = NoTask /\ mode' = "top" /\ LoadedOK'
<1>1. \A x \in Slots : pc'[x] = IF x = current THEN where ELSE pc[x]
  BY Typed DEF Park
<1>2. current' = NoTask /\ mode' = "top"
  BY DEF Park
<1>3. LoadedOK'
  BY <1>2 DEF LoadedOK
<1>4. \A x \in Slots : x # current => Same(x)
  BY <1>1, <1>2, NoneOutside DEF Same, Queued
<1>5. QED
  BY <1>1, <1>2, <1>3, <1>4

(* Parking for a completion: the future is the waker.                       *)
LEMMA AwaitIoS ==
  ASSUME HInv, SInv, AwaitIo
  PROVE  SInv'
<1> USE DEF SInv
<1>o. Operate /\ Park("io") /\ "io" \in Pcs
  BY DEF AwaitIo, Pcs
<1>f. /\ UNCHANGED <<kind, parent, pending, waiters, cancel_requested, joining>>
      /\ UNCHANGED <<park_epoch, parked_on_channel, wake, timeout_child, ready>>
      /\ UNCHANGED <<park_seq, deadlines>>
  BY DEF AwaitIo, tableVars, schedVars
<1>g. \A x \in Slots : io'[x] = IF x = current THEN "inflight" ELSE io[x]
  BY Typed DEF AwaitIo
<1>p. /\ \A x \in Slots : x # current => Same(x)
      /\ \A x \in Slots : pc'[x] = IF x = current THEN "io" ELSE pc[x]
      /\ current' = NoTask /\ mode' = "top" /\ LoadedOK'
  BY <1>o, <1>f, <1>g, ParkS
<1>1. QueueOK'
  BY <1>f, <1>p, SameQueues
<1>2. ASSUME NEW x \in Slots PROVE SlotOK(x)'
  <2>1. CASE x = current
    <3>1. FreeOK(x)' /\ PlaceOK(x)' /\ RestOK(x)'
      BY <2>1, <1>o, <1>f, <1>g, <1>p, OperateS, NoneOutside
         DEF SlotOK, FreeOK, PlaceOK, RestOK, Idle, Queued, Joins, Drains
    <3>2. WakeOK(x)' /\ CancelOK(x)'
      BY <2>1, <1>o, <1>f, <1>g, OperateS DEF WakeOK, CancelOK, Queued
    <3>3. QED
      BY <3>1, <3>2 DEF SlotOK
  <2>2. CASE x # current
    <3>1. Joined(x) => Joined(x)'
      BY <1>f DEF Joined, Waits
    <3>2. QED
      BY <2>2, <3>1, <1>f, <1>p, SameSlot
  <2>3. QED
    BY <2>1, <2>2
<1>3. DeadlineOK'
  BY <1>o, <1>f, <1>p, OperateS, SameDeadlines, NoneOutside DEF DeadlineOK
<1>4. PendingCountsChildren'
  BY <1>o, <1>f, <1>p, OperateS, SameCounts
<1>5. QED
  BY <1>1, <1>2, <1>3, <1>4, <1>p

(* A gather of no blocks is woken at once.                                  *)
LEMMA GatherNoneS ==
  ASSUME HInv, SInv, GatherNone
  PROVE  SInv'
<1> USE DEF SInv
<1>o. Operate /\ Park("gather") /\ "gather" \in Pcs
  BY DEF GatherNone, Pcs
<1>f. /\ UNCHANGED <<kind, parent, pending, waiters, cancel_requested, joining>>
      /\ UNCHANGED <<park_epoch, parked_on_channel, io, timeout_child>>
      /\ UNCHANGED <<park_seq, deadlines>> /\ ready' = Append(ready, current)
      /\ current' = NoTask
  BY DEF GatherNone, Park, tableVars, schedVars
<1>g. \A x \in Slots : wake'[x] = IF x = current THEN "Gather" ELSE wake[x]
  BY Typed DEF GatherNone
<1>q. /\ Once(ready') /\ ~Contains(ready', current')
      /\ \A x \in Slots : Contains(ready', x) <=> Contains(ready, x) \/ x = current
  BY <1>o, <1>f, OperateS, Requeued, NoneOutside
<1>p. /\ \A x \in Slots : x # current => Same(x)
      /\ \A x \in Slots : pc'[x] = IF x = current THEN "gather" ELSE pc[x]
      /\ current' = NoTask /\ mode' = "top" /\ LoadedOK'
  BY <1>o, <1>f, <1>g, <1>q, ParkS
<1>1. QueueOK'
  BY <1>f, <1>q DEF QueueOK, Queued, Waits
<1>2. ASSUME NEW x \in Slots PROVE SlotOK(x)'
  <2>1. CASE x = current
    <3>1. FreeOK(x)' /\ PlaceOK(x)' /\ RestOK(x)'
      BY <2>1, <1>o, <1>f, <1>g, <1>p, <1>q, OperateS
         DEF SlotOK, FreeOK, PlaceOK, RestOK, Idle, Queued, Joins, Drains
    <3>2. WakeOK(x)' /\ CancelOK(x)'
      BY <2>1, <1>o, <1>f, <1>g, <1>p, <1>q, OperateS
         DEF WakeOK, WakeFits, CancelOK, Idle, Queued
    <3>3. QED
      BY <3>1, <3>2 DEF SlotOK
  <2>2. CASE x # current
    <3>1. Joined(x) => Joined(x)'
      BY <1>f DEF Joined, Waits
    <3>2. QED
      BY <2>2, <3>1, <1>f, <1>p, SameSlot
  <2>3. QED
    BY <2>1, <2>2
<1>3. DeadlineOK'
  BY <1>o, <1>f, <1>g, <1>p, OperateS, SameDeadlines, NoneOutside DEF DeadlineOK
<1>4. PendingCountsChildren'
  BY <1>o, <1>f, <1>p, OperateS, SameCounts
<1>5. QED
  BY <1>1, <1>2, <1>3, <1>4, <1>p

(* A channel park: the queue that holds the waiter is the waker.            *)
LEMMA ChannelParkS ==
  ASSUME HInv, SInv, ChannelPark
  PROVE  SInv'
<1> USE DEF SInv
<1>o. Operate /\ Park("channel") /\ "channel" \in Pcs
  BY DEF ChannelPark, Pcs
<1>f. /\ UNCHANGED <<kind, parent, pending, waiters, cancel_requested, joining>>
      /\ UNCHANGED <<park_epoch, io, wake, timeout_child, ready, park_seq, deadlines>>
  BY DEF ChannelPark, tableVars, schedVars
<1>g. \A x \in Slots : parked_on_channel'[x] <=> x = current \/ parked_on_channel[x]
  BY Typed DEF ChannelPark
<1>p. /\ \A x \in Slots : x # current => Same(x)
      /\ \A x \in Slots : pc'[x] = IF x = current THEN "channel" ELSE pc[x]
      /\ current' = NoTask /\ mode' = "top" /\ LoadedOK'
  BY <1>o, <1>f, <1>g, ParkS
<1>1. QueueOK'
  BY <1>f, <1>p, SameQueues
<1>2. ASSUME NEW x \in Slots PROVE SlotOK(x)'
  <2>1. CASE x = current
    <3>1. FreeOK(x)' /\ PlaceOK(x)' /\ RestOK(x)'
      BY <2>1, <1>o, <1>f, <1>g, <1>p, OperateS, NoneOutside
         DEF SlotOK, FreeOK, PlaceOK, RestOK, Idle, Queued, Joins, Drains
    <3>2. WakeOK(x)' /\ CancelOK(x)'
      BY <2>1, <1>o, <1>f, <1>g, OperateS DEF WakeOK, CancelOK, Idle, Queued
    <3>3. QED
      BY <3>1, <3>2 DEF SlotOK
  <2>2. CASE x # current
    <3>1. Joined(x) => Joined(x)'
      BY <1>f DEF Joined, Waits
    <3>2. QED
      BY <2>2, <3>1, <1>f, <1>p, SameSlot
  <2>3. QED
    BY <2>1, <2>2
<1>3. DeadlineOK'
  BY <1>o, <1>f, <1>p, OperateS, SameDeadlines, NoneOutside DEF DeadlineOK
<1>4. PendingCountsChildren'
  BY <1>o, <1>f, <1>p, OperateS, SameCounts
<1>5. QED
  BY <1>1, <1>2, <1>3, <1>4, <1>p

(* A counterpart queues a task that is parked on a channel.                 *)
LEMMA ChannelWakeS ==
  ASSUME HInv, SInv, NEW s \in Slots, ChannelWake(s)
  PROVE  SInv'
<1> USE DEF SInv
<1>f. /\ UNCHANGED <<kind, parent, pending, waiters, cancel_requested, joining>>
      /\ UNCHANGED <<park_epoch, io, pc, timeout_child, deadlines>>
      /\ UNCHANGED <<current, current_task, cancel_current, sched_wake, park_seq, mode>>
      /\ ready' = Append(ready, s) /\ parked_on_channel[s] /\ kind[s] # "free"
  BY DEF ChannelWake, tableVars, coroVars, driverVars
<1>g. \A x \in Slots :
        /\ parked_on_channel'[x] <=> parked_on_channel[x] /\ x # s
        /\ wake'[x] = IF x = s THEN "Channel" ELSE wake[x]
  BY Typed DEF ChannelWake
<1>o. /\ SlotOK(s) /\ pc[s] = "channel" /\ s # current /\ ~Queued(s)
      /\ joining[s] = NoTask /\ io[s] = "none" /\ pending[s] = 0
  <2>1. SlotOK(s) /\ pc[s] = "channel" /\ s # current /\ ~Queued(s)
    BY <1>f DEF SlotOK, PlaceOK, Idle
  <2>2. joining[s] = NoTask /\ io[s] = "none"
    BY <2>1 DEF SlotOK, PlaceOK, Joins, Drains
  <2>3. pending[s] = 0
    BY <2>1, Numbers DEF PendingCountsChildren
  <2>4. QED
    BY <2>1, <2>2, <2>3
<1>q. /\ Once(ready') /\ ~Contains(ready', current')
      /\ \A x \in Slots : Contains(ready', x) <=> Contains(ready, x) \/ x = s
  BY <1>f, <1>o, Requeued
<1>1. QueueOK'
  BY <1>f, <1>q DEF QueueOK, Queued, Waits
<1>2. ASSUME NEW x \in Slots PROVE SlotOK(x)'
  <2>1. CASE x = s
    <3>1. FreeOK(x)' /\ PlaceOK(x)' /\ RestOK(x)'
      BY <2>1, <1>o, <1>f, <1>g, <1>q
         DEF FreeOK, PlaceOK, RestOK, Idle, SlotOK, Joins, Drains, Queued
    <3>2. WakeOK(x)' /\ CancelOK(x)'
      BY <2>1, <1>o, <1>f, <1>g, <1>q DEF WakeOK, WakeFits, CancelOK, SlotOK, Queued
    <3>3. QED
      BY <3>1, <3>2 DEF SlotOK
  <2>2. CASE x # s
    <3>1. Same(x)
      BY <2>2, <1>f, <1>g, <1>q DEF Same, Queued
    <3>2. Joined(x) => Joined(x)'
      BY <1>f DEF Joined, Waits
    <3>3. QED
      BY <3>1, <3>2, <1>f, SameSlot
  <2>3. QED
    BY <2>1, <2>2
<1>3. LoadedOK'
  BY <1>f DEF LoadedOK
<1>4. DeadlineOK'
  BY <1>f, <1>g, SameDeadlines DEF DeadlineOK
<1>5. PendingCountsChildren'
  BY <1>f, SameCounts
<1>6. QED
  BY <1>1, <1>2, <1>3, <1>4, <1>5

(* handle.join: the caller enters the waiter list of a live task.           *)
LEMMA JoinS ==
  ASSUME HInv, SInv, NEW h \in Handles, Join(h)
  PROVE  SInv'
<1> USE DEF SInv
<1>o. Operate /\ Park("join") /\ "join" \in Pcs
  BY DEF Join, Pcs
<1>t. PICK t \in Slots : t = handle_id[h] /\ kind[t] = "detached" /\ t # current
  BY <1>o, OperateS DEF Join, HInv, HandleNamesItsTask, TypeOK, HandleTypeOK
<1>f. /\ UNCHANGED <<kind, parent, pending, cancel_requested, park_epoch>>
      /\ UNCHANGED <<parked_on_channel, io, wake, timeout_child, ready, park_seq, deadlines>>
      /\ waiters' = [waiters EXCEPT ![t] = Append(@, current)]
      /\ joining' = [joining EXCEPT ![current] = t]
      /\ current' = NoTask
  BY <1>t DEF Join, Park, tableVars, schedVars
<1>g. \A x \in Slots :
        /\ joining'[x] = IF x = current THEN t ELSE joining[x]
        /\ waiters'[x] = IF x = t THEN Append(waiters[x], current) ELSE waiters[x]
  BY <1>f, Typed
<1>e. current \in Slots /\ joining[current] = NoTask /\ \A u \in Slots : ~Waits(u, current)
  BY <1>o, OperateS, NoneOutside DEF Idle, QueueOK
<1>w. \A u \in Slots :
        /\ Once(waiters'[u])
        /\ \A x \in Slots : Contains(waiters'[u], x) <=> Waits(u, x) \/ (x = current /\ u = t)
  <2> SUFFICES ASSUME NEW u \in Slots
               PROVE  /\ Once(waiters'[u])
                      /\ \A x \in Slots :
                           Contains(waiters'[u], x) <=> Waits(u, x) \/ (x = current /\ u = t)
    OBVIOUS
  <2>1. waiters[u] \in Seq(Slots) /\ Once(waiters[u])
    BY Typed DEF QueueOK
  <2>2. CASE u = t
    BY <2>1, <2>2, <1>g, <1>e, AppendEntry DEF Waits
  <2>3. CASE u # t
    BY <2>1, <2>3, <1>g DEF Waits
  <2>4. QED
    BY <2>2, <2>3
<1>p. /\ \A x \in Slots : x # current => Same(x)
      /\ \A x \in Slots : pc'[x] = IF x = current THEN "join" ELSE pc[x]
      /\ current' = NoTask /\ mode' = "top" /\ LoadedOK'
  BY <1>o, <1>f, <1>g, ParkS
<1>1. QueueOK'
  <2>1. ~Contains(ready', current')
    BY <1>f, QueuedIsSlot DEF Queued
  <2>2. \A s, u \in Slots : Contains(waiters'[u], s) => joining'[s] = u
    BY <1>w, <1>g, <1>e DEF QueueOK
  <2>3. QED
    BY <2>1, <2>2, <1>w, <1>f DEF QueueOK, Queued, Waits
<1>2. ASSUME NEW x \in Slots PROVE SlotOK(x)'
  <2>1. CASE x = current
    <3>1. Joined(x)'
      BY <2>1, <1>t, <1>f, <1>g, <1>w DEF Joined, Waits
    <3>2. FreeOK(x)' /\ PlaceOK(x)' /\ RestOK(x)'
      BY <2>1, <3>1, <1>o, <1>f, <1>g, <1>p, OperateS, NoneOutside
         DEF SlotOK, FreeOK, PlaceOK, RestOK, Idle, Queued, Joins, Drains
    <3>3. WakeOK(x)' /\ CancelOK(x)'
      BY <2>1, <1>o, <1>f, <1>g, OperateS DEF WakeOK, CancelOK, Idle, Queued
    <3>4. QED
      BY <3>2, <3>3 DEF SlotOK
  <2>2. CASE x # current
    <3>1. Joined(x) => Joined(x)'
      BY <2>2, <1>f, <1>g, <1>w DEF Joined, Waits
    <3>2. waiters'[x] = waiters[x] \/ kind[x] # "free"
      BY <1>g, <1>t
    <3>3. QED
      BY <2>2, <3>1, <3>2, <1>p, SameSlot
  <2>3. QED
    BY <2>1, <2>2
<1>3. DeadlineOK'
  BY <1>o, <1>f, <1>p, OperateS, SameDeadlines, NoneOutside DEF DeadlineOK
<1>4. PendingCountsChildren'
  BY <1>o, <1>f, <1>p, OperateS, SameCounts
<1>5. QED
  BY <1>1, <1>2, <1>3, <1>4, <1>p

(* What spawning a detached task does to the table and to the queue.        *)
LEMMA SpawnFacts ==
  ASSUME HInv, SInv, NEW s \in Slots, NEW h \in Handles, SpawnDetached(s, h),
         current' = current \/ current' = NoTask
  PROVE  /\ kind[s] = "free" /\ s # current /\ FreeOK(s)
         /\ UNCHANGED <<parent, pending>>
         /\ \A x \in Slots : kind'[x] = IF x = s THEN "detached" ELSE kind[x]
         /\ Once(ready') /\ ~Contains(ready', current')
         /\ \A x \in Slots : Contains(ready', x) <=> Contains(ready, x) \/ x = s
         /\ \A p \in Slots : Children(p)' = Children(p)
<1> USE DEF SInv
<1>1. kind[s] = "free" /\ SlotOK(s) /\ UNCHANGED <<parent, pending>> /\ ready' = Append(ready, s)
  BY DEF SpawnDetached, FirstFree, Free
<1>2. s # current /\ ~Queued(s) /\ FreeOK(s)
  BY <1>1 DEF SlotOK, FreeOK
<1>3. \A x \in Slots : kind'[x] = IF x = s THEN "detached" ELSE kind[x]
  BY Typed DEF SpawnDetached
<1>4. /\ Once(ready') /\ ~Contains(ready', current')
      /\ \A x \in Slots : Contains(ready', x) <=> Contains(ready, x) \/ x = s
  BY <1>1, <1>2, Requeued, NoneOutside
<1>5. \A p \in Slots : Children(p)' = Children(p)
  BY <1>1, <1>3 DEF Children
<1>6. QED
  BY <1>1, <1>2, <1>3, <1>4, <1>5

(* The slot of a task that was just spawned.                                *)
LEMMA SpawnedSlot ==
  ASSUME HInv, SInv, NEW s \in Slots, FreeOK(s), kind[s] = "free", kind'[s] # "free",
         Contains(ready', s), s # current', joining'[s] = joining[s], pc'[s] = pc[s],
         pending'[s] = pending[s], timeout_child'[s] = timeout_child[s],
         UNCHANGED <<io, wake, cancel_requested, parked_on_channel>>
  PROVE  SlotOK(s)'
  BY DEF SlotOK, FreeOK, PlaceOK, WakeOK, CancelOK, RestOK, Idle, Queued, Joins, Drains

(* Task.spawn: takes a free slot and queues its task.                       *)
LEMMA SpawnS ==
  ASSUME HInv, SInv, Spawn
  PROVE  SInv'
<1> USE DEF SInv
<1>f. /\ UNCHANGED <<waiters, cancel_requested, joining, park_epoch, parked_on_channel>>
      /\ UNCHANGED <<wake, io, pc, timeout_child, park_seq, deadlines>>
      /\ UNCHANGED <<current, current_task, cancel_current, sched_wake, mode>>
  BY DEF Spawn, parkVars, coroVars, driverVars
<1>h. PICK s \in Slots, h \in Handles : SpawnDetached(s, h)
  BY DEF Spawn
<1>g. /\ kind[s] = "free" /\ s # current /\ FreeOK(s)
      /\ UNCHANGED <<parent, pending>>
      /\ \A x \in Slots : kind'[x] = IF x = s THEN "detached" ELSE kind[x]
      /\ Once(ready') /\ ~Contains(ready', current')
      /\ \A x \in Slots : Contains(ready', x) <=> Contains(ready, x) \/ x = s
      /\ \A p \in Slots : Children(p)' = Children(p)
  BY <1>f, <1>h, SpawnFacts
<1>1. QueueOK'
  BY <1>f, <1>g DEF QueueOK, Queued, Waits
<1>2. ASSUME NEW x \in Slots PROVE SlotOK(x)'
  <2>1. CASE x = s
    BY <2>1, <1>f, <1>g, SpawnedSlot
  <2>2. CASE x # s
    <3>1. Same(x)
      BY <2>2, <1>f, <1>g DEF Same, Queued
    <3>2. Joined(x) => Joined(x)'
      BY <1>f, <1>g DEF Joined, Waits
    <3>3. QED
      BY <3>1, <3>2, <1>f, SameSlot
  <2>3. QED
    BY <2>1, <2>2
<1>3. LoadedOK'
  BY <1>f DEF LoadedOK
<1>4. DeadlineOK'
  BY <1>f, SameDeadlines DEF DeadlineOK
<1>5. PendingCountsChildren'
  BY <1>f, <1>g DEF PendingCountsChildren
<1>6. QED
  BY <1>1, <1>2, <1>3, <1>4, <1>5

(* Async.timeout:do: - the child is queued, its caller enters its waiter    *)
(* list, and the deadline captures the caller's epoch.                      *)
LEMMA TimeoutS ==
  ASSUME HInv, SInv, Timeout
  PROVE  SInv'
<1> USE DEF SInv
<1>o. Operate /\ Park("joinTimed")
  BY DEF Timeout
<1>f. /\ UNCHANGED <<cancel_requested, park_epoch, parked_on_channel, wake, io, park_seq>>
      /\ current' = NoTask /\ mode' = "top"
  BY DEF Timeout, Park
<1>h. PICK s \in Slots, h \in Handles :
        /\ SpawnDetached(s, h)
        /\ waiters' = [waiters EXCEPT ![s] = Append(@, current)]
        /\ joining' = [joining EXCEPT ![current] = s]
        /\ timeout_child' = [timeout_child EXCEPT ![current] = s]
        /\ deadlines' = deadlines \cup
             {[joiner |-> current, target |-> s, epoch |-> park_epoch[current]]}
  BY DEF Timeout
<1>s. /\ kind[s] = "free" /\ s # current /\ FreeOK(s)
      /\ UNCHANGED <<parent, pending>>
      /\ \A x \in Slots : kind'[x] = IF x = s THEN "detached" ELSE kind[x]
      /\ Once(ready') /\ ~Contains(ready', current')
      /\ \A x \in Slots : Contains(ready', x) <=> Contains(ready, x) \/ x = s
      /\ \A p \in Slots : Children(p)' = Children(p)
  BY <1>f, <1>h, SpawnFacts
<1>g. \A x \in Slots :
        /\ joining'[x] = IF x = current THEN s ELSE joining[x]
        /\ waiters'[x] = IF x = s THEN Append(waiters[x], current) ELSE waiters[x]
        /\ timeout_child'[x] = IF x = current THEN s ELSE timeout_child[x]
  BY <1>h, Typed
<1>c. \A x \in Slots : pc'[x] = IF x = current THEN "joinTimed" ELSE pc[x]
  BY <1>o, Typed DEF Park
<1>e. current \in Slots /\ joining[current] = NoTask /\ \A u \in Slots : ~Waits(u, current)
  BY <1>o, OperateS, NoneOutside DEF Idle, QueueOK
<1>w. \A u \in Slots :
        /\ Once(waiters'[u])
        /\ \A x \in Slots : Contains(waiters'[u], x) <=> Waits(u, x) \/ (x = current /\ u = s)
  <2> SUFFICES ASSUME NEW u \in Slots
               PROVE  /\ Once(waiters'[u])
                      /\ \A x \in Slots :
                           Contains(waiters'[u], x) <=> Waits(u, x) \/ (x = current /\ u = s)
    OBVIOUS
  <2>1. waiters[u] \in Seq(Slots) /\ Once(waiters[u])
    BY Typed DEF QueueOK
  <2>2. CASE u = s
    BY <2>1, <2>2, <1>g, <1>e, AppendEntry DEF Waits
  <2>3. CASE u # s
    BY <2>1, <2>3, <1>g DEF Waits
  <2>4. QED
    BY <2>2, <2>3
<1>1. QueueOK'
  <2>1. \A r, u \in Slots : Contains(waiters'[u], r) => joining'[r] = u
    BY <1>w, <1>g, <1>e DEF QueueOK
  <2>2. QED
    BY <2>1, <1>w, <1>s DEF QueueOK, Queued, Waits
<1>2. ASSUME NEW x \in Slots PROVE SlotOK(x)'
  <2>1. CASE x = current
    <3>1. Joined(x)'
      BY <2>1, <1>s, <1>g, <1>w DEF Joined, Waits
    <3>2. FreeOK(x)' /\ PlaceOK(x)' /\ RestOK(x)'
      BY <2>1, <3>1, <1>o, <1>f, <1>s, <1>g, <1>c, OperateS, NoneOutside
         DEF SlotOK, FreeOK, PlaceOK, RestOK, Idle, Queued, Joins, Drains
    <3>3. WakeOK(x)' /\ CancelOK(x)'
      BY <2>1, <1>o, <1>f, <1>s, OperateS DEF WakeOK, CancelOK, Idle, Queued
    <3>4. QED
      BY <3>2, <3>3 DEF SlotOK
  <2>2. CASE x = s
    BY <2>2, <1>f, <1>s, <1>g, <1>c, NoneOutside, SpawnedSlot
  <2>3. CASE x # current /\ x # s
    <3>1. Same(x)
      BY <2>3, <1>f, <1>s, <1>g, <1>c, NoneOutside DEF Same, Queued
    <3>2. Joined(x) => Joined(x)'
      BY <2>3, <1>s, <1>g, <1>w DEF Joined, Waits
    <3>3. QED
      BY <2>3, <3>1, <3>2, <1>g, SameSlot
  <2>4. QED
    BY <2>1, <2>2, <2>3
<1>3. LoadedOK'
  BY <1>f DEF LoadedOK
<1>4. DeadlineOK'
  <2> DEFINE n == [joiner |-> current, target |-> s, epoch |-> park_epoch[current]]
  <2>1. n.joiner = current /\ n.epoch = park_epoch[current]
    OBVIOUS
  <2>2. deadlines' = deadlines \cup {n}
    BY <1>h
  <2> HIDE DEF n
  <2>3. \A d, x : Arms(d, x)' <=> Arms(d, x)
    BY <1>f DEF Arms
  <2>4. \A x \in Slots : Arms(n, x) => x = current
    BY <2>1 DEF Arms
  <2>5. \A d \in deadlines : ~Arms(d, current)
    BY <1>o, OperateS
  <2>6. wake'[current] = "none"
    BY <1>o, <1>f, OperateS
  <2>7. n.epoch > 0 /\ n.epoch <= park_seq
    BY <1>o, <1>e, <2>1, OperateS DEF DeadlineOK
  <2>8. \A d \in deadlines', x \in Slots : Arms(d, x) =>
          pc'[x] = "joinTimed" /\ x # current' /\ wake'[x] # "TimedOut"
    BY <2>2, <2>4, <2>5, <2>6, <1>f, <1>c, NoneOutside DEF DeadlineOK
  <2>9. \A d, e \in deadlines', x \in Slots : Arms(d, x) /\ Arms(e, x) => d = e
    BY <2>2, <2>4, <2>5 DEF DeadlineOK
  <2>10. QED
    BY <2>2, <2>3, <2>7, <2>8, <2>9, <1>f DEF DeadlineOK
<1>5. PendingCountsChildren'
  <2>1. \A p \in Slots : pending[p] > 0 => p # current /\ p # s
    BY <1>o, <1>s, OperateS DEF Idle, FreeOK
  <2>2. QED
    BY <2>1, <1>f, <1>s, <1>c DEF PendingCountsChildren
<1>6. QED
  BY <1>1, <1>2, <1>3, <1>4, <1>5

(* What a gather does to the table and to the queue: n free slots become    *)
(* children of the running task and are queued.                             *)
Gathers(C, n) ==
  /\ Cardinality(C) = n
  /\ \A x \in C : kind[x] = "free" /\ FreeOK(x) /\ x # current /\ ~Queued(x)
  /\ \A x \in C : kind'[x] = "child" /\ parent'[x] = current
  /\ \A x \in Slots \ C : kind'[x] = kind[x] /\ parent'[x] = parent[x]
  /\ \A x \in Slots : Contains(ready', x) <=> Contains(ready, x) \/ x \in C
  /\ Once(ready') /\ ~Contains(ready', NoTask)

(* A gather of n blocks finds such slots.                                   *)
LEMMA GatherFacts ==
  ASSUME HInv, SInv, NEW n \in 1..MaxGather, Gather(n)
  PROVE  \E C \in SUBSET Slots : Gathers(C, n)
<1> USE DEF SInv
<1>n. n \in Nat /\ n > 0
  BY BoundsAssumption
<1>h. PICK ids \in [1..n -> Free] :
        /\ \A i, j \in 1..n : i < j => ids[i] < ids[j]
        /\ kind' = [s \in Slots |-> IF \E i \in 1..n : ids[i] = s THEN "child" ELSE kind[s]]
        /\ parent' = [s \in Slots |-> IF \E i \in 1..n : ids[i] = s THEN current ELSE parent[s]]
        /\ ready' = ready \o ids
  BY DEF Gather
<1>e. PICK C \in SUBSET Slots : C = {s \in Slots : \E i \in 1..n : ids[i] = s}
  OBVIOUS
<1>d. \A x \in Slots : x \in C <=> \E i \in 1..n : ids[i] = x
  BY <1>e
<1>c. /\ \A x \in C : kind'[x] = "child" /\ parent'[x] = current
      /\ \A x \in Slots \ C : kind'[x] = kind[x] /\ parent'[x] = parent[x]
  <2>1. ASSUME NEW x \in Slots, x \in C PROVE kind'[x] = "child" /\ parent'[x] = current
    <3>1. \E i \in 1..n : ids[i] = x
      BY <2>1, <1>d
    <3>2. QED
      BY <3>1, <1>h
  <2>2. ASSUME NEW x \in Slots, x \notin C PROVE kind'[x] = kind[x] /\ parent'[x] = parent[x]
    <3>1. ~ \E i \in 1..n : ids[i] = x
      BY <2>2, <1>d
    <3>2. QED
      BY <3>1, <1>h
  <2>3. QED
    BY <2>1, <2>2
<1>f. \A i \in 1..n : ids[i] \in Slots /\ kind[ids[i]] = "free"
  BY <1>h DEF Free
<1>i. ids \in Seq(Slots) /\ Len(ids) = n
  BY <1>n, <1>f
<1>j. \A i, j \in 1..n : i # j => ids[i] # ids[j]
  <2>1. \A s \in Slots : s \in Int
    BY BoundsAssumption DEF Slots
  <2>2. \A i, j \in 1..n : i < j => ids[i] # ids[j]
    BY <2>1, <1>h, <1>f
  <2>3. \A i, j \in 1..n : i \in Int /\ j \in Int /\ (i # j => i < j \/ j < i)
    BY <1>n
  <2>4. QED
    BY <2>2, <2>3
<1>m. \A x \in Slots : Contains(ids, x) <=> x \in C
  BY <1>e, <1>i DEF Contains
<1>1. Cardinality(C) = n
  <2>1. IsFiniteSet(1..n) /\ Cardinality(1..n) = n
    BY <1>n, FS_Interval
  <2>2. ids \in [1..n -> C]
    BY <1>h, <1>e, <1>f
  <2>3. ids \in Injection(1..n, C)
    BY <2>2, <1>j DEF Injection, IsInjective
  <2>4. ids \in Surjection(1..n, C)
    BY <2>2, <1>e DEF Surjection
  <2>5. ExistsBijection(1..n, C)
    BY <2>3, <2>4 DEF ExistsBijection, Bijection
  <2>6. QED
    BY <2>1, <2>5, FS_Bijection
<1>2. ASSUME NEW x \in C
      PROVE  kind[x] = "free" /\ FreeOK(x) /\ x # current /\ ~Queued(x)
  <2>1. kind[x] = "free" /\ SlotOK(x)
    BY <1>e, <1>f
  <2>2. QED
    BY <2>1 DEF SlotOK, FreeOK
<1>3. ready \in Seq(Slots) /\ Once(ready) /\ Once(ids)
  BY Typed, <1>i, <1>j DEF QueueOK, Once
<1>4. \A x \in Slots : ~(Contains(ready, x) /\ Contains(ids, x))
  BY <1>2, <1>m DEF Queued
<1>5. /\ Once(ready')
      /\ \A x \in Slots : Contains(ready', x) <=> Contains(ready, x) \/ x \in C
  BY <1>3, <1>4, <1>h, <1>i, <1>m, ConcatEntries
<1>6. ~Contains(ready', NoTask)
  <2>1. ready' \in Seq(Slots)
    BY <1>3, <1>h, <1>i
  <2>2. QED
    BY <2>1, NoneOutside DEF Contains
<1>7. Gathers(C, n)
  BY <1>1, <1>2, <1>3, <1>5, <1>6, <1>c DEF Gathers
<1>8. QED
  BY <1>7

(* Async.gather: - the caller waits for its children.                       *)
LEMMA GatherS ==
  ASSUME HInv, SInv, NEW n \in 1..MaxGather, Gather(n)
  PROVE  SInv'
<1> USE DEF SInv
<1>o. Operate /\ Park("gather")
  BY DEF Gather
<1>n. n \in Nat /\ n > 0
  BY BoundsAssumption
<1>f. /\ UNCHANGED <<waiters, cancel_requested, joining, park_epoch, parked_on_channel>>
      /\ UNCHANGED <<wake, io, timeout_child, park_seq, deadlines>>
      /\ current' = NoTask /\ mode' = "top"
  BY DEF Gather, Park, parkVars
<1>p. PICK C \in SUBSET Slots : Gathers(C, n)
  BY GatherFacts
<1>h. /\ Cardinality(C) = n
      /\ \A x \in C : kind[x] = "free" /\ FreeOK(x) /\ x # current /\ ~Queued(x)
      /\ \A x \in C : kind'[x] = "child" /\ parent'[x] = current
      /\ \A x \in Slots : x \notin C => kind'[x] = kind[x] /\ parent'[x] = parent[x]
      /\ \A x \in Slots : Contains(ready', x) <=> Contains(ready, x) \/ x \in C
      /\ Once(ready') /\ ~Contains(ready', NoTask)
  BY <1>p DEF Gathers
<1>g. /\ pc'[current] = "gather" /\ pending'[current] = n
      /\ \A x \in Slots : x # current => pc'[x] = pc[x] /\ pending'[x] = pending[x]
  <2>1. pc' = [pc EXCEPT ![current] = "gather"] /\ pending' = [pending EXCEPT ![current] = n]
    BY DEF Gather, Park
  <2>2. pc \in [Slots -> Pcs] /\ pending \in [Slots -> Int] /\ current \in Slots
    BY <1>o, Typed, OperateS
  <2>3. QED
    BY <2>1, <2>2
<1>s. /\ current \in Slots /\ kind[current] # "free" /\ current \notin C /\ ~Queued(current)
      /\ wake[current] = "none" /\ ~cancel_requested[current] /\ SlotOK(current)
      /\ Idle(current) /\ \A d \in deadlines : ~Arms(d, current)
  BY <1>o, <1>h, OperateS
<1> HIDE DEF Gather
<1>1. QueueOK'
  BY <1>f, <1>h DEF QueueOK, Queued, Waits
<1>2. ASSUME NEW x \in Slots PROVE SlotOK(x)'
  <2>1. CASE x = current
    <3>1. ~Contains(ready', x) /\ kind'[x] = kind[x] /\ pending'[x] > 0
      BY <2>1, <1>s, <1>h, <1>g, <1>n DEF Queued
    <3>2. FreeOK(x)' /\ PlaceOK(x)' /\ RestOK(x)'
      BY <2>1, <3>1, <1>s, <1>f, <1>g, NoneOutside
         DEF SlotOK, FreeOK, PlaceOK, RestOK, Idle, Queued, Joins, Drains
    <3>3. WakeOK(x)' /\ CancelOK(x)'
      BY <2>1, <3>1, <1>s, <1>f DEF WakeOK, CancelOK, Idle, Queued
    <3>4. QED
      BY <3>2, <3>3 DEF SlotOK
  <2>2. CASE x \in C
    BY <2>2, <1>f, <1>h, <1>g, NoneOutside, SpawnedSlot
  <2>3. CASE x # current /\ x \notin C
    <3>1. Same(x)
      BY <2>3, <1>f, <1>h, <1>g, NoneOutside DEF Same, Queued
    <3>2. Joined(x) => Joined(x)'
      BY <2>3, <1>f, <1>h DEF Joined, Waits
    <3>3. QED
      BY <2>3, <3>1, <3>2, <1>f, SameSlot
  <2>4. QED
    BY <2>1, <2>2, <2>3
<1>3. LoadedOK'
  BY <1>f DEF LoadedOK
<1>4. DeadlineOK'
  BY <1>s, <1>f, <1>g, SameDeadlines, NoneOutside DEF DeadlineOK
<1>5. PendingCountsChildren'
  <2>1. Children(current) = {}
    <3>1. Cardinality(Children(current)) = 0 /\ IsFiniteSet(Children(current))
      BY <1>s, Numbers DEF Idle, PendingCountsChildren
    <3>2. QED
      BY <3>1, FS_EmptySet
  <2>2. ASSUME NEW p \in Slots, p # current PROVE Children(p)' = Children(p)
    BY <2>2, <1>h DEF Children
  <2>4. {s \in Slots : kind'[s] = "child" /\ parent'[s] = current} = C
    BY <2>1, <1>h DEF Children
  <2>5. ASSUME NEW p \in Slots
        PROVE  /\ pending'[p] = Cardinality({s \in Slots : kind'[s] = "child" /\ parent'[s] = p})
               /\ pending'[p] > 0 => kind'[p] # "free" /\ pc'[p] = "gather"
    <3>1. CASE p = current
      BY <3>1, <2>4, <1>s, <1>h, <1>g
    <3>2. CASE p # current
      <4>1. {s \in Slots : kind'[s] = "child" /\ parent'[s] = p} = Children(p)
        BY <3>2, <2>2 DEF Children
      <4>2. /\ pending'[p] = pending[p] /\ pc'[p] = pc[p]
            /\ pending[p] > 0 => p \notin C
        BY <3>2, <1>h, <1>g DEF FreeOK, Idle
      <4>3. pending[p] > 0 => kind'[p] = kind[p]
        BY <4>2, <1>h
      <4>4. QED
        BY <4>1, <4>2, <4>3 DEF PendingCountsChildren
    <3>3. QED
      BY <3>1, <3>2
  <2>6. QED
    BY <2>5 DEF PendingCountsChildren, Children
<1>6. QED
  BY <1>1, <1>2, <1>3, <1>4, <1>5

-----------------------------------------------------------------------------
(* Resuming from a park, and the cancel checkpoint.                         *)

(* The loaded task goes on running: nothing refers to it, and its two       *)
(* cancel flags agree.                                                      *)
LEMMA ResumedS ==
  ASSUME HInv, SInv, mode = "task",
         UNCHANGED <<kind, parent, pending, waiters, joining, park_epoch, parked_on_channel>>,
         UNCHANGED <<wake, io, timeout_child, ready, current_task, park_seq>>,
         UNCHANGED <<current, deadlines, mode>>,
         pc'[current] = "run",
         \A x \in Slots : x # current =>
           pc'[x] = pc[x] /\ (cancel_requested'[x] <=> cancel_requested[x]),
         cancel_current' <=> cancel_requested'[current]
  PROVE  SInv'
<1> USE DEF SInv
<1>o. current \in Slots
  BY DEF HInv, ControlOK
<1>s. kind[current] # "free" /\ wake[current] = "none"
  BY <1>o DEF SlotOK, FreeOK, WakeOK, QueueOK
<1>1. QueueOK'
  BY SameQueues
<1>2. ASSUME NEW x \in Slots PROVE SlotOK(x)'
  <2>1. CASE x = current
    <3>1. SlotOK(x) /\ Idle(x)' /\ ~Contains(ready', x)
      BY <2>1 DEF SlotOK, PlaceOK, Idle, QueueOK, Queued
    <3>2. FreeOK(x)' /\ PlaceOK(x)' /\ RestOK(x)'
      BY <2>1, <3>1, <1>s DEF FreeOK, PlaceOK, RestOK, Idle
    <3>3. WakeOK(x)' /\ CancelOK(x)'
      BY <2>1, <3>1, <1>s DEF WakeOK, CancelOK, Idle, Queued
    <3>4. QED
      BY <3>2, <3>3 DEF SlotOK
  <2>2. CASE x # current
    <3>1. Same(x) /\ waiters'[x] = waiters[x]
      BY <2>2 DEF Same, Queued
    <3>2. Joined(x) => Joined(x)'
      BY DEF Joined, Waits
    <3>3. QED
      BY <3>1, <3>2, SameSlot
  <2>3. QED
    BY <2>1, <2>2
<1>3. LoadedOK'
  BY <1>o DEF LoadedOK
<1>4. DeadlineOK'
  BY SameDeadlines DEF DeadlineOK
<1>5. PendingCountsChildren'
  <2>1. pending[current] = 0
    BY <1>o DEF SlotOK, PlaceOK, Idle
  <2>2. QED
    BY <2>1, SameCounts
<1>6. QED
  BY <1>1, <1>2, <1>3, <1>4, <1>5

(* take_cancellation clears the loaded task's two flags and no other.       *)
LEMMA TakenFlags ==
  ASSUME HInv, current \in Slots, take_cancellation
  PROVE  /\ \A x \in Slots : x # current => (cancel_requested'[x] <=> cancel_requested[x])
         /\ cancel_current' <=> cancel_requested'[current]
<1>1. cancel_requested \in [Slots -> BOOLEAN]
  BY Typed
<1>2. QED
  BY <1>1 DEF take_cancellation

(* The cancel checkpoint takes both flags of the loaded task.               *)
LEMMA CheckpointS ==
  ASSUME HInv, SInv, Checkpoint
  PROVE  SInv'
<1>1. /\ UNCHANGED <<kind, parent, pending, waiters, joining, park_epoch, parked_on_channel>>
      /\ UNCHANGED <<wake, io, timeout_child, ready, current_task, park_seq>>
      /\ UNCHANGED <<current, deadlines, mode, pc>>
      /\ mode = "task" /\ pc[current] = "run"
  BY DEF Checkpoint, tableVars, driverVars
<1>2. current \in Slots /\ take_cancellation
  BY <1>1 DEF HInv, ControlOK, Checkpoint
<1>3. QED
  BY <1>1, <1>2, TakenFlags, ResumedS

(* await_* after its suspend.                                               *)
LEMMA AwaitResumeS ==
  ASSUME HInv, SInv, AwaitResume
  PROVE  SInv'
<1>1. /\ UNCHANGED <<kind, parent, pending, waiters, joining, park_epoch, parked_on_channel>>
      /\ UNCHANGED <<wake, io, timeout_child, ready, current_task, park_seq>>
      /\ UNCHANGED <<current, deadlines, mode>>
      /\ mode = "task" /\ pc' = [pc EXCEPT ![current] = "run"]
  BY DEF AwaitResume, tableVars, driverVars
<1>2. current \in Slots /\ current # NoTask /\ pc \in [Slots -> Pcs]
  BY <1>1, Typed DEF HInv, ControlOK
<1>3. pc'[current] = "run" /\ \A x \in Slots : x # current => pc'[x] = pc[x]
  BY <1>1, <1>2
<1>4. CASE take_cancellation
  BY <1>1, <1>2, <1>3, <1>4, TakenFlags, ResumedS
<1>5. CASE UNCHANGED <<cancel_current, cancel_requested>>
  <2>1. cancel_current' <=> cancel_requested'[current]
    BY <1>2, <1>5 DEF SInv, LoadedOK
  <2>2. QED
    BY <1>1, <1>3, <1>5, <2>1, ResumedS
<1>6. QED
  BY <1>4, <1>5 DEF AwaitResume

(* drain_cancelled after its join.                                          *)
LEMMA DrainResumeS ==
  ASSUME HInv, SInv, DrainResume
  PROVE  SInv'
<1>1. /\ UNCHANGED <<kind, parent, pending, waiters, joining, park_epoch, parked_on_channel>>
      /\ UNCHANGED <<wake, io, timeout_child, ready, current_task, park_seq>>
      /\ UNCHANGED <<current, deadlines, mode>>
      /\ mode = "task" /\ pc' = [pc EXCEPT ![current] = "run"]
  BY DEF DrainResume, tableVars, driverVars
<1>2. current \in Slots /\ current # NoTask /\ pc \in [Slots -> Pcs]
  BY <1>1, Typed DEF HInv, ControlOK
<1>3. pc'[current] = "run" /\ \A x \in Slots : x # current => pc'[x] = pc[x]
  BY <1>1, <1>2
<1>4. CASE take_cancellation
  BY <1>1, <1>2, <1>3, <1>4, TakenFlags, ResumedS
<1>5. CASE UNCHANGED <<cancel_current, cancel_requested>>
  <2>1. cancel_current' <=> cancel_requested'[current]
    BY <1>2, <1>5 DEF SInv, LoadedOK
  <2>2. QED
    BY <1>1, <1>3, <1>5, <2>1, ResumedS
<1>6. QED
  BY <1>4, <1>5 DEF DrainResume

(* drain_cancelled parks: the child is cancelled where it is, and the       *)
(* caller, whose own flag is clear, joins it.                               *)
LEMMA DrainParkS ==
  ASSUME HInv, SInv, mode = "task", pc[current] = "joinTimed",
         NEW where \in Drains, NEW own \in BOOLEAN, own \/ ~cancel_current,
         DrainFlags(own), DrainPark(where),
         UNCHANGED <<kind, parent, pending, park_epoch, wake, timeout_child>>,
         UNCHANGED <<current_task, park_seq, deadlines>>
  PROVE  SInv'
<1> USE DEF SInv
<1>t. PICK t \in Slots : t = timeout_child[current] /\ t # current /\ current \in Slots
  BY DEF HInv, ControlOK, SlotOK, PlaceOK
<1>s. /\ SlotOK(current) /\ Idle(current) /\ wake[current] = "none" /\ ~Queued(current)
      /\ kind[current] # "free" /\ \A d \in deadlines : ~Arms(d, current)
  BY <1>t DEF QueueOK, SlotOK, FreeOK, PlaceOK, WakeOK, DeadlineOK
<1>e. \A u \in Slots : ~Waits(u, current)
  BY <1>s, <1>t, NoneOutside DEF Idle, QueueOK
<1>d. /\ kind[t] # "free" /\ current' = NoTask /\ mode' = "top"
      /\ pc' = [pc EXCEPT ![current] = where]
      /\ io' = NudgedIo(t) /\ parked_on_channel' = NudgedChannel(t) /\ ready' = NudgedReady(t)
      /\ waiters' = [NudgedWaiters(t) EXCEPT ![t] = Append(@, current)]
      /\ joining' = [NudgedJoining(t) EXCEPT ![current] = t]
  BY <1>t DEF DrainPark, Park
<1>c. /\ ~cancel_requested'[current] /\ cancel_requested'[t]
      /\ \A x \in Slots : x # current /\ x # t => (cancel_requested'[x] <=> cancel_requested[x])
  <2>1. own \/ ~cancel_requested[current]
    BY <1>t, NoneOutside DEF LoadedOK
  <2>2. QED
    BY <2>1, <1>t, <1>d DEF DrainFlags
<1>p. pc'[current] = where /\ \A x \in Slots : x # current => pc'[x] = pc[x]
  BY <1>d, <1>t, Typed
<1>n. /\ \A x \in Slots :
           /\ io'[x] = IF x = t /\ io[t] = "inflight" THEN "aborted" ELSE io[x]
           /\ NudgedJoining(t)[x] = IF x = t THEN NoTask ELSE joining[x]
           /\ parked_on_channel'[x] <=> x # t /\ parked_on_channel[x]
           /\ kind[x] # "free" \/ NudgedWaiters(t)[x] = waiters[x]
      /\ \A u \in Slots :
           /\ Once(NudgedWaiters(t)[u])
           /\ \A x \in Slots : Contains(NudgedWaiters(t)[u], x) <=> Waits(u, x) /\ x # t
      /\ Once(ready') /\ ~Contains(ready', NoTask)
      /\ \A x \in Slots : Contains(ready', x) <=> Contains(ready, x) \/ (x = t /\ Leaves(t))
  BY <1>t, <1>d, NudgeFacts
<1>y. /\ NudgedWaiters(t) \in [Slots -> Seq(Slots)]
      /\ NudgedJoining(t) \in [Slots -> Slots \cup {NoTask}]
  BY NudgeType DEF HInv, TypeOK
<1>j. /\ joining'[current] = t /\ joining'[t] = NoTask
      /\ \A x \in Slots : x # current /\ x # t => joining'[x] = joining[x]
  BY <1>d, <1>n, <1>y, <1>t
<1>v. /\ waiters'[t] = Append(NudgedWaiters(t)[t], current)
      /\ \A x \in Slots : x # t => waiters'[x] = NudgedWaiters(t)[x]
  BY <1>d, <1>y, <1>t
<1>w. ASSUME NEW u \in Slots
      PROVE  /\ Once(waiters'[u])
             /\ \A x \in Slots : Contains(waiters'[u], x) <=>
                  (Waits(u, x) /\ x # t) \/ (x = current /\ u = t)
  <2>1. NudgedWaiters(t)[u] \in Seq(Slots) /\ ~Contains(NudgedWaiters(t)[u], current)
    BY <1>y, <1>n, <1>e, <1>t
  <2>2. CASE u = t
    BY <2>1, <2>2, <1>v, <1>n, <1>t, AppendEntry
  <2>3. CASE u # t
    BY <2>1, <2>3, <1>v, <1>n
  <2>4. QED
    BY <2>2, <2>3
<1>1. QueueOK'
  <2>1. \A r, u \in Slots : Contains(waiters'[u], r) => joining'[r] = u
    BY <1>w, <1>j, <1>e DEF QueueOK
  <2>2. QED
    BY <2>1, <1>w, <1>n, <1>d DEF QueueOK, Queued, Waits
<1>2. ASSUME NEW x \in Slots PROVE SlotOK(x)'
  <2>1. CASE x = current
    <3>1. ~Contains(ready', x) /\ io'[x] = "none" /\ ~parked_on_channel'[x] /\ x # current'
      BY <2>1, <1>n, <1>s, <1>t, <1>d, NoneOutside DEF Idle, Queued
    <3>2. FreeOK(x)' /\ PlaceOK(x)' /\ RestOK(x)'
      BY <2>1, <3>1, <1>s, <1>j, <1>p, <1>t, NoneOutside
         DEF FreeOK, PlaceOK, RestOK, Queued, Drains, Joins
    <3>3. WakeOK(x)' /\ CancelOK(x)'
      BY <2>1, <3>1, <1>s, <1>c DEF WakeOK, CancelOK, Queued
    <3>4. QED
      BY <3>2, <3>3 DEF SlotOK
  <2>2. CASE x = t
    BY <2>2, <1>t, <1>d, <1>c, <1>p, <1>n, <1>j, NoneOutside, NudgedSlot
  <2>3. CASE x # current /\ x # t
    <3>1. Same(x)
      BY <2>3, <1>n, <1>j, <1>c, <1>p, <1>d, NoneOutside DEF Same, Queued
    <3>2. Joined(x) => Joined(x)'
      BY <2>3, <1>j, <1>w DEF Joined, Waits
    <3>3. waiters'[x] = waiters[x] \/ kind[x] # "free"
      BY <2>3, <1>v, <1>n
    <3>4. QED
      BY <3>1, <3>2, <3>3, SameSlot
  <2>4. QED
    BY <2>1, <2>2, <2>3
<1>3. LoadedOK'
  BY <1>d DEF LoadedOK
<1>4. DeadlineOK'
  BY <1>s, <1>p, <1>d, <1>t, NoneOutside, SameDeadlines DEF DeadlineOK
<1>5. PendingCountsChildren'
  BY <1>s, <1>p, SameCounts DEF Idle
<1>6. QED
  BY <1>1, <1>2, <1>3, <1>4, <1>5

(* drain_cancelled of a child that is gone: the caller goes on.             *)
LEMMA DrainFinishedS ==
  ASSUME HInv, SInv, mode = "task", pc[current] = "joinTimed",
         NEW raise, NEW own \in BOOLEAN,
         own => ~cancel_current', ~own => ~cancel_current /\ ~cancel_current',
         DrainFlags(own), DrainFinished(raise),
         UNCHANGED <<kind, parent, pending, park_epoch, wake, timeout_child>>,
         UNCHANGED <<current_task, park_seq, deadlines>>
  PROVE  SInv'
<1>t. current \in Slots /\ current # NoTask /\ pc \in [Slots -> Pcs]
  BY Typed DEF HInv, ControlOK
<1>1. /\ kind[timeout_child[current]] = "free" /\ pc' = [pc EXCEPT ![current] = "run"]
      /\ UNCHANGED <<waiters, joining, parked_on_channel, io, ready, current, mode>>
  BY DEF DrainFinished
<1>2. pc'[current] = "run" /\ \A x \in Slots : x # current => pc'[x] = pc[x]
  BY <1>t, <1>1
<1>3. \A x \in Slots : x # current => (cancel_requested'[x] <=> cancel_requested[x])
  BY <1>1 DEF DrainFlags
<1>4. cancel_current <=> cancel_requested[current]
  BY <1>t DEF SInv, LoadedOK
<1>5. cancel_current' <=> cancel_requested'[current]
  BY <1>t, <1>4 DEF DrainFlags
<1>6. QED
  BY <1>1, <1>2, <1>3, <1>5, ResumedS

(* await_timeout after its timed join.                                      *)
LEMMA TimeoutResumeS ==
  ASSUME HInv, SInv, TimeoutResume
  PROVE  SInv'
<1>1. /\ UNCHANGED <<kind, parent, pending, park_epoch, wake, timeout_child>>
      /\ UNCHANGED <<current_task, park_seq, deadlines>>
      /\ mode = "task" /\ pc[current] = "joinTimed"
  BY DEF TimeoutResume, tableVars
<1>2. CASE cancel_current /\ cancel_current' = FALSE /\ DrainFlags(TRUE)
           /\ (DrainFinished(TRUE) \/ DrainPark("drainCancel"))
  BY <1>1, <1>2, DrainFinishedS, DrainParkS DEF Drains
<1>3. CASE ~cancel_current /\ DrainFlags(FALSE) /\ UNCHANGED cancel_current
           /\ (DrainFinished(FALSE) \/ DrainPark("drainTimeout"))
  BY <1>1, <1>3, DrainFinishedS, DrainParkS DEF Drains
<1>4. CASE /\ pc' = [pc EXCEPT ![current] = "run"]
           /\ UNCHANGED <<cancel_current, cancel_requested, waiters, joining, io,
                          parked_on_channel, ready, unwinding, current, mode>>
  <2>1. current \in Slots /\ current # NoTask /\ pc \in [Slots -> Pcs]
    BY <1>1, Typed DEF HInv, ControlOK
  <2>2. pc'[current] = "run" /\ \A x \in Slots : x # current => pc'[x] = pc[x]
    BY <1>4, <2>1
  <2>3. cancel_current' <=> cancel_requested'[current]
    BY <1>4, <2>1 DEF SInv, LoadedOK
  <2>4. QED
    BY <1>1, <1>4, <2>2, <2>3, ResumedS
<1>5. QED
  BY <1>2, <1>3, <1>4 DEF TimeoutResume

-----------------------------------------------------------------------------
(* Completion.                                                              *)

(* The slot of the task that ends is given up; the others keep theirs.      *)
LEMMA FinishFacts ==
  ASSUME HInv, SInv, Finish
  PROVE  /\ current \in Slots /\ SlotOK(current) /\ Idle(current) /\ ~Queued(current)
         /\ pc[current] = "run" /\ wake[current] = "none" /\ ~cancel_requested[current]
         /\ kind[current] # "free" /\ \A u \in Slots : ~Waits(u, current)
         /\ UNCHANGED <<cancel_requested, parked_on_channel, io, pc, park_seq, deadlines>>
         /\ current' = NoTask
         /\ kind'[current] = "free" /\ waiters'[current] = <<>> /\ park_epoch'[current] = 0
         /\ \A x \in Slots : x # current =>
              /\ kind'[x] = kind[x] /\ parent'[x] = parent[x] /\ waiters'[x] = waiters[x]
              /\ park_epoch'[x] = park_epoch[x] /\ timeout_child'[x] = timeout_child[x]
<1> USE DEF SInv
<1>1. FreeCurrent /\ Running
  BY DEF Finish, complete_detached, complete_child, complete_main
<1>2. current \in Slots /\ mode = "task" /\ pc[current] = "run" /\ ~cancel_current
  BY <1>1 DEF Running, HInv, ControlOK
<1>3. SlotOK(current) /\ ~Queued(current) /\ current # NoTask
  BY <1>2, NoneOutside DEF QueueOK
<1>4. /\ Idle(current) /\ wake[current] = "none"
      /\ ~cancel_requested[current] /\ kind[current] # "free"
  BY <1>2, <1>3 DEF LoadedOK, SlotOK, FreeOK, PlaceOK, WakeOK
<1>5. \A u \in Slots : ~Waits(u, current)
  BY <1>2, <1>4, NoneOutside DEF QueueOK, Idle
<1>6. UNCHANGED <<cancel_requested, parked_on_channel, io, pc, park_seq, deadlines>>
  BY DEF Finish
<1>7. /\ current' = NoTask
      /\ kind'[current] = "free" /\ waiters'[current] = <<>> /\ park_epoch'[current] = 0
      /\ \A x \in Slots : x # current =>
           /\ kind'[x] = kind[x] /\ parent'[x] = parent[x] /\ waiters'[x] = waiters[x]
           /\ park_epoch'[x] = park_epoch[x] /\ timeout_child'[x] = timeout_child[x]
  BY <1>1, <1>2, Typed DEF FreeCurrent
<1>8. QED
  BY <1>2, <1>3, <1>4, <1>5, <1>6, <1>7

(* The slot that was given up is as good as new.                            *)
LEMMA FreedSlot ==
  ASSUME HInv, SInv, Finish, joining'[current] = NoTask, pending'[current] = 0,
         wake'[current] = "none", ~Contains(ready', current)
  PROVE  \A x \in Slots : x = current => SlotOK(x)'
<1>1. ASSUME NEW x \in Slots, x = current PROVE SlotOK(x)'
  <2>1. Idle(x)' /\ kind'[x] = "free" /\ pc'[x] = "run" /\ x # current'
    BY <1>1, FinishFacts, NoneOutside DEF Idle
  <2>2. FreeOK(x)' /\ PlaceOK(x)' /\ RestOK(x)'
    BY <1>1, <2>1, FinishFacts DEF FreeOK, PlaceOK, RestOK, Idle, Queued
  <2>3. WakeOK(x)' /\ CancelOK(x)'
    BY <1>1, <2>1, FinishFacts DEF WakeOK, CancelOK, Idle
  <2>4. QED
    BY <2>2, <2>3 DEF SlotOK
<1>2. QED
  BY <1>1, FinishFacts

(* What the three completions have in common: no deadline arms the slot     *)
(* that is free now, and no task is loaded.                                 *)
LEMMA FinishRest ==
  ASSUME HInv, SInv, Finish,
         \A x \in Slots : wake'[x] = wake[x] \/ wake'[x] # "TimedOut"
  PROVE  LoadedOK' /\ DeadlineOK'
<1> USE DEF SInv
<1>1. mode' # "task"
  BY DEF Finish, complete_detached, complete_child, complete_main
<1>2. LoadedOK'
  BY <1>1, FinishFacts DEF LoadedOK
<1>3. \A d \in deadlines, x \in Slots : Arms(d, x)' => x # current /\ Arms(d, x)
  <2>1. \A d \in deadlines : d.epoch > 0 /\ d.epoch \in Nat
    BY Numbers DEF DeadlineOK
  <2>2. ASSUME NEW d \in deadlines, NEW x \in Slots, Arms(d, x)' PROVE x # current /\ Arms(d, x)
    <3>1. d.joiner = x /\ d.epoch = park_epoch'[x]
      BY <2>2 DEF Arms
    <3>2. x # current
      BY <2>1, <3>1, FinishFacts
    <3>3. QED
      BY <3>1, <3>2, FinishFacts DEF Arms
  <2>3. QED
    BY <2>2
<1>4. \A x \in Slots : park_epoch'[x] <= park_seq'
  BY FinishFacts, Numbers DEF DeadlineOK
<1>5. DeadlineOK'
  BY <1>3, <1>4, FinishFacts, NoneOutside DEF DeadlineOK
<1>6. QED
  BY <1>2, <1>5

(* The end of the main task: nobody is woken.                               *)
LEMMA MainS ==
  ASSUME HInv, SInv, Finish, complete_main
  PROVE  SInv'
<1> USE DEF SInv
<1>f. UNCHANGED <<pending, joining, wake, ready>> /\ kind[current] = "main"
  BY DEF complete_main
<1>1. QueueOK'
  <2>1. \A u \in Slots : waiters'[u] = <<>> \/ waiters'[u] = waiters[u]
    BY FinishFacts
  <2>2. \A u \in Slots :
          Once(waiters'[u]) /\ \A x \in Slots : Contains(waiters'[u], x) => Waits(u, x)
    BY <2>1 DEF QueueOK, Once, Waits, Contains
  <2>3. ~Contains(ready', current')
    BY <1>f, FinishFacts, QueuedIsSlot DEF Queued
  <2>4. QED
    BY <2>2, <2>3, <1>f DEF QueueOK, Queued, Waits
<1>2. ASSUME NEW x \in Slots PROVE SlotOK(x)'
  <2>1. CASE x = current
    <3>1. joining'[current] = NoTask /\ pending'[current] = 0 /\ wake'[current] = "none"
            /\ ~Contains(ready', current)
      BY <1>f, FinishFacts DEF Idle, Queued
    <3>2. QED
      BY <2>1, <3>1, FreedSlot
  <2>2. CASE x # current
    <3>1. Same(x) /\ waiters'[x] = waiters[x]
      BY <2>2, <1>f, FinishFacts, NoneOutside DEF Same, Queued
    <3>2. Joined(x) => Joined(x)'
      BY <2>2, <1>f, FinishFacts DEF Joined, Waits
    <3>3. QED
      BY <3>1, <3>2, SameSlot
  <2>3. QED
    BY <2>1, <2>2
<1>3. LoadedOK' /\ DeadlineOK'
  BY <1>f, FinishRest
<1>4. PendingCountsChildren'
  <2>1. ASSUME NEW p \in Slots PROVE Children(p)' = Children(p)
    BY <1>f, FinishFacts DEF Children
  <2>2. \A p \in Slots : pending[p] > 0 => p # current
    BY FinishFacts DEF Idle
  <2>3. QED
    BY <2>1, <2>2, <1>f, FinishFacts DEF PendingCountsChildren
<1>5. QED
  BY <1>1, <1>2, <1>3, <1>4

(* The end of a detached task: exactly its joiners are woken, each once.    *)
LEMMA DetachedS ==
  ASSUME HInv, SInv, Finish, NEW out \in {"Done", "Failed", "Cancelled"}, complete_detached(out)
  PROVE  SInv'
<1> USE DEF SInv
<1>f. /\ UNCHANGED pending /\ kind[current] = "detached"
      /\ ready' = ready \o waiters[current]
      /\ \A x \in Slots : Waits(current, x) => joining'[x] = NoTask /\ wake'[x] = JoinWake(out)
      /\ \A x \in Slots : ~Waits(current, x) => joining'[x] = joining[x] /\ wake'[x] = wake[x]
  BY DEF complete_detached, Waits
<1>o. JoinWake(out) \in JoinWakes
  BY DEF JoinWake, JoinWakes
<1>w. \A x \in Slots : Waits(current, x) =>
        /\ joining[x] = current /\ x # current /\ ~Queued(x) /\ wake[x] = "none"
        /\ kind[x] # "free" /\ pc[x] \in Joins \cup Drains
  BY FinishFacts, NoneOutside DEF QueueOK, SlotOK, FreeOK, PlaceOK, WakeOK, Idle
<1>r. /\ Once(ready') /\ ~Contains(ready', NoTask)
      /\ \A x \in Slots : Contains(ready', x) <=> Contains(ready, x) \/ Waits(current, x)
  <2>1. /\ ready \in Seq(Slots) /\ waiters[current] \in Seq(Slots)
        /\ Once(ready) /\ Once(waiters[current])
    BY Typed, FinishFacts DEF QueueOK
  <2>2. \A x \in Slots : ~(Contains(ready, x) /\ Contains(waiters[current], x))
    BY <1>w DEF Waits, Queued
  <2>3. /\ Once(ready')
        /\ \A x \in Slots : Contains(ready', x) <=> Contains(ready, x) \/ Waits(current, x)
    BY <2>1, <2>2, <1>f, ConcatEntries DEF Waits
  <2>4. ready' \in Seq(Slots)
    BY <2>1, <1>f
  <2>5. QED
    BY <2>3, <2>4, NoneOutside DEF Contains
<1>1. QueueOK'
  <2>1. \A u \in Slots : waiters'[u] = <<>> \/ (u # current /\ waiters'[u] = waiters[u])
    BY FinishFacts
  <2>2. \A u \in Slots : Once(waiters'[u])
    BY <2>1 DEF QueueOK, Once
  <2>3. ASSUME NEW u \in Slots, NEW x \in Slots, Contains(waiters'[u], x) PROVE joining'[x] = u
    <3>1. u # current /\ Waits(u, x)
      BY <2>1, <2>3 DEF Waits, Contains
    <3>2. joining[x] = u /\ ~Waits(current, x)
      BY <3>1, FinishFacts DEF QueueOK
    <3>3. QED
      BY <3>2, <1>f
  <2>4. QED
    BY <2>2, <2>3, <1>r, FinishFacts DEF QueueOK, Queued, Waits
<1>2. ASSUME NEW x \in Slots PROVE SlotOK(x)'
  <2>1. CASE x = current
    <3>1. joining'[current] = NoTask /\ pending'[current] = 0 /\ wake'[current] = "none"
            /\ ~Contains(ready', current)
      BY <1>f, <1>r, FinishFacts DEF Idle, Queued
    <3>2. QED
      BY <2>1, <3>1, FreedSlot
  <2>2. CASE Waits(current, x)
    <3>1. /\ x # current /\ x # current' /\ kind[x] # "free" /\ SlotOK(x)
          /\ pc[x] \in Joins \cup Drains /\ Contains(ready', x)
      BY <2>2, <1>w, <1>r, FinishFacts, NoneOutside
    <3>2. io[x] = "none" /\ ~parked_on_channel[x] /\ pending[x] = 0
      <4>1. ~(pending[x] > 0)
        BY <3>1 DEF PendingCountsChildren, Joins, Drains
      <4>2. pending[x] = 0
        BY <4>1, Numbers
      <4>3. QED
        BY <3>1, <4>2 DEF SlotOK, PlaceOK, Joins, Drains
    <3>3. Idle(x)'
      BY <2>2, <3>2, <1>f, FinishFacts DEF Idle
    <3>4. FreeOK(x)' /\ PlaceOK(x)' /\ RestOK(x)'
      BY <3>1, <3>3, FinishFacts DEF SlotOK, FreeOK, PlaceOK, RestOK, Idle, Queued
    <3>5. WakeOK(x)' /\ CancelOK(x)'
      BY <2>2, <3>1, <3>3, <1>f, <1>o, FinishFacts
         DEF WakeOK, CancelOK, WakeFits, Idle, Queued, Joins, JoinWakes
    <3>6. QED
      BY <3>4, <3>5 DEF SlotOK
  <2>3. CASE x # current /\ ~Waits(current, x)
    <3>1. Same(x) /\ waiters'[x] = waiters[x]
      BY <2>3, <1>f, <1>r, FinishFacts, NoneOutside DEF Same, Queued
    <3>2. Joined(x) => Joined(x)'
      BY <2>3, <1>f, FinishFacts DEF Joined, Waits
    <3>3. QED
      BY <3>1, <3>2, SameSlot
  <2>4. QED
    BY <2>1, <2>2, <2>3
<1>3. LoadedOK' /\ DeadlineOK'
  BY <1>f, <1>o, FinishRest DEF JoinWakes
<1>4. PendingCountsChildren'
  <2>1. ASSUME NEW p \in Slots PROVE Children(p)' = Children(p)
    BY <1>f, FinishFacts DEF Children
  <2>2. \A p \in Slots : pending[p] > 0 => p # current
    BY FinishFacts DEF Idle
  <2>3. QED
    BY <2>1, <2>2, <1>f, FinishFacts DEF PendingCountsChildren
<1>5. QED
  BY <1>1, <1>2, <1>3, <1>4

(* The end of a gather child: its parent's batch has one child less, and    *)
(* the last one wakes the parent.                                           *)
LEMMA ChildS ==
  ASSUME HInv, SInv, Finish, NEW out, complete_child(out)
  PROVE  SInv'
<1> USE DEF SInv
<1>k. kind[current] = "child" /\ UNCHANGED joining
  BY DEF complete_child
<1>p. PICK p \in Slots : p = parent[current]
  BY <1>k, FinishFacts DEF HInv, ControlOK
<1>c. current \in Children(p)
  BY <1>k, <1>p, FinishFacts DEF Children
<1>n. /\ pending[p] = Cardinality(Children(p)) /\ pending[p] \in Nat
      /\ IsFiniteSet(Children(p)) /\ Children(p) # {}
  BY <1>c, Numbers DEF PendingCountsChildren
<1>m. pending[p] > 0
  BY <1>n, FS_EmptySet
<1>g. /\ pc[p] = "gather" /\ p # current /\ SlotOK(p) /\ kind[p] # "free"
      /\ ~Queued(p) /\ wake[p] = "none"
  <2>1. pc[p] = "gather" /\ kind[p] # "free" /\ SlotOK(p)
    BY <1>m DEF PendingCountsChildren
  <2>2. ~Queued(p) /\ p # current
    BY <2>1, <1>m, FinishFacts DEF SlotOK, PlaceOK, Idle
  <2>3. QED
    BY <2>1, <2>2 DEF SlotOK, WakeOK
<1>f. pending'[p] = pending[p] - 1 /\ \A x \in Slots : x # p => pending'[x] = pending[x]
  <2>1. pending' = [pending EXCEPT ![p] = @ - 1]
    BY <1>p DEF complete_child
  <2>2. pending \in [Slots -> Int]
    BY Typed
  <2>3. QED
    BY <2>1, <2>2
<1>r. /\ \A x \in Slots : x # p => wake'[x] = wake[x]
      /\ pending[p] = 1 => wake'[p] \in {"Gather", "GatherErr"}
      /\ pending[p] # 1 => wake'[p] = wake[p]
  <2>1. wake \in [Slots -> Wakes]
    BY Typed
  <2>2. CASE pending[p] = 1
    <3>1. PICK v \in {"Gather", "GatherErr"} : wake' = [wake EXCEPT ![p] = v]
      BY <2>2, <1>p DEF complete_child
    <3>2. QED
      BY <2>1, <2>2, <3>1
  <2>3. CASE pending[p] # 1
    BY <2>3, <1>p DEF complete_child
  <2>4. QED
    BY <2>2, <2>3
<1>q. /\ Once(ready') /\ ~Contains(ready', current')
      /\ \A x \in Slots : Contains(ready', x) <=> Contains(ready, x) \/ (x = p /\ pending[p] = 1)
  <2>1. CASE pending[p] = 1
    <3>1. ready' = Append(ready, p) /\ current' = NoTask /\ p # current'
      BY <2>1, <1>p, FinishFacts, NoneOutside DEF complete_child
    <3>2. QED
      BY <2>1, <3>1, <1>g, Requeued
  <2>2. CASE pending[p] # 1
    <3>1. ready' = ready /\ current' = NoTask
      BY <2>2, <1>p, FinishFacts DEF complete_child
    <3>2. QED
      BY <2>2, <3>1, QueuedIsSlot DEF QueueOK, Queued
  <2>3. QED
    BY <2>1, <2>2
<1>1. QueueOK'
  <2>1. \A u \in Slots : waiters'[u] = <<>> \/ waiters'[u] = waiters[u]
    BY FinishFacts
  <2>2. \A u \in Slots :
          Once(waiters'[u]) /\ \A x \in Slots : Contains(waiters'[u], x) => Waits(u, x)
    BY <2>1 DEF QueueOK, Once, Waits, Contains
  <2>3. QED
    BY <2>2, <1>q, <1>k DEF QueueOK, Queued, Waits
<1>2. ASSUME NEW x \in Slots PROVE SlotOK(x)'
  <2>1. CASE x = current
    <3>1. joining'[current] = NoTask /\ pending'[current] = 0 /\ wake'[current] = "none"
            /\ ~Contains(ready', current)
      BY <1>k, <1>g, <1>f, <1>r, <1>q, FinishFacts DEF Idle, Queued
    <3>2. QED
      BY <2>1, <3>1, FreedSlot
  <2>2. CASE x = p
    <3>1. /\ kind'[x] # "free" /\ pc'[x] = "gather" /\ x # current'
          /\ io'[x] = "none" /\ joining'[x] = NoTask /\ ~parked_on_channel'[x]
      BY <2>2, <1>g, <1>k, FinishFacts, NoneOutside DEF SlotOK, PlaceOK, Joins, Drains
    <3>2. CASE pending[p] = 1
      <4>1. Idle(x)' /\ Contains(ready', x) /\ wake'[x] \in {"Gather", "GatherErr"}
        BY <2>2, <3>1, <3>2, <1>f, <1>q, <1>r DEF Idle
      <4>2. FreeOK(x)' /\ PlaceOK(x)' /\ RestOK(x)'
        BY <3>1, <4>1 DEF FreeOK, PlaceOK, RestOK, Queued
      <4>3. WakeOK(x)' /\ CancelOK(x)'
        BY <3>1, <4>1 DEF WakeOK, WakeFits, CancelOK, Queued
      <4>4. QED
        BY <4>2, <4>3 DEF SlotOK
    <3>3. CASE pending[p] # 1
      <4>1. pending'[x] > 0 /\ ~Contains(ready', x) /\ wake'[x] = "none"
        BY <2>2, <3>3, <1>f, <1>q, <1>r, <1>n, <1>m, <1>g DEF Queued
      <4>2. FreeOK(x)' /\ PlaceOK(x)' /\ RestOK(x)'
        BY <3>1, <4>1 DEF FreeOK, PlaceOK, RestOK, Queued, Joins, Drains
      <4>3. WakeOK(x)' /\ CancelOK(x)'
        BY <3>1, <4>1 DEF WakeOK, CancelOK, Queued
      <4>4. QED
        BY <4>2, <4>3 DEF SlotOK
    <3>4. QED
      BY <3>2, <3>3
  <2>3. CASE x # current /\ x # p
    <3>1. Same(x) /\ waiters'[x] = waiters[x]
      BY <2>3, <1>k, <1>f, <1>r, <1>q, FinishFacts, NoneOutside DEF Same, Queued
    <3>2. Joined(x) => Joined(x)'
      BY <2>3, <1>k, FinishFacts DEF Joined, Waits
    <3>3. QED
      BY <3>1, <3>2, SameSlot
  <2>4. QED
    BY <2>1, <2>2, <2>3
<1>3. LoadedOK' /\ DeadlineOK'
  <2>1. \A x \in Slots : wake'[x] = wake[x] \/ wake'[x] # "TimedOut"
    BY <1>r
  <2>2. QED
    BY <2>1, FinishRest
<1>4. PendingCountsChildren'
  <2>1. ASSUME NEW u \in Slots, u # p PROVE Children(u)' = Children(u)
    BY <2>1, <1>p, FinishFacts DEF Children
  <2>2. Children(p)' = Children(p) \ {current}
    BY <1>k, <1>p, FinishFacts DEF Children
  <2>3. Cardinality(Children(p) \ {current}) = pending[p] - 1
    BY <1>n, <1>c, FS_RemoveElement
  <2>4. ASSUME NEW u \in Slots
        PROVE  /\ pending'[u] = Cardinality(Children(u)')
               /\ pending'[u] > 0 => kind'[u] # "free" /\ pc'[u] = "gather"
    <3>1. CASE u = p
      BY <3>1, <2>2, <2>3, <1>f, <1>g, FinishFacts
    <3>2. CASE u # p
      <4>1. pending'[u] = pending[u] /\ (pending[u] > 0 => u # current)
        BY <3>2, <1>f, FinishFacts DEF Idle
      <4>2. QED
        BY <3>2, <4>1, <2>1, FinishFacts DEF PendingCountsChildren
    <3>3. QED
      BY <3>1, <3>2
  <2>5. QED
    BY <2>4 DEF PendingCountsChildren
<1>5. QED
  BY <1>1, <1>2, <1>3, <1>4

(* The end of a task keeps the invariant.                                   *)
LEMMA FinishS ==
  ASSUME HInv, SInv, Finish
  PROVE  SInv'
<1>1. PICK out \in Outcome : complete_detached(out) \/ complete_child(out) \/ complete_main
  BY DEF Finish
<1>2. out \in {"Done", "Failed", "Cancelled"}
  BY DEF Outcome
<1>3. QED
  BY <1>1, <1>2, DetachedS, ChildS, MainS

-----------------------------------------------------------------------------
(* The wake theorems.                                                       *)

(* Every step of the specification preserves the wake invariant.            *)
LEMMA SNext == HInv /\ SInv /\ [Next]_vars => SInv'
<1> SUFFICES ASSUME HInv, SInv, [Next]_vars PROVE SInv'
  OBVIOUS
<1>1. CASE UNCHANGED vars
  BY <1>1, StutterS
<1>2. CASE Pick \/ ResumeCurrent \/ SignalCancel \/ Rotate \/ GlobalDeadlock
  BY <1>2, PickS, ResumeCurrentS, SignalCancelS, RotateS, GlobalDeadlockS
<1>3. CASE (\E s \in Slots : DeliverIo(s)) \/ \E d \in deadlines : DeliverDeadline(d)
  BY <1>3, DeliverIoS, DeliverDeadlineS
<1>4. CASE Checkpoint \/ Yield \/ AwaitIo \/ GatherNone \/ Spawn \/ Timeout \/ ChannelPark
  BY <1>4, CheckpointS, YieldS, AwaitIoS, GatherNoneS, SpawnS, TimeoutS, ChannelParkS
<1>5. CASE \E n \in 1..MaxGather : Gather(n)
  BY <1>5, GatherS
<1>6. CASE \E h \in Handles : Join(h) \/ Cancel(h)
  BY <1>6, JoinS, CancelS
<1>7. CASE \E s \in Slots : ChannelWake(s)
  BY <1>7, ChannelWakeS
<1>8. CASE AwaitResume \/ TimeoutResume \/ DrainResume \/ Finish
  BY <1>8, AwaitResumeS, TimeoutResumeS, DrainResumeS, FinishS
<1>9. CASE Ended
  BY <1>1, <1>9 DEF Ended
<1>10. QED
  BY <1>1, <1>2, <1>3, <1>4, <1>5, <1>6, <1>7, <1>8, <1>9 DEF Next

(* The wake invariant holds in every reachable state.                       *)
LEMMA SInvariant == Spec => [](HInv /\ SInv)
<1>1. Init => HInv /\ SInv
  BY HInit, SInit
<1>2. HInv /\ SInv /\ [Next]_vars => HInv' /\ SInv'
  BY HNext, SNext
<1>3. QED
  BY <1>1, <1>2, PTL DEF Spec

(* No lost wakeup and no double resume: whoever waits is registered with    *)
(* what will wake it, whoever is runnable is queued once and referred to by *)
(* nothing else, waiter lists name parked joiners, and a gather counts the  *)
(* children that still run.                                                 *)
THEOREM WakersCorrect == Spec => []WakersAgree
<1>1. HInv /\ SInv => WakersAgree
  <2> SUFFICES ASSUME HInv, SInv PROVE WakersAgree
    OBVIOUS
  <2> USE DEF SInv
  <2>1. ReadyOnce
    <3>1. ASSUME NEW s \in Slots, Runnable(s)
          PROVE  /\ kind[s] # "free" /\ io[s] = "none" /\ joining[s] = NoTask
                 /\ ~parked_on_channel[s] /\ pending[s] = 0
                 /\ \A t \in Slots : ~Contains(waiters[t], s)
      <4>1. SlotOK(s) /\ (s = current \/ Queued(s))
        BY <3>1 DEF Runnable, Queued
      <4>2. Idle(s) /\ kind[s] # "free"
        BY <4>1 DEF SlotOK, FreeOK, PlaceOK
      <4>3. \A t \in Slots : ~Contains(waiters[t], s)
        BY <4>2, NoneOutside DEF QueueOK, Waits, Idle
      <4>4. QED
        BY <4>2, <4>3 DEF Idle
    <3>2. QED
      BY <3>1 DEF ReadyOnce, QueueOK, Once, Queued
  <2>2. WaitersAgree
    BY DEF WaitersAgree, QueueOK, Once, Waits
  <2>3. ParkedHasWaker
    <3>1. ASSUME NEW s \in Slots, Parked(s)
          PROVE  /\ pc[s] \in Pcs /\ pc[s] # "run"
                 /\ pc[s] = "io" => io[s] # "none"
                 /\ pc[s] = "gather" => Children(s) # {}
                 /\ pc[s] \in {"join", "joinTimed"} =>
                      /\ joining[s] # NoTask /\ kind[joining[s]] # "free"
                      /\ Contains(waiters[joining[s]], s)
                 /\ pc[s] = "channel" => parked_on_channel[s]
                 /\ pc[s] \in Drains => joining[s] # NoTask
      <4>1. SlotOK(s) /\ kind[s] # "free" /\ s # current /\ ~Queued(s)
        BY <3>1 DEF Parked, Runnable, Queued
      <4>2. pending[s] > 0 => Children(s) # {}
        BY FS_EmptySet DEF PendingCountsChildren
      <4>3. pc[s] \in Pcs
        BY Typed
      <4>4. QED
        BY <4>1, <4>2, <4>3, NoneOutside DEF SlotOK, RestOK, Joined, Joins, Waits
    <3>2. QED
      BY <3>1 DEF ParkedHasWaker, Pcs, Drains
  <2>4. QED
    BY <2>1, <2>2, <2>3 DEF WakersAgree
<1>2. QED
  BY <1>1, SInvariant, PTL

(* A task that resumes from a park finds the wake of that park or a pending *)
(* cancel: await_io and its siblings never resume without a result.         *)
THEOREM ResultsCorrect == Spec => []ResumedWithResult
<1>1. HInv /\ SInv => ResumedWithResult
  <2> SUFFICES ASSUME HInv, SInv PROVE ResumedWithResult
    OBVIOUS
  <2>1. \A s \in Slots : wake[s] # "none" => Contains(ready, s) /\ WakeFits(wake[s], pc[s])
    BY DEF SInv, SlotOK, WakeOK, Queued
  <2>2. ASSUME NEW i \in 1..Len(ready), pc[ready[i]] # "run"
        PROVE  wake[ready[i]] # "none" \/ cancel_requested[ready[i]]
    <3>1. ready[i] \in Slots
      BY Typed
    <3>2. Contains(ready, ready[i])
      BY DEF Contains
    <3>3. QED
      BY <2>2, <3>1, <3>2 DEF SInv, SlotOK, WakeOK, Queued
  <2>3. QED
    BY <2>1, <2>2 DEF ResumedWithResult, SInv, LoadedOK
<1>2. QED
  BY <1>1, SInvariant, PTL

(* A requested cancel is on its way wherever its task is parked, the fatal  *)
(* signal's cancel of the main task included.                               *)
THEOREM CancelsCorrect == Spec => []CancelReachesTask
<1>1. HInv /\ SInv => CancelReachesTask
  BY DEF CancelReachesTask, SInv, SlotOK, CancelOK, Runnable, Queued
<1>2. QED
  BY <1>1, SInvariant, PTL

(* A deadline left over from an earlier park never times out a later one:   *)
(* park epochs are fresh, so a deadline arms only the park that armed it.   *)
THEOREM DeadlinesCorrect == Spec => []TimedOutByOwnDeadline
<1>1. HInv /\ SInv => TimedOutByOwnDeadline
  BY DEF TimedOutByOwnDeadline, SInv, DeadlineOK, Arms
<1>2. QED
  BY <1>1, SInvariant, PTL
=============================================================================
