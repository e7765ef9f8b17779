------------------------------- MODULE Claims -------------------------------
(***************************************************************************)
(* Per-object claims and connection lanes: the mailbox discipline behind   *)
(* hosted services and extensions (src/runtime/claims.rs), with the calls  *)
(* that drive it (src/runtime/worker_service.rs).  A top-level call takes  *)
(* its object and a lane of the peer jointly, or parks wanting both; a     *)
(* call nested in an open conversation on the peer rides that lane and     *)
(* takes the object only; a call that would close a waits-for cycle raises *)
(* instead of parking.                                                     *)
(*                                                                         *)
(* Lanes are counting tokens, so free_lanes is a number.  A call's body    *)
(* runs on the caller's own task: it makes any further calls before it     *)
(* ends.  An idle object's entry and no entry are the same state, so the   *)
(* collection of idle entries (gc_object) changes nothing here.  A queue   *)
(* entry never outlives the resume of its task (a grant pops it, a cancel  *)
(* retracts it), so park epochs count modulo EpochWrap, and behaviours     *)
(* here are unbounded.                                                     *)
(***************************************************************************)
EXTENDS Integers, FiniteSets, SequencesExt

CONSTANTS
  Tasks, Objects, Peers,
  PeerOf,        \* the peer that hosts each object
  Lanes,         \* lanes of every peer
  MaxObjectDepth,\* MAX_OBJECT_DEPTH
  NoTask, NoObj, NoPeer,
  Cancellable,   \* the tasks that may be cancelled
  Stoppers,      \* the tasks that may stop a service
  EpochWrap,     \* park epochs are counted modulo this
  MaxCalls       \* bound on the calls a task is inside of at once

ASSUME ClaimsAssumption ==
  /\ PeerOf \in [Objects -> Peers]
  /\ Lanes \in Nat \ {0} /\ MaxObjectDepth \in Nat \ {0}
  /\ EpochWrap \in Nat \ {0, 1} /\ MaxCalls \in Nat
  /\ NoTask \notin Tasks /\ NoObj \notin Objects /\ NoPeer \notin Peers
  /\ Cancellable \subseteq Tasks /\ Stoppers \subseteq Tasks

VARIABLES
  owner, depth, owner_lane, waiters, reserved,     \* ObjectClaim, per object
  free_lanes, ready_heads, drain_waiters, stopped, \* PeerClaims, per peer
  parked_on,         \* the waits-for index: [task, obj, epoch]
  parked_on_channel, cancel_requested, park_epoch, woken,  \* struct Task
  op, want, stopping,  \* what the task is parked in: its object or its peer
  calls              \* the objects whose calls the task is inside, innermost last

objVars == <<owner, depth, owner_lane, waiters, reserved>>
peerVars == <<free_lanes, ready_heads, drain_waiters, stopped, parked_on>>
taskVars == <<parked_on_channel, cancel_requested, park_epoch, woken>>
coroVars == <<op, want, stopping, calls>>
vars == <<objVars, peerVars, taskVars, coroVars>>

Init ==
  /\ owner = [o \in Objects |-> NoTask]
  /\ depth = [o \in Objects |-> 0]
  /\ owner_lane = [o \in Objects |-> FALSE]
  /\ waiters = [o \in Objects |-> <<>>]
  /\ reserved = [o \in Objects |-> FALSE]
  /\ free_lanes = [p \in Peers |-> Lanes]
  /\ ready_heads = [p \in Peers |-> <<>>]
  /\ drain_waiters = [p \in Peers |-> {}]
  /\ stopped = [p \in Peers |-> FALSE]
  /\ parked_on = {}
  /\ parked_on_channel = [t \in Tasks |-> FALSE]
  /\ cancel_requested = [t \in Tasks |-> FALSE]
  /\ park_epoch = [t \in Tasks |-> 0]
  /\ woken = [t \in Tasks |-> FALSE]
  /\ op = [t \in Tasks |-> "none"]
  /\ want = [t \in Tasks |-> NoObj]
  /\ stopping = [t \in Tasks |-> NoPeer]
  /\ calls = [t \in Tasks |-> <<>>]

-----------------------------------------------------------------------------
(* Waiters and the waits-for walk.                                          *)

\* channel_waiter_live: still parked at the epoch the entry captured.
Live(t, epoch) == parked_on_channel[t] /\ park_epoch[t] = epoch /\ ~cancel_requested[t]
LiveIn(q) == {i \in 1..Len(q) : Live(q[i].task, q[i].epoch)}
AnyLive(q) == LiveIn(q) # {}
FirstLive(q) == q[Min(LiveIn(q))]
FromLive(q) == SubSeq(q, Min(LiveIn(q)), Len(q))
PastLive(q) == SubSeq(q, Min(LiveIn(q)) + 1, Len(q))
Ghosts(q) == {q[i].task : i \in {j \in 1..Len(q) : \A k \in LiveIn(q) : j < k}}

\* The owner of the object a parked task waits for; no edge when the entry is
\* stale, or the object is merely reserved.
WaitsFor(t) ==
  LET edges == {e \in parked_on : e.task = t /\ Live(t, e.epoch) /\ owner[e.obj] # NoTask}
  IN  IF edges = {} THEN NoTask ELSE owner[(CHOOSE e \in edges : TRUE).obj]

\* Mutant: no cycle is ever found.
never_deadlocks(me, start) == FALSE

\* would_deadlock: the walk from `start` closes on `me`.
would_deadlock(me, start) ==
  LET walk[n \in 0..Cardinality(Tasks)] ==
        IF n = 0 THEN start
        ELSE IF walk[n - 1] = NoTask THEN NoTask ELSE WaitsFor(walk[n - 1])
  IN  \E n \in DOMAIN walk : walk[n] = me

\* The task already has a conversation open on the object's peer.
Nested(t, o) == \E i \in 1..Len(calls[t]) : PeerOf[calls[t][i]] = PeerOf[o]

-----------------------------------------------------------------------------
(* Releasing.                                                               *)

\* Objects of ready_heads a lane visits on its way home: it passes over those
\* with no live waiter (no longer reserved) or a nested one in front (granted
\* without the lane), up to the first with a top-level head.
TakesLane(o) == AnyLive(waiters[o]) /\ ~FirstLive(waiters[o]).nested
Visited(heads) ==
  LET k == {i \in 1..Len(heads) : TakesLane(heads[i])}
  IN  IF k = {} THEN Len(heads) ELSE Min(k)

\* Mutants: the new holder's lane is not taken from the free ones, or the object
\* is reserved without queuing for a lane.
promote_head_free_lane(o) ==
  LET p == PeerOf[o] IN
  [granted |-> AnyLive(waiters[o]) /\ (TakesLane(o) => free_lanes[p] > 0),
   heads |-> IF TakesLane(o) /\ free_lanes[p] = 0
             THEN Append(ready_heads[p], o) ELSE ready_heads[p],
   free |-> free_lanes[p]]
promote_head_unqueued(o) ==
  LET p == PeerOf[o] IN
  [granted |-> AnyLive(waiters[o]) /\ (TakesLane(o) => free_lanes[p] > 0),
   heads |-> ready_heads[p],
   free |-> IF TakesLane(o) /\ free_lanes[p] > 0
            THEN free_lanes[p] - 1 ELSE free_lanes[p]]

\* promote_head passes the freed object on, and release_lane then the lane
\* that came with it.
promote_head(o) ==
  LET p == PeerOf[o] IN
  [granted |-> AnyLive(waiters[o]) /\ (TakesLane(o) => free_lanes[p] > 0),
   heads |-> IF TakesLane(o) /\ free_lanes[p] = 0
             THEN Append(ready_heads[p], o) ELSE ready_heads[p],
   free |-> IF TakesLane(o) /\ free_lanes[p] > 0
            THEN free_lanes[p] - 1 ELSE free_lanes[p]]

release_lane(o) ==
  LET p == PeerOf[o]
      h == promote_head(o)
      n == Visited(h.heads)
      homed == n = 0 \/ ~TakesLane(h.heads[n])
  IN
  IF ~owner_lane[o]
  THEN [visited |-> {}, heads |-> h.heads, free |-> h.free, drained |-> FALSE]
  ELSE [visited |-> {h.heads[i] : i \in 1..n},
        heads |-> SubSeq(h.heads, n + 1, Len(h.heads)),
        free |-> IF homed THEN h.free + 1 ELSE h.free,
        drained |-> (IF homed THEN h.free + 1 ELSE h.free) = Lanes]

\* t's outermost call on o ends: the object and the lane find their next
\* holders, who are woken; the drain waiters are when every lane is home.
FreeClaim(o, t) ==
  LET p == PeerOf[o]
      h == promote_head(o)
      r == release_lane(o)
      granted == {x \in r.visited \cup (IF h.granted THEN {o} ELSE {}) : AnyLive(waiters[x])}
      emptied == {x \in r.visited \cup {o} : ~AnyLive(waiters[x])}
      tasks == {FirstLive(waiters[x]).task : x \in granted}
                 \cup (IF r.drained THEN {d.task : d \in drain_waiters[p]} ELSE {})
      popped == {u \in Tasks : \/ \E x \in r.visited \cup {o} : u \in Ghosts(waiters[x])
                               \/ \E x \in granted : u = FirstLive(waiters[x]).task}
  IN
  /\ owner' = [x \in Objects |-> IF x \in granted THEN FirstLive(waiters[x]).task
                                 ELSE IF x = o THEN NoTask ELSE owner[x]]
  /\ depth' = [x \in Objects |-> IF x \in granted THEN 1
                                 ELSE IF x = o THEN 0 ELSE depth[x]]
  /\ owner_lane' = [x \in Objects |-> IF x \in granted THEN TakesLane(x)
                                      ELSE IF x = o THEN FALSE ELSE owner_lane[x]]
  /\ waiters' = [x \in Objects |->
       CASE x \in granted -> PastLive(waiters[x])
         [] x \in emptied -> <<>>
         [] x = o /\ x \notin granted \cup emptied -> FromLive(waiters[x])
         [] OTHER -> waiters[x]]
  /\ reserved' = [x \in Objects |->
       IF x \in granted \cup emptied THEN FALSE ELSE x = o \/ reserved[x]]
  /\ ready_heads' = [ready_heads EXCEPT ![p] = r.heads]
  /\ free_lanes' = [free_lanes EXCEPT ![p] = r.free]
  /\ drain_waiters' = IF r.drained THEN [drain_waiters EXCEPT ![p] = {}] ELSE drain_waiters
  /\ parked_on' = {e \in parked_on : ~(PeerOf[e.obj] = p /\ e.task \in popped)}
  /\ parked_on_channel' = [u \in Tasks |-> parked_on_channel[u] /\ u \notin tasks]
  /\ woken' = [u \in Tasks |-> u \in tasks \/ (woken[u] /\ u # t)]
  /\ UNCHANGED stopped

\* end_call on a claim that is nested deeper in itself only drops a level.
end_call(o, t) ==
  \/ /\ depth[o] > 1
     /\ depth' = [depth EXCEPT ![o] = @ - 1]
     /\ UNCHANGED <<owner, owner_lane, waiters, reserved, peerVars, parked_on_channel, woken>>
  \/ /\ depth[o] = 1
     /\ FreeClaim(o, t)

-----------------------------------------------------------------------------
(* Acquiring: claim_peer_object of a running task.                          *)

Idle(t) == op[t] = "none"
\* Mutant: a stopped peer still takes calls.
CallingStopped(t, o) == Idle(t) /\ Len(calls[t]) < MaxCalls
Calling(t, o) ==
  /\ Idle(t) /\ Len(calls[t]) < MaxCalls
  /\ Nested(t, o) \/ ~stopped[PeerOf[o]]
Enter(t, o) == calls' = [calls EXCEPT ![t] = Append(@, o)]

\* Mutant: no cap on re-entry.
ReenterUncapped(t, o) ==
  /\ Calling(t, o) /\ owner[o] = t
  /\ depth' = [depth EXCEPT ![o] = @ + 1]
  /\ Enter(t, o)
  /\ UNCHANGED <<owner, owner_lane, waiters, reserved, peerVars, taskVars, op, want, stopping>>
Reenter(t, o) ==
  /\ Calling(t, o) /\ owner[o] = t /\ depth[o] < MaxObjectDepth
  /\ depth' = [depth EXCEPT ![o] = @ + 1]
  /\ Enter(t, o)
  /\ UNCHANGED <<owner, owner_lane, waiters, reserved, peerVars, taskVars, op, want, stopping>>

\* Mutant: a newcomer takes an object that is reserved for its head waiter.
GrantBarging(t, o) ==
  /\ Calling(t, o) /\ owner[o] = NoTask
  /\ Nested(t, o) \/ free_lanes[PeerOf[o]] > 0
  /\ owner' = [owner EXCEPT ![o] = t]
  /\ depth' = [depth EXCEPT ![o] = 1]
  /\ owner_lane' = [owner_lane EXCEPT ![o] = ~Nested(t, o)]
  /\ free_lanes' = [free_lanes EXCEPT ![PeerOf[o]] = IF Nested(t, o) THEN @ ELSE @ - 1]
  /\ Enter(t, o)
  /\ UNCHANGED <<waiters, reserved, ready_heads, drain_waiters, stopped, parked_on,
                 taskVars, op, want, stopping>>

\* An unowned, unreserved object is free to take: with a lane, or nested.
Grant(t, o) ==
  /\ Calling(t, o) /\ owner[o] = NoTask /\ ~reserved[o]
  /\ Nested(t, o) \/ free_lanes[PeerOf[o]] > 0
  /\ owner' = [owner EXCEPT ![o] = t]
  /\ depth' = [depth EXCEPT ![o] = 1]
  /\ owner_lane' = [owner_lane EXCEPT ![o] = ~Nested(t, o)]
  /\ free_lanes' = [free_lanes EXCEPT ![PeerOf[o]] = IF Nested(t, o) THEN @ ELSE @ - 1]
  /\ Enter(t, o)
  /\ UNCHANGED <<waiters, reserved, ready_heads, drain_waiters, stopped, parked_on,
                 taskVars, op, want, stopping>>

WouldQueue(t, o) ==
  /\ Calling(t, o) /\ owner[o] # t
  /\ owner[o] # NoTask \/ reserved[o] \/ (~Nested(t, o) /\ free_lanes[PeerOf[o]] = 0)

\* Re-entry past the cap, or a wait that closes a cycle: the call raises.
TooDeep(t, o) == Calling(t, o) /\ owner[o] = t /\ depth[o] >= MaxObjectDepth
Cyclic(t, o) == WouldQueue(t, o) /\ owner[o] # NoTask /\ would_deadlock(t, owner[o])
CallRaises(t, o) == (TooDeep(t, o) \/ Cyclic(t, o)) /\ UNCHANGED vars

ParkTask(t, what) ==
  /\ parked_on_channel' = [parked_on_channel EXCEPT ![t] = TRUE]
  /\ op' = [op EXCEPT ![t] = what]

\* Queue and park; the head of an unowned object reserves it.
enqueue(t, o) ==
  /\ WouldQueue(t, o) /\ ~Cyclic(t, o)
  /\ ParkTask(t, "claim")
  /\ want' = [want EXCEPT ![t] = o]
  /\ waiters' = [waiters EXCEPT ![o] = Append(@,
       [task |-> t, epoch |-> park_epoch[t], nested |-> Nested(t, o)])]
  /\ parked_on' = {e \in parked_on : ~(e.task = t /\ PeerOf[e.obj] = PeerOf[o])}
                    \cup {[task |-> t, obj |-> o, epoch |-> park_epoch[t]]}
  /\ IF owner[o] = NoTask /\ ~reserved[o]
     THEN /\ reserved' = [reserved EXCEPT ![o] = TRUE]
          /\ ready_heads' = [ready_heads EXCEPT ![PeerOf[o]] = Append(@, o)]
     ELSE UNCHANGED <<reserved, ready_heads>>
  /\ UNCHANGED <<owner, depth, owner_lane, free_lanes, drain_waiters, stopped,
                 cancel_requested, park_epoch, woken, stopping, calls>>

\* The innermost call ends, by an answer, an error or an unwinding.
EndCall(t) ==
  /\ Idle(t) /\ calls[t] # <<>>
  /\ end_call(Last(calls[t]), t)
  /\ calls' = [calls EXCEPT ![t] = Front(@)]
  /\ UNCHANGED <<cancel_requested, park_epoch, op, want, stopping>>

\* serviceStop: refuse new calls, then wait for every lane to come home.
drain_lanes(t, p) ==
  /\ Idle(t) /\ t \in Stoppers
  /\ stopped' = [stopped EXCEPT ![p] = TRUE]
  /\ \/ /\ free_lanes[p] = Lanes
        /\ UNCHANGED <<drain_waiters, parked_on_channel, op, stopping>>
     \/ /\ free_lanes[p] < Lanes
        /\ drain_waiters' = [drain_waiters EXCEPT ![p] =
             @ \cup {[task |-> t, epoch |-> park_epoch[t]]}]
        /\ ParkTask(t, "drain")
        /\ stopping' = [stopping EXCEPT ![t] = p]
  /\ UNCHANGED <<objVars, free_lanes, ready_heads, parked_on, cancel_requested,
                 park_epoch, woken, want, calls>>

request_cancel(t) ==
  /\ t \in Cancellable /\ op[t] # "none" /\ ~cancel_requested[t]
  /\ cancel_requested' = [cancel_requested EXCEPT ![t] = TRUE]
  /\ parked_on_channel' = [parked_on_channel EXCEPT ![t] = FALSE]
  /\ UNCHANGED <<objVars, peerVars, park_epoch, woken, coroVars>>

-----------------------------------------------------------------------------
(* Resuming: the tails of claim_peer_object and drain_lanes.                *)

Resumes(t, what) ==
  /\ op[t] = what /\ ~parked_on_channel[t]
  /\ park_epoch' = [park_epoch EXCEPT ![t] = (@ + 1) % EpochWrap]
  /\ op' = [op EXCEPT ![t] = "none"]
  /\ want' = [want EXCEPT ![t] = NoObj]
  /\ stopping' = [stopping EXCEPT ![t] = NoPeer]
  /\ cancel_requested' = [cancel_requested EXCEPT ![t] = FALSE]

TakeWake(t) == woken' = [woken EXCEPT ![t] = FALSE] /\ UNCHANGED parked_on_channel

\* The finishing call handed over the claim.
ClaimGranted(t) ==
  /\ Resumes(t, "claim") /\ ~cancel_requested[t] /\ woken[t]
  /\ TakeWake(t)
  /\ Enter(t, want[t])
  /\ UNCHANGED <<objVars, peerVars>>

\* Mutant: the cancelled task keeps the claim it was handed.
ClaimNotPassedOn(t) ==
  /\ Resumes(t, "claim") /\ cancel_requested[t] /\ woken[t]
  /\ TakeWake(t)
  /\ UNCHANGED <<objVars, peerVars, calls>>

\* Cancelled with the claim already handed over: pass it on.
ClaimPassedOn(t) ==
  /\ Resumes(t, "claim") /\ cancel_requested[t] /\ woken[t]
  /\ end_call(want[t], t)
  /\ UNCHANGED calls

\* waiters.retain(|w| w.task != t), with the usual cases, no entry of t or
\* one, spelled out.
Without(q, t) ==
  LET at == {i \in 1..Len(q) : q[i].task = t}
  IN  IF at = {} THEN q
      ELSE IF \E i \in at : at = {i} THEN RemoveAt(q, CHOOSE i \in at : TRUE)
      ELSE SelectSeq(q, LAMBDA w : w.task # t)

\* Mutant: withdrawing one edge clears the peer's whole index.
retract_edges(t) ==
  /\ Resumes(t, "claim") /\ cancel_requested[t] /\ ~woken[t]
  /\ waiters' = [waiters EXCEPT ![want[t]] = Without(@, t)]
  /\ parked_on' = {e \in parked_on : PeerOf[e.obj] # PeerOf[want[t]]}
  /\ TakeWake(t)
  /\ UNCHANGED <<owner, depth, owner_lane, reserved, free_lanes, ready_heads,
                 drain_waiters, stopped, calls>>

\* Cancelled while queued: withdraw the entry and the edge; a reservation
\* made for it stays.
retract(t) ==
  /\ Resumes(t, "claim") /\ cancel_requested[t] /\ ~woken[t]
  /\ waiters' = [waiters EXCEPT ![want[t]] = Without(@, t)]
  /\ parked_on' = {e \in parked_on : ~(e.task = t /\ PeerOf[e.obj] = PeerOf[want[t]])}
  /\ TakeWake(t)
  /\ UNCHANGED <<owner, depth, owner_lane, reserved, free_lanes, ready_heads,
                 drain_waiters, stopped, calls>>

\* The drain ends, or is cancelled: drain_waiters keeps a cancelled one.
DrainEnds(t) ==
  /\ Resumes(t, "drain")
  /\ TakeWake(t)
  /\ UNCHANGED <<objVars, peerVars, calls>>

Resume(t) == ClaimGranted(t) \/ ClaimPassedOn(t) \/ retract(t) \/ DrainEnds(t)

Next ==
  \E t \in Tasks :
    \/ \E o \in Objects : Reenter(t, o) \/ Grant(t, o) \/ CallRaises(t, o) \/ enqueue(t, o)
    \/ \E p \in Peers : drain_lanes(t, p)
    \/ EndCall(t) \/ request_cancel(t) \/ Resume(t)

Spec == Init /\ [][Next]_vars

\* A task that is not parked for ever ends the calls it is inside: it is
\* resumed, the peer answers or dies, and a call's body is finite.
Progress(t) ==
  <>[]parked_on_channel[t] \/ []<>(Idle(t) /\ calls[t] = <<>>)
FairSpec == Spec /\ \A t \in Tasks : Progress(t)

-----------------------------------------------------------------------------
(* Properties.                                                              *)

TypeOK ==
  /\ owner \in [Objects -> Tasks \cup {NoTask}]
  /\ depth \in [Objects -> 0..MaxObjectDepth]
  /\ owner_lane \in [Objects -> BOOLEAN]
  /\ reserved \in [Objects -> BOOLEAN]
  /\ waiters \in [Objects -> Seq([task : Tasks, epoch : Nat, nested : BOOLEAN])]
  /\ free_lanes \in [Peers -> 0..Lanes]
  /\ ready_heads \in [Peers -> Seq(Objects)]
  /\ \A p \in Peers : drain_waiters[p] \subseteq [task : Tasks, epoch : Nat]
  /\ parked_on \subseteq [task : Tasks, obj : Objects, epoch : Nat]
  /\ op \in [Tasks -> {"none", "claim", "drain"}]
  /\ want \in [Tasks -> Objects \cup {NoObj}]
  /\ calls \in [Tasks -> Seq(Objects)]

ObjectsOf(p) == {o \in Objects : PeerOf[o] = p}
InCalls(t, o) == Cardinality({i \in 1..Len(calls[t]) : calls[t][i] = o})

(* No lane leaks and none is minted: the lanes out are those of the         *)
(* objects held by a top-level call, through every handoff and cancel race. *)
LanesConserved ==
  \A p \in Peers :
    free_lanes[p] + Cardinality({o \in ObjectsOf(p) : owner_lane[o]}) = Lanes

(* A claim is held exactly by the task that is inside its calls, as deep as *)
(* it re-entered it, or that was just handed it: mutual exclusion on the    *)
(* object, and no claim left behind by a cancelled task.                    *)
ClaimIsHeld ==
  \A o \in Objects, t \in Tasks :
    (IF owner[o] = t THEN depth[o] ELSE 0)
      = InCalls(t, o) + (IF woken[t] /\ want[t] = o THEN 1 ELSE 0)

(* Nobody is stranded: an object somebody waits for is held, or reserved    *)
(* and queued for a lane exactly once; and no lane is idle while a reserved *)
(* object waits for one.                                                    *)
NoneStranded ==
  /\ \A o \in Objects :
       /\ AnyLive(waiters[o]) => owner[o] # NoTask \/ reserved[o]
       /\ Cardinality({i \in 1..Len(ready_heads[PeerOf[o]]) : ready_heads[PeerOf[o]][i] = o})
            = (IF reserved[o] THEN 1 ELSE 0)
  /\ \A p \in Peers : ready_heads[p] # <<>> => free_lanes[p] = 0

(* A live waiter stands in one queue, and the index the cycle walk reads    *)
(* has its edge.                                                            *)
EdgesAgree ==
  \A t \in Tasks : Live(t, park_epoch[t]) /\ op[t] = "claim" =>
    /\ [task |-> t, obj |-> want[t], epoch |-> park_epoch[t]] \in parked_on
    /\ \A o \in Objects :
         Cardinality({i \in 1..Len(waiters[o]) : waiters[o][i].task = t
                                                   /\ waiters[o][i].epoch = park_epoch[t]})
           = (IF o = want[t] THEN 1 ELSE 0)

(* A ServiceClaim wake reaches only a task that is parked for one: for a    *)
(* claim that is now its own, or for a drain.                               *)
GrantFitsWait ==
  \A t \in Tasks : woken[t] =>
    \/ op[t] = "claim" /\ owner[want[t]] = t
    \/ op[t] = "drain"

(* No barging: while a live task queues for an object, the object goes to   *)
(* nobody but the first live one.                                           *)
NoBarging ==
  [][\A o \in Objects :
       owner'[o] # owner[o] /\ owner'[o] # NoTask /\ AnyLive(waiters[o]) =>
         owner'[o] = FirstLive(waiters[o]).task]_vars

(* serviceStop returns from its drain only when no conversation is open and *)
(* nobody waits on the peer.                                                *)
DrainedIsQuiet ==
  \A t \in Tasks : op[t] = "drain" /\ woken[t] =>
    /\ free_lanes[stopping[t]] = Lanes
    /\ \A o \in ObjectsOf(stopping[t]) : owner[o] = NoTask /\ ~AnyLive(waiters[o])

(* The claim table agrees with its tasks: lanes and claims are conserved    *)
(* through nesting, hand-over and cancellation, the edges the cycle check   *)
(* walks are those of the live waiters, and a stop leaves its drain only    *)
(* when the peer is quiet.                                                  *)
ClaimsAgree == LanesConserved /\ ClaimIsHeld /\ EdgesAgree /\ DrainedIsQuiet

\* Parked, or done: holding nothing and waiting for nothing.
Stuck == /\ \E t \in Tasks : Live(t, park_epoch[t])
         /\ \A t \in Tasks : Live(t, park_epoch[t]) \/ (Idle(t) /\ calls[t] = <<>>)

(* "Detected and raised, never a silent hang": there is always a task that  *)
(* can run, unless none holds or waits for anything.                        *)
NoSilentHang == ~Stuck

(* Every queued call is granted in the end, whatever calls the others keep  *)
(* making (mailbox fairness), as long as nobody is cancelled.               *)
QueuedIsGranted == \A t \in Tasks : op[t] = "claim" ~> op[t] = "none"

=============================================================================
