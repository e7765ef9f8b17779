---------------------------- MODULE ClaimsProofs ----------------------------
(***************************************************************************)
(* Proofs about Claims for every set of tasks, objects and peers, every    *)
(* number of lanes and every depth of nesting: lanes and claims are        *)
(* conserved, nobody is stranded, the waits-for index has every live edge, *)
(* a drain ends on a quiet peer, and nobody barges past a queue.           *)
(*                                                                         *)
(* The hypothesis is that no task that may be cancelled stops a service:   *)
(* drain_lanes leaves the entry of a cancelled drain in drain_waiters, and *)
(* the code breaks the properties through it (GrantFitsWait).              *)
(*                                                                         *)
(* The inductive invariant CInv is stated task by task, object by object   *)
(* and peer by peer.  An entry of a queue belongs to a task that waits for *)
(* that very object (QueueOK); a parked task is in its queue and in the    *)
(* index (EdgeOK); a handed-over claim came with a lane exactly if its     *)
(* task has no conversation on the peer (HandedOK), so of a task's         *)
(* conversations on a peer the outermost object has the lane (LaneOK) and  *)
(* a peer with all lanes at home is quiet; the lane queue holds just the   *)
(* reserved objects (PeerOK, ObjectOK).                                    *)
(***************************************************************************)
EXTENDS Claims, TLAPS, SequenceTheorems, FiniteSetTheorems, NaturalsInduction,
        WellFoundedInduction

(* The sets the variables range over.                                       *)
Entries == [task : Tasks, epoch : Nat, nested : BOOLEAN]
Types ==
  /\ owner \in [Objects -> Tasks \cup {NoTask}]
  /\ depth \in [Objects -> Nat]
  /\ owner_lane \in [Objects -> BOOLEAN]
  /\ waiters \in [Objects -> Seq(Entries)]
  /\ reserved \in [Objects -> BOOLEAN]
  /\ free_lanes \in [Peers -> Nat]
  /\ ready_heads \in [Peers -> Seq(Objects)]
  /\ drain_waiters \in [Peers -> SUBSET [task : Tasks, epoch : Nat]]
  /\ stopped \in [Peers -> BOOLEAN]
  /\ parked_on \subseteq [task : Tasks, obj : Objects, epoch : Nat]
  /\ parked_on_channel \in [Tasks -> BOOLEAN]
  /\ cancel_requested \in [Tasks -> BOOLEAN]
  /\ park_epoch \in [Tasks -> Nat]
  /\ woken \in [Tasks -> BOOLEAN]
  /\ op \in [Tasks -> {"none", "claim", "drain"}]
  /\ want \in [Tasks -> Objects \cup {NoObj}]
  /\ stopping \in [Tasks -> Peers \cup {NoPeer}]
  /\ calls \in [Tasks -> Seq(Objects)]

(* What a task is parked in and what it has been told agree.                *)
TaskOK(t) ==
  /\ op[t] = "none" => want[t] = NoObj /\ ~parked_on_channel[t] /\ ~woken[t]
  /\ op[t] = "claim" => want[t] \in Objects
  /\ op[t] = "drain" => want[t] = NoObj /\ stopping[t] \in Peers /\ t \in Stoppers
  /\ op[t] = "drain" => stopped[stopping[t]] /\ (parked_on_channel[t] \/ woken[t])
  /\ cancel_requested[t] => t \in Cancellable /\ op[t] # "none" /\ ~parked_on_channel[t]
  /\ parked_on_channel[t] => ~woken[t]

(* A queue entry belongs to a task that waits for this very object, at its  *)
(* present epoch, and has not been handed it; no task stands in it twice.   *)
EntryOK(e, o) ==
  /\ op[e.task] = "claim" /\ want[e.task] = o
  /\ e.epoch = park_epoch[e.task] /\ ~woken[e.task]
  /\ e.nested <=> Nested(e.task, o)
Apart(q) == \A i, j \in 1..Len(q) : i # j => q[i].task # q[j].task
QueueOK(o) == Apart(waiters[o]) /\ \A i \in 1..Len(waiters[o]) : EntryOK(waiters[o][i], o)

(* A live waiter stands in its queue and in the waits-for index.            *)
EdgeOK(t) == parked_on_channel[t] /\ op[t] = "claim" =>
  /\ [task |-> t, obj |-> want[t], epoch |-> park_epoch[t]] \in parked_on
  /\ \E i \in 1..Len(waiters[want[t]]) : waiters[want[t]][i].task = t

(* A claim that was handed over: with a lane exactly if the task had no     *)
(* conversation open on the peer.                                           *)
HandedOK(t) == op[t] = "claim" /\ woken[t] =>
  /\ depth[want[t]] = 1
  /\ owner_lane[want[t]] <=> ~Nested(t, want[t])

(* Of a task's conversations on a peer the first holds the lane.            *)
LaneOK(t) ==
  /\ \A i, j \in 1..Len(calls[t]) :
       owner_lane[calls[t][i]] /\ PeerOf[calls[t][j]] = PeerOf[calls[t][i]]
         /\ calls[t][j] # calls[t][i] =>
              \E k \in 1..Len(calls[t]) : k < j /\ calls[t][k] = calls[t][i]
  /\ \A i \in 1..Len(calls[t]) : \E j \in 1..Len(calls[t]) :
       owner_lane[calls[t][j]] /\ PeerOf[calls[t][j]] = PeerOf[calls[t][i]]

(* An object nobody owns has no lane and no depth; it is reserved if        *)
(* somebody waits for it, and then queued for a lane.                       *)
ObjectOK(o) ==
  /\ owner[o] = NoTask => ~owner_lane[o]
  /\ owner[o] # NoTask => ~reserved[o] /\ depth[o] > 0
  /\ reserved[o] => Contains(ready_heads[PeerOf[o]], o)
  /\ AnyLive(waiters[o]) => owner[o] # NoTask \/ reserved[o]

Out(p) == {o \in ObjectsOf(p) : owner_lane[o]}
Once(q) == \A i, j \in 1..Len(q) : i # j => q[i] # q[j]

(* The lane queue names reserved objects of the peer once, lanes are        *)
(* conserved, and none is free while an object waits for one.               *)
PeerOK(p) ==
  /\ Once(ready_heads[p])
  /\ \A i \in 1..Len(ready_heads[p]) : PeerOf[ready_heads[p][i]] = p /\ reserved[ready_heads[p][i]]
  /\ ready_heads[p] # <<>> => free_lanes[p] = 0
  /\ IsFiniteSet(Out(p)) /\ free_lanes[p] + Cardinality(Out(p)) = Lanes
  /\ \A d \in drain_waiters[p] :
       op[d.task] = "drain" /\ stopping[d.task] = p /\ ~woken[d.task]

(* A drain that was told so finds every lane at home.                       *)
HomeOK(t) == op[t] = "drain" /\ woken[t] => free_lanes[stopping[t]] = Lanes

TasksOK == \A t \in Tasks : TaskOK(t) /\ EdgeOK(t) /\ HandedOK(t) /\ LaneOK(t) /\ HomeOK(t)
ObjectsOK == \A o \in Objects : QueueOK(o) /\ ObjectOK(o)
PeersOK == \A p \in Peers : PeerOK(p)
CInv == Types /\ TasksOK /\ ObjectsOK /\ PeersOK /\ ClaimIsHeld

(* The number of times x stands in q.                                       *)
Count(q, x) == Cardinality({i \in 1..Len(q) : q[i] = x})

(* r is q without its first m entries.                                      *)
Behind(r, q, m) ==
  /\ m \in 0..Len(q) /\ r \in Seq(Entries) /\ Len(r) = Len(q) - m
  /\ \A i \in 1..Len(r) : i + m \in 1..Len(q) /\ r[i] = q[i + m]

-----------------------------------------------------------------------------
(* Operators of the queues.                                                 *)

(* The order of the naturals, as a relation.                                *)
Less == {p \in Nat \X Nat : p[1] < p[2]}

(* A non-empty set of positions has a least one.                            *)
LEMMA MinPosition ==
  ASSUME NEW n \in Nat, NEW S, S \subseteq 1..n, S # {}
  PROVE  Min(S) \in S /\ \A y \in S : Min(S) <= y
<1>1. IsWellFoundedOn(Less, Nat)
  BY NatLessThanWellFounded DEF OpToRel, Less
<1>2. S \subseteq Nat
  OBVIOUS
<1>3. \E x \in S : \A y \in S : ~(<<y, x>> \in Less)
  BY <1>1, <1>2, WFMin
<1>4. \A x, y \in Nat : ~(<<y, x>> \in Less) => x <= y
  BY DEF Less
<1>5. \E x \in S : \A y \in S : x <= y
  BY <1>2, <1>3, <1>4
<1>6. QED
  BY <1>5 DEF Min

(* What is behind the first m entries of a queue.                           *)
LEMMA BehindFacts ==
  ASSUME NEW q \in Seq(Entries), NEW m \in 0..Len(q)
  PROVE  Behind(SubSeq(q, m + 1, Len(q)), q, m)
<1>1. Len(q) \in Nat
  OBVIOUS
<1>2. /\ SubSeq(q, m + 1, Len(q)) \in Seq(Entries)
      /\ Len(SubSeq(q, m + 1, Len(q))) = Len(q) - m
      /\ \A i \in 1..(Len(q) - m) : SubSeq(q, m + 1, Len(q))[i] = q[i + m]
  BY <1>1
<1>3. \A i \in 1..(Len(q) - m) : i + m \in 1..Len(q)
  BY <1>1
<1>4. QED
  BY <1>2, <1>3 DEF Behind

(* The first live entry of a queue is at some position m, with no live one  *)
(* in front.                                                                *)
FirstAt(q, m) ==
  /\ m \in 1..Len(q)
  /\ Live(q[m].task, q[m].epoch)
  /\ \A j \in 1..Len(q) : j < m => ~Live(q[j].task, q[j].epoch)

(* pop_live: the first live entry, what it leaves behind and the ghosts it  *)
(* skips.                                                                   *)
LEMMA PopFacts ==
  ASSUME NEW q \in Seq(Entries), AnyLive(q)
  PROVE  \E m \in 1..Len(q) :
           /\ FirstAt(q, m) /\ FirstLive(q) = q[m]
           /\ Behind(PastLive(q), q, m) /\ Behind(FromLive(q), q, m - 1)
<1>1. PICK m \in LiveIn(q) : m = Min(LiveIn(q)) /\ \A j \in LiveIn(q) : m <= j
  <2>1. LiveIn(q) \subseteq 1..Len(q) /\ LiveIn(q) # {} /\ Len(q) \in Nat
    BY DEF AnyLive, LiveIn
  <2>2. QED
    BY <2>1, MinPosition
<1>2. FirstAt(q, m)
  <2>1. LiveIn(q) \subseteq 1..Len(q)
        /\ \A j \in 1..Len(q) : j \in LiveIn(q) <=> Live(q[j].task, q[j].epoch)
    BY DEF LiveIn
  <2>2. \A j \in 1..Len(q) : j < m => ~(m <= j)
    BY <1>1, <2>1
  <2>3. QED
    BY <1>1, <2>1, <2>2 DEF FirstAt
<1>3. /\ FirstLive(q) = q[m] /\ PastLive(q) = SubSeq(q, m + 1, Len(q))
      /\ FromLive(q) = SubSeq(q, m, Len(q))
  BY <1>1 DEF FirstLive, PastLive, FromLive
<1>4. m \in 1..Len(q) /\ m \in 0..Len(q) /\ m - 1 \in 0..Len(q) /\ (m - 1) + 1 = m
  BY <1>2 DEF FirstAt
<1>5. Behind(SubSeq(q, m + 1, Len(q)), q, m)
  BY <1>4, BehindFacts
<1>6. Behind(SubSeq(q, (m - 1) + 1, Len(q)), q, m - 1)
  BY <1>4, BehindFacts
<1>7. QED
  BY <1>2, <1>3, <1>4, <1>5, <1>6

(* A queue has a live entry exactly if some entry is live.                  *)
LEMMA LiveSomewhere ==
  ASSUME NEW q
  PROVE  AnyLive(q) <=> \E i \in 1..Len(q) : Live(q[i].task, q[i].epoch)
  BY DEF AnyLive, LiveIn

(* The ghosts a queue's head skips are entries that are not live.           *)
LEMMA GhostFacts ==
  ASSUME NEW q \in Seq(Entries), NEW u \in Ghosts(q)
  PROVE  \E j \in 1..Len(q) : u = q[j].task /\ ~Live(q[j].task, q[j].epoch)
<1>1. PICK j \in 1..Len(q) : u = q[j].task /\ \A k \in LiveIn(q) : j < k
  BY DEF Ghosts
<1>2. j \notin LiveIn(q)
  BY <1>1
<1>3. QED
  BY <1>1, <1>2 DEF LiveIn

(* The positions of a lane queue: a lane goes home past all of them, or to  *)
(* the first whose head waiter needs it.                                    *)
LEMMA VisitedFacts ==
  ASSUME NEW q \in Seq(Objects)
  PROVE  /\ Visited(q) \in 0..Len(q)
         /\ \A i \in 1..Len(q) : i < Visited(q) => ~TakesLane(q[i])
         /\ (Visited(q) = 0 \/ ~TakesLane(q[Visited(q)]))
              => Visited(q) = Len(q) /\ \A i \in 1..Len(q) : ~TakesLane(q[i])
<1> DEFINE K == {i \in 1..Len(q) : TakesLane(q[i])}
<1>0. Len(q) \in Nat
  OBVIOUS
<1>1. CASE K = {}
  <2>1. Visited(q) = Len(q)
    BY <1>1 DEF Visited
  <2>2. QED
    BY <1>0, <1>1, <2>1
<1>2. CASE K # {}
  <2>1. Visited(q) = Min(K)
    BY <1>2 DEF Visited
  <2>2. PICK m \in K : m = Min(K) /\ \A y \in K : m <= y
    BY <1>0, <1>2, MinPosition
  <2>3. m \in 1..Len(q) /\ TakesLane(q[m])
    OBVIOUS
  <2>4. \A i \in 1..Len(q) : i < m => ~TakesLane(q[i])
    BY <2>2
  <2>5. QED
    BY <1>0, <2>1, <2>2, <2>3, <2>4
<1>3. QED
  BY <1>1, <1>2

-----------------------------------------------------------------------------
(* Counting the calls a task is inside of.                                  *)

(* A count is a number, zero exactly if x is nowhere.                       *)
LEMMA CountFacts ==
  ASSUME NEW q, Len(q) \in Nat, NEW x
  PROVE  /\ IsFiniteSet({i \in 1..Len(q) : q[i] = x}) /\ Count(q, x) \in Nat
         /\ Count(q, x) = 0 <=> \A i \in 1..Len(q) : q[i] # x
<1> DEFINE S == {i \in 1..Len(q) : q[i] = x}
<1>1. IsFiniteSet(1..Len(q))
  BY FS_Interval
<1>2. IsFiniteSet(S)
  <2>1. S \in SUBSET (1..Len(q))
    OBVIOUS
  <2>2. QED
    BY <1>1, <2>1, FS_Subset
<1>3. Cardinality(S) \in Nat /\ (Cardinality(S) = 0 <=> S = {})
  BY <1>2, FS_CardinalityType, FS_EmptySet
<1>4. S = {} <=> \A i \in 1..Len(q) : q[i] # x
  OBVIOUS
<1>5. QED
  BY <1>2, <1>3, <1>4 DEF Count

(* One more entry counts for itself only.                                   *)
LEMMA CountLonger ==
  ASSUME NEW q, NEW r, Len(q) \in Nat, Len(r) = Len(q) + 1,
         \A i \in 1..Len(q) : r[i] = q[i], NEW x
  PROVE  /\ x = r[Len(r)] => Count(r, x) = Count(q, x) + 1
         /\ x # r[Len(r)] => Count(r, x) = Count(q, x)
<1> DEFINE S == {i \in 1..Len(q) : q[i] = x}
           T == {i \in 1..Len(r) : r[i] = x}
<1>1. IsFiniteSet(S)
  BY CountFacts
<1>a. Len(r) \notin 1..Len(q) /\ \A i \in 1..Len(r) : i \in 1..Len(q) \/ i = Len(r)
  OBVIOUS
<1>b. Len(r) \in 1..Len(r) /\ \A i \in 1..Len(q) : i \in 1..Len(r)
  OBVIOUS
<1>2. CASE x = r[Len(r)]
  <2>1. T = S \cup {Len(r)} /\ Len(r) \notin S
    BY <1>2, <1>a, <1>b
  <2>2. Cardinality(T) = Cardinality(S) + 1
    BY <1>1, <2>1, FS_AddElement
  <2>3. QED
    BY <1>2, <2>2 DEF Count
<1>3. CASE x # r[Len(r)]
  <2>1. T = S
    BY <1>3, <1>a, <1>b
  <2>2. QED
    BY <1>3, <2>1 DEF Count
<1>4. QED
  BY <1>2, <1>3

(* Entering a call.                                                         *)
LEMMA CountAppend ==
  ASSUME NEW q \in Seq(Objects), NEW o \in Objects
  PROVE  /\ Append(q, o) \in Seq(Objects) /\ Len(Append(q, o)) = Len(q) + 1
         /\ \A i \in 1..Len(q) : Append(q, o)[i] = q[i]
         /\ Append(q, o)[Len(q) + 1] = o
         /\ Count(Append(q, o), o) = Count(q, o) + 1
         /\ \A x : x # o => Count(Append(q, o), x) = Count(q, x)
<1> DEFINE r == Append(q, o)
<1>1. /\ Len(q) \in Nat /\ r \in Seq(Objects) /\ Len(r) = Len(q) + 1
      /\ \A i \in 1..Len(q) : r[i] = q[i]
      /\ r[Len(q) + 1] = o
  OBVIOUS
<1> HIDE DEF r
<1>2. Count(r, o) = Count(q, o) + 1 /\ \A x : x # o => Count(r, x) = Count(q, x)
  BY <1>1, CountLonger
<1>3. QED
  BY <1>1, <1>2 DEF r

(* Leaving the innermost call.                                              *)
LEMMA CountFront ==
  ASSUME NEW q \in Seq(Objects), q # <<>>
  PROVE  /\ Last(q) \in Objects /\ Last(q) = q[Len(q)] /\ Len(q) \in Nat /\ Len(q) > 0
         /\ Front(q) \in Seq(Objects) /\ Len(Front(q)) = Len(q) - 1
         /\ \A i \in 1..(Len(q) - 1) : Front(q)[i] = q[i]
         /\ Count(q, Last(q)) = Count(Front(q), Last(q)) + 1
         /\ \A x : x # Last(q) => Count(Front(q), x) = Count(q, x)
<1> DEFINE f == Front(q)
<1>0. Len(q) \in Nat /\ Len(q) > 0
  BY EmptySeq
<1>1. /\ Len(q) \in Nat /\ Len(q) > 0 /\ f \in Seq(Objects) /\ Len(f) = Len(q) - 1
      /\ \A i \in 1..(Len(q) - 1) : f[i] = q[i]
  <2>0. Len(q) - 1 \in 0..Len(q)
    BY <1>0
  <2>1. PICK m \in 0..Len(q) : m = Len(q) - 1
    BY <2>0
  <2>2. /\ SubSeq(q, 1, m) \in Seq(Objects) /\ Len(SubSeq(q, 1, m)) = m
        /\ \A i \in 1..m : SubSeq(q, 1, m)[i] = q[i]
    BY <1>0
  <2>3. QED
    BY <1>0, <2>1, <2>2 DEF Front
<1>2. q[Len(q)] \in Objects
  BY <1>1, ElementOfSeq
<1> HIDE DEF f
<1>3. Len(f) \in Nat /\ Len(q) = Len(f) + 1 /\ \A i \in 1..Len(f) : q[i] = f[i]
  BY <1>1
<1>4. /\ Count(q, q[Len(q)]) = Count(f, q[Len(q)]) + 1
      /\ \A x : x # q[Len(q)] => Count(q, x) = Count(f, x)
  BY <1>3, CountLonger
<1>5. QED
  BY <1>1, <1>2, <1>4 DEF f, Last

(* A sequence that names nobody twice counts each member once.              *)
LEMMA CountOnce ==
  ASSUME NEW q \in Seq(Objects), Once(q), NEW x
  PROVE  Count(q, x) = IF Contains(q, x) THEN 1 ELSE 0
<1> DEFINE S == {i \in 1..Len(q) : q[i] = x}
<1>1. CASE Contains(q, x)
  <2>1. PICK k \in 1..Len(q) : q[k] = x
    BY <1>1 DEF Contains
  <2>2. S = {k}
    BY <2>1 DEF Once
  <2>3. Cardinality(S) = 1
    BY <2>2, FS_Singleton
  <2>4. QED
    BY <1>1, <2>3 DEF Count
<1>2. CASE ~Contains(q, x)
  <2>1. Len(q) \in Nat /\ \A i \in 1..Len(q) : q[i] # x
    BY <1>2 DEF Contains
  <2>a. Count(q, x) = 0
    BY <2>1, CountFacts
  <2>2. QED
    BY <1>2, <2>a
<1>3. QED
  BY <1>1, <1>2

-----------------------------------------------------------------------------
(* What the invariant says of one state.                                    *)

(* What a task holds: the objects it is inside of and the one it was just   *)
(* handed, as deep as it entered them.                                      *)
LEMMA HeldFacts ==
  ASSUME CInv, NEW o \in Objects, NEW t \in Tasks
  PROVE  /\ Count(calls[t], o) \in Nat /\ depth[o] \in Nat /\ Len(calls[t]) \in Nat
         /\ owner[o] = t /\ woken[t] /\ want[t] = o => depth[o] = Count(calls[t], o) + 1
         /\ owner[o] = t /\ ~(woken[t] /\ want[t] = o) => depth[o] = Count(calls[t], o)
         /\ owner[o] # t => ~(woken[t] /\ want[t] = o)
                            /\ \A i \in 1..Len(calls[t]) : calls[t][i] # o
<1>1. calls[t] \in Seq(Objects) /\ depth[o] \in Nat
  BY DEF CInv, Types
<1>2. Len(calls[t]) \in Nat
  BY <1>1
<1>3. (IF owner[o] = t THEN depth[o] ELSE 0)
        = Count(calls[t], o) + (IF woken[t] /\ want[t] = o THEN 1 ELSE 0)
  BY DEF CInv, ClaimIsHeld, InCalls, Count
<1>4. /\ Count(calls[t], o) \in Nat
      /\ Count(calls[t], o) = 0 <=> \A i \in 1..Len(calls[t]) : calls[t][i] # o
  BY <1>2, CountFacts
<1>5. QED
  BY <1>1, <1>2, <1>3, <1>4

(* A task inside a call owns its object.                                    *)
LEMMA CallerOwns ==
  ASSUME CInv, NEW t \in Tasks, NEW i \in 1..Len(calls[t])
  PROVE  calls[t][i] \in Objects /\ owner[calls[t][i]] = t
<1>1. calls[t][i] \in Objects
  BY ElementOfSeq DEF CInv, Types
<1>2. QED
  BY <1>1, HeldFacts

(* The entries of a queue, and which of them are live: those whose task is  *)
(* still parked.                                                            *)
LEMMA QueueFacts ==
  ASSUME CInv, NEW o \in Objects, NEW i \in 1..Len(waiters[o])
  PROVE  /\ waiters[o] \in Seq(Entries) /\ waiters[o][i] \in Entries
         /\ waiters[o][i].task \in Tasks /\ waiters[o][i].nested \in BOOLEAN
         /\ EntryOK(waiters[o][i], o)
         /\ Live(waiters[o][i].task, waiters[o][i].epoch)
              <=> parked_on_channel[waiters[o][i].task]
<1>1. waiters[o] \in Seq(Entries)
  BY DEF CInv, Types
<1>2. waiters[o][i] \in Entries
  BY <1>1, ElementOfSeq
<1>3. waiters[o][i].task \in Tasks /\ waiters[o][i].nested \in BOOLEAN
  BY <1>2 DEF Entries
<1>4. EntryOK(waiters[o][i], o)
  BY DEF CInv, ObjectsOK, QueueOK
<1>5. TaskOK(waiters[o][i].task)
  BY <1>3 DEF CInv, TasksOK
<1>6. QED
  BY <1>1, <1>2, <1>3, <1>4, <1>5 DEF EntryOK, TaskOK, Live

(* A peer with every lane at home is quiet: nobody holds one of its objects *)
(* or waits for one.                                                        *)
LEMMA QuietWhenHome ==
  ASSUME CInv, NEW p \in Peers, free_lanes[p] = Lanes
  PROVE  /\ Out(p) = {} /\ ready_heads[p] = <<>>
         /\ \A o \in ObjectsOf(p) : owner[o] = NoTask /\ ~reserved[o] /\ ~AnyLive(waiters[o])
<1>1. Out(p) = {}
  <2>1. IsFiniteSet(Out(p)) /\ free_lanes[p] + Cardinality(Out(p)) = Lanes
    BY DEF CInv, PeersOK, PeerOK
  <2>2. Cardinality(Out(p)) \in Nat /\ Lanes \in Nat
    BY <2>1, FS_CardinalityType, ClaimsAssumption
  <2>3. Cardinality(Out(p)) = 0
    BY <2>1, <2>2
  <2>4. QED
    BY <2>1, <2>3, FS_EmptySet
<1>2. ready_heads[p] = <<>>
  BY ClaimsAssumption DEF CInv, PeersOK, PeerOK
<1>3. ASSUME NEW o \in ObjectsOf(p) PROVE owner[o] = NoTask /\ ~reserved[o] /\ ~AnyLive(waiters[o])
  <2>1. o \in Objects /\ PeerOf[o] = p
    BY DEF ObjectsOf
  <2>2. ASSUME NEW t \in Tasks, owner[o] = t PROVE FALSE
    <3>1. \A i \in 1..Len(calls[t]) : PeerOf[calls[t][i]] # p
      <4> SUFFICES ASSUME NEW i \in 1..Len(calls[t]), PeerOf[calls[t][i]] = p PROVE FALSE
        OBVIOUS
      <4>0. LaneOK(t)
        BY DEF CInv, TasksOK
      <4>1. PICK j \in 1..Len(calls[t]) : owner_lane[calls[t][j]] /\ PeerOf[calls[t][j]] = p
        BY <4>0 DEF LaneOK
      <4>2. calls[t][j] \in Objects
        BY CallerOwns
      <4>3. calls[t][j] \in Out(p)
        BY <4>1, <4>2 DEF Out, ObjectsOf
      <4>4. QED
        BY <4>3, <1>1
    <3>2. depth[o] # 0
      <4>1. owner[o] # NoTask
        BY <2>2, ClaimsAssumption
      <4>2. depth[o] > 0
        BY <2>1, <4>1 DEF CInv, ObjectsOK, ObjectOK
      <4>3. QED
        BY <4>2
    <3>3. Count(calls[t], o) = 0
      <4>1. \A i \in 1..Len(calls[t]) : calls[t][i] # o
        BY <3>1, <2>1
      <4>2. QED
        BY <4>1, <2>1, HeldFacts, CountFacts
    <3>4. woken[t] /\ want[t] = o
      BY <2>1, <2>2, <3>2, <3>3, HeldFacts
    <3>5. op[t] = "claim"
      BY <3>4, <2>1, ClaimsAssumption DEF CInv, TasksOK, TaskOK, Types
    <3>6. owner_lane[o] \/ Nested(t, o)
      BY <3>4, <3>5 DEF CInv, TasksOK, HandedOK
    <3>7. ~Nested(t, o)
      BY <2>1, <3>1 DEF Nested
    <3>8. QED
      BY <2>1, <3>6, <3>7, <1>1 DEF Out, ObjectsOf
  <2>3. owner[o] = NoTask
    BY <2>1, <2>2 DEF CInv, Types
  <2>4. ~reserved[o]
    <3>1. ~Contains(ready_heads[p], o)
      BY <1>2 DEF Contains
    <3>2. QED
      BY <2>1, <3>1 DEF CInv, ObjectsOK, ObjectOK
  <2>5. QED
    BY <2>1, <2>3, <2>4 DEF CInv, ObjectsOK, ObjectOK
<1>4. QED
  BY <1>1, <1>2, <1>3

-----------------------------------------------------------------------------
(* Passing on an object and its lane.                                       *)

(* promote_head: the object is granted, or queued for a lane, or free; with *)
(* a lane to spare nobody was queued for one.                               *)
LEMMA PromoteFacts ==
  ASSUME CInv, NEW o \in Objects, owner[o] # NoTask, NEW q, q = promote_head(o).heads
  PROVE  /\ promote_head(o).granted
              <=> AnyLive(waiters[o]) /\ (TakesLane(o) => free_lanes[PeerOf[o]] > 0)
         /\ q \in Seq(Objects) /\ Once(q)
         /\ \A i \in 1..Len(q) : PeerOf[q[i]] = PeerOf[o] /\ (q[i] = o \/ reserved[q[i]])
         /\ Contains(q, o) <=> TakesLane(o) /\ free_lanes[PeerOf[o]] = 0
         /\ \A x \in Objects : reserved[x] /\ PeerOf[x] = PeerOf[o] => Contains(q, x)
         /\ q # <<>> => free_lanes[PeerOf[o]] = 0
         /\ TakesLane(o) /\ free_lanes[PeerOf[o]] > 0
              => promote_head(o).free = free_lanes[PeerOf[o]] - 1
         /\ ~(TakesLane(o) /\ free_lanes[PeerOf[o]] > 0)
              => promote_head(o).free = free_lanes[PeerOf[o]]
<1> DEFINE p == PeerOf[o]
<1>1. p \in Peers
  BY ClaimsAssumption
<1>2. ready_heads[p] \in Seq(Objects) /\ free_lanes[p] \in Nat
  BY <1>1 DEF CInv, Types
<1>3. /\ Once(ready_heads[p])
      /\ \A i \in 1..Len(ready_heads[p]) :
           PeerOf[ready_heads[p][i]] = p /\ reserved[ready_heads[p][i]]
      /\ ready_heads[p] # <<>> => free_lanes[p] = 0
  BY <1>1 DEF CInv, PeersOK, PeerOK
<1>4. ~reserved[o] /\ ~Contains(ready_heads[p], o)
  BY <1>3 DEF CInv, ObjectsOK, ObjectOK, Contains
<1>5. \A x \in Objects : reserved[x] /\ PeerOf[x] = p => Contains(ready_heads[p], x)
  BY DEF CInv, ObjectsOK, ObjectOK
<1>6. /\ promote_head(o).granted
           <=> AnyLive(waiters[o]) /\ (TakesLane(o) => free_lanes[p] > 0)
      /\ TakesLane(o) /\ free_lanes[p] > 0 => promote_head(o).free = free_lanes[p] - 1
      /\ ~(TakesLane(o) /\ free_lanes[p] > 0) => promote_head(o).free = free_lanes[p]
      /\ TakesLane(o) /\ free_lanes[p] = 0 => q = Append(ready_heads[p], o)
      /\ ~(TakesLane(o) /\ free_lanes[p] = 0) => q = ready_heads[p]
  BY DEF promote_head
<1> HIDE DEF p
<1>7. CASE ~(TakesLane(o) /\ free_lanes[p] = 0)
  BY <1>2, <1>3, <1>4, <1>5, <1>6, <1>7 DEF p
<1>8. CASE TakesLane(o) /\ free_lanes[p] = 0
  <2> DEFINE h == ready_heads[p]
  <2>1. /\ q \in Seq(Objects) /\ Len(h) \in Nat /\ Len(q) = Len(h) + 1 /\ q[Len(q)] = o
        /\ \A i \in 1..Len(h) : q[i] = h[i]
    <3>1. h \in Seq(Objects) /\ o \in Objects /\ q = Append(h, o)
      BY <1>2, <1>6, <1>8
    <3> HIDE DEF h
    <3>2. QED
      BY <3>1
  <2>2. \A i \in 1..Len(q) : i \in 1..Len(h) \/ i = Len(q)
    BY <2>1
  <2>3. \A i \in 1..Len(h) : h[i] # o /\ i \in 1..Len(q)
    BY <1>4, <2>1 DEF Contains
  <2>4. Once(q)
    <3> SUFFICES ASSUME NEW i \in 1..Len(q), NEW j \in 1..Len(q), i # j PROVE q[i] # q[j]
      BY DEF Once
    <3>1. CASE i \in 1..Len(h) /\ j \in 1..Len(h)
      <4>1. h[i] # h[j]
        BY <1>3, <3>1 DEF Once
      <4>2. QED
        BY <2>1, <3>1, <4>1
    <3>2. CASE i \in 1..Len(h) /\ j = Len(q)
      BY <2>1, <2>3, <3>2
    <3>3. CASE i = Len(q) /\ j \in 1..Len(h)
      BY <2>1, <2>3, <3>3
    <3>4. QED
      BY <2>2, <3>1, <3>2, <3>3
  <2>5. \A i \in 1..Len(q) : PeerOf[q[i]] = p /\ (q[i] = o \/ reserved[q[i]])
    BY <1>3, <2>1, <2>2 DEF p
  <2>6. Contains(q, o) /\ \A x : Contains(h, x) => Contains(q, x)
    BY <2>1, <2>3 DEF Contains
  <2>7. QED
    BY <1>5, <1>6, <1>8, <2>1, <2>4, <2>5, <2>6 DEF p
<1>9. QED
  BY <1>7, <1>8

(* The first n objects of a lane queue, and the others.                     *)
Seen(q, n) == {q[i] : i \in 1..n}
Unseen(q, n) == SubSeq(q, n + 1, Len(q))

(* What is left of a lane queue whose first n objects were visited.         *)
LEMMA HeadsLeft ==
  ASSUME NEW q \in Seq(Objects), Once(q), NEW n \in 0..Len(q)
  PROVE  /\ Unseen(q, n) \in Seq(Objects) /\ Once(Unseen(q, n)) /\ Seen(q, n) \subseteq Objects
         /\ \A x \in Seen(q, n) : Contains(q, x)
         /\ \A x : Contains(Unseen(q, n), x) <=> Contains(q, x) /\ x \notin Seen(q, n)
         /\ n = Len(q) => Unseen(q, n) = <<>>
         /\ Unseen(q, n) # <<>> => q # <<>>
<1> DEFINE r == Unseen(q, n)
           V == Seen(q, n)
<1>v. \A x : x \in V <=> \E i \in 1..n : x = q[i]
  BY DEF Seen
<1>r. r = SubSeq(q, n + 1, Len(q))
  BY DEF Unseen
<1> HIDE DEF r, V
<1>1. Len(q) \in Nat /\ n \in Nat /\ n <= Len(q)
  OBVIOUS
<1>2. /\ r \in Seq(Objects) /\ Len(r) = Len(q) - n
      /\ \A i \in 1..(Len(q) - n) : r[i] = q[i + n]
  BY <1>1, <1>r
<1>3. \A i \in 1..Len(r) : i + n \in 1..Len(q) /\ i + n \notin 1..n /\ r[i] = q[i + n]
  BY <1>1, <1>2
<1>4. \A i \in 1..n : i \in 1..Len(q)
  BY <1>1
<1>5. \A i \in 1..Len(q) : i \notin 1..n => i - n \in 1..Len(r) /\ r[i - n] = q[i]
  BY <1>1, <1>2
<1>6. Once(r)
  BY <1>1, <1>2, <1>3 DEF Once
<1>7. V \subseteq Objects /\ \A x \in V : Contains(q, x)
  BY <1>v, <1>4, ElementOfSeq DEF Contains
<1>8. ASSUME NEW x PROVE Contains(r, x) <=> Contains(q, x) /\ x \notin V
  <2>1. ASSUME Contains(r, x) PROVE Contains(q, x) /\ x \notin V
    <3>1. PICK i \in 1..Len(r) : r[i] = x
      BY <2>1 DEF Contains
    <3>2. i + n \in 1..Len(q) /\ q[i + n] = x /\ i + n \notin 1..n
      BY <1>3, <3>1
    <3>3. \A j \in 1..n : q[j] # x
      BY <1>4, <3>2 DEF Once
    <3>4. QED
      BY <1>v, <3>2, <3>3 DEF Contains
  <2>2. ASSUME Contains(q, x), x \notin V PROVE Contains(r, x)
    <3>1. PICK i \in 1..Len(q) : q[i] = x
      BY <2>2 DEF Contains
    <3>2. i \notin 1..n
      BY <1>v, <2>2, <3>1
    <3>3. QED
      BY <1>5, <3>1, <3>2 DEF Contains
  <2>3. QED
    BY <2>1, <2>2
<1>9. n = Len(q) => r = <<>>
  <2>1. n = Len(q) => Len(r) = 0
    BY <1>1, <1>2
  <2>2. QED
    BY <1>2, <2>1, EmptySeq
<1>10. r # <<>> => q # <<>>
  <2>1. q = <<>> => n = Len(q)
    BY <1>1
  <2>2. QED
    BY <1>9, <2>1
<1>11. QED
  BY <1>2, <1>6, <1>7, <1>8, <1>9, <1>10 DEF r, V

(* release_lane: the visited objects leave the lane queue; the lane goes to *)
(* one of them whose head waiter needs it, or home past all of them.        *)
LEMMA ReleaseFacts ==
  ASSUME CInv, NEW o \in Objects, owner[o] # NoTask,
         NEW q, q = promote_head(o).heads, NEW r, r = release_lane(o)
  PROVE  /\ r.visited \subseteq Objects /\ r.heads \in Seq(Objects) /\ Once(r.heads)
         /\ \A x \in r.visited : Contains(q, x)
         /\ \A x : Contains(r.heads, x) <=> Contains(q, x) /\ x \notin r.visited
         /\ r.heads # <<>> => r.free = promote_head(o).free /\ q # <<>>
         /\ ~owner_lane[o] => r.visited = {} /\ r.free = promote_head(o).free /\ ~r.drained
         /\ owner_lane[o] =>
              \/ r.free = promote_head(o).free + 1 /\ \A x \in r.visited : ~TakesLane(x)
              \/ /\ r.free = promote_head(o).free
                 /\ \E y \in r.visited : /\ TakesLane(y)
                                         /\ \A x \in r.visited : TakesLane(x) => x = y
         /\ r.drained => r.free = Lanes
<1> DEFINE h == promote_head(o)
           n == Visited(q)
           homed == n = 0 \/ ~TakesLane(q[n])
<1>1. q \in Seq(Objects) /\ Once(q)
  BY PromoteFacts
<1>2. CASE ~owner_lane[o]
  <2>1. r.visited = {} /\ r.heads = q /\ r.free = h.free /\ ~r.drained
    BY <1>2 DEF release_lane
  <2>2. QED
    BY <1>1, <1>2, <2>1
<1>3. CASE owner_lane[o]
  <2>1. /\ r.visited = {q[i] : i \in 1..n}
        /\ r.heads = SubSeq(q, n + 1, Len(q))
        /\ homed => r.free = h.free + 1
        /\ ~homed => r.free = h.free
        /\ r.drained => r.free = Lanes
    BY <1>3 DEF release_lane
  <2>2. /\ n \in 0..Len(q)
        /\ \A i \in 1..Len(q) : i < n => ~TakesLane(q[i])
        /\ homed => n = Len(q) /\ \A i \in 1..Len(q) : ~TakesLane(q[i])
    BY <1>1, VisitedFacts
  <2> HIDE DEF n
  <2>3. /\ r.visited \subseteq Objects /\ r.heads \in Seq(Objects) /\ Once(r.heads)
        /\ \A x \in r.visited : Contains(q, x)
        /\ \A x : Contains(r.heads, x) <=> Contains(q, x) /\ x \notin r.visited
        /\ n = Len(q) => r.heads = <<>>
        /\ r.heads # <<>> => q # <<>>
    <3>1. r.visited = Seen(q, n) /\ r.heads = Unseen(q, n)
      BY <2>1 DEF Seen, Unseen
    <3>2. QED
      BY <1>1, <2>2, <3>1, HeadsLeft
  <2>4. CASE homed
    <3>1. \A i \in 1..n : ~TakesLane(q[i])
      BY <2>2, <2>4
    <3>2. r.free = h.free + 1 /\ r.heads = <<>> /\ \A x \in r.visited : ~TakesLane(x)
      BY <2>1, <2>2, <2>3, <2>4, <3>1
    <3>3. QED
      BY <1>3, <2>1, <2>3, <3>2
  <2>5. CASE ~homed
    <3>1. n \in 1..n /\ TakesLane(q[n])
      BY <2>2, <2>5
    <3>2. \A i \in 1..n : TakesLane(q[i]) => i = n
      BY <2>2
    <3>3. \E y \in r.visited : TakesLane(y) /\ \A x \in r.visited : TakesLane(x) => x = y
      <4>1. q[n] \in r.visited
        BY <2>1, <3>1
      <4>2. \A x \in r.visited : TakesLane(x) => x = q[n]
        BY <2>1, <3>2
      <4>3. QED
        BY <3>1, <4>1, <4>2
    <3>4. QED
      BY <1>3, <2>1, <2>3, <2>5, <3>3
  <2>6. QED
    BY <2>4, <2>5
<1>4. QED
  BY <1>2, <1>3

(* The objects a freed claim lets go to their first live waiters, those     *)
(* found without one, the tasks that are woken and the waiters popped.      *)
Granted(o) ==
  {x \in release_lane(o).visited \cup (IF promote_head(o).granted THEN {o} ELSE {}) :
     AnyLive(waiters[x])}
EmptiedBy(o) == {x \in release_lane(o).visited \cup {o} : ~AnyLive(waiters[x])}
WokenBy(o) ==
  {FirstLive(waiters[x]).task : x \in Granted(o)}
    \cup (IF release_lane(o).drained THEN {d.task : d \in drain_waiters[PeerOf[o]]} ELSE {})
PoppedBy(o) ==
  {u \in Tasks : \/ \E x \in release_lane(o).visited \cup {o} : u \in Ghosts(waiters[x])
                 \/ \E x \in Granted(o) : u = FirstLive(waiters[x]).task}

(* An object that is handed over or found idle is the freed one, or was     *)
(* reserved for a waiter; the lane queue keeps the other reserved ones.     *)
LEMMA GrantedFacts ==
  ASSUME CInv, NEW o \in Objects, owner[o] # NoTask
  PROVE  /\ Granted(o) \subseteq Objects /\ EmptiedBy(o) \subseteq Objects
         /\ \A x \in Granted(o) \cup EmptiedBy(o) :
              PeerOf[x] = PeerOf[o] /\ (x # o => owner[x] = NoTask /\ ~owner_lane[x])
         /\ \A x \in Granted(o) : AnyLive(waiters[x])
         /\ \A x \in EmptiedBy(o) : ~AnyLive(waiters[x])
         /\ o \notin Granted(o) \cup EmptiedBy(o) => AnyLive(waiters[o])
         /\ release_lane(o).heads \in Seq(Objects) /\ Once(release_lane(o).heads)
         /\ \A x : Contains(release_lane(o).heads, x) =>
              /\ x \in Objects /\ PeerOf[x] = PeerOf[o] /\ x \notin Granted(o) \cup EmptiedBy(o)
              /\ x = o \/ reserved[x]
         /\ \A x \in Objects : PeerOf[x] = PeerOf[o] /\ x \notin Granted(o) \cup EmptiedBy(o)
              /\ (x = o \/ reserved[x]) => Contains(release_lane(o).heads, x)
         /\ release_lane(o).heads # <<>> => release_lane(o).free = 0
<1> DEFINE q == promote_head(o).heads
           r == release_lane(o)
           F == free_lanes[PeerOf[o]]
           g == promote_head(o).granted
<1>0. F \in Nat
  BY ClaimsAssumption DEF CInv, Types
<1>1. /\ g <=> AnyLive(waiters[o]) /\ (TakesLane(o) => F > 0)
      /\ q \in Seq(Objects)
      /\ \A i \in 1..Len(q) : PeerOf[q[i]] = PeerOf[o] /\ (q[i] = o \/ reserved[q[i]])
      /\ Contains(q, o) <=> TakesLane(o) /\ F = 0
      /\ \A x \in Objects : reserved[x] /\ PeerOf[x] = PeerOf[o] => Contains(q, x)
      /\ q # <<>> => F = 0
      /\ ~(TakesLane(o) /\ F > 0) => promote_head(o).free = F
  BY PromoteFacts
<1>2. /\ r.visited \subseteq Objects /\ r.heads \in Seq(Objects) /\ Once(r.heads)
      /\ \A x \in r.visited : Contains(q, x)
      /\ \A x : Contains(r.heads, x) <=> Contains(q, x) /\ x \notin r.visited
      /\ r.heads # <<>> => r.free = promote_head(o).free /\ q # <<>>
  BY ReleaseFacts
<1>3. \A x : Contains(q, x) => x \in Objects /\ PeerOf[x] = PeerOf[o] /\ (x = o \/ reserved[x])
  BY <1>1, ElementOfSeq DEF Contains
<1>4. \A x \in Objects : reserved[x] => owner[x] = NoTask /\ ~owner_lane[x]
  BY DEF CInv, ObjectsOK, ObjectOK
<1>5. \A x : x \in Granted(o) <=> (x \in r.visited \/ (x = o /\ g)) /\ AnyLive(waiters[x])
  BY DEF Granted
<1>6. \A x : x \in EmptiedBy(o) <=> (x \in r.visited \/ x = o) /\ ~AnyLive(waiters[x])
  BY DEF EmptiedBy
<1>7. TakesLane(o) => AnyLive(waiters[o])
  BY DEF TakesLane
<1> HIDE DEF q, r, F, g
<1>8. r.heads # <<>> => r.free = 0
  <2>1. r.heads # <<>> => F = 0 /\ r.free = promote_head(o).free
    BY <1>1, <1>2
  <2>2. F = 0 => promote_head(o).free = F
    BY <1>1
  <2>3. QED
    BY <2>1, <2>2
<1>9. \A x \in r.visited : x \in Granted(o) \cup EmptiedBy(o)
  BY <1>5, <1>6
<1>10. o \notin Granted(o) \cup EmptiedBy(o) <=> Contains(q, o) /\ o \notin r.visited
  BY <1>0, <1>1, <1>5, <1>6, <1>7
<1>11. \A x \in Granted(o) \cup EmptiedBy(o) : x = o \/ (x \in r.visited /\ reserved[x])
  BY <1>2, <1>3, <1>5, <1>6
<1>12. ASSUME NEW x, Contains(r.heads, x)
       PROVE  /\ x \in Objects /\ PeerOf[x] = PeerOf[o] /\ (x = o \/ reserved[x])
              /\ x \notin Granted(o) \cup EmptiedBy(o)
  BY <1>2, <1>3, <1>10, <1>11, <1>12
<1>13. ASSUME NEW x \in Objects, PeerOf[x] = PeerOf[o], x \notin Granted(o) \cup EmptiedBy(o),
              x = o \/ reserved[x]
       PROVE  Contains(r.heads, x)
  BY <1>1, <1>2, <1>9, <1>10, <1>13
<1>14. /\ Granted(o) \subseteq Objects /\ EmptiedBy(o) \subseteq Objects
       /\ \A x \in Granted(o) \cup EmptiedBy(o) : PeerOf[x] = PeerOf[o]
  BY <1>2, <1>3, <1>11
<1>15. QED
  BY <1>2, <1>4, <1>5, <1>6, <1>8, <1>10, <1>11, <1>12, <1>13, <1>14 DEF r

(* The lane of the freed object goes home or with one of the objects that   *)
(* are handed over, so the lanes out and at home still add up.              *)
LEMMA LaneFacts ==
  ASSUME CInv, NEW o \in Objects, owner[o] # NoTask,
         NEW A, A = (Out(PeerOf[o]) \ {o}) \cup {x \in Granted(o) : TakesLane(x)}
  PROVE  /\ release_lane(o).free \in Nat
         /\ IsFiniteSet(A) /\ release_lane(o).free + Cardinality(A) = Lanes
<1> DEFINE q == promote_head(o).heads
           hf == promote_head(o).free
           g == promote_head(o).granted
           V == release_lane(o).visited
           fr == release_lane(o).free
           F == free_lanes[PeerOf[o]]
           B == Out(PeerOf[o])
<1>0. /\ F \in Nat /\ Lanes \in Nat /\ IsFiniteSet(B) /\ F + Cardinality(B) = Lanes
      /\ PeerOf[o] \in Peers
  BY ClaimsAssumption DEF CInv, Types, PeersOK, PeerOK
<1>1. /\ g <=> AnyLive(waiters[o]) /\ (TakesLane(o) => F > 0)
      /\ \A i \in 1..Len(q) : q[i] = o \/ reserved[q[i]]
      /\ q # <<>> => F = 0
      /\ TakesLane(o) /\ F > 0 => hf = F - 1
      /\ ~(TakesLane(o) /\ F > 0) => hf = F
  BY PromoteFacts
<1>2. /\ \A x \in V : Contains(q, x)
      /\ ~owner_lane[o] => V = {} /\ fr = hf
      /\ owner_lane[o] =>
           \/ fr = hf + 1 /\ \A x \in V : ~TakesLane(x)
           \/ fr = hf /\ \E y \in V : TakesLane(y) /\ \A x \in V : TakesLane(x) => x = y
  BY ReleaseFacts
<1>3. \A x \in V : x = o \/ x \notin B
  <2>1. \A x \in V : x = o \/ reserved[x]
    BY <1>1, <1>2 DEF Contains
  <2>2. \A x \in Objects : reserved[x] => ~owner_lane[x]
    BY DEF CInv, ObjectsOK, ObjectOK
  <2>3. QED
    BY <2>1, <2>2 DEF Out, ObjectsOf
<1>4. o \in B <=> owner_lane[o]
  BY DEF Out, ObjectsOf
<1>5. \A x : TakesLane(x) => AnyLive(waiters[x])
  BY DEF TakesLane
<1>6. \A x : x \in A <=> (x \in B /\ x # o) \/ ((x \in V \/ (x = o /\ g)) /\ TakesLane(x))
  BY <1>5 DEF Granted
<1>7. Cardinality(B) \in Nat
  BY <1>0, FS_CardinalityType
<1> HIDE DEF q, hf, g, V, fr, F, B
<1>8. CASE ~owner_lane[o] /\ g /\ TakesLane(o)
  <2>1. A = B \cup {o} /\ o \notin B
    <3>1. \A x : x \in A <=> x \in B \/ x = o
      BY <1>2, <1>4, <1>6, <1>8
    <3>2. QED
      BY <3>1, <1>4, <1>8
  <2>2. IsFiniteSet(A) /\ Cardinality(A) = Cardinality(B) + 1
    <3>1. /\ IsFiniteSet(B \cup {o})
          /\ Cardinality(B \cup {o}) = IF o \in B THEN Cardinality(B) ELSE Cardinality(B) + 1
      BY <1>0, FS_AddElement
    <3>2. QED
      BY <2>1, <3>1
  <2>3. F > 0 /\ fr = F - 1
    BY <1>1, <1>2, <1>8
  <2>4. QED
    BY <1>0, <1>7, <2>2, <2>3 DEF fr
<1>9. CASE ~owner_lane[o] /\ ~(g /\ TakesLane(o))
  <2>1. A = B
    BY <1>2, <1>4, <1>6, <1>9
  <2>2. fr = F
    BY <1>1, <1>2, <1>5, <1>9
  <2>3. QED
    BY <1>0, <2>1, <2>2 DEF fr
<1>10. CASE owner_lane[o] /\ TakesLane(o) /\ F > 0
  <2>1. V = {} /\ g
    BY <1>0, <1>1, <1>2, <1>5, <1>10 DEF Contains
  <2>2. A = B
    BY <1>4, <1>6, <1>10, <2>1
  <2>3. fr = F
    BY <1>0, <1>1, <1>2, <1>10, <2>1
  <2>4. QED
    BY <1>0, <2>2, <2>3 DEF fr
<1>11. CASE owner_lane[o] /\ ~(TakesLane(o) /\ F > 0)
  <2>0. /\ ~(g /\ TakesLane(o)) /\ hf = F
        /\ IsFiniteSet(B \ {o}) /\ Cardinality(B \ {o}) = Cardinality(B) - 1
    BY <1>0, <1>1, <1>4, <1>11, FS_RemoveElement
  <2>1. CASE fr = hf + 1 /\ \A x \in V : ~TakesLane(x)
    <3>0. \A x : x \in A <=> x \in B /\ x # o
      BY <1>6, <2>0, <2>1
    <3>1. A = B \ {o}
      BY <3>0
    <3>2. IsFiniteSet(A) /\ Cardinality(A) = Cardinality(B) - 1 /\ fr = F + 1
      BY <2>0, <2>1, <3>1
    <3>3. QED
      BY <1>0, <1>7, <3>2 DEF fr
  <2>2. CASE fr = hf /\ \E y \in V : TakesLane(y) /\ \A x \in V : TakesLane(x) => x = y
    <3>1. PICK y \in V : TakesLane(y) /\ \A x \in V : TakesLane(x) => x = y
      BY <2>2
    <3>a. \A x : x \in A <=> (x \in B /\ x # o) \/ x = y
      BY <1>6, <2>0, <3>1
    <3>b. A = (B \ {o}) \cup {y}
      BY <3>a
    <3>2. A = (B \ {o}) \cup {y} /\ y \notin B \ {o}
      BY <1>3, <3>b
    <3>3. IsFiniteSet(A) /\ Cardinality(A) = Cardinality(B \ {o}) + 1
      <4> DEFINE C == B \ {o}
      <4> HIDE DEF C
      <4>1. /\ IsFiniteSet(C \cup {y})
            /\ Cardinality(C \cup {y}) = IF y \in C THEN Cardinality(C) ELSE Cardinality(C) + 1
        BY <2>0, FS_AddElement DEF C
      <4>2. QED
        BY <3>2, <4>1 DEF C
    <3>4. QED
      BY <1>0, <1>7, <2>0, <2>2, <3>3 DEF fr
  <2>3. QED
    BY <1>2, <1>11, <2>1, <2>2
<1>12. QED
  BY <1>8, <1>9, <1>10, <1>11

(* The first waiter of x that is still parked is the m-th.                  *)
ParkedAt(x, m) ==
  /\ m \in 1..Len(waiters[x])
  /\ parked_on_channel[waiters[x][m].task]
  /\ \A j \in 1..Len(waiters[x]) : j < m => ~parked_on_channel[waiters[x][j].task]

(* What happens to an object when a claim is freed: it is given to its      *)
(* first waiter, left reserved for it, found idle, or not touched.          *)
Given(x) ==
  \E m \in 1..Len(waiters[x]) :
    /\ ParkedAt(x, m) /\ owner'[x] = waiters[x][m].task /\ depth'[x] = 1
    /\ owner_lane'[x] <=> ~waiters[x][m].nested
    /\ ~reserved'[x] /\ Behind(waiters'[x], waiters[x], m)
LeftFor(x) ==
  \E m \in 1..Len(waiters[x]) :
    /\ ParkedAt(x, m) /\ owner'[x] = NoTask /\ ~owner_lane'[x]
    /\ reserved'[x] /\ Behind(waiters'[x], waiters[x], m - 1)
Idled(x) ==
  /\ \A j \in 1..Len(waiters[x]) : ~parked_on_channel[waiters[x][j].task]
  /\ owner'[x] = NoTask /\ ~owner_lane'[x] /\ ~reserved'[x] /\ waiters'[x] = <<>>
SameObject(x) ==
  /\ owner'[x] = owner[x] /\ depth'[x] = depth[x] /\ owner_lane'[x] = owner_lane[x]
  /\ waiters'[x] = waiters[x] /\ reserved'[x] = reserved[x]

(* The effect of FreeClaim on the objects, the tasks and the peers.         *)
FreedObjects(o, G, E) ==
  /\ G \subseteq Objects /\ E \subseteq Objects
  /\ \A x \in G \cup E : PeerOf[x] = PeerOf[o] /\ (x # o => owner[x] = NoTask)
  /\ \A x \in G : Given(x)
  /\ \A x \in E : Idled(x)
  /\ o \notin G \cup E => LeftFor(o)
  /\ \A x \in Objects : x \notin G \cup E /\ x # o => SameObject(x)
FreedTasks(o, t, G, W) ==
  /\ W \subseteq Tasks /\ \A x \in G : owner'[x] \in W
  /\ \A u \in W : \/ \E x \in G : owner'[x] = u
                  \/ /\ op[u] = "drain" /\ stopping[u] = PeerOf[o]
                     /\ free_lanes'[PeerOf[o]] = Lanes
  /\ \A u \in Tasks : /\ parked_on_channel'[u] <=> parked_on_channel[u] /\ u \notin W
                      /\ woken'[u] <=> u \in W \/ (woken[u] /\ u # t)
  /\ \A e \in parked_on : parked_on_channel[e.task] /\ e.task \notin W => e \in parked_on'
FreedPeers(o, W) ==
  /\ \A p \in Peers : p # PeerOf[o] => /\ free_lanes'[p] = free_lanes[p]
                                       /\ ready_heads'[p] = ready_heads[p]
                                       /\ drain_waiters'[p] = drain_waiters[p]
  /\ \A d \in drain_waiters'[PeerOf[o]] : d \in drain_waiters[PeerOf[o]] /\ d.task \notin W
  /\ Once(ready_heads'[PeerOf[o]])
  /\ \A x \in Objects : Contains(ready_heads'[PeerOf[o]], x)
                          <=> PeerOf[x] = PeerOf[o] /\ reserved'[x]
  /\ ready_heads'[PeerOf[o]] # <<>> => free_lanes'[PeerOf[o]] = 0
  /\ IsFiniteSet(Out(PeerOf[o])')
  /\ free_lanes'[PeerOf[o]] + Cardinality(Out(PeerOf[o])') = Lanes

(* A queue with a live entry has a first task that is still parked.         *)
LEMMA FirstParked ==
  ASSUME CInv, NEW x \in Objects, AnyLive(waiters[x])
  PROVE  \E m \in 1..Len(waiters[x]) :
           /\ ParkedAt(x, m) /\ FirstLive(waiters[x]) = waiters[x][m]
           /\ TakesLane(x) <=> ~waiters[x][m].nested
           /\ Behind(PastLive(waiters[x]), waiters[x], m)
           /\ Behind(FromLive(waiters[x]), waiters[x], m - 1)
<1>1. waiters[x] \in Seq(Entries)
  BY DEF CInv, Types
<1>2. PICK m \in 1..Len(waiters[x]) :
        /\ FirstAt(waiters[x], m) /\ FirstLive(waiters[x]) = waiters[x][m]
        /\ Behind(PastLive(waiters[x]), waiters[x], m)
        /\ Behind(FromLive(waiters[x]), waiters[x], m - 1)
  BY <1>1, PopFacts
<1>3. \A j \in 1..Len(waiters[x]) :
        Live(waiters[x][j].task, waiters[x][j].epoch) <=> parked_on_channel[waiters[x][j].task]
  BY QueueFacts
<1>4. ParkedAt(x, m)
  BY <1>2, <1>3 DEF FirstAt, ParkedAt
<1>5. TakesLane(x) <=> ~waiters[x][m].nested
  BY <1>2 DEF TakesLane
<1>6. QED
  BY <1>2, <1>4, <1>5

(* A queue without a live entry has no task that is still parked.           *)
LEMMA NoneParked ==
  ASSUME CInv, NEW x \in Objects, ~AnyLive(waiters[x])
  PROVE  \A j \in 1..Len(waiters[x]) : ~parked_on_channel[waiters[x][j].task]
  BY QueueFacts, LiveSomewhere

(* The objects of a freed claim.                                            *)
LEMMA FreedObjectsFacts ==
  ASSUME CInv, NEW o \in Objects, NEW t \in Tasks, owner[o] # NoTask, FreeClaim(o, t)
  PROVE  FreedObjects(o, Granted(o), EmptiedBy(o))
<1> DEFINE G == Granted(o)
           E == EmptiedBy(o)
<1>1. /\ G \subseteq Objects /\ E \subseteq Objects
      /\ \A x \in G \cup E : PeerOf[x] = PeerOf[o] /\ (x # o => owner[x] = NoTask /\ ~owner_lane[x])
      /\ \A x \in G : AnyLive(waiters[x])
      /\ \A x \in E : ~AnyLive(waiters[x])
      /\ o \notin G \cup E => AnyLive(waiters[o])
  BY GrantedFacts
<1>2. /\ owner' = [x \in Objects |-> IF x \in G THEN FirstLive(waiters[x]).task
                                     ELSE IF x = o THEN NoTask ELSE owner[x]]
      /\ depth' = [x \in Objects |-> IF x \in G THEN 1 ELSE IF x = o THEN 0 ELSE depth[x]]
      /\ owner_lane' = [x \in Objects |-> IF x \in G THEN TakesLane(x)
                                          ELSE IF x = o THEN FALSE ELSE owner_lane[x]]
      /\ waiters' = [x \in Objects |->
           CASE x \in G -> PastLive(waiters[x])
             [] x \in E -> <<>>
             [] x = o /\ x \notin G \cup E -> FromLive(waiters[x])
             [] OTHER -> waiters[x]]
      /\ reserved' = [x \in Objects |-> IF x \in G \cup E THEN FALSE ELSE x = o \/ reserved[x]]
  BY DEF FreeClaim, Granted, EmptiedBy
<1> HIDE DEF G, E
<1>a. \A x \in Objects : /\ x \in G => owner'[x] = FirstLive(waiters[x]).task
                         /\ x \notin G /\ x = o => owner'[x] = NoTask
                         /\ x \notin G /\ x # o => owner'[x] = owner[x]
  BY <1>2
<1>b. \A x \in Objects : /\ x \in G => depth'[x] = 1
                         /\ x \notin G /\ x # o => depth'[x] = depth[x]
  BY <1>2
<1>c. \A x \in Objects : /\ x \in G => owner_lane'[x] = TakesLane(x)
                         /\ x \notin G /\ x = o => ~owner_lane'[x]
                         /\ x \notin G /\ x # o => owner_lane'[x] = owner_lane[x]
  BY <1>2
<1>d. \A x \in Objects : /\ x \in G => waiters'[x] = PastLive(waiters[x])
                         /\ x \in E /\ x \notin G => waiters'[x] = <<>>
                         /\ x \notin G \cup E /\ x = o => waiters'[x] = FromLive(waiters[x])
                         /\ x \notin G \cup E /\ x # o => waiters'[x] = waiters[x]
  <2> SUFFICES ASSUME NEW x \in Objects
               PROVE  /\ x \in G => waiters'[x] = PastLive(waiters[x])
                      /\ x \in E /\ x \notin G => waiters'[x] = <<>>
                      /\ x \notin G \cup E /\ x = o => waiters'[x] = FromLive(waiters[x])
                      /\ x \notin G \cup E /\ x # o => waiters'[x] = waiters[x]
    OBVIOUS
  <2>1. waiters'[x] = CASE x \in G -> PastLive(waiters[x])
                        [] x \in E -> <<>>
                        [] x = o /\ x \notin G \cup E -> FromLive(waiters[x])
                        [] OTHER -> waiters[x]
    BY <1>2 DEF G, E
  <2>2. CASE x \in G
    BY <1>1, <2>1, <2>2
  <2>3. CASE x \in E /\ x \notin G
    BY <2>1, <2>3
  <2>4. CASE x \notin G \cup E
    BY <2>1, <2>4
  <2>5. QED
    BY <2>2, <2>3, <2>4
<1>e. \A x \in Objects : /\ x \in G \cup E => ~reserved'[x]
                         /\ x \notin G \cup E /\ x = o => reserved'[x]
                         /\ x \notin G \cup E /\ x # o => reserved'[x] = reserved[x]
  BY <1>2 DEF CInv, Types
<1>3. ASSUME NEW x \in G PROVE Given(x)
  <2>1. x \in Objects /\ AnyLive(waiters[x])
    BY <1>1
  <2>2. /\ owner'[x] = FirstLive(waiters[x]).task /\ depth'[x] = 1
        /\ owner_lane'[x] = TakesLane(x) /\ waiters'[x] = PastLive(waiters[x]) /\ ~reserved'[x]
    BY <1>a, <1>b, <1>c, <1>d, <1>e, <2>1
  <2>3. QED
    BY <2>1, <2>2, FirstParked DEF Given
<1>4. ASSUME NEW x \in E PROVE Idled(x)
  <2>1. x \in Objects /\ ~AnyLive(waiters[x]) /\ x \notin G
    BY <1>1
  <2>2. owner'[x] = NoTask /\ ~owner_lane'[x] /\ waiters'[x] = <<>> /\ ~reserved'[x]
    BY <1>1, <1>a, <1>c, <1>d, <1>e, <2>1
  <2>3. QED
    BY <1>1, <2>1, <2>2, NoneParked DEF Idled
<1>5. ASSUME o \notin G \cup E PROVE LeftFor(o)
  <2>1. /\ owner'[o] = NoTask /\ ~owner_lane'[o] /\ waiters'[o] = FromLive(waiters[o])
        /\ reserved'[o]
    BY <1>a, <1>c, <1>d, <1>e, <1>5
  <2>2. QED
    BY <1>1, <1>5, <2>1, FirstParked DEF LeftFor
<1>6. ASSUME NEW x \in Objects, x \notin G \cup E, x # o PROVE SameObject(x)
  BY <1>a, <1>b, <1>c, <1>d, <1>e, <1>6 DEF SameObject
<1>7. QED
  BY <1>1, <1>3, <1>4, <1>5, <1>6 DEF FreedObjects, G, E

(* The tasks of a freed claim.                                              *)
LEMMA FreedTasksFacts ==
  ASSUME CInv, NEW o \in Objects, NEW t \in Tasks, owner[o] # NoTask, FreeClaim(o, t)
  PROVE  FreedTasks(o, t, Granted(o), WokenBy(o))
<1> DEFINE G == Granted(o)
           W == WokenBy(o)
           p == PeerOf[o]
           D == {d.task : d \in drain_waiters[p]}
<1>0. p \in Peers
  BY ClaimsAssumption
<1>1. G \subseteq Objects /\ \A x \in G : AnyLive(waiters[x])
  BY GrantedFacts
<1>2. \A x \in G : owner'[x] = FirstLive(waiters[x]).task
  BY <1>1 DEF FreeClaim, Granted
<1>3. \A x \in G : FirstLive(waiters[x]).task \in Tasks
  <2> SUFFICES ASSUME NEW x \in G PROVE FirstLive(waiters[x]).task \in Tasks
    OBVIOUS
  <2>1. PICK m \in 1..Len(waiters[x]) : FirstLive(waiters[x]) = waiters[x][m]
    BY <1>1, FirstParked
  <2>2. QED
    BY <1>1, <2>1, QueueFacts
<1>4. \A d \in drain_waiters[p] : d.task \in Tasks /\ op[d.task] = "drain" /\ stopping[d.task] = p
  BY <1>0 DEF CInv, Types, PeersOK, PeerOK
<1>5. release_lane(o).drained => free_lanes'[p] = Lanes
  <2>1. release_lane(o).drained => release_lane(o).free = Lanes
    BY ReleaseFacts
  <2>2. free_lanes' = [free_lanes EXCEPT ![p] = release_lane(o).free]
    BY DEF FreeClaim
  <2>3. QED
    BY <1>0, <2>1, <2>2 DEF CInv, Types
<1>6. \A u : u \in W <=> \/ \E x \in G : u = FirstLive(waiters[x]).task
                         \/ release_lane(o).drained /\ \E d \in drain_waiters[p] : u = d.task
  BY DEF WokenBy
<1>7. \A u \in Tasks : /\ parked_on_channel'[u] <=> parked_on_channel[u] /\ u \notin W
                       /\ woken'[u] <=> u \in W \/ (woken[u] /\ u # t)
  <2>1. /\ parked_on_channel' = [u \in Tasks |-> parked_on_channel[u] /\ u \notin W]
        /\ woken' = [u \in Tasks |-> u \in W \/ (woken[u] /\ u # t)]
    BY DEF FreeClaim, WokenBy, Granted
  <2>2. QED
    BY <2>1
<1>8. ASSUME NEW e \in parked_on, parked_on_channel[e.task], e.task \notin W
      PROVE  e \in parked_on'
  <2>1. parked_on' = {f \in parked_on : ~(PeerOf[f.obj] = p /\ f.task \in PoppedBy(o))}
    BY DEF FreeClaim, PoppedBy, Granted
  <2>2. ASSUME NEW x \in release_lane(o).visited \cup {o} PROVE e.task \notin Ghosts(waiters[x])
    <3>1. x \in Objects
      BY ReleaseFacts
    <3>2. waiters[x] \in Seq(Entries)
      BY <3>1 DEF CInv, Types
    <3>3. QED
      BY <1>8, <3>1, <3>2, GhostFacts, QueueFacts
  <2>3. \A x \in G : e.task # FirstLive(waiters[x]).task
    BY <1>6, <1>8
  <2>4. e.task \notin PoppedBy(o)
    BY <2>2, <2>3 DEF PoppedBy
  <2>5. QED
    BY <2>1, <2>4
<1> HIDE DEF G, W, p
<1>9. W \subseteq Tasks /\ \A x \in G : owner'[x] \in W
  BY <1>2, <1>3, <1>4, <1>6
<1>10. \A u \in W : \/ \E x \in G : owner'[x] = u
                    \/ op[u] = "drain" /\ stopping[u] = p /\ free_lanes'[p] = Lanes
  BY <1>2, <1>4, <1>5, <1>6
<1>11. QED
  BY <1>7, <1>8, <1>9, <1>10 DEF FreedTasks, G, W, p

(* The peer of a freed claim.                                               *)
LEMMA FreedPeersFacts ==
  ASSUME CInv, NEW o \in Objects, NEW t \in Tasks, owner[o] # NoTask, FreeClaim(o, t)
  PROVE  FreedPeers(o, WokenBy(o))
<1> DEFINE G == Granted(o)
           E == EmptiedBy(o)
           W == WokenBy(o)
           p == PeerOf[o]
           r == release_lane(o)
<1>0. p \in Peers
  BY ClaimsAssumption
<1>1. /\ free_lanes' = [free_lanes EXCEPT ![p] = r.free]
      /\ ready_heads' = [ready_heads EXCEPT ![p] = r.heads]
      /\ drain_waiters' = IF r.drained THEN [drain_waiters EXCEPT ![p] = {}] ELSE drain_waiters
      /\ reserved' = [x \in Objects |-> IF x \in G \cup E THEN FALSE ELSE x = o \/ reserved[x]]
      /\ owner_lane' = [x \in Objects |-> IF x \in G THEN TakesLane(x)
                                          ELSE IF x = o THEN FALSE ELSE owner_lane[x]]
  BY DEF FreeClaim, Granted, EmptiedBy
<1>2. free_lanes'[p] = r.free /\ ready_heads'[p] = r.heads
  BY <1>0, <1>1 DEF CInv, Types
<1>3. /\ r.heads \in Seq(Objects) /\ Once(r.heads)
      /\ \A x : Contains(r.heads, x) => /\ x \in Objects /\ PeerOf[x] = p /\ x \notin G \cup E
                                        /\ x = o \/ reserved[x]
      /\ \A x \in Objects : PeerOf[x] = p /\ x \notin G \cup E /\ (x = o \/ reserved[x])
                              => Contains(r.heads, x)
      /\ r.heads # <<>> => r.free = 0
  BY GrantedFacts
<1>4. ASSUME NEW x \in Objects
      PROVE  Contains(ready_heads'[p], x) <=> PeerOf[x] = p /\ reserved'[x]
  BY <1>1, <1>2, <1>3
<1>5. ASSUME NEW d \in drain_waiters'[p] PROVE d \in drain_waiters[p] /\ d.task \notin W
  <2>1. ~r.drained /\ d \in drain_waiters[p]
    BY <1>0, <1>1 DEF CInv, Types
  <2>2. op[d.task] = "drain"
    BY <1>0, <2>1 DEF CInv, PeersOK, PeerOK
  <2>3. ASSUME NEW x \in G PROVE op[FirstLive(waiters[x]).task] = "claim"
    <3>1. x \in Objects /\ AnyLive(waiters[x])
      BY GrantedFacts
    <3>2. PICK m \in 1..Len(waiters[x]) : FirstLive(waiters[x]) = waiters[x][m]
      BY <3>1, FirstParked
    <3>3. QED
      BY <3>1, <3>2, QueueFacts DEF EntryOK
  <2>4. QED
    BY <2>1, <2>2, <2>3 DEF WokenBy
<1>6. IsFiniteSet(Out(p)') /\ free_lanes'[p] + Cardinality(Out(p)') = Lanes
  <2> DEFINE A == (Out(p) \ {o}) \cup {x \in G : TakesLane(x)}
  <2>1. G \subseteq Objects /\ \A x \in G : PeerOf[x] = p /\ (x # o => ~owner_lane[x])
    BY GrantedFacts
  <2>2. \A x \in Objects : owner_lane'[x] <=>
          (x \in G /\ TakesLane(x)) \/ (x \notin G /\ x # o /\ owner_lane[x])
    BY <1>1
  <2>3. \A x : x \in Out(p)' <=> x \in Objects /\ PeerOf[x] = p /\ owner_lane'[x]
    BY DEF Out, ObjectsOf
  <2>4. \A x : x \in A <=> \/ x \in Objects /\ PeerOf[x] = p /\ owner_lane[x] /\ x # o
                           \/ x \in G /\ TakesLane(x)
    BY DEF Out, ObjectsOf
  <2> HIDE DEF A, G, p
  <2>5. \A x : x \in Out(p)' <=> x \in A
    BY <2>1, <2>2, <2>3, <2>4
  <2>6. Out(p)' = A
    BY <2>5
  <2>7. IsFiniteSet(A) /\ r.free + Cardinality(A) = Lanes
    BY LaneFacts DEF A, G, p
  <2>8. QED
    BY <1>2, <2>6, <2>7
<1>7. \A y \in Peers : y # p => /\ free_lanes'[y] = free_lanes[y]
                                /\ ready_heads'[y] = ready_heads[y]
                                /\ drain_waiters'[y] = drain_waiters[y]
  BY <1>0, <1>1 DEF CInv, Types
<1>8. QED
  BY <1>2, <1>3, <1>4, <1>5, <1>6, <1>7 DEF FreedPeers

-----------------------------------------------------------------------------
(* Freeing a claim keeps the invariant.                                     *)

(* The task t that frees o: it is not parked, stands in no queue and        *)
(* returns to its own code, outside of o.                                   *)
Leaves(t, o) ==
  /\ owner[o] = t /\ ~parked_on_channel[t] /\ op[t] # "drain"
  /\ \A x \in Objects : \A i \in 1..Len(waiters[x]) : waiters[x][i].task # t
  /\ \A x \in Objects : x # o => ~(woken[t] /\ want[t] = x)
  /\ op'[t] = "none" /\ want'[t] = NoObj /\ ~cancel_requested'[t]
  /\ Count(calls'[t], o) = 0 /\ \A x \in Objects : x # o => Count(calls'[t], x) = Count(calls[t], x)
  /\ \A u \in Tasks : u # t =>
       /\ op'[u] = op[u] /\ want'[u] = want[u] /\ stopping'[u] = stopping[u]
       /\ park_epoch'[u] = park_epoch[u] /\ cancel_requested'[u] = cancel_requested[u]
       /\ calls'[u] = calls[u]

Freeing(t, o, G, E, W) ==
  /\ Leaves(t, o)
  /\ FreedObjects(o, G, E) /\ FreedTasks(o, t, G, W) /\ FreedPeers(o, W)
  /\ UNCHANGED stopped

(* The new owner of a granted object was parked for it.                     *)
LEMMA GivenFacts ==
  ASSUME CInv, NEW t \in Tasks, NEW o \in Objects, NEW G, NEW E, NEW W,
         Freeing(t, o, G, E, W), NEW x \in G
  PROVE  /\ x \in Objects /\ owner'[x] \in Tasks /\ owner'[x] # t /\ owner'[x] # NoTask
         /\ op[owner'[x]] = "claim" /\ want[owner'[x]] = x /\ ~woken[owner'[x]]
         /\ parked_on_channel[owner'[x]]
         /\ depth'[x] = 1 /\ ~reserved'[x]
         /\ owner_lane'[x] <=> ~Nested(owner'[x], x)
         /\ \A u \in Tasks : owner[x] = u => u = t
<1>1. x \in Objects /\ Given(x) /\ (x # o => owner[x] = NoTask) /\ owner[o] = t
  BY DEF Freeing, FreedObjects, Leaves
<1>2. PICK m \in 1..Len(waiters[x]) :
        /\ ParkedAt(x, m) /\ owner'[x] = waiters[x][m].task /\ depth'[x] = 1
        /\ owner_lane'[x] <=> ~waiters[x][m].nested
        /\ ~reserved'[x]
  BY <1>1 DEF Given
<1>3. /\ waiters[x][m].task \in Tasks /\ EntryOK(waiters[x][m], x)
      /\ waiters[x][m].nested \in BOOLEAN
  BY <1>1, QueueFacts
<1>4. waiters[x][m].task # t
  BY <1>1 DEF Freeing, Leaves
<1>5. \A u \in Tasks : owner[x] = u => u = t
  BY <1>1, ClaimsAssumption
<1>6. QED
  BY <1>1, <1>2, <1>3, <1>4, <1>5, ClaimsAssumption DEF EntryOK, ParkedAt

(* Who is woken: the new owner of an object, or a drain that finds every    *)
(* lane at home.                                                            *)
LEMMA WokenFacts ==
  ASSUME CInv, NEW t \in Tasks, NEW o \in Objects, NEW G, NEW E, NEW W,
         Freeing(t, o, G, E, W), NEW u \in W
  PROVE  /\ u \in Tasks /\ u # t /\ ~woken[u]
         /\ \/ /\ op[u] = "claim" /\ want[u] \in G /\ owner'[want[u]] = u
            \/ /\ op[u] = "drain" /\ want[u] = NoObj /\ stopping[u] = PeerOf[o]
               /\ free_lanes'[PeerOf[o]] = Lanes
<1>1. u \in Tasks /\ TaskOK(u) /\ HomeOK(u)
  BY DEF Freeing, FreedTasks, CInv, TasksOK
<1>2. CASE \E x \in G : owner'[x] = u
  BY <1>1, <1>2, GivenFacts
<1>3. CASE op[u] = "drain" /\ stopping[u] = PeerOf[o] /\ free_lanes'[PeerOf[o]] = Lanes
  <2>1. u # t
    BY <1>3 DEF Freeing, Leaves
  <2>2. ~woken[u]
    <3> SUFFICES ASSUME woken[u] PROVE FALSE
      OBVIOUS
    <3>1. free_lanes[PeerOf[o]] = Lanes
      BY <1>1, <1>3 DEF HomeOK
    <3>2. PeerOf[o] \in Peers /\ o \in ObjectsOf(PeerOf[o])
      BY ClaimsAssumption DEF ObjectsOf
    <3>3. owner[o] = NoTask
      BY <3>1, <3>2, QuietWhenHome
    <3>4. QED
      BY <3>3, ClaimsAssumption DEF Freeing, Leaves
  <2>3. QED
    BY <1>1, <1>3, <2>1, <2>2 DEF TaskOK
<1>4. QED
  BY <1>2, <1>3 DEF Freeing, FreedTasks

(* Only a task that is not woken stays parked, and the others keep what     *)
(* they were told.                                                          *)
LEMMA FreeingTaskOK ==
  ASSUME CInv, NEW t \in Tasks, NEW o \in Objects, NEW G, NEW E, NEW W,
         Freeing(t, o, G, E, W), NEW u \in Tasks
  PROVE  TaskOK(u)' /\ HomeOK(u)'
<1>0. TaskOK(u) /\ HomeOK(u) /\ stopped' = stopped
  BY DEF CInv, TasksOK, Freeing
<1>1. /\ parked_on_channel'[u] <=> parked_on_channel[u] /\ u \notin W
      /\ woken'[u] <=> u \in W \/ (woken[u] /\ u # t)
  BY DEF Freeing, FreedTasks
<1>2. CASE u = t
  <2>1. /\ op'[u] = "none" /\ want'[u] = NoObj /\ ~cancel_requested'[u] /\ ~parked_on_channel[u]
    BY <1>2 DEF Freeing, Leaves
  <2>2. u \notin W
    BY <1>2, WokenFacts
  <2>3. QED
    BY <1>1, <1>2, <2>1, <2>2 DEF TaskOK, HomeOK
<1>3. CASE u # t
  <2>1. /\ op'[u] = op[u] /\ want'[u] = want[u] /\ stopping'[u] = stopping[u]
        /\ cancel_requested'[u] = cancel_requested[u]
    BY <1>3 DEF Freeing, Leaves
  <2>2. u \in W => op[u] \in {"claim", "drain"} /\ ~woken[u]
    BY WokenFacts
  <2>3. TaskOK(u)'
    BY <1>0, <1>1, <1>3, <2>1, <2>2 DEF TaskOK
  <2>4. ASSUME op[u] = "drain", woken'[u] PROVE free_lanes'[stopping[u]] = Lanes
    <3>1. CASE u \in W
      BY <2>4, <3>1, WokenFacts
    <3>2. CASE woken[u]
      <4>1. free_lanes[stopping[u]] = Lanes /\ stopping[u] \in Peers
        BY <1>0, <2>4, <3>2 DEF HomeOK, TaskOK
      <4>2. stopping[u] # PeerOf[o]
        <5> SUFFICES ASSUME stopping[u] = PeerOf[o] PROVE FALSE
          OBVIOUS
        <5>1. o \in ObjectsOf(stopping[u])
          BY DEF ObjectsOf
        <5>2. owner[o] = NoTask
          BY <4>1, <5>1, QuietWhenHome
        <5>3. QED
          BY <5>2, ClaimsAssumption DEF Freeing, Leaves
      <4>3. QED
        BY <4>1, <4>2 DEF Freeing, FreedPeers
    <3>3. QED
      BY <1>1, <2>4, <3>1, <3>2
  <2>5. QED
    BY <2>1, <2>3, <2>4 DEF HomeOK
<1>4. QED
  BY <1>2, <1>3

(* What another task holds is not touched.                                  *)
LEMMA FreeingOthers ==
  ASSUME CInv, NEW t \in Tasks, NEW o \in Objects, NEW G, NEW E, NEW W,
         Freeing(t, o, G, E, W), NEW x \in Objects, NEW u \in Tasks, owner[x] = u, x # o
  PROVE  SameObject(x)
  BY ClaimsAssumption DEF Freeing, FreedObjects

(* A handed-over claim has a lane exactly if its task has no conversation.  *)
LEMMA FreeingHandedOK ==
  ASSUME CInv, NEW t \in Tasks, NEW o \in Objects, NEW G, NEW E, NEW W,
         Freeing(t, o, G, E, W), NEW u \in Tasks
  PROVE  HandedOK(u)'
<1> SUFFICES ASSUME op'[u] = "claim", woken'[u]
             PROVE  depth'[want'[u]] = 1 /\ (owner_lane'[want'[u]] <=> ~Nested(u, want[u])')
  BY DEF HandedOK
<1>1. u # t
  BY DEF Freeing, Leaves
<1>2. op[u] = "claim" /\ want'[u] = want[u] /\ calls'[u] = calls[u]
  BY <1>1 DEF Freeing, Leaves
<1>3. Nested(u, want[u])' <=> Nested(u, want[u])
  BY <1>2 DEF Nested
<1>4. CASE u \in W
  <2>1. want[u] \in G /\ owner'[want[u]] = u
    BY <1>2, <1>4, WokenFacts
  <2>2. QED
    BY <1>2, <1>3, <2>1, GivenFacts
<1>5. CASE woken[u]
  <2>1. HandedOK(u) /\ TaskOK(u)
    BY DEF CInv, TasksOK
  <2>2. want[u] \in Objects
    BY <1>2, <2>1 DEF TaskOK
  <2>3. owner[want[u]] = u
    BY <1>5, <2>2, HeldFacts
  <2>4. want[u] # o
    BY <1>1, <2>3 DEF Freeing, Leaves
  <2>5. SameObject(want[u])
    BY <2>2, <2>3, <2>4, FreeingOthers
  <2>6. QED
    BY <1>2, <1>3, <1>5, <2>1, <2>5 DEF HandedOK, SameObject
<1>6. QED
  BY <1>4, <1>5 DEF Freeing, FreedTasks

(* A task that is still parked is still in its queue and in the index.      *)
LEMMA FreeingEdgeOK ==
  ASSUME CInv, NEW t \in Tasks, NEW o \in Objects, NEW G, NEW E, NEW W,
         Freeing(t, o, G, E, W), NEW u \in Tasks
  PROVE  EdgeOK(u)'
<1> SUFFICES ASSUME parked_on_channel'[u], op'[u] = "claim"
             PROVE  /\ [task |-> u, obj |-> want'[u], epoch |-> park_epoch'[u]] \in parked_on'
                    /\ \E i \in 1..Len(waiters'[want'[u]]) : waiters'[want'[u]][i].task = u
  BY DEF EdgeOK
<1> DEFINE x == want[u]
<1>1. parked_on_channel[u] /\ u \notin W
  BY DEF Freeing, FreedTasks
<1>2. u # t
  BY DEF Freeing, Leaves
<1>3. op[u] = "claim" /\ want'[u] = x /\ park_epoch'[u] = park_epoch[u]
  BY <1>2 DEF Freeing, Leaves
<1>4. EdgeOK(u) /\ TaskOK(u)
  BY DEF CInv, TasksOK
<1>5. x \in Objects
  BY <1>3, <1>4 DEF TaskOK
<1>6. PICK i \in 1..Len(waiters[x]) : waiters[x][i].task = u
  BY <1>1, <1>3, <1>4 DEF EdgeOK
<1>7. [task |-> u, obj |-> x, epoch |-> park_epoch[u]] \in parked_on'
  <2> DEFINE e == [task |-> u, obj |-> x, epoch |-> park_epoch[u]]
  <2>1. e \in parked_on /\ e.task = u
    BY <1>1, <1>3, <1>4 DEF EdgeOK
  <2> HIDE DEF e
  <2>2. e \in parked_on'
    BY <1>1, <2>1 DEF Freeing, FreedTasks
  <2>3. QED
    BY <2>2 DEF e
<1> HIDE DEF x
<1>8. ASSUME NEW m \in 0..Len(waiters[x]), i > m, Behind(waiters'[x], waiters[x], m)
      PROVE  \E k \in 1..Len(waiters'[x]) : waiters'[x][k].task = u
  <2>1. waiters[x] \in Seq(Entries)
    BY <1>5 DEF CInv, Types
  <2>2. Len(waiters[x]) \in Nat /\ i - m \in 1..(Len(waiters[x]) - m) /\ (i - m) + m = i
    BY <1>8, <2>1
  <2>3. i - m \in 1..Len(waiters'[x]) /\ waiters'[x][i - m] = waiters[x][i]
    BY <1>8, <2>2 DEF Behind
  <2>4. QED
    BY <1>6, <2>3
<1>9. \E k \in 1..Len(waiters'[x]) : waiters'[x][k].task = u
  <2>0. Len(waiters[x]) \in Nat
    BY <1>5 DEF CInv, Types
  <2>1. CASE x \in G
    <3>1. Given(x) /\ owner'[x] \in W
      BY <2>1 DEF Freeing, FreedObjects, FreedTasks
    <3>2. PICK m \in 1..Len(waiters[x]) :
            /\ ParkedAt(x, m) /\ owner'[x] = waiters[x][m].task
            /\ Behind(waiters'[x], waiters[x], m)
      BY <3>1 DEF Given
    <3>3. ~(i < m) /\ i # m
      BY <1>1, <1>6, <3>1, <3>2 DEF ParkedAt
    <3>4. QED
      BY <1>8, <2>0, <3>2, <3>3
  <2>2. CASE x \in E
    BY <1>1, <1>6, <2>2 DEF Freeing, FreedObjects, Idled
  <2>3. CASE x = o /\ x \notin G \cup E
    <3>1. PICK m \in 1..Len(waiters[x]) :
            ParkedAt(x, m) /\ Behind(waiters'[x], waiters[x], m - 1)
      BY <2>3 DEF Freeing, FreedObjects, LeftFor
    <3>2. ~(i < m)
      BY <1>1, <1>6, <3>1 DEF ParkedAt
    <3>3. m - 1 \in 0..Len(waiters[x]) /\ i > m - 1
      BY <2>0, <3>2
    <3>4. QED
      BY <1>8, <3>1, <3>3
  <2>4. CASE x # o /\ x \notin G \cup E
    BY <1>5, <1>6, <2>4 DEF Freeing, FreedObjects, SameObject
  <2>5. QED
    BY <2>1, <2>2, <2>3, <2>4
<1>10. QED
  BY <1>3, <1>7, <1>9 DEF x

(* A task whose calls and their lanes stay the same keeps them in order.    *)
LEMMA LaneKept ==
  ASSUME NEW u, LaneOK(u), calls'[u] = calls[u],
         \A i \in 1..Len(calls[u]) : owner_lane'[calls[u][i]] = owner_lane[calls[u][i]]
  PROVE  LaneOK(u)'
<1>1. ASSUME NEW i \in 1..Len(calls'[u]), NEW j \in 1..Len(calls'[u]),
             owner_lane'[calls'[u][i]], PeerOf[calls'[u][j]] = PeerOf[calls'[u][i]],
             calls'[u][j] # calls'[u][i]
      PROVE  \E k \in 1..Len(calls'[u]) : k < j /\ calls'[u][k] = calls'[u][i]
  <2>1. i \in 1..Len(calls[u]) /\ j \in 1..Len(calls[u]) /\ owner_lane[calls[u][i]]
    BY <1>1
  <2>2. \E k \in 1..Len(calls[u]) : k < j /\ calls[u][k] = calls[u][i]
    BY <1>1, <2>1 DEF LaneOK
  <2>3. QED
    BY <2>2
<1>2. ASSUME NEW i \in 1..Len(calls'[u])
      PROVE  \E j \in 1..Len(calls'[u]) :
               owner_lane'[calls'[u][j]] /\ PeerOf[calls'[u][j]] = PeerOf[calls'[u][i]]
  <2>1. PICK j \in 1..Len(calls[u]) :
          owner_lane[calls[u][j]] /\ PeerOf[calls[u][j]] = PeerOf[calls[u][i]]
    BY DEF LaneOK
  <2>2. QED
    BY <2>1
<1>3. \A i, j \in 1..Len(calls'[u]) :
        owner_lane'[calls'[u][i]] /\ PeerOf[calls'[u][j]] = PeerOf[calls'[u][i]]
          /\ calls'[u][j] # calls'[u][i] =>
               \E k \in 1..Len(calls'[u]) : k < j /\ calls'[u][k] = calls'[u][i]
  BY <1>1, Zenon
<1>4. QED
  BY <1>2, <1>3, Zenon DEF LaneOK

(* The lanes of the other tasks' conversations are not touched.             *)
LEMMA FreeingLaneOK ==
  ASSUME CInv, NEW t \in Tasks, NEW o \in Objects, NEW G, NEW E, NEW W,
         Freeing(t, o, G, E, W), NEW u \in Tasks, u # t
  PROVE  LaneOK(u)'
<1>1. calls'[u] = calls[u] /\ LaneOK(u)
  BY DEF Freeing, Leaves, CInv, TasksOK
<1>2. \A i \in 1..Len(calls[u]) : owner_lane'[calls[u][i]] = owner_lane[calls[u][i]]
  <2> SUFFICES ASSUME NEW i \in 1..Len(calls[u])
               PROVE  owner_lane'[calls[u][i]] = owner_lane[calls[u][i]]
    OBVIOUS
  <2>1. calls[u][i] \in Objects /\ owner[calls[u][i]] = u
    BY CallerOwns
  <2>2. calls[u][i] # o
    BY <2>1 DEF Freeing, Leaves
  <2>3. QED
    BY <2>1, <2>2, FreeingOthers DEF SameObject
<1>3. QED
  BY <1>1, <1>2, LaneKept

(* An object's queue loses its first entries at most, and keeps the tasks   *)
(* that wait for it.                                                        *)
LEMMA FreeingQueueOK ==
  ASSUME CInv, NEW t \in Tasks, NEW o \in Objects, NEW G, NEW E, NEW W,
         Freeing(t, o, G, E, W), NEW x \in Objects
  PROVE  QueueOK(x)'
<1>0. /\ waiters[x] \in Seq(Entries) /\ Apart(waiters[x])
      /\ \A i \in 1..Len(waiters[x]) : EntryOK(waiters[x][i], x) /\ waiters[x][i].task \in Tasks
  BY QueueFacts DEF CInv, Types, ObjectsOK, QueueOK
<1>1. ASSUME NEW i \in 1..Len(waiters[x]), waiters[x][i].task \notin W,
             NEW e, e = waiters[x][i]
      PROVE  EntryOK(e, x)'
  <2>1. e.task \in Tasks /\ e.task # t /\ EntryOK(e, x)
    BY <1>0, <1>1 DEF Freeing, Leaves
  <2>2. ~woken'[e.task]
    BY <1>1, <2>1 DEF Freeing, FreedTasks, EntryOK
  <2>3. /\ op'[e.task] = op[e.task] /\ want'[e.task] = want[e.task]
        /\ park_epoch'[e.task] = park_epoch[e.task] /\ calls'[e.task] = calls[e.task]
    BY <2>1 DEF Freeing, Leaves
  <2>4. QED
    BY <2>1, <2>2, <2>3 DEF EntryOK, Nested
<1>2. ASSUME NEW i \in 1..Len(waiters[x]), waiters[x][i].task \in W
      PROVE  x \in G /\ owner'[x] = waiters[x][i].task
  BY <1>0, <1>2, WokenFacts DEF EntryOK
<1>3. ASSUME NEW m \in 0..Len(waiters[x]), Behind(waiters'[x], waiters[x], m),
             \A i \in 1..Len(waiters[x]) : i > m => waiters[x][i].task \notin W
      PROVE  QueueOK(x)'
  <2>1. Len(waiters[x]) \in Nat
    BY <1>0
  <2>2. ASSUME NEW k \in 1..Len(waiters'[x])
        PROVE  /\ k + m \in 1..Len(waiters[x]) /\ waiters'[x][k] = waiters[x][k + m]
               /\ waiters[x][k + m].task \notin W
    <3>1. k + m \in 1..Len(waiters[x]) /\ waiters'[x][k] = waiters[x][k + m] /\ k \in Nat
      BY <1>3 DEF Behind
    <3>2. k + m > m
      BY <2>1, <3>1
    <3>3. QED
      BY <1>3, <3>1, <3>2
  <2>3. ASSUME NEW k \in 1..Len(waiters'[x]) PROVE EntryOK(waiters[x][k], x)'
    <3>1. PICK e : e = waiters'[x][k]
      OBVIOUS
    <3>2. EntryOK(e, x)'
      BY <1>1, <2>2, <3>1
    <3>3. QED
      BY <3>1, <3>2 DEF EntryOK
  <2>4. Apart(waiters[x])'
    <3> SUFFICES ASSUME NEW i \in 1..Len(waiters'[x]), NEW j \in 1..Len(waiters'[x]), i # j
                 PROVE  waiters'[x][i].task # waiters'[x][j].task
      BY DEF Apart
    <3>1. i + m # j + m
      BY <2>1
    <3>2. /\ i + m \in 1..Len(waiters[x]) /\ waiters'[x][i] = waiters[x][i + m]
          /\ j + m \in 1..Len(waiters[x]) /\ waiters'[x][j] = waiters[x][j + m]
      BY <2>2
    <3>3. waiters[x][i + m].task # waiters[x][j + m].task
      BY <1>0, <3>1, <3>2 DEF Apart
    <3>4. QED
      BY <3>2, <3>3
  <2>5. QED
    BY <2>3, <2>4 DEF QueueOK
<1>4. CASE x \in G
  <2>1. PICK m \in 1..Len(waiters[x]) :
          owner'[x] = waiters[x][m].task /\ Behind(waiters'[x], waiters[x], m)
    BY <1>4 DEF Freeing, FreedObjects, Given
  <2>2. \A i \in 1..Len(waiters[x]) : i > m => waiters[x][i].task \notin W
    BY <1>0, <1>2, <2>1 DEF Apart
  <2>3. m \in 0..Len(waiters[x])
    BY <1>0
  <2>4. QED
    BY <1>3, <2>1, <2>2, <2>3
<1>5. CASE x \in E /\ x \notin G
  <2>1. waiters'[x] = <<>>
    BY <1>5 DEF Freeing, FreedObjects, Idled
  <2>2. Len(waiters'[x]) = 0
    BY <2>1
  <2>3. QED
    BY <2>2 DEF QueueOK, Apart
<1>6. CASE x = o /\ x \notin G \cup E
  <2>1. PICK m \in 1..Len(waiters[x]) : Behind(waiters'[x], waiters[x], m - 1)
    BY <1>6 DEF Freeing, FreedObjects, LeftFor
  <2>2. \A i \in 1..Len(waiters[x]) : waiters[x][i].task \notin W
    BY <1>2, <1>6
  <2>3. m - 1 \in 0..Len(waiters[x])
    BY <1>0
  <2>4. QED
    BY <1>3, <2>1, <2>2, <2>3
<1>7. CASE x # o /\ x \notin G \cup E
  <2>1. waiters'[x] = waiters[x]
    BY <1>7 DEF Freeing, FreedObjects, SameObject
  <2>2. \A i \in 1..Len(waiters[x]) : waiters[x][i].task \notin W
    BY <1>2, <1>7
  <2>3. ASSUME NEW k \in 1..Len(waiters'[x]) PROVE EntryOK(waiters[x][k], x)'
    <3>1. PICK e : e = waiters'[x][k]
      OBVIOUS
    <3>2. EntryOK(e, x)'
      BY <1>1, <2>1, <2>2, <3>1
    <3>3. QED
      BY <3>1, <3>2 DEF EntryOK
  <2>4. QED
    BY <1>0, <2>1, <2>3 DEF QueueOK, Apart
<1>8. QED
  BY <1>4, <1>5, <1>6, <1>7

(* An object somebody waits for is owned or reserved, and queued for a lane *)
(* when reserved.                                                           *)
LEMMA FreeingObjectOK ==
  ASSUME CInv, NEW t \in Tasks, NEW o \in Objects, NEW G, NEW E, NEW W,
         Freeing(t, o, G, E, W), NEW x \in Objects
  PROVE  ObjectOK(x)'
<1>0. ObjectOK(x) /\ PeerOf[o] \in Peers /\ PeerOf[x] \in Peers
  BY ClaimsAssumption DEF CInv, ObjectsOK
<1>1. reserved'[x] => Contains(ready_heads'[PeerOf[x]], x)
  <2>1. CASE PeerOf[x] = PeerOf[o]
    BY <2>1 DEF Freeing, FreedPeers
  <2>2. CASE PeerOf[x] # PeerOf[o]
    <3>1. SameObject(x)
      BY <2>2 DEF Freeing, FreedObjects
    <3>2. ready_heads'[PeerOf[x]] = ready_heads[PeerOf[x]]
      BY <1>0, <2>2 DEF Freeing, FreedPeers
    <3>3. QED
      BY <1>0, <3>1, <3>2 DEF ObjectOK, SameObject
  <2>3. QED
    BY <2>1, <2>2
<1>2. CASE x \in G
  <2>1. owner'[x] # NoTask /\ ~reserved'[x] /\ depth'[x] = 1
    BY <1>2, GivenFacts
  <2>2. QED
    BY <2>1 DEF ObjectOK
<1>3. CASE x \in E
  <2>1. owner'[x] = NoTask /\ ~owner_lane'[x] /\ ~reserved'[x] /\ waiters'[x] = <<>>
    BY <1>3 DEF Freeing, FreedObjects, Idled
  <2>2. ~AnyLive(waiters[x])'
    <3>1. Len(waiters'[x]) = 0
      BY <2>1
    <3>2. QED
      BY <3>1 DEF AnyLive, LiveIn
  <2>3. QED
    BY <2>1, <2>2 DEF ObjectOK
<1>4. CASE x = o /\ x \notin G \cup E
  <2>1. owner'[x] = NoTask /\ ~owner_lane'[x] /\ reserved'[x]
    BY <1>4 DEF Freeing, FreedObjects, LeftFor
  <2>2. QED
    BY <1>1, <2>1 DEF ObjectOK
<1>5. CASE x # o /\ x \notin G \cup E
  <2>1. SameObject(x)
    BY <1>5 DEF Freeing, FreedObjects
  <2>2. AnyLive(waiters[x])' => AnyLive(waiters[x])
    <3> SUFFICES ASSUME AnyLive(waiters[x])' PROVE AnyLive(waiters[x])
      OBVIOUS
    <3>1. PICK i \in 1..Len(waiters[x]) : parked_on_channel'[waiters[x][i].task]
      BY <2>1 DEF SameObject, AnyLive, LiveIn, Live
    <3>2. waiters[x][i].task \in Tasks
      BY QueueFacts
    <3>3. parked_on_channel[waiters[x][i].task]
      BY <3>1, <3>2 DEF Freeing, FreedTasks
    <3>4. Live(waiters[x][i].task, waiters[x][i].epoch)
      BY <3>3, QueueFacts
    <3>5. QED
      BY <3>4, LiveSomewhere
  <2>3. QED
    BY <1>0, <1>1, <2>1, <2>2 DEF ObjectOK, SameObject
<1>6. QED
  BY <1>2, <1>3, <1>4, <1>5

(* The lane queues, the lanes and the drains of every peer.                 *)
LEMMA FreeingPeerOK ==
  ASSUME CInv, NEW t \in Tasks, NEW o \in Objects, NEW G, NEW E, NEW W,
         Freeing(t, o, G, E, W), ready_heads' \in [Peers -> Seq(Objects)], NEW p \in Peers
  PROVE  PeerOK(p)'
<1>0. PeerOK(p)
  BY DEF CInv, PeersOK
<1>1. ASSUME NEW d \in drain_waiters'[p]
      PROVE  op'[d.task] = "drain" /\ stopping'[d.task] = p /\ ~woken'[d.task]
  <2>1. d \in drain_waiters[p] /\ d.task \notin W
    <3>1. CASE p = PeerOf[o]
      BY <3>1 DEF Freeing, FreedPeers
    <3>2. CASE p # PeerOf[o]
      <4>1. d \in drain_waiters[p]
        BY <3>2 DEF Freeing, FreedPeers
      <4>2. op[d.task] = "drain" /\ stopping[d.task] = p
        BY <1>0, <4>1 DEF PeerOK
      <4>3. QED
        BY <3>2, <4>1, <4>2, WokenFacts
    <3>3. QED
      BY <3>1, <3>2
  <2>2. d.task \in Tasks
    BY <2>1 DEF CInv, Types
  <2>3. op[d.task] = "drain" /\ stopping[d.task] = p /\ ~woken[d.task]
    BY <1>0, <2>1 DEF PeerOK
  <2>4. d.task # t
    BY <2>3 DEF Freeing, Leaves
  <2>5. op'[d.task] = "drain" /\ stopping'[d.task] = p
    BY <2>2, <2>3, <2>4 DEF Freeing, Leaves
  <2>6. ~woken'[d.task]
    BY <2>1, <2>2, <2>3 DEF Freeing, FreedTasks
  <2>7. QED
    BY <2>5, <2>6
<1>2. CASE p = PeerOf[o]
  <2>1. /\ Once(ready_heads'[p]) /\ (ready_heads'[p] # <<>> => free_lanes'[p] = 0)
        /\ IsFiniteSet(Out(p)') /\ free_lanes'[p] + Cardinality(Out(p)') = Lanes
        /\ \A x \in Objects : Contains(ready_heads'[p], x) => PeerOf[x] = p /\ reserved'[x]
    BY <1>2 DEF Freeing, FreedPeers
  <2>2. \A i \in 1..Len(ready_heads'[p]) :
          PeerOf[ready_heads'[p][i]] = p /\ reserved'[ready_heads'[p][i]]
    BY <2>1, ElementOfSeq DEF Contains
  <2>3. QED
    BY <1>1, <2>1, <2>2 DEF PeerOK
<1>3. CASE p # PeerOf[o]
  <2>1. free_lanes'[p] = free_lanes[p] /\ ready_heads'[p] = ready_heads[p]
    BY <1>3 DEF Freeing, FreedPeers
  <2>2. \A x \in Objects : PeerOf[x] = p =>
          owner_lane'[x] = owner_lane[x] /\ reserved'[x] = reserved[x]
    BY <1>3 DEF Freeing, FreedObjects, SameObject
  <2>3. Out(p)' = Out(p)
    BY <2>2 DEF Out, ObjectsOf
  <2>4. \A i \in 1..Len(ready_heads[p]) : ready_heads[p][i] \in Objects
    BY ElementOfSeq DEF CInv, Types
  <2>5. \A i \in 1..Len(ready_heads'[p]) :
          PeerOf[ready_heads'[p][i]] = p /\ reserved'[ready_heads'[p][i]]
    BY <1>0, <2>1, <2>2, <2>4 DEF PeerOK
  <2>6. IsFiniteSet(Out(p)') /\ free_lanes'[p] + Cardinality(Out(p)') = Lanes
    BY <1>0, <2>1, <2>3 DEF PeerOK
  <2>7. Once(ready_heads'[p]) /\ (ready_heads'[p] # <<>> => free_lanes'[p] = 0)
    BY <1>0, <2>1 DEF PeerOK
  <2>8. QED
    BY <1>1, <2>5, <2>6, <2>7 DEF PeerOK
<1>4. QED
  BY <1>2, <1>3

(* The equation of ClaimIsHeld, in terms of Count.                          *)
HeldBy(o, t) ==
  (IF owner[o] = t THEN depth[o] ELSE 0)
    = Count(calls[t], o) + (IF woken[t] /\ want[t] = o THEN 1 ELSE 0)

(* It is the equation for every object and task.                            *)
LEMMA HeldByAll == ClaimIsHeld <=> \A o \in Objects, t \in Tasks : HeldBy(o, t)
  BY DEF ClaimIsHeld, HeldBy, InCalls, Count

(* A claim is held by the task inside it, or handed to it.                  *)
LEMMA FreeingHeld ==
  ASSUME CInv, NEW t \in Tasks, NEW o \in Objects, NEW G, NEW E, NEW W,
         Freeing(t, o, G, E, W), NEW x \in Objects, NEW u \in Tasks
  PROVE  HeldBy(x, u)'
<1>0. /\ Count(calls[u], x) \in Nat /\ Len(calls[u]) \in Nat /\ HeldBy(x, u)
      /\ owner[x] # u => ~(woken[u] /\ want[u] = x) /\ Count(calls[u], x) = 0
  <2>1. HeldBy(x, u)
    BY HeldByAll DEF CInv
  <2>2. /\ Count(calls[u], x) \in Nat /\ Len(calls[u]) \in Nat
        /\ owner[x] # u => ~(woken[u] /\ want[u] = x)
                           /\ \A i \in 1..Len(calls[u]) : calls[u][i] # x
    BY HeldFacts
  <2>3. QED
    BY <2>1, <2>2, CountFacts
<1>1. x # o /\ x \notin G => owner'[x] = owner[x] /\ (owner[x] = u => depth'[x] = depth[x])
  <2>1. CASE x \in E /\ x # o
    <3>1. owner[x] = NoTask /\ owner'[x] = NoTask
      BY <2>1 DEF Freeing, FreedObjects, Idled
    <3>2. QED
      BY <3>1, ClaimsAssumption
  <2>2. CASE x \notin E /\ x # o /\ x \notin G
    BY <2>2 DEF Freeing, FreedObjects, SameObject
  <2>3. QED
    BY <2>1, <2>2
<1>2. x = o /\ x \notin G => owner'[x] = NoTask
  BY DEF Freeing, FreedObjects, Idled, LeftFor
<1>3. woken'[u] <=> u \in W \/ (woken[u] /\ u # t)
  BY DEF Freeing, FreedTasks
<1>4. CASE u = t
  <2>1. ~woken'[u]
    BY <1>3, <1>4, WokenFacts
  <2>2. CASE x = o
    <3>1. Count(calls'[u], x) = 0
      BY <1>4, <2>2 DEF Freeing, Leaves
    <3>2. owner'[x] # u
      BY <1>2, <1>4, <2>2, GivenFacts, ClaimsAssumption
    <3>3. QED
      BY <2>1, <3>1, <3>2 DEF HeldBy
  <2>3. CASE x # o
    <3>1. Count(calls'[u], x) = Count(calls[u], x) /\ ~(woken[u] /\ want[u] = x)
      BY <1>4, <2>3 DEF Freeing, Leaves
    <3>2. CASE x \in G
      <4>1. owner[x] = NoTask
        BY <2>3, <3>2 DEF Freeing, FreedObjects
      <4>2. owner'[x] # u /\ owner[x] # u
        BY <1>4, <3>2, <4>1, GivenFacts, ClaimsAssumption
      <4>3. QED
        BY <1>0, <2>1, <3>1, <4>2 DEF HeldBy
    <3>3. CASE x \notin G
      <4>1. owner'[x] = owner[x] /\ (owner[x] = u => depth'[x] = depth[x])
        BY <1>1, <2>3, <3>3
      <4>2. QED
        BY <1>0, <2>1, <3>1, <4>1 DEF HeldBy
    <3>4. QED
      BY <3>2, <3>3
  <2>4. QED
    BY <2>2, <2>3
<1>5. CASE u # t
  <2>1. calls'[u] = calls[u] /\ want'[u] = want[u]
    BY <1>5 DEF Freeing, Leaves
  <2>2. CASE x \in G
    <3>1. owner[x] # u
      BY <1>5, <2>2, GivenFacts
    <3>2. Count(calls[u], x) = 0 /\ ~(woken[u] /\ want[u] = x)
      BY <1>0, <3>1
    <3>3. CASE owner'[x] = u
      <4>1. u \in W
        BY <2>2, <3>3 DEF Freeing, FreedTasks
      <4>2. want[u] = x /\ depth'[x] = 1
        BY <2>2, <3>3, GivenFacts
      <4>3. QED
        BY <1>3, <2>1, <3>2, <3>3, <4>1, <4>2 DEF HeldBy
    <3>4. CASE owner'[x] # u
      <4>1. ~(woken'[u] /\ want[u] = x)
        <5>1. u \in W => want[u] # x
          BY <3>4, WokenFacts, ClaimsAssumption
        <5>2. QED
          BY <1>3, <3>2, <5>1
      <4>2. QED
        BY <2>1, <3>2, <3>4, <4>1 DEF HeldBy
    <3>5. QED
      BY <3>3, <3>4
  <2>3. CASE x \notin G
    <3>1. u \in W => want[u] # x
      BY <2>3, WokenFacts, ClaimsAssumption
    <3>2. (woken'[u] /\ want[u] = x) <=> (woken[u] /\ want[u] = x)
      BY <1>3, <1>5, <3>1
    <3>3. CASE x = o
      <4>1. owner[x] # u /\ owner'[x] # u
        BY <1>2, <1>5, <2>3, <3>3, ClaimsAssumption DEF Freeing, Leaves
      <4>2. QED
        BY <1>0, <2>1, <3>2, <4>1 DEF HeldBy
    <3>4. CASE x # o
      <4>1. owner'[x] = owner[x] /\ (owner[x] = u => depth'[x] = depth[x])
        BY <1>1, <2>3, <3>4
      <4>2. QED
        BY <1>0, <2>1, <3>2, <4>1 DEF HeldBy
    <3>5. QED
      BY <3>3, <3>4
  <2>4. QED
    BY <2>2, <2>3
<1>6. QED
  BY <1>4, <1>5

(* Freeing a claim keeps the invariant.                                     *)
LEMMA FreeingKeeps ==
  ASSUME CInv, NEW t \in Tasks, NEW o \in Objects, NEW G, NEW E, NEW W,
         Freeing(t, o, G, E, W), Types', LaneOK(t)'
  PROVE  CInv'
<1>1. ASSUME NEW u \in Tasks
      PROVE  TaskOK(u)' /\ EdgeOK(u)' /\ HandedOK(u)' /\ LaneOK(u)' /\ HomeOK(u)'
  BY FreeingTaskOK, FreeingEdgeOK, FreeingHandedOK, FreeingLaneOK
<1>2. TasksOK'
  BY <1>1 DEF TasksOK
<1>3. ObjectsOK'
  BY FreeingQueueOK, FreeingObjectOK DEF ObjectsOK
<1>4. PeersOK'
  BY FreeingPeerOK DEF PeersOK, Types
<1>5. ClaimIsHeld'
  <2>1. \A x \in Objects, u \in Tasks : HeldBy(x, u)'
    BY FreeingHeld
  <2>2. QED
    BY <2>1 DEF ClaimIsHeld, HeldBy, InCalls, Count
<1>6. QED
  BY <1>2, <1>3, <1>4, <1>5 DEF CInv

(* FreeClaim is type correct.                                               *)
LEMMA FreedTypes ==
  ASSUME CInv, NEW o \in Objects, NEW t \in Tasks, owner[o] # NoTask, FreeClaim(o, t)
  PROVE  /\ owner' \in [Objects -> Tasks \cup {NoTask}] /\ depth' \in [Objects -> Nat]
         /\ owner_lane' \in [Objects -> BOOLEAN] /\ waiters' \in [Objects -> Seq(Entries)]
         /\ reserved' \in [Objects -> BOOLEAN]
         /\ free_lanes' \in [Peers -> Nat] /\ ready_heads' \in [Peers -> Seq(Objects)]
         /\ drain_waiters' \in [Peers -> SUBSET [task : Tasks, epoch : Nat]]
         /\ parked_on' \subseteq [task : Tasks, obj : Objects, epoch : Nat]
         /\ parked_on_channel' \in [Tasks -> BOOLEAN] /\ woken' \in [Tasks -> BOOLEAN]
         /\ stopped' \in [Peers -> BOOLEAN]
<1> DEFINE G == Granted(o)
           E == EmptiedBy(o)
           r == release_lane(o)
<1>0. Types /\ PeerOf[o] \in Peers
  BY ClaimsAssumption DEF CInv
<1>1. FreedObjects(o, G, E)
  BY FreedObjectsFacts
<1>2. \A x \in G : x \in Objects /\ FirstLive(waiters[x]).task \in Tasks
  <2> SUFFICES ASSUME NEW x \in G PROVE x \in Objects /\ FirstLive(waiters[x]).task \in Tasks
    OBVIOUS
  <2>1. x \in Objects /\ AnyLive(waiters[x])
    BY GrantedFacts
  <2>2. PICK m \in 1..Len(waiters[x]) : FirstLive(waiters[x]) = waiters[x][m]
    BY <2>1, FirstParked
  <2>3. QED
    BY <2>1, <2>2, QueueFacts
<1>3. /\ owner' = [x \in Objects |-> IF x \in G THEN FirstLive(waiters[x]).task
                                     ELSE IF x = o THEN NoTask ELSE owner[x]]
      /\ depth' = [x \in Objects |-> IF x \in G THEN 1 ELSE IF x = o THEN 0 ELSE depth[x]]
      /\ owner_lane' = [x \in Objects |-> IF x \in G THEN TakesLane(x)
                                          ELSE IF x = o THEN FALSE ELSE owner_lane[x]]
      /\ reserved' = [x \in Objects |-> IF x \in G \cup E THEN FALSE ELSE x = o \/ reserved[x]]
  BY DEF FreeClaim, Granted, EmptiedBy
<1>w. waiters' = [x \in Objects |->
           CASE x \in G -> PastLive(waiters[x])
             [] x \in E -> <<>>
             [] x = o /\ x \notin G \cup E -> FromLive(waiters[x])
             [] OTHER -> waiters[x]]
  BY DEF FreeClaim, Granted, EmptiedBy
<1>4. \A x \in Objects : waiters'[x] \in Seq(Entries)
  <2> SUFFICES ASSUME NEW x \in Objects PROVE waiters'[x] \in Seq(Entries)
    OBVIOUS
  <2>1. CASE x \in G
    BY <1>1, <2>1 DEF FreedObjects, Given, Behind
  <2>2. CASE x \in E
    <3>1. waiters'[x] = <<>>
      BY <1>1, <2>2 DEF FreedObjects, Idled
    <3>2. QED
      BY <3>1
  <2>3. CASE x = o /\ x \notin G \cup E
    BY <1>1, <2>3 DEF FreedObjects, LeftFor, Behind
  <2>4. CASE x # o /\ x \notin G \cup E
    BY <1>0, <1>1, <2>4 DEF FreedObjects, SameObject, Types
  <2>5. QED
    BY <2>1, <2>2, <2>3, <2>4
<1>5. r.free \in Nat /\ r.heads \in Seq(Objects)
  BY LaneFacts, GrantedFacts
<1>6. /\ free_lanes' = [free_lanes EXCEPT ![PeerOf[o]] = r.free]
      /\ ready_heads' = [ready_heads EXCEPT ![PeerOf[o]] = r.heads]
      /\ drain_waiters' = (IF r.drained THEN [drain_waiters EXCEPT ![PeerOf[o]] = {}]
                                        ELSE drain_waiters)
      /\ stopped' = stopped /\ parked_on' \subseteq parked_on
  BY DEF FreeClaim
<1>7. /\ parked_on_channel' = [u \in Tasks |-> parked_on_channel[u] /\ u \notin WokenBy(o)]
      /\ woken' = [u \in Tasks |-> u \in WokenBy(o) \/ (woken[u] /\ u # t)]
  BY DEF FreeClaim, WokenBy, Granted
<1> HIDE DEF G, E, r
<1>8. owner' \in [Objects -> Tasks \cup {NoTask}]
  <2>1. \A x \in Objects : owner[x] \in Tasks \cup {NoTask}
    BY <1>0 DEF Types
  <2>2. QED
    BY <1>2, <1>3, <2>1
<1>9. depth' \in [Objects -> Nat]
  <2>1. \A x \in Objects : depth[x] \in Nat
    BY <1>0 DEF Types
  <2>2. QED
    BY <1>3, <2>1
<1>10. owner_lane' \in [Objects -> BOOLEAN] /\ reserved' \in [Objects -> BOOLEAN]
  <2>1. \A x \in Objects : owner_lane[x] \in BOOLEAN /\ TakesLane(x) \in BOOLEAN
    BY <1>0 DEF Types, TakesLane
  <2>2. owner_lane' \in [Objects -> BOOLEAN]
    BY <1>3, <2>1
  <2>3. reserved' \in [Objects -> BOOLEAN]
    BY <1>3
  <2>4. QED
    BY <2>2, <2>3
<1>11. waiters' \in [Objects -> Seq(Entries)]
  <2> DEFINE W(x) == CASE x \in G -> PastLive(waiters[x])
                       [] x \in E -> <<>>
                       [] x = o /\ x \notin G \cup E -> FromLive(waiters[x])
                       [] OTHER -> waiters[x]
  <2>1. waiters' = [x \in Objects |-> W(x)]
    BY <1>w
  <2> HIDE DEF W
  <2>2. \A x \in Objects : W(x) \in Seq(Entries)
    BY <1>4, <2>1
  <2>3. QED
    BY <2>1, <2>2
<1>12. free_lanes' \in [Peers -> Nat] /\ ready_heads' \in [Peers -> Seq(Objects)]
  BY <1>0, <1>5, <1>6 DEF Types
<1>13. drain_waiters' \in [Peers -> SUBSET [task : Tasks, epoch : Nat]]
  BY <1>0, <1>6 DEF Types
<1>14. parked_on' \subseteq [task : Tasks, obj : Objects, epoch : Nat]
  BY <1>0, <1>6 DEF Types
<1>15. parked_on_channel' \in [Tasks -> BOOLEAN] /\ woken' \in [Tasks -> BOOLEAN]
  BY <1>7
<1>16. QED
  BY <1>0, <1>6, <1>8, <1>9, <1>10, <1>11, <1>12, <1>13, <1>14, <1>15 DEF Types

(* A task that frees its claim and returns to its own code.                 *)
LEMMA FreeKeeps ==
  ASSUME CInv, NEW t \in Tasks, NEW o \in Objects, Leaves(t, o), FreeClaim(o, t),
         cancel_requested' \in [Tasks -> BOOLEAN], park_epoch' \in [Tasks -> Nat],
         op' \in [Tasks -> {"none", "claim", "drain"}],
         want' \in [Tasks -> Objects \cup {NoObj}],
         stopping' \in [Tasks -> Peers \cup {NoPeer}],
         calls' \in [Tasks -> Seq(Objects)],
         (\A x \in Objects : x # o /\ owner[x] = t => owner_lane'[x] = owner_lane[x]) => LaneOK(t)'
  PROVE  CInv'
<1>1. owner[o] = t /\ owner[o] # NoTask
  BY ClaimsAssumption DEF Leaves
<1>2. Freeing(t, o, Granted(o), EmptiedBy(o), WokenBy(o))
  <2>1. UNCHANGED stopped
    BY DEF FreeClaim
  <2>2. QED
    BY <1>1, <2>1, FreedObjectsFacts, FreedTasksFacts, FreedPeersFacts DEF Freeing
<1>3. Types'
  BY <1>1, FreedTypes DEF Types
<1>4. \A x \in Objects : x # o /\ owner[x] = t => owner_lane'[x] = owner_lane[x]
  BY <1>2, FreeingOthers DEF SameObject
<1>5. QED
  BY <1>2, <1>3, <1>4, FreeingKeeps

(* What LaneOK says of a list of calls and of the objects with a lane.      *)
FirstRides(c, lane) ==
  /\ \A i, j \in 1..Len(c) : lane[c[i]] /\ PeerOf[c[j]] = PeerOf[c[i]] /\ c[j] # c[i]
       => \E k \in 1..Len(c) : k < j /\ c[k] = c[i]
  /\ \A i \in 1..Len(c) : \E j \in 1..Len(c) : lane[c[j]] /\ PeerOf[c[j]] = PeerOf[c[i]]

(* Ending the last call, the only one on its object, leaves the first of    *)
(* the other conversations with its lane.                                   *)
LEMMA RidesFront ==
  ASSUME NEW c, NEW f, NEW lane, NEW now, NEW o, Len(f) \in Nat,
         Len(c) = Len(f) + 1, \A i \in 1..Len(f) : f[i] = c[i] /\ c[i] # o,
         c[Len(c)] = o, \A i \in 1..Len(f) : now[c[i]] = lane[c[i]], FirstRides(c, lane)
  PROVE  FirstRides(f, now)
<1>0. \A i \in 1..Len(f) : i \in 1..Len(c)
  OBVIOUS
<1> DEFINE Shared(i, j) == PeerOf[c[j]] = PeerOf[c[i]]
<1>a. \A i, j \in 1..Len(c) : lane[c[i]] /\ Shared(i, j) /\ c[j] # c[i]
                       => \E k \in 1..Len(c) : k < j /\ c[k] = c[i]
  BY DEF FirstRides
<1>b. \A i \in 1..Len(c) : \E j \in 1..Len(c) : lane[c[j]] /\ Shared(i, j)
  BY DEF FirstRides
<1>1. ASSUME NEW i \in 1..Len(f), NEW j \in 1..Len(f),
             now[f[i]], PeerOf[f[j]] = PeerOf[f[i]], f[j] # f[i]
      PROVE  \E k \in 1..Len(f) : k < j /\ f[k] = f[i]
  <2>1. i \in 1..Len(c) /\ j \in 1..Len(c) /\ lane[c[i]] /\ Shared(i, j) /\ c[j] # c[i]
    BY <1>0, <1>1
  <2>2. PICK k \in 1..Len(c) : k < j /\ c[k] = c[i]
    BY <1>a, <2>1, Zenon
  <2>3. k \in 1..Len(f)
    BY <2>2
  <2>4. QED
    BY <2>2, <2>3
<1>2. ASSUME NEW i \in 1..Len(f)
      PROVE  \E j \in 1..Len(f) : now[f[j]] /\ PeerOf[f[j]] = PeerOf[f[i]]
  <2>1. i \in 1..Len(c)
    BY <1>0
  <2>2. PICK j \in 1..Len(c) : lane[c[j]] /\ Shared(i, j)
    BY <1>b, <2>1, Zenon
  <2>3. j \in 1..Len(f)
    <3> SUFFICES ASSUME j = Len(c) PROVE FALSE
      OBVIOUS
    <3>1. c[i] # c[j] /\ c[j] = o /\ Shared(j, i)
      BY <2>2
    <3>2. PICK k \in 1..Len(c) : k < i /\ c[k] = c[j]
      BY <1>a, <2>1, <2>2, <3>1, Zenon
    <3>3. k \in 1..Len(f)
      BY <3>2
    <3>4. QED
      BY <3>1, <3>2, <3>3
  <2>4. QED
    BY <2>2, <2>3
<1>3. QED
  BY <1>1, <1>2, Zenon DEF FirstRides

(* The outermost call on an object ends.                                    *)
LEMMA EndCallFrees ==
  ASSUME CInv, NEW t \in Tasks, Idle(t), calls[t] # <<>>, depth[Last(calls[t])] = 1,
         FreeClaim(Last(calls[t]), t), calls' = [calls EXCEPT ![t] = Front(@)],
         UNCHANGED <<cancel_requested, park_epoch, op, want, stopping>>
  PROVE  CInv'
<1> DEFINE o == Last(calls[t])
           c == calls[t]
           f == Front(calls[t])
<1>1. c \in Seq(Objects) /\ Types
  BY DEF CInv, Types
<1>2. /\ o \in Objects /\ o = c[Len(c)] /\ Len(c) \in Nat /\ Len(c) > 0
      /\ f \in Seq(Objects) /\ Len(f) = Len(c) - 1
      /\ \A i \in 1..(Len(c) - 1) : f[i] = c[i]
      /\ Count(c, o) = Count(f, o) + 1
      /\ \A x : x # o => Count(f, x) = Count(c, x)
  BY <1>1, CountFront
<1>3. calls'[t] = f /\ \A u \in Tasks : u # t => calls'[u] = calls[u]
  BY <1>1 DEF Types
<1>4. TaskOK(t) /\ op[t] = "none"
  BY DEF CInv, TasksOK, Idle
<1>5. want[t] = NoObj /\ ~parked_on_channel[t] /\ ~woken[t] /\ ~cancel_requested[t]
  BY <1>4 DEF TaskOK
<1>6. owner[o] = t
  <2>1. Len(c) \in 1..Len(c)
    BY <1>2
  <2>2. QED
    BY <1>2, <2>1, CallerOwns
<1>7. Count(f, o) = 0 /\ Count(f, o) \in Nat /\ \A i \in 1..Len(f) : f[i] # o
  <2>1. Count(c, o) = 1
    BY <1>2, <1>5, <1>6, HeldFacts
  <2>2. Len(f) \in Nat
    BY <1>2
  <2>3. Count(f, o) \in Nat /\ (Count(f, o) = 0 <=> \A i \in 1..Len(f) : f[i] # o)
    BY <2>2, CountFacts
  <2>4. QED
    BY <1>2, <2>1, <2>3
<1>8. Leaves(t, o)
  <2>1. \A x \in Objects : \A i \in 1..Len(waiters[x]) : waiters[x][i].task # t
    BY <1>4, QueueFacts DEF EntryOK
  <2>2. QED
    BY <1>2, <1>3, <1>4, <1>5, <1>6, <1>7, <2>1 DEF Leaves
<1>9. calls' \in [Tasks -> Seq(Objects)]
  BY <1>1, <1>2 DEF Types
<1>10. ASSUME \A x \in Objects : x # o /\ owner[x] = t => owner_lane'[x] = owner_lane[x]
       PROVE  LaneOK(t)'
  <2>1. \A i \in 1..Len(f) : f[i] = c[i] /\ c[i] # o /\ owner_lane'[c[i]] = owner_lane[c[i]]
    <3> SUFFICES ASSUME NEW i \in 1..Len(f)
                 PROVE  f[i] = c[i] /\ c[i] # o /\ owner_lane'[c[i]] = owner_lane[c[i]]
      OBVIOUS
    <3> HIDE DEF o, f
    <3>1. i \in 1..Len(c) /\ f[i] = c[i] /\ c[i] # o
      BY <1>2, <1>7
    <3>2. c[i] \in Objects /\ owner[c[i]] = t
      BY <3>1, CallerOwns
    <3>3. QED
      BY <1>10, <3>1, <3>2
  <2>2. FirstRides(c, owner_lane)
    <3>1. LaneOK(t)
      BY DEF CInv, TasksOK
    <3>2. QED
      BY <3>1 DEF LaneOK, FirstRides
  <2>3. Len(f) \in Nat /\ Len(c) = Len(f) + 1 /\ c[Len(c)] = o
    BY <1>2
  <2> HIDE DEF o, f, c
  <2>4. FirstRides(f, owner_lane')
    BY <2>1, <2>2, <2>3, RidesFront
  <2>5. FirstRides(calls'[t], owner_lane')
    BY <1>3, <2>4, Zenon
  <2>6. QED
    BY <2>5 DEF LaneOK, FirstRides
<1>11. QED
  BY <1>1, <1>2, <1>8, <1>9, <1>10, FreeKeeps DEF Types

(* A cancelled task passes on the claim it was handed.                      *)
LEMMA PassedOnKeeps ==
  ASSUME CInv, NEW t \in Tasks, ClaimPassedOn(t)
  PROVE  CInv'
<1> DEFINE o == want[t]
<1>1. /\ op[t] = "claim" /\ ~parked_on_channel[t] /\ woken[t]
      /\ end_call(o, t) /\ UNCHANGED calls
      /\ park_epoch' = [park_epoch EXCEPT ![t] = (@ + 1) % EpochWrap]
      /\ op' = [op EXCEPT ![t] = "none"]
      /\ want' = [want EXCEPT ![t] = NoObj]
      /\ stopping' = [stopping EXCEPT ![t] = NoPeer]
      /\ cancel_requested' = [cancel_requested EXCEPT ![t] = FALSE]
  BY DEF ClaimPassedOn, Resumes
<1>2. Types /\ TaskOK(t) /\ HandedOK(t) /\ LaneOK(t)
  BY DEF CInv, TasksOK
<1>3. o \in Objects /\ depth[o] = 1
  BY <1>1, <1>2 DEF TaskOK, HandedOK
<1>4. owner[o] = t
  BY <1>1, <1>3, HeldFacts
<1>5. FreeClaim(o, t)
  BY <1>1, <1>3 DEF end_call
<1>6. Count(calls[t], o) = 0 /\ \A i \in 1..Len(calls[t]) : calls[t][i] # o
  <2>1. /\ Count(calls[t], o) \in Nat /\ Len(calls[t]) \in Nat
        /\ depth[o] = Count(calls[t], o) + 1
    BY <1>1, <1>3, <1>4, HeldFacts
  <2>2. Count(calls[t], o) = 0
    BY <1>3, <2>1
  <2>3. QED
    BY <2>1, <2>2, CountFacts
<1>7. /\ cancel_requested' \in [Tasks -> BOOLEAN]
      /\ op' \in [Tasks -> {"none", "claim", "drain"}]
      /\ want' \in [Tasks -> Objects \cup {NoObj}]
      /\ stopping' \in [Tasks -> Peers \cup {NoPeer}]
      /\ calls' \in [Tasks -> Seq(Objects)]
  BY <1>1, <1>2 DEF Types
<1>8. park_epoch' \in [Tasks -> Nat]
  <2>1. (park_epoch[t] + 1) % EpochWrap \in Nat
    BY <1>2, ClaimsAssumption DEF Types
  <2>2. QED
    BY <1>1, <1>2, <2>1 DEF Types
<1>9. Leaves(t, o)
  <2>1. \A x \in Objects : \A i \in 1..Len(waiters[x]) : waiters[x][i].task # t
    BY <1>1, QueueFacts DEF EntryOK
  <2>2. /\ op'[t] = "none" /\ want'[t] = NoObj /\ ~cancel_requested'[t]
        /\ \A u \in Tasks : u # t =>
             /\ op'[u] = op[u] /\ want'[u] = want[u] /\ stopping'[u] = stopping[u]
             /\ park_epoch'[u] = park_epoch[u] /\ cancel_requested'[u] = cancel_requested[u]
             /\ calls'[u] = calls[u]
    BY <1>1, <1>2 DEF Types
  <2>3. QED
    BY <1>1, <1>4, <1>6, <2>1, <2>2 DEF Leaves
<1>10. ASSUME \A x \in Objects : x # o /\ owner[x] = t => owner_lane'[x] = owner_lane[x]
       PROVE  LaneOK(t)'
  <2>1. \A i \in 1..Len(calls[t]) : owner_lane'[calls[t][i]] = owner_lane[calls[t][i]]
    BY <1>6, <1>10, CallerOwns
  <2>2. calls'[t] = calls[t]
    BY <1>1
  <2>3. QED
    BY <1>2, <2>1, <2>2, LaneKept
<1> HIDE DEF o
<1>11. QED
  BY <1>3, <1>5, <1>7, <1>8, <1>9, <1>10, FreeKeeps

-----------------------------------------------------------------------------
(* The steps of one task that leave the queues alone.                       *)

(* What a step of another task leaves of a task.                            *)
Steady(u) ==
  /\ op'[u] = op[u] /\ want'[u] = want[u] /\ stopping'[u] = stopping[u]
  /\ park_epoch'[u] = park_epoch[u] /\ woken'[u] = woken[u] /\ calls'[u] = calls[u]
Still(u) ==
  /\ Steady(u)
  /\ parked_on_channel'[u] = parked_on_channel[u] /\ cancel_requested'[u] = cancel_requested[u]

(* A task that is left alone stays as it is.                                *)
LEMMA StillTask ==
  ASSUME CInv, NEW u \in Tasks, Still(u), \A p \in Peers : stopped[p] => stopped'[p]
  PROVE  TaskOK(u)'
<1>1. TaskOK(u)
  BY DEF CInv, TasksOK
<1>2. QED
  BY <1>1 DEF TaskOK, Still, Steady

(* So do its lanes.                                                         *)
LEMMA StillLane ==
  ASSUME CInv, NEW u \in Tasks, calls'[u] = calls[u],
         \A x \in Objects : owner[x] = u => owner_lane'[x] = owner_lane[x]
  PROVE  LaneOK(u)'
<1>1. LaneOK(u)
  BY DEF CInv, TasksOK
<1>2. \A i \in 1..Len(calls[u]) : owner_lane'[calls[u][i]] = owner_lane[calls[u][i]]
  BY CallerOwns
<1>3. QED
  BY <1>1, <1>2, LaneKept

(* A claim it was handed.                                                   *)
LEMMA StillHanded ==
  ASSUME CInv, NEW u \in Tasks, Steady(u),
         \A x \in Objects : owner[x] = u => owner_lane'[x] = owner_lane[x] /\ depth'[x] = depth[x]
  PROVE  HandedOK(u)'
<1> SUFFICES ASSUME op'[u] = "claim", woken'[u]
             PROVE  depth'[want'[u]] = 1 /\ (owner_lane'[want'[u]] <=> ~Nested(u, want[u])')
  <2>1. want'[u] = want[u]
    BY DEF Steady
  <2>2. QED
    BY <2>1 DEF HandedOK
<1>1. op[u] = "claim" /\ woken[u] /\ want'[u] = want[u] /\ calls'[u] = calls[u]
  BY DEF Steady
<1>2. want[u] \in Objects /\ HandedOK(u)
  BY <1>1 DEF CInv, TasksOK, TaskOK
<1>3. owner[want[u]] = u
  BY <1>1, <1>2, HeldFacts
<1>4. Nested(u, want[u])' <=> Nested(u, want[u])
  BY <1>1 DEF Nested
<1>5. QED
  BY <1>1, <1>2, <1>3, <1>4 DEF HandedOK

(* Its place in the queue and in the index.                                 *)
LEMMA StillEdge ==
  ASSUME CInv, NEW u \in Tasks, Still(u), waiters' = waiters, parked_on' = parked_on
  PROVE  EdgeOK(u)'
<1>1. EdgeOK(u)
  BY DEF CInv, TasksOK
<1>2. QED
  BY <1>1 DEF EdgeOK, Still, Steady

(* A queue whose tasks keep waiting.                                        *)
LEMMA StillQueue ==
  ASSUME CInv, NEW o \in Objects, waiters'[o] = waiters[o],
         \A i \in 1..Len(waiters[o]) : Steady(waiters[o][i].task)
  PROVE  QueueOK(o)'
<1>1. QueueOK(o)
  BY DEF CInv, ObjectsOK
<1>2. ASSUME NEW i \in 1..Len(waiters'[o]) PROVE EntryOK(waiters[o][i], o)'
  <2>1. PICK e : e = waiters'[o][i]
    OBVIOUS
  <2>2. EntryOK(e, o) /\ Steady(e.task)
    BY <1>1, <2>1 DEF QueueOK
  <2>3. Nested(e.task, o)' <=> Nested(e.task, o)
    BY <2>2 DEF Nested, Steady
  <2>4. EntryOK(e, o)'
    BY <2>2, <2>3 DEF EntryOK, Steady
  <2>5. QED
    BY <2>1, <2>4 DEF EntryOK
<1>3. Apart(waiters[o])'
  BY <1>1 DEF QueueOK, Apart
<1>4. QED
  BY <1>2, <1>3 DEF QueueOK

(* Nobody joins the live tasks of such a queue.                             *)
LEMMA StillLive ==
  ASSUME CInv, NEW o \in Objects, waiters'[o] = waiters[o],
         \A i \in 1..Len(waiters[o]) :
           /\ Steady(waiters[o][i].task)
           /\ parked_on_channel'[waiters[o][i].task] => parked_on_channel[waiters[o][i].task]
  PROVE  AnyLive(waiters[o])' => AnyLive(waiters[o])
<1> SUFFICES ASSUME AnyLive(waiters[o])' PROVE AnyLive(waiters[o])
  OBVIOUS
<1>1. PICK i \in 1..Len(waiters[o]) : Live(waiters[o][i].task, waiters[o][i].epoch)'
  BY DEF AnyLive, LiveIn
<1>2. parked_on_channel[waiters[o][i].task]
  <2>1. parked_on_channel'[waiters'[o][i].task]
    BY <1>1 DEF Live
  <2>2. QED
    BY <2>1
<1>3. Live(waiters[o][i].task, waiters[o][i].epoch)
  BY <1>2, QueueFacts
<1>4. QED
  BY <1>3, LiveSomewhere

(* The claims of a task that is left alone.                                 *)
LEMMA StillHeld ==
  ASSUME CInv, NEW u \in Tasks, NEW x \in Objects, Steady(u), owner'[x] = u <=> owner[x] = u,
         owner[x] = u => depth'[x] = depth[x]
  PROVE  HeldBy(x, u)'
<1>1. HeldBy(x, u)
  BY HeldByAll DEF CInv
<1>2. QED
  BY <1>1 DEF HeldBy, Steady

(* The lane queue and the drains of a peer.                                 *)
LEMMA StillPeer ==
  ASSUME CInv, NEW p \in Peers, ready_heads' = ready_heads, reserved' = reserved,
         drain_waiters' = drain_waiters, \A d \in drain_waiters[p] : Steady(d.task),
         free_lanes'[p] \in Nat, free_lanes'[p] <= free_lanes[p],
         IsFiniteSet(Out(p)'), free_lanes'[p] + Cardinality(Out(p)') = Lanes
  PROVE  PeerOK(p)'
<1>1. PeerOK(p) /\ free_lanes[p] \in Nat
  BY DEF CInv, PeersOK, Types
<1>2. /\ Once(ready_heads[p])'
      /\ \A i \in 1..Len(ready_heads'[p]) :
           PeerOf[ready_heads'[p][i]] = p /\ reserved'[ready_heads'[p][i]]
  BY <1>1 DEF PeerOK, Once
<1>3. ready_heads'[p] # <<>> => free_lanes'[p] = 0
  BY <1>1 DEF PeerOK
<1>4. \A d \in drain_waiters'[p] : op'[d.task] = "drain" /\ stopping'[d.task] = p /\ ~woken'[d.task]
  BY <1>1 DEF PeerOK, Steady
<1>5. QED
  BY <1>2, <1>3, <1>4 DEF PeerOK

(* A step of t that leaves the queues alone: t stands in none, and only     *)
(* takes an object that is free, or changes its depth in one it has.        *)
TakenBy(t, x) == owner[x] = NoTask /\ ~reserved[x] /\ owner'[x] = t /\ depth'[x] > 0
MovesOnly(t) ==
  /\ \A u \in Tasks : u # t => Still(u)
  /\ waiters' = waiters /\ reserved' = reserved /\ ready_heads' = ready_heads
  /\ parked_on' = parked_on /\ drain_waiters' = drain_waiters /\ stopped' = stopped
  /\ \A x \in Objects : \A i \in 1..Len(waiters[x]) : waiters[x][i].task # t
  /\ \A p \in Peers : \A d \in drain_waiters[p] : d.task # t
  /\ \A x \in Objects : \/ TakenBy(t, x)
                        \/ /\ owner'[x] = owner[x] /\ owner_lane'[x] = owner_lane[x]
                           /\ owner[x] # t => depth'[x] = depth[x]
                           /\ owner[x] = t => depth'[x] > 0

(* Such a step keeps the invariant, if t and the lanes are right after it.  *)
LEMMA MovesKeeps ==
  ASSUME CInv, NEW t \in Tasks, MovesOnly(t), Types',
         TaskOK(t)', EdgeOK(t)', HandedOK(t)', LaneOK(t)', \A u \in Tasks : HomeOK(u)',
         \A x \in Objects : HeldBy(x, t)',
         \A p \in Peers : /\ free_lanes'[p] \in Nat /\ free_lanes'[p] <= free_lanes[p]
                          /\ IsFiniteSet(Out(p)')
                          /\ free_lanes'[p] + Cardinality(Out(p)') = Lanes
  PROVE  CInv'
<1>1. ASSUME NEW u \in Tasks, u # t, NEW x \in Objects
      PROVE  /\ owner'[x] = u <=> owner[x] = u
             /\ owner[x] = u => owner_lane'[x] = owner_lane[x] /\ depth'[x] = depth[x]
  BY <1>1, ClaimsAssumption DEF MovesOnly, TakenBy
<1>2. ASSUME NEW u \in Tasks PROVE TaskOK(u)' /\ EdgeOK(u)' /\ HandedOK(u)' /\ LaneOK(u)'
  <2>1. CASE u = t
    BY <2>1
  <2>2. CASE u # t
    <3>1. Still(u) /\ Steady(u) /\ calls'[u] = calls[u]
      BY <2>2 DEF MovesOnly, Still, Steady
    <3>2. TaskOK(u)' /\ EdgeOK(u)'
      BY <3>1, StillTask, StillEdge DEF MovesOnly
    <3>3. HandedOK(u)' /\ LaneOK(u)'
      BY <1>1, <2>2, <3>1, StillHanded, StillLane
    <3>4. QED
      BY <3>2, <3>3
  <2>3. QED
    BY <2>1, <2>2
<1>3. TasksOK'
  BY <1>2 DEF TasksOK
<1>4. ASSUME NEW x \in Objects PROVE QueueOK(x)' /\ ObjectOK(x)'
  <2>1. \A i \in 1..Len(waiters[x]) : Still(waiters[x][i].task)
    BY QueueFacts DEF MovesOnly
  <2>2. \A i \in 1..Len(waiters[x]) :
        /\ Steady(waiters[x][i].task)
        /\ parked_on_channel'[waiters[x][i].task] => parked_on_channel[waiters[x][i].task]
    BY <2>1 DEF Still
  <2>3. waiters'[x] = waiters[x]
    BY DEF MovesOnly
  <2>4. QueueOK(x)'
    <3>1. \A i \in 1..Len(waiters[x]) : Steady(waiters[x][i].task)
      BY <2>2
    <3>2. QED
      BY <2>3, <3>1, StillQueue
  <2>5. AnyLive(waiters[x])' => AnyLive(waiters[x])
    BY <2>2, <2>3, StillLive
  <2>6. ObjectOK(x)
    BY DEF CInv, ObjectsOK
  <2>7. reserved'[x] = reserved[x] /\ ready_heads' = ready_heads
    BY DEF MovesOnly
  <2>8. CASE TakenBy(t, x)
    <3>1. owner'[x] # NoTask /\ ~reserved'[x] /\ depth'[x] > 0
      BY <2>7, <2>8, ClaimsAssumption DEF TakenBy
    <3>2. QED
      BY <2>4, <3>1 DEF ObjectOK
  <2>9. CASE /\ owner'[x] = owner[x] /\ owner_lane'[x] = owner_lane[x]
             /\ owner[x] # t => depth'[x] = depth[x]
             /\ owner[x] = t => depth'[x] > 0
    BY <2>4, <2>5, <2>6, <2>7, <2>9 DEF ObjectOK, Contains
  <2>10. QED
    BY <2>8, <2>9 DEF MovesOnly
<1>5. ObjectsOK'
  BY <1>4 DEF ObjectsOK
<1>6. PeersOK'
  <2> SUFFICES ASSUME NEW p \in Peers PROVE PeerOK(p)'
    BY DEF PeersOK
  <2>1. \A d \in drain_waiters[p] : Steady(d.task)
    <3>1. \A d \in drain_waiters[p] : d.task \in Tasks
      BY DEF CInv, Types
    <3>2. QED
      BY <3>1 DEF MovesOnly, Still
  <2>2. QED
    BY <2>1, StillPeer DEF MovesOnly
<1>7. ClaimIsHeld'
  <2>1. ASSUME NEW x \in Objects, NEW u \in Tasks PROVE HeldBy(x, u)'
    <3>1. CASE u = t
      BY <3>1
    <3>2. CASE u # t
      <4>1. Steady(u)
        BY <3>2 DEF MovesOnly, Still
      <4>2. QED
        BY <1>1, <3>2, <4>1, StillHeld
    <3>3. QED
      BY <3>1, <3>2
  <2>2. \A x \in Objects, u \in Tasks : HeldBy(x, u)'
    BY <2>1
  <2>3. QED
    BY <2>2 DEF ClaimIsHeld, HeldBy, InCalls, Count
<1>8. QED
  BY <1>3, <1>5, <1>6, <1>7 DEF CInv

(* A running task stands in no queue and in no drain.                       *)
LEMMA IdleFacts ==
  ASSUME CInv, NEW t \in Tasks, Idle(t)
  PROVE  /\ Types /\ TaskOK(t) /\ LaneOK(t) /\ op[t] = "none" /\ want[t] = NoObj
         /\ ~parked_on_channel[t] /\ ~woken[t] /\ ~cancel_requested[t]
         /\ \A x \in Objects : \A i \in 1..Len(waiters[x]) : waiters[x][i].task # t
         /\ \A p \in Peers : \A d \in drain_waiters[p] : d.task # t
<1>1. Types /\ TaskOK(t) /\ LaneOK(t) /\ op[t] = "none"
  BY DEF CInv, TasksOK, Idle
<1>2. \A x \in Objects : \A i \in 1..Len(waiters[x]) : waiters[x][i].task # t
  BY <1>1, QueueFacts DEF EntryOK
<1>3. \A p \in Peers : \A d \in drain_waiters[p] : d.task # t
  BY <1>1 DEF CInv, PeersOK, PeerOK
<1>4. QED
  BY <1>1, <1>2, <1>3 DEF TaskOK

(* Lanes that do not move.                                                  *)
LEMMA SameLanes ==
  ASSUME CInv, free_lanes' = free_lanes, owner_lane' = owner_lane, NEW p \in Peers
  PROVE  /\ free_lanes'[p] \in Nat /\ free_lanes'[p] <= free_lanes[p]
         /\ IsFiniteSet(Out(p)') /\ free_lanes'[p] + Cardinality(Out(p)') = Lanes
<1>1. Out(p)' = Out(p)
  BY DEF Out
<1>2. free_lanes[p] \in Nat /\ PeerOK(p)
  BY DEF CInv, PeersOK, Types
<1>3. QED
  BY <1>1, <1>2 DEF PeerOK

(* A drain that has been told stays told.                                   *)
LEMMA SameHome ==
  ASSUME CInv, NEW t, \A u \in Tasks : u # t => Steady(u), op'[t] # "drain",
         free_lanes' = free_lanes, NEW u \in Tasks
  PROVE  HomeOK(u)'
<1>1. HomeOK(u)
  BY DEF CInv, TasksOK
<1>2. QED
  BY <1>1 DEF HomeOK, Steady

(* A call that ends inside another call on the same object leaves the lanes *)
(* where they are.                                                          *)
LEMMA RidesDeeper ==
  ASSUME NEW c, NEW f, NEW lane, Len(f) \in Nat,
         Len(c) = Len(f) + 1, \A i \in 1..Len(f) : f[i] = c[i],
         \E i \in 1..Len(f) : f[i] = c[Len(c)], FirstRides(c, lane)
  PROVE  FirstRides(f, lane)
<1>0. \A i \in 1..Len(f) : i \in 1..Len(c)
  OBVIOUS
<1> DEFINE Shared(i, j) == PeerOf[c[j]] = PeerOf[c[i]]
<1>a. \A i, j \in 1..Len(c) : lane[c[i]] /\ Shared(i, j) /\ c[j] # c[i]
                       => \E k \in 1..Len(c) : k < j /\ c[k] = c[i]
  BY DEF FirstRides
<1>b. \A i \in 1..Len(c) : \E j \in 1..Len(c) : lane[c[j]] /\ Shared(i, j)
  BY DEF FirstRides
<1>1. ASSUME NEW i \in 1..Len(f), NEW j \in 1..Len(f),
             lane[f[i]], PeerOf[f[j]] = PeerOf[f[i]], f[j] # f[i]
      PROVE  \E k \in 1..Len(f) : k < j /\ f[k] = f[i]
  <2>1. i \in 1..Len(c) /\ j \in 1..Len(c) /\ lane[c[i]] /\ Shared(i, j) /\ c[j] # c[i]
    BY <1>0, <1>1
  <2>2. PICK k \in 1..Len(c) : k < j /\ c[k] = c[i]
    BY <1>a, <2>1, Zenon
  <2>3. k \in 1..Len(f)
    BY <2>2
  <2>4. QED
    BY <2>2, <2>3
<1>2. ASSUME NEW i \in 1..Len(f)
      PROVE  \E j \in 1..Len(f) : lane[f[j]] /\ PeerOf[f[j]] = PeerOf[f[i]]
  <2>1. i \in 1..Len(c)
    BY <1>0
  <2>2. PICK j \in 1..Len(c) : lane[c[j]] /\ Shared(i, j)
    BY <1>b, <2>1, Zenon
  <2>3. CASE j = Len(c)
    BY <2>2, <2>3
  <2>4. CASE j # Len(c)
    <3>1. j \in 1..Len(f)
      BY <2>4
    <3>2. QED
      BY <2>2, <3>1
  <2>5. QED
    BY <2>3, <2>4
<1>3. QED
  BY <1>1, <1>2, Zenon DEF FirstRides

(* A re-entrant call ends.                                                  *)
LEMMA EndCallDeeper ==
  ASSUME CInv, NEW t \in Tasks, Idle(t), calls[t] # <<>>, depth[Last(calls[t])] > 1,
         depth' = [depth EXCEPT ![Last(calls[t])] = @ - 1],
         calls' = [calls EXCEPT ![t] = Front(@)],
         UNCHANGED <<owner, owner_lane, waiters, reserved, peerVars, parked_on_channel, woken,
                     cancel_requested, park_epoch, op, want, stopping>>
  PROVE  CInv'
<1> DEFINE o == Last(calls[t])
           c == calls[t]
           f == Front(calls[t])
<1>1. c \in Seq(Objects) /\ Types
  BY DEF CInv, Types
<1>2. /\ o \in Objects /\ o = c[Len(c)] /\ Len(c) \in Nat /\ Len(c) > 0
      /\ f \in Seq(Objects) /\ Len(f) = Len(c) - 1
      /\ \A i \in 1..(Len(c) - 1) : f[i] = c[i]
      /\ Count(c, o) = Count(f, o) + 1
      /\ \A x : x # o => Count(f, x) = Count(c, x)
  BY <1>1, CountFront
<1>3. calls'[t] = f /\ calls' \in [Tasks -> Seq(Objects)]
      /\ \A u \in Tasks : u # t => calls'[u] = calls[u]
  BY <1>1, <1>2 DEF Types
<1>4. /\ op[t] = "none" /\ want[t] = NoObj /\ ~parked_on_channel[t] /\ ~woken[t]
      /\ ~cancel_requested[t] /\ TaskOK(t)
      /\ \A x \in Objects : \A i \in 1..Len(waiters[x]) : waiters[x][i].task # t
      /\ \A p \in Peers : \A d \in drain_waiters[p] : d.task # t
  BY IdleFacts
<1>5. owner[o] = t
  <2>1. Len(c) \in 1..Len(c)
    BY <1>2
  <2>2. QED
    BY <1>2, <2>1, CallerOwns
<1>6. depth[o] \in Nat /\ depth[o] > 1 /\ Count(f, o) = depth[o] - 1
  <2>1. depth[o] \in Nat /\ Count(c, o) \in Nat /\ depth[o] = Count(c, o)
    BY <1>2, <1>4, <1>5, HeldFacts
  <2>2. Len(f) \in Nat
    BY <1>2
  <2>3. Count(f, o) \in Nat
    BY <2>2, CountFacts
  <2>4. QED
    BY <1>2, <2>1, <2>3
<1>7. \E i \in 1..Len(f) : f[i] = o
  <2>1. Count(f, o) # 0
    BY <1>6
  <2>2. Len(f) \in Nat
    BY <1>2
  <2>3. QED
    BY <2>1, <2>2, CountFacts
<1>8. /\ depth'[o] = depth[o] - 1 /\ depth' \in [Objects -> Nat]
      /\ \A x \in Objects : x # o => depth'[x] = depth[x]
  <2>1. depth[o] - 1 \in Nat
    BY <1>6
  <2>2. QED
    BY <1>1, <1>2, <2>1 DEF Types
<1> HIDE DEF o, f
<1>9. Types'
  BY <1>1, <1>3, <1>8 DEF Types, peerVars
<1>10. TaskOK(t)' /\ EdgeOK(t)' /\ HandedOK(t)'
  BY <1>4 DEF TaskOK, EdgeOK, HandedOK, peerVars
<1>11. LaneOK(t)'
  <2>1. FirstRides(c, owner_lane)
    <3>1. LaneOK(t)
      BY IdleFacts
    <3>2. QED
      BY <3>1 DEF LaneOK, FirstRides
  <2>2. Len(f) \in Nat /\ Len(c) = Len(f) + 1 /\ \A i \in 1..Len(f) : f[i] = c[i]
    BY <1>2
  <2> HIDE DEF c
  <2>3. FirstRides(f, owner_lane)
    BY <1>2, <1>7, <2>1, <2>2, RidesDeeper
  <2>4. FirstRides(calls'[t], owner_lane')
    BY <1>3, <2>3
  <2>5. QED
    BY <2>4 DEF LaneOK, FirstRides
<1>12. \A u \in Tasks : u # t => Still(u)
  BY <1>3 DEF Still, Steady
<1>13. \A u \in Tasks : HomeOK(u)'
  <2>1. \A u \in Tasks : u # t => Steady(u)
    BY <1>12 DEF Still
  <2>2. op'[t] # "drain" /\ free_lanes' = free_lanes
    BY <1>4 DEF peerVars
  <2>3. QED
    BY <2>1, <2>2, SameHome
<1>14. ASSUME NEW x \in Objects PROVE HeldBy(x, t)'
  <2>1. Count(calls[t], x) \in Nat /\ (owner[x] = t => depth[x] = Count(calls[t], x))
        /\ (owner[x] # t => Count(calls[t], x) = 0)
    <3>1. /\ Count(calls[t], x) \in Nat /\ Len(calls[t]) \in Nat
          /\ owner[x] = t => depth[x] = Count(calls[t], x)
          /\ owner[x] # t => \A i \in 1..Len(calls[t]) : calls[t][i] # x
      BY <1>4, HeldFacts
    <3>2. QED
      BY <3>1, CountFacts
  <2>2. CASE x = o
    <3>1. owner'[x] = t /\ ~woken'[t]
      BY <1>4, <1>5, <2>2
    <3>2. depth'[x] = Count(f, x) /\ Count(f, x) \in Nat
      BY <1>6, <1>8, <2>2
    <3>3. depth'[x] = Count(calls'[t], x) /\ Count(calls'[t], x) \in Nat
      BY <1>3, <3>2
    <3>4. QED
      BY <3>1, <3>3 DEF HeldBy
  <2>3. CASE x # o
    <3>1. Count(calls'[t], x) = Count(calls[t], x) /\ depth'[x] = depth[x] /\ ~woken'[t]
      BY <1>2, <1>3, <1>4, <1>8, <2>3
    <3>2. QED
      BY <2>1, <3>1 DEF HeldBy
  <2>4. QED
    BY <2>2, <2>3
<1>15. MovesOnly(t)
  <2>1. ASSUME NEW x \in Objects
        PROVE  /\ owner'[x] = owner[x] /\ owner_lane'[x] = owner_lane[x]
               /\ owner[x] # t => depth'[x] = depth[x]
               /\ owner[x] = t => depth'[x] > 0
    <3>1. owner[x] = t => depth[x] > 0
      BY ClaimsAssumption DEF CInv, ObjectsOK, ObjectOK
    <3>2. CASE x = o
      <4>1. depth[o] > 1 /\ depth'[o] = depth[o] - 1 /\ depth[o] \in Nat
        BY <1>6, <1>8 DEF o
      <4>2. QED
        BY <1>5, <3>2, <4>1
    <3>3. CASE x # o
      BY <1>8, <3>1, <3>3
    <3>4. QED
      BY <3>2, <3>3
  <2>2. QED
    BY <1>4, <1>12, <2>1 DEF MovesOnly, peerVars
<1>16. ASSUME NEW p \in Peers
       PROVE  /\ free_lanes'[p] \in Nat /\ free_lanes'[p] <= free_lanes[p]
              /\ IsFiniteSet(Out(p)') /\ free_lanes'[p] + Cardinality(Out(p)') = Lanes
  <2>1. free_lanes' = free_lanes /\ owner_lane' = owner_lane
    BY DEF peerVars
  <2>2. QED
    BY <2>1, SameLanes
<1>17. QED
  BY <1>9, <1>10, <1>11, <1>13, <1>14, <1>15, <1>16, MovesKeeps

(* The innermost call of a task ends.                                       *)
LEMMA EndCallKeeps ==
  ASSUME CInv, NEW t \in Tasks, EndCall(t)
  PROVE  CInv'
<1>1. /\ Idle(t) /\ calls[t] # <<>> /\ end_call(Last(calls[t]), t)
      /\ calls' = [calls EXCEPT ![t] = Front(@)]
      /\ UNCHANGED <<cancel_requested, park_epoch, op, want, stopping>>
  BY DEF EndCall
<1>2. CASE depth[Last(calls[t])] > 1 /\ ~(depth[Last(calls[t])] = 1)
  <2>1. /\ depth' = [depth EXCEPT ![Last(calls[t])] = @ - 1]
        /\ UNCHANGED <<owner, owner_lane, waiters, reserved, peerVars, parked_on_channel, woken>>
    BY <1>1, <1>2 DEF end_call
  <2>2. QED
    BY <1>1, <1>2, <2>1, EndCallDeeper
<1>3. CASE depth[Last(calls[t])] = 1
  <2>1. FreeClaim(Last(calls[t]), t)
    BY <1>1, <1>3 DEF end_call
  <2>2. QED
    BY <1>1, <1>3, <2>1, EndCallFrees
<1>4. QED
  BY <1>1, <1>2, <1>3 DEF end_call

-----------------------------------------------------------------------------
(* Entering a call, and the end of a drain.                                 *)

(* A call that is entered has the lane exactly if no other conversation is  *)
(* open on its peer, or it re-enters its object.                            *)
LEMMA RidesAppend ==
  ASSUME NEW c, NEW g, NEW lane, NEW now, NEW o, Len(c) \in Nat,
         Len(g) = Len(c) + 1, \A i \in 1..Len(c) : g[i] = c[i] /\ now[c[i]] = lane[c[i]],
         g[Len(g)] = o, FirstRides(c, lane),
         \/ \E i \in 1..Len(c) : c[i] = o
         \/ now[o] <=> ~\E i \in 1..Len(c) : PeerOf[c[i]] = PeerOf[o]
  PROVE  FirstRides(g, now)
<1>0. \A i \in 1..Len(g) : i \in 1..Len(c) \/ i = Len(g)
  OBVIOUS
<1>1. \A i \in 1..Len(c) : i \in 1..Len(g) /\ i < Len(g)
  OBVIOUS
<1> DEFINE Shared(i, j) == PeerOf[c[j]] = PeerOf[c[i]]
<1>a. \A i, j \in 1..Len(c) : lane[c[i]] /\ Shared(i, j) /\ c[j] # c[i]
                       => \E k \in 1..Len(c) : k < j /\ c[k] = c[i]
  BY DEF FirstRides
<1>b. \A i \in 1..Len(c) : \E j \in 1..Len(c) : lane[c[j]] /\ Shared(i, j)
  BY DEF FirstRides
<1>2. ASSUME NEW i \in 1..Len(g), NEW j \in 1..Len(g),
             now[g[i]], PeerOf[g[j]] = PeerOf[g[i]], g[j] # g[i]
      PROVE  \E k \in 1..Len(g) : k < j /\ g[k] = g[i]
  <2>1. ASSUME NEW m \in 1..Len(c), g[i] = c[m] PROVE \E k \in 1..Len(g) : k < j /\ g[k] = g[i]
    <3>1. CASE j = Len(g)
      BY <1>1, <2>1, <3>1
    <3>2. CASE j \in 1..Len(c)
      <4>1. lane[c[m]] /\ Shared(m, j) /\ c[j] # c[m]
        BY <1>2, <2>1, <3>2
      <4>2. PICK k \in 1..Len(c) : k < j /\ c[k] = c[m]
        BY <1>a, <2>1, <3>2, <4>1, Zenon
      <4>3. k \in 1..Len(g) /\ g[k] = g[i]
        BY <1>1, <2>1, <4>2
      <4>4. QED
        BY <4>2, <4>3
    <3>3. QED
      BY <1>0, <3>1, <3>2
  <2>2. CASE i \in 1..Len(c)
    BY <2>1, <2>2
  <2>3. CASE i = Len(g) /\ \E m \in 1..Len(c) : c[m] = o
    BY <2>1, <2>3
  <2>4. CASE i = Len(g) /\ ~\E m \in 1..Len(c) : c[m] = o
    <3>1. ~\E m \in 1..Len(c) : PeerOf[c[m]] = PeerOf[o]
      BY <1>2, <2>4
    <3>2. j \in 1..Len(c)
      BY <1>0, <1>2, <2>4
    <3>3. QED
      BY <1>2, <2>4, <3>1, <3>2
  <2>5. QED
    BY <1>0, <2>2, <2>3, <2>4
<1>3. ASSUME NEW i \in 1..Len(g)
      PROVE  \E j \in 1..Len(g) : now[g[j]] /\ PeerOf[g[j]] = PeerOf[g[i]]
  <2>1. ASSUME NEW m \in 1..Len(c), PeerOf[g[i]] = PeerOf[c[m]]
        PROVE  \E j \in 1..Len(g) : now[g[j]] /\ PeerOf[g[j]] = PeerOf[g[i]]
    <3>1. PICK j \in 1..Len(c) : lane[c[j]] /\ Shared(m, j)
      BY <1>b, <2>1, Zenon
    <3>2. j \in 1..Len(g) /\ now[g[j]] /\ PeerOf[g[j]] = PeerOf[g[i]]
      BY <1>1, <2>1, <3>1
    <3>3. QED
      BY <3>2
  <2>2. CASE i \in 1..Len(c)
    BY <2>1, <2>2
  <2>3. CASE i = Len(g) /\ \E m \in 1..Len(c) : PeerOf[c[m]] = PeerOf[o]
    BY <2>1, <2>3
  <2>4. CASE i = Len(g) /\ ~\E m \in 1..Len(c) : PeerOf[c[m]] = PeerOf[o]
    BY <2>4
  <2>5. QED
    BY <1>0, <2>2, <2>3, <2>4
<1>4. QED
  BY <1>2, <1>3, Zenon DEF FirstRides

(* t enters a call on o, which it has or takes: what the three ways to do   *)
(* so have in common.                                                       *)
Enters(t, o) ==
  /\ Enter(t, o) /\ \A u \in Tasks : u # t => Still(u)
  /\ op'[t] = "none" /\ want'[t] = NoObj
  /\ ~parked_on_channel'[t] /\ ~woken'[t] /\ ~cancel_requested'[t]
  /\ waiters' = waiters /\ reserved' = reserved /\ ready_heads' = ready_heads
  /\ parked_on' = parked_on /\ drain_waiters' = drain_waiters /\ stopped' = stopped
  /\ \A x \in Objects : \A i \in 1..Len(waiters[x]) : waiters[x][i].task # t
  /\ \A p \in Peers : \A d \in drain_waiters[p] : d.task # t
  /\ \A x \in Objects : x # o => owner'[x] = owner[x] /\ depth'[x] = depth[x]
                                 /\ owner_lane'[x] = owner_lane[x] /\ ~(woken[t] /\ want[t] = x)
  /\ owner'[o] = t /\ depth'[o] = Count(calls[t], o) + 1
  /\ \/ owner[o] = t /\ owner_lane'[o] = owner_lane[o]
     \/ owner[o] = NoTask /\ ~reserved[o]
  /\ \/ \E i \in 1..Len(calls[t]) : calls[t][i] = o
     \/ owner_lane'[o] <=> ~Nested(t, o)

(* The calls after entering one.                                            *)
LEMMA EnterFacts ==
  ASSUME CInv, NEW t \in Tasks, NEW o \in Objects, Enter(t, o)
  PROVE  /\ calls'[t] = Append(calls[t], o) /\ calls' \in [Tasks -> Seq(Objects)]
         /\ \A u \in Tasks : u # t => calls'[u] = calls[u]
         /\ Len(calls[t]) \in Nat /\ Len(calls'[t]) = Len(calls[t]) + 1
         /\ \A i \in 1..Len(calls[t]) : calls'[t][i] = calls[t][i]
         /\ calls'[t][Len(calls'[t])] = o
         /\ Count(calls'[t], o) = Count(calls[t], o) + 1
         /\ \A x : x # o => Count(calls'[t], x) = Count(calls[t], x)
<1>1. calls \in [Tasks -> Seq(Objects)] /\ calls[t] \in Seq(Objects)
  BY DEF CInv, Types
<1> DEFINE g == Append(calls[t], o)
<1>2. /\ g \in Seq(Objects) /\ Len(g) = Len(calls[t]) + 1
      /\ \A i \in 1..Len(calls[t]) : g[i] = calls[t][i]
      /\ g[Len(calls[t]) + 1] = o
      /\ Count(g, o) = Count(calls[t], o) + 1
      /\ \A x : x # o => Count(g, x) = Count(calls[t], x)
  BY <1>1, CountAppend
<1>3. /\ calls'[t] = g /\ calls' \in [Tasks -> Seq(Objects)]
      /\ \A u \in Tasks : u # t => calls'[u] = calls[u]
  BY <1>1, <1>2 DEF Enter
<1>4. Len(calls[t]) \in Nat
  BY <1>1
<1>5. calls'[t] = Append(calls[t], o)
  BY <1>3
<1> HIDE DEF g
<1>6. /\ Len(calls'[t]) = Len(calls[t]) + 1
      /\ \A i \in 1..Len(calls[t]) : calls'[t][i] = calls[t][i]
      /\ calls'[t][Len(calls'[t])] = o
  BY <1>2, <1>3
<1>7. /\ Count(calls'[t], o) = Count(calls[t], o) + 1
      /\ \A x : x # o => Count(calls'[t], x) = Count(calls[t], x)
  BY <1>2, <1>3
<1>8. QED
  BY <1>3, <1>4, <1>5, <1>6, <1>7

(* Entering keeps the invariant, if the lanes are right after it.           *)
LEMMA EntersKeeps ==
  ASSUME CInv, NEW t \in Tasks, NEW o \in Objects, Enters(t, o), Types',
         \A u \in Tasks : HomeOK(u)',
         \A p \in Peers : /\ free_lanes'[p] \in Nat /\ free_lanes'[p] <= free_lanes[p]
                          /\ IsFiniteSet(Out(p)')
                          /\ free_lanes'[p] + Cardinality(Out(p)') = Lanes
  PROVE  CInv'
<1>1. /\ \A u \in Tasks : u # t => calls'[u] = calls[u]
      /\ Len(calls[t]) \in Nat /\ Len(calls'[t]) = Len(calls[t]) + 1
      /\ \A i \in 1..Len(calls[t]) : calls'[t][i] = calls[t][i]
      /\ calls'[t][Len(calls'[t])] = o
      /\ Count(calls'[t], o) = Count(calls[t], o) + 1
      /\ \A x : x # o => Count(calls'[t], x) = Count(calls[t], x)
  <2>1. Enter(t, o)
    BY DEF Enters
  <2>2. QED
    BY <2>1, EnterFacts, Zenon
<1>2. TaskOK(t)' /\ EdgeOK(t)' /\ HandedOK(t)'
  BY DEF Enters, TaskOK, EdgeOK, HandedOK
<1>3. Count(calls[t], o) \in Nat
  BY HeldFacts
<1>4. MovesOnly(t)
  <2>1. ASSUME NEW x \in Objects
        PROVE  \/ TakenBy(t, x)
               \/ /\ owner'[x] = owner[x] /\ owner_lane'[x] = owner_lane[x]
                  /\ owner[x] # t => depth'[x] = depth[x]
                  /\ owner[x] = t => depth'[x] > 0
    <3>1. CASE x = o
      <4>1. depth'[o] > 0
        BY <1>3 DEF Enters
      <4>2. QED
        BY <3>1, <4>1 DEF Enters, TakenBy
    <3>2. CASE x # o
      <4>1. owner[x] = t => depth[x] > 0
        BY ClaimsAssumption DEF CInv, ObjectsOK, ObjectOK
      <4>2. QED
        BY <3>2, <4>1 DEF Enters
    <3>3. QED
      BY <3>1, <3>2
  <2>2. QED
    BY <2>1 DEF Enters, MovesOnly
<1>5. LaneOK(t)'
  <2>1. FirstRides(calls[t], owner_lane)
    <3>1. LaneOK(t)
      BY DEF CInv, TasksOK
    <3>2. QED
      BY <3>1 DEF LaneOK, FirstRides
  <2>2. \/ \E i \in 1..Len(calls[t]) : calls[t][i] = o
        \/ owner_lane'[o] <=> ~\E i \in 1..Len(calls[t]) : PeerOf[calls[t][i]] = PeerOf[o]
    BY DEF Enters, Nested
  <2>3. ASSUME NEW i \in 1..Len(calls[t])
        PROVE  owner_lane'[calls[t][i]] = owner_lane[calls[t][i]]
    <3>1. calls[t][i] \in Objects /\ owner[calls[t][i]] = t
      BY CallerOwns
    <3>2. CASE calls[t][i] = o
      BY <3>1, <3>2, ClaimsAssumption DEF Enters
    <3>3. CASE calls[t][i] # o
      BY <3>1, <3>3 DEF Enters
    <3>4. QED
      BY <3>2, <3>3
  <2>4. PICK g, c, now : g = calls'[t] /\ c = calls[t] /\ now = owner_lane'
    OBVIOUS
  <2>5. FirstRides(g, now)
    <3>1. /\ Len(c) \in Nat /\ Len(g) = Len(c) + 1 /\ g[Len(g)] = o /\ FirstRides(c, owner_lane)
          /\ \A i \in 1..Len(c) : g[i] = c[i] /\ now[c[i]] = owner_lane[c[i]]
      BY <1>1, <2>1, <2>3, <2>4
    <3>2. \/ \E i \in 1..Len(c) : c[i] = o
          \/ now[o] <=> ~\E i \in 1..Len(c) : PeerOf[c[i]] = PeerOf[o]
      BY <2>2, <2>4
    <3>3. QED
      BY <3>1, <3>2, RidesAppend
  <2>6. FirstRides(calls'[t], owner_lane')
    BY <2>4, <2>5
  <2>7. QED
    BY <2>6 DEF LaneOK, FirstRides
<1>6. ASSUME NEW x \in Objects PROVE HeldBy(x, t)'
  <2>1. CASE x = o
    <3>1. owner'[x] = t /\ depth'[x] = Count(calls'[t], x) /\ ~woken'[t]
      BY <1>1, <2>1 DEF Enters
    <3>2. Count(calls'[t], x) \in Nat
      BY <1>1, <1>3, <2>1
    <3>3. QED
      BY <3>1, <3>2 DEF HeldBy
  <2>2. CASE x # o
    <3>1. /\ owner'[x] = owner[x] /\ depth'[x] = depth[x] /\ ~woken'[t]
          /\ ~(woken[t] /\ want[t] = x)
      BY <2>2 DEF Enters
    <3>2. Count(calls'[t], x) = Count(calls[t], x)
      BY <1>1, <2>2
    <3>3. HeldBy(x, t)
      BY HeldByAll DEF CInv
    <3>4. QED
      BY <3>1, <3>2, <3>3 DEF HeldBy
  <2>3. QED
    BY <2>1, <2>2
<1>7. QED
  BY <1>2, <1>4, <1>5, <1>6, MovesKeeps

(* A peer that is stopped with every lane at home takes no call.            *)
LEMMA CallingOpen ==
  ASSUME CInv, NEW t \in Tasks, NEW o \in Objects, Calling(t, o), stopped[PeerOf[o]]
  PROVE  free_lanes[PeerOf[o]] # Lanes
<1> SUFFICES ASSUME free_lanes[PeerOf[o]] = Lanes PROVE FALSE
  OBVIOUS
<1>1. PeerOf[o] \in Peers
  BY ClaimsAssumption
<1>2. PICK i \in 1..Len(calls[t]) : PeerOf[calls[t][i]] = PeerOf[o]
  BY DEF Calling, Nested
<1>3. calls[t][i] \in Objects /\ owner[calls[t][i]] = t
  BY CallerOwns
<1>4. owner[calls[t][i]] = NoTask
  BY <1>1, <1>2, <1>3, QuietWhenHome DEF ObjectsOf
<1>5. QED
  BY <1>3, <1>4, ClaimsAssumption

(* A task calls again on an object it is inside of.                         *)
LEMMA ReenterKeeps ==
  ASSUME CInv, NEW t \in Tasks, NEW o \in Objects, Reenter(t, o)
  PROVE  CInv'
<1>1. /\ Idle(t) /\ owner[o] = t /\ Enter(t, o)
      /\ depth' = [depth EXCEPT ![o] = @ + 1]
      /\ UNCHANGED <<owner, owner_lane, waiters, reserved, peerVars, taskVars, op, want, stopping>>
  BY DEF Reenter, Calling
<1>2. /\ Types /\ op[t] = "none" /\ want[t] = NoObj
      /\ ~parked_on_channel[t] /\ ~woken[t] /\ ~cancel_requested[t]
      /\ \A x \in Objects : \A i \in 1..Len(waiters[x]) : waiters[x][i].task # t
      /\ \A p \in Peers : \A d \in drain_waiters[p] : d.task # t
  BY <1>1, IdleFacts
<1>3. /\ depth[o] \in Nat /\ depth[o] = Count(calls[t], o) /\ depth[o] > 0
      /\ Len(calls[t]) \in Nat
  <2>1. depth[o] \in Nat /\ depth[o] = Count(calls[t], o) /\ Len(calls[t]) \in Nat
    BY <1>1, <1>2, HeldFacts
  <2>2. depth[o] > 0
    BY <1>1, ClaimsAssumption DEF CInv, ObjectsOK, ObjectOK
  <2>3. QED
    BY <2>1, <2>2
<1>4. \E i \in 1..Len(calls[t]) : calls[t][i] = o
  <2>1. Count(calls[t], o) # 0
    BY <1>3
  <2>2. QED
    BY <1>3, <2>1, CountFacts
<1>5. /\ depth'[o] = Count(calls[t], o) + 1 /\ depth' \in [Objects -> Nat]
      /\ \A x \in Objects : x # o => depth'[x] = depth[x]
  BY <1>1, <1>2, <1>3 DEF Types
<1>6. /\ calls' \in [Tasks -> Seq(Objects)]
      /\ \A u \in Tasks : u # t => calls'[u] = calls[u]
  BY <1>1, EnterFacts
<1>7. \A u \in Tasks : u # t => Still(u)
  BY <1>1, <1>6 DEF Still, Steady, taskVars
<1>8. Enters(t, o)
  <2>1. \A x \in Objects : x # o => owner'[x] = owner[x] /\ depth'[x] = depth[x]
                              /\ owner_lane'[x] = owner_lane[x] /\ ~(woken[t] /\ want[t] = x)
    BY <1>1, <1>2, <1>5
  <2>2. /\ op'[t] = "none" /\ want'[t] = NoObj
        /\ ~parked_on_channel'[t] /\ ~woken'[t] /\ ~cancel_requested'[t]
        /\ waiters' = waiters /\ reserved' = reserved /\ ready_heads' = ready_heads
        /\ parked_on' = parked_on /\ drain_waiters' = drain_waiters /\ stopped' = stopped
    BY <1>1, <1>2 DEF taskVars, peerVars
  <2>3. owner'[o] = t /\ owner_lane'[o] = owner_lane[o]
    BY <1>1
  <2>4. QED
    BY <1>1, <1>2, <1>4, <1>5, <1>7, <2>1, <2>2, <2>3 DEF Enters
<1>9. Types'
  BY <1>1, <1>2, <1>5, <1>6 DEF Types, peerVars, taskVars
<1>10. free_lanes' = free_lanes /\ owner_lane' = owner_lane /\ op'[t] # "drain"
  BY <1>1, <1>2 DEF peerVars
<1>11. \A u \in Tasks : HomeOK(u)'
  <2>1. \A u \in Tasks : u # t => Steady(u)
    BY <1>7 DEF Still
  <2>2. QED
    BY <1>10, <2>1, SameHome
<1>12. QED
  BY <1>8, <1>9, <1>10, <1>11, SameLanes, EntersKeeps

(* The lanes after a call took a free object, with a lane or nested.        *)
LEMMA GrantLanes ==
  ASSUME CInv, NEW o \in Objects, owner[o] = NoTask, NEW nested \in BOOLEAN,
         nested \/ free_lanes[PeerOf[o]] > 0,
         owner_lane' = [owner_lane EXCEPT ![o] = ~nested],
         free_lanes' = [free_lanes EXCEPT ![PeerOf[o]] = IF nested THEN @ ELSE @ - 1],
         NEW p \in Peers
  PROVE  /\ free_lanes'[p] \in Nat /\ free_lanes'[p] <= free_lanes[p]
         /\ IsFiniteSet(Out(p)') /\ free_lanes'[p] + Cardinality(Out(p)') = Lanes
<1>1. /\ free_lanes \in [Peers -> Nat] /\ owner_lane \in [Objects -> BOOLEAN]
      /\ PeerOK(p) /\ ~owner_lane[o] /\ PeerOf[o] \in Peers
  BY ClaimsAssumption DEF CInv, Types, PeersOK, ObjectsOK, ObjectOK
<1>2. /\ free_lanes[p] \in Nat /\ IsFiniteSet(Out(p)) /\ Cardinality(Out(p)) \in Nat
      /\ free_lanes[p] + Cardinality(Out(p)) = Lanes /\ Lanes \in Nat
  <2>1. IsFiniteSet(Out(p)) /\ free_lanes[p] + Cardinality(Out(p)) = Lanes
    BY <1>1 DEF PeerOK
  <2>2. QED
    BY <1>1, <2>1, FS_CardinalityType, ClaimsAssumption
<1>3. /\ owner_lane'[o] = ~nested
      /\ \A x \in Objects : x # o => owner_lane'[x] = owner_lane[x]
  BY <1>1
<1>4. CASE nested \/ p # PeerOf[o]
  <2>1. free_lanes'[p] = free_lanes[p]
    BY <1>1, <1>4
  <2>2. Out(p)' = Out(p)
    BY <1>1, <1>3, <1>4 DEF Out, ObjectsOf
  <2>3. QED
    BY <1>2, <2>1, <2>2
<1>5. CASE ~nested /\ p = PeerOf[o]
  <2>1. free_lanes'[p] = free_lanes[p] - 1 /\ free_lanes[p] > 0
    BY <1>1, <1>5
  <2>2. Out(p)' = Out(p) \cup {o} /\ o \notin Out(p)
    BY <1>1, <1>3, <1>5 DEF Out, ObjectsOf
  <2>3. IsFiniteSet(Out(p) \cup {o}) /\ Cardinality(Out(p) \cup {o}) = Cardinality(Out(p)) + 1
    <3>1. /\ IsFiniteSet(Out(p) \cup {o})
          /\ Cardinality(Out(p) \cup {o})
               = IF o \in Out(p) THEN Cardinality(Out(p)) ELSE Cardinality(Out(p)) + 1
      BY <1>2, FS_AddElement
    <3>2. QED
      BY <2>2, <3>1
  <2>4. QED
    BY <1>2, <2>1, <2>2, <2>3
<1>6. QED
  BY <1>4, <1>5

(* A call takes a free object.                                              *)
LEMMA GrantKeeps ==
  ASSUME CInv, NEW t \in Tasks, NEW o \in Objects, Grant(t, o)
  PROVE  CInv'
<1> DEFINE nested == Nested(t, o)
<1>1. /\ Calling(t, o) /\ Idle(t) /\ owner[o] = NoTask /\ ~reserved[o] /\ Enter(t, o)
      /\ nested \/ free_lanes[PeerOf[o]] > 0
      /\ owner' = [owner EXCEPT ![o] = t]
      /\ depth' = [depth EXCEPT ![o] = 1]
      /\ owner_lane' = [owner_lane EXCEPT ![o] = ~nested]
      /\ free_lanes' = [free_lanes EXCEPT ![PeerOf[o]] = IF nested THEN @ ELSE @ - 1]
      /\ UNCHANGED <<waiters, reserved, ready_heads, drain_waiters, stopped, parked_on,
                     taskVars, op, want, stopping>>
  BY DEF Grant, Calling
<1>2. /\ Types /\ op[t] = "none" /\ want[t] = NoObj
      /\ ~parked_on_channel[t] /\ ~woken[t] /\ ~cancel_requested[t]
      /\ \A x \in Objects : \A i \in 1..Len(waiters[x]) : waiters[x][i].task # t
      /\ \A p \in Peers : \A d \in drain_waiters[p] : d.task # t
  BY <1>1, IdleFacts
<1>0. nested \in BOOLEAN /\ PeerOf[o] \in Peers
  BY ClaimsAssumption DEF Nested
<1>3. Count(calls[t], o) = 0
  <2>1. owner[o] # t
    BY <1>1, ClaimsAssumption
  <2>2. Len(calls[t]) \in Nat /\ \A i \in 1..Len(calls[t]) : calls[t][i] # o
    BY <2>1, HeldFacts
  <2>3. QED
    BY <2>2, CountFacts
<1>4. /\ owner'[o] = t /\ depth'[o] = 1 /\ (owner_lane'[o] <=> ~nested)
      /\ \A x \in Objects : x # o => owner'[x] = owner[x] /\ depth'[x] = depth[x]
                                     /\ owner_lane'[x] = owner_lane[x]
      /\ owner' \in [Objects -> Tasks \cup {NoTask}] /\ depth' \in [Objects -> Nat]
      /\ owner_lane' \in [Objects -> BOOLEAN]
  BY <1>0, <1>1, <1>2 DEF Types
<1>5. /\ calls' \in [Tasks -> Seq(Objects)]
      /\ \A u \in Tasks : u # t => calls'[u] = calls[u]
  BY <1>1, EnterFacts
<1>6. \A u \in Tasks : u # t => Still(u)
  BY <1>1, <1>5 DEF Still, Steady, taskVars
<1> HIDE DEF nested
<1>7. ASSUME NEW p \in Peers
      PROVE  /\ free_lanes'[p] \in Nat /\ free_lanes'[p] <= free_lanes[p]
             /\ IsFiniteSet(Out(p)') /\ free_lanes'[p] + Cardinality(Out(p)') = Lanes
  BY <1>0, <1>1, GrantLanes
<1>8. /\ free_lanes' \in [Peers -> Nat]
      /\ \A p \in Peers : p # PeerOf[o] => free_lanes'[p] = free_lanes[p]
  <2>1. free_lanes \in [Peers -> Nat]
    BY <1>2 DEF Types
  <2>2. free_lanes'[PeerOf[o]] \in Nat
    BY <1>0, <1>7
  <2>3. QED
    BY <1>0, <1>1, <2>1, <2>2
<1>9. Enters(t, o)
  <2>1. \A x \in Objects : x # o => ~(woken[t] /\ want[t] = x)
    BY <1>2
  <2>2. /\ op'[t] = "none" /\ want'[t] = NoObj
        /\ ~parked_on_channel'[t] /\ ~woken'[t] /\ ~cancel_requested'[t]
        /\ waiters' = waiters /\ reserved' = reserved /\ ready_heads' = ready_heads
        /\ parked_on' = parked_on /\ drain_waiters' = drain_waiters /\ stopped' = stopped
    BY <1>1, <1>2 DEF taskVars
  <2>3. depth'[o] = Count(calls[t], o) + 1 /\ (owner_lane'[o] <=> ~Nested(t, o))
    BY <1>3, <1>4 DEF nested
  <2>4. QED
    BY <1>1, <1>2, <1>4, <1>6, <2>1, <2>2, <2>3 DEF Enters
<1>10. Types'
  BY <1>1, <1>2, <1>4, <1>5, <1>8 DEF Types, taskVars
<1>11. ASSUME NEW u \in Tasks PROVE HomeOK(u)'
  <2> SUFFICES ASSUME op'[u] = "drain", woken'[u] PROVE free_lanes'[stopping'[u]] = Lanes
    BY DEF HomeOK
  <2>1. op[u] = "drain" /\ woken[u] /\ stopping'[u] = stopping[u]
    BY <1>1 DEF taskVars
  <2>2. /\ free_lanes[stopping[u]] = Lanes /\ stopping[u] \in Peers
        /\ stopped[stopping[u]]
    BY <2>1 DEF CInv, TasksOK, TaskOK, HomeOK
  <2>3. stopping[u] # PeerOf[o]
    BY <1>1, <2>2, CallingOpen
  <2>4. QED
    BY <1>8, <2>1, <2>2, <2>3
<1>12. QED
  BY <1>7, <1>9, <1>10, <1>11, EntersKeeps

(* The resume of a task, whatever it was parked in.                         *)
LEMMA ResumeFacts ==
  ASSUME CInv, NEW t \in Tasks, NEW what, Resumes(t, what)
  PROVE  /\ op[t] = what /\ ~parked_on_channel[t] /\ Types
         /\ op'[t] = "none" /\ want'[t] = NoObj /\ ~cancel_requested'[t]
         /\ \A u \in Tasks : u # t =>
              /\ op'[u] = op[u] /\ want'[u] = want[u] /\ stopping'[u] = stopping[u]
              /\ park_epoch'[u] = park_epoch[u] /\ cancel_requested'[u] = cancel_requested[u]
         /\ cancel_requested' \in [Tasks -> BOOLEAN]
         /\ op' \in [Tasks -> {"none", "claim", "drain"}]
         /\ want' \in [Tasks -> Objects \cup {NoObj}]
         /\ stopping' \in [Tasks -> Peers \cup {NoPeer}]
         /\ park_epoch' \in [Tasks -> Nat]
<1>1. Types
  BY DEF CInv
<1>2. park_epoch' \in [Tasks -> Nat] /\ \A u \in Tasks : u # t => park_epoch'[u] = park_epoch[u]
  <2>1. (park_epoch[t] + 1) % EpochWrap \in Nat
    BY <1>1, ClaimsAssumption DEF Types
  <2>2. QED
    BY <1>1, <2>1 DEF Types, Resumes
<1>3. QED
  BY <1>1, <1>2 DEF Types, Resumes

(* A task resumes inside the call whose claim it was handed.                *)
LEMMA ClaimGrantedKeeps ==
  ASSUME CInv, NEW t \in Tasks, ClaimGranted(t)
  PROVE  CInv'
<1> DEFINE o == want[t]
<1>1. /\ Resumes(t, "claim") /\ woken[t] /\ Enter(t, o)
      /\ woken' = [woken EXCEPT ![t] = FALSE] /\ UNCHANGED parked_on_channel
      /\ UNCHANGED <<objVars, peerVars>>
  BY DEF ClaimGranted, TakeWake
<1>2. /\ op[t] = "claim" /\ ~parked_on_channel[t] /\ Types
      /\ op'[t] = "none" /\ want'[t] = NoObj /\ ~cancel_requested'[t]
      /\ \A u \in Tasks : u # t =>
           /\ op'[u] = op[u] /\ want'[u] = want[u] /\ stopping'[u] = stopping[u]
           /\ park_epoch'[u] = park_epoch[u] /\ cancel_requested'[u] = cancel_requested[u]
      /\ cancel_requested' \in [Tasks -> BOOLEAN]
      /\ op' \in [Tasks -> {"none", "claim", "drain"}]
      /\ want' \in [Tasks -> Objects \cup {NoObj}]
      /\ stopping' \in [Tasks -> Peers \cup {NoPeer}]
      /\ park_epoch' \in [Tasks -> Nat]
  BY <1>1, ResumeFacts
<1>3. o \in Objects /\ depth[o] = 1 /\ (owner_lane[o] <=> ~Nested(t, o))
  BY <1>1, <1>2 DEF CInv, TasksOK, TaskOK, HandedOK
<1>4. /\ ~woken'[t] /\ ~parked_on_channel'[t] /\ woken' \in [Tasks -> BOOLEAN]
      /\ \A u \in Tasks : u # t => woken'[u] = woken[u]
                                   /\ parked_on_channel'[u] = parked_on_channel[u]
  BY <1>1, <1>2 DEF Types
<1>5. owner[o] = t /\ Count(calls[t], o) = 0
  <2>1. owner[o] = t
    BY <1>1, <1>3, HeldFacts
  <2>2. Count(calls[t], o) \in Nat /\ depth[o] = Count(calls[t], o) + 1
    BY <1>1, <1>3, <2>1, HeldFacts
  <2>3. QED
    BY <1>3, <2>1, <2>2
<1>6. /\ calls' \in [Tasks -> Seq(Objects)]
      /\ \A u \in Tasks : u # t => calls'[u] = calls[u]
  BY <1>1, <1>3, EnterFacts
<1>7. \A u \in Tasks : u # t => Still(u)
  BY <1>2, <1>4, <1>6 DEF Still, Steady
<1>8. /\ \A x \in Objects : \A i \in 1..Len(waiters[x]) : waiters[x][i].task # t
      /\ \A p \in Peers : \A d \in drain_waiters[p] : d.task # t
  <2>1. \A x \in Objects : \A i \in 1..Len(waiters[x]) : waiters[x][i].task # t
    BY <1>1, QueueFacts DEF EntryOK
  <2>2. \A p \in Peers : \A d \in drain_waiters[p] : d.task # t
    BY <1>1 DEF CInv, PeersOK, PeerOK
  <2>3. QED
    BY <2>1, <2>2
<1>9. /\ owner' = owner /\ depth' = depth /\ owner_lane' = owner_lane /\ free_lanes' = free_lanes
      /\ waiters' = waiters /\ reserved' = reserved /\ ready_heads' = ready_heads
      /\ parked_on' = parked_on /\ drain_waiters' = drain_waiters /\ stopped' = stopped
  BY <1>1 DEF objVars, peerVars
<1>10. Enters(t, o)
  <2>1. depth'[o] = Count(calls[t], o) + 1 /\ owner'[o] = t /\ owner_lane'[o] = owner_lane[o]
    BY <1>3, <1>5, <1>9
  <2>2. \A x \in Objects : x # o => owner'[x] = owner[x] /\ depth'[x] = depth[x]
                              /\ owner_lane'[x] = owner_lane[x] /\ ~(woken[t] /\ want[t] = x)
    BY <1>9
  <2> HIDE DEF o
  <2>3. QED
    BY <1>1, <1>2, <1>3, <1>4, <1>5, <1>7, <1>8, <1>9, <2>1, <2>2 DEF Enters
<1>11. Types'
  BY <1>1, <1>2, <1>4, <1>6, <1>9 DEF Types
<1>12. \A u \in Tasks : HomeOK(u)'
  <2>1. (\A u \in Tasks : u # t => Steady(u)) /\ op'[t] # "drain"
    BY <1>2, <1>7 DEF Still
  <2>2. QED
    BY <1>9, <2>1, SameHome
<1> HIDE DEF o
<1>13. QED
  BY <1>3, <1>9, <1>10, <1>11, <1>12, SameLanes, EntersKeeps

(* A stop leaves its drain.  It was told that the lanes are home: a task    *)
(* that stops a service is not cancelled.                                   *)
LEMMA DrainEndsKeeps ==
  ASSUME CInv, Cancellable \cap Stoppers = {}, NEW t \in Tasks, DrainEnds(t)
  PROVE  CInv'
<1>1. /\ Resumes(t, "drain") /\ calls' = calls
      /\ woken' = [woken EXCEPT ![t] = FALSE] /\ UNCHANGED parked_on_channel
      /\ UNCHANGED <<objVars, peerVars>>
  BY DEF DrainEnds, TakeWake
<1>2. /\ op[t] = "drain" /\ ~parked_on_channel[t] /\ Types
      /\ op'[t] = "none" /\ want'[t] = NoObj /\ ~cancel_requested'[t]
      /\ \A u \in Tasks : u # t =>
           /\ op'[u] = op[u] /\ want'[u] = want[u] /\ stopping'[u] = stopping[u]
           /\ park_epoch'[u] = park_epoch[u] /\ cancel_requested'[u] = cancel_requested[u]
      /\ cancel_requested' \in [Tasks -> BOOLEAN]
      /\ op' \in [Tasks -> {"none", "claim", "drain"}]
      /\ want' \in [Tasks -> Objects \cup {NoObj}]
      /\ stopping' \in [Tasks -> Peers \cup {NoPeer}]
      /\ park_epoch' \in [Tasks -> Nat]
  BY <1>1, ResumeFacts
<1>3. want[t] = NoObj /\ woken[t]
  BY <1>2 DEF CInv, TasksOK, TaskOK
<1>4. /\ ~woken'[t] /\ ~parked_on_channel'[t] /\ woken' \in [Tasks -> BOOLEAN]
      /\ \A u \in Tasks : u # t => woken'[u] = woken[u]
                                   /\ parked_on_channel'[u] = parked_on_channel[u]
  BY <1>1, <1>2 DEF Types
<1>5. \A u \in Tasks : u # t => Still(u)
  BY <1>1, <1>2, <1>4 DEF Still, Steady
<1>6. /\ \A x \in Objects : \A i \in 1..Len(waiters[x]) : waiters[x][i].task # t
      /\ \A p \in Peers : \A d \in drain_waiters[p] : d.task # t
  <2>1. \A x \in Objects : \A i \in 1..Len(waiters[x]) : waiters[x][i].task # t
    BY <1>2, QueueFacts DEF EntryOK
  <2>2. \A p \in Peers : \A d \in drain_waiters[p] : d.task # t
    BY <1>3 DEF CInv, PeersOK, PeerOK
  <2>3. QED
    BY <2>1, <2>2
<1>7. /\ owner' = owner /\ depth' = depth /\ owner_lane' = owner_lane /\ free_lanes' = free_lanes
      /\ waiters' = waiters /\ reserved' = reserved /\ ready_heads' = ready_heads
      /\ parked_on' = parked_on /\ drain_waiters' = drain_waiters /\ stopped' = stopped
  BY <1>1 DEF objVars, peerVars
<1>8. MovesOnly(t)
  <2>1. \A x \in Objects : owner[x] = t => depth[x] > 0
    BY ClaimsAssumption DEF CInv, ObjectsOK, ObjectOK
  <2>2. QED
    BY <1>5, <1>6, <1>7, <2>1 DEF MovesOnly
<1>9. TaskOK(t)' /\ EdgeOK(t)' /\ HandedOK(t)'
  BY <1>2, <1>4 DEF TaskOK, EdgeOK, HandedOK
<1>10. LaneOK(t)'
  <2>1. calls'[t] = calls[t] /\ \A x \in Objects : owner[x] = t => owner_lane'[x] = owner_lane[x]
    BY <1>1, <1>7
  <2>2. QED
    BY <2>1, StillLane
<1>11. \A u \in Tasks : HomeOK(u)'
  <2>1. (\A u \in Tasks : u # t => Steady(u)) /\ op'[t] # "drain"
    BY <1>2, <1>5 DEF Still
  <2>2. QED
    BY <1>7, <2>1, SameHome
<1>12. ASSUME NEW x \in Objects PROVE HeldBy(x, t)'
  <2>1. HeldBy(x, t) /\ want[t] # x
    BY <1>3, HeldByAll, ClaimsAssumption DEF CInv
  <2>2. QED
    BY <1>1, <1>4, <1>7, <2>1 DEF HeldBy
<1>13. Types'
  BY <1>1, <1>2, <1>4, <1>7 DEF Types
<1>14. QED
  BY <1>7, <1>8, <1>9, <1>10, <1>11, <1>12, <1>13, SameLanes, MovesKeeps

-----------------------------------------------------------------------------
(* Cancelling, and stopping a service.                                      *)

(* A step that moves no object and no lane, and leaves every queue's tasks  *)
(* waiting.                                                                 *)
Standing ==
  /\ owner' = owner /\ depth' = depth /\ owner_lane' = owner_lane /\ free_lanes' = free_lanes
  /\ waiters' = waiters /\ reserved' = reserved /\ ready_heads' = ready_heads
  /\ \A x \in Objects : \A i \in 1..Len(waiters[x]) :
       /\ Steady(waiters[x][i].task)
       /\ parked_on_channel'[waiters[x][i].task] => parked_on_channel[waiters[x][i].task]

(* It leaves the objects as they are.                                       *)
LEMMA StandingObjects ==
  ASSUME CInv, Standing
  PROVE  ObjectsOK'
<1> SUFFICES ASSUME NEW x \in Objects PROVE QueueOK(x)' /\ ObjectOK(x)'
  BY DEF ObjectsOK
<1>1. waiters'[x] = waiters[x]
  BY DEF Standing
<1>2. \A i \in 1..Len(waiters[x]) : Steady(waiters[x][i].task)
  BY DEF Standing
<1>3. \A i \in 1..Len(waiters[x]) :
        /\ Steady(waiters[x][i].task)
        /\ parked_on_channel'[waiters[x][i].task] => parked_on_channel[waiters[x][i].task]
  BY DEF Standing
<1>4. QueueOK(x)'
  BY <1>1, <1>2, StillQueue
<1>5. AnyLive(waiters[x])' => AnyLive(waiters[x])
  BY <1>1, <1>3, StillLive
<1>6. ObjectOK(x)
  BY DEF CInv, ObjectsOK
<1>7. /\ owner'[x] = owner[x] /\ owner_lane'[x] = owner_lane[x] /\ depth'[x] = depth[x]
      /\ reserved'[x] = reserved[x] /\ ready_heads' = ready_heads
  BY DEF Standing
<1>8. QED
  BY <1>4, <1>5, <1>6, <1>7 DEF ObjectOK, Contains

(* A task is cancelled: it is no longer parked, and resumes.                *)
LEMMA CancelKeeps ==
  ASSUME CInv, Cancellable \cap Stoppers = {}, NEW t \in Tasks, request_cancel(t)
  PROVE  CInv'
<1>1. /\ t \in Cancellable /\ op[t] # "none" /\ Types
      /\ cancel_requested' = [cancel_requested EXCEPT ![t] = TRUE]
      /\ parked_on_channel' = [parked_on_channel EXCEPT ![t] = FALSE]
      /\ UNCHANGED <<objVars, peerVars, park_epoch, woken, coroVars>>
  BY DEF request_cancel, CInv
<1>2. /\ op' = op /\ want' = want /\ stopping' = stopping /\ calls' = calls
      /\ park_epoch' = park_epoch /\ woken' = woken
      /\ owner' = owner /\ depth' = depth /\ owner_lane' = owner_lane /\ free_lanes' = free_lanes
      /\ waiters' = waiters /\ reserved' = reserved /\ ready_heads' = ready_heads
      /\ parked_on' = parked_on /\ drain_waiters' = drain_waiters /\ stopped' = stopped
  BY <1>1 DEF objVars, peerVars, coroVars
<1>3. /\ cancel_requested'[t] /\ ~parked_on_channel'[t]
      /\ \A u \in Tasks : u # t => /\ cancel_requested'[u] = cancel_requested[u]
                                   /\ parked_on_channel'[u] = parked_on_channel[u]
      /\ cancel_requested' \in [Tasks -> BOOLEAN] /\ parked_on_channel' \in [Tasks -> BOOLEAN]
  BY <1>1 DEF Types
<1>4. \A u \in Tasks : Steady(u) /\ (u # t => Still(u))
  BY <1>2, <1>3 DEF Still, Steady
<1>5. Types'
  BY <1>1, <1>2, <1>3 DEF Types
<1>6. ASSUME NEW u \in Tasks
      PROVE  TaskOK(u)' /\ EdgeOK(u)' /\ HandedOK(u)' /\ LaneOK(u)' /\ HomeOK(u)'
  <2>1. TaskOK(u)' /\ EdgeOK(u)'
    <3>1. CASE u = t
      <4>1. TaskOK(t) /\ t \notin Stoppers
        BY <1>1 DEF CInv, TasksOK
      <4>2. op[t] # "drain"
        BY <4>1 DEF TaskOK
      <4>3. QED
        BY <1>1, <1>2, <1>3, <3>1, <4>1, <4>2 DEF TaskOK, EdgeOK
    <3>2. CASE u # t
      BY <1>2, <1>4, <3>2, StillTask, StillEdge
    <3>3. QED
      BY <3>1, <3>2
  <2>2. HandedOK(u)' /\ LaneOK(u)'
    <3>1. /\ calls'[u] = calls[u] /\ Steady(u)
          /\ \A x \in Objects : owner[x] = u => owner_lane'[x] = owner_lane[x]
          /\ \A x \in Objects : owner[x] = u =>
               owner_lane'[x] = owner_lane[x] /\ depth'[x] = depth[x]
      BY <1>2, <1>4
    <3>2. QED
      BY <3>1, StillHanded, StillLane
  <2>3. HomeOK(u)'
    <3>1. HomeOK(u)
      BY DEF CInv, TasksOK
    <3>2. QED
      BY <1>2, <3>1 DEF HomeOK
  <2>4. QED
    BY <2>1, <2>2, <2>3
<1>7. TasksOK'
  BY <1>6 DEF TasksOK
<1>8. ObjectsOK'
  <2>1. ASSUME NEW x \in Objects, NEW i \in 1..Len(waiters[x])
        PROVE  /\ Steady(waiters[x][i].task)
               /\ parked_on_channel'[waiters[x][i].task] => parked_on_channel[waiters[x][i].task]
    <3>1. waiters[x][i].task \in Tasks
      BY QueueFacts
    <3>2. QED
      BY <1>3, <1>4, <3>1
  <2>2. Standing
    BY <1>2, <2>1 DEF Standing
  <2>3. QED
    BY <2>2, StandingObjects
<1>9. PeersOK'
  <2> SUFFICES ASSUME NEW p \in Peers PROVE PeerOK(p)'
    BY DEF PeersOK
  <2>1. \A d \in drain_waiters[p] : Steady(d.task)
    <3>1. \A d \in drain_waiters[p] : d.task \in Tasks
      BY <1>1 DEF Types
    <3>2. QED
      BY <1>4, <3>1
  <2>2. QED
    BY <1>2, <2>1, SameLanes, StillPeer
<1>10. ClaimIsHeld'
  BY <1>2 DEF CInv, ClaimIsHeld, InCalls
<1>11. QED
  BY <1>5, <1>7, <1>8, <1>9, <1>10 DEF CInv

(* A stop refuses new calls, and waits if a lane is out.                    *)
LEMMA DrainKeeps ==
  ASSUME CInv, NEW t \in Tasks, NEW p \in Peers, drain_lanes(t, p)
  PROVE  CInv'
<1>1. /\ Idle(t) /\ t \in Stoppers
      /\ stopped' = [stopped EXCEPT ![p] = TRUE]
      /\ UNCHANGED <<objVars, free_lanes, ready_heads, parked_on, cancel_requested,
                     park_epoch, woken, want, calls>>
  BY DEF drain_lanes
<1>2. /\ want' = want /\ calls' = calls /\ cancel_requested' = cancel_requested
      /\ park_epoch' = park_epoch /\ woken' = woken
      /\ owner' = owner /\ depth' = depth /\ owner_lane' = owner_lane /\ free_lanes' = free_lanes
      /\ waiters' = waiters /\ reserved' = reserved /\ ready_heads' = ready_heads
      /\ parked_on' = parked_on
  BY <1>1 DEF objVars
<1>3. /\ Types /\ TaskOK(t) /\ LaneOK(t) /\ op[t] = "none" /\ want[t] = NoObj
      /\ ~parked_on_channel[t] /\ ~woken[t] /\ ~cancel_requested[t]
      /\ \A x \in Objects : \A i \in 1..Len(waiters[x]) : waiters[x][i].task # t
      /\ \A q \in Peers : \A d \in drain_waiters[q] : d.task # t
  BY <1>1, IdleFacts
<1> DEFINE E == [task |-> t, epoch |-> park_epoch[t]]
<1>4. \/ /\ drain_waiters' = drain_waiters /\ parked_on_channel' = parked_on_channel
         /\ op' = op /\ stopping' = stopping
      \/ /\ drain_waiters' = [drain_waiters EXCEPT ![p] = @ \cup {E}]
         /\ parked_on_channel' = [parked_on_channel EXCEPT ![t] = TRUE]
         /\ op' = [op EXCEPT ![t] = "drain"] /\ stopping' = [stopping EXCEPT ![t] = p]
  BY DEF drain_lanes, ParkTask
<1>5. E \in [task : Tasks, epoch : Nat] /\ E.task = t
  BY <1>3 DEF Types
<1> HIDE DEF E
<1>6. /\ \A u \in Tasks : u # t => /\ parked_on_channel'[u] = parked_on_channel[u]
                                   /\ op'[u] = op[u] /\ stopping'[u] = stopping[u]
      /\ \/ op'[t] = "none" /\ ~parked_on_channel'[t] /\ drain_waiters' = drain_waiters
         \/ /\ op'[t] = "drain" /\ parked_on_channel'[t] /\ stopping'[t] = p
            /\ \A q \in Peers : \A d \in drain_waiters'[q] :
                 d \in drain_waiters[q] \/ (q = p /\ d = E)
  BY <1>3, <1>4 DEF Types
<1>7. Types'
  <2>1. /\ parked_on_channel \in [Tasks -> BOOLEAN] /\ stopped \in [Peers -> BOOLEAN]
        /\ op \in [Tasks -> {"none", "claim", "drain"}]
        /\ stopping \in [Tasks -> Peers \cup {NoPeer}]
        /\ drain_waiters \in [Peers -> SUBSET [task : Tasks, epoch : Nat]]
    BY <1>3 DEF Types
  <2>2. stopped' \in [Peers -> BOOLEAN]
    BY <1>1, <2>1
  <2>3. parked_on_channel' \in [Tasks -> BOOLEAN]
    BY <1>4, <2>1
  <2>4. op' \in [Tasks -> {"none", "claim", "drain"}]
    BY <1>4, <2>1
  <2>5. stopping' \in [Tasks -> Peers \cup {NoPeer}]
    BY <1>4, <2>1
  <2>6. drain_waiters' \in [Peers -> SUBSET [task : Tasks, epoch : Nat]]
    <3>1. drain_waiters[p] \cup {E} \in SUBSET [task : Tasks, epoch : Nat]
      BY <1>5, <2>1
    <3>2. QED
      BY <1>4, <2>1, <3>1
  <2>7. QED
    BY <1>2, <1>3, <2>2, <2>3, <2>4, <2>5, <2>6 DEF Types
<1>8. \A u \in Tasks : u # t => Still(u)
  BY <1>2, <1>6 DEF Still, Steady
<1>9. stopped'[p] /\ \A q \in Peers : stopped[q] => stopped'[q]
  BY <1>1, <1>3 DEF Types
<1>10. ASSUME NEW u \in Tasks
       PROVE  TaskOK(u)' /\ EdgeOK(u)' /\ HandedOK(u)' /\ LaneOK(u)' /\ HomeOK(u)'
  <2>1. CASE u = t
    <3>1. TaskOK(t)' /\ EdgeOK(t)' /\ HandedOK(t)' /\ HomeOK(t)'
      BY <1>1, <1>2, <1>3, <1>6, <1>9 DEF TaskOK, EdgeOK, HandedOK, HomeOK
    <3>2. calls'[t] = calls[t] /\ \A x \in Objects : owner[x] = t => owner_lane'[x] = owner_lane[x]
      BY <1>2
    <3>3. LaneOK(t)'
      BY <3>2, StillLane
    <3>4. QED
      BY <2>1, <3>1, <3>3
  <2>2. CASE u # t
    <3>1. Still(u) /\ Steady(u) /\ HomeOK(u)
      BY <1>8, <2>2 DEF Still, CInv, TasksOK
    <3>2. TaskOK(u)' /\ EdgeOK(u)'
      BY <1>2, <1>9, <3>1, StillTask, StillEdge
    <3>3. /\ calls'[u] = calls[u]
          /\ \A x \in Objects : owner[x] = u => owner_lane'[x] = owner_lane[x]
          /\ \A x \in Objects : owner[x] = u =>
               owner_lane'[x] = owner_lane[x] /\ depth'[x] = depth[x]
      BY <1>2
    <3>4. HandedOK(u)' /\ LaneOK(u)'
      BY <3>1, <3>3, StillHanded, StillLane
    <3>5. HomeOK(u)'
      BY <1>2, <3>1 DEF HomeOK, Steady
    <3>6. QED
      BY <3>2, <3>4, <3>5
  <2>3. QED
    BY <2>1, <2>2
<1>11. TasksOK'
  BY <1>10 DEF TasksOK
<1>12. ObjectsOK'
  <2>1. ASSUME NEW x \in Objects, NEW i \in 1..Len(waiters[x])
        PROVE  /\ Steady(waiters[x][i].task)
               /\ parked_on_channel'[waiters[x][i].task] => parked_on_channel[waiters[x][i].task]
    <3>1. waiters[x][i].task \in Tasks /\ waiters[x][i].task # t
      BY <1>3, QueueFacts
    <3>2. QED
      BY <1>8, <3>1 DEF Still
  <2>2. Standing
    BY <1>2, <2>1 DEF Standing
  <2>3. QED
    BY <2>2, StandingObjects
<1>13. PeersOK'
  <2> SUFFICES ASSUME NEW q \in Peers PROVE PeerOK(q)'
    BY DEF PeersOK
  <2>1. PeerOK(q)
    BY DEF CInv, PeersOK
  <2>2. ASSUME NEW d \in drain_waiters'[q]
        PROVE  op'[d.task] = "drain" /\ stopping'[d.task] = q /\ ~woken'[d.task]
    <3>1. CASE d \in drain_waiters[q]
      <4>1. d.task \in Tasks /\ d.task # t
        BY <1>3, <3>1 DEF Types
      <4>2. op[d.task] = "drain" /\ stopping[d.task] = q /\ ~woken[d.task]
        BY <2>1, <3>1 DEF PeerOK
      <4>3. QED
        BY <1>2, <1>6, <4>1, <4>2
    <3>2. CASE d \notin drain_waiters[q]
      BY <1>2, <1>3, <1>5, <1>6, <3>2
    <3>3. QED
      BY <3>1, <3>2
  <2>3. /\ Once(ready_heads[q])'
        /\ \A i \in 1..Len(ready_heads'[q]) :
             PeerOf[ready_heads'[q][i]] = q /\ reserved'[ready_heads'[q][i]]
    BY <1>2, <2>1 DEF PeerOK, Once
  <2>4. ready_heads'[q] # <<>> => free_lanes'[q] = 0
    BY <1>2, <2>1 DEF PeerOK
  <2>5. IsFiniteSet(Out(q)') /\ free_lanes'[q] + Cardinality(Out(q)') = Lanes
    BY <1>2, SameLanes
  <2>6. QED
    BY <2>2, <2>3, <2>4, <2>5 DEF PeerOK
<1>14. ClaimIsHeld'
  BY <1>2 DEF CInv, ClaimIsHeld, InCalls
<1>15. QED
  BY <1>7, <1>11, <1>12, <1>13, <1>14 DEF CInv

-----------------------------------------------------------------------------
(* Joining a queue.                                                         *)

(* A lane queue that a newly reserved object joins.                         *)
LEMMA HeadsAppend ==
  ASSUME NEW q \in Seq(Objects), NEW o \in Objects, Once(q), \A i \in 1..Len(q) : q[i] # o
  PROVE  /\ Append(q, o) \in Seq(Objects) /\ Once(Append(q, o)) /\ Contains(Append(q, o), o)
         /\ \A x : Contains(q, x) => Contains(Append(q, o), x)
         /\ \A i \in 1..Len(Append(q, o)) :
              Append(q, o)[i] = o \/ \E j \in 1..Len(q) : Append(q, o)[i] = q[j]
<1> DEFINE r == Append(q, o)
<1>1. /\ r \in Seq(Objects) /\ Len(r) = Len(q) + 1 /\ Len(q) \in Nat
      /\ \A i \in 1..Len(q) : r[i] = q[i]
      /\ r[Len(q) + 1] = o
  OBVIOUS
<1> HIDE DEF r
<1>2. /\ \A i \in 1..Len(r) : i \in 1..Len(q) \/ i = Len(q) + 1
      /\ \A i \in 1..Len(q) : i \in 1..Len(r) /\ i # Len(q) + 1
      /\ Len(q) + 1 \in 1..Len(r)
  BY <1>1
<1>3. Once(r)
  BY <1>1, <1>2 DEF Once
<1>4. Contains(r, o) /\ \A x : Contains(q, x) => Contains(r, x)
  BY <1>1, <1>2 DEF Contains
<1>5. \A i \in 1..Len(r) : r[i] = o \/ \E j \in 1..Len(q) : r[i] = q[j]
  BY <1>1, <1>2
<1>6. QED
  BY <1>1, <1>3, <1>4, <1>5 DEF r

(* What enqueue does to the objects, the index and the lane queues.         *)
Joins(t, o) ==
  /\ Idle(t) /\ want'[t] = o /\ op'[t] = "claim" /\ parked_on_channel'[t]
  /\ ~cancel_requested'[t] /\ ~woken'[t] /\ park_epoch'[t] = park_epoch[t] /\ calls' = calls
  /\ \A u \in Tasks : u # t => Still(u)
  /\ owner' = owner /\ depth' = depth /\ owner_lane' = owner_lane
  /\ free_lanes' = free_lanes /\ drain_waiters' = drain_waiters /\ stopped' = stopped
  /\ \A x \in Objects : x # o => waiters'[x] = waiters[x] /\ reserved'[x] = reserved[x]
  /\ Len(waiters'[o]) = Len(waiters[o]) + 1
  /\ \A i \in 1..Len(waiters[o]) : waiters'[o][i] = waiters[o][i]
  /\ waiters'[o][Len(waiters[o]) + 1]
       = [task |-> t, epoch |-> park_epoch[t], nested |-> Nested(t, o)]
  /\ [task |-> t, obj |-> o, epoch |-> park_epoch[t]] \in parked_on'
  /\ \A e \in parked_on : e.task # t => e \in parked_on'
  /\ owner[o] # NoTask \/ reserved'[o]
  /\ \/ reserved' = reserved /\ ready_heads' = ready_heads
     \/ /\ owner[o] = NoTask /\ ~reserved[o] /\ reserved'[o] /\ free_lanes[PeerOf[o]] = 0
        /\ ready_heads' = [ready_heads EXCEPT ![PeerOf[o]] = Append(@, o)]

(* It is what enqueue does.                                                 *)
LEMMA EnqueueJoins ==
  ASSUME CInv, NEW t \in Tasks, NEW o \in Objects, enqueue(t, o)
  PROVE  Joins(t, o) /\ Types'
<1> DEFINE e == [task |-> t, epoch |-> park_epoch[t], nested |-> Nested(t, o)]
           g == [task |-> t, obj |-> o, epoch |-> park_epoch[t]]
           p == PeerOf[o]
           fresh == owner[o] = NoTask /\ ~reserved[o]
<1>1. /\ WouldQueue(t, o) /\ Idle(t)
      /\ parked_on_channel' = [parked_on_channel EXCEPT ![t] = TRUE]
      /\ op' = [op EXCEPT ![t] = "claim"]
      /\ want' = [want EXCEPT ![t] = o]
      /\ waiters' = [waiters EXCEPT ![o] = Append(@, e)]
      /\ parked_on' = {d \in parked_on : ~(d.task = t /\ PeerOf[d.obj] = p)} \cup {g}
      /\ IF fresh THEN /\ reserved' = [reserved EXCEPT ![o] = TRUE]
                       /\ ready_heads' = [ready_heads EXCEPT ![p] = Append(@, o)]
         ELSE UNCHANGED <<reserved, ready_heads>>
      /\ UNCHANGED <<owner, depth, owner_lane, free_lanes, drain_waiters, stopped,
                     cancel_requested, park_epoch, woken, stopping, calls>>
  BY DEF enqueue, ParkTask, WouldQueue, Calling
<1>2. Types /\ ~woken[t] /\ ~cancel_requested[t] /\ p \in Peers
  BY <1>1, IdleFacts, ClaimsAssumption
<1>3. e \in Entries /\ g \in [task : Tasks, obj : Objects, epoch : Nat] /\ g.task = t
  BY <1>2 DEF Types, Entries, Nested
<1>4. waiters[o] \in Seq(Entries) /\ ready_heads[p] \in Seq(Objects)
  BY <1>2 DEF Types
<1> HIDE DEF e, g
<1>5. /\ Append(waiters[o], e) \in Seq(Entries)
      /\ Len(Append(waiters[o], e)) = Len(waiters[o]) + 1
      /\ \A i \in 1..Len(waiters[o]) : Append(waiters[o], e)[i] = waiters[o][i]
      /\ Append(waiters[o], e)[Len(waiters[o]) + 1] = e
  BY <1>3, <1>4
<1>6. /\ waiters'[o] = Append(waiters[o], e)
      /\ \A x \in Objects : x # o => waiters'[x] = waiters[x]
      /\ waiters' \in [Objects -> Seq(Entries)]
  BY <1>1, <1>2, <1>5 DEF Types
<1>7. /\ \A x \in Objects : x # o => reserved'[x] = reserved[x]
      /\ owner[o] # NoTask \/ reserved'[o]
      /\ reserved' \in [Objects -> BOOLEAN]
  <2>1. reserved \in [Objects -> BOOLEAN]
    BY <1>2 DEF Types
  <2>2. CASE fresh
    BY <1>1, <2>1, <2>2
  <2>3. CASE ~fresh
    BY <1>1, <2>1, <2>3
  <2>4. QED
    BY <2>2, <2>3
<1>8. \/ reserved' = reserved /\ ready_heads' = ready_heads
      \/ /\ owner[o] = NoTask /\ ~reserved[o] /\ reserved'[o] /\ free_lanes[p] = 0
         /\ ready_heads' = [ready_heads EXCEPT ![p] = Append(@, o)]
  <2>1. CASE fresh
    <3>1. free_lanes[p] = 0
      BY <1>1, <2>1 DEF WouldQueue
    <3>2. reserved'[o]
      BY <1>1, <1>2, <2>1 DEF Types
    <3>3. QED
      BY <1>1, <2>1, <3>1, <3>2
  <2>2. CASE ~fresh
    BY <1>1, <2>2
  <2>3. QED
    BY <2>1, <2>2
<1>9. ready_heads' \in [Peers -> Seq(Objects)]
  <2>1. ready_heads \in [Peers -> Seq(Objects)] /\ Append(ready_heads[p], o) \in Seq(Objects)
    BY <1>2, <1>4 DEF Types
  <2>2. QED
    BY <1>2, <1>8, <2>1
<1>10. /\ parked_on_channel'[t] /\ op'[t] = "claim" /\ want'[t] = o
       /\ \A u \in Tasks : u # t => /\ parked_on_channel'[u] = parked_on_channel[u]
                                    /\ op'[u] = op[u] /\ want'[u] = want[u]
       /\ parked_on_channel' \in [Tasks -> BOOLEAN]
       /\ op' \in [Tasks -> {"none", "claim", "drain"}]
       /\ want' \in [Tasks -> Objects \cup {NoObj}]
  BY <1>1, <1>2 DEF Types
<1>11. /\ parked_on' \subseteq [task : Tasks, obj : Objects, epoch : Nat]
       /\ g \in parked_on' /\ \A d \in parked_on : d.task # t => d \in parked_on'
  <2>1. parked_on \subseteq [task : Tasks, obj : Objects, epoch : Nat]
    BY <1>2 DEF Types
  <2>2. QED
    BY <1>1, <1>3, <2>1
<1>12. \A u \in Tasks : u # t => Still(u)
  BY <1>1, <1>10 DEF Still, Steady
<1>13. Types'
  BY <1>1, <1>2, <1>6, <1>7, <1>9, <1>10, <1>11 DEF Types
<1>14. /\ Len(waiters'[o]) = Len(waiters[o]) + 1
       /\ \A i \in 1..Len(waiters[o]) : waiters'[o][i] = waiters[o][i]
       /\ waiters'[o][Len(waiters[o]) + 1] = e
  BY <1>5, <1>6
<1>15. Joins(t, o)
  BY <1>1, <1>2, <1>6, <1>7, <1>8, <1>10, <1>11, <1>12, <1>14 DEF Joins, e, g
<1>16. QED
  BY <1>13, <1>15

(* The tasks after a task joined a queue.                                   *)
LEMMA JoinsTasks ==
  ASSUME CInv, NEW t \in Tasks, NEW o \in Objects, Joins(t, o), NEW u \in Tasks
  PROVE  TaskOK(u)' /\ EdgeOK(u)' /\ HandedOK(u)' /\ LaneOK(u)' /\ HomeOK(u)'
<1>1. /\ calls'[u] = calls[u]
      /\ \A x \in Objects : owner[x] = u => owner_lane'[x] = owner_lane[x]
      /\ \A x \in Objects : owner[x] = u => owner_lane'[x] = owner_lane[x] /\ depth'[x] = depth[x]
  BY DEF Joins
<1>2. LaneOK(u)'
  BY <1>1, StillLane
<1>3. HomeOK(u)'
  <2>1. (\A v \in Tasks : v # t => Steady(v)) /\ op'[t] # "drain" /\ free_lanes' = free_lanes
    BY DEF Joins, Still
  <2>2. QED
    BY <2>1, SameHome
<1>4. Len(waiters[o]) \in Nat
  BY DEF CInv, Types
<1>5. CASE u = t
  <2>1. TaskOK(t)' /\ HandedOK(t)'
    BY ClaimsAssumption DEF Joins, TaskOK, HandedOK
  <2>2. EdgeOK(t)'
    <3>1. [task |-> t, obj |-> want'[t], epoch |-> park_epoch'[t]] \in parked_on'
      BY DEF Joins
    <3>2. Len(waiters[o]) + 1 \in 1..Len(waiters'[o])
      BY <1>4 DEF Joins
    <3>3. waiters'[want'[t]][Len(waiters[o]) + 1].task = t
      BY DEF Joins
    <3>4. \E i \in 1..Len(waiters'[want'[t]]) : waiters'[want'[t]][i].task = t
      BY <3>2, <3>3 DEF Joins
    <3>5. QED
      BY <3>1, <3>4 DEF EdgeOK
  <2>3. QED
    BY <1>2, <1>3, <1>5, <2>1, <2>2
<1>6. CASE u # t
  <2>1. Still(u) /\ Steady(u) /\ stopped' = stopped
    BY <1>6 DEF Joins, Still
  <2>2. TaskOK(u)' /\ HandedOK(u)'
    BY <1>1, <2>1, StillTask, StillHanded
  <2>3. EdgeOK(u)'
    <3> SUFFICES ASSUME parked_on_channel'[u], op'[u] = "claim"
                 PROVE  /\ [task |-> u, obj |-> want'[u], epoch |-> park_epoch'[u]] \in parked_on'
                        /\ \E i \in 1..Len(waiters'[want'[u]]) : waiters'[want'[u]][i].task = u
      BY DEF EdgeOK
    <3>1. /\ parked_on_channel[u] /\ op[u] = "claim" /\ want'[u] = want[u]
          /\ park_epoch'[u] = park_epoch[u]
      BY <2>1 DEF Still, Steady
    <3>2. /\ [task |-> u, obj |-> want[u], epoch |-> park_epoch[u]] \in parked_on
          /\ \E i \in 1..Len(waiters[want[u]]) : waiters[want[u]][i].task = u
          /\ want[u] \in Objects
      BY <3>1 DEF CInv, TasksOK, EdgeOK, TaskOK
    <3>3. [task |-> u, obj |-> want[u], epoch |-> park_epoch[u]] \in parked_on'
      BY <1>6, <3>2 DEF Joins
    <3>4. PICK i \in 1..Len(waiters[want[u]]) : waiters[want[u]][i].task = u
      BY <3>2
    <3>5. i \in 1..Len(waiters'[want[u]]) /\ waiters'[want[u]][i].task = u
      <4>1. CASE want[u] = o
        BY <1>4, <3>4, <4>1 DEF Joins
      <4>2. CASE want[u] # o
        BY <3>2, <3>4, <4>2 DEF Joins
      <4>3. QED
        BY <4>1, <4>2
    <3>6. QED
      BY <3>1, <3>3, <3>5
  <2>4. QED
    BY <1>2, <1>3, <2>2, <2>3
<1>7. QED
  BY <1>5, <1>6

(* The queue it joined.                                                     *)
LEMMA JoinsQueue ==
  ASSUME CInv, NEW t \in Tasks, NEW o \in Objects, Joins(t, o)
  PROVE  QueueOK(o)'
<1>1. /\ QueueOK(o) /\ Len(waiters[o]) \in Nat
      /\ \A i \in 1..Len(waiters[o]) : waiters[o][i].task # t
  BY IdleFacts DEF Joins, CInv, ObjectsOK, Types
<1>2. PICK q : q = waiters'[o]
  OBVIOUS
<1>3. /\ Len(q) = Len(waiters[o]) + 1
      /\ \A i \in 1..Len(waiters[o]) : q[i] = waiters[o][i]
      /\ q[Len(waiters[o]) + 1]
           = [task |-> t, epoch |-> park_epoch[t], nested |-> Nested(t, o)]
  BY <1>2 DEF Joins
<1>4. \A i \in 1..Len(q) : i \in 1..Len(waiters[o]) \/ i = Len(waiters[o]) + 1
  BY <1>1, <1>3
<1>5. Apart(q)
  <2>1. q[Len(waiters[o]) + 1].task = t
    BY <1>3
  <2>2. \A i, j \in 1..Len(waiters[o]) : i # j => waiters[o][i].task # waiters[o][j].task
    BY <1>1 DEF QueueOK, Apart
  <2>3. ASSUME NEW i \in 1..Len(q), NEW j \in 1..Len(q), i # j PROVE q[i].task # q[j].task
    <3>1. CASE i \in 1..Len(waiters[o]) /\ j \in 1..Len(waiters[o])
      BY <1>3, <2>2, <2>3, <3>1
    <3>2. CASE i = Len(waiters[o]) + 1 /\ j \in 1..Len(waiters[o])
      BY <1>1, <1>3, <2>1, <3>2
    <3>3. CASE i \in 1..Len(waiters[o]) /\ j = Len(waiters[o]) + 1
      BY <1>1, <1>3, <2>1, <3>3
    <3>4. QED
      BY <1>4, <2>3, <3>1, <3>2, <3>3
  <2>4. QED
    BY <2>3 DEF Apart
<1>6. ASSUME NEW i \in 1..Len(q), NEW e, e = q[i] PROVE EntryOK(e, o)'
  <2>1. CASE i \in 1..Len(waiters[o])
    <3>1. e = waiters[o][i] /\ EntryOK(e, o)
      BY <1>1, <1>3, <1>6, <2>1 DEF QueueOK
    <3>2. Steady(e.task)
      BY <1>1, <2>1, <3>1, QueueFacts DEF Joins, Still
    <3>3. Nested(e.task, o)' <=> Nested(e.task, o)
      BY <3>2 DEF Nested, Steady
    <3>4. QED
      BY <3>1, <3>2, <3>3 DEF EntryOK, Steady
  <2>2. CASE i = Len(waiters[o]) + 1
    <3>1. e.task = t /\ e.epoch = park_epoch[t] /\ e.nested = Nested(t, o)
      BY <1>3, <1>6, <2>2
    <3>2. Nested(t, o)' <=> Nested(t, o)
      BY DEF Nested, Joins
    <3>3. QED
      BY <3>1, <3>2 DEF EntryOK, Joins
  <2>3. QED
    BY <1>4, <2>1, <2>2
<1>7. \A i \in 1..Len(waiters'[o]) : EntryOK(waiters[o][i], o)'
  <2> SUFFICES ASSUME NEW i \in 1..Len(waiters'[o]) PROVE EntryOK(waiters[o][i], o)'
    OBVIOUS
  <2>1. PICK e : e = waiters'[o][i]
    OBVIOUS
  <2>2. EntryOK(e, o)'
    BY <1>2, <1>6, <2>1
  <2>3. QED
    BY <2>1, <2>2 DEF EntryOK
<1>8. Apart(waiters[o])'
  BY <1>2, <1>5 DEF Apart
<1>9. QED
  BY <1>7, <1>8 DEF QueueOK

(* The lane queues.                                                         *)
LEMMA JoinsHeads ==
  ASSUME CInv, NEW t \in Tasks, NEW o \in Objects, Joins(t, o), NEW p \in Peers
  PROVE  /\ Once(ready_heads'[p])
         /\ \A i \in 1..Len(ready_heads'[p]) :
              PeerOf[ready_heads'[p][i]] = p /\ reserved'[ready_heads'[p][i]]
         /\ ready_heads'[p] # <<>> => free_lanes[p] = 0
         /\ \A x : Contains(ready_heads[p], x) => Contains(ready_heads'[p], x)
         /\ p = PeerOf[o] /\ reserved'[o] => Contains(ready_heads'[p], o)
<1>1. /\ ready_heads \in [Peers -> Seq(Objects)] /\ ready_heads[p] \in Seq(Objects) /\ PeerOK(p)
      /\ ObjectOK(o) /\ PeerOf[o] \in Peers
  BY ClaimsAssumption DEF CInv, Types, PeersOK, ObjectsOK
<1>2. CASE ready_heads'[p] = ready_heads[p] /\ (reserved' = reserved \/ p # PeerOf[o])
  <2>1. ASSUME NEW i \in 1..Len(ready_heads[p]) PROVE reserved'[ready_heads[p][i]]
    <3>1. /\ PeerOf[ready_heads[p][i]] = p /\ reserved[ready_heads[p][i]]
          /\ ready_heads[p][i] \in Objects
      BY <1>1, ElementOfSeq DEF PeerOK
    <3>2. QED
      BY <1>2, <3>1 DEF Joins
  <2>2. p = PeerOf[o] /\ reserved'[o] => Contains(ready_heads[p], o)
    BY <1>1, <1>2 DEF ObjectOK
  <2>3. QED
    BY <1>1, <1>2, <2>1, <2>2 DEF PeerOK
<1>3. CASE /\ p = PeerOf[o] /\ ready_heads' = [ready_heads EXCEPT ![p] = Append(@, o)]
           /\ ~reserved[o] /\ reserved'[o] /\ free_lanes[p] = 0
  <2> DEFINE q == ready_heads[p]
             r == Append(q, o)
  <2>1. ready_heads'[p] = r
    BY <1>1, <1>3
  <2>2. Once(q) /\ \A i \in 1..Len(q) : q[i] # o /\ PeerOf[q[i]] = p /\ reserved[q[i]]
    BY <1>1, <1>3 DEF PeerOK
  <2>3. /\ Once(r) /\ Contains(r, o)
        /\ \A x : Contains(q, x) => Contains(r, x)
        /\ \A i \in 1..Len(r) : r[i] = o \/ \E j \in 1..Len(q) : r[i] = q[j]
    BY <1>1, <2>2, HeadsAppend
  <2>4. ASSUME NEW i \in 1..Len(r) PROVE PeerOf[r[i]] = p /\ reserved'[r[i]]
    <3> HIDE DEF r
    <3>1. CASE r[i] = o
      BY <1>3, <3>1
    <3>2. CASE \E j \in 1..Len(q) : r[i] = q[j]
      <4>1. PICK j \in 1..Len(q) : r[i] = q[j]
        BY <3>2
      <4>2. q[j] \in Objects
        BY <1>1, ElementOfSeq
      <4>3. reserved'[q[j]] = reserved[q[j]]
        BY <2>2, <4>2 DEF Joins
      <4>4. QED
        BY <2>2, <4>1, <4>3
    <3>3. QED
      BY <2>3, <3>1, <3>2
  <2> HIDE DEF r
  <2>5. QED
    BY <1>3, <2>1, <2>3, <2>4
<1>4. QED
  BY <1>1, <1>2, <1>3 DEF Joins

(* Joining a queue keeps the invariant.                                     *)
LEMMA JoinsKeeps ==
  ASSUME CInv, NEW t \in Tasks, NEW o \in Objects, Joins(t, o), Types'
  PROVE  CInv'
<1>0. /\ ~woken[t] /\ \A x \in Objects : \A i \in 1..Len(waiters[x]) : waiters[x][i].task # t
      /\ \A p \in Peers : \A d \in drain_waiters[p] : d.task # t
  BY IdleFacts DEF Joins
<1>1. TasksOK'
  BY JoinsTasks DEF TasksOK
<1>2. ASSUME NEW x \in Objects PROVE QueueOK(x)' /\ ObjectOK(x)'
  <2>1. ObjectOK(x) /\ PeerOf[x] \in Peers
    BY ClaimsAssumption DEF CInv, ObjectsOK
  <2>2. /\ owner'[x] = owner[x] /\ owner_lane'[x] = owner_lane[x] /\ depth'[x] = depth[x]
    BY DEF Joins
  <2>3. CASE x # o
    <3>1. waiters'[x] = waiters[x] /\ reserved'[x] = reserved[x]
      BY <2>3 DEF Joins
    <3>2. \A i \in 1..Len(waiters[x]) : Still(waiters[x][i].task)
      BY <1>0, QueueFacts DEF Joins
    <3>3. \A i \in 1..Len(waiters[x]) : Steady(waiters[x][i].task)
      BY <3>2 DEF Still
    <3>4. \A i \in 1..Len(waiters[x]) :
            /\ Steady(waiters[x][i].task)
            /\ parked_on_channel'[waiters[x][i].task] => parked_on_channel[waiters[x][i].task]
      BY <3>2 DEF Still
    <3>5. QueueOK(x)'
      BY <3>1, <3>3, StillQueue
    <3>6. AnyLive(waiters[x])' => AnyLive(waiters[x])
      BY <3>1, <3>4, StillLive
    <3>7. reserved[x] => Contains(ready_heads'[PeerOf[x]], x)
      BY <2>1, JoinsHeads DEF ObjectOK
    <3>8. Contains(ready_heads'[PeerOf[x]], x) => Contains(ready_heads[PeerOf[x]], x)'
      BY DEF Contains
    <3>9. QED
      BY <2>1, <2>2, <3>1, <3>5, <3>6, <3>7, <3>8 DEF ObjectOK
  <2>4. CASE x = o
    <3>1. QueueOK(x)'
      BY <2>4, JoinsQueue
    <3>2. reserved'[x] => Contains(ready_heads'[PeerOf[x]], x)
      BY <2>1, <2>4, JoinsHeads
    <3>3. Contains(ready_heads'[PeerOf[x]], x) => Contains(ready_heads[PeerOf[x]], x)'
      BY DEF Contains
    <3>4. owner[x] # NoTask \/ reserved'[x]
      BY <2>4 DEF Joins
    <3>5. owner[x] # NoTask => ~reserved'[x]
      BY <2>1, <2>4 DEF Joins, ObjectOK
    <3>6. QED
      BY <2>1, <2>2, <3>1, <3>2, <3>3, <3>4, <3>5 DEF ObjectOK
  <2>5. QED
    BY <2>3, <2>4
<1>3. ObjectsOK'
  BY <1>2 DEF ObjectsOK
<1>4. PeersOK'
  <2> SUFFICES ASSUME NEW p \in Peers PROVE PeerOK(p)'
    BY DEF PeersOK
  <2>1. /\ Once(ready_heads'[p])
        /\ \A i \in 1..Len(ready_heads'[p]) :
             PeerOf[ready_heads'[p][i]] = p /\ reserved'[ready_heads'[p][i]]
        /\ ready_heads'[p] # <<>> => free_lanes[p] = 0
    BY JoinsHeads
  <2>2. free_lanes' = free_lanes /\ owner_lane' = owner_lane
    BY DEF Joins
  <2>3. IsFiniteSet(Out(p)') /\ free_lanes'[p] + Cardinality(Out(p)') = Lanes
    BY <2>2, SameLanes
  <2>4. ASSUME NEW d \in drain_waiters'[p]
        PROVE  op'[d.task] = "drain" /\ stopping'[d.task] = p /\ ~woken'[d.task]
    <3>1. d \in drain_waiters[p] /\ d.task \in Tasks /\ d.task # t
      BY <1>0 DEF Joins, CInv, Types
    <3>2. Steady(d.task)
      BY <3>1 DEF Joins, Still
    <3>3. op[d.task] = "drain" /\ stopping[d.task] = p /\ ~woken[d.task]
      BY <3>1 DEF CInv, PeersOK, PeerOK
    <3>4. QED
      BY <3>2, <3>3 DEF Steady
  <2>5. Once(ready_heads[p])'
    BY <2>1 DEF Once
  <2>6. QED
    BY <2>1, <2>2, <2>3, <2>4, <2>5 DEF PeerOK
<1>5. ClaimIsHeld'
  <2>1. ASSUME NEW x \in Objects, NEW u \in Tasks PROVE HeldBy(x, u)'
    <3>1. HeldBy(x, u)
      BY HeldByAll DEF CInv
    <3>2. CASE u = t
      BY <1>0, <3>1, <3>2 DEF HeldBy, Joins
    <3>3. CASE u # t
      <4>1. Steady(u) /\ owner' = owner /\ depth' = depth
        BY <3>3 DEF Joins, Still
      <4>2. QED
        BY <4>1, StillHeld
    <3>4. QED
      BY <3>2, <3>3
  <2>2. \A x \in Objects, u \in Tasks : HeldBy(x, u)'
    BY <2>1
  <2>3. QED
    BY <2>2 DEF ClaimIsHeld, HeldBy, InCalls, Count
<1>6. QED
  BY <1>1, <1>3, <1>4, <1>5 DEF CInv

-----------------------------------------------------------------------------
(* Leaving a queue.                                                         *)

(* A queue without one task: what is left of it, in order.                  *)
LeftOf(r, q, t) ==
  /\ r \in Seq(Entries) /\ Apart(r)
  /\ \A k \in 1..Len(r) : \E j \in 1..Len(q) : r[k] = q[j] /\ q[j].task # t
  /\ \A j \in 1..Len(q) : q[j].task # t => \E k \in 1..Len(r) : r[k] = q[j]

(* It is what Without leaves.                                               *)
LEMMA WithoutFacts ==
  ASSUME NEW q, q \in Seq(Entries), Apart(q), NEW t
  PROVE  LeftOf(Without(q, t), q, t)
<1>r. PICK r : r = Without(q, t)
  OBVIOUS
<1>0. Len(q) \in Nat
  OBVIOUS
<1>1. CASE ~\E i \in 1..Len(q) : q[i].task = t
  <2>1. r = q
    <3>1. {i \in 1..Len(q) : q[i].task = t} = {}
      BY <1>1
    <3>2. QED
      BY <1>r, <3>1 DEF Without
  <2>2. LeftOf(r, q, t)
    BY <1>1, <2>1 DEF LeftOf
  <2>3. QED
    BY <1>r, <2>2
<1>2. CASE \E i \in 1..Len(q) : q[i].task = t
  <2>0. PICK m \in 1..Len(q) : q[m].task = t
    BY <1>2
  <2>1. r = RemoveAt(q, m)
    <3> DEFINE at == {i \in 1..Len(q) : q[i].task = t}
    <3>1. at = {m}
      BY <2>0 DEF Apart
    <3>2. r = IF at = {} THEN q
              ELSE IF \E i \in at : at = {i} THEN RemoveAt(q, CHOOSE i \in at : TRUE)
              ELSE SelectSeq(q, LAMBDA w : w.task # t)
      BY <1>r DEF Without
    <3> HIDE DEF at
    <3>3. (CHOOSE i \in at : TRUE) = m
      BY <3>1
    <3>4. at # {} /\ \E i \in at : at = {i}
      BY <3>1
    <3>5. r = RemoveAt(q, CHOOSE i \in at : TRUE)
      BY <3>2, <3>4, Zenon
    <3>6. QED
      BY <3>3, <3>5
  <2> DEFINE a == SubSeq(q, 1, m - 1)
             b == SubSeq(q, m + 1, Len(q))
  <2>2. /\ a \in Seq(Entries) /\ Len(a) = m - 1
        /\ \A i \in 1..(m - 1) : a[i] = q[i]
    <3>1. m - 1 \in Int /\ \A i \in 1..(m - 1) : q[i] \in Entries
      BY <1>0, ElementOfSeq
    <3>2. /\ a \in Seq(Entries) /\ Len(a) = (IF 1 <= m - 1 THEN m - 1 - 1 + 1 ELSE 0)
          /\ \A i \in 1..(m - 1 - 1 + 1) : a[i] = q[1 + i - 1]
      BY <3>1, SubSeqProperties
    <3> HIDE DEF a
    <3>3. QED
      BY <1>0, <3>2
  <2>3. /\ b \in Seq(Entries) /\ Len(b) = Len(q) - m
        /\ \A i \in 1..(Len(q) - m) : b[i] = q[m + i]
    <3>1. m + 1 \in Int /\ \A i \in (m + 1)..Len(q) : q[i] \in Entries
      BY <1>0, ElementOfSeq
    <3>2. /\ b \in Seq(Entries)
          /\ Len(b) = (IF m + 1 <= Len(q) THEN Len(q) - (m + 1) + 1 ELSE 0)
          /\ \A i \in 1..(Len(q) - (m + 1) + 1) : b[i] = q[m + 1 + i - 1]
      BY <1>0, <3>1, SubSeqProperties
    <3> HIDE DEF b
    <3>3. Len(q) \in Nat /\ m \in Nat /\ m <= Len(q) /\ Len(q) - (m + 1) + 1 = Len(q) - m
      BY <1>0
    <3>4. Len(b) = Len(q) - m
      <4>1. CASE m + 1 <= Len(q)
        BY <3>2, <3>3, <4>1
      <4>2. CASE ~(m + 1 <= Len(q))
        <5>0. \A j, n \in Nat : j <= n /\ ~(j + 1 <= n) => j = n
          OBVIOUS
        <5>1. m = Len(q)
          BY <3>3, <4>2, <5>0, Zenon
        <5>2. Len(b) = 0
          BY <3>2, <4>2
        <5>3. QED
          BY <3>3, <5>1, <5>2
      <4>3. QED
        BY <4>1, <4>2
    <3>5. ASSUME NEW i \in 1..(Len(q) - m) PROVE b[i] = q[m + i]
      <4>1. m + 1 + i - 1 = m + i /\ i \in 1..(Len(q) - (m + 1) + 1)
        BY <3>3
      <4>2. QED
        BY <3>2, <4>1
    <3>6. QED
      BY <3>2, <3>4, <3>5
  <2>4. /\ r \in Seq(Entries) /\ Len(r) = Len(a) + Len(b)
        /\ \A i \in 1..(Len(a) + Len(b)) :
             r[i] = (IF i <= Len(a) THEN a[i] ELSE b[i - Len(a)])
    <3>1. r = a \o b
      BY <2>1 DEF RemoveAt
    <3> HIDE DEF a, b
    <3>2. a \in Seq(Entries) /\ b \in Seq(Entries)
      BY <2>2, <2>3
    <3>3. /\ a \o b \in Seq(Entries) /\ Len(a \o b) = Len(a) + Len(b)
          /\ \A i \in 1..(Len(a) + Len(b)) :
               (a \o b)[i] = (IF i <= Len(a) THEN a[i] ELSE b[i - Len(a)])
      BY <3>2, ConcatProperties, Zenon
    <3>4. QED
      BY <3>1, <3>3, Zenon
  <2> HIDE DEF a, b
  <2>5. Len(r) = Len(q) - 1 /\ m \in Nat
    BY <1>0, <2>2, <2>3, <2>4
  <2>6. ASSUME NEW k \in 1..Len(r)
        PROVE  /\ k \in Nat
               /\ k < m => k \in 1..Len(q) /\ r[k] = q[k]
               /\ k >= m => k + 1 \in 1..Len(q) /\ r[k] = q[k + 1]
    <3>1. k \in Nat /\ k \in 1..(Len(a) + Len(b))
      BY <1>0, <2>4, <2>5
    <3>2. CASE k < m
      <4>1. k \in 1..(m - 1) /\ k <= Len(a)
        BY <2>2, <2>5, <3>1, <3>2
      <4>2. QED
        BY <1>0, <2>2, <2>4, <2>5, <3>1, <3>2, <4>1
    <3>3. CASE k >= m
      <4>1. k - Len(a) \in 1..(Len(q) - m) /\ ~(k <= Len(a)) /\ m + (k - Len(a)) = k + 1
        BY <1>0, <2>2, <2>5, <3>1, <3>3
      <4>2. r[k] = b[k - Len(a)]
        BY <2>4, <3>1, <4>1
      <4>3. b[k - Len(a)] = q[k + 1]
        BY <2>3, <4>1
      <4>4. k + 1 \in 1..Len(q)
        BY <1>0, <2>5, <3>1
      <4>5. QED
        BY <3>1, <3>3, <4>2, <4>3, <4>4
    <3>4. QED
      BY <2>5, <3>1, <3>2, <3>3
  <2>7. \A i, j \in 1..Len(q) : i # j => q[i].task # q[j].task
    BY DEF Apart
  <2>8. \A k \in 1..Len(r) : \E j \in 1..Len(q) : r[k] = q[j] /\ q[j].task # t
    <3> SUFFICES ASSUME NEW k \in 1..Len(r)
                 PROVE  \E j \in 1..Len(q) : r[k] = q[j] /\ q[j].task # t
      OBVIOUS
    <3>1. CASE k < m
      <4>1. k \in 1..Len(q) /\ r[k] = q[k] /\ k # m
        BY <2>5, <2>6, <3>1
      <4>2. q[k].task # q[m].task
        BY <2>7, <4>1
      <4>3. QED
        BY <2>0, <4>1, <4>2
    <3>2. CASE k >= m
      <4>1. k + 1 \in 1..Len(q) /\ r[k] = q[k + 1] /\ k + 1 # m
        BY <2>5, <2>6, <3>2
      <4>2. q[k + 1].task # q[m].task
        BY <2>7, <4>1
      <4>3. QED
        BY <2>0, <4>1, <4>2
    <3>3. QED
      BY <2>5, <2>6, <3>1, <3>2
  <2>9. ASSUME NEW j \in 1..Len(q), q[j].task # t PROVE \E k \in 1..Len(r) : r[k] = q[j]
    <3>1. j # m /\ j \in Nat
      BY <2>0, <2>9
    <3>2. CASE j < m
      <4>1. j \in 1..Len(r)
        BY <1>0, <2>5, <3>1, <3>2
      <4>2. QED
        BY <2>6, <3>2, <4>1
    <3>3. CASE j > m
      <4>1. j - 1 \in 1..Len(r) /\ j - 1 >= m /\ (j - 1) + 1 = j
        BY <1>0, <2>5, <3>1, <3>3
      <4>2. r[j - 1] = q[j]
        BY <2>6, <4>1
      <4>3. QED
        BY <4>1, <4>2
    <3>4. QED
      BY <2>5, <3>1, <3>2, <3>3
  <2>10. Apart(r)
    <3> SUFFICES ASSUME NEW i \in 1..Len(r), NEW j \in 1..Len(r), i # j
                 PROVE  r[i].task # r[j].task
      BY DEF Apart
    <3>1. ASSUME NEW k \in 1..Len(r)
          PROVE  \E x \in 1..Len(q) : r[k] = q[x] /\ (k < m => x = k) /\ (k >= m => x = k + 1)
      <4>1. CASE k < m
        BY <2>5, <2>6, <4>1
      <4>2. CASE k >= m
        <5>1. k + 1 \in 1..Len(q) /\ r[k] = q[k + 1] /\ ~(k < m)
          BY <2>5, <2>6, <4>2
        <5>2. QED
          BY <5>1
      <4>3. QED
        BY <2>5, <2>6, <4>1, <4>2
    <3>2. PICK x \in 1..Len(q) : r[i] = q[x] /\ (i < m => x = i) /\ (i >= m => x = i + 1)
      BY <3>1
    <3>3. PICK y \in 1..Len(q) : r[j] = q[y] /\ (j < m => y = j) /\ (j >= m => y = j + 1)
      BY <3>1
    <3>4. i \in Nat /\ j \in Nat
      BY <2>6
    <3>5. x # y
      BY <2>5, <3>2, <3>3, <3>4
    <3>6. QED
      BY <2>7, <3>2, <3>3, <3>5
  <2>11. LeftOf(r, q, t)
    BY <2>4, <2>8, <2>9, <2>10 DEF LeftOf
  <2>12. QED
    BY <1>r, <2>11
<1>3. QED
  BY <1>1, <1>2

(* A cancelled waiter leaves its queue and the index.                       *)
LEMMA RetractKeeps ==
  ASSUME CInv, NEW t \in Tasks, retract(t)
  PROVE  CInv'
<1>0. want[t] \in Objects
  BY DEF retract, Resumes, CInv, TasksOK, TaskOK
<1>o. PICK o \in Objects : o = want[t]
  BY <1>0
<1>q. PICK q : q = waiters[o]
  OBVIOUS
<1>r. PICK r : r = Without(q, t)
  OBVIOUS
<1>1. /\ Resumes(t, "claim") /\ ~woken[t]
      /\ waiters' = [waiters EXCEPT ![o] = Without(@, t)]
      /\ parked_on' = {e \in parked_on : ~(e.task = t /\ PeerOf[e.obj] = PeerOf[o])}
      /\ woken' = [woken EXCEPT ![t] = FALSE] /\ UNCHANGED parked_on_channel
      /\ UNCHANGED <<owner, depth, owner_lane, reserved, free_lanes, ready_heads,
                     drain_waiters, stopped, calls>>
  BY <1>o DEF retract, TakeWake
<1>2. /\ op[t] = "claim" /\ ~parked_on_channel[t] /\ Types
      /\ op'[t] = "none" /\ want'[t] = NoObj /\ ~cancel_requested'[t]
      /\ \A u \in Tasks : u # t =>
           /\ op'[u] = op[u] /\ want'[u] = want[u] /\ stopping'[u] = stopping[u]
           /\ park_epoch'[u] = park_epoch[u] /\ cancel_requested'[u] = cancel_requested[u]
      /\ cancel_requested' \in [Tasks -> BOOLEAN]
      /\ op' \in [Tasks -> {"none", "claim", "drain"}]
      /\ want' \in [Tasks -> Objects \cup {NoObj}]
      /\ stopping' \in [Tasks -> Peers \cup {NoPeer}]
      /\ park_epoch' \in [Tasks -> Nat]
  BY <1>1, ResumeFacts
<1>3. q \in Seq(Entries) /\ Apart(q)
  BY <1>2, <1>q DEF CInv, Types, ObjectsOK, QueueOK
<1>4. /\ r \in Seq(Entries) /\ Apart(r)
      /\ \A k \in 1..Len(r) : \E j \in 1..Len(q) : r[k] = q[j] /\ q[j].task # t
      /\ \A j \in 1..Len(q) : q[j].task # t => \E k \in 1..Len(r) : r[k] = q[j]
  <2>1. LeftOf(r, q, t)
    BY <1>3, <1>r, WithoutFacts
  <2>2. QED
    BY <2>1 DEF LeftOf
<1>5. /\ waiters'[o] = r /\ waiters' \in [Objects -> Seq(Entries)]
      /\ \A x \in Objects : x # o => waiters'[x] = waiters[x]
  BY <1>1, <1>2, <1>4, <1>q, <1>r DEF Types
<1>6. /\ ~woken'[t] /\ ~parked_on_channel'[t] /\ woken' \in [Tasks -> BOOLEAN]
      /\ \A u \in Tasks : u # t => woken'[u] = woken[u]
                                   /\ parked_on_channel'[u] = parked_on_channel[u]
  BY <1>1, <1>2 DEF Types
<1>7. \A u \in Tasks : u # t => Still(u)
  BY <1>1, <1>2, <1>6 DEF Still, Steady
<1>8. parked_on' \subseteq parked_on /\ \A e \in parked_on : e.task # t => e \in parked_on'
  BY <1>1
<1>9. Types'
  BY <1>1, <1>2, <1>5, <1>6, <1>8 DEF Types
<1>10. ASSUME NEW u \in Tasks
       PROVE  TaskOK(u)' /\ EdgeOK(u)' /\ HandedOK(u)' /\ LaneOK(u)' /\ HomeOK(u)'
  <2>1. /\ calls'[u] = calls[u]
        /\ \A x \in Objects : owner[x] = u => owner_lane'[x] = owner_lane[x]
        /\ \A x \in Objects : owner[x] = u => owner_lane'[x] = owner_lane[x] /\ depth'[x] = depth[x]
    BY <1>1
  <2>2. LaneOK(u)'
    BY <2>1, StillLane
  <2>3. HomeOK(u)'
    <3>1. (\A v \in Tasks : v # t => Steady(v)) /\ op'[t] # "drain" /\ free_lanes' = free_lanes
      BY <1>1, <1>2, <1>7 DEF Still
    <3>2. QED
      BY <3>1, SameHome
  <2>4. CASE u = t
    <3>1. TaskOK(t)' /\ EdgeOK(t)' /\ HandedOK(t)'
      BY <1>2, <1>6 DEF TaskOK, EdgeOK, HandedOK
    <3>2. QED
      BY <2>2, <2>3, <2>4, <3>1
  <2>5. CASE u # t
    <3>1. Still(u) /\ Steady(u) /\ stopped' = stopped
      BY <1>1, <1>7, <2>5 DEF Still
    <3>2. TaskOK(u)' /\ HandedOK(u)'
      BY <2>1, <3>1, StillTask, StillHanded
    <3>3. EdgeOK(u)'
      <4> SUFFICES ASSUME parked_on_channel'[u], op'[u] = "claim"
                   PROVE  /\ [task |-> u, obj |-> want'[u], epoch |-> park_epoch'[u]] \in parked_on'
                          /\ \E i \in 1..Len(waiters'[want'[u]]) : waiters'[want'[u]][i].task = u
        BY DEF EdgeOK
      <4>1. /\ parked_on_channel[u] /\ op[u] = "claim" /\ want'[u] = want[u]
            /\ park_epoch'[u] = park_epoch[u]
        BY <3>1 DEF Still, Steady
      <4>2. /\ [task |-> u, obj |-> want[u], epoch |-> park_epoch[u]] \in parked_on
            /\ \E i \in 1..Len(waiters[want[u]]) : waiters[want[u]][i].task = u
            /\ want[u] \in Objects
        BY <4>1 DEF CInv, TasksOK, EdgeOK, TaskOK
      <4>3. [task |-> u, obj |-> want[u], epoch |-> park_epoch[u]] \in parked_on'
        BY <1>8, <2>5, <4>2
      <4>4. PICK j \in 1..Len(waiters[want[u]]) : waiters[want[u]][j].task = u
        BY <4>2
      <4>5. \E i \in 1..Len(waiters'[want[u]]) : waiters'[want[u]][i].task = u
        <5>1. CASE want[u] = o
          <6>1. j \in 1..Len(q) /\ q[j].task = u
            BY <1>q, <4>4, <5>1
          <6>2. PICK k \in 1..Len(r) : r[k] = q[j]
            BY <1>4, <2>5, <6>1
          <6>3. k \in 1..Len(waiters'[want[u]]) /\ waiters'[want[u]][k].task = u
            BY <1>5, <5>1, <6>1, <6>2
          <6>4. QED
            BY <6>3
        <5>2. CASE want[u] # o
          BY <1>5, <4>2, <4>4, <5>2
        <5>3. QED
          BY <5>1, <5>2
      <4>6. QED
        BY <4>1, <4>3, <4>5
    <3>4. QED
      BY <2>2, <2>3, <3>2, <3>3
  <2>6. QED
    BY <2>4, <2>5
<1>11. TasksOK'
  BY <1>10 DEF TasksOK
<1>12. ASSUME NEW k \in 1..Len(r)
       PROVE  \E j \in 1..Len(waiters[o]) :
                /\ r[k] = waiters[o][j] /\ r[k].task \in Tasks /\ EntryOK(r[k], o)
                /\ Still(r[k].task) /\ Steady(r[k].task)
  <2>1. PICK j \in 1..Len(q) : r[k] = q[j] /\ q[j].task # t
    BY <1>4
  <2>2. j \in 1..Len(waiters[o]) /\ r[k] = waiters[o][j]
    BY <1>q, <2>1
  <2>3. waiters[o][j].task \in Tasks /\ EntryOK(waiters[o][j], o)
    BY <2>2, QueueFacts
  <2>4. Still(r[k].task) /\ Steady(r[k].task)
    BY <1>7, <2>1, <2>2, <2>3 DEF Still
  <2>5. QED
    BY <2>2, <2>3, <2>4
<1>13. QueueOK(o)'
  <2>1. ASSUME NEW k \in 1..Len(waiters'[o]) PROVE EntryOK(waiters[o][k], o)'
    <3>1. PICK e : e = waiters'[o][k]
      OBVIOUS
    <3>2. k \in 1..Len(r) /\ e = r[k]
      BY <1>5, <3>1
    <3>3. EntryOK(e, o) /\ Steady(e.task)
      BY <1>12, <3>2
    <3>4. Nested(e.task, o)' <=> Nested(e.task, o)
      BY <3>3 DEF Nested, Steady
    <3>5. EntryOK(e, o)'
      BY <3>3, <3>4 DEF EntryOK, Steady
    <3>6. QED
      BY <3>1, <3>5 DEF EntryOK
  <2>2. Apart(waiters[o])'
    BY <1>4, <1>5 DEF Apart
  <2>3. QED
    BY <2>1, <2>2 DEF QueueOK
<1>14. AnyLive(waiters[o])' => AnyLive(waiters[o])
  <2> SUFFICES ASSUME AnyLive(waiters[o])' PROVE AnyLive(waiters[o])
    OBVIOUS
  <2>1. PICK k \in 1..Len(waiters'[o]) : parked_on_channel'[waiters'[o][k].task]
    BY DEF AnyLive, LiveIn, Live
  <2>2. k \in 1..Len(r) /\ parked_on_channel'[r[k].task]
    BY <1>5, <2>1
  <2>3. PICK j \in 1..Len(waiters[o]) : r[k] = waiters[o][j] /\ Still(r[k].task)
    BY <1>12, <2>2
  <2>4. parked_on_channel[waiters[o][j].task]
    BY <2>2, <2>3 DEF Still
  <2>5. Live(waiters[o][j].task, waiters[o][j].epoch)
    BY <2>4, QueueFacts
  <2>6. QED
    BY <2>5, LiveSomewhere
<1>15. ASSUME NEW x \in Objects PROVE QueueOK(x)' /\ (AnyLive(waiters[x])' => AnyLive(waiters[x]))
  <2>1. CASE x = o
    BY <1>13, <1>14, <2>1
  <2>2. CASE x # o
    <3>1. waiters'[x] = waiters[x]
      BY <1>5, <2>2
    <3>2. \A i \in 1..Len(waiters[x]) : Still(waiters[x][i].task)
      <4> SUFFICES ASSUME NEW i \in 1..Len(waiters[x]) PROVE Still(waiters[x][i].task)
        OBVIOUS
      <4>1. waiters[x][i].task \in Tasks /\ want[waiters[x][i].task] = x
        BY QueueFacts DEF EntryOK
      <4>2. waiters[x][i].task # t
        BY <1>o, <2>2, <4>1
      <4>3. QED
        BY <1>7, <4>1, <4>2
    <3>3. \A i \in 1..Len(waiters[x]) : Steady(waiters[x][i].task)
      BY <3>2 DEF Still
    <3>4. \A i \in 1..Len(waiters[x]) :
            /\ Steady(waiters[x][i].task)
            /\ parked_on_channel'[waiters[x][i].task] => parked_on_channel[waiters[x][i].task]
      BY <3>2 DEF Still
    <3>5. QED
      BY <3>1, <3>3, <3>4, StillQueue, StillLive
  <2>3. QED
    BY <2>1, <2>2
<1>16. ASSUME NEW x \in Objects PROVE ObjectOK(x)'
  <2>1. ObjectOK(x) /\ (AnyLive(waiters[x])' => AnyLive(waiters[x]))
    BY <1>15 DEF CInv, ObjectsOK
  <2>2. /\ owner'[x] = owner[x] /\ owner_lane'[x] = owner_lane[x] /\ depth'[x] = depth[x]
        /\ reserved'[x] = reserved[x] /\ ready_heads' = ready_heads
    BY <1>1
  <2>3. QED
    BY <2>1, <2>2 DEF ObjectOK, Contains
<1>17. ObjectsOK'
  BY <1>15, <1>16 DEF ObjectsOK
<1>18. PeersOK'
  <2> SUFFICES ASSUME NEW p \in Peers PROVE PeerOK(p)'
    BY DEF PeersOK
  <2>1. \A d \in drain_waiters[p] : Steady(d.task)
    <3> SUFFICES ASSUME NEW d \in drain_waiters[p] PROVE Steady(d.task)
      OBVIOUS
    <3>1. d.task \in Tasks /\ op[d.task] = "drain"
      BY <1>2 DEF Types, CInv, PeersOK, PeerOK
    <3>2. QED
      BY <1>2, <1>7, <3>1 DEF Still
  <2>2. QED
    BY <1>1, <2>1, SameLanes, StillPeer
<1>19. ClaimIsHeld'
  <2>1. ASSUME NEW x \in Objects, NEW u \in Tasks PROVE HeldBy(x, u)'
    <3>1. HeldBy(x, u) /\ owner' = owner /\ depth' = depth /\ calls' = calls
      BY <1>1, HeldByAll DEF CInv
    <3>2. CASE u = t
      BY <1>1, <1>6, <3>1, <3>2 DEF HeldBy
    <3>3. CASE u # t
      <4>1. Steady(u)
        BY <1>7, <3>3 DEF Still
      <4>2. QED
        BY <3>1, <4>1, StillHeld
    <3>4. QED
      BY <3>2, <3>3
  <2>2. \A x \in Objects, u \in Tasks : HeldBy(x, u)'
    BY <2>1
  <2>3. QED
    BY <2>2 DEF ClaimIsHeld, HeldBy, InCalls, Count
<1>20. QED
  BY <1>9, <1>11, <1>17, <1>18, <1>19 DEF CInv

-----------------------------------------------------------------------------
(* The invariant of the specification.                                      *)

(* Nobody calls, waits or owns anything to begin with.                      *)
LEMMA InitCInv == Init => CInv
<1> SUFFICES ASSUME Init PROVE CInv
  OBVIOUS
<1>1. Lanes \in Nat /\ PeerOf \in [Objects -> Peers]
  BY ClaimsAssumption
<1>2. Types
  BY <1>1 DEF Init, Types, Entries
<1>3. ASSUME NEW t \in Tasks
      PROVE  TaskOK(t) /\ EdgeOK(t) /\ HandedOK(t) /\ LaneOK(t) /\ HomeOK(t)
  <2>1. TaskOK(t) /\ EdgeOK(t) /\ HandedOK(t) /\ HomeOK(t)
    BY DEF Init, TaskOK, EdgeOK, HandedOK, HomeOK
  <2>2. Len(calls[t]) = 0
    BY DEF Init
  <2>3. LaneOK(t)
    BY <2>2 DEF LaneOK
  <2>4. QED
    BY <2>1, <2>3
<1>4. ASSUME NEW o \in Objects PROVE QueueOK(o) /\ ObjectOK(o)
  <2>1. Len(waiters[o]) = 0 /\ owner[o] = NoTask /\ ~owner_lane[o] /\ ~reserved[o]
    BY DEF Init
  <2>2. ~AnyLive(waiters[o])
    BY <2>1, LiveSomewhere
  <2>3. QueueOK(o)
    BY <2>1 DEF QueueOK, Apart
  <2>4. QED
    BY <2>1, <2>2, <2>3 DEF ObjectOK
<1>5. ASSUME NEW p \in Peers PROVE PeerOK(p)
  <2>1. Len(ready_heads[p]) = 0 /\ ready_heads[p] = <<>> /\ free_lanes[p] = Lanes
        /\ drain_waiters[p] = {}
    BY DEF Init
  <2>2. Out(p) = {}
    BY DEF Init, Out, ObjectsOf
  <2>3. IsFiniteSet(Out(p)) /\ free_lanes[p] + Cardinality(Out(p)) = Lanes
    BY <1>1, <2>1, <2>2, FS_EmptySet
  <2>4. QED
    BY <2>1, <2>3 DEF PeerOK, Once
<1>6. ClaimIsHeld
  <2>1. ASSUME NEW o \in Objects, NEW t \in Tasks PROVE HeldBy(o, t)
    <3>1. Len(calls[t]) = 0 /\ owner[o] # t /\ ~woken[t]
      BY ClaimsAssumption DEF Init
    <3>2. Len(calls[t]) \in Nat /\ \A i \in 1..Len(calls[t]) : calls[t][i] # o
      BY <3>1
    <3>3. Count(calls[t], o) = 0
      BY <3>2, CountFacts
    <3>4. QED
      BY <3>1, <3>3 DEF HeldBy
  <2>2. QED
    BY <2>1, HeldByAll
<1>7. QED
  BY <1>2, <1>3, <1>4, <1>5, <1>6 DEF CInv, TasksOK, ObjectsOK, PeersOK

(* A step that changes nothing.                                             *)
LEMMA StutterCInv ==
  ASSUME CInv, UNCHANGED vars
  PROVE  CInv'
<1>1. /\ op' = op /\ want' = want /\ stopping' = stopping /\ calls' = calls
      /\ park_epoch' = park_epoch /\ woken' = woken
      /\ parked_on_channel' = parked_on_channel /\ cancel_requested' = cancel_requested
      /\ owner' = owner /\ depth' = depth /\ owner_lane' = owner_lane /\ free_lanes' = free_lanes
      /\ waiters' = waiters /\ reserved' = reserved /\ ready_heads' = ready_heads
      /\ parked_on' = parked_on /\ drain_waiters' = drain_waiters /\ stopped' = stopped
  BY DEF vars, objVars, peerVars, taskVars, coroVars
<1>2. \A u : Still(u) /\ Steady(u)
  BY <1>1 DEF Still, Steady
<1>3. ASSUME NEW u \in Tasks
      PROVE  TaskOK(u)' /\ EdgeOK(u)' /\ HandedOK(u)' /\ LaneOK(u)' /\ HomeOK(u)'
  <2>1. TaskOK(u)' /\ EdgeOK(u)' /\ HandedOK(u)' /\ LaneOK(u)'
    BY <1>1, <1>2, StillTask, StillEdge, StillHanded, StillLane
  <2>2. HomeOK(u)
    BY DEF CInv, TasksOK
  <2>3. QED
    BY <1>1, <2>1, <2>2 DEF HomeOK
<1>4. ObjectsOK'
  <2>1. Standing
    BY <1>1, <1>2 DEF Standing
  <2>2. QED
    BY <2>1, StandingObjects
<1>5. PeersOK'
  BY <1>1, <1>2, SameLanes, StillPeer DEF PeersOK
<1>6. Types' /\ ClaimIsHeld'
  BY <1>1 DEF CInv, Types, ClaimIsHeld, InCalls
<1>7. QED
  BY <1>3, <1>4, <1>5, <1>6 DEF CInv, TasksOK

(* Every step keeps the invariant.                                          *)
LEMMA NextCInv ==
  ASSUME CInv, Cancellable \cap Stoppers = {}, [Next]_vars
  PROVE  CInv'
<1>1. CASE UNCHANGED vars
  BY <1>1, StutterCInv
<1>2. ASSUME NEW t \in Tasks, NEW o \in Objects,
             Reenter(t, o) \/ Grant(t, o) \/ CallRaises(t, o) \/ enqueue(t, o)
      PROVE  CInv'
  <2>1. CASE Reenter(t, o)
    BY <2>1, ReenterKeeps
  <2>2. CASE Grant(t, o)
    BY <2>2, GrantKeeps
  <2>3. CASE CallRaises(t, o)
    BY <2>3, StutterCInv DEF CallRaises
  <2>4. CASE enqueue(t, o)
    BY <2>4, EnqueueJoins, JoinsKeeps
  <2>5. QED
    BY <1>2, <2>1, <2>2, <2>3, <2>4
<1>3. ASSUME NEW t \in Tasks, NEW p \in Peers, drain_lanes(t, p) PROVE CInv'
  BY <1>3, DrainKeeps
<1>4. ASSUME NEW t \in Tasks, EndCall(t) PROVE CInv'
  BY <1>4, EndCallKeeps
<1>5. ASSUME NEW t \in Tasks, request_cancel(t) PROVE CInv'
  BY <1>5, CancelKeeps
<1>6. ASSUME NEW t \in Tasks, Resume(t) PROVE CInv'
  BY <1>6, ClaimGrantedKeeps, PassedOnKeeps, RetractKeeps, DrainEndsKeeps DEF Resume
<1>7. QED
  BY <1>1, <1>2, <1>3, <1>4, <1>5, <1>6 DEF Next

(* The claim table, its queues and its tasks stay in step, for every set of *)
(* tasks, objects and peers.                                                *)
LEMMA ClaimsInductive ==
  ASSUME Cancellable \cap Stoppers = {}
  PROVE  Spec => []CInv
<1>1. Init => CInv
  BY InitCInv
<1>2. CInv /\ [Next]_vars => CInv'
  BY NextCInv
<1>3. QED
  BY <1>1, <1>2, PTL DEF Spec

-----------------------------------------------------------------------------
(* The theorems.                                                            *)

(* Nobody is stranded (NoneStranded): whatever calls end, are passed on or  *)
(* are cancelled, an object with a live waiter is held, or reserved and     *)
(* once in the lane queue, and no lane is idle while an object waits for    *)
(* one.                                                                     *)
THEOREM ClaimsStrandNobody ==
  ASSUME Cancellable \cap Stoppers = {}
  PROVE  Spec => []NoneStranded
<1>1. CInv => NoneStranded
  <2> SUFFICES ASSUME CInv PROVE NoneStranded
    OBVIOUS
  <2>1. ASSUME NEW o \in Objects
        PROVE  /\ AnyLive(waiters[o]) => owner[o] # NoTask \/ reserved[o]
               /\ Count(ready_heads[PeerOf[o]], o) = (IF reserved[o] THEN 1 ELSE 0)
    <3>1. ObjectOK(o) /\ PeerOf[o] \in Peers
      BY ClaimsAssumption DEF CInv, ObjectsOK
    <3>2. PeerOK(PeerOf[o]) /\ ready_heads[PeerOf[o]] \in Seq(Objects)
      BY <3>1 DEF CInv, PeersOK, Types
    <3>3. Contains(ready_heads[PeerOf[o]], o) <=> reserved[o]
      BY <3>1, <3>2 DEF ObjectOK, PeerOK, Contains
    <3>4. Count(ready_heads[PeerOf[o]], o)
            = IF Contains(ready_heads[PeerOf[o]], o) THEN 1 ELSE 0
      BY <3>2, CountOnce DEF PeerOK
    <3>5. QED
      BY <3>1, <3>3, <3>4 DEF ObjectOK
  <2>2. \A p \in Peers : ready_heads[p] # <<>> => free_lanes[p] = 0
    BY DEF CInv, PeersOK, PeerOK
  <2>3. QED
    BY <2>1, <2>2 DEF NoneStranded, Count
<1>2. Spec => []CInv
  BY ClaimsInductive
<1>3. QED
  BY <1>1, <1>2, PTL

(* A live waiter stands once in the queue of the object it wants and in no  *)
(* other.                                                                   *)
LEMMA WaitsOnce ==
  ASSUME CInv, NEW t \in Tasks, Live(t, park_epoch[t]), op[t] = "claim", NEW o \in Objects
  PROVE  Cardinality({i \in 1..Len(waiters[o]) : waiters[o][i].task = t
                                                  /\ waiters[o][i].epoch = park_epoch[t]})
           = (IF o = want[t] THEN 1 ELSE 0)
<1> DEFINE S == {i \in 1..Len(waiters[o]) : waiters[o][i].task = t
                                              /\ waiters[o][i].epoch = park_epoch[t]}
<1>1. CASE o # want[t]
  <2>1. S = {}
    BY <1>1, QueueFacts DEF EntryOK
  <2>2. QED
    BY <1>1, <2>1, FS_EmptySet
<1>2. CASE o = want[t]
  <2>1. EdgeOK(t) /\ parked_on_channel[t] /\ Apart(waiters[o])
    BY DEF CInv, TasksOK, ObjectsOK, QueueOK, Live
  <2>2. PICK i \in 1..Len(waiters[o]) : waiters[o][i].task = t
    BY <1>2, <2>1 DEF EdgeOK
  <2>3. waiters[o][i].epoch = park_epoch[t]
    BY <2>2, QueueFacts DEF EntryOK
  <2>4. \A j \in 1..Len(waiters[o]) : waiters[o][j].task = t => j = i
    BY <2>1, <2>2 DEF Apart
  <2>5. S = {i}
    BY <2>2, <2>3, <2>4
  <2>6. Cardinality({i}) = 1
    BY FS_Singleton
  <2> HIDE DEF S
  <2>7. Cardinality(S) = 1
    BY <2>5, <2>6
  <2>8. QED
    BY <1>2, <2>7 DEF S
<1>3. QED
  BY <1>1, <1>2

(* The claim table agrees with its tasks (ClaimsAgree): no lane leaks or is *)
(* minted, a claim is held exactly by the task inside its calls, as deep as *)
(* it re-entered, or just handed it, the index has the edge of every live   *)
(* waiter, and a stop leaves its drain only when the peer is quiet.         *)
THEOREM ClaimsStayAgreed ==
  ASSUME Cancellable \cap Stoppers = {}
  PROVE  Spec => []ClaimsAgree
<1>1. CInv => ClaimsAgree
  <2> SUFFICES ASSUME CInv PROVE ClaimsAgree
    OBVIOUS
  <2>1. LanesConserved
    BY DEF LanesConserved, CInv, PeersOK, PeerOK, Out
  <2>2. ClaimIsHeld
    BY DEF CInv
  <2>3. EdgesAgree
    <3>1. ASSUME NEW t \in Tasks, Live(t, park_epoch[t]), op[t] = "claim"
          PROVE  [task |-> t, obj |-> want[t], epoch |-> park_epoch[t]] \in parked_on
      BY <3>1 DEF CInv, TasksOK, EdgeOK, Live
    <3>2. QED
      BY <3>1, WaitsOnce DEF EdgesAgree
  <2>4. DrainedIsQuiet
    <3> SUFFICES ASSUME NEW t \in Tasks, op[t] = "drain", woken[t]
                 PROVE  /\ free_lanes[stopping[t]] = Lanes
                        /\ \A o \in ObjectsOf(stopping[t]) :
                             owner[o] = NoTask /\ ~AnyLive(waiters[o])
      BY DEF DrainedIsQuiet
    <3>1. free_lanes[stopping[t]] = Lanes /\ stopping[t] \in Peers
      BY DEF CInv, TasksOK, HomeOK, TaskOK
    <3>2. QED
      BY <3>1, QuietWhenHome
  <2>5. QED
    BY <2>1, <2>2, <2>3, <2>4 DEF ClaimsAgree
<1>2. Spec => []CInv
  BY ClaimsInductive
<1>3. QED
  BY <1>1, <1>2, PTL

(* A wake reaches only a task that is parked for one (GrantFitsWait), as    *)
(* long as no cancelled task is left behind in a drain.                     *)
THEOREM ClaimsWakeTheirWaiter ==
  ASSUME Cancellable \cap Stoppers = {}
  PROVE  Spec => []GrantFitsWait
<1>1. CInv => GrantFitsWait
  <2> SUFFICES ASSUME CInv, NEW t \in Tasks, woken[t]
               PROVE  (op[t] = "claim" /\ owner[want[t]] = t) \/ op[t] = "drain"
    BY DEF GrantFitsWait
  <2>1. TaskOK(t) /\ op[t] \in {"none", "claim", "drain"}
    BY DEF CInv, TasksOK, Types
  <2>2. op[t] = "claim" => want[t] \in Objects
    BY <2>1 DEF TaskOK
  <2>3. op[t] = "claim" => owner[want[t]] = t
    BY <2>2, HeldFacts
  <2>4. QED
    BY <2>1, <2>3 DEF TaskOK
<1>2. Spec => []CInv
  BY ClaimsInductive
<1>3. QED
  BY <1>1, <1>2, PTL

(* An object that changes hands while a live task queues for it goes to the *)
(* first live one, whichever step frees it.                                 *)
LEMMA FreeInOrder ==
  ASSUME CInv, NEW t \in Tasks, NEW o \in Objects, end_call(o, t), NEW x \in Objects,
         owner'[x] # owner[x], owner'[x] # NoTask
  PROVE  owner'[x] = FirstLive(waiters[x]).task
<1>1. CASE FreeClaim(o, t)
  <2>1. owner' = [y \in Objects |-> IF y \in Granted(o) THEN FirstLive(waiters[y]).task
                                    ELSE IF y = o THEN NoTask ELSE owner[y]]
    BY <1>1 DEF FreeClaim, Granted
  <2>2. QED
    BY <2>1
<1>2. CASE UNCHANGED owner
  BY <1>2
<1>3. QED
  BY <1>1, <1>2 DEF end_call

(* A step that hands an object over while a live task queues for it hands   *)
(* it to the first live one.                                                *)
LEMMA InOrderStep ==
  ASSUME CInv, [Next]_vars, NEW x \in Objects, owner'[x] # owner[x], owner'[x] # NoTask,
         AnyLive(waiters[x])
  PROVE  owner'[x] = FirstLive(waiters[x]).task
<1>0. ~UNCHANGED owner
  OBVIOUS
<1>1. PICK t \in Tasks :
        \/ \E o \in Objects : Reenter(t, o) \/ Grant(t, o) \/ CallRaises(t, o) \/ enqueue(t, o)
        \/ \E p \in Peers : drain_lanes(t, p)
        \/ EndCall(t) \/ request_cancel(t) \/ Resume(t)
  BY <1>0 DEF Next, vars, objVars
<1>2. ASSUME NEW o \in Objects,
             Reenter(t, o) \/ Grant(t, o) \/ CallRaises(t, o) \/ enqueue(t, o)
      PROVE  FALSE
  <2>1. Grant(t, o)
    BY <1>0, <1>2 DEF Reenter, CallRaises, enqueue, vars, objVars
  <2>2. /\ owner[o] = NoTask /\ ~reserved[o]
        /\ owner' = [owner EXCEPT ![o] = t]
    BY <2>1 DEF Grant
  <2>3. x = o
    BY <2>2 DEF CInv, Types
  <2>4. QED
    BY <2>2, <2>3 DEF CInv, ObjectsOK, ObjectOK
<1>3. ASSUME NEW p \in Peers, drain_lanes(t, p) PROVE FALSE
  BY <1>0, <1>3 DEF drain_lanes, objVars
<1>4. ~request_cancel(t)
  BY <1>0 DEF request_cancel, objVars
<1>5. CASE EndCall(t)
  <2>1. calls[t] \in Seq(Objects) /\ calls[t] # <<>> /\ end_call(Last(calls[t]), t)
    BY <1>5 DEF EndCall, CInv, Types
  <2>2. Last(calls[t]) \in Objects
    BY <2>1, CountFront
  <2>3. QED
    BY <2>1, <2>2, FreeInOrder
<1>6. CASE Resume(t)
  <2>1. ClaimPassedOn(t)
    BY <1>0, <1>6 DEF Resume, ClaimGranted, retract, DrainEnds, objVars
  <2>2. want[t] \in Objects /\ end_call(want[t], t)
    BY <2>1 DEF ClaimPassedOn, Resumes, CInv, TasksOK, TaskOK
  <2>3. QED
    BY <2>2, FreeInOrder
<1>7. QED
  BY <1>1, <1>2, <1>3, <1>4, <1>5, <1>6

(* No barging (NoBarging): while a live task queues for an object, no step  *)
(* gives the object to anybody but the first live one; a newcomer finds it  *)
(* held or reserved.                                                        *)
THEOREM ClaimsInOrder ==
  ASSUME Cancellable \cap Stoppers = {}
  PROVE  Spec => NoBarging
<1>1. CInv /\ [Next]_vars =>
        [\A o \in Objects :
           owner'[o] # owner[o] /\ owner'[o] # NoTask /\ AnyLive(waiters[o]) =>
             owner'[o] = FirstLive(waiters[o]).task]_vars
  BY InOrderStep
<1>2. Spec => []CInv
  BY ClaimsInductive
<1>3. QED
  BY <1>1, <1>2, PTL DEF Spec, NoBarging

(* No claim is re-entered past the cap.                                     *)
Capped == \A o \in Objects : depth[o] <= MaxObjectDepth

(* Every step keeps the cap.                                                *)
LEMMA NextCapped ==
  ASSUME CInv, Capped, [Next]_vars
  PROVE  Capped'
<1> SUFFICES ASSUME NEW x \in Objects PROVE depth'[x] <= MaxObjectDepth
  BY DEF Capped
<1>0. /\ depth \in [Objects -> Nat] /\ depth[x] \in Nat /\ depth[x] <= MaxObjectDepth
      /\ MaxObjectDepth \in Nat /\ 1 <= MaxObjectDepth
  BY ClaimsAssumption DEF CInv, Types, Capped
<1>1. CASE UNCHANGED depth
  BY <1>0, <1>1
<1>2. ASSUME NEW t \in Tasks, NEW o \in Objects, end_call(o, t) PROVE depth'[x] <= MaxObjectDepth
  <2>1. CASE depth' = [depth EXCEPT ![o] = @ - 1]
    BY <1>0, <2>1
  <2>2. CASE FreeClaim(o, t)
    <3>1. depth' = [y \in Objects |-> IF y \in Granted(o) THEN 1
                                      ELSE IF y = o THEN 0 ELSE depth[y]]
      BY <2>2 DEF FreeClaim, Granted
    <3>2. depth'[x] = 1 \/ depth'[x] = 0 \/ depth'[x] = depth[x]
      BY <3>1
    <3>3. QED
      BY <1>0, <3>2
  <2>3. QED
    BY <1>2, <2>1, <2>2 DEF end_call
<1>3. ASSUME NEW t \in Tasks, NEW o \in Objects,
             Reenter(t, o) \/ Grant(t, o) \/ CallRaises(t, o) \/ enqueue(t, o)
      PROVE  depth'[x] <= MaxObjectDepth
  <2>1. CASE Reenter(t, o)
    <3>1. depth' = [depth EXCEPT ![o] = @ + 1] /\ depth[o] < MaxObjectDepth
      BY <2>1 DEF Reenter
    <3>2. QED
      BY <1>0, <3>1
  <2>2. CASE Grant(t, o)
    <3>1. depth' = [depth EXCEPT ![o] = 1]
      BY <2>2 DEF Grant
    <3>2. QED
      BY <1>0, <3>1
  <2>3. CASE CallRaises(t, o) \/ enqueue(t, o)
    BY <1>1, <2>3 DEF CallRaises, enqueue, vars, objVars
  <2>4. QED
    BY <1>3, <2>1, <2>2, <2>3
<1>4. ASSUME NEW t \in Tasks, NEW p \in Peers, drain_lanes(t, p) PROVE depth'[x] <= MaxObjectDepth
  BY <1>1, <1>4 DEF drain_lanes, objVars
<1>5. ASSUME NEW t \in Tasks, EndCall(t) PROVE depth'[x] <= MaxObjectDepth
  <2>1. calls[t] \in Seq(Objects) /\ calls[t] # <<>> /\ end_call(Last(calls[t]), t)
    BY <1>5 DEF EndCall, CInv, Types
  <2>2. Last(calls[t]) \in Objects
    BY <2>1, CountFront
  <2>3. QED
    BY <1>2, <2>1, <2>2
<1>6. ASSUME NEW t \in Tasks, request_cancel(t) PROVE depth'[x] <= MaxObjectDepth
  BY <1>1, <1>6 DEF request_cancel, objVars
<1>7. ASSUME NEW t \in Tasks, Resume(t) PROVE depth'[x] <= MaxObjectDepth
  <2>1. CASE ClaimPassedOn(t)
    <3>1. want[t] \in Objects /\ end_call(want[t], t)
      BY <2>1 DEF ClaimPassedOn, Resumes, CInv, TasksOK, TaskOK
    <3>2. QED
      BY <1>2, <3>1
  <2>2. CASE ClaimGranted(t) \/ retract(t) \/ DrainEnds(t)
    BY <1>1, <2>2 DEF ClaimGranted, retract, DrainEnds, objVars
  <2>3. QED
    BY <1>7, <2>1, <2>2 DEF Resume
<1>8. CASE UNCHANGED vars
  BY <1>1, <1>8 DEF vars, objVars
<1>9. QED
  BY <1>3, <1>4, <1>5, <1>6, <1>7, <1>8 DEF Next

(* Claims is type correct (TypeOK): no claim is deeper than                 *)
(* MAX_OBJECT_DEPTH and a peer never has more free lanes than lanes.        *)
THEOREM ClaimsTypeCorrect ==
  ASSUME Cancellable \cap Stoppers = {}
  PROVE  Spec => []TypeOK
<1>1. Init => Capped
  BY ClaimsAssumption DEF Init, Capped
<1>2. CInv /\ Capped /\ [Next]_vars => Capped'
  BY NextCapped
<1>3. CInv /\ Capped => TypeOK
  <2> SUFFICES ASSUME CInv, Capped PROVE TypeOK
    OBVIOUS
  <2>1. Types /\ MaxObjectDepth \in Nat /\ Lanes \in Nat
    BY ClaimsAssumption DEF CInv
  <2>2. depth \in [Objects -> 0..MaxObjectDepth]
    BY <2>1 DEF Types, Capped
  <2>3. ASSUME NEW p \in Peers PROVE free_lanes[p] \in 0..Lanes
    <3>1. /\ free_lanes[p] \in Nat /\ IsFiniteSet(Out(p))
          /\ free_lanes[p] + Cardinality(Out(p)) = Lanes
      BY <2>1 DEF Types, CInv, PeersOK, PeerOK
    <3>2. Cardinality(Out(p)) \in Nat
      BY <3>1, FS_CardinalityType
    <3>3. QED
      BY <2>1, <3>1, <3>2
  <2>4. free_lanes \in [Peers -> 0..Lanes]
    BY <2>1, <2>3 DEF Types
  <2>5. QED
    BY <2>1, <2>2, <2>4 DEF Types, TypeOK, Entries
<1>4. Spec => []CInv
  BY ClaimsInductive
<1>5. QED
  BY <1>1, <1>2, <1>3, <1>4, PTL DEF Spec

=============================================================================
