--------------------------- MODULE ChannelProofs ---------------------------
(***************************************************************************)
(* Proofs about Channel for every set of tasks and values, every capacity  *)
(* and every number of resumes: no accepted value is lost or duplicated,   *)
(* nobody sleeps through what would serve it, the outcome of a send is     *)
(* final, and the channel implements AbstractChannel.                      *)
(*                                                                         *)
(* The inductive invariant ChanInv rests on the park epochs.  An entry of  *)
(* a waiter queue whose epoch is its task's current one belongs to the     *)
(* operation the task is suspended in (QueuesOK); older ones are ghosts. A *)
(* parked task has no wake yet, so a wake never overwrites another         *)
(* (TaskOK); and a value is in the buffer, in one wake or received, once,  *)
(* exactly when its send was accepted (OnePlace).                          *)
(***************************************************************************)
EXTENDS Channel, TLAPS, FiniteSetTheorems, SequenceTheorems, NaturalsInduction,
        WellFoundedInduction

(* An entry of a park: its task, the epoch it captured, and its value.      *)
EntryFits(e, what, epoch, ops, vals) ==
  /\ ~e.remote /\ e.task \in LocalTasks /\ e.id <= epoch[e.task]
  /\ e.id = epoch[e.task] => ops[e.task] = what /\ vals[e.task] = e.val

(* An entry of the current epoch belongs to the operation its task is       *)
(* suspended in, and there is one for each park.                            *)
QueueFits(q, what, epoch, ops, vals) ==
  /\ \A i \in 1..Len(q) : EntryFits(q[i], what, epoch, ops, vals)
  /\ \A i, j \in 1..Len(q) : q[i].task = q[j].task /\ q[i].id = q[j].id => i = j

QueuesOK ==
  /\ QueueFits(recv_waiters, "recv", park_epoch, op, opval)
  /\ QueueFits(send_waiters, "send", park_epoch, op, opval)

QueuedAt(q, t, epoch) == \E i \in 1..Len(q) : q[i].task = t /\ q[i].id = epoch

(* What a slot's flags say about the operation it is suspended in.          *)
TaskOK(t) ==
  /\ parked_on_channel[t] => op[t] # "none" /\ ~cancel_requested[t] /\ wake[t].kind = "none"
  /\ op[t] = "none" => ~cancel_requested[t] /\ wake[t].kind = "none"
  /\ op[t] # "none" /\ ~parked_on_channel[t] => cancel_requested[t] \/ wake[t].kind # "none"
  /\ wake[t].kind = "Recv" => op[t] = "recv" /\ wake[t].val \in Values
  /\ wake[t].kind = "SendOk" => op[t] = "send"
  /\ wake[t].kind = "Closed" => op[t] \in {"send", "recv"}
  /\ op[t] = "send" => opval[t] \in Values
  /\ op[t] # "send" => opval[t] = NoVal
  /\ t \in RemoteTasks => op[t] = "none"

(* A parked sender or receiver is in the queue of its operation, and no     *)
(* longer parked when the channel is closed.                                *)
ParkOK(t) ==
  /\ parked_on_channel[t] /\ op[t] = "recv" => QueuedAt(recv_waiters, t, park_epoch[t])
  /\ parked_on_channel[t] /\ op[t] = "send" => QueuedAt(send_waiters, t, park_epoch[t])
  /\ closed /\ parked_on_channel[t] => op[t] = "other"

(* Parked receivers wait for an empty channel, parked senders for a full    *)
(* one.                                                                     *)
Waits(what) == \E t \in Tasks : parked_on_channel[t] /\ op[t] = what
MeetOK ==
  /\ Waits("recv") => buffer = <<>> /\ ~Waits("send")
  /\ Waits("send") => Len(buffer) >= cap

(* A suspended send holds its value alone, accepted once its wake says so.  *)
SendOK ==
  /\ \A t \in Tasks : op[t] = "send" =>
       fate[opval[t]] = IF wake[t].kind = "SendOk" THEN "accepted" ELSE "parked"
  /\ \A t, u \in Tasks : op[t] = "send" /\ op[u] = "send" /\ opval[t] = opval[u] => t = u

Holds(q, v) == \E i \in 1..Len(q) : q[i] = v
Distinct(q) == \A i, j \in 1..Len(q) : q[i] = q[j] => i = j
InBuffer(v) == Holds(buffer, v)
InWake(v) == \E t \in Tasks : wake[t].kind = "Recv" /\ wake[t].val = v

(* An accepted value is in one place, a value that was not in none.         *)
OnePlace ==
  /\ Distinct(buffer)
  /\ \A t, u \in Tasks : wake[t].kind = "Recv" /\ wake[u].kind = "Recv"
                           /\ wake[t].val = wake[u].val => t = u
  /\ \A v \in Values :
       /\ InBuffer(v) => ~InWake(v) /\ received[v] = 0
       /\ InWake(v) => received[v] = 0
       /\ received[v] \in {0, 1}
       /\ fate[v] = "accepted" <=> InBuffer(v) \/ InWake(v) \/ received[v] = 1

ChanInv ==
  /\ TypeOK /\ refs = 0
  /\ QueuesOK
  /\ \A t \in Tasks : TaskOK(t) /\ ParkOK(t)
  /\ MeetOK /\ SendOK /\ OnePlace

-----------------------------------------------------------------------------
(* Operators of the waiter queues.                                          *)

Wakes == [kind : {"none", "Recv", "SendOk", "Closed", "Err", "Other"},
          val : Values \cup {NoVal}]
USE DEF Wakes

(* The order of the naturals, as a relation.                                *)
Less == {p \in Nat \X Nat : p[1] < p[2]}

(* A non-empty set of positions has a least one.                            *)
LEMMA MinPosition ==
  ASSUME NEW n \in Nat, NEW S, S \subseteq 1..n, S # {}
  PROVE  Min(S) \in S /\ \A y \in S : Min(S) <= y
<1>1. IsWellFoundedOn(Less, Nat)
  BY NatLessThanWellFounded DEF OpToRel, Less
<1>2. S \subseteq Nat
  OBVIOUS
<1>3. \E x \in S : \A y \in S : ~(<<y, x>> \in Less)
  BY <1>1, <1>2, WFMin
<1>4. \A x, y \in Nat : ~(<<y, x>> \in Less) => x <= y
  BY DEF Less
<1>5. \E x \in S : \A y \in S : x <= y
  BY <1>2, <1>3, <1>4
<1>6. QED
  BY <1>5 DEF Min

(* pop_live_recv and pop_live_send: the first live entry, and what is       *)
(* behind it.                                                               *)
LEMMA PopFacts ==
  ASSUME NEW q \in Seq(Entries), AnyLive(q)
  PROVE  \E m \in 1..Len(q) :
           /\ PopLive(q) = q[m] /\ EntryLive(q[m])
           /\ \A j \in 1..Len(q) : j < m => ~EntryLive(q[j])
           /\ AfterPop(q) \in Seq(Entries)
           /\ Len(AfterPop(q)) = Len(q) - m
           /\ \A i \in 1..(Len(q) - m) : AfterPop(q)[i] = q[i + m]
<1>1. PICK m \in LiveIn(q) : m = Min(LiveIn(q)) /\ \A j \in LiveIn(q) : m <= j
  <2>1. LiveIn(q) \subseteq 1..Len(q) /\ LiveIn(q) # {} /\ Len(q) \in Nat
    BY DEF AnyLive, LiveIn
  <2>2. QED
    BY <2>1, MinPosition
<1>2. /\ m \in 1..Len(q) /\ EntryLive(q[m])
      /\ \A j \in 1..Len(q) : j < m => ~EntryLive(q[j])
  <2>1. LiveIn(q) \subseteq 1..Len(q) /\ \A j \in 1..Len(q) : j \in LiveIn(q) <=> EntryLive(q[j])
    BY DEF LiveIn
  <2>2. \A j \in 1..Len(q) : j < m => ~(m <= j)
    BY <1>1, <2>1
  <2>3. QED
    BY <1>1, <2>1, <2>2
<1>3. PopLive(q) = q[m] /\ AfterPop(q) = SubSeq(q, m + 1, Len(q))
  BY <1>1 DEF PopLive, AfterPop
<1>4. /\ SubSeq(q, m + 1, Len(q)) \in Seq(Entries)
      /\ Len(SubSeq(q, m + 1, Len(q))) = Len(q) - m
      /\ \A i \in 1..(Len(q) - m) : SubSeq(q, m + 1, Len(q))[i] = q[i + m]
  BY <1>2
<1>5. QED
  BY <1>2, <1>3, <1>4

(* A queue that loses entries at its front still fits, when each task moved *)
(* to a later epoch, or was and is not in the queue's operation, or did not *)
(* change.                                                                  *)
LEMMA FitsKept ==
  ASSUME NEW q \in Seq(Entries), NEW r \in Seq(Entries), NEW what,
         NEW ep \in [Tasks -> Nat], NEW ops, NEW vals,
         NEW ep2 \in [Tasks -> Nat], NEW ops2, NEW vals2,
         QueueFits(q, what, ep, ops, vals),
         NEW m \in 0..Len(q), Len(r) = Len(q) - m, \A i \in 1..Len(r) : r[i] = q[i + m],
         \A t \in LocalTasks :
           \/ ep2[t] = ep[t] /\ ops2[t] = ops[t] /\ vals2[t] = vals[t]
           \/ ep2[t] = ep[t] /\ ops[t] # what
           \/ ep2[t] > ep[t]
  PROVE  QueueFits(r, what, ep2, ops2, vals2)
<1>1. \A i \in 1..Len(r) : i + m \in 1..Len(q) /\ r[i] = q[i + m]
  OBVIOUS
<1>2. ASSUME NEW i \in 1..Len(r) PROVE EntryFits(r[i], what, ep2, ops2, vals2)
  <2>1. EntryFits(r[i], what, ep, ops, vals)
    BY <1>1 DEF QueueFits
  <2>2. r[i] \in Entries
    BY ElementOfSeq
  <2>3. r[i].id \in Nat
    BY <2>2 DEF Entries
  <2>4. r[i].task \in LocalTasks
    BY <2>1 DEF EntryFits
  <2>5. PICK t \in LocalTasks : t = r[i].task
    BY <2>4
  <2>6. ep[t] \in Nat /\ ep2[t] \in Nat
    BY DEF Tasks
  <2>7. /\ ~r[i].remote /\ r[i].id <= ep[t]
        /\ r[i].id = ep[t] => ops[t] = what /\ vals[t] = r[i].val
    BY <2>1, <2>5 DEF EntryFits
  <2>8. /\ r[i].id <= ep2[t]
        /\ r[i].id = ep2[t] => ops2[t] = what /\ vals2[t] = r[i].val
    BY <2>3, <2>6, <2>7
  <2>9. QED
    BY <2>5, <2>7, <2>8 DEF EntryFits
<1>3. ASSUME NEW i \in 1..Len(r), NEW j \in 1..Len(r),
             r[i].task = r[j].task, r[i].id = r[j].id
      PROVE  i = j
  <2>1. i + m = j + m
    BY SMTT(20), <1>1, <1>3 DEF QueueFits
  <2>2. QED
    BY <2>1
<1>4. QED
  BY <1>2, <1>3 DEF QueueFits

(* The same for a queue that does not change.                               *)
LEMMA FitsSame ==
  ASSUME NEW q \in Seq(Entries), NEW what,
         NEW ep \in [Tasks -> Nat], NEW ops, NEW vals,
         NEW ep2 \in [Tasks -> Nat], NEW ops2, NEW vals2,
         QueueFits(q, what, ep, ops, vals),
         \A t \in LocalTasks :
           \/ ep2[t] = ep[t] /\ ops2[t] = ops[t] /\ vals2[t] = vals[t]
           \/ ep2[t] = ep[t] /\ ops[t] # what
           \/ ep2[t] > ep[t]
  PROVE  QueueFits(q, what, ep2, ops2, vals2)
<1>1. ASSUME NEW i \in 1..Len(q) PROVE EntryFits(q[i], what, ep2, ops2, vals2)
  <2>1. EntryFits(q[i], what, ep, ops, vals)
    BY DEF QueueFits
  <2>2. q[i] \in Entries
    BY ElementOfSeq
  <2>3. q[i].id \in Nat
    BY <2>2 DEF Entries
  <2>4. q[i].task \in LocalTasks
    BY <2>1 DEF EntryFits
  <2>5. PICK t \in LocalTasks : t = q[i].task
    BY <2>4
  <2>6. ep[t] \in Nat /\ ep2[t] \in Nat
    BY DEF Tasks
  <2>7. /\ ~q[i].remote /\ q[i].id <= ep[t]
        /\ q[i].id = ep[t] => ops[t] = what /\ vals[t] = q[i].val
    BY <2>1, <2>5 DEF EntryFits
  <2>8. /\ q[i].id <= ep2[t]
        /\ q[i].id = ep2[t] => ops2[t] = what /\ vals2[t] = q[i].val
    BY <2>3, <2>6, <2>7
  <2>9. QED
    BY <2>5, <2>7, <2>8 DEF EntryFits
<1>2. QED
  BY <1>1 DEF QueueFits

(* The entry of a new park is the only one of its task's epoch.             *)
LEMMA FitsAppend ==
  ASSUME NEW q \in Seq(Entries), NEW what, NEW t \in LocalTasks, NEW v \in Values \cup {NoVal},
         park_epoch \in [Tasks -> Nat],
         QueueFits(q, what, park_epoch, op, opval), op[t] # what,
         op'[t] = what, opval'[t] = v,
         \A u \in LocalTasks : u # t => op'[u] = op[u] /\ opval'[u] = opval[u]
  PROVE  /\ Append(q, LocalEntry(t, park_epoch[t], v)) \in Seq(Entries)
         /\ QueueFits(Append(q, LocalEntry(t, park_epoch[t], v)), what, park_epoch, op', opval')
         /\ QueuedAt(Append(q, LocalEntry(t, park_epoch[t], v)), t, park_epoch[t])
<1> DEFINE e == LocalEntry(t, park_epoch[t], v)
           r == Append(q, e)
<1>1. /\ e \in Entries /\ e.task = t /\ e.id = park_epoch[t] /\ e.val = v /\ ~e.remote
      /\ park_epoch[t] \in Nat
  BY DEF LocalEntry, Entries, Tasks
<1> HIDE DEF e
<1>2. /\ r \in Seq(Entries) /\ Len(r) = Len(q) + 1 /\ r[Len(r)] = e
      /\ \A i \in 1..Len(q) : r[i] = q[i]
  BY <1>1
<1> HIDE DEF r
<1>3. \A i \in 1..Len(r) : i \in 1..Len(q) \/ i = Len(r)
  BY <1>2
<1>4. ASSUME NEW i \in 1..Len(q)
      PROVE  /\ EntryFits(q[i], what, park_epoch, op', opval')
             /\ q[i].task = t => q[i].id # park_epoch[t]
  BY DEF QueueFits, EntryFits
<1>5. \A i \in 1..Len(r) : EntryFits(r[i], what, park_epoch, op', opval')
  <2>1. EntryFits(e, what, park_epoch, op', opval')
    BY <1>1 DEF EntryFits
  <2>2. QED
    BY <1>2, <1>3, <1>4, <2>1
<1>6. ASSUME NEW i \in 1..Len(r), NEW j \in 1..Len(r),
             r[i].task = r[j].task, r[i].id = r[j].id
      PROVE  i = j
  <2>1. CASE i \in 1..Len(q) /\ j \in 1..Len(q)
    BY <1>2, <1>6, <2>1 DEF QueueFits
  <2>2. CASE i = Len(r) /\ j \in 1..Len(q)
    BY <1>1, <1>2, <1>4, <1>6, <2>2
  <2>3. CASE j = Len(r) /\ i \in 1..Len(q)
    BY <1>1, <1>2, <1>4, <1>6, <2>3
  <2>4. QED
    BY <1>3, <2>1, <2>2, <2>3
<1>7. QueueFits(r, what, park_epoch, op', opval')
  BY <1>5, <1>6 DEF QueueFits
<1>8. QueuedAt(r, t, park_epoch[t])
  <2>1. Len(r) \in 1..Len(r)
    BY <1>2
  <2>2. QED
    BY <1>1, <1>2, <2>1 DEF QueuedAt
<1>9. QED
  BY <1>2, <1>7, <1>8 DEF r, e

(* A queue that nobody is in fits any operation.                            *)
LEMMA FitsEmpty ==
  ASSUME NEW what, NEW ep, NEW ops, NEW vals
  PROVE  <<>> \in Seq(Entries) /\ QueueFits(<<>>, what, ep, ops, vals)
  BY DEF QueueFits

(* Members of the buffer, as values come and go at its two ends.            *)
LEMMA AppendMembers ==
  ASSUME NEW q \in Seq(Values), NEW v \in Values, Distinct(q), ~Holds(q, v)
  PROVE  /\ Append(q, v) \in Seq(Values) /\ Len(Append(q, v)) = Len(q) + 1
         /\ Distinct(Append(q, v))
         /\ \A x : Holds(Append(q, v), x) <=> x = v \/ Holds(q, x)
<1> DEFINE r == Append(q, v)
<1>1. /\ r \in Seq(Values) /\ Len(r) = Len(q) + 1 /\ Len(q) \in Nat
      /\ r[Len(q) + 1] = v /\ \A i \in 1..Len(q) : r[i] = q[i]
  OBVIOUS
<1> HIDE DEF r
<1>2. /\ \A i \in 1..Len(r) : i \in 1..Len(q) \/ i = Len(q) + 1
      /\ \A i \in 1..Len(q) : i \in 1..Len(r)
      /\ Len(q) + 1 \in 1..Len(r)
  BY <1>1
<1>3. \A x : Holds(r, x) <=> x = v \/ Holds(q, x)
  BY <1>1, <1>2 DEF Holds
<1>4. Distinct(r)
  BY <1>1, <1>2 DEF Distinct, Holds
<1>5. QED
  BY <1>1, <1>3, <1>4 DEF r

(* A receive takes the head of the buffer.                                  *)
LEMMA TailMembers ==
  ASSUME NEW q \in Seq(Values), Distinct(q), q # <<>>
  PROVE  /\ Tail(q) \in Seq(Values) /\ Len(Tail(q)) = Len(q) - 1
         /\ Distinct(Tail(q)) /\ Head(q) \in Values /\ Holds(q, Head(q))
         /\ \A x : Holds(Tail(q), x) <=> x # Head(q) /\ Holds(q, x)
<1> DEFINE r == Tail(q)
<1>1. /\ r \in Seq(Values) /\ Len(r) = Len(q) - 1 /\ Len(q) \in Nat /\ Len(q) > 0
      /\ \A i \in 1..Len(r) : r[i] = q[i + 1]
  OBVIOUS
<1>2. Head(q) = q[1] /\ 1 \in 1..Len(q) /\ q[1] \in Values
  BY <1>1
<1> HIDE DEF r
<1>3. /\ \A i \in 1..Len(r) : i + 1 \in 1..Len(q) /\ i + 1 # 1
      /\ \A i \in 1..Len(q) : i = 1 \/ (i - 1 \in 1..Len(r) /\ r[i - 1] = q[i])
  BY <1>1
<1>4. Distinct(r)
  BY <1>1, <1>3 DEF Distinct
<1>5. \A x : Holds(r, x) => x # Head(q) /\ Holds(q, x)
  BY <1>1, <1>2, <1>3 DEF Holds, Distinct
<1>6. \A x : x # Head(q) /\ Holds(q, x) => Holds(r, x)
  BY <1>2, <1>3 DEF Holds
<1>7. QED
  BY <1>1, <1>2, <1>4, <1>5, <1>6 DEF r, Holds

(* A value given back goes to the front of the buffer.                      *)
LEMMA FrontMembers ==
  ASSUME NEW q \in Seq(Values), NEW v \in Values, Distinct(q), ~Holds(q, v)
  PROVE  /\ <<v>> \o q \in Seq(Values) /\ Len(<<v>> \o q) = Len(q) + 1
         /\ Distinct(<<v>> \o q)
         /\ \A x : Holds(<<v>> \o q, x) <=> x = v \/ Holds(q, x)
<1> DEFINE r == <<v>> \o q
<1>1. /\ r \in Seq(Values) /\ Len(r) = Len(q) + 1 /\ Len(q) \in Nat
      /\ r[1] = v /\ \A i \in 1..Len(q) : r[i + 1] = q[i]
  OBVIOUS
<1> HIDE DEF r
<1>2. /\ \A i \in 1..Len(r) : i = 1 \/ (i - 1 \in 1..Len(q) /\ r[i] = q[i - 1])
      /\ \A i \in 1..Len(q) : i + 1 \in 1..Len(r)
      /\ 1 \in 1..Len(r)
  BY <1>1
<1>3. \A x : Holds(r, x) => x = v \/ Holds(q, x)
  BY <1>1, <1>2 DEF Holds
<1>a. \A x : x = v \/ Holds(q, x) => Holds(r, x)
  BY <1>1, <1>2 DEF Holds
<1>4. ASSUME NEW i \in 1..Len(r), NEW j \in 1..Len(r), r[i] = r[j] PROVE i = j
  <2>1. CASE i = 1 /\ j = 1
    BY <2>1
  <2>2. CASE i # 1 /\ j # 1
    <3>1. i - 1 = j - 1
      BY <1>2, <1>4, <2>2 DEF Distinct
    <3>2. QED
      BY <3>1
  <2>3. CASE i = 1 /\ j # 1
    BY <1>1, <1>2, <1>4, <2>3 DEF Holds
  <2>4. CASE i # 1 /\ j = 1
    BY <1>1, <1>2, <1>4, <2>4 DEF Holds
  <2>5. QED
    BY <2>1, <2>2, <2>3, <2>4
<1>5. QED
  BY <1>1, <1>3, <1>a, <1>4 DEF r, Distinct

(* A live entry is that of a parked task in the queue's operation.          *)
LEMMA LiveEntry ==
  ASSUME ChanInv, NEW q \in Seq(Entries), NEW what, what # "none",
         QueueFits(q, what, park_epoch, op, opval), NEW i \in 1..Len(q), EntryLive(q[i])
  PROVE  /\ ~q[i].remote /\ q[i].task \in LocalTasks /\ q[i].task \in Tasks
         /\ parked_on_channel[q[i].task] /\ q[i].id = park_epoch[q[i].task]
         /\ op[q[i].task] = what /\ opval[q[i].task] = q[i].val
         /\ ~cancel_requested[q[i].task] /\ wake[q[i].task].kind = "none"
<1>1. EntryFits(q[i], what, park_epoch, op, opval)
  BY DEF QueueFits
<1>2. q[i].task \in Tasks /\ TaskOK(q[i].task)
  BY <1>1 DEF EntryFits, Tasks, ChanInv
<1>3. QED
  BY <1>1, <1>2 DEF EntryLive, channel_waiter_live, EntryFits, TaskOK

(* The current entry of a parked task is live.                              *)
LEMMA EntryIsLive ==
  ASSUME ChanInv, NEW e, NEW t \in Tasks, e.task = t, e.id = park_epoch[t], parked_on_channel[t]
  PROVE  EntryLive(e)
  BY DEF ChanInv, TaskOK, EntryLive, channel_waiter_live

(* A queue has a live entry exactly when somebody waits in its operation.   *)
LEMMA LiveIffWaits ==
  ASSUME ChanInv
  PROVE  /\ AnyLive(recv_waiters) <=> Waits("recv")
         /\ AnyLive(send_waiters) <=> Waits("send")
<1>0. recv_waiters \in Seq(Entries) /\ send_waiters \in Seq(Entries) /\ QueuesOK
  BY DEF ChanInv, TypeOK
<1>1. ASSUME AnyLive(recv_waiters) PROVE Waits("recv")
  <2>1. PICK i \in 1..Len(recv_waiters) : EntryLive(recv_waiters[i])
    BY <1>1 DEF AnyLive, LiveIn
  <2>2. QED
    BY <1>0, <2>1, LiveEntry DEF QueuesOK, Waits
<1>2. ASSUME AnyLive(send_waiters) PROVE Waits("send")
  <2>1. PICK i \in 1..Len(send_waiters) : EntryLive(send_waiters[i])
    BY <1>2 DEF AnyLive, LiveIn
  <2>2. QED
    BY <1>0, <2>1, LiveEntry DEF QueuesOK, Waits
<1>3. ASSUME Waits("recv") PROVE AnyLive(recv_waiters)
  <2>1. PICK t \in Tasks : parked_on_channel[t] /\ op[t] = "recv"
    BY <1>3 DEF Waits
  <2>2. PICK i \in 1..Len(recv_waiters) :
             recv_waiters[i].task = t /\ recv_waiters[i].id = park_epoch[t]
    BY <2>1 DEF ChanInv, ParkOK, QueuedAt
  <2>3. QED
    BY <2>1, <2>2, EntryIsLive DEF AnyLive, LiveIn
<1>4. ASSUME Waits("send") PROVE AnyLive(send_waiters)
  <2>1. PICK t \in Tasks : parked_on_channel[t] /\ op[t] = "send"
    BY <1>4 DEF Waits
  <2>2. PICK i \in 1..Len(send_waiters) :
             send_waiters[i].task = t /\ send_waiters[i].id = park_epoch[t]
    BY <2>1 DEF ChanInv, ParkOK, QueuedAt
  <2>3. QED
    BY <2>1, <2>2, EntryIsLive DEF AnyLive, LiveIn
<1>5. QED
  BY <1>1, <1>2, <1>3, <1>4

(* Popping the first live entry: its task is parked in the operation, and   *)
(* every other parked task keeps its entry.                                 *)
LEMMA PopQueue ==
  ASSUME ChanInv, NEW q \in Seq(Entries), NEW what, what # "none",
         QueueFits(q, what, park_epoch, op, opval), AnyLive(q)
  PROVE  LET u == PopLive(q).task IN
         /\ u \in LocalTasks /\ u \in Tasks /\ ~PopLive(q).remote
         /\ parked_on_channel[u] /\ op[u] = what /\ opval[u] = PopLive(q).val
         /\ ~cancel_requested[u] /\ wake[u].kind = "none"
         /\ AfterPop(q) \in Seq(Entries)
         /\ QueueFits(AfterPop(q), what, park_epoch, op, opval)
         /\ \A t \in Tasks : t # u /\ parked_on_channel[t] /\ QueuedAt(q, t, park_epoch[t])
              => QueuedAt(AfterPop(q), t, park_epoch[t])
<1>1. PICK m \in 1..Len(q) :
           /\ PopLive(q) = q[m] /\ EntryLive(q[m])
           /\ \A j \in 1..Len(q) : j < m => ~EntryLive(q[j])
           /\ AfterPop(q) \in Seq(Entries)
           /\ Len(AfterPop(q)) = Len(q) - m
           /\ \A i \in 1..(Len(q) - m) : AfterPop(q)[i] = q[i + m]
  BY PopFacts
<1>2. /\ ~q[m].remote /\ q[m].task \in LocalTasks /\ q[m].task \in Tasks
      /\ parked_on_channel[q[m].task] /\ q[m].id = park_epoch[q[m].task]
      /\ op[q[m].task] = what /\ opval[q[m].task] = q[m].val
      /\ ~cancel_requested[q[m].task] /\ wake[q[m].task].kind = "none"
  BY <1>1, LiveEntry
<1>3. QueueFits(AfterPop(q), what, park_epoch, op, opval)
  <2>1. park_epoch \in [Tasks -> Nat] /\ m \in 0..Len(q)
    BY DEF ChanInv, TypeOK
  <2>2. QED
    BY <1>1, <2>1, FitsKept
<1>4. ASSUME NEW t \in Tasks, t # q[m].task, parked_on_channel[t],
             QueuedAt(q, t, park_epoch[t])
      PROVE  QueuedAt(AfterPop(q), t, park_epoch[t])
  <2>1. PICK i \in 1..Len(q) : q[i].task = t /\ q[i].id = park_epoch[t]
    BY <1>4 DEF QueuedAt
  <2>2. EntryLive(q[i])
    BY <1>4, <2>1, EntryIsLive
  <2>3. i > m
    BY <1>1, <1>4, <2>1, <2>2
  <2>4. i - m \in 1..Len(AfterPop(q)) /\ AfterPop(q)[i - m] = q[i]
    BY <1>1, <2>3
  <2>5. QED
    BY <2>1, <2>4 DEF QueuedAt
<1>5. QED
  BY <1>1, <1>2, <1>3, <1>4

-----------------------------------------------------------------------------
(* What the parts the operations share change.                              *)

(* Slot t is resumed: its epoch and operation, and the fate of a value that *)
(* was still waiting.                                                       *)
Resumed(t) ==
  /\ t \in Tasks /\ t \notin RemoteTasks /\ ~parked_on_channel[t]
  /\ park_epoch' \in [Tasks -> Nat]
  /\ op' \in [Tasks -> {"none", "send", "recv", "other"}]
  /\ opval' \in [Tasks -> Values \cup {NoVal}]
  /\ fate' \in [Values -> {"new", "parked", "accepted", "refused", "cancelled"}]
  /\ op'[t] = "none" /\ opval'[t] = NoVal
  /\ \A u \in Tasks : u # t =>
       op'[u] = op[u] /\ opval'[u] = opval[u] /\ park_epoch'[u] = park_epoch[u]
  /\ \A v \in Values : fate'[v] = "accepted" <=> fate[v] = "accepted"
  /\ \A u \in Tasks : u # t /\ op[u] = "send" => fate'[opval[u]] = fate[opval[u]]
  /\ \A q \in Seq(Entries) : \A what :
       QueueFits(q, what, park_epoch, op, opval)
         => QueueFits(q, what, park_epoch', op', opval')

(* Task u alone leaves its park.                                       *)
Unparked(u) ==
  /\ u \in Tasks /\ parked_on_channel[u] /\ ~cancel_requested[u] /\ wake[u].kind = "none"
  /\ parked_on_channel' \in [Tasks -> BOOLEAN]
  /\ \A x \in Tasks : parked_on_channel'[x] <=> x # u /\ parked_on_channel[x]

(* The first live receiver, u, is given v; w is the wakes before.           *)
Delivered(u, v, w) ==
  /\ Unparked(u) /\ op[u] = "recv"
  /\ wake' \in [Tasks -> Wakes] /\ wake'[u].kind = "Recv" /\ wake'[u].val = v
  /\ \A x \in Tasks : x # u => wake'[x] = w[x]
  /\ recv_waiters' \in Seq(Entries)
  /\ QueueFits(recv_waiters', "recv", park_epoch, op, opval)
  /\ \A x \in Tasks : x # u /\ parked_on_channel[x] /\ QueuedAt(recv_waiters, x, park_epoch[x])
       => QueuedAt(recv_waiters', x, park_epoch[x])
  /\ buffer' = buffer /\ buffer = <<>> /\ ~Waits("send")

(* The value of the first live sender, u, is accepted.                      *)
Promoted(u) ==
  /\ Unparked(u) /\ op[u] = "send"
  /\ opval[u] = PopLive(send_waiters).val /\ opval[u] \in Values
  /\ wake' \in [Tasks -> Wakes] /\ wake'[u].kind = "SendOk"
  /\ \A x \in Tasks : x # u => wake'[x] = wake[x]
  /\ fate' \in [Values -> {"new", "parked", "accepted", "refused", "cancelled"}]
  /\ fate[opval[u]] = "parked" /\ fate'[opval[u]] = "accepted"
  /\ \A x \in Values : x # opval[u] => fate'[x] = fate[x]
  /\ send_waiters' \in Seq(Entries)
  /\ QueueFits(send_waiters', "send", park_epoch, op, opval)
  /\ \A x \in Tasks : x # u /\ parked_on_channel[x] /\ QueuedAt(send_waiters, x, park_epoch[x])
       => QueuedAt(send_waiters', x, park_epoch[x])
  /\ Len(buffer) >= cap /\ ~Waits("recv")

(* The senders and receivers parked here are woken as closed.               *)
ClosedHere ==
  /\ closed' = TRUE /\ recv_waiters' = <<>> /\ send_waiters' = <<>> /\ buffer' = buffer
  /\ parked_on_channel' \in [Tasks -> BOOLEAN] /\ wake' \in [Tasks -> Wakes]
  /\ \A x \in Tasks : parked_on_channel'[x] <=> parked_on_channel[x] /\ op[x] = "other"
  /\ \A x \in Tasks : IF parked_on_channel[x] /\ op[x] # "other"
                      THEN wake'[x].kind = "Closed" ELSE wake'[x] = wake[x]

-----------------------------------------------------------------------------
(* The invariant, one lemma for each operation.                             *)

(* A channel that was just made satisfies the invariant.                    *)
LEMMA ChanInit == Init => ChanInv
<1> SUFFICES ASSUME Init PROVE ChanInv
  OBVIOUS
<1>1. TypeOK /\ refs = 0
  <2>1. NoWake \in Wakes
    BY DEF NoWake, Wake
  <2>2. wake \in [Tasks -> Wakes]
    BY <2>1 DEF Init
  <2>3. /\ buffer \in Seq(Values) /\ recv_waiters \in Seq(Entries)
        /\ send_waiters \in Seq(Entries)
    BY DEF Init
  <2>4. /\ cap \in Caps /\ closed \in BOOLEAN /\ refs \in Nat /\ refs = 0
        /\ parked_on_channel \in [Tasks -> BOOLEAN]
        /\ cancel_requested \in [Tasks -> BOOLEAN]
        /\ park_epoch \in [Tasks -> Nat]
    BY DEF Init
  <2>5. /\ op \in [Tasks -> {"none", "send", "recv", "other"}]
        /\ opval \in [Tasks -> Values \cup {NoVal}]
        /\ fate \in [Values -> {"new", "parked", "accepted", "refused", "cancelled"}]
        /\ received \in [Values -> Nat]
    BY DEF Init
  <2>6. QED
    BY <2>2, <2>3, <2>4, <2>5 DEF TypeOK
<1>2. QueuesOK
  BY FitsEmpty DEF Init, QueuesOK
<1>3. \A t \in Tasks : TaskOK(t) /\ ParkOK(t)
  BY DEF Init, TaskOK, ParkOK, NoWake, Wake
<1>4. MeetOK /\ SendOK
  BY DEF Init, MeetOK, Waits, SendOK
<1>5. OnePlace
  BY DEF Init, OnePlace, InBuffer, Holds, Distinct, InWake, NoWake, Wake
<1>6. QED
  BY <1>1, <1>2, <1>3, <1>4, <1>5 DEF ChanInv

(* A closed channel refuses the send: only the value's fate changes.        *)
LEMMA RefusedKeeps ==
  ASSUME ChanInv, NEW t \in LocalTasks, NEW v \in Values, channel_send(t, v), SendRefused(v)
  PROVE  ChanInv'
<1> USE DEF channel_send, SendRefused, chanVars, wakeVars, coroVars
<1>1. TypeOK' /\ refs' = 0
  BY DEF ChanInv, TypeOK
<1>2. QueuesOK'
  BY DEF ChanInv, QueuesOK
<1>3. \A u \in Tasks : TaskOK(u)' /\ ParkOK(u)'
  BY DEF ChanInv, TaskOK, ParkOK
<1>4. MeetOK'
  BY DEF ChanInv, MeetOK, Waits
<1>5. SendOK'
  <2>1. \A u \in Tasks : op[u] = "send" => opval[u] # v
    BY DEF ChanInv, SendOK
  <2>2. \A x \in Values : x # v => fate'[x] = fate[x]
    BY DEF ChanInv, TypeOK
  <2>3. QED
    BY <2>1, <2>2 DEF ChanInv, SendOK, TaskOK
<1>6. OnePlace'
  <2>1. \A x \in Values : fate'[x] = "accepted" <=> fate[x] = "accepted"
    BY DEF ChanInv, TypeOK
  <2>2. QED
    BY <2>1 DEF ChanInv, OnePlace, InBuffer, InWake
<1>7. QED
  BY <1>1, <1>2, <1>3, <1>4, <1>5, <1>6 DEF ChanInv

(* A park elsewhere and its wake leave the channel alone.                   *)
LEMMA ParkElsewhereKeeps ==
  ASSUME ChanInv, NEW t \in LocalTasks, ParkElsewhere(t)
  PROVE  ChanInv'
<1> USE DEF ParkElsewhere, Idle, ParkTask, chanVars
<1>0. t \in Tasks /\ t \notin RemoteTasks
  BY ChannelAssumption DEF Tasks
<1>1. TypeOK' /\ refs' = 0
  BY <1>0 DEF ChanInv, TypeOK
<1>a. \A u \in Tasks : op'[u] = (IF u = t THEN "other" ELSE op[u])
        /\ opval'[u] = (IF u = t THEN NoVal ELSE opval[u])
        /\ (parked_on_channel'[u] <=> u = t \/ parked_on_channel[u])
  BY <1>0 DEF ChanInv, TypeOK
<1>2. QueuesOK'
  <2>0. ASSUME NEW q \in Seq(Entries), NEW what, what # "none",
               QueueFits(q, what, park_epoch, op, opval)
        PROVE  QueueFits(q, what, park_epoch, op', opval')
    <3>1. \A u \in LocalTasks : \/ op'[u] = op[u] /\ opval'[u] = opval[u]
                                \/ op[u] # what
      BY <1>a, <2>0 DEF Tasks
    <3>2. park_epoch \in [Tasks -> Nat]
      BY DEF ChanInv, TypeOK
    <3> HIDE DEF ParkElsewhere
    <3>3. QED
      BY <2>0, <3>1, <3>2, FitsSame
  <2>1. QueueFits(recv_waiters', "recv", park_epoch', op', opval')
    BY <2>0 DEF ChanInv, QueuesOK, TypeOK
  <2>2. QueueFits(send_waiters', "send", park_epoch', op', opval')
    BY <2>0 DEF ChanInv, QueuesOK, TypeOK
  <2>3. QED
    BY <2>1, <2>2 DEF QueuesOK
<1>3. \A u \in Tasks : TaskOK(u)' /\ ParkOK(u)'
  BY <1>0, <1>a DEF ChanInv, TaskOK, ParkOK
<1>4. MeetOK'
  BY <1>0, <1>a DEF ChanInv, MeetOK, Waits
<1>5. SendOK'
  BY <1>a DEF ChanInv, SendOK
<1>6. OnePlace'
  BY DEF ChanInv, OnePlace, InBuffer, InWake
<1>7. QED
  BY <1>1, <1>2, <1>3, <1>4, <1>5, <1>6 DEF ChanInv

(* The wake answers the park elsewhere, not one of this channel.            *)
LEMMA WakeElsewhereKeeps ==
  ASSUME ChanInv, NEW t \in LocalTasks, WakeElsewhere(t)
  PROVE  ChanInv'
<1> USE DEF WakeElsewhere, wake_channel_task, chanVars, coroVars
<1>0. t \in Tasks /\ t \notin RemoteTasks
  BY ChannelAssumption DEF Tasks
<1>1. TypeOK' /\ refs' = 0
  BY <1>0 DEF ChanInv, TypeOK, Wake
<1>a. \A u \in Tasks : wake'[u] = (IF u = t THEN Wake("Other", NoVal) ELSE wake[u])
        /\ (parked_on_channel'[u] <=> u # t /\ parked_on_channel[u])
  BY <1>0 DEF ChanInv, TypeOK
<1>b. Wake("Other", NoVal).kind = "Other" /\ wake[t].kind = "none" /\ parked_on_channel[t]
  BY <1>0 DEF Wake, channel_waiter_live, ChanInv, TaskOK
<1>2. QueuesOK'
  BY DEF ChanInv, QueuesOK
<1>3. \A u \in Tasks : TaskOK(u)' /\ ParkOK(u)'
  BY <1>0, <1>a, <1>b DEF ChanInv, TaskOK, ParkOK
<1>4. MeetOK'
  BY <1>0, <1>a DEF ChanInv, MeetOK, Waits
<1>5. SendOK'
  BY <1>a, <1>b DEF ChanInv, SendOK
<1>6. OnePlace'
  <2>1. \A u \in Tasks : (wake'[u].kind = "Recv" <=> wake[u].kind = "Recv")
          /\ (wake[u].kind = "Recv" => wake'[u] = wake[u])
    BY <1>a, <1>b
  <2>2. QED
    BY <2>1 DEF ChanInv, OnePlace, InBuffer, InWake
<1>7. QED
  BY <1>1, <1>2, <1>3, <1>4, <1>5, <1>6 DEF ChanInv

(* A cancelled task leaves its park; its entry becomes a ghost.             *)
LEMMA RequestCancelKeeps ==
  ASSUME ChanInv, NEW t \in LocalTasks, request_cancel(t)
  PROVE  ChanInv'
<1> USE DEF request_cancel, chanVars, coroVars
<1>0. t \in Tasks /\ t \notin RemoteTasks
  BY ChannelAssumption DEF Tasks
<1>1. TypeOK' /\ refs' = 0
  BY <1>0 DEF ChanInv, TypeOK
<1>a. \A u \in Tasks : (cancel_requested'[u] <=> u = t \/ cancel_requested[u])
        /\ (parked_on_channel'[u] <=> u # t /\ parked_on_channel[u])
  BY <1>0 DEF ChanInv, TypeOK
<1>2. QueuesOK'
  BY DEF ChanInv, QueuesOK
<1>3. \A u \in Tasks : TaskOK(u)' /\ ParkOK(u)'
  BY <1>0, <1>a DEF ChanInv, TaskOK, ParkOK
<1>4. MeetOK'
  BY <1>0, <1>a DEF ChanInv, MeetOK, Waits
<1>5. SendOK'
  BY DEF ChanInv, SendOK
<1>6. OnePlace'
  BY DEF ChanInv, OnePlace, InBuffer, InWake
<1>7. QED
  BY <1>1, <1>2, <1>3, <1>4, <1>5, <1>6 DEF ChanInv

(* What resuming a slot changes: its epoch and operation, and the fate of a *)
(* value that was still waiting.                                            *)
LEMMA ResumeFacts ==
  ASSUME ChanInv, NEW t \in LocalTasks, Resumes(t), NEW as \in {"refused", "cancelled"},
         SendEnds(t, as)
  PROVE  Resumed(t)
<1> USE DEF Resumed
<1> USE DEF Resumes, SendEnds
<1>1. t \in Tasks /\ t \notin RemoteTasks /\ ~parked_on_channel[t]
  BY ChannelAssumption DEF Tasks
<1>2. /\ park_epoch' \in [Tasks -> Nat]
      /\ op' \in [Tasks -> {"none", "send", "recv", "other"}]
      /\ opval' \in [Tasks -> Values \cup {NoVal}]
      /\ fate' \in [Values -> {"new", "parked", "accepted", "refused", "cancelled"}]
  <2>1. park_epoch' \in [Tasks -> Nat]
    BY <1>1 DEF ChanInv, TypeOK
  <2>2. op' \in [Tasks -> {"none", "send", "recv", "other"}]
    BY <1>1 DEF ChanInv, TypeOK
  <2>3. opval' \in [Tasks -> Values \cup {NoVal}]
    BY <1>1 DEF ChanInv, TypeOK
  <2>4. fate' \in [Values -> {"new", "parked", "accepted", "refused", "cancelled"}]
    BY DEF ChanInv, TypeOK
  <2>5. QED
    BY <2>1, <2>2, <2>3, <2>4
<1>3. /\ op'[t] = "none" /\ opval'[t] = NoVal /\ park_epoch'[t] = park_epoch[t] + 1
      /\ \A u \in Tasks : u # t =>
              op'[u] = op[u] /\ opval'[u] = opval[u] /\ park_epoch'[u] = park_epoch[u]
  BY <1>1 DEF ChanInv, TypeOK
<1>4. \A v \in Values : fate'[v] = "accepted" <=> fate[v] = "accepted"
  OBVIOUS
<1>5. \A u \in Tasks : u # t /\ op[u] = "send" => opval[u] \in Values /\ opval[u] # opval[t]
  BY <1>1, ChannelAssumption DEF ChanInv, TaskOK, SendOK
<1>6. \A u \in Tasks : u # t /\ op[u] = "send" => fate'[opval[u]] = fate[opval[u]]
  BY <1>5
<1>7. ASSUME NEW q \in Seq(Entries), NEW what, QueueFits(q, what, park_epoch, op, opval)
      PROVE  QueueFits(q, what, park_epoch', op', opval')
  <2>1. park_epoch \in [Tasks -> Nat] /\ park_epoch' \in [Tasks -> Nat]
    BY <1>2 DEF ChanInv, TypeOK
  <2>2. \A u \in LocalTasks :
           \/ park_epoch'[u] = park_epoch[u] /\ op'[u] = op[u] /\ opval'[u] = opval[u]
           \/ park_epoch'[u] > park_epoch[u]
    BY <1>1, <1>3, <2>1 DEF Tasks
  <2> HIDE DEF Resumes, SendEnds
  <2>3. QED
    BY <1>7, <2>1, <2>2, FitsSame
<1>8. QED
  BY <1>1, <1>2, <1>3, <1>4, <1>6, <1>7

(* The sends a resume leaves suspended keep their outcome.                  *)
LEMMA ResumeSends ==
  ASSUME ChanInv, NEW t \in LocalTasks, Resumes(t), NEW as \in {"refused", "cancelled"},
         SendEnds(t, as), \A u \in Tasks : u # t /\ op[u] = "send" => wake'[u] = wake[u]
  PROVE  SendOK'
<1>0. Resumed(t)
  BY ResumeFacts
<1> USE DEF Resumed
<1>1. \A u \in Tasks : op'[u] = "send" => u # t /\ op[u] = "send"
  BY <1>0
<1>2. ASSUME NEW u \in Tasks, op'[u] = "send"
      PROVE  fate'[opval'[u]] = IF wake'[u].kind = "SendOk" THEN "accepted" ELSE "parked"
  <2>1. opval'[u] = opval[u] /\ wake'[u] = wake[u] /\ fate'[opval[u]] = fate[opval[u]]
    BY <1>0, <1>1, <1>2
  <2>2. fate[opval[u]] = IF wake[u].kind = "SendOk" THEN "accepted" ELSE "parked"
    BY <1>1, <1>2 DEF ChanInv, SendOK
  <2>3. QED
    BY <2>1, <2>2
<1>3. \A u, w \in Tasks : op'[u] = "send" /\ op'[w] = "send" /\ opval'[u] = opval'[w] => u = w
  BY <1>0, <1>1 DEF ChanInv, SendOK
<1>4. QED
  BY <1>2, <1>3 DEF SendOK

(* What clearing a slot's wake changes.                                     *)
LEMMA WokenFacts ==
  ASSUME ChanInv, NEW t \in Tasks
  PROVE  /\ Woken(t) \in [Tasks -> Wakes]
         /\ Woken(t)[t].kind = "none"
         /\ \A u \in Tasks : u # t => Woken(t)[u] = wake[u]
<1>1. NoWake.kind = "none" /\ NoWake \in Wakes
  BY DEF NoWake, Wake
<1>2. QED
  BY <1>1 DEF Woken, ChanInv, TypeOK

(* A task resumes with its result: the value in its wake is received.       *)
LEMMA ParkEndsKeeps ==
  ASSUME ChanInv, NEW t \in LocalTasks, ParkEnds(t)
  PROVE  ChanInv'
<1>0. Resumed(t)
  BY ResumeFacts DEF ParkEnds
<1> USE DEF Resumed
<1>a. /\ wake' \in [Tasks -> Wakes]
      /\ wake'[t].kind = "none"
      /\ \A u \in Tasks : u # t => wake'[u] = wake[u]
  BY <1>0, WokenFacts DEF ParkEnds
<1>b. /\ UNCHANGED <<chanVars, cap, refs, outbound, parked_on_channel, cancel_requested>>
      /\ ~cancel_requested[t]
  BY DEF ParkEnds
<1>c. /\ received' \in [Values -> Nat]
      /\ \A v \in Values : received'[v] =
           IF wake[t].kind = "Recv" /\ v = wake[t].val THEN received[v] + 1 ELSE received[v]
  BY DEF ParkEnds, ChanInv, TypeOK
<1>1. TypeOK' /\ refs' = 0
  BY <1>0, <1>a, <1>b, <1>c DEF ChanInv, TypeOK, chanVars
<1>2. QueuesOK'
  BY <1>0, <1>b DEF ChanInv, QueuesOK, TypeOK, chanVars
<1>3. \A u \in Tasks : TaskOK(u)' /\ ParkOK(u)'
  BY <1>0, <1>a, <1>b DEF ChanInv, TaskOK, ParkOK, chanVars
<1>4. MeetOK'
  BY <1>0, <1>b DEF ChanInv, MeetOK, Waits, chanVars
<1>5. SendOK'
  BY <1>a, ResumeSends DEF ParkEnds
<1>6. OnePlace'
  <2>1. \A u \in Tasks : wake'[u].kind = "Recv" <=> u # t /\ wake[u].kind = "Recv"
    BY <1>a
  <2>2. ASSUME NEW v \in Values
        PROVE  /\ InBuffer(v)' <=> InBuffer(v)
               /\ InWake(v)' <=> InWake(v) /\ ~(wake[t].kind = "Recv" /\ wake[t].val = v)
    <3>1. InBuffer(v)' <=> InBuffer(v)
      BY <1>b DEF InBuffer, chanVars
    <3>2. InWake(v)' => InWake(v) /\ ~(wake[t].kind = "Recv" /\ wake[t].val = v)
      BY <2>1, <1>0, <1>a DEF InWake, ChanInv, OnePlace
    <3>3. InWake(v) /\ ~(wake[t].kind = "Recv" /\ wake[t].val = v) => InWake(v)'
      BY <2>1, <1>a DEF InWake
    <3>4. QED
      BY <3>1, <3>2, <3>3
  <2>3. \A u, w \in Tasks : wake'[u].kind = "Recv" /\ wake'[w].kind = "Recv"
                              /\ wake'[u].val = wake'[w].val => u = w
    BY <2>1, <1>a DEF ChanInv, OnePlace
  <2>4. Distinct(buffer')
    BY <1>b DEF ChanInv, OnePlace, chanVars
  <2>5. ASSUME NEW v \in Values
        PROVE  /\ InBuffer(v)' => ~InWake(v)' /\ received'[v] = 0
               /\ InWake(v)' => received'[v] = 0
               /\ received'[v] \in {0, 1}
               /\ fate'[v] = "accepted" <=> InBuffer(v)' \/ InWake(v)' \/ received'[v] = 1
    <3>1. wake[t].kind = "Recv" /\ wake[t].val = v => InWake(v)
      BY <1>0 DEF InWake
    <3>2. /\ InBuffer(v) => ~InWake(v) /\ received[v] = 0
          /\ InWake(v) => received[v] = 0
          /\ received[v] \in {0, 1}
          /\ fate'[v] = "accepted" <=> InBuffer(v) \/ InWake(v) \/ received[v] = 1
      BY <1>0 DEF ChanInv, OnePlace
    <3>3. CASE wake[t].kind = "Recv" /\ wake[t].val = v
      BY <1>c, <2>2, <3>1, <3>2, <3>3
    <3>4. CASE ~(wake[t].kind = "Recv" /\ wake[t].val = v)
      BY <1>c, <2>2, <3>2, <3>4
    <3>5. QED
      BY <3>3, <3>4
  <2>6. QED
    BY <2>3, <2>4, <2>5 DEF OnePlace
<1>7. QED
  BY <1>1, <1>2, <1>3, <1>4, <1>5, <1>6 DEF ChanInv

(* A receiver that was given v: it leaves its park with v in its wake.      *)
LEMMA GivenFacts ==
  ASSUME ChanInv, NEW u \in Tasks, NEW v \in Values,
         NEW w \in [Tasks -> Wakes],
         parked_on_channel' = [parked_on_channel EXCEPT ![u] = FALSE],
         wake' = [w EXCEPT ![u] = Wake("Recv", v)]
  PROVE  /\ parked_on_channel' \in [Tasks -> BOOLEAN]
         /\ wake' \in [Tasks -> Wakes]
         /\ \A x \in Tasks : parked_on_channel'[x] <=> x # u /\ parked_on_channel[x]
         /\ wake'[u].kind = "Recv" /\ wake'[u].val = v
         /\ \A x \in Tasks : x # u => wake'[x] = w[x]
<1>1. Wake("Recv", v) \in Wakes
      /\ Wake("Recv", v).kind = "Recv" /\ Wake("Recv", v).val = v
  BY DEF Wake
<1>2. /\ parked_on_channel' \in [Tasks -> BOOLEAN]
      /\ \A x \in Tasks : parked_on_channel'[x] <=> x # u /\ parked_on_channel[x]
  BY DEF ChanInv, TypeOK
<1>3. QED
  BY <1>1, <1>2

(* What handing a value to the first live receiver changes.                 *)
LEMMA DeliverFacts ==
  ASSUME ChanInv, NEW v \in Values, NEW out,
         NEW w \in [Tasks -> Wakes],
         deliver_to_recv(v, w, out)
  PROVE  \E u \in LocalTasks : Delivered(u, v, w)
<1> USE DEF Delivered, Unparked
<1>0. /\ recv_waiters \in Seq(Entries) /\ AnyLive(recv_waiters)
      /\ QueueFits(recv_waiters, "recv", park_epoch, op, opval)
      /\ recv_waiters' = AfterPop(recv_waiters)
  BY DEF ChanInv, TypeOK, QueuesOK, deliver_to_recv
<1> DEFINE u == PopLive(recv_waiters).task
<1>1. /\ u \in LocalTasks /\ u \in Tasks /\ ~PopLive(recv_waiters).remote
      /\ parked_on_channel[u] /\ op[u] = "recv"
      /\ ~cancel_requested[u] /\ wake[u].kind = "none"
      /\ recv_waiters' \in Seq(Entries)
      /\ QueueFits(recv_waiters', "recv", park_epoch, op, opval)
      /\ \A x \in Tasks : x # u /\ parked_on_channel[x]
                            /\ QueuedAt(recv_waiters, x, park_epoch[x])
           => QueuedAt(recv_waiters', x, park_epoch[x])
  BY <1>0, PopQueue
<1>2. /\ parked_on_channel' = [parked_on_channel EXCEPT ![u] = FALSE]
      /\ wake' = [w EXCEPT ![u] = Wake("Recv", v)] /\ buffer' = buffer
  BY <1>1 DEF deliver_to_recv
<1>3. buffer = <<>> /\ ~Waits("send")
  BY <1>1 DEF ChanInv, MeetOK, Waits
<1> HIDE DEF u
<1>4. /\ parked_on_channel' \in [Tasks -> BOOLEAN]
      /\ wake' \in [Tasks -> Wakes]
      /\ \A x \in Tasks : parked_on_channel'[x] <=> x # u /\ parked_on_channel[x]
      /\ wake'[u].kind = "Recv" /\ wake'[u].val = v
      /\ \A x \in Tasks : x # u => wake'[x] = w[x]
  BY <1>1, <1>2, GivenFacts
<1>5. QED
  BY <1>1, <1>2, <1>3, <1>4

(* A value that is new, or waits in a parked sender, is nowhere to receive. *)
LEMMA NotPlaced ==
  ASSUME ChanInv, NEW v \in Values, fate[v] # "accepted"
  PROVE  ~InBuffer(v) /\ ~InWake(v) /\ received[v] = 0
  BY DEF ChanInv, OnePlace

(* A send meets a parked receiver.                                          *)
LEMMA HandOffKeeps ==
  ASSUME ChanInv, NEW t \in LocalTasks, NEW v \in Values, channel_send(t, v), SendHandOff(v)
  PROVE  ChanInv'
<1> USE DEF Delivered, Unparked
<1>0. /\ fate[v] = "new" /\ fate' = [fate EXCEPT ![v] = "accepted"]
      /\ UNCHANGED <<closed, send_waiters, op, opval, cap, refs, cancel_requested, park_epoch,
                     received>>
      /\ deliver_to_recv(v, wake, outbound)
  BY DEF channel_send, SendHandOff, coroVars
<1>1. PICK u \in LocalTasks : Delivered(u, v, wake)
  <2>1. wake \in [Tasks -> Wakes]
    BY DEF ChanInv, TypeOK
  <2>2. QED
    BY <1>0, <2>1, DeliverFacts
<1>2. /\ fate' \in [Values -> {"new", "parked", "accepted", "refused", "cancelled"}]
      /\ fate'[v] = "accepted" /\ \A x \in Values : x # v => fate'[x] = fate[x]
  BY <1>0 DEF ChanInv, TypeOK
<1>3. TypeOK' /\ refs' = 0
  BY <1>0, <1>1, <1>2 DEF ChanInv, TypeOK
<1>4. QueuesOK'
  BY <1>0, <1>1 DEF ChanInv, QueuesOK
<1>5. \A x \in Tasks : TaskOK(x)' /\ ParkOK(x)'
  <2>1. \A x \in Tasks : TaskOK(x)'
    BY <1>0, <1>1 DEF ChanInv, TaskOK
  <2>2. \A x \in Tasks : ParkOK(x)'
    BY <1>0, <1>1 DEF ChanInv, ParkOK
  <2>3. QED
    BY <2>1, <2>2
<1>6. MeetOK'
  BY <1>0, <1>1 DEF ChanInv, MeetOK, Waits
<1>7. SendOK'
  <2>1. \A x \in Tasks : op[x] = "send" =>
          wake'[x] = wake[x] /\ opval[x] \in Values /\ fate'[opval[x]] = fate[opval[x]]
    BY <1>0, <1>1, <1>2 DEF ChanInv, SendOK, TaskOK
  <2>2. QED
    BY <1>0, <2>1 DEF ChanInv, SendOK
<1>8. OnePlace'
  <2>1. ~InBuffer(v) /\ ~InWake(v) /\ received[v] = 0
    BY <1>0, NotPlaced
  <2>2. \A x \in Values : /\ InBuffer(x)' <=> InBuffer(x)
                          /\ InWake(x)' <=> x = v \/ InWake(x)
    <3>1. \A x \in Values : InBuffer(x)' <=> InBuffer(x)
      BY <1>1 DEF InBuffer
    <3>2. \A x \in Values : InWake(x)' => x = v \/ InWake(x)
      BY <1>1 DEF InWake
    <3>3. InWake(v)' /\ \A x \in Values : InWake(x) => InWake(x)'
      BY <1>1 DEF InWake
    <3>4. QED
      BY <3>1, <3>2, <3>3
  <2>3. \A x, y \in Tasks : wake'[x].kind = "Recv" /\ wake'[y].kind = "Recv"
                              /\ wake'[x].val = wake'[y].val => x = y
    BY <1>1, <2>1 DEF ChanInv, OnePlace, InWake
  <2>4. Distinct(buffer')
    BY <1>1 DEF ChanInv, OnePlace
  <2>5. ASSUME NEW x \in Values
        PROVE  /\ InBuffer(x)' => ~InWake(x)' /\ received'[x] = 0
               /\ InWake(x)' => received'[x] = 0
               /\ received'[x] \in {0, 1}
               /\ fate'[x] = "accepted" <=> InBuffer(x)' \/ InWake(x)' \/ received'[x] = 1
    <3>1. /\ InBuffer(x) => ~InWake(x) /\ received[x] = 0
          /\ InWake(x) => received[x] = 0
          /\ received[x] \in {0, 1} /\ received'[x] = received[x]
          /\ fate[x] = "accepted" <=> InBuffer(x) \/ InWake(x) \/ received[x] = 1
      BY <1>0 DEF ChanInv, OnePlace
    <3>2. CASE x = v
      BY <1>2, <2>1, <2>2, <3>1, <3>2
    <3>3. CASE x # v
      BY <1>2, <2>2, <3>1, <3>3
    <3>4. QED
      BY <3>2, <3>3
  <2>6. QED
    BY <2>3, <2>4, <2>5 DEF OnePlace
<1>9. QED
  BY <1>3, <1>4, <1>5, <1>6, <1>7, <1>8 DEF ChanInv

(* A send finds room in the buffer.                                         *)
LEMMA BufferedKeeps ==
  ASSUME ChanInv, NEW t \in LocalTasks, NEW v \in Values, channel_send(t, v), SendBuffered(v)
  PROVE  ChanInv'
<1>0. /\ fate[v] = "new" /\ fate' = [fate EXCEPT ![v] = "accepted"]
      /\ ~AnyLive(recv_waiters) /\ Len(buffer) < cap
      /\ recv_waiters' = <<>> /\ buffer' = Append(buffer, v)
      /\ UNCHANGED <<closed, send_waiters, wake, parked_on_channel, op, opval, cap, refs,
                     cancel_requested, park_epoch, received>>
  BY DEF channel_send, SendBuffered, coroVars, wakeVars
<1>1. ~Waits("recv") /\ ~Waits("send")
  <2>1. ~Waits("recv")
    BY <1>0, LiveIffWaits
  <2>2. cap \in Nat /\ Len(buffer) \in Nat
    BY ChannelAssumption DEF ChanInv, TypeOK
  <2>3. QED
    BY <1>0, <2>1, <2>2 DEF ChanInv, MeetOK
<1>2. /\ fate' \in [Values -> {"new", "parked", "accepted", "refused", "cancelled"}]
      /\ fate'[v] = "accepted" /\ \A x \in Values : x # v => fate'[x] = fate[x]
  BY <1>0 DEF ChanInv, TypeOK
<1>b. ~InBuffer(v) /\ ~InWake(v) /\ received[v] = 0
  BY <1>0, NotPlaced
<1>a. /\ buffer' \in Seq(Values) /\ Distinct(buffer')
      /\ \A x \in Values : InBuffer(x)' <=> x = v \/ InBuffer(x)
  BY <1>0, <1>b, AppendMembers DEF ChanInv, TypeOK, OnePlace, InBuffer
<1>3. TypeOK' /\ refs' = 0
  BY <1>0, <1>a, <1>2, FitsEmpty DEF ChanInv, TypeOK
<1>4. QueuesOK'
  BY <1>0, FitsEmpty DEF ChanInv, QueuesOK
<1>5. \A x \in Tasks : TaskOK(x)' /\ ParkOK(x)'
  BY <1>0, <1>1 DEF ChanInv, TaskOK, ParkOK, Waits
<1>6. MeetOK'
  BY <1>0, <1>1 DEF MeetOK, Waits
<1>7. SendOK'
  <2>1. \A x \in Tasks : op[x] = "send" => opval[x] \in Values /\ fate'[opval[x]] = fate[opval[x]]
    BY <1>0, <1>2 DEF ChanInv, SendOK, TaskOK
  <2>2. QED
    BY <1>0, <2>1 DEF ChanInv, SendOK
<1>8. OnePlace'
  <2>2. \A x \in Values : /\ InBuffer(x)' <=> x = v \/ InBuffer(x)
                          /\ InWake(x)' <=> InWake(x)
    BY <1>0, <1>a DEF InWake
  <2>3. \A x, y \in Tasks : wake'[x].kind = "Recv" /\ wake'[y].kind = "Recv"
                              /\ wake'[x].val = wake'[y].val => x = y
    BY <1>0 DEF ChanInv, OnePlace
  <2>5. ASSUME NEW x \in Values
        PROVE  /\ InBuffer(x)' => ~InWake(x)' /\ received'[x] = 0
               /\ InWake(x)' => received'[x] = 0
               /\ received'[x] \in {0, 1}
               /\ fate'[x] = "accepted" <=> InBuffer(x)' \/ InWake(x)' \/ received'[x] = 1
    <3>1. /\ InBuffer(x) => ~InWake(x) /\ received[x] = 0
          /\ InWake(x) => received[x] = 0
          /\ received[x] \in {0, 1} /\ received'[x] = received[x]
          /\ fate[x] = "accepted" <=> InBuffer(x) \/ InWake(x) \/ received[x] = 1
      BY <1>0 DEF ChanInv, OnePlace
    <3>2. CASE x = v
      BY <1>2, <1>b, <2>2, <3>1, <3>2
    <3>3. CASE x # v
      BY <1>2, <2>2, <3>1, <3>3
    <3>4. QED
      BY <3>2, <3>3
  <2>6. QED
    BY <1>a, <2>3, <2>5 DEF OnePlace
<1>9. QED
  BY <1>3, <1>4, <1>5, <1>6, <1>7, <1>8 DEF ChanInv

(* A send finds neither a receiver nor room, and parks.                     *)
LEMMA SendParkedKeeps ==
  ASSUME ChanInv, NEW t \in LocalTasks, NEW v \in Values, channel_send(t, v), ~closed,
         SendParked(t, v)
  PROVE  ChanInv'
<1>0. /\ t \in Tasks /\ t \notin RemoteTasks
      /\ fate[v] = "new" /\ fate' = [fate EXCEPT ![v] = "parked"] /\ op[t] = "none"
      /\ ~AnyLive(recv_waiters) /\ Len(buffer) >= cap
      /\ recv_waiters' = <<>>
      /\ send_waiters' = Append(send_waiters, LocalEntry(t, park_epoch[t], v))
      /\ parked_on_channel' = [parked_on_channel EXCEPT ![t] = TRUE]
      /\ op' = [op EXCEPT ![t] = "send"] /\ opval' = [opval EXCEPT ![t] = v]
      /\ UNCHANGED <<closed, buffer, wake, cap, refs, cancel_requested, park_epoch, received>>
  BY ChannelAssumption DEF Tasks, channel_send, SendParked, ParkTask, Idle
<1>1. ~Waits("recv")
  BY <1>0, LiveIffWaits
<1>2. /\ fate' \in [Values -> {"new", "parked", "accepted", "refused", "cancelled"}]
      /\ fate'[v] = "parked" /\ \A x \in Values : x # v => fate'[x] = fate[x]
  BY <1>0 DEF ChanInv, TypeOK
<1>a. /\ parked_on_channel' \in [Tasks -> BOOLEAN]
      /\ \A x \in Tasks : parked_on_channel'[x] <=> x = t \/ parked_on_channel[x]
  BY <1>0 DEF ChanInv, TypeOK
<1>b. /\ op' \in [Tasks -> {"none", "send", "recv", "other"}]
      /\ opval' \in [Tasks -> Values \cup {NoVal}]
      /\ op'[t] = "send" /\ opval'[t] = v
      /\ \A x \in Tasks : x # t => op'[x] = op[x] /\ opval'[x] = opval[x]
  BY <1>0 DEF ChanInv, TypeOK
<1>c. /\ send_waiters' \in Seq(Entries)
      /\ QueueFits(send_waiters', "send", park_epoch, op', opval')
      /\ QueuedAt(send_waiters', t, park_epoch[t])
  <2>1. /\ send_waiters \in Seq(Entries) /\ QueueFits(send_waiters, "send", park_epoch, op, opval)
        /\ park_epoch \in [Tasks -> Nat] /\ op[t] # "send" /\ v \in Values \cup {NoVal}
    BY <1>0 DEF ChanInv, TypeOK, QueuesOK
  <2>2. \A u \in LocalTasks : u # t => op'[u] = op[u] /\ opval'[u] = opval[u]
    BY <1>b DEF Tasks
  <2>3. /\ Append(send_waiters, LocalEntry(t, park_epoch[t], v)) \in Seq(Entries)
        /\ QueueFits(Append(send_waiters, LocalEntry(t, park_epoch[t], v)), "send", park_epoch,
                     op', opval')
        /\ QueuedAt(Append(send_waiters, LocalEntry(t, park_epoch[t], v)), t, park_epoch[t])
    BY <1>b, <2>1, <2>2, FitsAppend
  <2>4. QED
    BY <1>0, <2>3
<1>d. \A x \in Tasks : QueuedAt(send_waiters, x, park_epoch[x])
                         => QueuedAt(send_waiters', x, park_epoch[x])
  <2>1. send_waiters \in Seq(Entries)
    BY DEF ChanInv, TypeOK
  <2>2. /\ \A i \in 1..Len(send_waiters) : send_waiters'[i] = send_waiters[i]
        /\ \A i \in 1..Len(send_waiters) : i \in 1..Len(send_waiters')
    BY <1>0, <2>1
  <2>3. QED
    BY <2>2 DEF QueuedAt
<1>3. TypeOK' /\ refs' = 0
  BY <1>0, <1>a, <1>b, <1>c, <1>2, FitsEmpty DEF ChanInv, TypeOK
<1>4. QueuesOK'
  BY <1>0, <1>c, FitsEmpty DEF QueuesOK
<1>5. \A x \in Tasks : TaskOK(x)' /\ ParkOK(x)'
  <2>1. \A x \in Tasks : TaskOK(x)'
    BY <1>0, <1>a, <1>b DEF ChanInv, TaskOK
  <2>2. \A x \in Tasks : ParkOK(x)'
    BY <1>0, <1>1, <1>a, <1>b, <1>c, <1>d DEF ChanInv, ParkOK, Waits
  <2>3. QED
    BY <2>1, <2>2
<1>6. MeetOK'
  BY <1>0, <1>1, <1>a, <1>b DEF MeetOK, Waits
<1>7. SendOK'
  <2>1. \A x \in Tasks : op[x] = "send" =>
          opval[x] \in Values /\ opval[x] # v /\ fate'[opval[x]] = fate[opval[x]]
    BY <1>0, <1>2 DEF ChanInv, SendOK, TaskOK
  <2>2. wake[t].kind = "none" /\ wake' = wake
    BY <1>0 DEF ChanInv, TaskOK
  <2>3. QED
    BY <1>0, <1>b, <1>2, <2>1, <2>2 DEF ChanInv, SendOK
<1>8. OnePlace'
  <2>1. \A x \in Values : fate'[x] = "accepted" <=> fate[x] = "accepted"
    BY <1>0, <1>2
  <2>2. QED
    BY <1>0, <2>1 DEF ChanInv, OnePlace, InBuffer, InWake
<1>9. QED
  BY <1>3, <1>4, <1>5, <1>6, <1>7, <1>8 DEF ChanInv

(* channel_send, all its outcomes.                                          *)
LEMMA SendKeeps ==
  ASSUME ChanInv, NEW t \in LocalTasks, NEW v \in Values, channel_send(t, v)
  PROVE  ChanInv'
<1>1. CASE SendRefused(v)
  BY <1>1, RefusedKeeps
<1>2. CASE ~closed /\ SendHandOff(v)
  BY <1>2, HandOffKeeps
<1>3. CASE ~closed /\ SendBuffered(v)
  BY <1>3, BufferedKeeps
<1>4. CASE ~closed /\ SendParked(t, v)
  BY <1>4, SendParkedKeeps
<1>5. QED
  BY <1>1, <1>2, <1>3, <1>4 DEF channel_send

(* A receive finds nothing: on a closed channel it returns ...              *)
LEMMA RecvClosedKeeps ==
  ASSUME ChanInv, NEW t \in LocalTasks, channel_recv(t), RecvClosed
  PROVE  ChanInv'
<1>0. /\ ~AnyLive(send_waiters) /\ send_waiters' = <<>>
      /\ UNCHANGED <<closed, buffer, recv_waiters, wake, parked_on_channel, op, opval, cap, refs,
                     cancel_requested, park_epoch, fate, received>>
  BY DEF channel_recv, RecvClosed, coroVars, wakeVars, Available
<1>1. ~Waits("send")
  BY <1>0, LiveIffWaits
<1>2. TypeOK' /\ refs' = 0
  BY <1>0, FitsEmpty DEF ChanInv, TypeOK
<1>3. QueuesOK'
  BY <1>0, FitsEmpty DEF ChanInv, QueuesOK
<1>4. \A x \in Tasks : TaskOK(x)' /\ ParkOK(x)'
  BY <1>0, <1>1 DEF ChanInv, TaskOK, ParkOK, Waits
<1>5. MeetOK' /\ SendOK' /\ OnePlace'
  BY <1>0 DEF ChanInv, MeetOK, Waits, SendOK, OnePlace, InBuffer, InWake
<1>6. QED
  BY <1>2, <1>3, <1>4, <1>5 DEF ChanInv

(* ... and on an open one it parks.                                         *)
LEMMA RecvParkedKeeps ==
  ASSUME ChanInv, NEW t \in LocalTasks, channel_recv(t), RecvParked(t)
  PROVE  ChanInv'
<1>0. /\ t \in Tasks /\ t \notin RemoteTasks /\ op[t] = "none"
      /\ ~AnyLive(send_waiters) /\ buffer = <<>> /\ ~closed
      /\ send_waiters' = <<>>
      /\ recv_waiters' = Append(recv_waiters, LocalEntry(t, park_epoch[t], NoVal))
      /\ parked_on_channel' = [parked_on_channel EXCEPT ![t] = TRUE]
      /\ op' = [op EXCEPT ![t] = "recv"] /\ opval' = [opval EXCEPT ![t] = NoVal]
      /\ UNCHANGED <<closed, buffer, wake, cap, refs, cancel_requested, park_epoch, fate,
                     received>>
  BY ChannelAssumption DEF Tasks, channel_recv, RecvParked, ParkTask, Idle, Available
<1>1. ~Waits("send")
  BY <1>0, LiveIffWaits
<1>a. /\ parked_on_channel' \in [Tasks -> BOOLEAN]
      /\ \A x \in Tasks : parked_on_channel'[x] <=> x = t \/ parked_on_channel[x]
  BY <1>0 DEF ChanInv, TypeOK
<1>b. /\ op' \in [Tasks -> {"none", "send", "recv", "other"}]
      /\ opval' \in [Tasks -> Values \cup {NoVal}]
      /\ op'[t] = "recv" /\ opval'[t] = NoVal
      /\ \A x \in Tasks : x # t => op'[x] = op[x] /\ opval'[x] = opval[x]
  BY <1>0 DEF ChanInv, TypeOK
<1>c. /\ recv_waiters' \in Seq(Entries)
      /\ QueueFits(recv_waiters', "recv", park_epoch, op', opval')
      /\ QueuedAt(recv_waiters', t, park_epoch[t])
  <2>1. /\ recv_waiters \in Seq(Entries) /\ QueueFits(recv_waiters, "recv", park_epoch, op, opval)
        /\ park_epoch \in [Tasks -> Nat] /\ op[t] # "recv" /\ NoVal \in Values \cup {NoVal}
    BY <1>0 DEF ChanInv, TypeOK, QueuesOK
  <2>2. \A u \in LocalTasks : u # t => op'[u] = op[u] /\ opval'[u] = opval[u]
    BY <1>b DEF Tasks
  <2>3. /\ Append(recv_waiters, LocalEntry(t, park_epoch[t], NoVal)) \in Seq(Entries)
        /\ QueueFits(Append(recv_waiters, LocalEntry(t, park_epoch[t], NoVal)), "recv",
                     park_epoch, op', opval')
        /\ QueuedAt(Append(recv_waiters, LocalEntry(t, park_epoch[t], NoVal)), t, park_epoch[t])
    BY <1>b, <2>1, <2>2, FitsAppend
  <2>4. QED
    BY <1>0, <2>3
<1>d. \A x \in Tasks : QueuedAt(recv_waiters, x, park_epoch[x])
                         => QueuedAt(recv_waiters', x, park_epoch[x])
  <2>1. recv_waiters \in Seq(Entries)
    BY DEF ChanInv, TypeOK
  <2>2. /\ \A i \in 1..Len(recv_waiters) : recv_waiters'[i] = recv_waiters[i]
        /\ \A i \in 1..Len(recv_waiters) : i \in 1..Len(recv_waiters')
    BY <1>0, <2>1
  <2>3. QED
    BY <2>2 DEF QueuedAt
<1>3. TypeOK' /\ refs' = 0
  BY <1>0, <1>a, <1>b, <1>c, FitsEmpty DEF ChanInv, TypeOK
<1>4. QueuesOK'
  BY <1>0, <1>c, FitsEmpty DEF QueuesOK
<1>5. \A x \in Tasks : TaskOK(x)' /\ ParkOK(x)'
  <2>1. \A x \in Tasks : TaskOK(x)'
    BY <1>0, <1>a, <1>b DEF ChanInv, TaskOK
  <2>2. \A x \in Tasks : ParkOK(x)'
    BY <1>0, <1>1, <1>a, <1>b, <1>c, <1>d DEF ChanInv, ParkOK, Waits
  <2>3. QED
    BY <2>1, <2>2
<1>6. MeetOK'
  BY <1>0, <1>1, <1>a, <1>b DEF MeetOK, Waits
<1>7. SendOK' /\ OnePlace'
  <2>1. SendOK'
    BY <1>0, <1>b DEF ChanInv, SendOK
  <2>2. OnePlace'
    BY <1>0 DEF ChanInv, OnePlace, InBuffer, InWake
  <2>3. QED
    BY <2>1, <2>2
<1>8. QED
  BY <1>3, <1>4, <1>5, <1>6, <1>7 DEF ChanInv

(* What promoting the first live sender changes.                            *)
LEMMA AcceptFacts ==
  ASSUME ChanInv, AnyLive(send_waiters), send_waiters' = AfterPop(send_waiters),
         complete_send(PopLive(send_waiters))
  PROVE  \E u \in LocalTasks : Promoted(u)
<1> USE DEF Promoted, Unparked
<1>0. /\ send_waiters \in Seq(Entries)
      /\ QueueFits(send_waiters, "send", park_epoch, op, opval)
  BY DEF ChanInv, TypeOK, QueuesOK
<1> DEFINE u == PopLive(send_waiters).task
<1>1. /\ u \in LocalTasks /\ u \in Tasks /\ ~PopLive(send_waiters).remote
      /\ parked_on_channel[u] /\ op[u] = "send" /\ opval[u] = PopLive(send_waiters).val
      /\ ~cancel_requested[u] /\ wake[u].kind = "none"
      /\ send_waiters' \in Seq(Entries)
      /\ QueueFits(send_waiters', "send", park_epoch, op, opval)
      /\ \A x \in Tasks : x # u /\ parked_on_channel[x]
                            /\ QueuedAt(send_waiters, x, park_epoch[x])
           => QueuedAt(send_waiters', x, park_epoch[x])
  BY <1>0, PopQueue
<1>2. /\ fate' = [fate EXCEPT ![opval[u]] = "accepted"]
      /\ wake_channel_task(u, Wake("SendOk", NoVal))
  BY <1>1 DEF complete_send
<1> HIDE DEF u
<1>3. opval[u] \in Values /\ fate[opval[u]] = "parked"
  BY <1>1 DEF ChanInv, TaskOK, SendOK
<1>4. Len(buffer) >= cap /\ ~Waits("recv")
  BY <1>1 DEF ChanInv, MeetOK, Waits
<1>5. /\ fate' \in [Values -> {"new", "parked", "accepted", "refused", "cancelled"}]
      /\ fate'[opval[u]] = "accepted" /\ \A x \in Values : x # opval[u] => fate'[x] = fate[x]
  BY <1>2, <1>3 DEF ChanInv, TypeOK
<1>6. /\ Wake("SendOk", NoVal) \in Wakes
      /\ Wake("SendOk", NoVal).kind = "SendOk"
  BY DEF Wake
<1>7. /\ parked_on_channel' \in [Tasks -> BOOLEAN]
      /\ \A x \in Tasks : parked_on_channel'[x] <=> x # u /\ parked_on_channel[x]
  BY <1>1, <1>2 DEF wake_channel_task, ChanInv, TypeOK
<1>8. /\ wake' \in [Tasks -> Wakes]
      /\ wake'[u].kind = "SendOk" /\ \A x \in Tasks : x # u => wake'[x] = wake[x]
  BY <1>1, <1>2, <1>6 DEF wake_channel_task, ChanInv, TypeOK
<1>9. QED
  BY <1>1, <1>3, <1>4, <1>5, <1>7, <1>8

(* The sender's side of the invariant, however its value is placed.         *)
LEMMA AcceptKeeps ==
  ASSUME ChanInv, AnyLive(send_waiters), send_waiters' = AfterPop(send_waiters),
         complete_send(PopLive(send_waiters)),
         UNCHANGED <<closed, recv_waiters, op, opval, cap, refs, cancel_requested, park_epoch>>,
         buffer' \in Seq(Values), Len(buffer') = Len(buffer), received' \in [Values -> Nat]
  PROVE  /\ TypeOK' /\ refs' = 0 /\ QueuesOK'
         /\ \A x \in Tasks : TaskOK(x)' /\ ParkOK(x)'
         /\ MeetOK' /\ SendOK'
         /\ \A x \in Values : InWake(x)' <=> InWake(x)
         /\ \A x, y \in Tasks : wake'[x].kind = "Recv" /\ wake'[y].kind = "Recv"
                                  /\ wake'[x].val = wake'[y].val => x = y
         /\ PopLive(send_waiters).val \in Values
         /\ fate[PopLive(send_waiters).val] = "parked"
         /\ fate'[PopLive(send_waiters).val] = "accepted"
         /\ \A x \in Values : x # PopLive(send_waiters).val => fate'[x] = fate[x]
<1> USE DEF Promoted, Unparked
<1>1. PICK u \in LocalTasks : Promoted(u)
  BY AcceptFacts
<1>2. TypeOK' /\ refs' = 0
  BY <1>1 DEF ChanInv, TypeOK
<1>3. QueuesOK'
  BY <1>1 DEF ChanInv, QueuesOK
<1>4. ASSUME NEW x \in Tasks PROVE TaskOK(x)'
  <2>1. TaskOK(x)
    BY DEF ChanInv
  <2>2. CASE x = u
    BY <1>1, <2>1, <2>2 DEF TaskOK
  <2>3. CASE x # u
    BY <1>1, <2>1, <2>3 DEF TaskOK
  <2>4. QED
    BY <2>2, <2>3
<1>5. \A x \in Tasks : ParkOK(x)'
  BY <1>1 DEF ChanInv, ParkOK
<1>6. MeetOK'
  BY <1>1 DEF MeetOK, Waits
<1>7. SendOK'
  <2>1. \A x \in Tasks : op[x] = "send" /\ x # u =>
          opval[x] \in Values /\ opval[x] # opval[u] /\ wake'[x] = wake[x]
            /\ fate'[opval[x]] = fate[opval[x]]
    BY <1>1 DEF ChanInv, SendOK, TaskOK
  <2>2. ASSUME NEW x \in Tasks, op[x] = "send"
        PROVE  fate'[opval[x]] = IF wake'[x].kind = "SendOk" THEN "accepted" ELSE "parked"
    <3>1. CASE x = u
      BY <1>1, <3>1
    <3>2. CASE x # u
      <4>1. fate[opval[x]] = IF wake[x].kind = "SendOk" THEN "accepted" ELSE "parked"
        BY <2>2 DEF ChanInv, SendOK
      <4>2. QED
        BY <2>1, <2>2, <3>2, <4>1
    <3>3. QED
      BY <3>1, <3>2
  <2>3. QED
    BY <2>2 DEF ChanInv, SendOK
<1>8. \A x \in Tasks : (wake'[x].kind = "Recv" <=> wake[x].kind = "Recv")
                         /\ (wake[x].kind = "Recv" => wake'[x] = wake[x])
  BY <1>1
<1>9. /\ \A x \in Values : InWake(x)' <=> InWake(x)
      /\ \A x, y \in Tasks : wake'[x].kind = "Recv" /\ wake'[y].kind = "Recv"
                               /\ wake'[x].val = wake'[y].val => x = y
  BY <1>8 DEF ChanInv, OnePlace, InWake
<1>10. QED
  BY <1>1, <1>2, <1>3, <1>4, <1>5, <1>6, <1>7, <1>9

(* One more receive of a value.                                             *)
LEMMA ReceivedFacts ==
  ASSUME ChanInv, NEW h \in Values, received' = [received EXCEPT ![h] = @ + 1]
  PROVE  /\ received' \in [Values -> Nat] /\ received'[h] = received[h] + 1
         /\ \A x \in Values : x # h => received'[x] = received[x]
  BY DEF ChanInv, TypeOK

(* A receive takes the head of the buffer; a parked sender's value moves in *)
(* behind the others ...                                                    *)
LEMMA TakePromoteKeeps ==
  ASSUME ChanInv, NEW t \in LocalTasks, channel_recv(t), RecvNow, TakeBuffered,
         AnyLive(send_waiters)
  PROVE  ChanInv'
<1> DEFINE h == Head(buffer)
           v == PopLive(send_waiters).val
<1>0. /\ buffer # <<>> /\ buffer \in Seq(Values) /\ Distinct(buffer)
      /\ send_waiters' = AfterPop(send_waiters)
      /\ buffer' = Append(Tail(buffer), v)
      /\ complete_send(PopLive(send_waiters))
      /\ received' = [received EXCEPT ![h] = @ + 1]
      /\ UNCHANGED <<closed, recv_waiters, op, opval, cap, refs, cancel_requested, park_epoch>>
  BY DEF channel_recv, RecvNow, TakeBuffered, Oldest, coroVars, ChanInv, TypeOK, OnePlace
<1>1. v \in Values /\ fate[v] = "parked" /\ ~InBuffer(v) /\ ~InWake(v) /\ received[v] = 0
  BY <1>0, AcceptFacts, NotPlaced DEF Promoted
<1>2. /\ Tail(buffer) \in Seq(Values) /\ Len(Tail(buffer)) = Len(buffer) - 1
      /\ Distinct(Tail(buffer)) /\ h \in Values /\ InBuffer(h)
      /\ \A x : Holds(Tail(buffer), x) <=> x # h /\ InBuffer(x)
  BY <1>0, TailMembers DEF InBuffer
<1>3. /\ buffer' \in Seq(Values) /\ Distinct(buffer') /\ Len(buffer') = Len(buffer)
      /\ \A x : InBuffer(x)' <=> x = v \/ (x # h /\ InBuffer(x))
  <2>1. ~Holds(Tail(buffer), v) /\ Len(buffer) \in Nat
    BY <1>0, <1>1, <1>2
  <2>2. /\ Append(Tail(buffer), v) \in Seq(Values) /\ Distinct(Append(Tail(buffer), v))
        /\ Len(Append(Tail(buffer), v)) = Len(Tail(buffer)) + 1
        /\ \A x : Holds(Append(Tail(buffer), v), x) <=> x = v \/ Holds(Tail(buffer), x)
    BY <1>1, <1>2, <2>1, AppendMembers
  <2>3. Len(buffer') = Len(buffer)
    BY <1>0, <1>2, <2>1, <2>2
  <2> HIDE DEF v, h
  <2>4. \A x : InBuffer(x)' <=> x = v \/ (x # h /\ InBuffer(x))
    BY <1>0, <1>2, <2>2 DEF InBuffer
  <2>5. QED
    BY <1>0, <2>2, <2>3, <2>4
<1>4. /\ received' \in [Values -> Nat] /\ received'[h] = received[h] + 1
      /\ \A x \in Values : x # h => received'[x] = received[x]
  BY <1>0, <1>2, ReceivedFacts
<1> HIDE DEF h
<1>5. /\ TypeOK' /\ refs' = 0 /\ QueuesOK'
      /\ \A x \in Tasks : TaskOK(x)' /\ ParkOK(x)'
      /\ MeetOK' /\ SendOK'
      /\ \A x \in Values : InWake(x)' <=> InWake(x)
      /\ \A x, y \in Tasks : wake'[x].kind = "Recv" /\ wake'[y].kind = "Recv"
                               /\ wake'[x].val = wake'[y].val => x = y
      /\ fate'[v] = "accepted" /\ \A x \in Values : x # v => fate'[x] = fate[x]
  BY <1>0, <1>3, <1>4, AcceptKeeps
<1> HIDE DEF v
<1>6. ASSUME NEW x \in Values
      PROVE  /\ InBuffer(x)' => ~InWake(x)' /\ received'[x] = 0
             /\ InWake(x)' => received'[x] = 0
             /\ received'[x] \in {0, 1}
             /\ fate'[x] = "accepted" <=> InBuffer(x)' \/ InWake(x)' \/ received'[x] = 1
  <2>1. /\ InBuffer(x) => ~InWake(x) /\ received[x] = 0
        /\ InWake(x) => received[x] = 0
        /\ received[x] \in {0, 1}
        /\ fate[x] = "accepted" <=> InBuffer(x) \/ InWake(x) \/ received[x] = 1
    BY DEF ChanInv, OnePlace
  <2>2. CASE x = v
    BY <1>1, <1>2, <1>3, <1>4, <1>5, <2>1, <2>2
  <2>3. CASE x = h
    BY <1>1, <1>2, <1>3, <1>4, <1>5, <2>1, <2>3
  <2>4. CASE x # v /\ x # h
    BY <1>3, <1>4, <1>5, <2>1, <2>4
  <2>5. QED
    BY <2>2, <2>3, <2>4
<1>7. QED
  BY <1>3, <1>5, <1>6 DEF ChanInv, OnePlace

(* ... or nobody waits for the freed place.                                 *)
LEMMA TakeKeeps ==
  ASSUME ChanInv, NEW t \in LocalTasks, channel_recv(t), RecvNow, TakeBuffered,
         ~AnyLive(send_waiters)
  PROVE  ChanInv'
<1> DEFINE h == Head(buffer)
<1>0. /\ buffer # <<>> /\ buffer \in Seq(Values) /\ Distinct(buffer)
      /\ send_waiters' = <<>> /\ buffer' = Tail(buffer)
      /\ received' = [received EXCEPT ![h] = @ + 1]
      /\ UNCHANGED <<closed, recv_waiters, op, opval, cap, refs, cancel_requested, park_epoch,
                     wake, parked_on_channel, fate>>
  BY DEF channel_recv, RecvNow, TakeBuffered, Oldest, coroVars, wakeVars, AfterPop, ChanInv,
         TypeOK, OnePlace
<1>1. ~Waits("send") /\ ~Waits("recv")
  BY <1>0, LiveIffWaits DEF ChanInv, MeetOK
<1>2. /\ buffer' \in Seq(Values) /\ Distinct(buffer') /\ h \in Values /\ InBuffer(h)
      /\ \A x : InBuffer(x)' <=> x # h /\ InBuffer(x)
  BY <1>0, TailMembers DEF InBuffer
<1>3. /\ received' \in [Values -> Nat] /\ received'[h] = received[h] + 1
      /\ \A x \in Values : x # h => received'[x] = received[x]
  BY <1>0, <1>2, ReceivedFacts
<1> HIDE DEF h
<1>4. TypeOK' /\ refs' = 0
  BY <1>0, <1>2, <1>3, FitsEmpty DEF ChanInv, TypeOK
<1>5. QueuesOK'
  BY <1>0, FitsEmpty DEF ChanInv, QueuesOK
<1>6. \A x \in Tasks : TaskOK(x)' /\ ParkOK(x)'
  BY <1>0, <1>1 DEF ChanInv, TaskOK, ParkOK, Waits
<1>7. MeetOK' /\ SendOK'
  BY <1>0, <1>1 DEF ChanInv, MeetOK, Waits, SendOK
<1>8. ASSUME NEW x \in Values
      PROVE  /\ InBuffer(x)' => ~InWake(x)' /\ received'[x] = 0
             /\ InWake(x)' => received'[x] = 0
             /\ received'[x] \in {0, 1}
             /\ fate'[x] = "accepted" <=> InBuffer(x)' \/ InWake(x)' \/ received'[x] = 1
  <2>1. /\ InBuffer(x) => ~InWake(x) /\ received[x] = 0
        /\ InWake(x) => received[x] = 0
        /\ received[x] \in {0, 1} /\ fate'[x] = fate[x]
        /\ fate[x] = "accepted" <=> InBuffer(x) \/ InWake(x) \/ received[x] = 1
    BY <1>0 DEF ChanInv, OnePlace
  <2>2. InWake(x)' <=> InWake(x)
    BY <1>0 DEF InWake
  <2>3. CASE x = h
    BY <1>2, <1>3, <2>1, <2>2, <2>3
  <2>4. CASE x # h
    BY <1>2, <1>3, <2>1, <2>2, <2>4
  <2>5. QED
    BY <2>3, <2>4
<1>9. QED
  BY <1>0, <1>2, <1>4, <1>5, <1>6, <1>7, <1>8 DEF ChanInv, OnePlace

(* A receive meets a parked sender.                                         *)
LEMMA TakeFromSenderKeeps ==
  ASSUME ChanInv, NEW t \in LocalTasks, channel_recv(t), RecvNow, TakeFromSender
  PROVE  ChanInv'
<1> DEFINE v == PopLive(send_waiters).val
<1>0. /\ buffer = <<>> /\ buffer' = buffer /\ buffer \in Seq(Values) /\ AnyLive(send_waiters)
      /\ send_waiters' = AfterPop(send_waiters)
      /\ complete_send(PopLive(send_waiters))
      /\ received' = [received EXCEPT ![v] = @ + 1]
      /\ UNCHANGED <<closed, recv_waiters, op, opval, cap, refs, cancel_requested, park_epoch>>
  BY DEF channel_recv, RecvNow, TakeFromSender, Oldest, coroVars, ChanInv, TypeOK
<1>1. v \in Values /\ fate[v] = "parked" /\ ~InBuffer(v) /\ ~InWake(v) /\ received[v] = 0
  BY <1>0, AcceptFacts, NotPlaced DEF Promoted
<1>2. /\ received' \in [Values -> Nat] /\ received'[v] = received[v] + 1
      /\ \A x \in Values : x # v => received'[x] = received[x]
  BY <1>0, <1>1, ReceivedFacts
<1>3. /\ TypeOK' /\ refs' = 0 /\ QueuesOK'
      /\ \A x \in Tasks : TaskOK(x)' /\ ParkOK(x)'
      /\ MeetOK' /\ SendOK'
      /\ \A x \in Values : InWake(x)' <=> InWake(x)
      /\ \A x, y \in Tasks : wake'[x].kind = "Recv" /\ wake'[y].kind = "Recv"
                               /\ wake'[x].val = wake'[y].val => x = y
      /\ fate'[v] = "accepted" /\ \A x \in Values : x # v => fate'[x] = fate[x]
  BY <1>0, <1>2, AcceptKeeps
<1> HIDE DEF v
<1>4. ASSUME NEW x \in Values
      PROVE  /\ InBuffer(x)' => ~InWake(x)' /\ received'[x] = 0
             /\ InWake(x)' => received'[x] = 0
             /\ received'[x] \in {0, 1}
             /\ fate'[x] = "accepted" <=> InBuffer(x)' \/ InWake(x)' \/ received'[x] = 1
  <2>1. /\ InBuffer(x) => ~InWake(x) /\ received[x] = 0
        /\ InWake(x) => received[x] = 0
        /\ received[x] \in {0, 1}
        /\ fate[x] = "accepted" <=> InBuffer(x) \/ InWake(x) \/ received[x] = 1
        /\ InBuffer(x)' <=> InBuffer(x)
    BY <1>0 DEF ChanInv, OnePlace, InBuffer
  <2>2. CASE x = v
    BY <1>1, <1>2, <1>3, <2>1, <2>2
  <2>3. CASE x # v
    BY <1>2, <1>3, <2>1, <2>3
  <2>4. QED
    BY <2>2, <2>3
<1>5. QED
  BY <1>0, <1>3, <1>4 DEF ChanInv, OnePlace

(* channel_recv, all its outcomes.                                          *)
LEMMA RecvKeeps ==
  ASSUME ChanInv, NEW t \in LocalTasks, channel_recv(t)
  PROVE  ChanInv'
<1>1. CASE RecvNow /\ TakeBuffered
  BY <1>1, TakePromoteKeeps, TakeKeeps
<1>2. CASE RecvNow /\ TakeFromSender
  BY <1>2, TakeFromSenderKeeps
<1>3. CASE RecvClosed
  BY <1>3, RecvClosedKeeps
<1>4. CASE RecvParked(t)
  BY <1>4, RecvParkedKeeps
<1>5. QED
  BY <1>1, <1>2, <1>3, <1>4 DEF channel_recv, RecvNow

(* The tasks close wakes are the senders and receivers parked here.         *)
LEMMA CloseFacts ==
  ASSUME ChanInv, CloseEffect
  PROVE  ClosedHere
<1> USE DEF ClosedHere
<1> DEFINE all == recv_waiters \o send_waiters
           woken == {all[i].task : i \in {j \in LiveIn(all) : ~all[j].remote}}
<1>0. /\ recv_waiters \in Seq(Entries) /\ send_waiters \in Seq(Entries)
      /\ QueueFits(recv_waiters, "recv", park_epoch, op, opval)
      /\ QueueFits(send_waiters, "send", park_epoch, op, opval)
  BY DEF ChanInv, TypeOK, QueuesOK
<1>1. /\ closed' = TRUE /\ recv_waiters' = <<>> /\ send_waiters' = <<>> /\ buffer' = buffer
      /\ parked_on_channel' = [t \in Tasks |-> parked_on_channel[t] /\ t \notin woken]
      /\ wake' = [t \in Tasks |-> IF t \in woken THEN Wake("Closed", NoVal) ELSE wake[t]]
  BY DEF CloseEffect
<1>2. /\ Len(all) = Len(recv_waiters) + Len(send_waiters)
      /\ Len(recv_waiters) \in Nat /\ Len(send_waiters) \in Nat
      /\ \A i \in 1..Len(recv_waiters) : all[i] = recv_waiters[i]
      /\ \A i \in 1..Len(send_waiters) : all[i + Len(recv_waiters)] = send_waiters[i]
  BY <1>0
<1>3. \A x : x \in woken <=> \E i \in 1..Len(all) : EntryLive(all[i]) /\ ~all[i].remote
                                                     /\ all[i].task = x
  BY DEF LiveIn
<1> HIDE DEF all, woken
<1>4. ASSUME NEW x \in woken
      PROVE  x \in Tasks /\ parked_on_channel[x] /\ op[x] \in {"recv", "send"}
  <2>1. PICK i \in 1..Len(all) : EntryLive(all[i]) /\ ~all[i].remote /\ all[i].task = x
    BY <1>3
  <2>2. CASE i <= Len(recv_waiters)
    <3>1. i \in 1..Len(recv_waiters) /\ all[i] = recv_waiters[i]
      BY <1>2, <2>2
    <3>2. QED
      BY <1>0, <2>1, <3>1, LiveEntry
  <2>3. CASE i > Len(recv_waiters)
    <3>1. /\ i - Len(recv_waiters) \in 1..Len(send_waiters)
          /\ i = (i - Len(recv_waiters)) + Len(recv_waiters)
      BY <1>2, <2>3
    <3>2. all[i] = send_waiters[i - Len(recv_waiters)]
      BY <1>2, <3>1
    <3>3. QED
      BY <1>0, <2>1, <3>1, <3>2, LiveEntry
  <2>4. QED
    BY <1>2, <2>2, <2>3
<1>5. ASSUME NEW x \in Tasks, parked_on_channel[x], op[x] = "recv" PROVE x \in woken
  <2>1. PICK i \in 1..Len(recv_waiters) :
             recv_waiters[i].task = x /\ recv_waiters[i].id = park_epoch[x]
    BY <1>5 DEF ChanInv, ParkOK, QueuedAt
  <2>2. EntryLive(recv_waiters[i])
    BY <1>5, <2>1, EntryIsLive
  <2>3. ~recv_waiters[i].remote
    BY <1>0, <2>2, LiveEntry
  <2>4. i \in 1..Len(all) /\ all[i] = recv_waiters[i]
    BY <1>2
  <2>5. QED
    BY <1>3, <2>1, <2>2, <2>3, <2>4
<1>6. ASSUME NEW x \in Tasks, parked_on_channel[x], op[x] = "send" PROVE x \in woken
  <2>1. PICK i \in 1..Len(send_waiters) :
             send_waiters[i].task = x /\ send_waiters[i].id = park_epoch[x]
    BY <1>6 DEF ChanInv, ParkOK, QueuedAt
  <2>2. EntryLive(send_waiters[i])
    BY <1>6, <2>1, EntryIsLive
  <2>3. ~send_waiters[i].remote
    BY <1>0, <2>2, LiveEntry
  <2>4. i + Len(recv_waiters) \in 1..Len(all) /\ all[i + Len(recv_waiters)] = send_waiters[i]
    BY <1>2
  <2>5. QED
    BY <1>3, <2>1, <2>2, <2>3, <2>4
<1>7. \A x \in Tasks : x \in woken <=> parked_on_channel[x] /\ op[x] # "other"
  <2>1. \A x \in Tasks : parked_on_channel[x] => op[x] \in {"send", "recv", "other"}
    BY DEF ChanInv, TaskOK, TypeOK
  <2>2. QED
    BY <1>4, <1>5, <1>6, <2>1
<1>8. /\ Wake("Closed", NoVal) \in Wakes
      /\ Wake("Closed", NoVal).kind = "Closed"
  BY DEF Wake
<1>9. /\ parked_on_channel' \in [Tasks -> BOOLEAN]
      /\ \A x \in Tasks : parked_on_channel'[x] <=> parked_on_channel[x] /\ op[x] = "other"
  <2>1. parked_on_channel' \in [Tasks -> BOOLEAN]
    BY <1>1 DEF ChanInv, TypeOK
  <2>2. \A x \in Tasks : parked_on_channel'[x] <=> parked_on_channel[x] /\ x \notin woken
    BY <1>1 DEF ChanInv, TypeOK
  <2>3. QED
    BY <2>1, <2>2, <1>7
<1>10. wake' \in [Tasks -> Wakes]
  BY <1>1, <1>8 DEF ChanInv, TypeOK
<1>11. \A x \in Tasks : IF parked_on_channel[x] /\ op[x] # "other"
                        THEN wake'[x].kind = "Closed" ELSE wake'[x] = wake[x]
  BY <1>1, <1>7, <1>8
<1>12. QED
  BY <1>1, <1>9, <1>10, <1>11

(* channel_close: nobody stays parked here, and no wake is overwritten.     *)
LEMMA CloseKeeps ==
  ASSUME ChanInv, NEW t \in LocalTasks, channel_close(t)
  PROVE  ChanInv'
<1> USE DEF ClosedHere
<1>0. /\ CloseEffect
      /\ UNCHANGED <<cap, refs, cancel_requested, park_epoch, op, opval, fate, received>>
  BY DEF channel_close, coroVars
<1>1. ClosedHere
  BY <1>0, CloseFacts
<1>2. TypeOK' /\ refs' = 0
  BY <1>0, <1>1, FitsEmpty DEF ChanInv, TypeOK
<1>3. QueuesOK'
  BY <1>1, FitsEmpty DEF QueuesOK
<1>4. ASSUME NEW x \in Tasks PROVE TaskOK(x)' /\ ParkOK(x)'
  <2>1. TaskOK(x) /\ op[x] \in {"none", "send", "recv", "other"}
    BY DEF ChanInv, TypeOK
  <2>2. ParkOK(x)'
    BY <1>0, <1>1 DEF ParkOK
  <2>3. CASE parked_on_channel[x] /\ op[x] # "other"
    <3>1. /\ ~parked_on_channel'[x] /\ wake'[x].kind = "Closed"
          /\ op'[x] = op[x] /\ opval'[x] = opval[x] /\ op[x] \in {"send", "recv"}
      BY <1>0, <1>1, <2>1, <2>3 DEF TaskOK
    <3>2. QED
      BY <2>1, <2>2, <3>1 DEF TaskOK
  <2>4. CASE ~(parked_on_channel[x] /\ op[x] # "other")
    BY <1>0, <1>1, <2>1, <2>2, <2>4 DEF TaskOK
  <2>5. QED
    BY <2>3, <2>4
<1>5. MeetOK'
  BY <1>0, <1>1 DEF MeetOK, Waits
<1>6. \A x \in Tasks : /\ (wake'[x].kind = "Recv" <=> wake[x].kind = "Recv")
                       /\ (wake'[x].kind = "SendOk" <=> wake[x].kind = "SendOk")
                       /\ (wake[x].kind = "Recv" => wake'[x] = wake[x])
  BY <1>1 DEF ChanInv, TaskOK
<1>7. SendOK'
  BY <1>0, <1>6 DEF ChanInv, SendOK
<1>8. OnePlace'
  BY <1>0, <1>1, <1>6 DEF ChanInv, OnePlace, InBuffer, InWake
<1>9. QED
  BY <1>2, <1>3, <1>4, <1>5, <1>7, <1>8 DEF ChanInv

(* A cancelled task that held no value.                                     *)
LEMMA CancelledKeeps ==
  ASSUME ChanInv, NEW t \in LocalTasks, ParkCancelled(t), wake[t].kind # "Recv"
  PROVE  ChanInv'
<1>0. Resumed(t)
  BY ResumeFacts DEF ParkCancelled
<1> USE DEF Resumed
<1>1. /\ wake' = Woken(t)
      /\ cancel_requested' = [cancel_requested EXCEPT ![t] = FALSE]
      /\ UNCHANGED <<buffer, recv_waiters, parked_on_channel, closed, send_waiters, cap, refs,
                     received>>
  BY DEF ParkCancelled
<1>2. /\ wake' \in [Tasks -> Wakes]
      /\ wake'[t].kind = "none" /\ \A u \in Tasks : u # t => wake'[u] = wake[u]
  BY <1>0, <1>1, WokenFacts
<1>3. /\ cancel_requested' \in [Tasks -> BOOLEAN]
      /\ \A u \in Tasks : cancel_requested'[u] <=> u # t /\ cancel_requested[u]
  BY <1>0, <1>1 DEF ChanInv, TypeOK
<1>4. TypeOK' /\ refs' = 0
  BY <1>0, <1>1, <1>2, <1>3 DEF ChanInv, TypeOK
<1>5. QueuesOK'
  BY <1>0, <1>1 DEF ChanInv, QueuesOK, TypeOK
<1>6. \A u \in Tasks : TaskOK(u)' /\ ParkOK(u)'
  BY <1>0, <1>1, <1>2, <1>3 DEF ChanInv, TaskOK, ParkOK
<1>7. MeetOK'
  BY <1>0, <1>1 DEF ChanInv, MeetOK, Waits
<1>8. SendOK'
  BY <1>2, ResumeSends DEF ParkCancelled
<1>9. OnePlace'
  <2>1. \A u \in Tasks : (wake'[u].kind = "Recv" <=> wake[u].kind = "Recv")
                           /\ (wake[u].kind = "Recv" => wake'[u] = wake[u])
    BY <1>2
  <2>2. \A x \in Values : (InWake(x)' <=> InWake(x)) /\ (InBuffer(x)' <=> InBuffer(x))
    BY <1>1, <2>1 DEF InWake, InBuffer
  <2>3. \A x, y \in Tasks : wake'[x].kind = "Recv" /\ wake'[y].kind = "Recv"
                              /\ wake'[x].val = wake'[y].val => x = y
    BY <2>1 DEF ChanInv, OnePlace
  <2>4. QED
    BY <1>0, <1>1, <2>2, <2>3 DEF ChanInv, OnePlace
<1>10. QED
  BY <1>4, <1>5, <1>6, <1>7, <1>8, <1>9 DEF ChanInv

(* A cancelled receiver's value goes to the next live receiver ...          *)
LEMMA RedeliverKeeps ==
  ASSUME ChanInv, NEW t \in LocalTasks, ParkCancelled(t), wake[t].kind = "Recv",
         deliver_to_recv(wake[t].val, Woken(t), outbound)
  PROVE  ChanInv'
<1> USE DEF Delivered, Unparked
<1> DEFINE v == wake[t].val
<1>0. Resumed(t)
  BY ResumeFacts DEF ParkCancelled
<1> USE DEF Resumed
<1>1. /\ cancel_requested' = [cancel_requested EXCEPT ![t] = FALSE]
      /\ UNCHANGED <<closed, send_waiters, cap, refs, received>>
  BY DEF ParkCancelled
<1>a. v \in Values /\ Woken(t) \in [Tasks -> Wakes]
      /\ Woken(t)[t].kind = "none"
      /\ \A u \in Tasks : u # t => Woken(t)[u] = wake[u]
  BY <1>0, WokenFacts DEF ChanInv, TaskOK
<1>2. PICK u \in LocalTasks : Delivered(u, v, Woken(t))
  BY <1>a, DeliverFacts
<1>b. /\ u # t /\ wake'[t].kind = "none"
      /\ \A x \in Tasks : x # u /\ x # t => wake'[x] = wake[x]
  BY SMTT(20), <1>0, <1>a, <1>2
<1> HIDE DEF v
<1>3. /\ cancel_requested' \in [Tasks -> BOOLEAN]
      /\ \A x \in Tasks : cancel_requested'[x] <=> x # t /\ cancel_requested[x]
  BY <1>0, <1>1 DEF ChanInv, TypeOK
<1>4. TypeOK' /\ refs' = 0
  BY <1>0, <1>1, <1>2, <1>3 DEF ChanInv, TypeOK
<1>5. QueuesOK'
  BY <1>0, <1>1, <1>2 DEF ChanInv, QueuesOK, TypeOK
<1>6. ASSUME NEW x \in Tasks PROVE TaskOK(x)' /\ ParkOK(x)'
  <2>1. TaskOK(x) /\ ParkOK(x)
    BY DEF ChanInv
  <2>2. CASE x = t
    BY <1>0, <1>1, <1>2, <1>3, <1>b, <2>2 DEF TaskOK, ParkOK
  <2>3. CASE x = u
    BY <1>0, <1>1, <1>a, <1>2, <1>3, <1>b, <2>1, <2>3 DEF TaskOK, ParkOK, v
  <2>4. CASE x # t /\ x # u
    BY <1>0, <1>1, <1>2, <1>3, <1>b, <2>1, <2>4 DEF TaskOK, ParkOK
  <2>5. QED
    BY <2>2, <2>3, <2>4
<1>7. MeetOK'
  <2>1. \A x \in Tasks : parked_on_channel'[x] /\ op'[x] \in {"send", "recv"}
                           => parked_on_channel[x] /\ op'[x] = op[x]
    BY <1>0, <1>2
  <2>2. buffer' = <<>> /\ ~Waits("send")
    BY <1>2
  <2>3. ~Waits("send")'
    BY <2>1, <2>2 DEF Waits
  <2>4. QED
    BY <2>2, <2>3 DEF MeetOK
<1>8. SendOK'
  <2>1. \A x \in Tasks : x # t /\ op[x] = "send" => wake'[x] = wake[x]
    BY <1>2, <1>b
  <2>2. QED
    BY <2>1, ResumeSends DEF ParkCancelled
<1>9. OnePlace'
  <2>1. \A x \in Tasks : wake'[x].kind = "Recv" => x = u \/ (x # t /\ wake'[x] = wake[x])
    BY <1>b
  <2>2. \A x \in Tasks : x # t /\ wake[x].kind = "Recv" => x # u /\ wake'[x] = wake[x]
    BY <1>2, <1>b
  <2>3. \A x \in Values : InWake(x)' <=> InWake(x)
    <3>1. ASSUME NEW x \in Values, InWake(x)' PROVE InWake(x)
      <4>1. PICK y \in Tasks : wake'[y].kind = "Recv" /\ wake'[y].val = x
        BY <3>1 DEF InWake
      <4>2. CASE y = u
        BY <1>0, <1>2, <4>1, <4>2 DEF InWake, v
      <4>3. CASE y # u
        BY <1>b, <2>1, <4>1, <4>3 DEF InWake
      <4>4. QED
        BY <4>2, <4>3
    <3>2. ASSUME NEW x \in Values, InWake(x) PROVE InWake(x)'
      BY <1>2, <2>2, <3>2 DEF InWake, v
    <3>3. QED
      BY <3>1, <3>2
  <2>4. ASSUME NEW x \in Tasks, NEW y \in Tasks, wake'[x].kind = "Recv",
               wake'[y].kind = "Recv", wake'[x].val = wake'[y].val
        PROVE  x = y
    <3>0. \A z, w \in Tasks : wake[z].kind = "Recv" /\ wake[w].kind = "Recv"
                                 /\ wake[z].val = wake[w].val => z = w
      BY DEF ChanInv, OnePlace
    <3>1. ASSUME NEW z \in Tasks, z # u, wake'[z].kind = "Recv" PROVE wake'[z].val # v
      BY <1>0, <2>1, <3>0, <3>1 DEF v
    <3>2. CASE x # u /\ y # u
      BY <2>1, <2>4, <3>0, <3>2
    <3>3. CASE x = u \/ y = u
      BY <1>2, <2>4, <3>1, <3>3
    <3>4. QED
      BY <3>2, <3>3
  <2>5. Distinct(buffer') /\ \A x \in Values : InBuffer(x)' <=> InBuffer(x)
    BY <1>2 DEF ChanInv, OnePlace, InBuffer
  <2>6. QED
    BY <1>0, <1>1, <2>3, <2>4, <2>5 DEF ChanInv, OnePlace
<1>10. QED
  BY <1>4, <1>5, <1>6, <1>7, <1>8, <1>9 DEF ChanInv

(* ... or back to the front of the buffer.                                  *)
LEMMA RefileKeeps ==
  ASSUME ChanInv, NEW t \in LocalTasks, ParkCancelled(t), wake[t].kind = "Recv",
         ~AnyLive(recv_waiters), recv_waiters' = <<>>, buffer' = <<wake[t].val>> \o buffer,
         wake' = Woken(t), UNCHANGED parked_on_channel
  PROVE  ChanInv'
<1> DEFINE v == wake[t].val
<1>0. Resumed(t)
  BY ResumeFacts DEF ParkCancelled
<1> USE DEF Resumed
<1>1. /\ cancel_requested' = [cancel_requested EXCEPT ![t] = FALSE]
      /\ UNCHANGED <<closed, send_waiters, cap, refs, received, parked_on_channel>>
  BY DEF ParkCancelled
<1>a. v \in Values /\ InWake(v)
  BY <1>0 DEF ChanInv, TaskOK, InWake
<1>2. /\ wake' \in [Tasks -> Wakes]
      /\ wake'[t].kind = "none" /\ \A u \in Tasks : u # t => wake'[u] = wake[u]
  BY <1>0, WokenFacts
<1>3. /\ cancel_requested' \in [Tasks -> BOOLEAN]
      /\ \A x \in Tasks : cancel_requested'[x] <=> x # t /\ cancel_requested[x]
  BY <1>0, <1>1 DEF ChanInv, TypeOK
<1>b. /\ buffer' \in Seq(Values) /\ Len(buffer') = Len(buffer) + 1 /\ Distinct(buffer')
      /\ \A x : InBuffer(x)' <=> x = v \/ InBuffer(x)
  <2>1. buffer \in Seq(Values) /\ Distinct(buffer) /\ ~Holds(buffer, v)
    BY <1>a DEF ChanInv, TypeOK, OnePlace, InBuffer
  <2>2. QED
    BY <1>a, <2>1, FrontMembers DEF InBuffer
<1>c. ~Waits("recv")
  BY LiveIffWaits
<1>4. TypeOK' /\ refs' = 0
  BY <1>0, <1>1, <1>2, <1>3, <1>b, FitsEmpty DEF ChanInv, TypeOK
<1>5. QueuesOK'
  BY <1>0, <1>1, FitsEmpty DEF ChanInv, QueuesOK, TypeOK
<1>6. \A x \in Tasks : TaskOK(x)' /\ ParkOK(x)'
  BY SMTT(20), <1>0, <1>1, <1>2, <1>3, <1>c DEF ChanInv, TaskOK, ParkOK, Waits
<1>7. MeetOK'
  <2>1. ~Waits("recv")' /\ (Waits("send")' => Waits("send"))
    BY <1>0, <1>1, <1>c DEF Waits
  <2>2. Len(buffer) \in Nat /\ cap \in Nat
    BY ChannelAssumption DEF ChanInv, TypeOK
  <2>3. QED
    BY <1>1, <1>b, <2>1, <2>2 DEF ChanInv, MeetOK
<1>8. SendOK'
  BY <1>2, ResumeSends DEF ParkCancelled
<1>9. OnePlace'
  <2>1. \A u \in Tasks : wake'[u].kind = "Recv" <=> u # t /\ wake[u].kind = "Recv"
    BY <1>2
  <2>2. \A x \in Values : InWake(x)' <=> x # v /\ InWake(x)
    <3>1. ASSUME NEW x \in Values, InWake(x)' PROVE x # v /\ InWake(x)
      BY <1>0, <1>2, <2>1, <3>1 DEF InWake, ChanInv, OnePlace
    <3>2. ASSUME NEW x \in Values, InWake(x), x # v PROVE InWake(x)'
      BY <1>2, <2>1, <3>2 DEF InWake
    <3>3. QED
      BY <3>1, <3>2
  <2>3. \A x, y \in Tasks : wake'[x].kind = "Recv" /\ wake'[y].kind = "Recv"
                              /\ wake'[x].val = wake'[y].val => x = y
    BY <1>2, <2>1 DEF ChanInv, OnePlace
  <2> HIDE DEF v
  <2>4. ASSUME NEW x \in Values
        PROVE  /\ InBuffer(x)' => ~InWake(x)' /\ received'[x] = 0
               /\ InWake(x)' => received'[x] = 0
               /\ received'[x] \in {0, 1}
               /\ fate'[x] = "accepted" <=> InBuffer(x)' \/ InWake(x)' \/ received'[x] = 1
    <3>1. /\ InBuffer(x) => ~InWake(x) /\ received[x] = 0
          /\ InWake(x) => received[x] = 0
          /\ received[x] \in {0, 1} /\ received'[x] = received[x]
          /\ fate'[x] = "accepted" <=> InBuffer(x) \/ InWake(x) \/ received[x] = 1
      BY <1>0, <1>1 DEF ChanInv, OnePlace
    <3>2. CASE x = v
      BY <1>a, <1>b, <2>2, <3>1, <3>2
    <3>3. CASE x # v
      BY <1>b, <2>2, <3>1, <3>3
    <3>4. QED
      BY <3>2, <3>3
  <2>5. QED
    BY <1>b, <2>3, <2>4 DEF OnePlace
<1>10. QED
  BY <1>4, <1>5, <1>6, <1>7, <1>8, <1>9 DEF ChanInv

(* The cancelled tail of channel_park, with and without a value.            *)
LEMMA ParkCancelledKeeps ==
  ASSUME ChanInv, NEW t \in LocalTasks, ParkCancelled(t)
  PROVE  ChanInv'
<1>1. CASE wake[t].kind # "Recv"
  BY <1>1, CancelledKeeps
<1>2. CASE wake[t].kind = "Recv" /\ deliver_to_recv(wake[t].val, Woken(t), outbound)
  BY <1>2, RedeliverKeeps
<1>3. CASE wake[t].kind = "Recv" /\ ~deliver_to_recv(wake[t].val, Woken(t), outbound)
  <2>1. /\ ~AnyLive(recv_waiters) /\ recv_waiters' = <<>>
        /\ buffer' = <<wake[t].val>> \o buffer /\ wake' = Woken(t)
        /\ UNCHANGED parked_on_channel
    BY <1>3 DEF ParkCancelled, channel_redeliver
  <2>2. QED
    BY <1>3, <2>1, RefileKeeps
<1>4. QED
  BY <1>1, <1>2, <1>3

(* The invariant is inductive.                                              *)
LEMMA ChanNext == ChanInv /\ [Next]_vars => ChanInv'
<1> SUFFICES ASSUME ChanInv, [Next]_vars PROVE ChanInv'
  OBVIOUS
<1>1. ASSUME NEW t \in LocalTasks, NEW v \in Values, channel_send(t, v) PROVE ChanInv'
  BY <1>1, SendKeeps
<1>2. ASSUME NEW t \in LocalTasks, channel_recv(t) PROVE ChanInv'
  BY <1>2, RecvKeeps
<1>3. ASSUME NEW t \in LocalTasks, channel_close(t) PROVE ChanInv'
  BY <1>3, CloseKeeps
<1>4. ASSUME NEW t \in LocalTasks, ParkElsewhere(t) \/ WakeElsewhere(t) PROVE ChanInv'
  BY <1>4, ParkElsewhereKeeps, WakeElsewhereKeeps
<1>5. ASSUME NEW t \in LocalTasks, request_cancel(t) PROVE ChanInv'
  BY <1>5, RequestCancelKeeps
<1>6. ASSUME NEW t \in LocalTasks, ParkCancelled(t) \/ ParkEnds(t) PROVE ChanInv'
  BY <1>6, ParkCancelledKeeps, ParkEndsKeeps
<1>7. CASE UNCHANGED vars
  BY <1>7 DEF vars, chanVars, wakeVars, coroVars, ChanInv, TypeOK, QueuesOK, TaskOK, ParkOK,
              MeetOK, Waits, SendOK, OnePlace, InBuffer, InWake
<1>8. QED
  BY <1>1, <1>2, <1>3, <1>4, <1>5, <1>6, <1>7 DEF Next, LocalNext

(* Every reachable state of the channel satisfies the invariant.            *)
THEOREM ChanInvariant == Spec => []ChanInv
<1>1. QED
  BY ChanInit, ChanNext, PTL DEF Spec

-----------------------------------------------------------------------------
(* What the invariant says of the channel.                                  *)

(* The variables of the channel and of its tasks keep their types.          *)
THEOREM TypeCorrect == Spec => []TypeOK
<1>1. ChanInv => TypeOK
  BY DEF ChanInv
<1>2. QED
  BY <1>1, ChanInvariant, PTL

(* The size of a set without members.                                       *)
LEMMA NoMember ==
  ASSUME NEW S, \A y : y \notin S
  PROVE  Cardinality(S) = 0
<1>1. S = {}
  OBVIOUS
<1>2. QED
  BY <1>1, FS_EmptySet

(* Counting the copies of a value.                                          *)
LEMMA Conserved == ChanInv => ValueConserved
<1> SUFFICES ASSUME ChanInv, NEW v \in Values
             PROVE  Copies(v) = IF fate[v] = "accepted" THEN 1 ELSE 0
  BY DEF ValueConserved
<1> DEFINE B == {i \in 1..Len(buffer) : buffer[i] = v}
           W == {t \in Tasks : wake[t] = Wake("Recv", v)}
<1>0. /\ InBuffer(v) => ~InWake(v) /\ received[v] = 0
      /\ InWake(v) => received[v] = 0
      /\ received[v] \in {0, 1}
      /\ fate[v] = "accepted" <=> InBuffer(v) \/ InWake(v) \/ received[v] = 1
  BY DEF ChanInv, OnePlace
<1>1. \A t \in Tasks : wake[t] = Wake("Recv", v) <=> wake[t].kind = "Recv" /\ wake[t].val = v
  <2>1. \A t \in Tasks : wake[t] \in Wakes
    BY DEF ChanInv, TypeOK
  <2>2. QED
    BY <2>1 DEF Wake
<1>2. Cardinality(B) = IF InBuffer(v) THEN 1 ELSE 0
  <2>1. CASE ~InBuffer(v)
    <3>1. \A i : i \notin B
      BY <2>1 DEF InBuffer, Holds
    <3> HIDE DEF B
    <3>2. QED
      BY <2>1, <3>1, NoMember
  <2>2. CASE InBuffer(v)
    <3>1. PICK i \in 1..Len(buffer) : buffer[i] = v
      BY <2>2 DEF InBuffer, Holds
    <3>2. B = {i}
      BY <3>1 DEF ChanInv, OnePlace, Distinct
    <3> HIDE DEF B
    <3>3. QED
      BY <2>2, <3>2, FS_Singleton
  <2>3. QED
    BY <2>1, <2>2
<1>3. Cardinality(W) = IF InWake(v) THEN 1 ELSE 0
  <2>1. CASE ~InWake(v)
    <3>1. \A t : t \notin W
      BY <1>1, <2>1 DEF InWake
    <3> HIDE DEF W
    <3>2. QED
      BY <2>1, <3>1, NoMember
  <2>2. CASE InWake(v)
    <3>1. PICK t \in Tasks : wake[t].kind = "Recv" /\ wake[t].val = v
      BY <2>2 DEF InWake
    <3>2. W = {t}
      BY <1>1, <3>1 DEF ChanInv, OnePlace
    <3> HIDE DEF W
    <3>3. QED
      BY <2>2, <3>2, FS_Singleton
  <2>3. QED
    BY <2>1, <2>2
<1>4. Copies(v) = Cardinality(B) + Cardinality(W) + received[v]
  BY DEF Copies
<1> HIDE DEF B, W
<1>5. QED
  BY <1>0, <1>2, <1>3, <1>4

(* For all tasks, values, capacities and interleavings of sends, receives,  *)
(* closes and cancels: a value whose send was accepted is in the buffer, in *)
(* one receiver's wake, or received once, and any other value is nowhere.   *)
THEOREM ValuesConserved == Spec => []ValueConserved
  BY Conserved, ChanInvariant, PTL

(* The queues hold each live waiter once, and only while it must wait.      *)
LEMMA Served == ChanInv => WaitersServed
<1> SUFFICES ASSUME ChanInv PROVE WaitersServed
  OBVIOUS
<1>0. /\ recv_waiters \in Seq(Entries) /\ send_waiters \in Seq(Entries)
      /\ QueueFits(recv_waiters, "recv", park_epoch, op, opval)
      /\ QueueFits(send_waiters, "send", park_epoch, op, opval)
  BY DEF ChanInv, TypeOK, QueuesOK
<1>1. NoMissedRendezvous
  BY LiveIffWaits DEF ChanInv, MeetOK, NoMissedRendezvous, Available
<1>2. ClosedWakesAll
  BY DEF ClosedWakesAll, ChanInv, ParkOK, Tasks
<1>3. WakeFitsOp
  BY DEF WakeFitsOp, ChanInv, TaskOK
<1>4. ASSUME NEW t \in LocalTasks, NEW q \in Seq(Entries), NEW what, what # "none",
             QueueFits(q, what, park_epoch, op, opval),
             parked_on_channel[t] /\ op[t] = what => QueuedAt(q, t, park_epoch[t])
      PROVE  Cardinality({i \in LiveIn(q) : ~q[i].remote /\ q[i].task = t}) =
               IF channel_waiter_live(t, park_epoch[t]) /\ op[t] = what THEN 1 ELSE 0
  <2> DEFINE S == {i \in LiveIn(q) : ~q[i].remote /\ q[i].task = t}
  <2>0. t \in Tasks /\ TaskOK(t)
    BY DEF Tasks, ChanInv
  <2>1. \A i : i \in S <=> i \in 1..Len(q) /\ EntryLive(q[i]) /\ ~q[i].remote /\ q[i].task = t
    BY DEF LiveIn
  <2> HIDE DEF S
  <2>2. \A i \in S : /\ i \in 1..Len(q) /\ q[i].task = t /\ q[i].id = park_epoch[t]
                     /\ parked_on_channel[t] /\ op[t] = what
    BY <1>4, <2>1, LiveEntry
  <2>3. channel_waiter_live(t, park_epoch[t]) <=> parked_on_channel[t]
    BY <2>0 DEF channel_waiter_live, TaskOK
  <2>4. CASE ~(parked_on_channel[t] /\ op[t] = what)
    <3>1. \A i : i \notin S
      BY <2>2, <2>4
    <3>2. Cardinality(S) = 0
      BY <3>1, NoMember
    <3>3. QED
      BY <2>3, <2>4, <3>2 DEF S
  <2>5. CASE parked_on_channel[t] /\ op[t] = what
    <3>1. PICK i \in 1..Len(q) : q[i].task = t /\ q[i].id = park_epoch[t]
      BY <1>4, <2>5 DEF QueuedAt
    <3>2. EntryLive(q[i])
      BY <2>0, <2>5, <3>1, EntryIsLive
    <3>3. ~q[i].remote
      BY <1>4, <3>2, LiveEntry
    <3>4. i \in S /\ \A j \in S : j = i
      BY <1>4, <2>1, <2>2, <3>1, <3>2, <3>3 DEF QueueFits
    <3>5. Cardinality(S) = 1
      <4>1. S = {i}
        BY <3>4
      <4>2. QED
        BY <4>1, FS_Singleton
    <3>6. QED
      BY <2>3, <2>5, <3>5 DEF S
  <2>6. QED
    BY <2>4, <2>5
<1>5. ParkedIsQueued
  <2> SUFFICES ASSUME NEW t \in LocalTasks
      PROVE /\ Cardinality({i \in LiveIn(recv_waiters) :
                              ~recv_waiters[i].remote /\ recv_waiters[i].task = t}) =
                 IF channel_waiter_live(t, park_epoch[t]) /\ op[t] = "recv" THEN 1 ELSE 0
            /\ Cardinality({i \in LiveIn(send_waiters) :
                              ~send_waiters[i].remote /\ send_waiters[i].task = t}) =
                 IF channel_waiter_live(t, park_epoch[t]) /\ op[t] = "send" THEN 1 ELSE 0
    BY DEF ParkedIsQueued
  <2>1. /\ parked_on_channel[t] /\ op[t] = "recv" => QueuedAt(recv_waiters, t, park_epoch[t])
        /\ parked_on_channel[t] /\ op[t] = "send" => QueuedAt(send_waiters, t, park_epoch[t])
    BY DEF ChanInv, ParkOK, Tasks
  <2>2. QED
    BY <1>0, <1>4, <2>1
<1>6. QED
  BY <1>1, <1>2, <1>3, <1>5 DEF WaitersServed

(* Nobody sleeps through what would serve it, whatever ghosts cancelled and *)
(* resumed tasks left in the queues.                                        *)
THEOREM WaitersAreServed == Spec => []WaitersServed
  BY Served, ChanInvariant, PTL

-----------------------------------------------------------------------------
(* The outcome of a send.                                                   *)

(* No step changes the outcome of a send.                                   *)
LEMMA FateStep ==
  ASSUME ChanInv, [Next]_vars, NEW v \in Values, fate[v] \in {"accepted", "refused", "cancelled"}
  PROVE  fate'[v] = fate[v]
<1> USE DEF Promoted, Unparked
<1>0. fate \in [Values -> {"new", "parked", "accepted", "refused", "cancelled"}]
  BY DEF ChanInv, TypeOK
<1>1. ASSUME NEW t \in LocalTasks, NEW x \in Values, channel_send(t, x) PROVE fate'[v] = fate[v]
  BY <1>0, <1>1 DEF channel_send, SendRefused, SendHandOff, SendBuffered, SendParked
<1>2. ASSUME NEW t \in LocalTasks, channel_recv(t) PROVE fate'[v] = fate[v]
  <2>1. CASE RecvClosed \/ RecvParked(t)
    BY <2>1 DEF RecvClosed, RecvParked
  <2>2. CASE RecvNow /\ ~AnyLive(send_waiters)
    BY <2>2 DEF RecvNow, TakeBuffered, TakeFromSender
  <2>3. CASE RecvNow /\ AnyLive(send_waiters)
    <3>1. send_waiters' = AfterPop(send_waiters) /\ complete_send(PopLive(send_waiters))
      BY <2>3 DEF RecvNow, TakeBuffered, TakeFromSender
    <3>2. PICK u \in LocalTasks : /\ fate[opval[u]] = "parked"
                                  /\ \A x \in Values : x # opval[u] => fate'[x] = fate[x]
      BY <2>3, <3>1, AcceptFacts
    <3>3. QED
      BY <3>2
  <2>4. QED
    BY <1>2, <2>1, <2>2, <2>3 DEF channel_recv
<1>3. ASSUME NEW t \in LocalTasks, channel_close(t) \/ ParkElsewhere(t) \/ WakeElsewhere(t)
                                     \/ request_cancel(t)
      PROVE  fate'[v] = fate[v]
  BY <1>3 DEF channel_close, ParkElsewhere, WakeElsewhere, request_cancel
<1>4. ASSUME NEW t \in LocalTasks, ParkCancelled(t) \/ ParkEnds(t) PROVE fate'[v] = fate[v]
  BY <1>4 DEF ParkCancelled, ParkEnds, SendEnds
<1>5. CASE UNCHANGED vars
  BY <1>5 DEF vars
<1>6. QED
  BY <1>1, <1>2, <1>3, <1>4, <1>5 DEF Next, LocalNext

(* A send that was accepted, refused or cancelled stays so: its ghost entry *)
(* is never promoted, and a late cancel does not take its value back.       *)
THEOREM OutcomesFinal == Spec => SendOutcomeFinal
<1>1. ChanInv /\ [Next]_vars =>
        [\A v \in Values : fate[v] \in {"accepted", "refused", "cancelled"} =>
           fate'[v] = fate[v]]_vars
  BY FateStep
<1>2. QED
  BY <1>1, ChanInvariant, PTL DEF Spec, SendOutcomeFinal

-----------------------------------------------------------------------------
(* The refinement: buffer is the queue, the wakes hold the values in hand.  *)

(* How the values in hand change with the wakes.                            *)
LEMMA WakesSame ==
  ASSUME \A x \in Tasks : /\ wake'[x].kind = "Recv" <=> wake[x].kind = "Recv"
                          /\ wake[x].kind = "Recv" => wake'[x].val = wake[x].val
  PROVE  InWakes' = InWakes
  BY DEF InWakes

(* A receiver is given a value ...                                          *)
LEMMA WakesGain ==
  ASSUME NEW u \in Tasks, wake[u].kind # "Recv", wake'[u].kind = "Recv",
         \A x \in Tasks : x # u => wake'[x] = wake[x]
  PROVE  InWakes' = InWakes \cup {wake'[u].val}
  BY DEF InWakes

(* ... resumes with it, or gives it back ...                                *)
LEMMA WakesLose ==
  ASSUME ChanInv, NEW t \in Tasks, wake[t].kind = "Recv", wake'[t].kind # "Recv",
         \A x \in Tasks : x # t => wake'[x] = wake[x]
  PROVE  InWakes' = InWakes \ {wake[t].val} /\ wake[t].val \in InWakes
<1>1. \A x \in Tasks : x # t /\ wake[x].kind = "Recv" => wake[x].val # wake[t].val
  BY DEF ChanInv, OnePlace
<1>2. QED
  BY <1>1 DEF InWakes

(* ... or it goes on to another receiver.                                   *)
LEMMA WakesMove ==
  ASSUME NEW t \in Tasks, NEW u \in Tasks, wake[t].kind = "Recv", wake[u].kind = "none",
         wake'[u].kind = "Recv", wake'[u].val = wake[t].val, wake'[t].kind = "none",
         \A x \in Tasks : x # t /\ x # u => wake'[x] = wake[x]
  PROVE  InWakes' = InWakes
<1>1. t # u
  OBVIOUS
<1>2. \A x \in Tasks : wake'[x].kind = "Recv" => wake'[x].val \in InWakes
  BY <1>1 DEF InWakes
<1>3. \A x \in Tasks : wake[x].kind = "Recv" => \E y \in Tasks : wake'[y].kind = "Recv"
                                                                 /\ wake'[y].val = wake[x].val
  BY <1>1
<1>4. QED
  BY <1>2, <1>3 DEF InWakes

(* A value the channel has not accepted is fresh.                           *)
LEMMA FreshValue ==
  ASSUME ChanInv, NEW v \in Values, fate[v] # "accepted"
  PROVE  v \in Abstract!Fresh
<1>1. ~InBuffer(v) /\ ~InWake(v) /\ received[v] = 0
  BY NotPlaced
<1>2. v \notin {buffer[i] : i \in 1..Len(buffer)}
  BY <1>1 DEF InBuffer, Holds
<1>3. v \notin InWakes
  BY <1>1 DEF InWakes, InWake
<1>4. v \notin {x \in Values : received[x] > 0}
  BY <1>1
<1>5. QED
  BY <1>2, <1>3, <1>4 DEF Abstract!Fresh, Abstract!Accepted

(* Steps that move no value.                                                *)
LEMMA Stutters ==
  ASSUME buffer' = buffer, received' = received,
         \A x \in Tasks : /\ wake'[x].kind = "Recv" <=> wake[x].kind = "Recv"
                          /\ wake[x].kind = "Recv" => wake'[x].val = wake[x].val
  PROVE  UNCHANGED Abstract!vars
<1>1. InWakes' = InWakes
  BY WakesSame
<1>2. QED
  BY <1>1 DEF Abstract!vars

(* A send hands its value off, queues it, or changes nothing yet.           *)
LEMMA SendMaps ==
  ASSUME ChanInv, NEW t \in LocalTasks, NEW v \in Values, channel_send(t, v)
  PROVE  [Abstract!Next]_(Abstract!vars)
<1> USE DEF Delivered, Unparked
<1>0. fate[v] # "accepted" /\ received' = received /\ v \in Abstract!Fresh
  BY FreshValue DEF channel_send
<1>1. CASE SendRefused(v)
  <2>1. buffer' = buffer /\ wake' = wake
    BY <1>1 DEF SendRefused, chanVars, wakeVars
  <2>2. QED
    BY <1>0, <2>1, Stutters
<1>2. CASE SendHandOff(v)
  <2>1. wake \in [Tasks -> Wakes]
    BY DEF ChanInv, TypeOK
  <2>2. PICK u \in LocalTasks :
           /\ u \in Tasks /\ wake[u].kind = "none"
           /\ wake'[u].kind = "Recv" /\ wake'[u].val = v
           /\ \A x \in Tasks : x # u => wake'[x] = wake[x]
           /\ buffer' = buffer /\ buffer = <<>>
    BY <1>2, <2>1, DeliverFacts DEF SendHandOff
  <2>3. InWakes' = InWakes \cup {v}
    BY <2>2, WakesGain
  <2>4. Abstract!HandOff(v)
    BY <1>0, <2>2, <2>3 DEF Abstract!HandOff
  <2>5. QED
    BY <1>0, <2>4 DEF Abstract!Next
<1>3. CASE SendBuffered(v)
  <2>1. buffer' = Append(buffer, v) /\ wake' = wake
    BY <1>3 DEF SendBuffered, wakeVars
  <2>2. InWakes' = InWakes
    BY <2>1, WakesSame
  <2>3. Abstract!Enqueue(v)
    BY <1>0, <2>1, <2>2 DEF Abstract!Enqueue
  <2>4. QED
    BY <1>0, <2>3 DEF Abstract!Next
<1>4. CASE SendParked(t, v)
  <2>1. buffer' = buffer /\ wake' = wake
    BY <1>4 DEF SendParked
  <2>2. QED
    BY <1>0, <2>1, Stutters
<1>5. QED
  BY <1>1, <1>2, <1>3, <1>4 DEF channel_send

(* A receive takes from the queue, meets a sender, or changes nothing.      *)
LEMMA RecvMaps ==
  ASSUME ChanInv, NEW t \in LocalTasks, channel_recv(t)
  PROVE  [Abstract!Next]_(Abstract!vars)
<1> USE DEF Promoted, Unparked
<1>0. buffer \in Seq(Values) /\ received \in [Values -> Nat]
  BY DEF ChanInv, TypeOK
<1>a. ASSUME NEW h \in Values, received' = [received EXCEPT ![h] = @ + 1]
      PROVE  {v \in Values : received'[v] > 0} = {v \in Values : received[v] > 0} \cup {h}
  <2>1. /\ received'[h] > 0 /\ \A x \in Values : x # h => received'[x] = received[x]
    BY <1>0, <1>a
  <2>2. QED
    BY <2>1
<1>b. ASSUME AnyLive(send_waiters), send_waiters' = AfterPop(send_waiters),
             complete_send(PopLive(send_waiters))
      PROVE  InWakes' = InWakes /\ PopLive(send_waiters).val \in Abstract!Fresh
  <2>1. PICK u \in LocalTasks :
           /\ u \in Tasks /\ opval[u] = PopLive(send_waiters).val /\ opval[u] \in Values
           /\ fate[opval[u]] = "parked" /\ wake[u].kind = "none" /\ wake'[u].kind = "SendOk"
           /\ \A x \in Tasks : x # u => wake'[x] = wake[x]
    BY <1>b, AcceptFacts
  <2>2. \A x \in Tasks : /\ wake'[x].kind = "Recv" <=> wake[x].kind = "Recv"
                         /\ wake[x].kind = "Recv" => wake'[x].val = wake[x].val
    BY <2>1
  <2>3. InWakes' = InWakes
    BY <2>2, WakesSame
  <2>4. QED
    BY <2>1, <2>3, FreshValue
<1>1. CASE RecvNow /\ TakeBuffered
  <2>1. /\ buffer # <<>> /\ Head(buffer) \in Values
        /\ received' = [received EXCEPT ![Head(buffer)] = @ + 1]
    BY <1>0, <1>1 DEF RecvNow, TakeBuffered, Oldest
  <2>2. {v \in Values : received'[v] > 0} = {v \in Values : received[v] > 0} \cup {Head(buffer)}
    BY <1>a, <2>1
  <2>3. /\ InWakes' = InWakes
        /\ \/ buffer' = Tail(buffer)
           \/ \E v \in Abstract!Fresh : buffer' = Append(Tail(buffer), v)
    <3>1. CASE AnyLive(send_waiters)
      BY <1>1, <1>b, <3>1 DEF TakeBuffered
    <3>2. CASE ~AnyLive(send_waiters)
      <4>1. wake' = wake /\ buffer' = Tail(buffer)
        BY <1>1, <3>2 DEF TakeBuffered, wakeVars
      <4>2. QED
        BY <4>1, WakesSame
    <3>3. QED
      BY <3>1, <3>2
  <2>4. Abstract!Take
    BY <2>1, <2>2, <2>3 DEF Abstract!Take
  <2>5. QED
    BY <2>4 DEF Abstract!Next
<1>2. CASE RecvNow /\ TakeFromSender
  <2>0. PICK v : v = PopLive(send_waiters).val
    OBVIOUS
  <2>1. /\ buffer = <<>> /\ buffer' = buffer /\ InWakes' = InWakes /\ v \in Abstract!Fresh
        /\ received' = [received EXCEPT ![v] = @ + 1]
    BY <1>2, <1>b, <2>0 DEF RecvNow, TakeFromSender, Oldest
  <2>2. {x \in Values : received'[x] > 0} = {x \in Values : received[x] > 0} \cup {v}
    BY <1>a, <2>1 DEF Abstract!Fresh
  <2>3. Abstract!Meet(v)
    BY <2>1, <2>2 DEF Abstract!Meet
  <2>4. QED
    BY <2>1, <2>3 DEF Abstract!Next
<1>3. CASE RecvClosed \/ RecvParked(t)
  <2>1. buffer' = buffer /\ wake' = wake /\ received' = received
    BY <1>3 DEF RecvClosed, RecvParked, wakeVars
  <2>2. QED
    BY <2>1, Stutters
<1>4. QED
  BY <1>1, <1>2, <1>3 DEF channel_recv, RecvNow

(* A resumed receiver consumes its value, gives it back or passes it on.    *)
LEMMA ResumeMaps ==
  ASSUME ChanInv, NEW t \in LocalTasks, ParkCancelled(t) \/ ParkEnds(t)
  PROVE  [Abstract!Next]_(Abstract!vars)
<1> USE DEF Delivered, Unparked
<1>0. /\ t \in Tasks /\ received \in [Values -> Nat]
      /\ wake[t].kind = "Recv" => wake[t].val \in Values
      /\ Woken(t) \in [Tasks -> Wakes]
      /\ Woken(t)[t].kind = "none" /\ \A u \in Tasks : u # t => Woken(t)[u] = wake[u]
  <2>1. t \in Tasks /\ TaskOK(t) /\ received \in [Values -> Nat]
    BY DEF Tasks, ChanInv, TypeOK
  <2>2. QED
    BY <2>1, WokenFacts DEF TaskOK
<1>1. CASE ParkEnds(t) /\ wake[t].kind = "Recv"
  <2>0. PICK v : v = wake[t].val
    OBVIOUS
  <2>1. /\ wake' = Woken(t) /\ buffer' = buffer
        /\ received' = [x \in Values |-> IF x = v THEN received[x] + 1 ELSE received[x]]
    BY <1>1, <2>0 DEF ParkEnds, chanVars
  <2>2. InWakes' = InWakes \ {v} /\ v \in InWakes
    BY <1>0, <1>1, <2>0, <2>1, WakesLose
  <2>3. {x \in Values : received'[x] > 0} = {x \in Values : received[x] > 0} \cup {v}
    BY <1>0, <1>1, <2>0, <2>1
  <2>4. Abstract!Consume(v)
    BY <2>1, <2>2, <2>3 DEF Abstract!Consume
  <2>5. QED
    BY <2>2, <2>4 DEF Abstract!Next
<1>2. CASE ParkEnds(t) /\ wake[t].kind # "Recv"
  <2>1. /\ wake' = Woken(t) /\ buffer' = buffer
        /\ received' = [x \in Values |-> received[x]]
    BY <1>2 DEF ParkEnds, chanVars
  <2>2. received' = received
    BY <1>0, <2>1
  <2>3. \A x \in Tasks : /\ wake'[x].kind = "Recv" <=> wake[x].kind = "Recv"
                         /\ wake[x].kind = "Recv" => wake'[x].val = wake[x].val
    BY <1>0, <1>2, <2>1
  <2>4. QED
    BY <2>1, <2>2, <2>3, Stutters
<1>3. CASE ParkCancelled(t) /\ wake[t].kind # "Recv"
  <2>1. wake' = Woken(t) /\ buffer' = buffer /\ received' = received
    BY <1>3 DEF ParkCancelled
  <2>2. \A x \in Tasks : /\ wake'[x].kind = "Recv" <=> wake[x].kind = "Recv"
                         /\ wake[x].kind = "Recv" => wake'[x].val = wake[x].val
    BY <1>0, <1>3, <2>1
  <2>3. QED
    BY <2>1, <2>2, Stutters
<1>4. CASE ParkCancelled(t) /\ wake[t].kind = "Recv"
  <2>a. PICK v : v = wake[t].val
    OBVIOUS
  <2>0. received' = received /\ v \in Values
    BY <1>0, <1>4, <2>a DEF ParkCancelled
  <2>1. CASE deliver_to_recv(v, Woken(t), outbound)
    <3>1. PICK u \in LocalTasks :
             /\ u \in Tasks /\ wake[u].kind = "none"
             /\ wake'[u].kind = "Recv" /\ wake'[u].val = v
             /\ \A x \in Tasks : x # u => wake'[x] = Woken(t)[x]
             /\ buffer' = buffer
      BY <1>0, <2>0, <2>1, DeliverFacts
    <3>2. wake'[t].kind = "none" /\ \A x \in Tasks : x # t /\ x # u => wake'[x] = wake[x]
      BY <1>0, <1>4, <3>1
    <3>3. InWakes' = InWakes
      BY <1>0, <1>4, <2>a, <3>1, <3>2, WakesMove
    <3>4. QED
      BY <2>0, <3>1, <3>3 DEF Abstract!vars
  <2>2. CASE ~deliver_to_recv(v, Woken(t), outbound)
    <3>1. buffer' = <<v>> \o buffer /\ wake' = Woken(t)
      BY <1>4, <2>a, <2>2 DEF ParkCancelled, channel_redeliver
    <3>2. InWakes' = InWakes \ {v} /\ v \in InWakes
      BY <1>0, <1>4, <2>a, <3>1, WakesLose
    <3>3. Abstract!GiveBack(v)
      BY <2>0, <3>1, <3>2 DEF Abstract!GiveBack
    <3>4. QED
      BY <3>2, <3>3 DEF Abstract!Next
  <2>3. QED
    BY <2>1, <2>2
<1>5. QED
  BY <1>1, <1>2, <1>3, <1>4

(* Every step of the channel is a step of the queue, or a stutter.          *)
LEMMA StepMaps == ChanInv /\ [Next]_vars => [Abstract!Next]_(Abstract!vars)
<1> USE DEF ClosedHere
<1> SUFFICES ASSUME ChanInv, [Next]_vars PROVE [Abstract!Next]_(Abstract!vars)
  OBVIOUS
<1>1. ASSUME NEW t \in LocalTasks, NEW v \in Values, channel_send(t, v)
      PROVE  [Abstract!Next]_(Abstract!vars)
  BY <1>1, SendMaps
<1>2. ASSUME NEW t \in LocalTasks, channel_recv(t) PROVE [Abstract!Next]_(Abstract!vars)
  BY <1>2, RecvMaps
<1>3. ASSUME NEW t \in LocalTasks, channel_close(t) PROVE [Abstract!Next]_(Abstract!vars)
  <2>1. /\ buffer' = buffer /\ received' = received
        /\ \A x \in Tasks : IF parked_on_channel[x] /\ op[x] # "other"
                            THEN wake'[x].kind = "Closed" ELSE wake'[x] = wake[x]
    BY <1>3, CloseFacts DEF channel_close
  <2>2. \A x \in Tasks : parked_on_channel[x] => wake[x].kind = "none"
    BY DEF ChanInv, TaskOK
  <2>3. \A x \in Tasks : /\ wake'[x].kind = "Recv" <=> wake[x].kind = "Recv"
                         /\ wake[x].kind = "Recv" => wake'[x].val = wake[x].val
    BY <2>1, <2>2
  <2>4. QED
    BY <2>1, <2>3, Stutters
<1>4. ASSUME NEW t \in LocalTasks, ParkElsewhere(t) \/ request_cancel(t)
      PROVE  [Abstract!Next]_(Abstract!vars)
  <2>1. buffer' = buffer /\ wake' = wake /\ received' = received
    BY <1>4 DEF ParkElsewhere, request_cancel, chanVars
  <2>2. QED
    BY <2>1, Stutters
<1>5. ASSUME NEW t \in LocalTasks, WakeElsewhere(t) PROVE [Abstract!Next]_(Abstract!vars)
  <2>1. /\ t \in Tasks /\ wake[t].kind = "none" /\ buffer' = buffer /\ received' = received
        /\ wake' = [wake EXCEPT ![t] = Wake("Other", NoVal)]
    BY <1>5 DEF WakeElsewhere, wake_channel_task, channel_waiter_live, chanVars, Tasks, ChanInv,
                TaskOK
  <2>2. /\ wake'[t].kind = "Other" /\ \A x \in Tasks : x # t => wake'[x] = wake[x]
    BY <2>1 DEF ChanInv, TypeOK, Wake
  <2>3. QED
    BY <2>1, <2>2, Stutters
<1>6. ASSUME NEW t \in LocalTasks, ParkCancelled(t) \/ ParkEnds(t)
      PROVE  [Abstract!Next]_(Abstract!vars)
  BY <1>6, ResumeMaps
<1>7. CASE UNCHANGED vars
  <2>1. buffer' = buffer /\ wake' = wake /\ received' = received
    BY <1>7 DEF vars, chanVars, wakeVars
  <2>2. QED
    BY <2>1, Stutters
<1>8. QED
  BY <1>1, <1>2, <1>3, <1>4, <1>5, <1>6, <1>7 DEF Next, LocalNext

(* Every behaviour of the channel is one of the lossless, at-most-once FIFO *)
(* queue of AbstractChannel.                                                *)
THEOREM Refinement == Spec => ImplementsAbstractChannel
<1>1. Init => Abstract!Init
  BY DEF Init, Abstract!Init, InWakes, NoWake, Wake
<1>2. QED
  BY <1>1, StepMaps, ChanInvariant, PTL DEF Spec, ImplementsAbstractChannel, Abstract!Spec
=============================================================================
