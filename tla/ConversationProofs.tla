------------------------- MODULE ConversationProofs -------------------------
(* Proofs about Conversation: however callers nest, abandon and repeat      *)
(* their conversations, on any number of lanes, the two relays and the two  *)
(* stacks stay in step.                                                     *)
EXTENDS Conversation, TLAPS, SequenceTheorems

-----------------------------------------------------------------------------
(* The inductive invariant.  A conversation has one frame or one turn: it   *)
(* is with the caller, on one of the four hops down, with the fiber, or on  *)
(* one of the hops up, and where it is fixes what both relays count and how *)
(* the stacks of the caller and of the fiber differ.                        *)

Ids     == {<<>>} \cup (Convs \X Nat)
Frames  == [k : {"call", "ret"}, id : Ids]
Levels  == [k : {"call", "cb"}, id : Ids]
FLevels == [k : {"call", "op"}, id : Ids]

(* The fiber's stack: calls it serves and host-ops it waits for alternate.  *)
FiberShape(F) ==
    /\ F \in Seq(FLevels)
    /\ F # <<>> => F[1].k = "call"
    /\ \A i, j \in 1..Len(F) : j = i + 1 => F[i].k # F[j].k
InOp(F) == F # <<>> /\ F[Len(F)].k = "op"

(* The caller's levels 1..n mirror the fiber's: the block of a host-op runs *)
(* where the fiber waits for it.                                            *)
Mirrors(s, F, n) ==
    \A i \in 1..n : /\ s[i].k = (IF F[i].k = "op" THEN "cb" ELSE "call")
                    /\ s[i].id = F[i].id

(* Frame f is on its way down, up, or there is none.                        *)
DownFits(s, F, f) ==
    \/ f.k = "call" /\ Len(s) = Len(F) + 1 /\ Mirrors(s, F, Len(F))
                    /\ s[Len(s)].k = "call" /\ s[Len(s)].id = f.id
    \/ f.k = "ret" /\ Len(s) = Len(F) - 1 /\ Mirrors(s, F, Len(s))
UpOK(F, f) ==
    \/ f.k = "call" /\ InOp(F) /\ F[Len(F)].id = f.id
    \/ f.k = "ret" /\ (F = <<>> \/ InOp(F))
UpFits(s, F, f) ==
    \/ f.k = "call" /\ Len(s) = Len(F) - 1 /\ Mirrors(s, F, Len(s))
    \/ f.k = "ret" /\ Len(s) = Len(F) + 1 /\ Mirrors(s, F, Len(F))
                   /\ s[Len(s)].k = "call" /\ s[Len(s)].id = f.id
TurnFits(s, F) == Len(s) = Len(F) /\ Mirrors(s, F, Len(F))

(* What a lane holds, and what the task of a conversation knows of it.      *)
LaneView(l) ==
    [pump |-> pump[l], loop |-> loop[l], fiber |-> fiber[l], down |-> down[l],
     up |-> up[l], fup |-> fup[l], fdown |-> fdown[l]]
CallerView(c) ==
    [st |-> st[c], stack |-> stack[c], reply |-> reply[c], hostops |-> hostops[c],
     served |-> served[c]]

At(pc, c, d) == [pc |-> pc, conv |-> c, depth |-> d]
Wires(w, d, u, fu, fd) == w.down = d /\ w.up = u /\ w.fup = fu /\ w.fdown = fd
Talks(v) == v.st = "active"

(* The depth that f changed, or will change, to n.                          *)
Before(n, f) == IF f.k = "call" THEN n - 1 ELSE n + 1

(* The places of the frame, for lane w and caller v of conversation c.      *)
Starting(c, w, v) ==
    /\ w.pump = At("read", c, 1) /\ w.loop = Idle /\ w.fiber = <<>>
    /\ Wires(w, <<Call(c, 1)>>, <<>>, <<>>, <<>>)
    /\ v.hostops = <<>>
    /\ Talks(v) => v.reply = <<>> /\ v.stack = <<Call(c, 1)>>
GoingDown(c, w, v, f) ==
    /\ w.pump = At("read", c, Level(Len(w.fiber), f))
    /\ w.loop = At("down", c, Len(w.fiber)) /\ InOp(w.fiber)
    /\ Wires(w, <<f>>, <<>>, <<>>, <<>>)
    /\ v.hostops = <<>>
    /\ Talks(v) => v.reply = <<>> /\ DownFits(v.stack, w.fiber, f)
ToFiber(c, w, v, f) ==
    /\ w.pump = At("read", c, Level(Len(w.fiber), f))
    /\ w.loop = At("reply", c, Level(Len(w.fiber), f)) /\ InOp(w.fiber)
    /\ Wires(w, <<>>, <<>>, <<>>, <<f>>)
    /\ v.hostops = <<>>
    /\ Talks(v) => v.reply = <<>> /\ DownFits(v.stack, w.fiber, f)
WithFiber(c, w, v) ==
    /\ w.pump = At("read", c, Len(w.fiber)) /\ w.loop = At("reply", c, Len(w.fiber))
    /\ w.fiber # <<>> /\ w.fiber[Len(w.fiber)].k = "call"
    /\ Wires(w, <<>>, <<>>, <<>>, <<>>)
    /\ v.hostops = <<>>
    /\ Talks(v) => v.reply = <<>> /\ TurnFits(v.stack, w.fiber)
FromFiber(c, w, v, f) ==
    /\ w.pump = At("read", c, Before(Len(w.fiber), f))
    /\ w.loop = At("reply", c, Before(Len(w.fiber), f)) /\ UpOK(w.fiber, f)
    /\ Wires(w, <<>>, <<>>, <<f>>, <<>>)
    /\ v.hostops = <<>>
    /\ Talks(v) => v.reply = <<>> /\ UpFits(v.stack, w.fiber, f)
GoingUp(c, w, v, f) ==
    /\ w.pump = At("read", c, Before(Len(w.fiber), f))
    /\ w.loop = (IF w.fiber = <<>> THEN Idle ELSE At("down", c, Len(w.fiber)))
    /\ UpOK(w.fiber, f)
    /\ Wires(w, <<>>, <<f>>, <<>>, <<>>)
    /\ v.hostops = <<>>
    /\ Talks(v) => v.reply = <<>> /\ UpFits(v.stack, w.fiber, f)

(* With the caller: it runs a block, or has the frame in one of its queues. *)
InBlock(w, v)    == /\ v.reply = <<>> /\ v.hostops = <<>>
                    /\ TurnFits(v.stack, w.fiber)
Told(w, v, f)    == /\ v.reply = <<f>> /\ v.hostops = <<>>
                    /\ UpOK(w.fiber, f) /\ UpFits(v.stack, w.fiber, f)
HasSaid(w, v, f) == /\ v.reply = <<>> /\ v.hostops = <<f>>
                    /\ DownFits(v.stack, w.fiber, f)
WithCaller(c, w, v) ==
    /\ w.pump = At("down", c, Len(w.fiber)) /\ w.loop = At("down", c, Len(w.fiber))
    /\ InOp(w.fiber)
    /\ Wires(w, <<>>, <<>>, <<>>, <<>>)
    /\ v.hostops = <<>> \/ \E f \in Frames : v.hostops = <<f>>
    /\ Talks(v) => InBlock(w, v) \/ \E f \in Frames : Told(w, v, f) \/ HasSaid(w, v, f)

OnLane(c, w, v) ==
    /\ v.served = "held" /\ v.st # "new" /\ FiberShape(w.fiber)
    /\ \/ Starting(c, w, v) \/ WithFiber(c, w, v) \/ WithCaller(c, w, v)
       \/ \E f \in Frames : \/ GoingDown(c, w, v, f) \/ ToFiber(c, w, v, f)
                            \/ FromFiber(c, w, v, f) \/ GoingUp(c, w, v, f)
AtRest(w) == /\ w.pump = Idle /\ w.loop = Idle /\ w.fiber = <<>>
             /\ Wires(w, <<>>, <<>>, <<>>, <<>>)

(* A conversation no pump has: not begun, in the queue, or dropped.         *)
Aside(c, v) ==
    /\ v.served = "no" => /\ v.reply = <<>> /\ v.hostops = <<>>
                          /\ Talks(v) => v.stack = <<Call(c, 1)>>
    /\ v.st = "new" => v.served = "no"
    /\ Talks(v) => v.stack # <<>>
    /\ v.served = "dropped" /\ Talks(v) =>
          \/ v.reply = <<>>
          \/ \E f \in Frames : /\ v.reply = <<f>> /\ v.stack[Len(v.stack)].k = "call"
                               /\ f.k = "ret" => v.stack[Len(v.stack)].id = f.id

ConvTypes ==
    /\ st \in [Convs -> {"new", "active", "done", "cancelled", "died"}]
    /\ stack \in [Convs -> Seq(Levels)] /\ made \in [Convs -> Nat]
    /\ DOMAIN reply = Convs /\ DOMAIN hostops = Convs
    /\ served \in [Convs -> {"no", "held", "dropped"}]
    /\ queue \in [open : BOOLEAN, reqs : Seq(Convs)]
    /\ pump \in [Lanes -> [pc : {"idle", "read", "down", "broken", "exited"},
                           conv : Convs \cup {0}, depth : Int]]
    /\ DOMAIN down = Lanes /\ DOMAIN up = Lanes /\ DOMAIN loop = Lanes
    /\ DOMAIN fiber = Lanes /\ DOMAIN fup = Lanes /\ DOMAIN fdown = Lanes

Engaged(l) == pump[l].pc \in {"read", "down"}
Carries(l, c) == Engaged(l) /\ pump[l].conv = c

(* The queue holds each conversation once, before any pump has had it.      *)
Pending(c) == served[c] = "no" /\ st[c] # "new"
QueueOK ==
    /\ \A i \in 1..Len(queue.reqs) : Pending(queue.reqs[i])
    /\ \A i, j \in 1..Len(queue.reqs) : queue.reqs[i] = queue.reqs[j] => i = j

LaneOK(l) ==
    /\ Engaged(l) => \E c \in Convs : OnLane(c, LaneView(l), CallerView(c))
    /\ pump[l].pc = "idle" => AtRest(LaneView(l))
ConvOK(c) ==
    /\ Aside(c, CallerView(c))
    /\ served[c] = "held" => \E l \in Lanes : Carries(l, c)
OneLane == \A l, m \in Lanes, c \in Convs : Carries(l, c) /\ Carries(m, c) => l = m

InStep ==
    /\ ConvTypes /\ QueueOK /\ OneLane
    /\ \A l \in Lanes : LaneOK(l)
    /\ \A c \in Convs : ConvOK(c)
ConvInv == tainted = {} => InStep

-----------------------------------------------------------------------------
(* Sequences of one frame, and stacks.                                      *)

(* A queue that holds one frame.                                            *)
LEMMA OneFrame ==
  ASSUME NEW f
  PROVE  /\ Append(<<>>, f) = <<f>> /\ Head(<<f>>) = f /\ Tail(<<f>>) = <<>>
         /\ <<f>> # <<>>
OBVIOUS

(* A stack without its top.                                                 *)
Popped(p, q) ==
    /\ Len(p) = Len(q) - 1 /\ Len(q) >= 1 /\ Len(p) \in Nat /\ Len(q) \in Nat
    /\ \A i \in 1..Len(p) : p[i] = q[i] /\ i \in 1..Len(q)
(* Popping keeps the levels below.                                          *)
LEMMA PopStack ==
  ASSUME NEW S, NEW q \in Seq(S), q # <<>>
  PROVE  Pop(q) \in Seq(S) /\ Popped(Pop(q), q)
<1>1. Len(q) \in Nat /\ Len(q) # 0 OBVIOUS
<1>2. PICK m \in Nat : Len(q) = m + 1
  <2>1. Len(q) - 1 \in Nat /\ Len(q) = (Len(q) - 1) + 1 BY <1>1
  <2> QED BY <2>1
<1>3. m \in Int /\ 1 \in Int /\ Len(q) - 1 = m BY <1>2
<1>4. \A i \in 1..m : q[i] \in S BY <1>2
<1>5. /\ SubSeq(q, 1, m) \in Seq(S) /\ Len(SubSeq(q, 1, m)) = IF 1 <= m THEN m - 1 + 1 ELSE 0
      /\ \A i \in 1..(m - 1 + 1) : SubSeq(q, 1, m)[i] = q[1 + i - 1]
  BY <1>3, <1>4, SubSeqProperties
<1>6. Len(SubSeq(q, 1, m)) = m BY <1>5
<1>7. \A i \in 1..m : SubSeq(q, 1, m)[i] = q[i] /\ i \in 1..Len(q) BY <1>2, <1>5
<1>8. Pop(q) = SubSeq(q, 1, m) BY <1>3 DEF Pop
<1> QED BY <1>2, <1>5, <1>6, <1>7, <1>8 DEF Popped

(* A stack with one level more.                                             *)
Pushed(p, q, e) ==
    /\ Len(p) = Len(q) + 1 /\ Len(q) \in Nat /\ p[Len(p)] = e /\ p # <<>>
    /\ \A i \in 1..Len(q) : p[i] = q[i] /\ i \in 1..Len(p)
(* Pushing keeps the levels below.                                          *)
LEMMA PushStack ==
  ASSUME NEW S, NEW q \in Seq(S), NEW e \in S
  PROVE  Append(q, e) \in Seq(S) /\ Pushed(Append(q, e), q, e)
BY DEF Pushed

-----------------------------------------------------------------------------
(* How the two stacks move apart and together again.                        *)

(* A fiber inside a host-op has the call it serves below it.                *)
LEMMA OpOverCall ==
  ASSUME NEW F, FiberShape(F), InOp(F)
  PROVE  Len(F) \in Nat /\ Len(F) >= 2 /\ F[Len(F) - 1].k = "call" /\ Len(F) - 1 \in 1..Len(F)
<1>1. F \in Seq(FLevels) /\ Len(F) \in Nat /\ Len(F) # 0 BY DEF FiberShape, InOp
<1>2. Len(F) # 1 BY DEF FiberShape, InOp
<1> DEFINE n == Len(F)
<1>0. n \in Nat /\ n # 0 /\ n # 1 BY <1>1, <1>2
<1>3. Len(F) - 1 \in 1..Len(F) /\ Len(F) \in 1..Len(F) /\ Len(F) = (Len(F) - 1) + 1
  <2> HIDE DEF n
  <2>1. n - 1 \in 1..n /\ n \in 1..n /\ n = (n - 1) + 1 BY <1>0
  <2> QED BY <2>1 DEF n
<1>4. F[Len(F) - 1].k # "op" BY <1>3 DEF FiberShape, InOp
<1>5. F[Len(F) - 1] \in FLevels BY <1>1, <1>3
<1>6. F[Len(F) - 1].k \in {"call", "op"} BY <1>5 DEF FLevels
<1> QED BY <1>1, <1>2, <1>3, <1>4, <1>6

(* dispatch_hosted pops the call it answers.                                *)
Answered(F, G, f) ==
    /\ FiberShape(G) /\ UpOK(G, f) /\ Level(Len(F), f) = Len(G)
(* The stack below is one that may wait for that answer.                    *)
LEMMA AnswerGoesUp ==
  ASSUME NEW F, FiberShape(F), F # <<>>, F[Len(F)].k = "call"
  PROVE  Ret(Last(F)) \in Frames /\ Answered(F, Pop(F), Ret(Last(F)))
<1> DEFINE G == Pop(F)
           f == Ret(Last(F))
<1>1. F \in Seq(FLevels) BY DEF FiberShape
<1>2. G \in Seq(FLevels) /\ Popped(G, F) BY <1>1, PopStack
<1>3. Len(F) \in 1..Len(F) /\ Len(F) \in Nat BY <1>2 DEF Popped
<1>4. Last(F) = F[Len(F)] /\ F[Len(F)] \in FLevels BY <1>1, <1>3 DEF Last
<1>5. f = [k |-> "ret", id |-> F[Len(F)].id] BY <1>4 DEF Ret
<1>6. f \in Frames /\ f.k = "ret" BY <1>4, <1>5 DEF Frames, FLevels
<1> HIDE DEF G, f
<1>7. Level(Len(F), f) = Len(G) BY <1>2, <1>6 DEF Popped, Level
<1>8. FiberShape(G)
  <2>1. G # <<>> => G[1].k = "call"
    <3>1. SUFFICES ASSUME G # <<>> PROVE G[1].k = "call" OBVIOUS
    <3>2. 1 \in 1..Len(G) BY <3>1, <1>2 DEF Popped
    <3> QED BY <3>2, <1>2 DEF Popped, FiberShape
  <2>2. \A i, j \in 1..Len(G) : j = i + 1 => G[i].k # G[j].k
    BY <1>2 DEF Popped, FiberShape
  <2> QED BY <2>1, <2>2, <1>2 DEF FiberShape
<1>9. UpOK(G, f)
  <2>1. G = <<>> \/ InOp(G)
    <3>1. SUFFICES ASSUME G # <<>> PROVE G[Len(G)].k = "op" BY DEF InOp
    <3>2. Len(G) \in 1..Len(G) /\ Len(F) = Len(G) + 1 BY <3>1, <1>2 DEF Popped
    <3>3. Len(G) \in 1..Len(F) /\ F[Len(G)] = G[Len(G)] BY <3>2, <1>2 DEF Popped
    <3>4. F[Len(G)].k # F[Len(F)].k
      <4>1. \A i, j \in 1..Len(F) : j = i + 1 => F[i].k # F[j].k BY DEF FiberShape
      <4> QED BY <4>1, <3>2, <3>3, <1>3
    <3>5. F[Len(G)].k \in {"call", "op"}
      <4>1. F[Len(G)] \in FLevels BY <3>3, <1>1
      <4> QED BY <4>1 DEF FLevels
    <3> QED BY <3>3, <3>4, <3>5
  <2> QED BY <2>1, <1>6 DEF UpOK
<1> QED BY <1>6, <1>7, <1>8, <1>9 DEF Answered, G, f

(* What the stacks say when an answer or a host-op has left the fiber.      *)
LEMMA AnswerFits ==
  ASSUME NEW F, FiberShape(F), F # <<>>, F[Len(F)].k = "call", NEW s, TurnFits(s, F)
  PROVE  UpFits(s, Pop(F), Ret(Last(F)))
<1>1. F \in Seq(FLevels) BY DEF FiberShape
<1>2. Popped(Pop(F), F) BY <1>1, PopStack
<1>3. Len(F) \in 1..Len(F) BY <1>2 DEF Popped
<1>4. Ret(Last(F)).k = "ret" /\ Ret(Last(F)).id = F[Len(F)].id BY DEF Ret, Last
<1>5. Len(s) = Len(Pop(F)) + 1 BY <1>2 DEF Popped, TurnFits
<1>6. Mirrors(s, Pop(F), Len(Pop(F))) BY <1>2 DEF Popped, TurnFits, Mirrors
<1>7. s[Len(s)].k = "call" /\ s[Len(s)].id = F[Len(F)].id BY <1>3 DEF TurnFits, Mirrors
<1> QED BY <1>4, <1>5, <1>6, <1>7 DEF UpFits

(* invoke_parent_block pushes the host-op it sends up.                      *)
LEMMA HostopGoesUp ==
  ASSUME NEW F, FiberShape(F), F # <<>>, F[Len(F)].k = "call",
         NEW x \in Ids, NEW f, f = [k |-> "call", id |-> x]
  PROVE  /\ f \in Frames /\ Answered(F, Append(F, [k |-> "op", id |-> x]), f)
         /\ \A s : TurnFits(s, F) => UpFits(s, Append(F, [k |-> "op", id |-> x]), f)
<1> DEFINE e == [k |-> "op", id |-> x]
           G == Append(F, e)
<1>1. F \in Seq(FLevels) /\ e \in FLevels BY DEF FiberShape, FLevels
<1>2. e.k = "op" /\ e.id = x OBVIOUS
<1>3. f \in Frames /\ f.k = "call" /\ f.id = x BY DEF Frames
<1> HIDE DEF e
<1>4. G \in Seq(FLevels) /\ Pushed(G, F, e) BY <1>1, PushStack
<1> HIDE DEF G
<1>5. Len(F) \in 1..Len(F) /\ Len(F) \in Nat BY <1>1
<1>6. FiberShape(G)
  <2>1. G[1].k = "call" BY <1>4, <1>5 DEF Pushed, FiberShape
  <2>2. ASSUME NEW i \in 1..Len(G), NEW j \in 1..Len(G), j = i + 1 PROVE G[i].k # G[j].k
    <3>1. i \in 1..Len(F) BY <2>2, <1>4 DEF Pushed
    <3>2. CASE j \in 1..Len(F) BY <3>1, <3>2, <2>2, <1>4 DEF Pushed, FiberShape
    <3>3. CASE j \notin 1..Len(F)
      <4>1. j = Len(G) /\ i = Len(F) BY <3>1, <3>3, <2>2, <1>4 DEF Pushed
      <4> QED BY <4>1, <1>2, <1>4, <1>5 DEF Pushed
    <3> QED BY <3>2, <3>3
  <2> QED BY <2>1, <2>2, <1>4 DEF FiberShape
<1>7. UpOK(G, f) BY <1>2, <1>3, <1>4 DEF UpOK, InOp, Pushed
<1>8. Level(Len(F), f) = Len(G) BY <1>3, <1>4 DEF Level, Pushed
<1>9. ASSUME NEW s, TurnFits(s, F) PROVE UpFits(s, G, f)
  BY <1>3, <1>4, <1>9 DEF TurnFits, UpFits, Mirrors, Pushed
<1> QED BY <1>3, <1>6, <1>7, <1>8, <1>9 DEF Answered, G, e

(* The caller starts the block of a host-op, or is handed an answer.        *)
LEMMA BlockStarts ==
  ASSUME NEW F, FiberShape(F), NEW f \in Frames, f.k = "call", UpOK(F, f),
         NEW s \in Seq(Levels), UpFits(s, F, f)
  PROVE  /\ Append(s, [k |-> "cb", id |-> f.id]) \in Seq(Levels)
         /\ TurnFits(Append(s, [k |-> "cb", id |-> f.id]), F)
         /\ Append(s, [k |-> "cb", id |-> f.id]) # <<>>
<1> DEFINE e == [k |-> "cb", id |-> f.id]
           t == Append(s, e)
<1>1. e \in Levels BY DEF Frames, Levels
<1>2. e.k = "cb" /\ e.id = f.id OBVIOUS
<1> HIDE DEF e
<1>3. t \in Seq(Levels) /\ Pushed(t, s, e) BY <1>1, PushStack
<1> HIDE DEF t
<1>4. InOp(F) /\ F[Len(F)].id = f.id BY DEF UpOK
<1>5. Len(s) = Len(F) - 1 /\ Mirrors(s, F, Len(s)) BY DEF UpFits
<1>6. Len(F) \in Nat /\ Len(F) # 0 BY <1>4 DEF FiberShape, InOp
<1>7. Len(t) = Len(F) /\ Len(s) \in Nat BY <1>3, <1>5, <1>6 DEF Pushed
<1>8. ASSUME NEW i \in 1..Len(F)
      PROVE  t[i].k = (IF F[i].k = "op" THEN "cb" ELSE "call") /\ t[i].id = F[i].id
  <2>1. CASE i \in 1..Len(s) BY <2>1, <1>3, <1>5 DEF Pushed, Mirrors
  <2>2. CASE i \notin 1..Len(s)
    <3>1. i = Len(F) BY <2>2, <1>5, <1>6, <1>7
    <3> QED BY <3>1, <1>2, <1>3, <1>4, <1>7 DEF Pushed, InOp
  <2> QED BY <2>1, <2>2
<1>9. TurnFits(t, F) BY <1>7, <1>8 DEF TurnFits, Mirrors
<1> QED BY <1>3, <1>9 DEF Pushed, t, e
(* An answer ends the innermost call; there is a level below it.            *)
LEMMA CallEnds ==
  ASSUME NEW F, FiberShape(F), InOp(F), NEW f \in Frames, f.k = "ret",
         NEW s \in Seq(Levels), UpFits(s, F, f)
  PROVE  Len(s) # 1 /\ Pop(s) \in Seq(Levels) /\ TurnFits(Pop(s), F) /\ Pop(s) # <<>>
<1>1. Len(s) = Len(F) + 1 /\ Mirrors(s, F, Len(F)) BY DEF UpFits
<1>2. Len(F) \in Nat /\ Len(F) # 0 BY DEF FiberShape, InOp
<1>3. s # <<>> BY <1>1, <1>2
<1>4. Pop(s) \in Seq(Levels) /\ Popped(Pop(s), s) BY <1>3, PopStack
<1>5. Len(Pop(s)) = Len(F) BY <1>1, <1>2, <1>4 DEF Popped
<1>6. TurnFits(Pop(s), F) BY <1>1, <1>4, <1>5 DEF TurnFits, Mirrors, Popped
<1>7. Len(s) # 1 BY <1>1, <1>2
<1>8. Pop(s) # <<>> BY <1>2, <1>5
<1> QED BY <1>4, <1>6, <1>7, <1>8

(* The block calls the service again, or ends.                              *)
LEMMA NestedGoesDown ==
  ASSUME NEW F, FiberShape(F), NEW f \in Frames, f.k = "call", f \in Levels,
         NEW s \in Seq(Levels), TurnFits(s, F)
  PROVE  /\ Append(s, f) \in Seq(Levels) /\ Append(s, f) # <<>>
         /\ DownFits(Append(s, f), F, f)
<1> DEFINE t == Append(s, f)
<1>1. t \in Seq(Levels) /\ Pushed(t, s, f) BY PushStack
<1> HIDE DEF t
<1>2. Len(t) = Len(F) + 1 BY <1>1 DEF Pushed, TurnFits
<1>3. Mirrors(t, F, Len(F)) BY <1>1 DEF Pushed, TurnFits, Mirrors
<1>4. t[Len(t)] = f /\ t # <<>> BY <1>1 DEF Pushed
<1>5. DownFits(t, F, f) BY <1>2, <1>3, <1>4 DEF DownFits
<1> QED BY <1>1, <1>4, <1>5 DEF t
(* The end of the block is the answer to the host-op.                       *)
LEMMA BlockEnds ==
  ASSUME NEW F, FiberShape(F), InOp(F), NEW s \in Seq(Levels), TurnFits(s, F)
  PROVE  /\ Pop(s) \in Seq(Levels) /\ Pop(s) # <<>> /\ Ret(Last(s)) \in Frames
         /\ DownFits(Pop(s), F, Ret(Last(s)))
<1>1. Len(F) \in Nat /\ Len(F) >= 2 BY OpOverCall
<1>2. Len(s) = Len(F) /\ s # <<>> BY <1>1 DEF TurnFits
<1>3. Pop(s) \in Seq(Levels) /\ Popped(Pop(s), s) BY <1>2, PopStack
<1>4. Len(s) \in 1..Len(s) BY <1>1, <1>2
<1>5. Last(s) \in Levels BY <1>4 DEF Last
<1>6. Ret(Last(s)) \in Frames /\ Ret(Last(s)).k = "ret" BY <1>5 DEF Ret, Frames, Levels
<1>7. Len(Pop(s)) = Len(F) - 1 BY <1>2, <1>3 DEF Popped
<1>8. Pop(s) # <<>> BY <1>1, <1>7
<1>9. Mirrors(Pop(s), F, Len(Pop(s))) BY <1>2, <1>3 DEF Popped, TurnFits, Mirrors
<1> QED BY <1>3, <1>6, <1>7, <1>8, <1>9 DEF DownFits

(* invoke_parent_block_inner serves the nested call, or ends its host-op.   *)
Resumed(F, G, f) ==
    /\ FiberShape(G) /\ G # <<>> /\ G[Len(G)].k = "call" /\ Level(Len(F), f) = Len(G)
(* A nested call becomes the innermost level of the fiber.                  *)
LEMMA InnerServes ==
  ASSUME NEW F, FiberShape(F), InOp(F), NEW f \in Frames, f.k = "call"
  PROVE  /\ Resumed(F, Append(F, f), f)
         /\ \A s : DownFits(s, F, f) => TurnFits(s, Append(F, f))
<1> DEFINE G == Append(F, f)
<1>1. F \in Seq(FLevels) /\ f \in FLevels BY DEF FiberShape, FLevels, Frames
<1>2. G \in Seq(FLevels) /\ Pushed(G, F, f) BY <1>1, PushStack
<1> HIDE DEF G
<1>3. Len(F) \in Nat /\ Len(F) # 0 /\ Len(F) \in 1..Len(F) BY <1>1 DEF InOp
<1>4. FiberShape(G)
  <2>1. G[1].k = "call" BY <1>2, <1>3 DEF Pushed, FiberShape
  <2>2. ASSUME NEW i \in 1..Len(G), NEW j \in 1..Len(G), j = i + 1 PROVE G[i].k # G[j].k
    <3>1. i \in 1..Len(F) BY <2>2, <1>2 DEF Pushed
    <3>2. CASE j \in 1..Len(F) BY <3>1, <3>2, <2>2, <1>2 DEF Pushed, FiberShape
    <3>3. CASE j \notin 1..Len(F)
      <4>1. j = Len(G) /\ i = Len(F) BY <3>1, <3>3, <2>2, <1>2 DEF Pushed
      <4> QED BY <4>1, <1>2, <1>3 DEF Pushed, InOp
    <3> QED BY <3>2, <3>3
  <2> QED BY <2>1, <2>2, <1>2 DEF FiberShape
<1>5. Level(Len(F), f) = Len(G) /\ G # <<>> /\ G[Len(G)].k = "call" BY <1>2 DEF Level, Pushed
<1>6. ASSUME NEW s, DownFits(s, F, f) PROVE TurnFits(s, G)
  <2>1. /\ Len(s) = Len(F) + 1 /\ Mirrors(s, F, Len(F))
        /\ s[Len(s)].k = "call" /\ s[Len(s)].id = f.id BY <1>6 DEF DownFits
  <2>2. Len(s) = Len(G) BY <2>1, <1>2 DEF Pushed
  <2>3. ASSUME NEW i \in 1..Len(G)
        PROVE  s[i].k = (IF G[i].k = "op" THEN "cb" ELSE "call") /\ s[i].id = G[i].id
    <3>1. CASE i \in 1..Len(F) BY <3>1, <2>1, <1>2 DEF Mirrors, Pushed
    <3>2. CASE i \notin 1..Len(F)
      <4>1. i = Len(G) BY <3>2, <1>2 DEF Pushed
      <4> QED BY <4>1, <2>1, <2>2, <1>2 DEF Pushed
    <3> QED BY <3>1, <3>2
  <2> QED BY <2>2, <2>3 DEF TurnFits, Mirrors
<1> QED BY <1>4, <1>5, <1>6 DEF Resumed, G
(* An answer ends the host-op; the call below it goes on.                   *)
LEMMA InnerEnds ==
  ASSUME NEW F, FiberShape(F), InOp(F), NEW f \in Frames, f.k = "ret"
  PROVE  /\ Resumed(F, Pop(F), f)
         /\ \A s : DownFits(s, F, f) => TurnFits(s, Pop(F))
<1> DEFINE G == Pop(F)
<1>1. F \in Seq(FLevels) /\ F # <<>> BY DEF FiberShape, InOp
<1>2. G \in Seq(FLevels) /\ Popped(G, F) BY <1>1, PopStack
<1>3. Len(F) \in Nat /\ Len(F) >= 2 /\ F[Len(F) - 1].k = "call" BY OpOverCall
<1> HIDE DEF G
<1>4. Len(G) = Len(F) - 1 /\ Len(G) \in Nat /\ Len(G) # 0 BY <1>2, <1>3 DEF Popped
<1>5. G # <<>> /\ G[Len(G)].k = "call" BY <1>2, <1>3, <1>4 DEF Popped
<1>6. FiberShape(G)
  <2>1. G[1].k = "call"
    <3>1. 1 \in 1..Len(G) BY <1>4
    <3> QED BY <3>1, <1>1, <1>2 DEF Popped, FiberShape
  <2>2. \A i, j \in 1..Len(G) : j = i + 1 => G[i].k # G[j].k
    BY <1>2 DEF Popped, FiberShape
  <2> QED BY <2>1, <2>2, <1>2 DEF FiberShape
<1>7. Level(Len(F), f) = Len(G) BY <1>4 DEF Level
<1>8. ASSUME NEW s, DownFits(s, F, f) PROVE TurnFits(s, G)
  <2>1. Len(s) = Len(F) - 1 /\ Mirrors(s, F, Len(s)) BY <1>8 DEF DownFits
  <2> QED BY <2>1, <1>2, <1>4 DEF TurnFits, Mirrors, Popped
<1> QED BY <1>5, <1>6, <1>7, <1>8 DEF Resumed, G

(* While a frame is on its way the caller's innermost level is a call.      *)
LEMMA CallOnTop ==
  ASSUME NEW F, FiberShape(F), NEW f \in Frames, NEW s,
         \/ InOp(F) /\ DownFits(s, F, f)
         \/ UpOK(F, f) /\ UpFits(s, F, f)
  PROVE  s[Len(s)].k = "call"
<1>1. CASE InOp(F) /\ Len(s) = Len(F) - 1 /\ Mirrors(s, F, Len(s))
  <2>1. Len(F) \in Nat /\ Len(F) >= 2 /\ F[Len(F) - 1].k = "call" BY <1>1, OpOverCall
  <2>2. Len(s) \in 1..Len(s) BY <1>1, <2>1
  <2> QED BY <1>1, <2>1, <2>2 DEF Mirrors
<1> QED BY <1>1 DEF DownFits, UpFits, UpOK

-----------------------------------------------------------------------------
(* One step of a lane or of its caller, on the views.                       *)

(* Which place a lane is in, by the state of its pump.                      *)
PumpPlace(c, w, v) ==
    /\ w.pump.conv = c /\ w.pump.pc \in {"read", "down"}
    /\ w.pump.pc = "down" => WithCaller(c, w, v)
    /\ w.pump.pc = "read" /\ Talks(v) => v.reply = <<>>
(* The pump waits for the caller, or reads and the caller has nothing.      *)
LEMMA PumpPlaces ==
  ASSUME NEW c, NEW w, NEW v, OnLane(c, w, v)
  PROVE  PumpPlace(c, w, v)
<1>1. CASE Starting(c, w, v) BY <1>1 DEF Starting, PumpPlace, At, Idle
<1>2. CASE WithFiber(c, w, v) BY <1>2 DEF WithFiber, PumpPlace, At
<1>3. CASE WithCaller(c, w, v) BY <1>3 DEF WithCaller, PumpPlace, At
<1>4. ASSUME NEW f \in Frames, GoingDown(c, w, v, f) \/ ToFiber(c, w, v, f)
      PROVE  PumpPlace(c, w, v)
  BY <1>4 DEF GoingDown, ToFiber, PumpPlace, At
<1>5. ASSUME NEW f \in Frames, FromFiber(c, w, v, f) \/ GoingUp(c, w, v, f)
      PROVE  PumpPlace(c, w, v)
  BY <1>5 DEF FromFiber, GoingUp, PumpPlace, At, Idle
<1> QED BY <1>1, <1>2, <1>3, <1>4, <1>5 DEF OnLane

(* A caller that is gone: the lane carries on without it.                   *)
LEMMA LaneWithout ==
  ASSUME NEW c, NEW w, NEW v, OnLane(c, w, v), NEW y, y.st # "active", y.st # "new",
         y.served = "held", y.hostops = v.hostops
  PROVE  OnLane(c, w, y)
<1>1. ~Talks(y) BY DEF Talks
<1>2. CASE Starting(c, w, v) BY <1>1, <1>2 DEF OnLane, Starting
<1>3. CASE WithFiber(c, w, v) BY <1>1, <1>3 DEF OnLane, WithFiber
<1>4. CASE WithCaller(c, w, v) BY <1>1, <1>4 DEF OnLane, WithCaller
<1>5. ASSUME NEW f \in Frames, \/ GoingDown(c, w, v, f) \/ ToFiber(c, w, v, f)
                               \/ FromFiber(c, w, v, f) \/ GoingUp(c, w, v, f)
      PROVE  OnLane(c, w, y)
  BY <1>1, <1>5 DEF OnLane, GoingDown, ToFiber, FromFiber, GoingUp
<1> QED BY <1>2, <1>3, <1>4, <1>5 DEF OnLane

(* A frame for the caller is there only on a lane that waits for it.        *)
LEMMA CallerTold ==
  ASSUME NEW c, NEW w, NEW v, OnLane(c, w, v), Talks(v), v.reply # <<>>
  PROVE  WithCaller(c, w, v) /\ \E f \in Frames : Told(w, v, f)
<1>1. CASE Starting(c, w, v) BY <1>1 DEF Starting
<1>2. CASE WithFiber(c, w, v) BY <1>2 DEF WithFiber
<1>3. CASE WithCaller(c, w, v) BY <1>3 DEF WithCaller, InBlock, HasSaid
<1>4. ASSUME NEW f \in Frames, \/ GoingDown(c, w, v, f) \/ ToFiber(c, w, v, f)
                               \/ FromFiber(c, w, v, f) \/ GoingUp(c, w, v, f)
      PROVE  FALSE
  BY <1>4 DEF GoingDown, ToFiber, FromFiber, GoingUp
<1> QED BY <1>1, <1>2, <1>3, <1>4 DEF OnLane

(* The caller runs a block only while the lane waits for it.                *)
LEMMA CallerInBlock ==
  ASSUME NEW c, NEW w, NEW v, OnLane(c, w, v), Talks(v), v.stack[Len(v.stack)].k = "cb"
  PROVE  WithCaller(c, w, v) /\ InBlock(w, v)
<1>1. FiberShape(w.fiber) BY DEF OnLane
<1>2. CASE Starting(c, w, v)
  <2>1. v.stack = <<Call(c, 1)>> BY <1>2 DEF Starting
  <2>2. Len(v.stack) = 1 /\ v.stack[1] = Call(c, 1) BY <2>1
  <2> QED BY <2>2 DEF Call
<1>3. CASE WithFiber(c, w, v)
  <2>1. w.fiber # <<>> /\ w.fiber[Len(w.fiber)].k = "call" /\ TurnFits(v.stack, w.fiber)
    BY <1>3 DEF WithFiber
  <2>2. Len(w.fiber) \in 1..Len(w.fiber) BY <2>1, <1>1 DEF FiberShape
  <2> QED BY <2>1, <2>2 DEF TurnFits, Mirrors
<1>4. CASE WithCaller(c, w, v)
  <2>1. ASSUME NEW f \in Frames, Told(w, v, f) \/ HasSaid(w, v, f) PROVE FALSE
    <3>1. InOp(w.fiber) BY <1>4 DEF WithCaller
    <3> QED BY <2>1, <3>1, <1>1, CallOnTop DEF Told, HasSaid
  <2> QED BY <2>1, <1>4 DEF WithCaller
<1>5. ASSUME NEW f \in Frames, \/ GoingDown(c, w, v, f) \/ ToFiber(c, w, v, f)
                               \/ FromFiber(c, w, v, f) \/ GoingUp(c, w, v, f)
      PROVE  FALSE
  <2>1. \/ InOp(w.fiber) /\ DownFits(v.stack, w.fiber, f)
        \/ UpOK(w.fiber, f) /\ UpFits(v.stack, w.fiber, f)
    BY <1>5 DEF GoingDown, ToFiber, FromFiber, GoingUp
  <2> QED BY <2>1, <1>1, CallOnTop
<1> QED BY <1>2, <1>3, <1>4, <1>5 DEF OnLane

(* conversation, on a conversation some pump has.                           *)
LEMMA CallerTakes ==
  ASSUME NEW c, NEW w, NEW v, OnLane(c, w, v), Talks(v), v.reply # <<>>, v.stack \in Seq(Levels),
         NEW y, y.st = v.st, y.hostops = v.hostops, y.served = v.served, y.reply = Tail(v.reply),
         y.stack = (IF Head(v.reply).k = "call"
                    THEN Append(v.stack, [k |-> "cb", id |-> Head(v.reply).id]) ELSE Pop(v.stack))
  PROVE  /\ OnLane(c, w, y) /\ y.stack # <<>> /\ y.stack \in Seq(Levels)
         /\ Head(v.reply).k # "call" => Len(v.stack) # 1
<1>1. PICK f \in Frames : Told(w, v, f) BY CallerTold
<1>2. WithCaller(c, w, v) BY CallerTold
<1>3. v.reply = <<f>> BY <1>1 DEF Told
<1>4. Head(v.reply) = f /\ y.reply = <<>> BY <1>3, OneFrame
<1>5. FiberShape(w.fiber) /\ InOp(w.fiber) BY <1>2 DEF OnLane, WithCaller
<1>6. f.k \in {"call", "ret"} BY DEF Frames
<1>7. UpOK(w.fiber, f) /\ UpFits(v.stack, w.fiber, f) /\ v.hostops = <<>> BY <1>1 DEF Told
<1>8. TurnFits(y.stack, w.fiber) /\ y.stack # <<>> /\ y.stack \in Seq(Levels)
      /\ (f.k # "call" => Len(v.stack) # 1)
  <2>1. CASE f.k = "call" BY <2>1, <1>4, <1>5, <1>7, BlockStarts
  <2>2. CASE f.k = "ret" BY <2>2, <1>4, <1>5, <1>7, CallEnds
  <2> QED BY <2>1, <2>2, <1>6
<1>9. InBlock(w, y) BY <1>4, <1>7, <1>8 DEF InBlock
<1>10. WithCaller(c, w, y) BY <1>2, <1>7, <1>9 DEF WithCaller
<1>11. OnLane(c, w, y) BY <1>10 DEF OnLane
<1> QED BY <1>4, <1>8, <1>11

(* nested_call and service_parent_hostop, on such a conversation.           *)
LEMMA CallerSays ==
  ASSUME NEW c, NEW w, NEW v, OnLane(c, w, v), Talks(v), v.stack[Len(v.stack)].k = "cb",
         v.stack \in Seq(Levels), NEW y, NEW f,
         y.st = v.st, y.hostops = Append(v.hostops, f), y.served = v.served, y.reply = v.reply,
         \/ f \in Frames /\ f \in Levels /\ f.k = "call" /\ y.stack = Append(v.stack, f)
         \/ f = Ret(Last(v.stack)) /\ y.stack = Pop(v.stack)
  PROVE  OnLane(c, w, y) /\ y.stack # <<>> /\ y.stack \in Seq(Levels)
<1>1. WithCaller(c, w, v) /\ InBlock(w, v) BY CallerInBlock
<1>2. FiberShape(w.fiber) /\ InOp(w.fiber) BY <1>1 DEF OnLane, WithCaller
<1>3. v.reply = <<>> /\ v.hostops = <<>> /\ TurnFits(v.stack, w.fiber) BY <1>1 DEF InBlock
<1>4. y.hostops = <<f>> /\ y.reply = <<>> BY <1>3
<1>5. f \in Frames /\ y.stack \in Seq(Levels) /\ y.stack # <<>> /\ DownFits(y.stack, w.fiber, f)
  <2>1. CASE f \in Frames /\ f \in Levels /\ f.k = "call" /\ y.stack = Append(v.stack, f)
    BY <2>1, <1>2, <1>3, NestedGoesDown
  <2>2. CASE f = Ret(Last(v.stack)) /\ y.stack = Pop(v.stack)
    BY <2>2, <1>2, <1>3, BlockEnds
  <2> QED BY <2>1, <2>2
<1>6. HasSaid(w, y, f) BY <1>4, <1>5 DEF HasSaid
<1>7. WithCaller(c, w, y) BY <1>1, <1>4, <1>5, <1>6 DEF WithCaller
<1>8. OnLane(c, w, y) BY <1>7 DEF OnLane
<1> QED BY <1>5, <1>8

(* A pump takes a conversation from the queue.                              *)
LEMMA LaneTakes ==
  ASSUME NEW c, NEW w, NEW v, AtRest(w), Aside(c, v), v.served = "no", v.st # "new",
         NEW x, NEW y, x.pump = At("read", c, 1), x.down = Append(w.down, Call(c, 1)),
         x.loop = w.loop, x.fiber = w.fiber, x.up = w.up, x.fup = w.fup, x.fdown = w.fdown,
         y.st = v.st, y.stack = v.stack, y.reply = v.reply, y.hostops = v.hostops,
         y.served = "held"
  PROVE  OnLane(c, x, y)
<1>1. FiberShape(<<>>) BY DEF FiberShape
<1>2. x.down = <<Call(c, 1)>> BY DEF AtRest, Wires
<1>3. Starting(c, x, y) BY <1>2 DEF Starting, AtRest, Wires, Aside, Talks
<1> QED BY <1>1, <1>3 DEF OnLane, AtRest

(* A frame comes up to the pump: the last one sets the lane to rest, with   *)
(* the answer of the outermost call in the caller's queue.                  *)
LEMMA LaneReads ==
  ASSUME NEW c, NEW w, NEW v, OnLane(c, w, v), w.pump.pc = "read", w.up # <<>>,
         NEW d, d = Level(w.pump.depth, Head(w.up)),
         NEW x, NEW y, x.up = Tail(w.up),
         x.pump = (IF d = 0 THEN Idle ELSE At("down", c, d)),
         x.loop = w.loop, x.fiber = w.fiber, x.down = w.down, x.fup = w.fup, x.fdown = w.fdown,
         y.st = v.st, y.stack = v.stack, y.hostops = v.hostops,
         y.reply = (IF Talks(v) THEN Append(v.reply, Head(w.up)) ELSE v.reply),
         y.served = (IF d = 0 THEN "dropped" ELSE v.served)
  PROVE  /\ d = 0 => AtRest(x) /\ (v.stack # <<>> => Aside(c, y))
         /\ d # 0 => OnLane(c, x, y)
<1>1. PICK f \in Frames : GoingUp(c, w, v, f)
  <2>1. CASE Starting(c, w, v) BY <2>1 DEF Starting, Wires
  <2>2. CASE WithFiber(c, w, v) BY <2>2 DEF WithFiber, Wires
  <2>3. CASE WithCaller(c, w, v) BY <2>3 DEF WithCaller, At
  <2>4. ASSUME NEW f \in Frames, \/ GoingDown(c, w, v, f) \/ ToFiber(c, w, v, f)
                                 \/ FromFiber(c, w, v, f)
        PROVE  FALSE
    BY <2>4 DEF GoingDown, ToFiber, FromFiber, Wires
  <2> QED BY <2>1, <2>2, <2>3, <2>4 DEF OnLane
<1>2. w.up = <<f>> /\ Head(w.up) = f /\ x.up = <<>> BY <1>1 DEF GoingUp, Wires
<1>3. FiberShape(w.fiber) /\ UpOK(w.fiber, f) BY <1>1 DEF OnLane, GoingUp
<1>4. Len(w.fiber) \in Nat /\ (Len(w.fiber) = 0 <=> w.fiber = <<>>) BY <1>3 DEF FiberShape
<1>5. w.pump.depth = Before(Len(w.fiber), f) BY <1>1 DEF GoingUp, At
<1>6. d = Len(w.fiber) BY <1>2, <1>4, <1>5 DEF Level, Before
<1>7. Talks(v) => y.reply = <<f>> /\ UpFits(v.stack, w.fiber, f)
  <2>1. Talks(v) => v.reply = <<>> /\ UpFits(v.stack, w.fiber, f) BY <1>1 DEF GoingUp
  <2>2. Append(<<>>, f) = <<f>> BY OneFrame
  <2> QED BY <2>1, <2>2, <1>2
<1>8. Wires(x, <<>>, <<>>, <<>>, <<>>) BY <1>1, <1>2 DEF GoingUp, Wires
<1>9. y.hostops = <<>> /\ (Talks(y) <=> Talks(v)) BY <1>1 DEF GoingUp, Talks
<1>10. CASE d = 0
  <2>1. w.fiber = <<>> BY <1>10, <1>4, <1>6
  <2>2. w.loop = Idle BY <1>1, <2>1 DEF GoingUp
  <2>3. AtRest(x) BY <2>1, <2>2, <1>8, <1>10 DEF AtRest
  <2>4. y.served = "dropped" /\ y.st # "new" BY <1>10 DEF OnLane
  <2>5. Talks(y) => \E g \in Frames : /\ y.reply = <<g>> /\ y.stack[Len(y.stack)].k = "call"
                                      /\ g.k = "ret" => y.stack[Len(y.stack)].id = g.id
    <3>1. f.k = "ret" BY <1>3, <2>1 DEF UpOK, InOp
    <3> QED BY <3>1, <1>7, <1>9 DEF UpFits
  <2>6. v.stack # <<>> => Aside(c, y) BY <2>4, <2>5 DEF Aside
  <2> QED BY <2>3, <2>6, <1>10
<1>11. CASE d # 0
  <2>1. w.fiber # <<>> BY <1>11, <1>4, <1>6
  <2>2. InOp(w.fiber) BY <2>1, <1>3 DEF UpOK
  <2>3. x.pump = At("down", c, Len(w.fiber)) /\ x.loop = At("down", c, Len(w.fiber))
    BY <1>1, <1>6, <1>11, <2>1 DEF GoingUp
  <2>4. Talks(y) => Told(x, y, f) BY <1>3, <1>7, <1>9 DEF Told
  <2>5. WithCaller(c, x, y) BY <2>2, <2>3, <2>4, <1>8, <1>9 DEF WithCaller
  <2> QED BY <2>5, <1>3, <1>11 DEF OnLane
<1> QED BY <1>10, <1>11

(* The pump sends down what the caller said, or answers for one that left.  *)
LEMMA LaneSends ==
  ASSUME NEW c, NEW w, NEW v, OnLane(c, w, v), w.pump.pc = "down",
         NEW x, NEW y, NEW f,
         \/ v.hostops = <<>> /\ ~Talks(v) /\ f = ErrorFrame /\ y.hostops = v.hostops
         \/ v.hostops # <<>> /\ f = Head(v.hostops) /\ y.hostops = Tail(v.hostops),
         x.down = Append(w.down, f), x.pump = At("read", c, Level(w.pump.depth, f)),
         x.loop = w.loop, x.fiber = w.fiber, x.up = w.up, x.fup = w.fup, x.fdown = w.fdown,
         y.st = v.st, y.stack = v.stack, y.reply = v.reply, y.served = v.served
  PROVE  OnLane(c, x, y)
<1>1. WithCaller(c, w, v) BY PumpPlaces DEF PumpPlace
<1>2. f \in Frames /\ y.hostops = <<>>
  <2>1. CASE v.hostops = <<>> BY <2>1 DEF ErrorFrame, Frames, Ids
  <2>2. CASE v.hostops # <<>>
    <3>1. PICK g \in Frames : v.hostops = <<g>> BY <1>1, <2>2 DEF WithCaller
    <3> QED BY <3>1, <2>2, OneFrame
  <2> QED BY <2>1, <2>2
<1>3. Talks(v) => v.reply = <<>> /\ DownFits(v.stack, w.fiber, f)
  <2>1. SUFFICES ASSUME Talks(v) PROVE v.reply = <<>> /\ DownFits(v.stack, w.fiber, f) OBVIOUS
  <2>2. v.hostops # <<>> /\ f = Head(v.hostops) BY <2>1
  <2>3. PICK g \in Frames : HasSaid(w, v, g) BY <1>1, <2>1, <2>2 DEF WithCaller, InBlock, Told
  <2>4. v.hostops = <<g>> BY <2>3 DEF HasSaid
  <2>5. f = g BY <2>2, <2>4, OneFrame
  <2> QED BY <2>3, <2>5 DEF HasSaid
<1>4. Wires(x, <<f>>, <<>>, <<>>, <<>>) BY <1>1 DEF WithCaller, Wires
<1>5. w.pump.depth = Len(w.fiber) /\ w.loop = At("down", c, Len(w.fiber)) /\ InOp(w.fiber)
  BY <1>1 DEF WithCaller, At
<1>6. GoingDown(c, x, y, f) BY <1>2, <1>3, <1>4, <1>5 DEF GoingDown, Talks
<1> QED BY <1>2, <1>6 DEF OnLane

(* The pump drops the conversation: its caller will find the lane closed.   *)
LEMMA LaneDrops ==
  ASSUME NEW c, NEW w, NEW v, OnLane(c, w, v), Aside(c, v), NEW y,
         w.pump.pc = "read" \/ v.hostops # <<>> \/ ~Talks(v),
         y.st = v.st, y.stack = v.stack, y.reply = v.reply, y.served = "dropped"
  PROVE  Aside(c, y)
<1>1. Talks(v) => v.reply = <<>>
  <2>1. CASE w.pump.pc = "read" BY <2>1, PumpPlaces DEF PumpPlace
  <2>2. CASE w.pump.pc # "read"
    <3>1. WithCaller(c, w, v) BY <2>2, PumpPlaces DEF PumpPlace
    <3> QED BY <3>1, <2>2 DEF WithCaller, InBlock, Told, HasSaid
  <2> QED BY <2>1, <2>2
<1> QED BY <1>1 DEF Aside, OnLane, Talks

-----------------------------------------------------------------------------
(* The steps of the worker, on the views.                                   *)

(* The child's loop takes the call frame that starts the conversation.      *)
LEMMA LaneStarts ==
  ASSUME NEW c \in Convs, NEW w, NEW v, OnLane(c, w, v), w.loop.pc = "idle", w.down # <<>>,
         NEW x, x.down = Tail(w.down), x.pump = w.pump, x.up = w.up,
         Head(w.down).k = "call" =>
            /\ x.loop = At("reply", Head(w.down).id[1], 1) /\ x.fiber = <<Head(w.down)>>
            /\ x.fup = <<>> /\ x.fdown = <<>>
  PROVE  OnLane(c, x, v)
<1>1. Starting(c, w, v)
  <2>2. CASE WithFiber(c, w, v) BY <2>2 DEF WithFiber, Wires
  <2>3. CASE WithCaller(c, w, v) BY <2>3 DEF WithCaller, Wires
  <2>4. ASSUME NEW f \in Frames, GoingDown(c, w, v, f) PROVE FALSE
    BY <2>4 DEF GoingDown, At
  <2>5. ASSUME NEW f \in Frames, \/ ToFiber(c, w, v, f) \/ FromFiber(c, w, v, f)
                                 \/ GoingUp(c, w, v, f)
        PROVE  FALSE
    BY <2>5 DEF ToFiber, FromFiber, GoingUp, Wires
  <2> QED BY <2>2, <2>3, <2>4, <2>5 DEF OnLane
<1> DEFINE e == Call(c, 1)
<1>2. e.k = "call" /\ e.id = <<c, 1>> /\ e.id[1] = c BY DEF Call
<1>3. e \in FLevels BY DEF Call, FLevels, Ids
<1> HIDE DEF e
<1>4. w.down = <<e>> BY <1>1 DEF Starting, Wires, e
<1>5. Head(w.down) = e /\ x.down = <<>> BY <1>4
<1>6. x.loop = At("reply", c, 1) /\ x.fiber = <<e>> /\ x.fup = <<>> /\ x.fdown = <<>>
  BY <1>2, <1>5
<1>7. FiberShape(<<e>>) /\ Len(<<e>>) = 1 /\ <<e>>[1].k = "call" /\ <<e>> # <<>>
  BY <1>2, <1>3 DEF FiberShape
<1>8. Wires(x, <<>>, <<>>, <<>>, <<>>) BY <1>1, <1>5, <1>6 DEF Starting, Wires
<1>9. Talks(v) => TurnFits(v.stack, <<e>>)
  <2>1. SUFFICES ASSUME Talks(v) PROVE TurnFits(v.stack, <<e>>) OBVIOUS
  <2>2. v.stack = <<e>> BY <2>1, <1>1 DEF Starting, e
  <2> QED BY <2>2, <1>2 DEF TurnFits, Mirrors
<1>10. WithFiber(c, x, v) BY <1>1, <1>6, <1>7, <1>8, <1>9 DEF WithFiber, Starting
<1> QED BY <1>6, <1>7, <1>10 DEF OnLane

(* The loop forwards a frame of the fiber, and a frame of the caller.       *)
LEMMA LaneForwardsUp ==
  ASSUME NEW c, NEW w, NEW v, OnLane(c, w, v), w.loop.pc = "reply", w.fup # <<>>,
         NEW d, d = Level(w.loop.depth, Head(w.fup)),
         NEW x, x.loop = (IF d = 0 THEN Idle ELSE At("down", w.loop.conv, d)),
         x.fup = Tail(w.fup), x.up = Append(w.up, Head(w.fup)),
         x.pump = w.pump, x.fiber = w.fiber, x.down = w.down, x.fdown = w.fdown
  PROVE  OnLane(c, x, v)
<1>1. PICK f \in Frames : FromFiber(c, w, v, f)
  <2>1. CASE Starting(c, w, v) BY <2>1 DEF Starting, Wires
  <2>2. CASE WithFiber(c, w, v) BY <2>2 DEF WithFiber, Wires
  <2>3. CASE WithCaller(c, w, v) BY <2>3 DEF WithCaller, Wires
  <2>4. ASSUME NEW f \in Frames, \/ GoingDown(c, w, v, f) \/ ToFiber(c, w, v, f)
                                 \/ GoingUp(c, w, v, f)
        PROVE  FALSE
    BY <2>4 DEF GoingDown, ToFiber, GoingUp, Wires
  <2> QED BY <2>1, <2>2, <2>3, <2>4 DEF OnLane
<1>2. w.fup = <<f>> /\ Head(w.fup) = f /\ x.fup = <<>> /\ w.up = <<>> BY <1>1 DEF FromFiber, Wires
<1>3. FiberShape(w.fiber) BY DEF OnLane
<1>4. Len(w.fiber) \in Nat /\ (Len(w.fiber) = 0 <=> w.fiber = <<>>) BY <1>3 DEF FiberShape
<1>5. w.loop.depth = Before(Len(w.fiber), f) /\ w.loop.conv = c BY <1>1 DEF FromFiber, At
<1>6. d = Len(w.fiber) BY <1>2, <1>4, <1>5 DEF Level, Before
<1>7. Wires(x, <<>>, <<f>>, <<>>, <<>>) BY <1>1, <1>2 DEF FromFiber, Wires
<1>8. x.loop = (IF w.fiber = <<>> THEN Idle ELSE At("down", c, Len(w.fiber)))
  BY <1>4, <1>5, <1>6
<1>9. GoingUp(c, x, v, f) BY <1>1, <1>7, <1>8 DEF GoingUp, FromFiber
<1> QED BY <1>9 DEF OnLane
(* The loop forwards a frame of the caller to the fiber.                    *)
LEMMA LaneForwardsDown ==
  ASSUME NEW c, NEW w, NEW v, OnLane(c, w, v), w.loop.pc = "down", w.down # <<>>,
         NEW x, x.loop = At("reply", w.loop.conv, Level(w.loop.depth, Head(w.down))),
         x.fdown = (IF w.fiber = <<>> THEN w.fdown ELSE Append(w.fdown, Head(w.down))),
         x.down = Tail(w.down),
         x.pump = w.pump, x.fiber = w.fiber, x.up = w.up, x.fup = w.fup
  PROVE  OnLane(c, x, v)
<1>1. PICK f \in Frames : GoingDown(c, w, v, f)
  <2>1. CASE Starting(c, w, v) BY <2>1 DEF Starting, Idle
  <2>2. CASE WithFiber(c, w, v) BY <2>2 DEF WithFiber, Wires
  <2>3. CASE WithCaller(c, w, v) BY <2>3 DEF WithCaller, Wires
  <2>4. ASSUME NEW f \in Frames, \/ FromFiber(c, w, v, f) \/ ToFiber(c, w, v, f)
                                 \/ GoingUp(c, w, v, f)
        PROVE  FALSE
    BY <2>4 DEF FromFiber, ToFiber, GoingUp, Wires
  <2> QED BY <2>1, <2>2, <2>3, <2>4 DEF OnLane
<1>2. w.down = <<f>> /\ Head(w.down) = f /\ x.down = <<>> /\ w.fdown = <<>>
  BY <1>1 DEF GoingDown, Wires
<1>3. w.fiber # <<>> BY <1>1 DEF GoingDown, InOp
<1>4. Wires(x, <<>>, <<>>, <<>>, <<f>>) BY <1>1, <1>2, <1>3 DEF GoingDown, Wires
<1>5. x.loop = At("reply", c, Level(Len(w.fiber), f)) BY <1>1, <1>2 DEF GoingDown, At
<1>6. ToFiber(c, x, v, f) BY <1>1, <1>4, <1>5 DEF ToFiber, GoingDown
<1> QED BY <1>6 DEF OnLane

(* The fiber never ends with levels open.                                   *)
LEMMA FiberThere ==
  ASSUME NEW c, NEW w, NEW v, OnLane(c, w, v), w.loop.pc = "reply", w.fup = <<>>
  PROVE  w.fiber # <<>>
<1>1. CASE Starting(c, w, v) BY <1>1 DEF Starting, Idle
<1>2. CASE WithFiber(c, w, v) BY <1>2 DEF WithFiber
<1>3. CASE WithCaller(c, w, v) BY <1>3 DEF WithCaller, InOp
<1>4. ASSUME NEW f \in Frames, GoingDown(c, w, v, f) \/ ToFiber(c, w, v, f) PROVE w.fiber # <<>>
  BY <1>4 DEF GoingDown, ToFiber, InOp
<1>5. ASSUME NEW f \in Frames, FromFiber(c, w, v, f) PROVE FALSE
  BY <1>5, OneFrame DEF FromFiber, Wires
<1>6. ASSUME NEW f \in Frames, GoingUp(c, w, v, f) PROVE w.fiber # <<>>
  BY <1>6 DEF GoingUp, Idle
<1> QED BY <1>1, <1>2, <1>3, <1>4, <1>5, <1>6 DEF OnLane

(* The fiber serves a call: only while everyone else waits for it.          *)
LEMMA FiberServes ==
  ASSUME NEW c, NEW w, NEW v, OnLane(c, w, v), w.fiber # <<>>, w.fiber[Len(w.fiber)].k = "call"
  PROVE  WithFiber(c, w, v)
<1>1. CASE Starting(c, w, v) BY <1>1 DEF Starting
<1>2. CASE WithCaller(c, w, v) BY <1>2 DEF WithCaller, InOp
<1>3. ASSUME NEW f \in Frames, \/ GoingDown(c, w, v, f) \/ ToFiber(c, w, v, f)
                               \/ FromFiber(c, w, v, f) \/ GoingUp(c, w, v, f)
      PROVE  FALSE
  BY <1>3 DEF GoingDown, ToFiber, FromFiber, GoingUp, InOp, UpOK
<1> QED BY <1>1, <1>2, <1>3 DEF OnLane

(* dispatch_hosted and invoke_parent_block.                                 *)
LEMMA FiberSpeaks ==
  ASSUME NEW c \in Convs, NEW w, NEW v, OnLane(c, w, v), w.fiber # <<>>,
         w.fiber[Len(w.fiber)].k = "call", NEW x, NEW f,
         \/ f = Ret(Last(w.fiber)) /\ x.fiber = Pop(w.fiber)
         \/ \E i \in Ids : f = [k |-> "call", id |-> i]
                           /\ x.fiber = Append(w.fiber, [k |-> "op", id |-> i]),
         x.fup = Append(w.fup, f), x.pump = w.pump, x.loop = w.loop,
         x.down = w.down, x.up = w.up, x.fdown = w.fdown
  PROVE  OnLane(c, x, v)
<1>1. WithFiber(c, w, v) BY FiberServes
<1>2. FiberShape(w.fiber) BY DEF OnLane
<1>3. f \in Frames /\ Answered(w.fiber, x.fiber, f)
      /\ (TurnFits(v.stack, w.fiber) => UpFits(v.stack, x.fiber, f))
  <2>1. CASE f = Ret(Last(w.fiber)) /\ x.fiber = Pop(w.fiber)
    BY <2>1, <1>2, AnswerGoesUp, AnswerFits
  <2>2. ASSUME NEW i \in Ids, f = [k |-> "call", id |-> i],
               x.fiber = Append(w.fiber, [k |-> "op", id |-> i])
        PROVE  <1>3!:
    BY <2>2, <1>2, HostopGoesUp
  <2> QED BY <2>1, <2>2
<1>4. FiberShape(x.fiber) /\ UpOK(x.fiber, f) /\ Level(Len(w.fiber), f) = Len(x.fiber)
  BY <1>3 DEF Answered
<1>5. Len(w.fiber) \in Nat BY <1>2 DEF FiberShape
<1>6. Len(w.fiber) = Before(Len(x.fiber), f) BY <1>4, <1>5 DEF Level, Before
<1>7. Wires(x, <<>>, <<>>, <<f>>, <<>>) BY <1>1 DEF WithFiber, Wires
<1>8. FromFiber(c, x, v, f) BY <1>1, <1>3, <1>4, <1>6, <1>7 DEF FromFiber, WithFiber
<1> QED BY <1>3, <1>4, <1>8 DEF OnLane

(* invoke_parent_block_inner.                                               *)
LEMMA FiberHears ==
  ASSUME NEW c, NEW w, NEW v, OnLane(c, w, v), w.fdown # <<>>, NEW x,
         x.fdown = Tail(w.fdown),
         x.fiber = (IF Head(w.fdown).k = "call" THEN Append(w.fiber, Head(w.fdown))
                    ELSE Pop(w.fiber)),
         x.pump = w.pump, x.loop = w.loop, x.down = w.down, x.up = w.up, x.fup = w.fup
  PROVE  OnLane(c, x, v)
<1>1. PICK f \in Frames : ToFiber(c, w, v, f)
  <2>1. CASE Starting(c, w, v) BY <2>1 DEF Starting, Wires
  <2>2. CASE WithFiber(c, w, v) BY <2>2 DEF WithFiber, Wires
  <2>3. CASE WithCaller(c, w, v) BY <2>3 DEF WithCaller, Wires
  <2>4. ASSUME NEW f \in Frames, \/ FromFiber(c, w, v, f) \/ GoingDown(c, w, v, f)
                                 \/ GoingUp(c, w, v, f)
        PROVE  FALSE
    BY <2>4 DEF FromFiber, GoingDown, GoingUp, Wires
  <2> QED BY <2>1, <2>2, <2>3, <2>4 DEF OnLane
<1>2. w.fdown = <<f>> /\ Head(w.fdown) = f /\ x.fdown = <<>> BY <1>1 DEF ToFiber, Wires
<1>3. FiberShape(w.fiber) /\ InOp(w.fiber) BY <1>1 DEF OnLane, ToFiber
<1>4. f.k \in {"call", "ret"} BY DEF Frames
<1>5. Resumed(w.fiber, x.fiber, f)
      /\ (DownFits(v.stack, w.fiber, f) => TurnFits(v.stack, x.fiber))
  <2>1. CASE f.k = "call" BY <2>1, <1>2, <1>3, InnerServes
  <2>2. CASE f.k = "ret" BY <2>2, <1>2, <1>3, InnerEnds
  <2> QED BY <2>1, <2>2, <1>4
<1>6. /\ FiberShape(x.fiber) /\ x.fiber # <<>> /\ x.fiber[Len(x.fiber)].k = "call"
      /\ Level(Len(w.fiber), f) = Len(x.fiber)
  BY <1>5 DEF Resumed
<1>7. Wires(x, <<>>, <<>>, <<>>, <<>>) BY <1>1, <1>2 DEF ToFiber, Wires
<1>8. WithFiber(c, x, v) BY <1>1, <1>5, <1>6, <1>7 DEF WithFiber, ToFiber
<1> QED BY <1>6, <1>8 DEF OnLane

-----------------------------------------------------------------------------
(* What a step leaves alone.                                                *)

LaneSame(m) ==
    /\ pump'[m] = pump[m] /\ loop'[m] = loop[m] /\ fiber'[m] = fiber[m]
    /\ down'[m] = down[m] /\ up'[m] = up[m] /\ fup'[m] = fup[m] /\ fdown'[m] = fdown[m]
CallerSame(d) ==
    /\ st'[d] = st[d] /\ stack'[d] = stack[d] /\ reply'[d] = reply[d]
    /\ hostops'[d] = hostops[d] /\ served'[d] = served[d]
(* What a step leaves alone looks the same.                                 *)
LEMMA SameViews ==
  /\ \A m : LaneSame(m) => LaneView(m)' = LaneView(m) /\ (Engaged(m)' <=> Engaged(m))
                           /\ \A c : Carries(m, c)' <=> Carries(m, c)
  /\ \A d : CallerSame(d) => CallerView(d)' = CallerView(d)
BY DEF LaneSame, CallerSame, LaneView, CallerView, Carries, Engaged

(* The conversation a lane carries.                                         *)
Holds(l, c) == OnLane(c, LaneView(l), CallerView(c))
(* A lane that holds a conversation carries it.                             *)
LEMMA Carried ==
  ASSUME NEW l, NEW c, Holds(l, c)
  PROVE  Carries(l, c) /\ served[c] = "held" /\ st[c] # "new"
<1>1. PumpPlace(c, LaneView(l), CallerView(c)) BY PumpPlaces DEF Holds
<1> QED BY <1>1 DEF Holds, PumpPlace, OnLane, LaneView, CallerView, Carries, Engaged
(* An engaged lane holds a conversation.                                    *)
LEMMA LaneCarries ==
  ASSUME InStep, NEW l \in Lanes, Engaged(l)
  PROVE  \E c \in Convs : Holds(l, c)
BY DEF InStep, LaneOK, Holds
(* It is the one its pump names.                                            *)
LEMMA CarriedHolds ==
  ASSUME InStep, NEW l \in Lanes, NEW c \in Convs, Carries(l, c)
  PROVE  Holds(l, c) /\ served[c] = "held"
<1>1. PICK d \in Convs : Holds(l, d) BY LaneCarries DEF Carries
<1>2. Carries(l, d) BY <1>1, Carried
<1>3. d = c BY <1>2 DEF Carries
<1> QED BY <1>1, <1>3, Carried

(* A lane no step has touched.                                              *)
LEMMA LaneKept ==
  ASSUME InStep, NEW m \in Lanes, LaneSame(m),
         \A d \in Convs : Carries(m, d) => CallerSame(d)
  PROVE  LaneOK(m)'
<1>1. LaneView(m)' = LaneView(m) /\ (Engaged(m)' <=> Engaged(m)) BY SameViews
<1>2. ASSUME Engaged(m)' PROVE \E c \in Convs : OnLane(c, LaneView(m)', CallerView(c)')
  <2>1. PICK c \in Convs : Holds(m, c) BY <1>1, <1>2, LaneCarries
  <2>2. CallerSame(c) BY <2>1, Carried
  <2> QED BY <2>1, <2>2, <1>1, SameViews DEF Holds
<1>3. ASSUME pump'[m].pc = "idle" PROVE AtRest(LaneView(m)')
  <2>1. pump[m].pc = "idle" BY <1>3 DEF LaneSame
  <2>2. AtRest(LaneView(m)) BY <2>1 DEF InStep, LaneOK
  <2> QED BY <2>2, <1>1
<1> QED BY <1>2, <1>3 DEF LaneOK
(* A conversation no step has touched.                                      *)
LEMMA ConvKept ==
  ASSUME InStep, NEW d \in Convs, CallerSame(d),
         \A m \in Lanes : Carries(m, d) => Carries(m, d)'
  PROVE  ConvOK(d)'
<1>1. Aside(d, CallerView(d)) BY DEF InStep, ConvOK
<1>2. CallerView(d)' = CallerView(d) BY SameViews
<1>3. Aside(d, CallerView(d)') BY <1>1, <1>2
<1>4. served'[d] = "held" => \E l \in Lanes : Carries(l, d)'
  <2>1. served'[d] = served[d] BY DEF CallerSame
  <2>2. served[d] = "held" => \E l \in Lanes : Carries(l, d) BY DEF InStep, ConvOK
  <2> QED BY <2>1, <2>2
<1> QED BY <1>3, <1>4 DEF ConvOK
(* The queue, when nothing in it is taken.                                  *)
LEMMA QueueKept ==
  ASSUME InStep, queue' = queue, \A d \in Convs : Pending(d) => Pending(d)'
  PROVE  QueueOK'
<1>1. queue.reqs \in Seq(Convs) BY DEF InStep, ConvTypes
<1>2. \A i \in 1..Len(queue.reqs) : queue.reqs[i] \in Convs BY <1>1
<1>3. ASSUME NEW i \in 1..Len(queue.reqs) PROVE Pending(queue.reqs[i])'
  <2>1. PICK d \in Convs : d = queue.reqs[i] BY <1>2
  <2>2. Pending(d) BY <2>1 DEF InStep, QueueOK
  <2>3. served'[d] = "no" /\ st'[d] # "new" BY <2>2 DEF Pending
  <2>4. queue'.reqs[i] = d BY <2>1
  <2> QED BY <2>1, <2>3, <2>4 DEF Pending
<1>4. \A i, j \in 1..Len(queue.reqs) : queue.reqs[i] = queue.reqs[j] => i = j
  BY DEF InStep, QueueOK
<1> QED BY <1>3, <1>4 DEF QueueOK

(* A step of one lane and one conversation.                                 *)
LEMMA OneMoves ==
  ASSUME InStep, ConvTypes', QueueOK', NEW l \in Lanes, NEW c \in Convs,
         \A m \in Lanes : m # l => LaneSame(m),
         \A d \in Convs : d # c => CallerSame(d),
         \A m \in Lanes : Carries(m, c) => m = l,
         \A d \in Convs : Carries(l, d) \/ Carries(l, d)' => d = c,
         LaneOK(l)', ConvOK(c)'
  PROVE  InStep'
<1>1. ASSUME NEW m \in Lanes, m # l PROVE LaneOK(m)'
  <2>1. LaneSame(m) BY <1>1
  <2>2. ASSUME NEW d \in Convs, Carries(m, d) PROVE CallerSame(d) BY <1>1, <2>2
  <2> QED BY <2>1, <2>2, LaneKept
<1>2. ASSUME NEW d \in Convs, d # c PROVE ConvOK(d)'
  <2>1. CallerSame(d) BY <1>2
  <2>2. ASSUME NEW m \in Lanes, Carries(m, d) PROVE Carries(m, d)'
    <3>1. m # l BY <1>2, <2>2
    <3> QED BY <2>2, <3>1, SameViews
  <2> QED BY <2>1, <2>2, ConvKept
<1>3. OneLane'
  <2>1. ASSUME NEW m \in Lanes, NEW n \in Lanes, NEW d \in Convs,
               Carries(m, d)', Carries(n, d)'
        PROVE  m = n
    <3>1. CASE m = l \/ n = l
      <4>1. d = c BY <3>1, <2>1
      <4>2. m # l => Carries(m, c) BY <4>1, <2>1, SameViews
      <4>3. n # l => Carries(n, c) BY <4>1, <2>1, SameViews
      <4> QED BY <4>2, <4>3
    <3>2. CASE m # l /\ n # l
      <4>1. Carries(m, d) /\ Carries(n, d) BY <3>2, <2>1, SameViews
      <4> QED BY <4>1 DEF InStep, OneLane
    <3> QED BY <3>1, <3>2
  <2> QED BY <2>1 DEF OneLane
<1> QED BY <1>1, <1>2, <1>3 DEF InStep

(* A step of a conversation no pump has.                                    *)
LEMMA CallerMoves ==
  ASSUME InStep, ConvTypes', QueueOK', NEW c \in Convs, served[c] # "held",
         \A m \in Lanes : LaneSame(m),
         \A d \in Convs : d # c => CallerSame(d),
         ConvOK(c)'
  PROVE  InStep'
<1>1. ASSUME NEW m \in Lanes PROVE LaneOK(m)'
  <2>1. LaneSame(m) BY <1>1
  <2>2. ASSUME NEW d \in Convs, Carries(m, d) PROVE CallerSame(d)
    <3>1. d # c BY <2>2, CarriedHolds
    <3> QED BY <3>1
  <2> QED BY <2>1, <2>2, LaneKept
<1>2. ASSUME NEW d \in Convs, d # c PROVE ConvOK(d)' BY <1>2, SameViews, ConvKept
<1>3. OneLane' BY SameViews DEF InStep, OneLane
<1> QED BY <1>1, <1>2, <1>3 DEF InStep

(* A step of the worker on one lane: the pump and the callers are still.    *)
LEMMA WorkerMoves ==
  ASSUME InStep, ConvTypes', NEW l \in Lanes,
         UNCHANGED <<st, stack, reply, hostops, served, queue, pump>>,
         \A m \in Lanes : m # l => LaneSame(m),
         \A c \in Convs : Holds(l, c) => OnLane(c, LaneView(l)', CallerView(c)),
         pump[l].pc # "idle"
  PROVE  InStep'
<1>1. \A d \in Convs : CallerSame(d) BY DEF CallerSame
<1>2. \A m \in Lanes, c \in Convs : Carries(m, c)' <=> Carries(m, c) BY DEF Carries, Engaged
<1>3. LaneOK(l)'
  <2>1. pump'[l].pc # "idle" OBVIOUS
  <2>2. ASSUME Engaged(l)' PROVE \E c \in Convs : OnLane(c, LaneView(l)', CallerView(c)')
    <3>1. Engaged(l) BY <2>2 DEF Engaged
    <3>2. PICK c \in Convs : Holds(l, c) BY <3>1, LaneCarries
    <3>3. CallerView(c)' = CallerView(c) BY <1>1, SameViews
    <3> QED BY <3>2, <3>3
  <2> QED BY <2>1, <2>2 DEF LaneOK
<1>4. ASSUME NEW m \in Lanes, m # l PROVE LaneOK(m)' BY <1>4, <1>1, LaneKept
<1>5. ASSUME NEW d \in Convs PROVE ConvOK(d)' BY <1>1, <1>2, ConvKept
<1>6. QueueOK' BY QueueKept DEF Pending
<1>7. OneLane' BY <1>2 DEF InStep, OneLane
<1> QED BY <1>3, <1>4, <1>5, <1>6, <1>7 DEF InStep

-----------------------------------------------------------------------------
(* The steps of the caller.                                                 *)

(* service_call.                                                            *)
LEMMA ServiceCallInStep ==
  ASSUME InStep, NEW c \in Convs, ServiceCall(c)
  PROVE  InStep'
<1>1. served[c] = "no" /\ served'[c] = "no" /\ st[c] = "new"
  <2>1. Aside(c, CallerView(c)) BY DEF InStep, ConvOK
  <2> QED BY <2>1 DEF Aside, CallerView, ServiceCall
<1>2. \A m \in Lanes : LaneSame(m) BY DEF LaneSame, ServiceCall, workerVars
<1>3. ConvTypes /\ QueueOK BY DEF InStep
<1>4. <<c, 1>> \in Ids /\ Call(c, 1) \in Levels BY DEF Ids, Call, Levels
<1>5. <<Call(c, 1)>> \in Seq(Levels) /\ <<Call(c, 1)>> # <<>> BY <1>4
<1>6. reply[c] = <<>> /\ hostops[c] = <<>>
  <2>1. Aside(c, CallerView(c)) BY DEF InStep, ConvOK
  <2> QED BY <2>1, <1>1 DEF Aside, CallerView
<1>7. CASE queue.open = TRUE
  <2>1. /\ st' = [st EXCEPT ![c] = "active"] /\ stack' = [stack EXCEPT ![c] = <<Call(c, 1)>>]
        /\ made' = [made EXCEPT ![c] = 1]
        /\ queue' = [queue EXCEPT !.reqs = Append(@, c)]
    BY <1>7 DEF ServiceCall
  <2>2. /\ reply' = reply /\ hostops' = hostops /\ served' = served /\ pump' = pump /\ down' = down
        /\ up' = up /\ loop' = loop /\ fiber' = fiber /\ fup' = fup /\ fdown' = fdown
    BY DEF ServiceCall, workerVars
  <2>3. st'[c] = "active" /\ stack'[c] = <<Call(c, 1)>> BY <2>1, <1>3 DEF ConvTypes
  <2>4. queue'.reqs = Append(queue.reqs, c) /\ queue' \in [open : BOOLEAN, reqs : Seq(Convs)]
        /\ queue.reqs \in Seq(Convs)
    <3> DEFINE q == Append(queue.reqs, c)
    <3>1. queue \in [open : BOOLEAN, reqs : Seq(Convs)] BY <1>3 DEF ConvTypes
    <3>2. queue.reqs \in Seq(Convs) BY <3>1
    <3>3. q \in Seq(Convs) BY <3>2
    <3>4. queue' = [queue EXCEPT !.reqs = q] BY <2>1
    <3> HIDE DEF q
    <3>5. queue'.reqs = q /\ queue' \in [open : BOOLEAN, reqs : Seq(Convs)] BY <3>1, <3>3, <3>4
    <3> QED BY <3>2, <3>5 DEF q
  <2>5. ConvTypes'
    <3>1. stack' \in [Convs -> Seq(Levels)] BY <2>1, <1>3, <1>5 DEF ConvTypes
    <3> QED BY <2>1, <2>2, <2>4, <3>1, <1>3 DEF ConvTypes
  <2>6. \A d \in Convs : d # c => CallerSame(d) BY <2>1, <2>2, <1>3 DEF ConvTypes, CallerSame
  <2>7. QueueOK'
    <3> DEFINE q == queue.reqs
    <3>1. /\ q \in Seq(Convs) /\ queue'.reqs = Append(q, c) /\ Len(q) \in Nat
          /\ Len(queue'.reqs) = Len(q) + 1
          /\ \A i \in 1..Len(q) : queue'.reqs[i] = q[i] /\ q[i] \in Convs
          /\ queue'.reqs[Len(q) + 1] = c
      BY <2>4
    <3>2. \A i \in 1..Len(q) : q[i] # c
      <4>1. ASSUME NEW i \in 1..Len(q), q[i] = c PROVE FALSE
        <5>1. Pending(q[i]) BY <1>3 DEF QueueOK
        <5> QED BY <5>1, <4>1, <1>1 DEF Pending
      <4> QED BY <4>1
    <3>3. ASSUME NEW i \in 1..Len(queue'.reqs) PROVE Pending(queue.reqs[i])'
      <4>1. CASE i \in 1..Len(q)
        <5>1. PICK d \in Convs : d = q[i] BY <4>1, <3>1
        <5>2. Pending(d) BY <4>1, <5>1, <1>3 DEF QueueOK
        <5>3. served'[d] = "no" /\ st'[d] # "new"
          BY <5>2, <5>1, <3>2, <4>1, <2>6 DEF Pending, CallerSame
        <5> QED BY <5>1, <5>3, <4>1, <3>1 DEF Pending
      <4>2. CASE i \notin 1..Len(q)
        <5>1. queue'.reqs[i] = c BY <4>2, <3>1
        <5> QED BY <5>1, <2>3, <1>1 DEF Pending
      <4> QED BY <4>1, <4>2
    <3>4. ASSUME NEW i \in 1..Len(queue'.reqs), NEW j \in 1..Len(queue'.reqs),
                 queue'.reqs[i] = queue'.reqs[j]
          PROVE  i = j
      <4>1. CASE i \in 1..Len(q) /\ j \in 1..Len(q) BY <4>1, <3>1, <3>4, <1>3 DEF QueueOK
      <4>2. CASE i \notin 1..Len(q) /\ j \notin 1..Len(q) BY <4>2, <3>1
      <4>3. CASE i \in 1..Len(q) /\ j \notin 1..Len(q)
        <5>1. j = Len(q) + 1 BY <4>3, <3>1
        <5> QED BY <5>1, <4>3, <3>1, <3>2, <3>4
      <4>4. CASE i \notin 1..Len(q) /\ j \in 1..Len(q)
        <5>1. i = Len(q) + 1 BY <4>4, <3>1
        <5> QED BY <5>1, <4>4, <3>1, <3>2, <3>4
      <4> QED BY <4>1, <4>2, <4>3, <4>4
    <3> QED BY <3>3, <3>4 DEF QueueOK
  <2>8. ConvOK(c)'
    <3>1. Aside(c, CallerView(c)') BY <2>2, <2>3, <1>1, <1>5, <1>6 DEF Aside, CallerView, Talks
    <3> QED BY <3>1, <1>1 DEF ConvOK
  <2> QED BY <1>1, <1>2, <2>5, <2>6, <2>7, <2>8, CallerMoves
<1>8. CASE queue.open # TRUE
  <2>1. /\ st' = [st EXCEPT ![c] = "died"] /\ stack' = stack /\ made' = made /\ queue' = queue
    BY <1>8, <1>3 DEF ServiceCall, ConvTypes
  <2>2. /\ reply' = reply /\ hostops' = hostops /\ served' = served /\ pump' = pump /\ down' = down
        /\ up' = up /\ loop' = loop /\ fiber' = fiber /\ fup' = fup /\ fdown' = fdown
    BY DEF ServiceCall, workerVars
  <2>3. st'[c] = "died" BY <2>1, <1>3 DEF ConvTypes
  <2>4. ConvTypes' BY <2>1, <2>2, <1>3 DEF ConvTypes
  <2>5. \A d \in Convs : d # c => CallerSame(d) BY <2>1, <2>2, <1>3 DEF ConvTypes, CallerSame
  <2>6. QueueOK'
    <3>1. \A d \in Convs : Pending(d) => Pending(d)' BY <1>1, <2>5 DEF Pending, CallerSame
    <3> QED BY <2>1, <3>1, QueueKept
  <2>7. ConvOK(c)'
    <3>1. Aside(c, CallerView(c)') BY <2>2, <2>3, <1>1, <1>6 DEF Aside, CallerView, Talks
    <3> QED BY <3>1, <1>1 DEF ConvOK
  <2> QED BY <1>1, <1>2, <2>4, <2>5, <2>6, <2>7, CallerMoves
<1> QED BY <1>7, <1>8

(* A step of an active caller that a pump still has, or not any more.       *)
CallerStill(c) ==
    /\ served' = served /\ queue' = queue /\ pump' = pump /\ down' = down /\ up' = up
    /\ loop' = loop /\ fiber' = fiber /\ fup' = fup /\ fdown' = fdown
    /\ \A d \in Convs : d # c => CallerSame(d)
(* The lane of the conversation, if any, stays in step.                     *)
LEMMA CallerKeepsLane ==
  ASSUME InStep, ConvTypes', NEW c \in Convs, CallerStill(c), st'[c] # "new",
         \A l \in Lanes : Holds(l, c) => OnLane(c, LaneView(l), CallerView(c)'),
         Aside(c, CallerView(c)')
  PROVE  InStep'
<1>1. \A m \in Lanes : LaneSame(m) BY DEF LaneSame, CallerStill
<1>2. \A d \in Convs : Pending(d) => Pending(d)' BY DEF CallerStill, CallerSame, Pending
<1>3. QueueOK' BY <1>2, QueueKept DEF CallerStill
<1>4. CASE served[c] # "held"
  <2>1. ConvOK(c)' BY <1>4 DEF ConvOK, CallerStill
  <2> QED BY <2>1, <1>1, <1>3, <1>4, CallerMoves DEF CallerStill
<1>5. CASE served[c] = "held"
  <2>1. PICK l \in Lanes : Carries(l, c) BY <1>5 DEF InStep, ConvOK
  <2>2. Holds(l, c) BY <2>1, CarriedHolds
  <2>3. LaneView(l)' = LaneView(l) /\ Carries(l, c)' BY <1>1, <2>1, SameViews
  <2>4. LaneOK(l)'
    <3>1. OnLane(c, LaneView(l)', CallerView(c)') BY <2>2, <2>3
    <3>2. pump'[l].pc # "idle" BY <2>3 DEF Carries, Engaged
    <3> QED BY <3>1, <3>2 DEF LaneOK
  <2>5. ConvOK(c)' BY <2>3 DEF ConvOK
  <2>6. \A m \in Lanes : Carries(m, c) => m = l BY <2>1 DEF InStep, OneLane
  <2>7. \A d \in Convs : Carries(l, d) \/ Carries(l, d)' => d = c BY <2>1, <2>3 DEF Carries
  <2>8. \A d \in Convs : d # c => CallerSame(d) BY DEF CallerStill
  <2> QED BY <1>1, <1>3, <2>4, <2>5, <2>6, <2>7, <2>8, OneMoves
<1> QED BY <1>4, <1>5

(* A caller leaves: answered, cancelled or told of a death.                 *)
LEMMA CallerLeaves ==
  ASSUME InStep, ConvTypes', NEW c \in Convs, CallerStill(c), st[c] # "new",
         st'[c] \in {"done", "cancelled", "died"}, hostops'[c] = hostops[c],
         reply'[c] = reply[c] \/ served[c] # "no"
  PROVE  InStep'
<1>1. st'[c] # "new" /\ st'[c] # "active" OBVIOUS
<1>2. ASSUME NEW l \in Lanes, Holds(l, c) PROVE OnLane(c, LaneView(l), CallerView(c)')
  <2>1. served[c] = "held" BY <1>2, Carried
  <2>2. CallerView(c)'.st = st'[c] /\ CallerView(c)'.served = "held"
        /\ CallerView(c)'.hostops = CallerView(c).hostops
    BY <2>1 DEF CallerView, CallerStill
  <2> QED BY <1>1, <1>2, <2>2, LaneWithout DEF Holds
<1>3. Aside(c, CallerView(c)')
  <2>1. Aside(c, CallerView(c)) BY DEF InStep, ConvOK
  <2> QED BY <2>1, <1>1 DEF Aside, CallerView, CallerStill, Talks
<1> QED BY <1>1, <1>2, <1>3, CallerKeepsLane

(* What a caller's step writes, and its typing.                             *)
CallerWrites(c, n, s, r, h) ==
    /\ n \in {"active", "done", "cancelled", "died"} /\ s \in Seq(Levels)
    /\ stack' = [stack EXCEPT ![c] = s]
    /\ st' = [st EXCEPT ![c] = n] \/ (st' = st /\ n = st[c])
    /\ reply' = [reply EXCEPT ![c] = r] \/ (reply' = reply /\ r = reply[c])
    /\ hostops' = [hostops EXCEPT ![c] = h] \/ (hostops' = hostops /\ h = hostops[c])
    /\ UNCHANGED <<served, queue, pump, down, up, loop, fiber, fup, fdown>>
(* The step writes one conversation.                                        *)
LEMMA CallerTyped ==
  ASSUME InStep, NEW c \in Convs, NEW n, NEW s, NEW r, NEW h, CallerWrites(c, n, s, r, h),
         made' = made \/ made' \in [Convs -> Nat]
  PROVE  /\ ConvTypes' /\ CallerStill(c)
         /\ st'[c] = n /\ stack'[c] = s /\ reply'[c] = r /\ hostops'[c] = h
<1>1. ConvTypes BY DEF InStep
<1>2. stack' \in [Convs -> Seq(Levels)] BY <1>1 DEF ConvTypes, CallerWrites
<1>3. ConvTypes'
  <2>1. st' \in [Convs -> {"new", "active", "done", "cancelled", "died"}]
    BY <1>1 DEF ConvTypes, CallerWrites
  <2>2. DOMAIN reply' = Convs /\ DOMAIN hostops' = Convs BY <1>1 DEF ConvTypes, CallerWrites
  <2>3. made' \in [Convs -> Nat] BY <1>1 DEF ConvTypes
  <2> QED BY <1>1, <1>2, <2>1, <2>2, <2>3 DEF ConvTypes, CallerWrites
<1>4. CallerStill(c) BY <1>1 DEF CallerStill, CallerSame, ConvTypes, CallerWrites
<1>5. st'[c] = n /\ stack'[c] = s /\ reply'[c] = r /\ hostops'[c] = h
  BY <1>1 DEF ConvTypes, CallerWrites
<1> QED BY <1>3, <1>4, <1>5

(* What is known of a conversation before the step.                         *)
LEMMA CallerTypes ==
  ASSUME InStep, NEW c \in Convs
  PROVE  made \in [Convs -> Nat] /\ stack[c] \in Seq(Levels)
BY DEF InStep, ConvTypes

(* The reply lane closed, or a cancel.                                      *)
LEMMA CallerEndsInStep ==
  ASSUME InStep, NEW c \in Convs, ReplyLaneClosed(c) \/ CallerCancelled(c)
  PROVE  InStep'
<1>1. PICK n \in {"died", "cancelled"} :
         st' = [st EXCEPT ![c] = n] /\ stack' = [stack EXCEPT ![c] = <<>>]
  BY DEF ReplyLaneClosed, CallerCancelled, Ends
<1>2. UNCHANGED <<made, reply, hostops, served, queue, pump, down, up, loop, fiber, fup, fdown>>
  BY DEF ReplyLaneClosed, CallerCancelled, workerVars
<1>3. st[c] = "active" BY DEF ReplyLaneClosed, CallerCancelled, InCall
<1>4. <<>> \in Seq(Levels) OBVIOUS
<1>5. CallerWrites(c, n, <<>>, reply[c], hostops[c]) BY <1>1, <1>2, <1>4 DEF CallerWrites
<1>6. ConvTypes' /\ CallerStill(c) /\ st'[c] = n BY <1>2, <1>5, CallerTyped
<1> QED BY <1>2, <1>3, <1>6, CallerLeaves

(* conversation.                                                            *)
LEMMA ConversationInStep ==
  ASSUME InStep, NEW c \in Convs, conversation(c)
  PROVE  InStep'
<1> DEFINE f == Head(reply[c])
           v == CallerView(c)
           s == IF f.k = "call" THEN Append(stack[c], [k |-> "cb", id |-> f.id])
                ELSE Pop(stack[c])
<1>1. st[c] = "active" /\ reply[c] # <<>> /\ Last(stack[c]).k = "call"
  BY DEF conversation, InCall
<1>2. UNCHANGED <<made, hostops, served, queue, pump, down, up, loop, fiber, fup, fdown>>
  BY DEF conversation, workerVars
<1>3. reply' = [reply EXCEPT ![c] = Tail(reply[c])] BY DEF conversation
<1>4. Aside(c, v) BY DEF InStep, ConvOK
<1>5. served[c] # "no" BY <1>1, <1>4 DEF Aside, CallerView
<1>6. served[c] \in {"no", "held", "dropped"} BY DEF InStep, ConvTypes
<1>7. v.st = "active" /\ v.stack = stack[c] /\ v.reply = reply[c] /\ v.hostops = hostops[c]
      /\ v.served = served[c] /\ Talks(v)
  BY <1>1 DEF CallerView, Talks
<1>8. stack[c] \in Seq(Levels) /\ stack[c] # <<>> BY <1>4, <1>7, CallerTypes DEF Aside
<1>9. CASE f.k # "call" /\ Len(stack[c]) = 1
  <2>1. st' = [st EXCEPT ![c] = "done"] /\ stack' = [stack EXCEPT ![c] = <<>>]
    BY <1>9 DEF conversation, Ends
  <2>2. <<>> \in Seq(Levels) OBVIOUS
  <2>3. CallerWrites(c, "done", <<>>, Tail(reply[c]), hostops[c])
    BY <1>2, <1>3, <2>1, <2>2 DEF CallerWrites
  <2>4. ConvTypes' /\ CallerStill(c) /\ st'[c] = "done" BY <1>2, <2>3, CallerTyped
  <2> QED BY <1>1, <1>2, <1>5, <2>4, CallerLeaves
<1>10. CASE f.k = "call" \/ Len(stack[c]) # 1
  <2>1. st' = st /\ stack' = [stack EXCEPT ![c] = s] BY <1>10 DEF conversation
  <2>2. CASE served[c] = "held"
    <3>1. PICK l \in Lanes : Carries(l, c) BY <2>2 DEF InStep, ConvOK
    <3>2. OnLane(c, LaneView(l), v) BY <3>1, CarriedHolds DEF Holds
    <3> DEFINE y == [st |-> st[c], stack |-> s, reply |-> Tail(reply[c]),
                     hostops |-> hostops[c], served |-> served[c]]
    <3>3. /\ y.st = v.st /\ y.hostops = v.hostops /\ y.served = v.served
          /\ y.reply = Tail(v.reply) /\ y.stack = s
      <4> HIDE DEF s, v
      <4> QED BY <1>1, <1>7
    <3> HIDE DEF y
    <3>4. s # <<>> /\ s \in Seq(Levels) /\ \A m \in Lanes : Holds(m, c) => OnLane(c, LaneView(m), y)
      <4>1. s # <<>> /\ s \in Seq(Levels) BY <3>2, <3>3, <1>1, <1>7, <1>8, CallerTakes
      <4>2. ASSUME NEW m \in Lanes, Holds(m, c) PROVE OnLane(c, LaneView(m), y)
        BY <4>2, <3>3, <1>1, <1>7, <1>8, CallerTakes DEF Holds
      <4> QED BY <4>1, <4>2
    <3> HIDE DEF s
    <3>5. /\ ConvTypes' /\ CallerStill(c) /\ st'[c] = st[c] /\ stack'[c] = s
          /\ reply'[c] = Tail(reply[c]) /\ hostops'[c] = hostops[c]
      <4>1. CallerWrites(c, st[c], s, Tail(reply[c]), hostops[c])
        BY <1>1, <1>2, <1>3, <2>1, <3>4 DEF CallerWrites
      <4> QED BY <4>1, <1>2, CallerTyped
    <3>6. CallerView(c)' = y BY <3>5 DEF CallerView, CallerStill, y
    <3>7. Aside(c, CallerView(c)') BY <3>3, <3>4, <3>6, <2>2, <1>7 DEF Aside
    <3> QED BY <1>1, <3>4, <3>5, <3>6, <3>7, CallerKeepsLane
  <2>3. CASE served[c] = "dropped"
    <3>1. PICK g \in Frames : reply[c] = <<g>> BY <2>3, <1>1, <1>4, <1>7 DEF Aside
    <3>2. f = g /\ Tail(reply[c]) = <<>> BY <3>1, OneFrame
    <3>3. f.k \in {"call", "ret"} BY <3>2 DEF Frames
    <3>4. s \in Seq(Levels) /\ s # <<>>
      <4>1. CASE f.k = "call"
        <5>1. [k |-> "cb", id |-> f.id] \in Levels BY <3>2 DEF Frames, Levels
        <5> QED BY <4>1, <5>1, <1>8
      <4>2. CASE f.k = "ret"
        <5>1. Pop(stack[c]) \in Seq(Levels) /\ Popped(Pop(stack[c]), stack[c])
          BY <1>8, PopStack
        <5>2. Len(stack[c]) # 1 BY <1>10, <4>2
        <5>3. Len(Pop(stack[c])) # 0 BY <5>1, <5>2 DEF Popped
        <5> QED BY <4>2, <5>1, <5>3
      <4> QED BY <4>1, <4>2, <3>3
    <3> HIDE DEF s
    <3>5. /\ ConvTypes' /\ CallerStill(c) /\ st'[c] = st[c] /\ stack'[c] = s
          /\ reply'[c] = <<>> /\ hostops'[c] = hostops[c]
      <4>1. CallerWrites(c, st[c], s, <<>>, hostops[c])
        BY <1>1, <1>2, <1>3, <2>1, <3>2, <3>4 DEF CallerWrites
      <4> QED BY <4>1, <1>2, CallerTyped
    <3>6. Aside(c, CallerView(c)')
      BY <3>4, <3>5, <2>3, <1>1 DEF Aside, CallerView, CallerStill
    <3>7. \A l \in Lanes : ~Holds(l, c) BY <2>3, Carried
    <3> QED BY <1>1, <3>5, <3>6, <3>7, CallerKeepsLane
  <2> QED BY <2>2, <2>3, <1>5, <1>6
<1> QED BY <1>9, <1>10

(* nested_call and service_parent_hostop.                                   *)
LEMMA BlockInStep ==
  ASSUME InStep, NEW c \in Convs, nested_call(c) \/ service_parent_hostop(c)
  PROVE  InStep'
<1> DEFINE v == CallerView(c)
<1>1. st[c] = "active" /\ stack[c][Len(stack[c])].k = "cb"
  BY DEF nested_call, service_parent_hostop, InCallback, Last
<1>2. UNCHANGED <<reply, served, queue, pump, down, up, loop, fiber, fup, fdown>>
  BY DEF nested_call, service_parent_hostop, workerVars
<1>3. made[c] \in Nat /\ made \in [Convs -> Nat] BY DEF InStep, ConvTypes
<1>4. made' \in [Convs -> Nat] BY <1>3 DEF nested_call, service_parent_hostop
<1>5. Aside(c, v) BY DEF InStep, ConvOK
<1>6. v.st = "active" /\ v.stack = stack[c] /\ v.reply = reply[c] /\ v.hostops = hostops[c]
      /\ v.served = served[c] /\ Talks(v)
  BY <1>1 DEF CallerView, Talks
<1>7. served[c] \in {"no", "held", "dropped"} BY DEF InStep, ConvTypes
<1>8. served[c] # "no"
  <2>1. SUFFICES ASSUME served[c] = "no" PROVE FALSE OBVIOUS
  <2>2. stack[c] = <<Call(c, 1)>> BY <2>1, <1>5, <1>6 DEF Aside
  <2>3. Len(stack[c]) = 1 /\ stack[c][1] = Call(c, 1) BY <2>2
  <2> QED BY <2>3, <1>1 DEF Call
<1>9. CASE served[c] = "dropped"
  <2>1. st' = [st EXCEPT ![c] = "died"] /\ stack' = [stack EXCEPT ![c] = <<>>] /\ hostops' = hostops
    BY <1>9 DEF nested_call, service_parent_hostop, Ends
  <2>2. <<>> \in Seq(Levels) OBVIOUS
  <2>3. CallerWrites(c, "died", <<>>, reply[c], hostops[c])
    BY <1>2, <2>1, <2>2 DEF CallerWrites
  <2>4. ConvTypes' /\ CallerStill(c) /\ st'[c] = "died" BY <1>4, <2>3, CallerTyped
  <2> QED BY <1>1, <1>2, <2>1, <2>4, CallerLeaves
<1>10. CASE served[c] = "held"
  <2>1. PICK f, s :
          /\ st' = st /\ stack' = [stack EXCEPT ![c] = s]
          /\ hostops' = [hostops EXCEPT ![c] = Append(hostops[c], f)]
          /\ \/ f = Call(c, made[c] + 1) /\ s = Append(stack[c], f)
             \/ f = Ret(Last(stack[c])) /\ s = Pop(stack[c])
    BY <1>10 DEF nested_call, service_parent_hostop
  <2>2. \/ f \in Frames /\ f \in Levels /\ f.k = "call" /\ s = Append(stack[c], f)
        \/ f = Ret(Last(stack[c])) /\ s = Pop(stack[c])
    <3>1. <<c, made[c] + 1>> \in Ids BY <1>3 DEF Ids
    <3>2. Call(c, made[c] + 1) \in Frames /\ Call(c, made[c] + 1) \in Levels
          /\ Call(c, made[c] + 1).k = "call"
      BY <3>1 DEF Call, Frames, Levels
    <3> QED BY <2>1, <3>2
  <2>3. PICK l \in Lanes : Carries(l, c) BY <1>10 DEF InStep, ConvOK
  <2>4. OnLane(c, LaneView(l), v) BY <2>3, CarriedHolds DEF Holds
  <2> DEFINE y == [st |-> st[c], stack |-> s, reply |-> reply[c],
                   hostops |-> Append(hostops[c], f), served |-> served[c]]
  <2>5. /\ y.st = v.st /\ y.hostops = Append(v.hostops, f) /\ y.served = v.served
        /\ y.reply = v.reply /\ y.stack = s
    <3> HIDE DEF v
    <3> QED BY <1>1, <1>6
  <2> HIDE DEF y
  <2>6. stack[c] \in Seq(Levels) BY CallerTypes
  <2>7. s # <<>> /\ s \in Seq(Levels) BY <2>2, <2>4, <2>5, <2>6, <1>1, <1>6, CallerSays
  <2>8. ASSUME NEW m \in Lanes, Holds(m, c) PROVE OnLane(c, LaneView(m), y)
    BY <2>2, <2>5, <2>6, <2>8, <1>1, <1>6, CallerSays DEF Holds
  <2>9. /\ ConvTypes' /\ CallerStill(c) /\ st'[c] = st[c] /\ stack'[c] = s
        /\ reply'[c] = reply[c] /\ hostops'[c] = Append(hostops[c], f)
    <3>1. CallerWrites(c, st[c], s, reply[c], Append(hostops[c], f))
      BY <1>1, <1>2, <2>1, <2>7 DEF CallerWrites
    <3> QED BY <3>1, <1>4, CallerTyped
  <2>10. CallerView(c)' = y BY <2>9 DEF CallerView, CallerStill, y
  <2>11. Aside(c, CallerView(c)') BY <2>5, <2>7, <2>10, <1>6, <1>10 DEF Aside
  <2> QED BY <1>1, <2>8, <2>9, <2>10, <2>11, CallerKeepsLane
<1> QED BY <1>7, <1>8, <1>9, <1>10

-----------------------------------------------------------------------------
(* The steps of the pump.                                                   *)

(* What a pump's step writes of lane l and conversation c, and its typing.  *)
PumpWrites(l, c, p, dn, r, h, sv) ==
    /\ p \in [pc : {"idle", "read", "down", "broken", "exited"}, conv : Convs \cup {0}, depth : Int]
    /\ sv \in {"no", "held", "dropped"}
    /\ pump' = [pump EXCEPT ![l] = p]
    /\ down' = [down EXCEPT ![l] = dn] \/ (down' = down /\ dn = down[l])
    /\ reply' = [reply EXCEPT ![c] = r] \/ (reply' = reply /\ r = reply[c])
    /\ hostops' = [hostops EXCEPT ![c] = h] \/ (hostops' = hostops /\ h = hostops[c])
    /\ served' = [served EXCEPT ![c] = sv] \/ (served' = served /\ sv = served[c])
    /\ UNCHANGED <<st, stack, made, loop, fiber, fup, fdown>>
PumpWrote(l, c, p, dn, r, h, sv) ==
    /\ pump'[l] = p /\ down'[l] = dn /\ reply'[c] = r /\ hostops'[c] = h /\ served'[c] = sv
(* The step writes one lane and one conversation.                           *)
LEMMA PumpTyped ==
  ASSUME InStep, NEW l \in Lanes, NEW c \in Convs, NEW p, NEW dn, NEW r, NEW h, NEW sv,
         PumpWrites(l, c, p, dn, r, h, sv), DOMAIN up' = Lanes,
         \A m \in Lanes : m # l => up'[m] = up[m],
         queue' \in [open : BOOLEAN, reqs : Seq(Convs)]
  PROVE  /\ ConvTypes' /\ PumpWrote(l, c, p, dn, r, h, sv)
         /\ \A m \in Lanes : m # l => LaneSame(m)
         /\ \A d \in Convs : d # c => CallerSame(d)
<1>1. ConvTypes BY DEF InStep
<1>2. pump' \in [Lanes -> [pc : {"idle", "read", "down", "broken", "exited"},
                           conv : Convs \cup {0}, depth : Int]]
  BY <1>1 DEF ConvTypes, PumpWrites
<1>3. served' \in [Convs -> {"no", "held", "dropped"}] BY <1>1 DEF ConvTypes, PumpWrites
<1>4. ConvTypes' BY <1>1, <1>2, <1>3 DEF ConvTypes, PumpWrites
<1>5. PumpWrote(l, c, p, dn, r, h, sv) BY <1>1 DEF ConvTypes, PumpWrites, PumpWrote
<1>6. ASSUME NEW m \in Lanes, m # l PROVE LaneSame(m)
  BY <1>1, <1>6 DEF ConvTypes, PumpWrites, LaneSame
<1>7. ASSUME NEW d \in Convs, d # c PROVE CallerSame(d)
  BY <1>1, <1>7 DEF ConvTypes, PumpWrites, CallerSame
<1> QED BY <1>4, <1>5, <1>6, <1>7

(* The pump's own part of the invariant.                                    *)
LEMMA PumpTypes ==
  ASSUME InStep, NEW l \in Lanes
  PROVE  /\ pump[l] \in [pc : {"idle", "read", "down", "broken", "exited"},
                         conv : Convs \cup {0}, depth : Int]
         /\ queue \in [open : BOOLEAN, reqs : Seq(Convs)] /\ queue.reqs \in Seq(Convs)
         /\ DOMAIN up = Lanes /\ l \in DOMAIN pump
BY DEF InStep, ConvTypes

(* Taking the head of the queue.                                            *)
LEMMA QueueTaken ==
  ASSUME InStep, queue.reqs # <<>>, queue' = [queue EXCEPT !.reqs = Tail(@)],
         NEW c, c = Head(queue.reqs), \A d \in Convs : d # c => CallerSame(d)
  PROVE  /\ c \in Convs /\ Pending(c) /\ QueueOK'
         /\ queue' \in [open : BOOLEAN, reqs : Seq(Convs)]
<1>0. PICK q, t : q = queue.reqs /\ t = Tail(queue.reqs) OBVIOUS
<1>1. queue \in [open : BOOLEAN, reqs : Seq(Convs)] /\ QueueOK BY DEF InStep, ConvTypes
<1>2. q \in Seq(Convs) /\ q # <<>> BY <1>0, <1>1
<1>3. queue' = [queue EXCEPT !.reqs = t] BY <1>0
<1>4. /\ t \in Seq(Convs) /\ Len(q) \in Nat /\ Len(t) = Len(q) - 1 /\ Head(q) = q[1]
      /\ \A i \in 1..Len(t) : t[i] = q[i + 1] /\ i + 1 \in 1..Len(q) /\ i + 1 # 1
      /\ 1 \in 1..Len(q)
  BY <1>0, <1>2
<1>5. queue'.reqs = t /\ queue' \in [open : BOOLEAN, reqs : Seq(Convs)] BY <1>1, <1>3, <1>4
<1>6. c = q[1] BY <1>0, <1>4
<1>7. c \in Convs /\ Pending(c) BY <1>1, <1>2, <1>4, <1>6, <1>0 DEF QueueOK
<1>8. ASSUME NEW i \in 1..Len(t) PROVE served'[t[i]] = "no" /\ st'[t[i]] # "new"
  <2>1. PICK d \in Convs : d = q[i + 1] BY <1>2, <1>4
  <2>2. Pending(d) BY <1>1, <1>4, <2>1, <1>0 DEF QueueOK
  <2>3. d # c
    <3>1. d = c => i + 1 = 1 BY <1>1, <1>4, <1>6, <2>1, <1>0 DEF QueueOK
    <3> QED BY <3>1, <1>4
  <2>4. served'[d] = "no" /\ st'[d] # "new" BY <2>2, <2>3 DEF Pending, CallerSame
  <2>5. t[i] = d BY <2>1, <1>4
  <2> QED BY <2>4, <2>5
<1>9. ASSUME NEW i \in 1..Len(t), NEW j \in 1..Len(t), t[i] = t[j] PROVE i = j
  <2>1. i + 1 = j + 1 BY <1>9, <1>1, <1>4, <1>0 DEF QueueOK
  <2> QED BY <2>1
<1>10. QueueOK' BY <1>5, <1>8, <1>9 DEF QueueOK, Pending
<1> QED BY <1>5, <1>7, <1>10

(* A pump takes a conversation, or finds its socket broken.                 *)
LEMMA PumpTakeInStep ==
  ASSUME InStep, NEW l \in Lanes, PumpTake(l)
  PROVE  InStep'
<1>0. PICK c : c = Head(queue.reqs) OBVIOUS
<1>1. pump[l].pc = "idle" /\ queue.reqs # <<>> /\ queue' = [queue EXCEPT !.reqs = Tail(@)]
  BY DEF PumpTake
<1>2. UNCHANGED <<st, stack, reply, hostops, made, up, loop, fiber, fup, fdown>>
  BY DEF PumpTake, callerVars, workerVars
<1>3. /\ pump[l] \in [pc : {"idle", "read", "down", "broken", "exited"},
                      conv : Convs \cup {0}, depth : Int]
      /\ DOMAIN up = Lanes /\ l \in DOMAIN pump /\ queue.reqs \in Seq(Convs)
  BY PumpTypes
<1>4. c \in Convs /\ Pending(c)
  <2>1. c = queue.reqs[1] /\ 1 \in 1..Len(queue.reqs) /\ c \in Convs BY <1>0, <1>1, <1>3
  <2>2. \A i \in 1..Len(queue.reqs) : Pending(queue.reqs[i]) BY DEF InStep, QueueOK
  <2> QED BY <2>1, <2>2
<1>5. served[c] = "no" /\ st[c] # "new" /\ Aside(c, CallerView(c)) /\ AtRest(LaneView(l))
  BY <1>1, <1>4 DEF Pending, InStep, ConvOK, LaneOK
<1>6. \A m \in Lanes : ~Carries(m, c)
  <2>1. ASSUME NEW m \in Lanes, Carries(m, c) PROVE FALSE BY <2>1, <1>4, <1>5, CarriedHolds
  <2> QED BY <2>1
<1>7. \A d \in Convs : ~Carries(l, d) BY <1>1 DEF Carries, Engaged
<1>8. CASE alive = TRUE
  <2>1. /\ served' = [served EXCEPT ![c] = "held"]
        /\ pump' = [pump EXCEPT ![l] = At("read", c, 1)]
        /\ down' = [down EXCEPT ![l] = Append(down[l], Call(c, 1))]
    BY <1>0, <1>8 DEF PumpTake, At
  <2>2. PumpWrites(l, c, At("read", c, 1), Append(down[l], Call(c, 1)), reply[c], hostops[c],
                   "held")
    BY <2>1, <1>2, <1>4 DEF PumpWrites, At
  <2>3. queue' \in [open : BOOLEAN, reqs : Seq(Convs)]
    <3>1. queue \in [open : BOOLEAN, reqs : Seq(Convs)] BY PumpTypes
    <3>2. Tail(queue.reqs) \in Seq(Convs) BY <1>1, <1>3
    <3> QED BY <3>1, <3>2, <1>1
  <2>4. /\ ConvTypes'
        /\ PumpWrote(l, c, At("read", c, 1), Append(down[l], Call(c, 1)), reply[c], hostops[c],
                     "held")
        /\ \A m \in Lanes : m # l => LaneSame(m)
        /\ \A d \in Convs : d # c => CallerSame(d)
    BY <2>2, <2>3, <1>2, <1>3, <1>4, PumpTyped
  <2>5. QueueOK' BY <1>0, <1>1, <2>4, QueueTaken
  <2>6. OnLane(c, LaneView(l)', CallerView(c)')
    <3>1. /\ LaneView(l)'.pump = At("read", c, 1)
          /\ LaneView(l)'.down = Append(LaneView(l).down, Call(c, 1))
          /\ LaneView(l)'.loop = LaneView(l).loop /\ LaneView(l)'.fiber = LaneView(l).fiber
          /\ LaneView(l)'.up = LaneView(l).up /\ LaneView(l)'.fup = LaneView(l).fup
          /\ LaneView(l)'.fdown = LaneView(l).fdown
      BY <2>4, <1>2 DEF LaneView, PumpWrote
    <3>2. /\ CallerView(c)'.st = CallerView(c).st /\ CallerView(c)'.stack = CallerView(c).stack
          /\ CallerView(c)'.reply = CallerView(c).reply
          /\ CallerView(c)'.hostops = CallerView(c).hostops /\ CallerView(c)'.served = "held"
          /\ CallerView(c).served = "no" /\ CallerView(c).st # "new"
      BY <2>4, <1>2, <1>5 DEF CallerView, PumpWrote
    <3> QED BY <3>1, <3>2, <1>5, LaneTakes
  <2>7. Carries(l, c)' /\ pump'[l].conv = c /\ pump'[l].pc # "idle"
    BY <2>4 DEF PumpWrote, Carries, Engaged, At
  <2>8. LaneOK(l)' BY <1>4, <2>6, <2>7 DEF LaneOK
  <2>9. ConvOK(c)'
    <3>1. Aside(c, CallerView(c)') BY <2>4, <1>2, <1>5 DEF Aside, CallerView, PumpWrote, Talks
    <3> QED BY <3>1, <2>7 DEF ConvOK
  <2>10. \A d \in Convs : Carries(l, d) \/ Carries(l, d)' => d = c BY <1>7, <2>7 DEF Carries
  <2> QED BY <1>4, <1>6, <2>4, <2>5, <2>8, <2>9, <2>10, OneMoves
<1>9. CASE alive # TRUE
  <2> DEFINE p == [pump[l] EXCEPT !.pc = "broken"]
  <2>1. /\ served' = [served EXCEPT ![c] = "dropped"] /\ down' = down
        /\ pump' = [pump EXCEPT ![l] = p]
    <3>1. served' = [served EXCEPT ![c] = "dropped"] /\ down' = down /\ Broken(l)
      BY <1>0, <1>9 DEF PumpTake
    <3> QED BY <3>1 DEF Broken
  <2>2. p.pc = "broken" /\ p \in [pc : {"idle", "read", "down", "broken", "exited"},
                                  conv : Convs \cup {0}, depth : Int]
    BY <1>3
  <2> HIDE DEF p
  <2>3. PumpWrites(l, c, p, down[l], reply[c], hostops[c], "dropped")
    BY <2>1, <2>2, <1>2 DEF PumpWrites
  <2>4. queue' \in [open : BOOLEAN, reqs : Seq(Convs)]
    <3>1. queue \in [open : BOOLEAN, reqs : Seq(Convs)] BY PumpTypes
    <3>2. Tail(queue.reqs) \in Seq(Convs) BY <1>1, <1>3
    <3> QED BY <3>1, <3>2, <1>1
  <2>5. /\ ConvTypes' /\ PumpWrote(l, c, p, down[l], reply[c], hostops[c], "dropped")
        /\ \A m \in Lanes : m # l => LaneSame(m)
        /\ \A d \in Convs : d # c => CallerSame(d)
    BY <2>3, <2>4, <1>2, <1>3, <1>4, PumpTyped
  <2>6. QueueOK' BY <1>0, <1>1, <2>5, QueueTaken
  <2>7. pump'[l].pc = "broken" BY <2>2, <2>5 DEF PumpWrote
  <2>8. LaneOK(l)' BY <2>7 DEF LaneOK, Engaged
  <2>9. ConvOK(c)'
    <3>1. Aside(c, CallerView(c)') BY <2>5, <1>2, <1>5 DEF Aside, CallerView, PumpWrote, Talks
    <3>2. served'[c] # "held" BY <2>5 DEF PumpWrote
    <3> QED BY <3>1, <3>2 DEF ConvOK
  <2>10. \A d \in Convs : Carries(l, d) \/ Carries(l, d)' => d = c
    BY <1>7, <2>7 DEF Carries, Engaged
  <2> QED BY <1>4, <1>6, <2>5, <2>6, <2>8, <2>9, <2>10, OneMoves
<1> QED BY <1>8, <1>9

(* A pump that has conversation c: it keeps it, or drops it.                *)
LEMMA PumpHas ==
  ASSUME InStep, NEW l \in Lanes, pump[l].pc \in {"read", "down"}
  PROVE  \E c \in Convs : /\ Holds(l, c) /\ pump[l].conv = c
                          /\ served[c] = "held" /\ st[c] # "new"
                          /\ \A m \in Lanes : Carries(m, c) => m = l
                          /\ \A d \in Convs : Carries(l, d) => d = c
<1>1. PICK c \in Convs : Holds(l, c) BY LaneCarries DEF Engaged
<1>2. Carries(l, c) /\ served[c] = "held" /\ st[c] # "new" BY <1>1, Carried
<1>3. \A m \in Lanes : Carries(m, c) => m = l BY <1>2 DEF InStep, OneLane
<1>4. \A d \in Convs : Carries(l, d) => d = c BY <1>2 DEF Carries
<1> QED BY <1>1, <1>2, <1>3, <1>4 DEF Carries
(* The pump goes on with its conversation, or lets it go.                   *)
LEMMA PumpMoves ==
  ASSUME InStep, ConvTypes', NEW l \in Lanes, NEW c \in Convs, queue' = queue,
         served[c] = "held", \A m \in Lanes : Carries(m, c) => m = l,
         \A d \in Convs : Carries(l, d) => d = c,
         \A m \in Lanes : m # l => LaneSame(m),
         \A d \in Convs : d # c => CallerSame(d),
         \/ OnLane(c, LaneView(l)', CallerView(c)') /\ (st'[c] = "active" => stack'[c] # <<>>)
         \/ /\ Aside(c, CallerView(c)') /\ served'[c] # "held"
            /\ pump'[l].pc = "broken" \/ AtRest(LaneView(l)')
  PROVE  InStep'
<1>1. QueueOK'
  <2>1. \A d \in Convs : Pending(d) => Pending(d)' BY DEF Pending, CallerSame
  <2> QED BY <2>1, QueueKept
<1>2. CASE OnLane(c, LaneView(l)', CallerView(c)') /\ (st'[c] = "active" => stack'[c] # <<>>)
  <2>1. PumpPlace(c, LaneView(l)', CallerView(c)') BY <1>2, PumpPlaces
  <2>2. pump'[l].conv = c /\ pump'[l].pc \in {"read", "down"} BY <2>1 DEF PumpPlace, LaneView
  <2>3. LaneOK(l)' BY <1>2, <2>2 DEF LaneOK
  <2>4. Aside(c, CallerView(c)') BY <1>2 DEF Aside, OnLane, CallerView, Talks
  <2>5. Carries(l, c)' BY <2>2 DEF Carries, Engaged
  <2>6. ConvOK(c)' BY <2>4, <2>5 DEF ConvOK
  <2>7. \A d \in Convs : Carries(l, d) \/ Carries(l, d)' => d = c BY <2>2 DEF Carries
  <2> QED BY <1>1, <2>3, <2>6, <2>7, OneMoves
<1>3. CASE /\ Aside(c, CallerView(c)') /\ served'[c] # "held"
           /\ pump'[l].pc = "broken" \/ AtRest(LaneView(l)')
  <2>1. pump'[l].pc \notin {"read", "down"} BY <1>3 DEF AtRest, LaneView, Idle
  <2>2. LaneOK(l)' BY <1>3, <2>1 DEF LaneOK, Engaged
  <2>3. ConvOK(c)' BY <1>3 DEF ConvOK
  <2>4. \A d \in Convs : Carries(l, d) \/ Carries(l, d)' => d = c BY <2>1 DEF Carries, Engaged
  <2> QED BY <1>1, <2>2, <2>3, <2>4, OneMoves
<1> QED BY <1>2, <1>3

(* The pump reads a frame.                                                  *)
LEMMA PumpReadInStep ==
  ASSUME InStep, NEW l \in Lanes, PumpRead(l)
  PROVE  InStep'
<1>1. PICK c \in Convs :
         /\ Holds(l, c) /\ pump[l].conv = c /\ served[c] = "held" /\ st[c] # "new"
         /\ \A m \in Lanes : Carries(m, c) => m = l
         /\ \A d \in Convs : Carries(l, d) => d = c
  BY PumpHas DEF PumpRead
<1>2. PICK d, r, sv : /\ d = Level(pump[l].depth, Head(up[l]))
                      /\ r = (IF st[c] = "active" THEN Append(reply[c], Head(up[l])) ELSE reply[c])
                      /\ sv = (IF d = 0 THEN "dropped" ELSE served[c])
  OBVIOUS
<1>3. pump[l].pc = "read" /\ up[l] # <<>> /\ up' = [up EXCEPT ![l] = Tail(up[l])]
  BY DEF PumpRead
<1>4. UNCHANGED <<st, stack, made, hostops, queue, down, loop, fiber, fup, fdown>>
  BY DEF PumpRead, workerVars
<1>5. PICK p : p = IF d = 0 THEN Idle ELSE At("down", c, d) OBVIOUS
<1>6. /\ pump' = [pump EXCEPT ![l] = p]
      /\ reply' = [reply EXCEPT ![c] = r] \/ (reply' = reply /\ r = reply[c])
      /\ served' = [served EXCEPT ![c] = sv] \/ (served' = served /\ sv = served[c])
  BY <1>1, <1>2, <1>5 DEF PumpRead, At
<1>7. /\ pump[l] \in [pc : {"idle", "read", "down", "broken", "exited"},
                      conv : Convs \cup {0}, depth : Int]
      /\ DOMAIN up = Lanes /\ queue \in [open : BOOLEAN, reqs : Seq(Convs)]
  BY PumpTypes
<1>8. d \in Int BY <1>2, <1>7 DEF Level
<1>9. p \in [pc : {"idle", "read", "down", "broken", "exited"}, conv : Convs \cup {0}, depth : Int]
  BY <1>5, <1>8 DEF Idle, At
<1>10. PumpWrites(l, c, p, down[l], r, hostops[c], sv)
  BY <1>1, <1>2, <1>4, <1>6, <1>9 DEF PumpWrites
<1>11. DOMAIN up' = Lanes /\ up'[l] = Tail(up[l]) /\ \A m \in Lanes : m # l => up'[m] = up[m]
  BY <1>3, <1>7
<1>12. /\ ConvTypes' /\ PumpWrote(l, c, p, down[l], r, hostops[c], sv)
       /\ \A m \in Lanes : m # l => LaneSame(m)
       /\ \A e \in Convs : e # c => CallerSame(e)
  BY <1>4, <1>7, <1>10, <1>11, PumpTyped
<1>13. PICK w, v, x, y : /\ w = LaneView(l) /\ v = CallerView(c)
                         /\ x = LaneView(l)' /\ y = CallerView(c)'
  OBVIOUS
<1>14. /\ w.pump = pump[l] /\ w.up = up[l] /\ x.up = Tail(w.up) /\ x.pump = p
       /\ x.loop = w.loop /\ x.fiber = w.fiber /\ x.down = w.down /\ x.fup = w.fup
       /\ x.fdown = w.fdown
  BY <1>4, <1>11, <1>12, <1>13 DEF LaneView, PumpWrote
<1>15. /\ y.st = v.st /\ y.stack = v.stack /\ y.hostops = v.hostops /\ y.reply = r /\ y.served = sv
       /\ v.st = st[c] /\ v.stack = stack[c] /\ v.reply = reply[c] /\ v.served = served[c]
  BY <1>4, <1>12, <1>13 DEF CallerView, PumpWrote
<1>16. OnLane(c, w, v) /\ Aside(c, v) BY <1>1, <1>13 DEF Holds, InStep, ConvOK
<1>17. /\ d = 0 => AtRest(x) /\ (v.stack # <<>> => Aside(c, y))
       /\ d # 0 => OnLane(c, x, y)
  <2>1. d = Level(w.pump.depth, Head(w.up)) BY <1>2, <1>14
  <2>2. y.reply = (IF Talks(v) THEN Append(v.reply, Head(w.up)) ELSE v.reply)
    BY <1>2, <1>14, <1>15 DEF Talks
  <2>3. y.served = (IF d = 0 THEN "dropped" ELSE v.served) BY <1>2, <1>15
  <2>4. w.pump.pc = "read" /\ w.up # <<>> BY <1>3, <1>14
  <2> HIDE <1>1, <1>2, <1>12
  <2> QED BY <2>1, <2>2, <2>3, <2>4, <1>5, <1>14, <1>15, <1>16, LaneReads
<1>18. st[c] = "active" => stack[c] # <<>> BY <1>15, <1>16 DEF Aside, Talks
<1>19. CASE d = 0
  <2>1. Aside(c, y)
    <3>1. CASE v.stack # <<>> BY <3>1, <1>17, <1>19
    <3>2. CASE v.stack = <<>>
      <4>1. ~Talks(y) /\ y.served = "dropped" /\ y.st # "new"
        BY <3>2, <1>1, <1>2, <1>15, <1>18, <1>19 DEF Talks
      <4> QED BY <4>1 DEF Aside
    <3> QED BY <3>1, <3>2
  <2>2. served'[c] # "held" BY <1>2, <1>12, <1>19 DEF PumpWrote
  <2>3. AtRest(LaneView(l)') /\ Aside(c, CallerView(c)') BY <2>1, <1>13, <1>17, <1>19
  <2> QED BY <2>2, <2>3, <1>1, <1>4, <1>12, PumpMoves
<1>20. CASE d # 0
  <2>1. OnLane(c, LaneView(l)', CallerView(c)') BY <1>13, <1>17, <1>20
  <2>2. st'[c] = "active" => stack'[c] # <<>> BY <1>4, <1>18
  <2> QED BY <2>1, <2>2, <1>1, <1>4, <1>12, PumpMoves
<1> QED BY <1>19, <1>20

(* A pump that drops its conversation with the socket.                      *)
LEMMA PumpBreaks ==
  ASSUME InStep, NEW l \in Lanes, NEW c \in Convs, pump[l].conv = c,
         pump[l].pc \in {"read", "down"},
         pump[l].pc = "read" \/ hostops[c] # <<>> \/ st[c] # "active",
         Broken(l), served' = [served EXCEPT ![c] = "dropped"],
         NEW h, hostops' = [hostops EXCEPT ![c] = h] \/ (hostops' = hostops /\ h = hostops[c]),
         UNCHANGED <<st, stack, reply, made, queue, down, up, loop, fiber, fup, fdown>>
  PROVE  InStep'
<1>1. /\ Holds(l, c) /\ served[c] = "held" /\ st[c] # "new"
      /\ \A m \in Lanes : Carries(m, c) => m = l
      /\ \A d \in Convs : Carries(l, d) => d = c
  BY PumpHas
<1>2. PICK p : p = [pump[l] EXCEPT !.pc = "broken"] OBVIOUS
<1>3. /\ pump[l] \in [pc : {"idle", "read", "down", "broken", "exited"},
                      conv : Convs \cup {0}, depth : Int]
      /\ DOMAIN up = Lanes /\ queue \in [open : BOOLEAN, reqs : Seq(Convs)]
  BY PumpTypes
<1>4. p.pc = "broken" /\ p \in [pc : {"idle", "read", "down", "broken", "exited"},
                                conv : Convs \cup {0}, depth : Int]
  BY <1>2, <1>3
<1>5. pump' = [pump EXCEPT ![l] = p] BY <1>2 DEF Broken
<1>6. PumpWrites(l, c, p, down[l], reply[c], h, "dropped") BY <1>4, <1>5 DEF PumpWrites
<1>7. /\ ConvTypes' /\ PumpWrote(l, c, p, down[l], reply[c], h, "dropped")
      /\ \A m \in Lanes : m # l => LaneSame(m)
      /\ \A e \in Convs : e # c => CallerSame(e)
  BY <1>3, <1>6, PumpTyped
<1>8. pump'[l].pc = "broken" /\ served'[c] # "held" BY <1>4, <1>7 DEF PumpWrote
<1>9. Aside(c, CallerView(c)')
  <2>1. PICK w, v, y : w = LaneView(l) /\ v = CallerView(c) /\ y = CallerView(c)' OBVIOUS
  <2>2. /\ y.st = v.st /\ y.stack = v.stack /\ y.reply = v.reply /\ y.served = "dropped"
        /\ v.hostops = hostops[c] /\ v.st = st[c] /\ w.pump = pump[l]
    BY <2>1, <1>7 DEF CallerView, LaneView, PumpWrote
  <2>3. OnLane(c, w, v) /\ Aside(c, v) BY <2>1, <1>1 DEF Holds, InStep, ConvOK
  <2>4. w.pump.pc = "read" \/ v.hostops # <<>> \/ ~Talks(v) BY <2>2 DEF Talks
  <2> QED BY <2>1, <2>2, <2>3, <2>4, LaneDrops
<1> QED BY <1>1, <1>7, <1>8, <1>9, PumpMoves

(* The pump sends a frame down, or finds the socket broken.                 *)
LEMMA PumpDownInStep ==
  ASSUME InStep, NEW l \in Lanes, PumpDown(l)
  PROVE  InStep'
<1>1. PICK c \in Convs :
         /\ Holds(l, c) /\ pump[l].conv = c /\ served[c] = "held" /\ st[c] # "new"
         /\ \A m \in Lanes : Carries(m, c) => m = l
         /\ \A d \in Convs : Carries(l, d) => d = c
  BY PumpHas DEF PumpDown
<1>2. pump[l].pc = "down" BY DEF PumpDown
<1>3. PICK f, h :
         /\ \/ hostops[c] = <<>> /\ st[c] # "active" /\ f = ErrorFrame /\ h = hostops[c]
               /\ hostops' = hostops
            \/ hostops[c] # <<>> /\ f = Head(hostops[c]) /\ h = Tail(hostops[c])
               /\ hostops' = [hostops EXCEPT ![c] = h]
         /\ \/ /\ alive = TRUE /\ down' = [down EXCEPT ![l] = Append(down[l], f)]
               /\ pump' = [pump EXCEPT ![l] = At("read", c, Level(pump[l].depth, f))]
               /\ served' = served
            \/ /\ alive # TRUE /\ Broken(l) /\ served' = [served EXCEPT ![c] = "dropped"]
               /\ down' = down
  <2>1. CASE hostops[c] = <<>> /\ st[c] # "active" BY <1>1, <2>1 DEF PumpDown, At
  <2>2. CASE ~(hostops[c] = <<>> /\ st[c] # "active") BY <1>1, <2>2 DEF PumpDown, At
  <2> QED BY <2>1, <2>2
<1>4. UNCHANGED <<st, stack, reply, made, queue, up, loop, fiber, fup, fdown>>
  BY DEF PumpDown, workerVars
<1>5. CASE alive # TRUE
  <2>1. hostops[c] # <<>> \/ st[c] # "active" BY <1>3
  <2>2. /\ Broken(l) /\ served' = [served EXCEPT ![c] = "dropped"] /\ down' = down
        /\ hostops' = [hostops EXCEPT ![c] = h] \/ (hostops' = hostops /\ h = hostops[c])
    BY <1>3, <1>5
  <2> QED BY <2>1, <2>2, <1>1, <1>2, <1>4, PumpBreaks
<1>6. CASE alive = TRUE
  <2>1. PICK p, dn : p = At("read", c, Level(pump[l].depth, f)) /\ dn = Append(down[l], f)
    OBVIOUS
  <2>2. pump' = [pump EXCEPT ![l] = p] /\ down' = [down EXCEPT ![l] = dn] /\ served' = served
    BY <1>3, <1>6, <2>1
  <2>3. /\ pump[l] \in [pc : {"idle", "read", "down", "broken", "exited"},
                        conv : Convs \cup {0}, depth : Int]
        /\ DOMAIN up = Lanes /\ queue \in [open : BOOLEAN, reqs : Seq(Convs)]
    BY PumpTypes
  <2>4. p \in [pc : {"idle", "read", "down", "broken", "exited"},
               conv : Convs \cup {0}, depth : Int]
    <3>1. Level(pump[l].depth, f) \in Int BY <2>3 DEF Level
    <3> QED BY <3>1, <2>1 DEF At
  <2>5. PumpWrites(l, c, p, dn, reply[c], h, "held")
    BY <1>1, <1>3, <1>4, <2>2, <2>4 DEF PumpWrites
  <2>6. /\ ConvTypes' /\ PumpWrote(l, c, p, dn, reply[c], h, "held")
        /\ \A m \in Lanes : m # l => LaneSame(m)
        /\ \A e \in Convs : e # c => CallerSame(e)
    BY <1>4, <2>3, <2>5, PumpTyped
  <2>7. PICK w, v, x, y : /\ w = LaneView(l) /\ v = CallerView(c)
                          /\ x = LaneView(l)' /\ y = CallerView(c)'
    OBVIOUS
  <2>8. /\ w.pump = pump[l] /\ w.down = down[l] /\ x.down = dn /\ x.pump = p
        /\ x.loop = w.loop /\ x.fiber = w.fiber /\ x.up = w.up /\ x.fup = w.fup
        /\ x.fdown = w.fdown
    BY <1>4, <2>6, <2>7 DEF LaneView, PumpWrote
  <2>9. /\ y.st = v.st /\ y.stack = v.stack /\ y.reply = v.reply /\ y.hostops = h
        /\ y.served = v.served /\ v.st = st[c] /\ v.stack = stack[c] /\ v.hostops = hostops[c]
    BY <1>1, <1>4, <2>6, <2>7 DEF CallerView, PumpWrote
  <2>10. OnLane(c, w, v) /\ Aside(c, v) BY <1>1, <2>7 DEF Holds, InStep, ConvOK
  <2>11. \/ v.hostops = <<>> /\ ~Talks(v) /\ f = ErrorFrame /\ y.hostops = v.hostops
         \/ v.hostops # <<>> /\ f = Head(v.hostops) /\ y.hostops = Tail(v.hostops)
    BY <1>3, <2>9 DEF Talks
  <2>12. x.down = Append(w.down, f) /\ x.pump = At("read", c, Level(w.pump.depth, f))
         /\ w.pump.pc = "down"
    BY <1>2, <2>1, <2>8
  <2>13. OnLane(c, x, y)
    <3> HIDE <1>1, <1>3, <2>6
    <3> QED BY <2>8, <2>9, <2>10, <2>11, <2>12, LaneSends
  <2>14. OnLane(c, LaneView(l)', CallerView(c)') BY <2>7, <2>13
  <2>15. st'[c] = "active" => stack'[c] # <<>> BY <1>4, <2>9, <2>10 DEF Aside, Talks
  <2> QED BY <2>6, <2>14, <2>15, <1>1, <1>4, PumpMoves
<1> QED BY <1>5, <1>6

(* The socket broke while the pump reads it.                                *)
LEMMA PumpEofInStep ==
  ASSUME InStep, NEW l \in Lanes, PumpEof(l)
  PROVE  InStep'
<1>1. PICK c \in Convs : pump[l].conv = c BY PumpHas DEF PumpEof
<1>2. pump[l].pc = "read" /\ Broken(l) /\ served' = [served EXCEPT ![c] = "dropped"]
  BY <1>1 DEF PumpEof
<1>3. UNCHANGED <<st, stack, reply, hostops, made, queue, down, up, loop, fiber, fup, fdown>>
  BY DEF PumpEof, callerVars, workerVars
<1> QED BY <1>1, <1>2, <1>3, PumpBreaks

(* A pump exits and drops what is in the queue.                             *)
LEMMA PumpExitsInStep ==
  ASSUME InStep, NEW l \in Lanes, PumpExits(l)
  PROVE  InStep'
<1>1. /\ pump[l].pc = "broken" /\ pump' = [pump EXCEPT ![l] = [pump[l] EXCEPT !.pc = "exited"]]
      /\ queue' = [open |-> FALSE, reqs |-> <<>>]
      /\ served' = [c \in Convs |-> IF \E i \in 1..Len(queue.reqs) : queue.reqs[i] = c
                                    THEN "dropped" ELSE served[c]]
  BY DEF PumpExits
<1>2. UNCHANGED <<st, stack, reply, hostops, made, down, up, loop, fiber, fup, fdown>>
  BY DEF PumpExits, callerVars, workerVars
<1>3. ConvTypes /\ QueueOK /\ OneLane BY DEF InStep
<1>4. PICK p : p = [pump[l] EXCEPT !.pc = "exited"] OBVIOUS
<1>5. /\ pump[l] \in [pc : {"idle", "read", "down", "broken", "exited"},
                      conv : Convs \cup {0}, depth : Int]
      /\ pump \in [Lanes -> [pc : {"idle", "read", "down", "broken", "exited"},
                             conv : Convs \cup {0}, depth : Int]]
  BY <1>3 DEF ConvTypes
<1>6. p.pc = "exited" /\ p \in [pc : {"idle", "read", "down", "broken", "exited"},
                                conv : Convs \cup {0}, depth : Int]
  BY <1>4, <1>5
<1>7. /\ pump' \in [Lanes -> [pc : {"idle", "read", "down", "broken", "exited"},
                              conv : Convs \cup {0}, depth : Int]]
      /\ pump'[l].pc = "exited" /\ \A m \in Lanes : m # l => pump'[m] = pump[m]
  BY <1>1, <1>4, <1>5, <1>6
<1>8. \A c \in Convs : \/ served'[c] = served[c]
                       \/ served'[c] = "dropped" /\ served[c] = "no"
  <2>1. \A i \in 1..Len(queue.reqs) : Pending(queue.reqs[i]) BY <1>3 DEF QueueOK
  <2> QED BY <2>1, <1>1 DEF Pending
<1>9. served' \in [Convs -> {"no", "held", "dropped"}] BY <1>1, <1>3 DEF ConvTypes
<1>10. queue' \in [open : BOOLEAN, reqs : Seq(Convs)] /\ Len(queue'.reqs) = 0 BY <1>1
<1>11. ConvTypes' BY <1>2, <1>3, <1>7, <1>9, <1>10 DEF ConvTypes
<1>12. QueueOK' BY <1>10 DEF QueueOK
<1>13. \A m \in Lanes : m # l => LaneSame(m) BY <1>2, <1>7 DEF LaneSame
<1>14. \A m \in Lanes, c \in Convs : Carries(m, c)' <=> Carries(m, c)
  <2>1. ASSUME NEW m \in Lanes, NEW c \in Convs PROVE Carries(m, c)' <=> Carries(m, c)
    <3>1. CASE m = l BY <3>1, <1>1, <1>7 DEF Carries, Engaged
    <3>2. CASE m # l BY <3>2, <1>7 DEF Carries, Engaged
    <3> QED BY <3>1, <3>2
  <2> QED BY <2>1
<1>15. OneLane' BY <1>3, <1>14 DEF OneLane
<1>16. ASSUME NEW m \in Lanes PROVE LaneOK(m)'
  <2>1. CASE m = l BY <2>1, <1>7 DEF LaneOK, Engaged
  <2>2. CASE m # l
    <3>1. ASSUME NEW d \in Convs, Carries(m, d) PROVE CallerSame(d)
      <4>1. served[d] = "held" BY <3>1, CarriedHolds
      <4>2. served'[d] = served[d] BY <4>1, <1>8
      <4> QED BY <4>2, <1>2 DEF CallerSame
    <3> QED BY <2>2, <3>1, <1>13, LaneKept
  <2> QED BY <2>1, <2>2
<1>17. ASSUME NEW d \in Convs PROVE ConvOK(d)'
  <2>1. CASE served'[d] = served[d]
    <3>1. CallerSame(d) BY <2>1, <1>2 DEF CallerSame
    <3> QED BY <3>1, <1>14, ConvKept
  <2>2. CASE served'[d] # served[d]
    <3>1. served'[d] = "dropped" /\ served[d] = "no" BY <2>2, <1>8
    <3>2. Aside(d, CallerView(d)) BY DEF InStep, ConvOK
    <3>3. st[d] # "new"
      <4>1. \E i \in 1..Len(queue.reqs) : queue.reqs[i] = d BY <2>2, <1>1
      <4> QED BY <4>1, <1>3 DEF QueueOK, Pending
    <3>4. Aside(d, CallerView(d)')
      <4>1. /\ CallerView(d)'.st = st[d] /\ CallerView(d)'.stack = stack[d]
            /\ CallerView(d)'.reply = reply[d] /\ CallerView(d)'.served = "dropped"
        BY <3>1, <1>2 DEF CallerView
      <4>2. reply[d] = <<>> /\ (st[d] = "active" => stack[d] # <<>>)
        BY <3>1, <3>2 DEF Aside, CallerView, Talks
      <4> QED BY <4>1, <4>2, <3>3 DEF Aside, Talks
    <3> QED BY <3>1, <3>4 DEF ConvOK
  <2> QED BY <2>1, <2>2
<1> QED BY <1>11, <1>12, <1>15, <1>16, <1>17 DEF InStep

-----------------------------------------------------------------------------
(* The steps of the worker.                                                 *)

(* What a worker's step on lane l leaves alone, and its typing.             *)
WorkerWrites(l) ==
    /\ UNCHANGED <<st, stack, reply, hostops, served, queue, pump>>
    /\ \A m \in Lanes : m # l => LaneSame(m)
    /\ DOMAIN down' = Lanes /\ DOMAIN up' = Lanes /\ DOMAIN loop' = Lanes
    /\ DOMAIN fiber' = Lanes /\ DOMAIN fup' = Lanes /\ DOMAIN fdown' = Lanes
(* A step of the worker that keeps the lane in its place.                   *)
LEMMA WorkerInStep ==
  ASSUME InStep, NEW l \in Lanes, WorkerWrites(l), made' = made \/ made' \in [Convs -> Nat],
         ~AtRest(LaneView(l)),
         \A c \in Convs : Holds(l, c) => OnLane(c, LaneView(l)', CallerView(c))
  PROVE  InStep'
<1>1. ConvTypes' BY DEF InStep, ConvTypes, WorkerWrites
<1>2. pump[l].pc # "idle" BY DEF InStep, LaneOK
<1> QED BY <1>1, <1>2, WorkerMoves DEF WorkerWrites
(* The domains of the worker's functions.                                   *)
LEMMA WorkerTypes ==
  ASSUME InStep
  PROVE  /\ DOMAIN down = Lanes /\ DOMAIN up = Lanes /\ DOMAIN loop = Lanes
         /\ DOMAIN fiber = Lanes /\ DOMAIN fup = Lanes /\ DOMAIN fdown = Lanes
         /\ made \in [Convs -> Nat]
BY DEF InStep, ConvTypes

(* The child's loop takes a frame at rest: it starts a conversation.        *)
LEMMA LoopTakeInStep ==
  ASSUME InStep, NEW l \in Lanes, LoopTake(l)
  PROVE  InStep'
<1>1. loop[l].pc = "idle" /\ down[l] # <<>> /\ down' = [down EXCEPT ![l] = Tail(down[l])]
  BY DEF LoopTake
<1>2. UNCHANGED <<st, stack, reply, hostops, served, queue, pump, made, up>>
  BY DEF LoopTake, callerVars
<1>3. \/ /\ Head(down[l]).k = "call"
         /\ loop' = [loop EXCEPT ![l] = At("reply", Head(down[l]).id[1], 1)]
         /\ fiber' = [fiber EXCEPT ![l] = <<Head(down[l])>>]
         /\ fup' = [fup EXCEPT ![l] = <<>>] /\ fdown' = [fdown EXCEPT ![l] = <<>>]
      \/ Head(down[l]).k # "call" /\ UNCHANGED <<loop, fiber, fup, fdown>>
  BY DEF LoopTake, At
<1>4. WorkerWrites(l) BY <1>1, <1>2, <1>3, WorkerTypes DEF WorkerWrites, LaneSame
<1>5. ~AtRest(LaneView(l)) BY <1>1 DEF AtRest, Wires, LaneView
<1>6. ASSUME NEW c \in Convs, Holds(l, c) PROVE OnLane(c, LaneView(l)', CallerView(c))
  <2>1. PICK w, x : w = LaneView(l) /\ x = LaneView(l)' OBVIOUS
  <2>2. /\ w.loop.pc = "idle" /\ w.down # <<>> /\ x.down = Tail(w.down) /\ x.pump = w.pump
        /\ x.up = w.up /\ w.down = down[l]
    BY <1>1, <1>2, <2>1, WorkerTypes DEF LaneView
  <2>3. Head(w.down).k = "call" =>
          /\ x.loop = At("reply", Head(w.down).id[1], 1) /\ x.fiber = <<Head(w.down)>>
          /\ x.fup = <<>> /\ x.fdown = <<>>
    BY <1>3, <2>1, <2>2, WorkerTypes DEF LaneView
  <2>4. OnLane(c, w, CallerView(c)) BY <1>6, <2>1 DEF Holds
  <2> QED BY <2>1, <2>2, <2>3, <2>4, LaneStarts
<1> QED BY <1>2, <1>4, <1>5, <1>6, WorkerInStep

(* The loop forwards a frame up.                                            *)
LEMMA LoopUpInStep ==
  ASSUME InStep, NEW l \in Lanes, LoopUp(l)
  PROVE  InStep'
<1>1. PICK d : d = Level(loop[l].depth, Head(fup[l])) OBVIOUS
<1>2. /\ loop[l].pc = "reply" /\ fup[l] # <<>>
      /\ loop' = [loop EXCEPT ![l] = IF d = 0 THEN Idle ELSE At("down", loop[l].conv, d)]
      /\ fup' = [fup EXCEPT ![l] = Tail(fup[l])]
      /\ up' = [up EXCEPT ![l] = Append(up[l], Head(fup[l]))]
  BY <1>1 DEF LoopUp, At
<1>3. UNCHANGED <<st, stack, reply, hostops, served, queue, pump, made, down, fiber, fdown>>
  BY DEF LoopUp, callerVars
<1>4. WorkerWrites(l) BY <1>2, <1>3, WorkerTypes DEF WorkerWrites, LaneSame
<1>5. ~AtRest(LaneView(l)) BY <1>2 DEF AtRest, Wires, LaneView
<1>6. ASSUME NEW c \in Convs, Holds(l, c) PROVE OnLane(c, LaneView(l)', CallerView(c))
  <2>1. PICK w, x : w = LaneView(l) /\ x = LaneView(l)' OBVIOUS
  <2>2. w.loop = loop[l] /\ w.fup = fup[l] /\ w.up = up[l] BY <2>1 DEF LaneView
  <2>3. /\ x.loop = (IF d = 0 THEN Idle ELSE At("down", w.loop.conv, d))
        /\ x.fup = Tail(w.fup) /\ x.up = Append(w.up, Head(w.fup))
        /\ x.pump = w.pump /\ x.fiber = w.fiber /\ x.down = w.down /\ x.fdown = w.fdown
    BY <1>2, <1>3, <2>1, WorkerTypes DEF LaneView
  <2>4. OnLane(c, w, CallerView(c)) BY <1>6, <2>1 DEF Holds
  <2>5. w.loop.pc = "reply" /\ w.fup # <<>> /\ d = Level(w.loop.depth, Head(w.fup))
    BY <1>1, <1>2, <2>2
  <2> QED BY <2>1, <2>3, <2>4, <2>5, LaneForwardsUp
<1> QED BY <1>3, <1>4, <1>5, <1>6, WorkerInStep

(* The loop never finds the fiber gone with levels open.                    *)
LEMMA LoopFiberGoneInStep ==
  ASSUME InStep, NEW l \in Lanes, LoopFiberGone(l)
  PROVE  InStep'
<1>1. loop[l].pc = "reply" /\ fup[l] = <<>> /\ fiber[l] = <<>> BY DEF LoopFiberGone
<1>2. UNCHANGED <<st, stack, reply, hostops, served, queue, pump, made, down, fiber, fup, fdown>>
  BY DEF LoopFiberGone, callerVars
<1>3. WorkerWrites(l)
  <2>1. PICK u : up' = [up EXCEPT ![l] = u] BY DEF LoopFiberGone
  <2>2. loop' = [loop EXCEPT ![l] = Idle] BY DEF LoopFiberGone
  <2> QED BY <1>2, <2>1, <2>2, WorkerTypes DEF WorkerWrites, LaneSame
<1>4. ~AtRest(LaneView(l)) BY <1>1 DEF AtRest, Idle, LaneView
<1>5. ASSUME NEW c \in Convs, Holds(l, c) PROVE FALSE
  <2>1. LaneView(l).loop.pc = "reply" /\ LaneView(l).fup = <<>> /\ LaneView(l).fiber = <<>>
    BY <1>1 DEF LaneView
  <2> QED BY <1>5, <2>1, FiberThere DEF Holds
<1> QED BY <1>2, <1>3, <1>4, <1>5, WorkerInStep

(* The loop forwards a frame down.                                          *)
LEMMA LoopDownInStep ==
  ASSUME InStep, NEW l \in Lanes, LoopDown(l)
  PROVE  InStep'
<1>1. /\ loop[l].pc = "down" /\ down[l] # <<>>
      /\ loop' = [loop EXCEPT ![l] = At("reply", loop[l].conv, Level(loop[l].depth, Head(down[l])))]
      /\ fdown' = IF fiber[l] = <<>> THEN fdown
                  ELSE [fdown EXCEPT ![l] = Append(fdown[l], Head(down[l]))]
      /\ down' = [down EXCEPT ![l] = Tail(down[l])]
  BY DEF LoopDown, At
<1>2. UNCHANGED <<st, stack, reply, hostops, served, queue, pump, made, up, fiber, fup>>
  BY DEF LoopDown, callerVars
<1>3. WorkerWrites(l) BY <1>1, <1>2, WorkerTypes DEF WorkerWrites, LaneSame
<1>4. ~AtRest(LaneView(l)) BY <1>1 DEF AtRest, Wires, LaneView
<1>5. ASSUME NEW c \in Convs, Holds(l, c) PROVE OnLane(c, LaneView(l)', CallerView(c))
  <2>1. PICK w, x : w = LaneView(l) /\ x = LaneView(l)' OBVIOUS
  <2>2. /\ w.loop = loop[l] /\ w.down = down[l] /\ w.fdown = fdown[l] /\ w.fiber = fiber[l]
        /\ x.loop = loop'[l] /\ x.down = down'[l] /\ x.fdown = fdown'[l]
        /\ x.pump = w.pump /\ x.fiber = w.fiber /\ x.up = w.up /\ x.fup = w.fup
    BY <1>2, <2>1 DEF LaneView
  <2>3. /\ x.loop = At("reply", w.loop.conv, Level(w.loop.depth, Head(w.down)))
        /\ x.fdown = (IF w.fiber = <<>> THEN w.fdown ELSE Append(w.fdown, Head(w.down)))
        /\ x.down = Tail(w.down) /\ w.loop.pc = "down" /\ w.down # <<>>
    BY <1>1, <2>2, WorkerTypes
  <2>4. OnLane(c, w, CallerView(c)) BY <1>5, <2>1 DEF Holds
  <2> QED BY <2>1, <2>2, <2>3, <2>4, LaneForwardsDown
<1> QED BY <1>2, <1>3, <1>4, <1>5, WorkerInStep

(* dispatch_hosted, invoke_parent_block and its inner loop.                 *)
LEMMA FiberSpeaksInStep ==
  ASSUME InStep, NEW l \in Lanes, dispatch_hosted(l) \/ invoke_parent_block(l)
  PROVE  InStep'
<1>1. fiber[l] # <<>> /\ fiber[l][Len(fiber[l])].k = "call"
  BY DEF dispatch_hosted, invoke_parent_block, Serving, Last
<1>2. PICK f, F : /\ fup' = [fup EXCEPT ![l] = Append(fup[l], f)]
                  /\ fiber' = [fiber EXCEPT ![l] = F]
                  /\ \/ f = Ret(Last(fiber[l])) /\ F = Pop(fiber[l])
                     \/ /\ f = Call(loop[l].conv, made[loop[l].conv] + 1)
                        /\ F = Append(fiber[l], [k |-> "op",
                                         id |-> <<loop[l].conv, made[loop[l].conv] + 1>>])
  BY DEF dispatch_hosted, invoke_parent_block
<1>3. UNCHANGED <<st, stack, reply, hostops, served, queue, pump, down, up, loop, fdown>>
  BY DEF dispatch_hosted, invoke_parent_block, callerVars
<1>4. WorkerWrites(l) BY <1>2, <1>3, WorkerTypes DEF WorkerWrites, LaneSame
<1>5. ~AtRest(LaneView(l)) BY <1>1 DEF AtRest, LaneView
<1>6. ASSUME NEW c \in Convs, Holds(l, c)
      PROVE  OnLane(c, LaneView(l)', CallerView(c)) /\ loop[l].conv = c
  <2>1. PICK w, x : w = LaneView(l) /\ x = LaneView(l)' OBVIOUS
  <2>2. /\ w.fiber = fiber[l] /\ w.fup = fup[l] /\ x.fiber = F /\ x.fup = Append(w.fup, f)
        /\ x.pump = w.pump /\ x.loop = w.loop /\ x.down = w.down /\ x.up = w.up
        /\ x.fdown = w.fdown /\ w.loop = loop[l]
    BY <1>2, <1>3, <2>1, WorkerTypes DEF LaneView
  <2>3. OnLane(c, w, CallerView(c)) BY <1>6, <2>1 DEF Holds
  <2>4. WithFiber(c, w, CallerView(c)) BY <1>1, <2>2, <2>3, FiberServes
  <2>5. loop[l].conv = c BY <2>2, <2>4 DEF WithFiber, At
  <2>6. <<c, made[c] + 1>> \in Ids
    <3>1. made[c] \in Nat BY WorkerTypes
    <3> QED BY <3>1 DEF Ids
  <2>7. \/ f = Ret(Last(w.fiber)) /\ x.fiber = Pop(w.fiber)
        \/ \E i \in Ids : f = [k |-> "call", id |-> i]
                          /\ x.fiber = Append(w.fiber, [k |-> "op", id |-> i])
    BY <1>2, <2>2, <2>5, <2>6 DEF Call
  <2>8. OnLane(c, x, CallerView(c)) BY <1>1, <2>2, <2>3, <2>7, FiberSpeaks
  <2> QED BY <2>1, <2>5, <2>8
<1>7. made' = made \/ made' \in [Convs -> Nat]
  <2>1. CASE dispatch_hosted(l) BY <2>1 DEF dispatch_hosted
  <2>2. CASE invoke_parent_block(l)
    <3>1. PICK e : made' = [made EXCEPT ![e] = made[e] + 1] BY <2>2 DEF invoke_parent_block
    <3>2. made \in [Convs -> Nat] BY WorkerTypes
    <3>3. CASE e \in Convs BY <3>1, <3>2, <3>3
    <3>4. CASE e \notin Convs BY <3>1, <3>2, <3>4
    <3> QED BY <3>3, <3>4
  <2> QED BY <2>1, <2>2
<1> QED BY <1>4, <1>5, <1>6, <1>7, WorkerInStep
(* The inner loop hears a frame of the parent.                              *)
LEMMA FiberHearsInStep ==
  ASSUME InStep, NEW l \in Lanes, invoke_parent_block_inner(l)
  PROVE  InStep'
<1>1. PICK F : F = IF Head(fdown[l]).k = "call" THEN Append(fiber[l], Head(fdown[l]))
                   ELSE Pop(fiber[l])
  OBVIOUS
<1>2. /\ fdown[l] # <<>> /\ fdown' = [fdown EXCEPT ![l] = Tail(fdown[l])]
      /\ fiber' = [fiber EXCEPT ![l] = F]
  BY <1>1 DEF invoke_parent_block_inner
<1>3. UNCHANGED <<st, stack, reply, hostops, served, queue, pump, made, down, up, loop, fup>>
  BY DEF invoke_parent_block_inner, callerVars
<1>4. WorkerWrites(l) BY <1>2, <1>3, WorkerTypes DEF WorkerWrites, LaneSame
<1>5. ~AtRest(LaneView(l)) BY <1>2 DEF AtRest, Wires, LaneView
<1>6. ASSUME NEW c \in Convs, Holds(l, c) PROVE OnLane(c, LaneView(l)', CallerView(c))
  <2>1. PICK w, x : w = LaneView(l) /\ x = LaneView(l)' OBVIOUS
  <2>2. /\ w.fiber = fiber[l] /\ w.fdown = fdown[l] /\ x.fiber = F /\ x.fdown = Tail(w.fdown)
        /\ x.pump = w.pump /\ x.loop = w.loop /\ x.down = w.down /\ x.up = w.up
        /\ x.fup = w.fup
    BY <1>2, <1>3, <2>1, WorkerTypes DEF LaneView
  <2>3. OnLane(c, w, CallerView(c)) BY <1>6, <2>1 DEF Holds
  <2>4. w.fdown # <<>> /\ x.fiber = (IF Head(w.fdown).k = "call"
                                     THEN Append(w.fiber, Head(w.fdown)) ELSE Pop(w.fiber))
    BY <1>1, <1>2, <2>2
  <2>5. OnLane(c, x, CallerView(c)) BY <2>2, <2>3, <2>4, FiberHears
  <2> QED BY <2>1, <2>5
<1> QED BY <1>3, <1>4, <1>5, <1>6, WorkerInStep

-----------------------------------------------------------------------------
(* The theorem.                                                             *)

(* The invariant holds at the start.                                        *)
LEMMA InStepInit ==
  ASSUME Init PROVE InStep
<1>1. ConvTypes
  <2>1. Idle \in [pc : {"idle", "read", "down", "broken", "exited"},
                  conv : Convs \cup {0}, depth : Int]
    BY DEF Idle
  <2>2. queue \in [open : BOOLEAN, reqs : Seq(Convs)] BY DEF Init
  <2>3. pump \in [Lanes -> [pc : {"idle", "read", "down", "broken", "exited"},
                            conv : Convs \cup {0}, depth : Int]]
    BY <2>1 DEF Init
  <2>4. stack \in [Convs -> Seq(Levels)] /\ made \in [Convs -> Nat] BY DEF Init
  <2> QED BY <2>2, <2>3, <2>4 DEF Init, ConvTypes
<1>2. Len(queue.reqs) = 0 BY DEF Init
<1>3. QueueOK BY <1>2 DEF QueueOK
<1>4. \A l \in Lanes : pump[l].pc = "idle" BY DEF Init, Idle
<1>5. OneLane BY <1>4 DEF OneLane, Carries, Engaged
<1>6. \A l \in Lanes : LaneOK(l)
  <2>1. \A l \in Lanes : AtRest(LaneView(l)) BY DEF Init, AtRest, Wires, LaneView
  <2> QED BY <2>1, <1>4 DEF LaneOK, Engaged
<1>7. \A c \in Convs : ConvOK(c) BY DEF Init, ConvOK, Aside, CallerView, Talks
<1> QED BY <1>1, <1>3, <1>5, <1>6, <1>7 DEF InStep

(* Every step that cancels no serving fiber keeps it.                       *)
LEMMA InStepNext ==
  ASSUME InStep, [Next]_vars, tainted' = tainted
  PROVE  InStep'
<1>1. ASSUME UNCHANGED <<st, stack, made, reply, hostops, served, queue, pump, down, up, loop,
                         fiber, fup, fdown>>
      PROVE  InStep'
  <2>1. \A m \in Lanes : LaneSame(m) BY <1>1 DEF LaneSame
  <2>2. \A d \in Convs : CallerSame(d) BY <1>1 DEF CallerSame
  <2>3. ConvTypes' BY <1>1 DEF InStep, ConvTypes
  <2>4. QueueOK' BY <1>1, QueueKept DEF Pending
  <2>5. OneLane' BY <2>1, SameViews DEF InStep, OneLane
  <2>6. \A m \in Lanes : LaneOK(m)' BY <2>1, <2>2, LaneKept
  <2>7. \A d \in Convs : ConvOK(d)' BY <2>1, <2>2, SameViews, ConvKept
  <2> QED BY <2>3, <2>4, <2>5, <2>6, <2>7 DEF InStep
<1>2. CASE UNCHANGED vars BY <1>1, <1>2 DEF vars
<1>3. CASE WorkerDies BY <1>1, <1>3 DEF WorkerDies, callerVars, workerVars
<1>4. ASSUME NEW c \in Convs, ServiceCall(c) \/ CallerStep(c) \/ CallerCancelled(c)
      PROVE  InStep'
  BY <1>4, ServiceCallInStep, CallerEndsInStep, ConversationInStep, BlockInStep DEF CallerStep
<1>5. ASSUME NEW l \in Lanes, PumpStep(l) PROVE InStep'
  BY <1>5, PumpTakeInStep, PumpReadInStep, PumpDownInStep, PumpEofInStep, PumpExitsInStep
  DEF PumpStep
<1>6. ASSUME NEW l \in Lanes, WorkerStep(l) PROVE InStep'
  BY <1>6, LoopTakeInStep, LoopUpInStep, LoopFiberGoneInStep, LoopDownInStep, FiberSpeaksInStep,
     FiberHearsInStep
  DEF WorkerStep
<1>7. ASSUME NEW l \in Lanes, FiberCancelled(l) PROVE FALSE
  BY <1>7 DEF FiberCancelled
<1> QED BY <1>2, <1>3, <1>4, <1>5, <1>6, <1>7 DEF Next

(* A fiber that was cancelled stays in the record.                          *)
LEMMA TaintedGrows ==
  ASSUME [Next]_vars PROVE tainted' = tainted \/ tainted' # {}
<1>1. CASE UNCHANGED vars BY <1>1 DEF vars
<1>2. CASE WorkerDies BY <1>2 DEF WorkerDies, workerVars
<1>3. ASSUME NEW c \in Convs, ServiceCall(c) \/ CallerStep(c) \/ CallerCancelled(c)
      PROVE  tainted' = tainted
  BY <1>3 DEF ServiceCall, CallerStep, CallerCancelled, conversation, ReplyLaneClosed, nested_call,
     service_parent_hostop, workerVars
<1>4. ASSUME NEW l \in Lanes, PumpStep(l) PROVE tainted' = tainted
  BY <1>4 DEF PumpStep, PumpTake, PumpRead, PumpDown, PumpEof, PumpExits, workerVars
<1>5. ASSUME NEW l \in Lanes, WorkerStep(l) PROVE tainted' = tainted
  BY <1>5 DEF WorkerStep, LoopTake, LoopUp, LoopFiberGone, LoopDown, dispatch_hosted,
     invoke_parent_block, invoke_parent_block_inner
<1>6. ASSUME NEW l \in Lanes, FiberCancelled(l) PROVE tainted' # {}
  BY <1>6 DEF FiberCancelled
<1> QED BY <1>1, <1>2, <1>3, <1>4, <1>5, <1>6 DEF Next

(* What the invariant says of the lanes at rest and of the answers.         *)
LEMMA InStepLanes ==
  ASSUME ConvInv PROVE LanesInStep
<1>1. SUFFICES ASSUME tainted = {}
               PROVE  /\ LaneInSync
                      /\ \A c \in Convs :
                            InCall(c) /\ reply[c] # <<>> /\ Head(reply[c]).k = "ret"
                              => Head(reply[c]).id \in {<<>>, Last(stack[c]).id}
  BY DEF LanesInStep, LaneInSyncForCallers, AnswerFitsCall
<1>2. InStep BY <1>1 DEF ConvInv
<1>3. LaneInSync
  <2>1. ASSUME NEW l \in Lanes, pump[l].pc = "idle"
        PROVE  loop[l].pc = "idle" /\ up[l] = <<>> /\ down[l] = <<>>
    <3>1. AtRest(LaneView(l)) BY <2>1, <1>2 DEF InStep, LaneOK
    <3> QED BY <3>1 DEF AtRest, Wires, LaneView, Idle
  <2> QED BY <2>1 DEF LaneInSync
<1>4. ASSUME NEW c \in Convs, InCall(c), reply[c] # <<>>, Head(reply[c]).k = "ret"
      PROVE  Head(reply[c]).id = Last(stack[c]).id
  <2>1. PICK v : v = CallerView(c) OBVIOUS
  <2>2. /\ v.st = "active" /\ v.stack = stack[c] /\ v.reply = reply[c] /\ v.served = served[c]
        /\ Talks(v)
    BY <2>1, <1>4 DEF CallerView, InCall, Talks
  <2>3. Aside(c, v) /\ served[c] \in {"no", "held", "dropped"}
    BY <1>2, <2>1 DEF InStep, ConvOK, ConvTypes
  <2>4. PICK f \in Frames : reply[c] = <<f>> /\ (f.k = "ret" => stack[c][Len(stack[c])].id = f.id)
    <3>1. CASE served[c] = "no" BY <3>1, <2>2, <2>3, <1>4 DEF Aside
    <3>2. CASE served[c] = "dropped" BY <3>2, <2>2, <2>3, <1>4 DEF Aside
    <3>3. CASE served[c] = "held"
      <4>1. PICK l \in Lanes : Carries(l, c) BY <3>3, <1>2 DEF InStep, ConvOK
      <4>2. OnLane(c, LaneView(l), v) BY <4>1, <2>1, <1>2, CarriedHolds DEF Holds
      <4>3. PICK f \in Frames : Told(LaneView(l), v, f) BY <4>2, <2>2, <1>4, CallerTold
      <4> QED BY <4>3, <2>2 DEF Told, UpFits
    <3> QED BY <3>1, <3>2, <3>3, <2>3
  <2>5. Head(reply[c]) = f BY <2>4, OneFrame
  <2> QED BY <2>4, <2>5, <1>4 DEF Last
<1> QED BY <1>3, <1>4

(* For every number of lanes, of conversations, of calls and of levels: as  *)
(* long as no serving fiber was cancelled inside a host-op, a lane at rest  *)
(* has a clean socket and an idle loop at its other end, and the answer a   *)
(* caller reads is the answer to its innermost call, however conversations  *)
(* were nested, cancelled, refused or cut off before.                       *)
THEOREM LanesStayInStep == Spec => []LanesInStep
<1>1. Init => ConvInv BY InStepInit DEF ConvInv
<1>2. ConvInv /\ [Next]_vars => ConvInv'
  <2>1. SUFFICES ASSUME ConvInv, [Next]_vars, tainted' = {} PROVE InStep' BY DEF ConvInv
  <2>2. tainted' = tainted BY <2>1, TaintedGrows
  <2>3. InStep BY <2>1, <2>2 DEF ConvInv
  <2> QED BY <2>1, <2>2, <2>3, InStepNext
<1>3. ConvInv => LanesInStep BY InStepLanes
<1> QED BY <1>1, <1>2, <1>3, PTL DEF Spec
=============================================================================
