---------------------------- MODULE Conversation ----------------------------
(***************************************************************************)
(* The conversations of a process-backed service.                          *)
(*                                                                         *)
(* A call to a hosted object is a conversation: the worker may call blocks *)
(* of the parent back (host-ops), and such a block may call the service    *)
(* again, nested, on the same conversation.  A conversation crosses four   *)
(* parties: the calling task (worker_service.rs), the parent's pump of one *)
(* lane (parent_conv_pump), the child's loop of that lane (child_conv_loop)*)
(* and the worker fiber that serves the lane (hostServeLane).  Both relays *)
(* only count levels to know which frame is the last one of a conversation *)
(* and when they must turn around; the socket is reused by the next call.  *)
(*                                                                         *)
(* A frame is a call or a return with the identity of the call it makes or *)
(* answers, which the program does not send: it is there to say which      *)
(* answer reached whom.                                                    *)
(***************************************************************************)
EXTENDS Integers, Sequences, FiniteSets

CONSTANTS Lanes,     \* the lanes of the service: a pump, a socket, a fiber each
          Convs,     \* the conversations of a behaviour
          MaxCalls,  \* bound: calls and host-ops in one conversation
          MaxDepth   \* MAX_CONV_DEPTH: levels one side may open

VARIABLES st,       \* conversation -> "new", "active", "done", "cancelled" or "died"
          stack,    \* conversation -> the caller's levels, innermost last
          made,     \* conversation -> how many calls it has made
          reply,    \* conversation -> frames from the pump to the caller
          hostops,  \* conversation -> frames from the caller to the pump
          served,   \* conversation -> "no", "held" (a pump has it) or "dropped"
          queue,    \* the shared dispatch queue, and whether it is open
          pump,     \* lane -> [pc, conv, depth]
          down, up, \* lane -> the two directions of the socket
          loop,     \* lane -> [pc, conv, depth]: the child's side of the socket
          fiber,    \* lane -> the serving fiber's levels, innermost last
          fup, fdown, \* lane -> frames between fiber and loop
          alive,    \* the worker process
          tainted   \* conversations whose fiber was cancelled inside a host-op

vars == <<st, stack, made, reply, hostops, served, queue, pump, down, up, loop,
          fiber, fup, fdown, alive, tainted>>

callerVars == <<st, stack, reply, hostops>>
workerVars == <<loop, fiber, fup, fdown, tainted>>

(* The n-th call of conversation c, and the answer to call x.               *)
Call(c, n) == [k |-> "call", id |-> <<c, n>>]
Ret(x)     == [k |-> "ret", id |-> x.id]
ErrorFrame == [k |-> "ret", id |-> <<>>]   \* made up by a relay: answers any call

Last(s)  == s[Len(s)]
Pop(s)   == SubSeq(s, 1, Len(s) - 1)

(* A level is opened by a Call and closed by a CallReturn, whichever way.   *)
Level(depth, frame) == IF frame.k = "call" THEN depth + 1 ELSE depth - 1

Active   == {c \in Convs : st[c] = "active"}
Idle     == [pc |-> "idle", conv |-> 0, depth |-> 0]

TypeOK ==
    /\ st \in [Convs -> {"new", "active", "done", "cancelled", "died"}]
    /\ served \in [Convs -> {"no", "held", "dropped"}]
    /\ made \in [Convs -> 0..MaxCalls]
    /\ queue.open \in BOOLEAN /\ queue.reqs \in Seq(Convs)
    /\ \A l \in Lanes :
          /\ pump[l].pc \in {"idle", "read", "down", "broken", "exited"}
          /\ loop[l].pc \in {"idle", "reply", "down"}
          /\ pump[l].depth \in Nat /\ loop[l].depth \in Nat
    /\ alive \in BOOLEAN /\ tainted \subseteq Convs

-----------------------------------------------------------------------------
(* The calling task.                                                        *)

(* service_call: a lane of the claims, then the dispatch queue; a closed    *)
(* queue is a death.                                                        *)
ServiceCall(c) ==
    /\ st[c] = "new"
    /\ Cardinality(Active) < Cardinality(Lanes)
    /\ IF queue.open
       THEN /\ st' = [st EXCEPT ![c] = "active"]
            /\ stack' = [stack EXCEPT ![c] = <<Call(c, 1)>>]
            /\ made' = [made EXCEPT ![c] = 1]
            /\ queue' = [queue EXCEPT !.reqs = Append(@, c)]
       ELSE /\ st' = [st EXCEPT ![c] = "died"]
            /\ UNCHANGED <<stack, made, queue>>
    /\ UNCHANGED <<reply, hostops, served, pump, down, up, workerVars, alive>>

InCall(c)     == st[c] = "active" /\ Last(stack[c]).k = "call"
InCallback(c) == st[c] = "active" /\ Last(stack[c]).k = "cb"

Ends(c, how) ==
    /\ st' = [st EXCEPT ![c] = how]
    /\ stack' = [stack EXCEPT ![c] = <<>>]

(* conversation: a host-op starts the block on this task, a return ends the *)
(* innermost call.                                                          *)
conversation(c) ==
    /\ InCall(c) /\ reply[c] # <<>>
    /\ reply' = [reply EXCEPT ![c] = Tail(@)]
    /\ LET f == Head(reply[c]) IN
       IF f.k = "call"
       THEN /\ stack' = [stack EXCEPT ![c] = Append(@, [k |-> "cb", id |-> f.id])]
            /\ UNCHANGED st
       ELSE IF Len(stack[c]) = 1
       THEN Ends(c, "done")
       ELSE /\ stack' = [stack EXCEPT ![c] = Pop(@)]
            /\ UNCHANGED st
    /\ UNCHANGED <<made, hostops, served, queue, pump, down, up, workerVars, alive>>

(* The reply lane closed: whoever held the request has dropped it.          *)
ReplyLaneClosed(c) ==
    /\ InCall(c) /\ reply[c] = <<>> /\ served[c] = "dropped"
    /\ Ends(c, "died")
    /\ UNCHANGED <<made, reply, hostops, served, queue, pump, down, up, workerVars, alive>>

(* nested_call, from the block of a host-op.  A lane without a pump is a    *)
(* death.                                                                   *)
nested_call(c) ==
    /\ InCallback(c)
    /\ made[c] < MaxCalls /\ Len(stack[c]) < 2 * MaxDepth
    /\ made' = [made EXCEPT ![c] = @ + 1]
    /\ IF served[c] = "dropped"
       THEN Ends(c, "died") /\ UNCHANGED hostops
       ELSE /\ stack' = [stack EXCEPT ![c] = Append(@, Call(c, made[c] + 1))]
            /\ hostops' = [hostops EXCEPT ![c] = Append(@, Call(c, made[c] + 1))]
            /\ UNCHANGED st
    /\ UNCHANGED <<reply, served, queue, pump, down, up, workerVars, alive>>

(* The block returns, or raises: service_parent_hostop answers the worker.  *)
service_parent_hostop(c) ==
    /\ InCallback(c)
    /\ IF served[c] = "dropped"
       THEN Ends(c, "died") /\ UNCHANGED hostops
       ELSE /\ stack' = [stack EXCEPT ![c] = Pop(@)]
            /\ hostops' = [hostops EXCEPT ![c] = Append(@, Ret(Last(stack[c])))]
            /\ UNCHANGED st
    /\ UNCHANGED <<made, reply, served, queue, pump, down, up, workerVars, alive>>

(* A cancel unwinds every level and drops both ends of the lane.            *)
CallerCancelled(c) ==
    /\ st[c] = "active"
    /\ Ends(c, "cancelled")
    /\ UNCHANGED <<made, reply, hostops, served, queue, pump, down, up, workerVars, alive>>

-----------------------------------------------------------------------------
(* The parent's pump of lane l.                                             *)

Broken(l) == pump' = [pump EXCEPT ![l].pc = "broken"]

PumpTake(l) ==
    /\ pump[l].pc = "idle" /\ queue.reqs # <<>>
    /\ LET c == Head(queue.reqs) IN
       /\ queue' = [queue EXCEPT !.reqs = Tail(@)]
       /\ IF alive
          THEN /\ served' = [served EXCEPT ![c] = "held"]
               /\ pump' = [pump EXCEPT ![l] = [pc |-> "read", conv |-> c, depth |-> 1]]
               /\ down' = [down EXCEPT ![l] = Append(@, Call(c, 1))]
          ELSE /\ served' = [served EXCEPT ![c] = "dropped"]
               /\ Broken(l)
               /\ UNCHANGED down
    /\ UNCHANGED <<callerVars, made, up, workerVars, alive>>

(* A frame comes up: forwarded if the caller still listens, and the last    *)
(* one of the conversation drops the request.                               *)
PumpRead(l) ==
    /\ pump[l].pc = "read" /\ up[l] # <<>>
    /\ LET c == pump[l].conv
           d == Level(pump[l].depth, Head(up[l])) IN
       /\ up' = [up EXCEPT ![l] = Tail(@)]
       /\ reply' = IF st[c] = "active"
                   THEN [reply EXCEPT ![c] = Append(@, Head(up[l]))] ELSE reply
       /\ pump' = [pump EXCEPT ![l] = IF d = 0 THEN Idle
                                      ELSE [pc |-> "down", conv |-> c, depth |-> d]]
       /\ served' = IF d = 0 THEN [served EXCEPT ![c] = "dropped"] ELSE served
    /\ UNCHANGED <<st, stack, made, hostops, queue, down, workerVars, alive>>

(* Between two frames of the worker the caller has one to send; a caller    *)
(* who abandoned the conversation is answered for.  (Mutant: the pump stops *)
(* relaying when it finds the caller gone.)                                 *)
PumpDownAbandoned(l) ==
    /\ pump[l].pc = "down"
    /\ LET c == pump[l].conv IN
       \/ /\ hostops[c] # <<>>
          /\ hostops' = [hostops EXCEPT ![c] = Tail(@)]
          /\ down' = [down EXCEPT ![l] = Append(@, Head(hostops[c]))]
          /\ pump' = [pump EXCEPT ![l] = [pc |-> "read", conv |-> c,
                                          depth |-> Level(@.depth, Head(hostops[c]))]]
          /\ UNCHANGED served
       \/ /\ hostops[c] = <<>> /\ st[c] # "active"
          /\ pump' = [pump EXCEPT ![l] = Idle]
          /\ served' = [served EXCEPT ![c] = "dropped"]
          /\ UNCHANGED <<hostops, down>>
    /\ UNCHANGED <<st, stack, reply, made, queue, up, workerVars, alive>>

PumpDown(l) ==
    /\ pump[l].pc = "down"
    /\ LET c == pump[l].conv
           abandoned == hostops[c] = <<>> /\ st[c] # "active"
           f == IF abandoned THEN ErrorFrame ELSE Head(hostops[c]) IN
       /\ hostops[c] # <<>> \/ abandoned
       /\ hostops' = IF abandoned THEN hostops ELSE [hostops EXCEPT ![c] = Tail(@)]
       /\ IF alive
          THEN /\ down' = [down EXCEPT ![l] = Append(@, f)]
               /\ pump' = [pump EXCEPT ![l] = [pc |-> "read", conv |-> c,
                                               depth |-> Level(@.depth, f)]]
               /\ UNCHANGED served
          ELSE /\ Broken(l)
               /\ served' = [served EXCEPT ![c] = "dropped"]
               /\ UNCHANGED down
    /\ UNCHANGED <<st, stack, reply, made, queue, up, workerVars, alive>>

(* The socket broke while the pump reads it.                                *)
PumpEof(l) ==
    /\ pump[l].pc = "read" /\ up[l] = <<>> /\ ~alive
    /\ Broken(l)
    /\ served' = [served EXCEPT ![pump[l].conv] = "dropped"]
    /\ UNCHANGED <<callerVars, made, queue, down, up, workerVars, alive>>

(* The first pump to find its socket broken closes the queue and drops what *)
(* is in it; its siblings find it closed.  (Mutant: it leaves the requests  *)
(* that raced in.)                                                          *)
PumpExitsEntombing(l) ==
    /\ pump[l].pc = "broken"
    /\ pump' = [pump EXCEPT ![l].pc = "exited"]
    /\ queue' = [queue EXCEPT !.open = FALSE]
    /\ UNCHANGED <<callerVars, made, served, down, up, workerVars, alive>>

PumpExits(l) ==
    /\ pump[l].pc = "broken"
    /\ pump' = [pump EXCEPT ![l].pc = "exited"]
    /\ queue' = [open |-> FALSE, reqs |-> <<>>]
    /\ served' = [c \in Convs |-> IF \E i \in 1..Len(queue.reqs) : queue.reqs[i] = c
                                  THEN "dropped" ELSE served[c]]
    /\ UNCHANGED <<callerVars, made, down, up, workerVars, alive>>

-----------------------------------------------------------------------------
(* The child's loop of lane l, and the fiber that serves it.                *)

(* A call frame starts a conversation; a stray return is skipped.           *)
LoopTake(l) ==
    /\ alive /\ loop[l].pc = "idle" /\ down[l] # <<>>
    /\ down' = [down EXCEPT ![l] = Tail(@)]
    /\ IF Head(down[l]).k = "call"
       THEN /\ loop' = [loop EXCEPT ![l] = [pc |-> "reply", conv |-> Head(down[l]).id[1], depth |-> 1]]
            /\ fiber' = [fiber EXCEPT ![l] = <<Head(down[l])>>]
            /\ fup' = [fup EXCEPT ![l] = <<>>]
            /\ fdown' = [fdown EXCEPT ![l] = <<>>]
       ELSE UNCHANGED <<loop, fiber, fup, fdown>>
    /\ UNCHANGED <<callerVars, made, served, queue, pump, up, alive, tainted>>

(* A frame of the fiber goes up; the one that closes level 0 ends it.       *)
LoopUp(l) ==
    /\ alive /\ loop[l].pc = "reply" /\ fup[l] # <<>>
    /\ LET d == Level(loop[l].depth, Head(fup[l])) IN
       loop' = [loop EXCEPT ![l] = IF d = 0 THEN Idle
                                   ELSE [pc |-> "down", conv |-> loop[l].conv, depth |-> d]]
    /\ fup' = [fup EXCEPT ![l] = Tail(@)]
    /\ up' = [up EXCEPT ![l] = Append(@, Head(fup[l]))]
    /\ UNCHANGED <<callerVars, made, served, queue, pump, down, fiber, fdown, alive, tainted>>

(* The fiber ended with levels open: each is closed with an error.          *)
LoopFiberGone(l) ==
    /\ alive /\ loop[l].pc = "reply" /\ fup[l] = <<>> /\ fiber[l] = <<>>
    /\ up' = [up EXCEPT ![l] = @ \o [i \in 1..loop[l].depth |-> ErrorFrame]]
    /\ loop' = [loop EXCEPT ![l] = Idle]
    /\ UNCHANGED <<callerVars, made, served, queue, pump, down, fiber, fup, fdown, alive, tainted>>

(* A frame of the caller comes down: to the fiber, or lost with it.         *)
LoopDown(l) ==
    /\ alive /\ loop[l].pc = "down" /\ down[l] # <<>>
    /\ loop' = [loop EXCEPT ![l] = [pc |-> "reply", conv |-> loop[l].conv,
                                    depth |-> Level(@.depth, Head(down[l]))]]
    /\ fdown' = IF fiber[l] = <<>> THEN fdown
                ELSE [fdown EXCEPT ![l] = Append(@, Head(down[l]))]
    /\ down' = [down EXCEPT ![l] = Tail(@)]
    /\ UNCHANGED <<callerVars, made, served, queue, pump, up, fiber, fup, alive, tainted>>

Serving(l)   == alive /\ fiber[l] # <<>> /\ Last(fiber[l]).k = "call"
InHostop(l)  == alive /\ fiber[l] # <<>> /\ Last(fiber[l]).k = "op"

(* dispatch_hosted answers; the outermost answer ends the fiber's part.     *)
dispatch_hosted(l) ==
    /\ Serving(l)
    /\ fup' = [fup EXCEPT ![l] = Append(@, Ret(Last(fiber[l])))]
    /\ fiber' = [fiber EXCEPT ![l] = Pop(@)]
    /\ UNCHANGED <<callerVars, made, served, queue, pump, down, up, loop, fdown, alive, tainted>>

(* invoke_parent_block: a host-op goes up, within the depth cap.            *)
invoke_parent_block(l) ==
    /\ Serving(l)
    /\ LET c == loop[l].conv IN
       /\ made[c] < MaxCalls /\ Len(fiber[l]) < 2 * MaxDepth
       /\ made' = [made EXCEPT ![c] = @ + 1]
       /\ fup' = [fup EXCEPT ![l] = Append(@, Call(c, made[c] + 1))]
       /\ fiber' = [fiber EXCEPT ![l] = Append(@, [k |-> "op", id |-> <<c, made[c] + 1>>])]
    /\ UNCHANGED <<callerVars, served, queue, pump, down, up, loop, fdown, alive, tainted>>

(* Its loop: a return ends the host-op, a call is served nested.  (Mutant:  *)
(* whatever comes down ends the host-op.)                                   *)
InnerTakesAny(l) ==
    /\ InHostop(l) /\ fdown[l] # <<>>
    /\ fdown' = [fdown EXCEPT ![l] = Tail(@)]
    /\ fiber' = [fiber EXCEPT ![l] = Pop(@)]
    /\ UNCHANGED <<callerVars, made, served, queue, pump, down, up, loop, fup, alive, tainted>>

invoke_parent_block_inner(l) ==
    /\ InHostop(l) /\ fdown[l] # <<>>
    /\ fdown' = [fdown EXCEPT ![l] = Tail(@)]
    /\ fiber' = [fiber EXCEPT ![l] = IF Head(fdown[l]).k = "call"
                                     THEN Append(@, Head(fdown[l])) ELSE Pop(@)]
    /\ UNCHANGED <<callerVars, made, served, queue, pump, down, up, loop, fup, alive, tainted>>

(* The fiber is cancelled while it waits for the parent: the host-op raises *)
(* in the hosted method.                                                    *)
FiberCancelled(l) ==
    /\ InHostop(l) /\ loop[l].conv \notin tainted
    /\ fiber' = [fiber EXCEPT ![l] = Pop(@)]
    /\ tainted' = tainted \cup {loop[l].conv}
    /\ UNCHANGED <<callerVars, made, served, queue, pump, down, up, loop, fup, fdown, alive>>

WorkerDies ==
    /\ alive /\ alive' = FALSE
    /\ UNCHANGED <<callerVars, made, served, queue, pump, down, up, workerVars>>

-----------------------------------------------------------------------------
Init ==
    /\ st = [c \in Convs |-> "new"]
    /\ stack = [c \in Convs |-> <<>>]
    /\ made = [c \in Convs |-> 0]
    /\ reply = [c \in Convs |-> <<>>]
    /\ hostops = [c \in Convs |-> <<>>]
    /\ served = [c \in Convs |-> "no"]
    /\ queue = [open |-> TRUE, reqs |-> <<>>]
    /\ pump = [l \in Lanes |-> Idle]
    /\ down = [l \in Lanes |-> <<>>]
    /\ up = [l \in Lanes |-> <<>>]
    /\ loop = [l \in Lanes |-> Idle]
    /\ fiber = [l \in Lanes |-> <<>>]
    /\ fup = [l \in Lanes |-> <<>>]
    /\ fdown = [l \in Lanes |-> <<>>]
    /\ alive = TRUE
    /\ tainted = {}

CallerStep(c) ==
    \/ conversation(c) \/ ReplyLaneClosed(c) \/ nested_call(c) \/ service_parent_hostop(c)

PumpStep(l) == PumpTake(l) \/ PumpRead(l) \/ PumpDown(l) \/ PumpEof(l) \/ PumpExits(l)

WorkerStep(l) ==
    \/ LoopTake(l) \/ LoopUp(l) \/ LoopFiberGone(l) \/ LoopDown(l)
    \/ dispatch_hosted(l) \/ invoke_parent_block(l) \/ invoke_parent_block_inner(l)

Next ==
    \/ \E c \in Convs : ServiceCall(c) \/ CallerStep(c) \/ CallerCancelled(c)
    \/ \E l \in Lanes : PumpStep(l) \/ WorkerStep(l) \/ FiberCancelled(l)
    \/ WorkerDies

(* The pump and the child's loop are threads, the fibers and the callers    *)
(* tasks of two schedulers that run whatever is ready; a hosted method and  *)
(* a block are taken to return.                                             *)
Fairness ==
    /\ \A c \in Convs : WF_vars(CallerStep(c))
    /\ \A l \in Lanes : WF_vars(PumpStep(l)) /\ WF_vars(WorkerStep(l))

Spec == Init /\ [][Next]_vars /\ Fairness

-----------------------------------------------------------------------------
(* Between two conversations the socket is clean: while the pump is at rest *)
(* the child's loop is too, and nothing is left in either direction, so the *)
(* next call cannot read an answer that was meant for an earlier one.       *)
LaneInSync ==
    \A l \in Lanes :
        alive /\ pump[l].pc = "idle" =>
            loop[l].pc = "idle" /\ up[l] = <<>> /\ down[l] = <<>>

(* The same, however callers abandoned their conversations, as long as no   *)
(* serving fiber was itself cancelled in the middle of a host-op.           *)
LaneInSyncForCallers == tainted = {} => LaneInSync

(* An answer reaches the call it answers: the return at the head of a       *)
(* caller's lane is for its innermost call, through any nesting, as long as *)
(* no serving fiber was cancelled in the middle of a host-op: after that a  *)
(* lane may hand an old answer to any later conversation.                   *)
AnswerFitsCall ==
    tainted = {} => \A c \in Convs :
        InCall(c) /\ reply[c] # <<>> /\ Head(reply[c]).k = "ret"
            => Head(reply[c]).id \in {<<>>, Last(stack[c]).id}

(* Both: a lane at rest is clean for the next call, whatever conversation   *)
(* was cancelled, refused or cut off before, and answers fit their calls.   *)
LanesInStep == LaneInSyncForCallers /\ AnswerFitsCall

(* Every call ends: by its answer, its cancel or the death of the worker.   *)
(* No request stays in a queue nobody reads, and no relay waits for a       *)
(* caller who is gone.                                                      *)
EveryCallEnds == \A c \in Convs : st[c] = "active" ~> st[c] # "active"
=============================================================================
