----------------------------- MODULE ExtServer -----------------------------
(***************************************************************************)
(* The extension's side of the boundary: the SDK's object table and its    *)
(* lane threads (crates/quoin-ext), with the host's wrappers of the        *)
(* instances and their batched release (runtime/extension.rs).             *)
(*                                                                         *)
(* The table's lock covers single map operations, so the lanes interleave  *)
(* between the releases, the take of the receiver, the takes of the        *)
(* arguments and the reinserts of a call.                                  *)
(***************************************************************************)
EXTENDS Naturals, Sequences, FiniteSets, FiniteSetsExt

CONSTANTS SrvLanes,    \* the lane connections
          MaxIds,      \* bound: instances ever made
          MaxNested    \* bound: nested calls of a conversation

Ids     == 1..MaxIds
NoRecv  == 0           \* recv == 0: a class-side send

VARIABLES objects, \* the ids in the table
          next_id, \* the table's counter
          wraps,   \* id -> live NativeExtResource wrappers on the host
          reap,    \* the host's queue of ids to release
          frames,  \* lane -> its stack of dispatches, see Frame
          laneUp,  \* lane -> serve_conn is running
          echoed   \* history: the ids that came back to the host once more

srvVars == <<objects, next_id, wraps, reap, frames, laneUp, echoed>>

(* One dispatch: what is still to be released, whether the receiver is      *)
(* still to be taken, the argument ids still to be taken, what is taken.    *)
Frame == [recv : Ids \cup {NoRecv}, args : Seq(Ids), rel : Seq(Ids),
          phase : {"release", "recv", "args", "run", "reply"}, taken : SUBSET Ids]

SrvTypeOK ==
    /\ objects \subseteq Ids /\ next_id \in 0..MaxIds /\ echoed \subseteq Ids
    /\ wraps \in [Ids -> 0..2]
    /\ laneUp \in [SrvLanes -> BOOLEAN]
    /\ \A l \in SrvLanes : Len(frames[l]) <= MaxNested
                           /\ \A i \in 1..Len(frames[l]) : frames[l][i] \in Frame

SrvInit ==
    /\ objects = {} /\ next_id = 0 /\ echoed = {}
    /\ wraps = [i \in Ids |-> 0] /\ reap = <<>>
    /\ frames = [l \in SrvLanes |-> <<>>]
    /\ laneUp = [l \in SrvLanes |-> TRUE]

-----------------------------------------------------------------------------
(* The host.                                                                *)

TopFrame(l)   == frames[l][Len(frames[l])]
WithTop(l, f) == [frames EXCEPT ![l][Len(frames[l])] = f]
Popped(l)     == [frames EXCEPT ![l] = SubSeq(@, 1, Len(@) - 1)]

(* What is left of a dispatch before its handler runs, in order.            *)
Onward(f) ==
    [f EXCEPT !.phase = IF f.rel # <<>> THEN "release"
                        ELSE IF f.recv \notin f.taken \cup {NoRecv} THEN "recv"
                        ELSE IF f.args # <<>> THEN "args" ELSE "run"]

RangeOf(q)   == {q[k] : k \in 1..Len(q)}
Held         == {i \in Ids : wraps[i] > 0}
InCall(l)    == UNION {{frames[l][k].recv} \cup RangeOf(frames[l][k].args) \cup frames[l][k].taken :
                        k \in 1..Len(frames[l])}

(* A call the host starts: top level on an idle lane, or nested while the   *)
(* handler waits for a host operation.  The receiver's claim keeps it to    *)
(* one lane; arguments are not claimed, so another lane may be working      *)
(* with one.  The reap queue goes with the call.                            *)
HostCalls(l) ==
    /\ laneUp[l] /\ Len(frames[l]) < MaxNested
    /\ frames[l] # <<>> => TopFrame(l).phase = "run"
    /\ \E r \in Held \cup {NoRecv}, a \in {<<>>} \cup {<<i>> : i \in Held} :
         /\ r # NoRecv => \A m \in SrvLanes \ {l} : \A k \in 1..Len(frames[m]) : frames[m][k].recv # r
         /\ frames' = [frames EXCEPT ![l] = Append(@, Onward([recv |-> r, args |-> a, rel |-> reap,
                                                              phase |-> "run", taken |-> {}]))]
    /\ reap' = <<>>
    /\ UNCHANGED <<objects, next_id, wraps, laneUp, echoed>>

(* NativeExtResource::drop: a wrapper the program no longer reaches is      *)
(* collected.  The receiver and the arguments of an open call are reached.  *)
Collect(i) ==
    /\ wraps[i] > 0
    /\ wraps[i] = 1 => \A l \in SrvLanes : i \notin InCall(l)
    /\ wraps' = [wraps EXCEPT ![i] = @ - 1]
    /\ reap' = Append(reap, i)
    /\ UNCHANGED <<objects, next_id, frames, laneUp, echoed>>

-----------------------------------------------------------------------------
(* The lane threads.                                                        *)

Taking(l, i, f) ==
    /\ objects' = objects \ {i}
    /\ frames' = WithTop(l, Onward([f EXCEPT !.taken = @ \cup {i}]))
    /\ UNCHANGED laneUp

(* serve_conn, before dispatch: drop the instances the host released.       *)
Release(l) ==
    /\ frames[l] # <<>> /\ TopFrame(l).phase = "release"
    /\ LET f == TopFrame(l)
       IN  /\ objects' = objects \ {Head(f.rel)}
           /\ frames' = WithTop(l, Onward([f EXCEPT !.rel = Tail(@)]))
    /\ UNCHANGED <<next_id, wraps, reap, laneUp, echoed>>

(* dispatch failed before its handler ran: a nested call is answered with   *)
(* an error; a top-level one ends the lane (the `?` in serve_conn).         *)
DispatchFails(l) ==
    /\ frames' = Popped(l)
    /\ laneUp' = [laneUp EXCEPT ![l] = Len(frames[l]) > 1]

TakeReceiver(l) ==
    /\ frames[l] # <<>> /\ TopFrame(l).phase = "recv"
    /\ LET f == TopFrame(l) IN
       \/ f.recv \in objects /\ Taking(l, f.recv, f)
       \/ f.recv \notin objects /\ DispatchFails(l) /\ UNCHANGED objects
    /\ UNCHANGED <<next_id, wraps, reap, echoed>>

(* Mutant: a failed take drops the instances taken so far.                  *)
BadArgumentEating(l) == DispatchFails(l) /\ UNCHANGED objects
(* A bad id reinserts everything taken so far, the receiver included.       *)
BadArgument(l) == DispatchFails(l) /\ objects' = objects \cup TopFrame(l).taken

(* take_arg_instances, one id at a time; a duplicate shares its entry.      *)
TakeArgument(l) ==
    /\ frames[l] # <<>> /\ TopFrame(l).phase = "args"
    /\ LET f == TopFrame(l) IN
       \/ Head(f.args) \in objects /\ Taking(l, Head(f.args), [f EXCEPT !.args = Tail(@)])
       \/ Head(f.args) \notin objects /\ BadArgument(l)
    /\ UNCHANGED <<next_id, wraps, reap, echoed>>

(* The handler is done, with a result or an error: reinsert_instances, then *)
(* the receiver, one lock at a time.                                        *)
Reinsert(l) ==
    /\ frames[l] # <<>> /\ TopFrame(l).phase \in {"run", "reply"} /\ TopFrame(l).taken # {}
    /\ LET f == TopFrame(l)
           i == IF f.taken = {f.recv} THEN f.recv ELSE Max(f.taken \ {f.recv})
       IN  /\ objects' = objects \cup {i}
           /\ frames' = WithTop(l, [f EXCEPT !.taken = @ \ {i}, !.phase = "reply"])
    /\ UNCHANGED <<next_id, wraps, reap, laneUp, echoed>>

Finished(l) ==
    /\ frames[l] # <<>>
    /\ TopFrame(l).phase \in {"run", "reply"} /\ TopFrame(l).taken = {}

(* finish_reply, and the host wrapping what came back: nothing, a new       *)
(* instance (constructor, makes, a Value::Instance leaf), or a reference    *)
(* the handler passes through (Value::Resource), wrapped once more (bound:  *)
(* one instance, once).                                                     *)
HandlerReturns(l) ==
    /\ Finished(l)
    /\ frames' = Popped(l)
    /\ \/ UNCHANGED <<objects, next_id, wraps, echoed>>
       \/ /\ next_id < MaxIds
          /\ next_id' = next_id + 1 /\ objects' = objects \cup {next_id'}
          /\ wraps' = [wraps EXCEPT ![next_id'] = 1] /\ UNCHANGED echoed
       \/ /\ echoed = {}
          /\ \E i \in Held : wraps' = [wraps EXCEPT ![i] = @ + 1] /\ echoed' = {i}
          /\ UNCHANGED <<objects, next_id>>
    /\ UNCHANGED <<reap, laneUp>>

SrvNext ==
    \/ \E l \in SrvLanes : HostCalls(l) \/ Release(l) \/ TakeReceiver(l) \/ TakeArgument(l)
                           \/ Reinsert(l) \/ HandlerReturns(l)
    \/ \E i \in Ids : Collect(i)

SrvSpec == SrvInit /\ [][SrvNext]_srvVars

-----------------------------------------------------------------------------
(* No live instance is eaten: whatever the host holds a wrapper of is in    *)
(* the table, or taken by exactly one open dispatch (the conservation the   *)
(* comments at lib.rs:1330 and :1393 ask for).  The exception is an         *)
(* instance with two wrappers: dropping one releases it for both.           *)
HeldIsLive ==
    \A i \in Held \ echoed :
        LET takers == {<<l, k>> \in SrvLanes \X (1..MaxNested) :
                          k <= Len(frames[l]) /\ i \in frames[l][k].taken}
        IN  Cardinality(takers) = IF i \in objects THEN 0 ELSE 1

(* A conversation addressed to instances the host holds never costs a lane. *)
(* It may: an argument is not claimed, and when another lane works with it  *)
(* the dispatch fails and ends its lane; no run checks this.                *)
LanesStayUp == \A l \in SrvLanes : laneUp[l]

(* The table does not leak: an instance without a wrapper is on its way to  *)
(* release, in the host's queue or in a call.                               *)
NoLeak ==
    \A i \in objects : wraps[i] = 0 =>
        \/ i \in RangeOf(reap)
        \/ \E l \in SrvLanes : \E k \in 1..Len(frames[l]) : i \in RangeOf(frames[l][k].rel)
=============================================================================
