----------------------------- MODULE IoHandles -----------------------------
(* Sockets and listeners over the smol backend.  A guest handle holds only a *)
(* stream id; the descriptor lives in the backend's registry.  An operation  *)
(* is a future: asked for by a parked task, polled by the driver, done, and  *)
(* its result is consumed when the task is resumed.  A byte operation or an  *)
(* accept leases the descriptor while it runs; a TLS upgrade takes it.       *)
(* Handles are closed explicitly or collected; either way the id goes to a   *)
(* queue the driver drains.  Tasks may be cancelled at any time.             *)
EXTENDS Naturals, FiniteSets

CONSTANTS IoTasks,     \* tasks
          MaxStreams,  \* bound on the ids SmolInner::next_id hands out
          MayCancelIo  \* whether tasks may be cancelled

VARIABLES
    next,     \* next_id
    registry, \* ids in streams / listeners
    leased, tombs, \* leased, closed_while_leased
    handle,   \* id -> "none", "open", "closed": the guest handle naming it
    op,       \* task -> the future it is parked on
    result,   \* task -> the delivered, unconsumed result
    cancel,   \* task -> cancel_requested
    reap,     \* io.socket_reap
    reaped    \* ids the driver has closed
ioVars == <<next, registry, leased, tombs, handle, op, result, cancel, reap, reaped>>

Ids == 1..MaxStreams
Idle == [at |-> "idle", kind |-> "-", id |-> 0]
Nothing == [at |-> "none", id |-> 0]
Answer(a) == [at |-> a, id |-> 0]
Connected(i) == [at |-> "connected", id |-> i]
Leases(k) == k \in {"bytes", "accept"}
Makes(k) == k \in {"connect", "accept"}

IoInit ==
    /\ next = 1 /\ registry = {} /\ leased = {} /\ tombs = {}
    /\ handle = [i \in Ids |-> "none"]
    /\ op = [t \in IoTasks |-> Idle]
    /\ result = [t \in IoTasks |-> Nothing]
    /\ cancel = [t \in IoTasks |-> FALSE]
    /\ reap = {} /\ reaped = {}

Free(t) == op[t].at = "idle" /\ result[t] = Nothing

\* await_io of connect: or listen:, or of read:, writeAll:, accept on an open handle
AwaitOpen(t) ==
    /\ Free(t)
    /\ op' = [op EXCEPT ![t] = [at |-> "asked", kind |-> "connect", id |-> 0]]
    /\ UNCHANGED <<next, registry, leased, tombs, handle, result, cancel, reap, reaped>>

AwaitOn(t, k, i) ==
    /\ Free(t) /\ handle[i] = "open"
    /\ op' = [op EXCEPT ![t] = [at |-> "asked", kind |-> k, id |-> i]]
    /\ UNCHANGED <<next, registry, leased, tombs, handle, result, cancel, reap, reaped>>

\* TlsSocket.wrap:host: consumes the plain handle before it parks
tls_wrap(t, i) ==
    /\ Free(t) /\ handle[i] = "open"
    /\ handle' = [handle EXCEPT ![i] = "closed"]
    /\ op' = [op EXCEPT ![t] = [at |-> "asked", kind |-> "tls", id |-> i]]
    /\ UNCHANGED <<next, registry, leased, tombs, result, cancel, reap, reaped>>

\* First poll of the future: the descriptor is leased or taken out of the registry.
Start(t) ==
    /\ op[t].at = "asked"
    /\ IF op[t].id = 0 \/ op[t].id \in registry
       THEN /\ op' = [op EXCEPT ![t].at = "running"]
            /\ registry' = registry \ {op[t].id}
            /\ leased' = IF Leases(op[t].kind) THEN leased \union {op[t].id} ELSE leased
            /\ UNCHANGED result
       ELSE /\ op' = [op EXCEPT ![t] = Idle]
            /\ result' = [result EXCEPT ![t] = Answer("err")]
            /\ UNCHANGED <<registry, leased>>
    /\ UNCHANGED <<next, tombs, handle, cancel, reap, reaped>>

\* Drop of a lease: back to the registry, unless closed meanwhile.
ReturnAlways(i) == registry \union {i}
ReturnLease(i) == IF i \in tombs THEN registry ELSE registry \union {i}

\* The future resolves: an open or an accept inserts a new stream, an upgrade puts
\* the stream back, or drops it when the handshake fails.
Resolve(t) ==
    LET o == op[t]
        back == IF Leases(o.kind) THEN ReturnLease(o.id) ELSE registry
    IN
    /\ o.at = "running"
    /\ IF Makes(o.kind)
       THEN /\ next \in Ids /\ next' = next + 1
            /\ registry' = back \union {next}
            /\ result' = [result EXCEPT ![t] = Connected(next)]
       ELSE /\ \E ok \in (IF o.kind = "tls" THEN BOOLEAN ELSE {TRUE}) :
                 /\ registry' = IF o.kind = "tls" /\ ok THEN back \union {o.id} ELSE back
                 /\ result' = [result EXCEPT ![t] =
                       IF ~ok THEN Answer("err")
                       ELSE IF o.kind = "tls" THEN Connected(o.id) ELSE Answer("done")]
            /\ UNCHANGED next
    /\ leased' = leased \ {o.id} /\ tombs' = tombs \ {o.id}
    /\ op' = [op EXCEPT ![t] = Idle]
    /\ UNCHANGED <<handle, cancel, reap, reaped>>

\* The operation was aborted by close, or its task cancelled: the future is dropped.
Aborted(t) ==
    LET o == op[t] IN
    /\ o.at \in {"closed", "dropping"}
    /\ registry' = IF o.id \in leased THEN ReturnLease(o.id) ELSE registry
    /\ leased' = leased \ {o.id} /\ tombs' = tombs \ {o.id}
    /\ op' = [op EXCEPT ![t] = Idle]
    /\ result' = [result EXCEPT ![t] = Answer("err")]
    /\ UNCHANGED <<next, handle, cancel, reap, reaped>>

\* request_cancel: aborts the future the task is parked on, if any.  A future
\* dropped before its first poll has touched nothing.
request_cancel(t) ==
    /\ MayCancelIo /\ ~cancel[t] /\ ~Free(t)
    /\ cancel' = [cancel EXCEPT ![t] = TRUE]
    /\ IF op[t].at = "asked"
       THEN /\ op' = [op EXCEPT ![t] = Idle]
            /\ result' = [result EXCEPT ![t] = Answer("err")]
       ELSE /\ op' = [op EXCEPT ![t].at = IF @ = "running" THEN "dropping" ELSE @]
            /\ UNCHANGED result
    /\ UNCHANGED <<next, registry, leased, tombs, handle, reap, reaped>>

\* await_io resumes: a pending cancel raises before consuming any result;
\* otherwise make_socket / make_listener wraps a new stream.
Resume(t) ==
    /\ result[t] # Nothing
    /\ handle' = IF ~cancel[t] /\ result[t].at = "connected"
                 THEN [handle EXCEPT ![result[t].id] = "open"] ELSE handle
    /\ cancel' = [cancel EXCEPT ![t] = FALSE]
    /\ result' = [result EXCEPT ![t] = Nothing]
    /\ UNCHANGED <<next, registry, leased, tombs, op, reap, reaped>>

\* close, the end of a scoped block, or the collection of the handle
reap_handle(i) ==
    /\ handle[i] = "open"
    /\ handle' = [handle EXCEPT ![i] = "closed"]
    /\ reap' = reap \union {i}
    /\ UNCHANGED <<next, registry, leased, tombs, op, result, cancel, reaped>>

LeftRunning(o) == o
\* IoBackend::close aborts the operation holding the lease.
AbortedOp(o) == IF o.at = "running" /\ o.id \in reap \intersect leased
                THEN [o EXCEPT !.at = "closed"] ELSE o

\* The driver drains socket_reap: IoBackend::close of every id in it.
CloseReaped ==
    /\ reap # {}
    /\ registry' = registry \ reap
    /\ tombs' = tombs \union (reap \intersect leased)
    /\ op' = [t \in IoTasks |-> AbortedOp(op[t])]
    /\ reaped' = reaped \union reap
    /\ reap' = {}
    /\ UNCHANGED <<next, leased, handle, result, cancel>>

IoNext ==
    \/ \E t \in IoTasks :
          \/ AwaitOpen(t) \/ Start(t) \/ Resolve(t) \/ Aborted(t) \/ request_cancel(t) \/ Resume(t)
          \/ \E i \in Ids : AwaitOn(t, "bytes", i) \/ AwaitOn(t, "accept", i) \/ tls_wrap(t, i)
    \/ \E i \in Ids : reap_handle(i)
    \/ CloseReaped
IoSpec == IoInit /\ [][IoNext]_ioVars

(* A descriptor whose handle was closed stays closed: whatever operation was *)
(* in flight, leased, finishing or cancelled when the driver closed it, the  *)
(* id never comes back to the registry and no operation keeps running on it. *)
ClosedStaysClosed ==
    /\ reaped \intersect registry = {}
    /\ \A t \in IoTasks : op[t].at = "running" => op[t].id \notin reaped
    /\ leased \intersect reaped \subseteq tombs

(* Every open descriptor is still reachable: an open handle names it, it is  *)
(* queued for closing, an operation holds it, or it is a result its task is  *)
(* about to wrap.                                                            *)
NoOrphanDescriptor == \A i \in registry \union leased :
    \/ handle[i] = "open" \/ i \in reap \union tombs
    \/ \E t \in IoTasks : op[t].id = i \/ result[t] = Connected(i)
=============================================================================
