------------------------------ MODULE Tiering ------------------------------
(* Which code a call runs: a method's kinds are observed while it is          *)
(* interpreted, a warm one is compiled for the kinds seen, its entry is       *)
(* reached through the registry, a call site's cell or an edge baked into     *)
(* the caller, and redefinition, misprediction and retranslation move it      *)
(* back or replace it. A caller c sends m: at one compiled site; m may be     *)
(* redefined and, compiled, calls itself directly.                            *)
EXTENDS Integers, FiniteSets

CONSTANTS TierTasks,       \* tasks calling c
          ArgKinds,        \* kinds of argument
          WarmThreshold,   \* QN_AOT_WARM
          DirectWarm,      \* QN_DIRECT_WARM
          BailTombstone,   \* BAIL_TOMBSTONE
          MaxRedefs,       \* bound on redefinitions of m:
          MaxCalls         \* bound on calls of c

VARIABLES
    bound,      \* the template m: is bound to
    pending,    \* template -> what was observed of its argument
    registry,   \* template -> its entry
    bails,      \* template -> mispredictions in a row
    cell,       \* the call site's cell
    queue,      \* c is queued for retranslation
    epochs,     \* [dispatch, redef]
    tasks,      \* task -> the compiled or interpreted frame it is in
    gone,       \* templates tombstoned
    stale,      \* a call entered a template its selector is not bound to
    calls       \* calls of c so far
tierVars == <<bound, pending, registry, bails, cell, queue, epochs, tasks, gone, stale, calls>>

Callees == 0..MaxRedefs
C == -1   \* the caller's template
None == -2
Templates == Callees \cup {C}
\* every other definition of m: is recursive
Recursive(m) == m % 2 = 0
NoEntry == [tid |-> None, lane |-> "obj", direct |-> FALSE, epoch |-> 0, edge |-> None,
            edgeLane |-> "obj", edgeEpoch |-> 0]
NoCell == [entry |-> NoEntry, epoch |-> 0, hits |-> 0]
\* since: the redefinition epoch the activation was entered at, for the
\* properties
Idle == [at |-> "idle", tid |-> None, lane |-> "obj", kind |-> "obj", entry |-> NoEntry, since |-> 0]

TierInit ==
    /\ bound \in 0..1 /\ queue = FALSE /\ cell = NoCell
    /\ pending = [t \in Templates |-> [state |-> "observing", count |-> 0, kind |-> "unknown"]]
    /\ registry = [t \in Templates |-> NoEntry] /\ bails = [t \in Templates |-> 0]
    /\ epochs = [dispatch |-> 0, redef |-> 0] /\ tasks = [t \in TierTasks |-> Idle]
    /\ gone = {} /\ stale = FALSE /\ calls = 0

-----------------------------------------------------------------------------
(* Speculation                                                               *)

\* the lattice of kinds seen: unknown, one kind, or an object
merge(lat, k) == IF lat = "unknown" THEN k ELSE IF lat = k THEN lat ELSE "obj"
scalar_kind(lat) == lat \notin {"unknown", "obj"}
\* compile_candidates: the entry's lanes are the kinds observed; a recursive
\* template of scalar lanes calls itself directly
Compiled(tid, lat) ==
    [NoEntry EXCEPT !.tid = tid, !.lane = IF scalar_kind(lat) THEN lat ELSE "obj",
                    !.direct = tid # C /\ scalar_kind(lat) /\ Recursive(tid),
                    !.epoch = epochs.redef]
Seen(tid, k) == [pending[tid] EXCEPT !.count = @ + 1, !.kind = merge(@, k)]
Promotes(tid, k) == pending[tid].state = "observing" /\ Seen(tid, k).count >= WarmThreshold
\* an interpreted call: observed, and the one that makes it warm compiles it,
\* which sends every cached callable back to the lookup
spec_observe_entry(tid, k) ==
    IF Promotes(tid, k)
    THEN /\ pending' = [pending EXCEPT ![tid] = [Seen(tid, k) EXCEPT !.state = "resolved"]]
         /\ registry' = [registry EXCEPT ![tid] = Compiled(tid, Seen(tid, k).kind)]
         /\ epochs' = [epochs EXCEPT !.dispatch = @ + 1]
    ELSE /\ pending' = IF pending[tid].state = "observing" THEN [pending EXCEPT ![tid] = Seen(tid, k)]
                       ELSE pending
         /\ UNCHANGED <<registry, epochs>>

-----------------------------------------------------------------------------
(* Entering a compiled method                                                *)

\* a mutant: the argument's kind is not compared with the lane's
FitsAny(lane, k) == TRUE
scalar_matches(lane, k) == lane = "obj" \/ lane = k
\* a mutant: an entry with direct self calls is entered at any epoch
gates_open(e) == TRUE
entry_gates(e) == e.direct => e.epoch = epochs.redef
Frame(t, at, e, k) ==
    tasks' = [tasks EXCEPT ![t] = [at |-> at, tid |-> e.tid, lane |-> e.lane, kind |-> k,
                                   entry |-> e, since |-> epochs.redef]]
Interpreted(t, tid, k) ==
    /\ spec_observe_entry(tid, k)
    /\ Frame(t, "interpreted", [NoEntry EXCEPT !.tid = tid], k)
\* a misprediction in a row too many removes the entry from the registry
Mispredicted(tid) ==
    /\ bails' = [bails EXCEPT ![tid] = @ + 1]
    /\ registry' = IF bails[tid] + 1 >= BailTombstone THEN [registry EXCEPT ![tid] = NoEntry]
                   ELSE registry
    /\ gone' = IF bails[tid] + 1 >= BailTombstone THEN gone \cup {tid} ELSE gone
\* Callable::call of an AotCall: preconditions, then invoke's gates
AotCall(t, e, k) ==
    IF ~scalar_matches(e.lane, k)
    THEN /\ Mispredicted(e.tid) /\ Frame(t, "interpreted", [NoEntry EXCEPT !.tid = e.tid], k)
         /\ UNCHANGED <<pending, epochs>>
    ELSE /\ bails' = [bails EXCEPT ![e.tid] = 0] /\ UNCHANGED gone
         /\ IF entry_gates(e) THEN Frame(t, "compiled", e, k) /\ UNCHANGED <<pending, registry, epochs>>
            ELSE Interpreted(t, e.tid, k)
\* lookup_method mints an AotCall for a registered template
Call(t, tid, k) ==
    IF registry[tid] # NoEntry THEN AotCall(t, registry[tid], k)
    ELSE Interpreted(t, tid, k) /\ UNCHANGED <<bails, gone>>

\* c is called from interpreted code
CallC(t, k) ==
    /\ tasks[t].at = "idle" /\ calls < MaxCalls /\ calls' = calls + 1
    /\ Call(t, C, k) /\ UNCHANGED <<bound, cell, queue, stale>>

-----------------------------------------------------------------------------
(* The site in compiled c                                                    *)

InC(t) == tasks[t].tid = C /\ tasks[t].at \in {"compiled", "interpreted"}
Entered(tid) == stale' = (stale \/ tid # bound)
\* an edge baked into c: under its epoch it jumps to the callee
EdgeTaken(e, k) == e.edge # None /\ e.edgeEpoch = epochs.dispatch /\ scalar_matches(e.edgeLane, k)
baked_edge(t) ==
    LET f == tasks[t] IN
    /\ InC(t) /\ f.at = "compiled" /\ EdgeTaken(f.entry, f.kind)
    /\ Entered(f.entry.edge)
    /\ tasks' = [tasks EXCEPT ![t] = [f EXCEPT !.at = "compiled", !.tid = f.entry.edge,
                                              !.lane = f.entry.edgeLane, !.since = epochs.redef]]
    /\ UNCHANGED <<bound, pending, registry, bails, cell, queue, epochs, gone, calls>>
\* a mutant: the cell is used whatever has been redefined since it was filled
peek_any_epoch(k) == cell.entry # NoEntry /\ scalar_matches(cell.entry.lane, k)
aot_site_peek(k) ==
    /\ cell.entry # NoEntry /\ cell.epoch = epochs.dispatch
    /\ scalar_matches(cell.entry.lane, k)
\* a hit warms the site, and a warm site queues its caller
note_hit ==
    /\ cell' = IF cell.hits < DirectWarm THEN [cell EXCEPT !.hits = @ + 1] ELSE cell
    /\ queue' = (queue \/ cell.hits + 1 = DirectWarm)
outcall_hit(t) ==
    LET f == tasks[t] IN
    /\ InC(t) /\ f.at = "compiled" /\ ~EdgeTaken(f.entry, f.kind) /\ aot_site_peek(f.kind)
    /\ note_hit /\ Entered(cell.entry.tid)
    /\ IF entry_gates(cell.entry)
       THEN Frame(t, "compiled", cell.entry, f.kind) /\ UNCHANGED <<pending, registry, epochs, bails, gone>>
       ELSE Interpreted(t, cell.entry.tid, f.kind) /\ UNCHANGED <<bails, gone>>
    /\ UNCHANGED <<bound, calls>>
\* otherwise the ordinary dispatch, which fills an empty or outdated cell
aot_site_fill(e) == [entry |-> e, epoch |-> epochs.dispatch, hits |-> 0]
outcall_classic(t) ==
    LET f == tasks[t] e == registry[bound] IN
    /\ InC(t) /\ ~(f.at = "compiled" /\ (EdgeTaken(f.entry, f.kind) \/ aot_site_peek(f.kind)))
    /\ cell' = IF f.at = "compiled" /\ e # NoEntry /\ (cell.entry = NoEntry \/ cell.epoch # epochs.dispatch)
               THEN aot_site_fill(e) ELSE cell
    /\ Call(t, bound, f.kind) /\ Entered(bound)
    /\ UNCHANGED <<bound, queue, calls>>

\* m:, compiled and recursive, calls itself without dispatch; the gates were
\* read when this activation was entered, so a later redefinition is not seen
Outlived(t) == tasks[t].since # epochs.redef
direct_call(t) ==
    /\ tasks[t].at = "compiled" /\ tasks[t].entry.direct /\ tasks[t].tid # C
    /\ IF Outlived(t) THEN UNCHANGED stale ELSE Entered(tasks[t].tid)
    /\ UNCHANGED <<bound, pending, registry, bails, cell, queue, epochs, tasks, gone, calls>>
Returns(t) ==
    /\ tasks[t].at # "idle" /\ tasks[t].at # "parked" /\ tasks' = [tasks EXCEPT ![t] = Idle]
    /\ UNCHANGED <<bound, pending, registry, bails, cell, queue, epochs, gone, stale, calls>>

-----------------------------------------------------------------------------
(* Redefinition and retranslation                                            *)

\* DefineMethod by some task, while compiled code of another is at a
\* checkpoint or in an outcall: caches go, and both epochs move
DefineMethod ==
    /\ bound < MaxRedefs
    /\ bound' = bound + 1
    /\ epochs' = [dispatch |-> epochs.dispatch + 1, redef |-> epochs.redef + 1]
    /\ UNCHANGED <<pending, registry, bails, cell, queue, tasks, gone, stale, calls>>

\* an edge may be baked to a warm cell's entry that is scalar and not recursive
w0_eligible(e) == e.lane # "obj" /\ ~e.direct
bake_w0_sites(e) ==
    IF cell.entry # NoEntry /\ cell.epoch = epochs.dispatch /\ cell.hits >= DirectWarm
       /\ w0_eligible(cell.entry)
    THEN [e EXCEPT !.edge = cell.entry.tid, !.edgeLane = cell.entry.lane, !.edgeEpoch = cell.epoch,
                   !.epoch = epochs.redef]
    ELSE e
\* the driver's drain: c is translated again from what was retained and put in
\* the registry, whatever happened to its entry
drain_retranslations ==
    LET lat == pending[C].kind
        e == bake_w0_sites(Compiled(C, lat))
    IN
    /\ queue /\ queue' = FALSE
    /\ registry' = IF e.edge # None THEN [registry EXCEPT ![C] = e] ELSE registry
    /\ UNCHANGED <<bound, pending, bails, cell, epochs, tasks, gone, stale, calls>>

TierNext ==
    \/ \E t \in TierTasks :
        \/ \E k \in ArgKinds : CallC(t, k)
        \/ baked_edge(t) \/ outcall_hit(t) \/ outcall_classic(t) \/ direct_call(t) \/ Returns(t)
    \/ DefineMethod \/ drain_retranslations
TierSpec == TierInit /\ [][TierNext]_tierVars

-----------------------------------------------------------------------------
(* Compiled code runs only on an argument of the kind its lane was compiled  *)
(* for, by whichever of the registry, the cell and the edge it was reached   *)
LaneKindsHold == \A t \in TierTasks : tasks[t].at = "compiled" =>
    tasks[t].lane \in {"obj", tasks[t].kind}

(* The registry, a call site's cell and a baked edge never enter a           *)
(* definition that has been replaced, and a direct self call does so only in *)
(* an activation entered before the redefinition: the gates are read at      *)
(* entry alone (invoke.rs:51)                                                *)
EntersCurrent == ~stale

(* A template tombstoned for its mispredictions is interpreted from then on, *)
(* unless a retranslation queued earlier bakes an edge into it and registers *)
(* it again (registry.rs:355-408)                                            *)
TombstonedStays == \A tid \in gone : registry[tid] = NoEntry \/ registry[tid].edge # None
=============================================================================
