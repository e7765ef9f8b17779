----------------------------- MODULE Extension -----------------------------
(***************************************************************************)
(* The host's side of an extension process (runtime/extension.rs): calls,  *)
(* nested calls from the blocks the extension invokes, the death of the    *)
(* child, and the rebinding of the handle to a fresh child.                *)
(*                                                                         *)
(* Every rebind brings a fresh child, fresh claims, fresh sockets, a fresh *)
(* reap queue and a fresh LifeSink; all of them are named here by the      *)
(* child's ordinal.  A call keeps the socket and the ids of the child it   *)
(* started on, but what it does when it ends goes to whatever the handle   *)
(* is bound to by then.  Claims are those of claims.rs, whose own module   *)
(* is Claims: here a waiter that is cancelled leaves its queue at once.    *)
(***************************************************************************)
EXTENDS Naturals, Sequences, FiniteSets

CONSTANTS ExtTasks,     \* the tasks that call the extension
          NoOwner,      \* nobody
          LaneCount,    \* the lanes the manifest declares (1 when it says nothing)
          MaxChildren,  \* bound: children ever started
          PseudoKeys,   \* claim keys of calls that address no resource
          MaxCallDepth, \* MAX_CALL_DEPTH
          RestartBudget \* SupervisePolicy.max_restarts

ASSUME ExtensionAssumption ==
    /\ LaneCount \in Nat \ {0}
    /\ MaxChildren \in Nat \ {0} /\ MaxCallDepth \in Nat /\ RestartBudget \in Nat

Resource == 0                       \* the one resource instance, as a claim key
Keys     == {Resource} \cup PseudoKeys
Children == 1..MaxChildren
ExtLanes == 1..LaneCount
NoConv   == [sock |-> <<0, 0>>, depth |-> 0]
NoWant   == [key |-> Resource, child |-> 0, top |-> TRUE]
(* A supervisor that does not run has none of the loop's local variables.   *)
NoLoop(at) == [at |-> at, watched |-> 0, made |-> 0, deaths |-> 0]

VARIABLES ext,      \* the NativeExtension: [child, dead, gaveUp, free, convs]
          kid,      \* child -> "unborn", "alive" or "gone"
          extLife,  \* child -> the LifeSink's status
          claims,   \* child -> its PeerClaims
          calls,    \* task -> its stack of open calls, [key, child, sock]
          extPc,    \* task -> "idle", "queued", "call", "callback", "spawning", "hook"
          want,     \* task -> the claim it is queued for, [key, child, top]
          held,     \* the children with retained host values in the handle table
          sup,      \* the supervisor: [at, watched, made, deaths]
          old,      \* task -> the child its restart found dead, then the one it made
          panicked, \* has the VM panicked
          outlived, \* history: has a call or a claim outlived a rebind
          replaced  \* history: the children replaced by an attempt that began from another

attempts == <<sup, old>>
past     == <<outlived, replaced>>
extVars  == <<ext, kid, extLife, claims, calls, extPc, want, held, attempts, panicked, past>>

(* PeerClaims::new.                                                         *)
FreshClaims == [own   |-> [k \in Keys |-> NoOwner], depth    |-> [k \in Keys |-> 0],
                lane  |-> [k \in Keys |-> 0],       queue    |-> [k \in Keys |-> <<>>],
                heads |-> <<>>,                     reserved |-> [k \in Keys |-> FALSE],
                lanes |-> ExtLanes]
Sockets(c)  == {<<c, l>> : l \in ExtLanes}
Bound(c)    == [child |-> c, dead |-> FALSE, gaveUp |-> ext.gaveUp, free |-> Sockets(c),
                convs |-> [t \in ExtTasks |-> NoConv]]

ExtTypeOK ==
    /\ ext \in [child : Children, dead : BOOLEAN, gaveUp : BOOLEAN,
                free : SUBSET UNION {Sockets(c) : c \in Children},
                convs : [ExtTasks -> [sock : (UNION {Sockets(c) : c \in Children}) \cup {NoConv.sock},
                                      depth : 0..MaxCallDepth]]]
    /\ kid \in [Children -> {"unborn", "alive", "gone"}]
    /\ extLife \in [Children -> {"Running", "Died"}]
    /\ extPc \in [ExtTasks -> {"idle", "queued", "call", "callback", "spawning", "hook"}]
    /\ held \subseteq Children /\ replaced \subseteq Children
    /\ sup \in [at : {"off", "watch", "spawning", "hook", "over"}, deaths : 0..RestartBudget,
                watched : Children \cup {0}, made : Children \cup {0}]
    /\ old \in [ExtTasks -> Children \cup {0}]
    /\ panicked \in BOOLEAN /\ outlived \in BOOLEAN

(* spawn_and_connect succeeded: the first child is up.                      *)
ExtInit ==
    /\ ext = [child |-> 1, dead |-> FALSE, gaveUp |-> FALSE, free |-> Sockets(1),
              convs |-> [t \in ExtTasks |-> NoConv]]
    /\ kid = [c \in Children |-> IF c = 1 THEN "alive" ELSE "unborn"]
    /\ extLife = [c \in Children |-> "Running"]
    /\ claims = [c \in Children |-> FreshClaims]
    /\ calls = [t \in ExtTasks |-> <<>>]
    /\ extPc = [t \in ExtTasks |-> "idle"]
    /\ want = [t \in ExtTasks |-> NoWant]
    /\ held = {} /\ sup = NoLoop("off") /\ old = [t \in ExtTasks |-> 0]
    /\ panicked = FALSE /\ outlived = FALSE /\ replaced = {}

-----------------------------------------------------------------------------
(* The claims of one child, cl.                                             *)

Known(cl, k) == cl.own[k] # NoOwner \/ cl.queue[k] # <<>> \/ cl.reserved[k]

Granted(cl, t, k, l) ==
    [cl EXCEPT !.own[k] = t, !.depth[k] = 1, !.lane[k] = l, !.reserved[k] = FALSE,
               !.lanes = @ \ {l}]

(* The first waiter of k gets the object, with lane l (0: without one).     *)
Handover(cl, k, l) ==
    Granted([cl EXCEPT !.queue[k] = Tail(@)], Head(cl.queue[k]).task, k, l)

(* try_acquire: the owner re-enters; a free object is granted to a nested   *)
(* call alone, to any other with a free lane.                               *)
Acquires(cl, t, k, top) ==
    \/ cl.own[k] = t
    \/ cl.own[k] = NoOwner /\ ~cl.reserved[k] /\ (top => cl.lanes # {})
Acquired(cl, t, k, top) ==
    IF cl.own[k] = t THEN [cl EXCEPT !.depth[k] = @ + 1]
    ELSE Granted(cl, t, k, IF top THEN CHOOSE l \in cl.lanes : TRUE ELSE 0)

(* enqueue: a free object is reserved for the waiter, which needs a lane.   *)
Enqueued(cl, t, k, top) ==
    LET reserves == cl.own[k] = NoOwner /\ ~cl.reserved[k]
    IN  [cl EXCEPT !.queue[k] = Append(@, [task |-> t, top |-> top]),
                   !.reserved[k] = @ \/ reserves,
                   !.heads = IF reserves THEN Append(@, k) ELSE @]

(* promote_head: k has lost its owner.                                      *)
Promoted(cl, k) ==
    IF cl.queue[k] = <<>> THEN [cl EXCEPT !.reserved[k] = FALSE]
    ELSE IF ~Head(cl.queue[k]).top THEN Handover(cl, k, 0)
    ELSE IF cl.lanes # {} THEN Handover(cl, k, CHOOSE l \in cl.lanes : TRUE)
    ELSE [cl EXCEPT !.reserved[k] = TRUE,
                    !.heads = IF cl.reserved[k] THEN @ ELSE Append(@, k)]

(* release_lane: lane l goes to the oldest reserved head that needs one;    *)
(* heads before it have no waiter left, or a nested one, which needs none.  *)
TakesLane(cl, k) == cl.reserved[k] /\ cl.queue[k] # <<>> /\ Head(cl.queue[k]).top
Homed(cl, l) ==
    LET taking  == {i \in 1..Len(cl.heads) : TakesLane(cl, cl.heads[i])}
        n       == IF taking = {} THEN Len(cl.heads) + 1
                   ELSE CHOOSE i \in taking : \A j \in taking : i <= j
        visited == {k \in Keys : cl.reserved[k] /\ \E i \in 1..(n - 1) : cl.heads[i] = k}
        nested  == {k \in visited : cl.queue[k] # <<>>}
        cleared == [cl EXCEPT
            !.own   = [k \in Keys |-> IF k \in nested THEN Head(cl.queue[k]).task ELSE @[k]],
            !.depth = [k \in Keys |-> IF k \in nested THEN 1 ELSE @[k]],
            !.queue = [k \in Keys |-> IF k \in nested THEN Tail(@[k]) ELSE @[k]],
            !.reserved = [k \in Keys |-> @[k] /\ k \notin visited],
            !.heads = SubSeq(@, n + 1, Len(@))]
    IN  IF taking = {} THEN [cleared EXCEPT !.lanes = @ \cup {l}]
        ELSE Handover(cleared, cl.heads[n], l)

(* end_call: the last level frees the object and its lane; an object the    *)
(* claims do not know is left alone.  No caller is compared (debug_assert   *)
(* only).                                                                   *)
Released(cl, k) ==
    IF ~Known(cl, k) THEN cl
    ELSE IF cl.depth[k] > 1 THEN [cl EXCEPT !.depth[k] = @ - 1]
    ELSE LET freed == Promoted([cl EXCEPT !.own[k] = NoOwner, !.depth[k] = 0, !.lane[k] = 0], k)
         IN  IF cl.lane[k] = 0 THEN freed ELSE Homed(freed, cl.lane[k])

-----------------------------------------------------------------------------
(* Conversations.                                                           *)

Top(t) == calls[t][Len(calls[t])]
PopCall(t) == SubSeq(calls[t], 1, Len(calls[t]) - 1)
Resting(t) == IF calls[t] = <<>> THEN "idle" ELSE "callback"

(* The conversation gains a level; the first one takes a free socket, if  *)
(* there is one.                                                            *)
SocketFree(t) == ext.convs[t].depth > 0 \/ ext.free # {}
Pinned(e, t) ==
    IF e.convs[t].depth > 0 THEN [e EXCEPT !.convs[t].depth = @ + 1]
    ELSE LET s == CHOOSE x \in e.free : TRUE
         IN  [e EXCEPT !.free = @ \ {s}, !.convs[t] = [sock |-> s, depth |-> 1]]

(* Mutant: the socket is not returned with the outermost level.             *)
UnpinnedKeeping(e, t) ==
    IF e.convs[t].depth = 1 THEN [e EXCEPT !.convs[t] = NoConv]
    ELSE [e EXCEPT !.convs[t].depth = IF @ = 0 THEN 0 ELSE @ - 1]
Unpinned(e, t) ==
    IF e.convs[t].depth = 1
    THEN [e EXCEPT !.free = @ \cup {e.convs[t].sock}, !.convs[t] = NoConv]
    ELSE [e EXCEPT !.convs[t].depth = IF @ = 0 THEN 0 ELSE @ - 1]

(* ext_prelude, once the object is claimed: pin the socket and open the     *)
(* call; on a handle already known dead it is closed again at once.  With   *)
(* no socket left the `expect` panics.                                      *)
Open(t, k, cls) ==
    \/ /\ SocketFree(t) /\ ext.dead
       /\ ext' = Unpinned(Pinned(ext, t), t)
       /\ claims' = [cls EXCEPT ![ext.child] = Released(@, k)]
       /\ extPc' = [extPc EXCEPT ![t] = Resting(t)]
       /\ UNCHANGED <<calls, panicked>>
    \/ /\ SocketFree(t) /\ ~ext.dead
       /\ ext' = Pinned(ext, t)
       /\ claims' = cls
       /\ calls' = [calls EXCEPT ![t] = Append(@,
                       [key |-> k, child |-> ext.child, sock |-> ext'.convs[t].sock])]
       /\ extPc' = [extPc EXCEPT ![t] = "call"]
       /\ UNCHANGED panicked
    \/ /\ ~SocketFree(t)
       /\ panicked' = TRUE
       /\ UNCHANGED <<ext, claims, calls, extPc>>

(* A call from user code, or a nested one from a block the extension is     *)
(* running; a resource of a dead incarnation is refused before that, and a  *)
(* call that addresses none gets a key of its own.  (A wait that would      *)
(* close a cycle is refused: as if queued and cancelled at once.)           *)
ExtCall(t) ==
    /\ extPc[t] \in {"idle", "callback"}
    /\ ext.convs[t].depth < MaxCallDepth
    /\ \E k \in Keys :
         LET cl  == claims[ext.child]
             top == ext.convs[t].depth = 0
         IN
         /\ k \in PseudoKeys => ~Known(cl, k)
         /\ \/ /\ Acquires(cl, t, k, top)
               /\ Open(t, k, [claims EXCEPT ![ext.child] = Acquired(@, t, k, top)])
               /\ UNCHANGED want
            \/ /\ ~Acquires(cl, t, k, top)
               /\ claims' = [claims EXCEPT ![ext.child] = Enqueued(@, t, k, top)]
               /\ want' = [want EXCEPT ![t] = [key |-> k, child |-> ext.child, top |-> top]]
               /\ extPc' = [extPc EXCEPT ![t] = "queued"]
               /\ UNCHANGED <<ext, calls, panicked>>
    /\ UNCHANGED <<kid, extLife, held, attempts, past>>

WantedBy(t) == claims[want[t].child].own[want[t].key]

(* The claim was handed over: the parked task goes on, on the handle as it  *)
(* is now.                                                                  *)
Handed(t) ==
    /\ extPc[t] = "queued" /\ WantedBy(t) = t
    /\ Open(t, want[t].key, claims)
    /\ want' = [want EXCEPT ![t] = NoWant]
    /\ UNCHANGED <<kid, extLife, held, attempts, past>>

(* A cancelled waiter takes itself out of the queue, or passes on the claim *)
(* it has been handed.                                                      *)
CancelQueued(t) ==
    /\ extPc[t] = "queued"
    /\ claims' = [claims EXCEPT ![want[t].child] =
                     IF WantedBy(t) = t THEN Released(@, want[t].key)
                     ELSE [@ EXCEPT !.queue[want[t].key] = SelectSeq(@, LAMBDA w : w.task # t)]]
    /\ extPc' = [extPc EXCEPT ![t] = Resting(t)]
    /\ want' = [want EXCEPT ![t] = NoWant]
    /\ UNCHANGED <<ext, kid, extLife, calls, held, attempts, panicked, past>>

-----------------------------------------------------------------------------
(* The exchange of one call and how it ends.                                *)

(* service_host_op: the extension asks for a block or method of the host,   *)
(* which runs in the calling task, or retains a host value.                 *)
HostOp(t) ==
    /\ extPc[t] = "call" /\ kid[Top(t).child] = "alive"
    /\ \/ extPc' = [extPc EXCEPT ![t] = "callback"] /\ UNCHANGED held
       \/ held' = held \cup {Top(t).child} /\ UNCHANGED extPc
    /\ UNCHANGED <<ext, kid, extLife, claims, calls, want, attempts, panicked, past>>

(* The block is done and its result is written back; on a lane whose peer   *)
(* is gone the write fails, as in CallBreaks.                               *)
HostOpDone(t) ==
    /\ extPc[t] = "callback" /\ kid[Top(t).child] = "alive"
    /\ extPc' = [extPc EXCEPT ![t] = "call"]
    /\ UNCHANGED <<ext, kid, extLife, claims, calls, want, held, attempts, panicked, past>>

(* ext_end_call, on the handle as it is bound now.                          *)
EndCall(t) ==
    /\ claims' = [claims EXCEPT ![ext.child] = Released(@, Top(t).key)]
    /\ calls' = [calls EXCEPT ![t] = PopCall(t)]
    /\ extPc' = [extPc EXCEPT ![t] = IF Len(calls[t]) = 1 THEN "idle" ELSE "callback"]

(* note_if_exited, and kill_now, which ends the child first.                *)
NoteDead(e) ==
    /\ ext' = [e EXCEPT !.dead = TRUE]
    /\ extLife' = [extLife EXCEPT ![e.child] = "Died"]
    /\ kid' = [kid EXCEPT ![e.child] = "gone"]
NoteIfExited(e) ==
    IF kid[e.child] = "gone" THEN NoteDead(e) ELSE ext' = e /\ UNCHANGED <<extLife, kid>>

(* A reply.                                                                 *)
CallReturns(t) ==
    /\ extPc[t] = "call" /\ kid[Top(t).child] = "alive"
    /\ EndCall(t)
    /\ ext' = Unpinned(ext, t)
    /\ UNCHANGED <<kid, extLife, want, held, attempts, panicked, past>>

(* An error frame, after which finish_outcome looks whether the handle's    *)
(* child has exited.                                                        *)
CallErrs(t) ==
    /\ extPc[t] = "call" /\ kid[Top(t).child] = "alive"
    /\ EndCall(t)
    /\ NoteIfExited(Unpinned(ext, t))
    /\ held' = IF kid[ext.child] = "gone" THEN held \ {Top(t).child} ELSE held
    /\ UNCHANGED <<want, attempts, panicked, past>>

(* The lane failed under the call (its peer is gone), or the call was       *)
(* cancelled: the handle's child is taken down and the values the call's    *)
(* child had retained are released.  (The error of a callback crosses as a  *)
(* reply frame and ends no call.)                                           *)
CallBreaks(t) ==
    /\ \/ extPc[t] \in {"call", "callback"} /\ kid[Top(t).child] = "gone"
       \/ extPc[t] = "call"
    /\ calls[t] # <<>>
    /\ EndCall(t)
    /\ NoteDead(Unpinned(ext, t))
    /\ held' = held \ {Top(t).child}
    /\ UNCHANGED <<want, attempts, panicked, past>>

ChildDies ==
    /\ kid[ext.child] = "alive"
    /\ kid' = [kid EXCEPT ![ext.child] = "gone"]
    /\ UNCHANGED <<ext, extLife, claims, calls, extPc, want, held, attempts, panicked, past>>

(* lifeWatch: the exit watch records the death of an idle child.            *)
ExitWatch ==
    /\ kid[ext.child] = "gone" /\ extLife[ext.child] = "Running"
    /\ extLife' = [extLife EXCEPT ![ext.child] = "Died"]
    /\ UNCHANGED <<ext, kid, claims, calls, extPc, want, held, attempts, panicked, past>>

-----------------------------------------------------------------------------
(* Restarts.                                                                *)

(* Extension.restart: refused unless the current child died and no policy   *)
(* owns the restarts.  Another task's restart may be under way, and the     *)
(* task may be inside a call, in a block the extension invoked.             *)
Restart(t) ==
    /\ extPc[t] \in {"idle", "callback"} /\ sup.at = "off"
    /\ NoteIfExited(ext)
    /\ extLife'[ext.child] = "Died"
    /\ extPc' = [extPc EXCEPT ![t] = "spawning"]
    /\ old' = [old EXCEPT ![t] = ext.child]
    /\ UNCHANGED <<claims, calls, want, held, sup, panicked, past>>

Unborn == {c \in Children : kid[c] = "unborn"}
Least(S) == CHOOSE c \in S : \A d \in S : c <= d

(* Nobody is inside a call or queued for a claim.                           *)
Quiet == \A t \in ExtTasks : calls[t] = <<>> /\ extPc[t] # "queued"

(* extension_restart_attempt, from the return of a spawn that succeeded:    *)
(* the host values of the child that was found dead are released, and the   *)
(* handle is rebound in place, with fresh transport, claims, reap queue and *)
(* sink, whatever it is bound to by now and whoever is still inside a call. *)
Rebind(was) ==
    LET c == Least(Unborn) IN
    /\ Unborn # {}
    /\ ext' = Bound(c)
    /\ kid' = [kid EXCEPT ![c] = "alive"]
    /\ held' = held \ {was}
    /\ outlived' = (outlived \/ ~Quiet)
    /\ replaced' = IF was # ext.child THEN replaced \cup {ext.child} ELSE replaced

(* The restart hook of the attempt that made child c failed: the handle's   *)
(* child is killed, and the death recorded for it and for c.                *)
HookFailed(e) == [e EXCEPT !.dead = TRUE]
HookDeath(c) ==
    /\ extLife' = [extLife EXCEPT ![ext.child] = "Died", ![c] = "Died"]
    /\ kid' = [kid EXCEPT ![ext.child] = "gone"]

(* The attempt of a task: the spawn fails (the process, the handshake, or   *)
(* the manifest, whose child is abandoned); or the handle is rebound and    *)
(* the hook runs, which succeeds or fails.                                  *)
RestartFails(t) ==
    /\ extPc[t] = "spawning"
    /\ extPc' = [extPc EXCEPT ![t] = Resting(t)]
    /\ old' = [old EXCEPT ![t] = 0]
    /\ UNCHANGED <<ext, kid, extLife, claims, calls, want, held, sup, panicked, past>>
RestartRebinds(t) ==
    /\ extPc[t] = "spawning"
    /\ Rebind(old[t])
    /\ extPc' = [extPc EXCEPT ![t] = "hook"]
    /\ old' = [old EXCEPT ![t] = Least(Unborn)]
    /\ UNCHANGED <<extLife, claims, calls, want, sup, panicked>>
RestartEnds(t) ==
    /\ extPc[t] = "hook"
    /\ \/ ext' = HookFailed(ext) /\ HookDeath(old[t])
       \/ UNCHANGED <<ext, kid, extLife>>
    /\ extPc' = [extPc EXCEPT ![t] = Resting(t)]
    /\ old' = [old EXCEPT ![t] = 0]
    /\ UNCHANGED <<claims, calls, want, held, sup, panicked, past>>

(* attach_extension_policy, then supervise_extension_loop.                  *)
Supervise ==
    /\ sup.at = "off"
    /\ sup' = [NoLoop("watch") EXCEPT !.watched = ext.child]
    /\ UNCHANGED <<ext, kid, extLife, claims, calls, extPc, want, held, old, panicked, past>>

(* One more death, with the handle as it is in e.  Over the budget the      *)
(* supervisor gives up, otherwise it tries again.                           *)
CountDeath(e) ==
    IF sup.deaths + 1 > RestartBudget
    THEN sup' = NoLoop("over") /\ ext' = [e EXCEPT !.gaveUp = TRUE]
    ELSE sup' = [sup EXCEPT !.at = "spawning", !.made = 0, !.deaths = @ + 1] /\ ext' = e

SupervisorWakes ==
    /\ sup.at = "watch" /\ extLife[sup.watched] = "Died"
    /\ CountDeath(ext)
    /\ UNCHANGED <<kid, extLife, claims, calls, extPc, want, held, old, panicked, past>>

SupervisorFails ==
    /\ sup.at = "spawning"
    /\ CountDeath(ext)
    /\ UNCHANGED <<kid, extLife, claims, calls, extPc, want, held, old, panicked, past>>

SupervisorRebinds ==
    /\ sup.at = "spawning"
    /\ Rebind(sup.watched)
    /\ sup' = [sup EXCEPT !.at = "hook", !.made = Least(Unborn)]
    /\ UNCHANGED <<extLife, claims, calls, extPc, want, old, panicked>>

(* The hook ends: the loop starts again with the handle's child, or the     *)
(* attempt has failed and counts as a death.                                *)
SupervisorEnds ==
    /\ sup.at = "hook"
    /\ \/ /\ sup' = [sup EXCEPT !.at = "watch", !.watched = ext.child, !.made = 0]
          /\ UNCHANGED <<ext, kid, extLife>>
       \/ /\ CountDeath(HookFailed(ext))
          /\ HookDeath(sup.made)
    /\ UNCHANGED <<claims, calls, extPc, want, held, old, panicked, past>>

(* A cancel in the watch or in the sleep ends the loop.                     *)
SupervisorCancelled ==
    /\ sup.at \in {"watch", "spawning"}
    /\ sup' = NoLoop("over")
    /\ UNCHANGED <<ext, kid, extLife, claims, calls, extPc, want, held, old, panicked, past>>

(* A death leaves the policy's window.                                      *)
DeathExpires ==
    /\ sup.deaths > 0 /\ sup.at \in {"watch", "spawning"}
    /\ sup' = [sup EXCEPT !.deaths = @ - 1]
    /\ UNCHANGED <<ext, kid, extLife, claims, calls, extPc, want, held, old, panicked, past>>

TaskMoves(t) ==
    \/ ExtCall(t) \/ Handed(t) \/ CancelQueued(t) \/ HostOp(t) \/ HostOpDone(t)
    \/ CallReturns(t) \/ CallErrs(t) \/ CallBreaks(t)
    \/ Restart(t) \/ RestartFails(t) \/ RestartRebinds(t) \/ RestartEnds(t)
SupervisorMoves ==
    \/ Supervise \/ SupervisorWakes \/ SupervisorFails \/ SupervisorRebinds
    \/ SupervisorEnds \/ SupervisorCancelled \/ DeathExpires

ExtNext ==
    /\ ~panicked
    /\ (\E t \in ExtTasks : TaskMoves(t)) \/ ChildDies \/ ExitWatch \/ SupervisorMoves

ExtSpec == ExtInit /\ [][ExtNext]_extVars

-----------------------------------------------------------------------------
(* Whoever ends a call releases a claim of its own: the object it gives     *)
(* back is owned by its task in the claims it gives it back to              *)
(* (end_call's debug assertion, claims.rs:331).                             *)
OwnerReleases ==
    \A t \in ExtTasks : calls[t] # <<>> => claims[ext.child].own[Top(t).key] = t

(* The sockets of the bound child that are free or pinned are all of its    *)
(* sockets, each pinned once (ext_prelude, ext_end_call, the rebind).       *)
SocketsPartitioned ==
    LET used == {ext.convs[t].sock : t \in {u \in ExtTasks : ext.convs[u].depth > 0}} IN
    /\ ext.free \cup used = Sockets(ext.child) /\ ext.free \cap used = {}
    /\ Cardinality(used) = Cardinality({u \in ExtTasks : ext.convs[u].depth > 0})

(* The sockets follow the lanes: they are partitioned whatever outlives a   *)
(* rebind; and as long as no call and no claim has outlived one, a lane     *)
(* token is worth a socket (the `expect` of ext_prelude does not panic) and *)
(* whoever ends a call releases a claim of its own.                         *)
SocketsMatchLanes ==
    /\ SocketsPartitioned
    /\ ~outlived => ~panicked /\ OwnerReleases

(* A process of an earlier incarnation does not run on, and retains no host *)
(* value: what runs is the child the handle is bound to, and that one only  *)
(* while the handle does not say dead; or a child that was replaced by an   *)
(* attempt that had begun from another child.                               *)
NoResidue ==
    /\ \A c \in Children \ replaced : kid[c] = "alive" => c = ext.child /\ ~ext.dead
    /\ held \subseteq {ext.child} \cup replaced
=============================================================================
