------------------------------ MODULE Hosting ------------------------------
(***************************************************************************)
(* Hosted objects: a worker runs a block, keeps the object it answers, and *)
(* serves calls on it.  Objects a call answers stay in the worker's pin    *)
(* table; the parent holds proxies with their wire ids, and ids of dropped *)
(* proxies ride home as the `releases` of the next call.  The first answer *)
(* of a class declares it, later ones only name it.  The frames of one     *)
(* conversation are module Conversation's, the waiting for an object       *)
(* module Claims'.                                                         *)
(***************************************************************************)
EXTENDS Integers, Sequences, FiniteSets, SequencesExt

CONSTANTS HTasks,        \* tasks of the parent that call
          HLanes,        \* serving lanes
          MaxHostCalls   \* bound on calls

VARIABLES boot,       \* both ends of the boot handshake
          pins, free, \* the worker's hosted slots and its free list
          announced, installed, \* classes the worker declared; classes of this link in the parent
          proxies, reap,        \* parent: proxies by the call that minted them; ids to release
          calls, dispatch, serving, \* callers; requests; what each lane runs
          made, issued, undeclared, \* objects made, calls made; an answer's class was unknown
          again, lost \* history: ids answered while they were out; ids whose release or answer was dropped
hostvars == <<boot, pins, free, announced, installed, proxies, reap, calls, dispatch, serving, made, issued, undeclared,
              again, lost>>
worker == <<pins, free, announced, serving, made, again>>
parent == <<installed, proxies, reap, calls, issued, undeclared, lost>>

Root == 1
Chan == 100
HostLanes == 1..HLanes
NoProxy == [id |-> 0, obj |-> 0]
NoReply == [kind |-> "none", id |-> 0, obj |-> 0]
Idle == [pc |-> "idle", n |-> 0, via |-> 0, arg |-> 0, releases |-> <<>>, reply |-> NoReply]
ClassOf(o) == IF o = Root THEN "Root" ELSE IF o = 2 THEN "K" ELSE "L"
NoBoot == [parent |-> "none", worker |-> "none", args |-> 0, sent |-> 0, got |-> 0, root |-> 0]
HostInit ==
    /\ boot = NoBoot /\ pins = <<>> /\ free = <<>> /\ announced = {} /\ installed = {}
    /\ proxies = [p \in 0..MaxHostCalls |-> NoProxy] /\ reap = <<>>
    /\ calls = [t \in HTasks |-> Idle] /\ dispatch = <<>> /\ serving = [l \in HostLanes |-> Idle]
    /\ made = Root /\ issued = 0 /\ undeclared = FALSE /\ again = {} /\ lost = {}
----------------------------------------------------------------------------
(* The worker's table: an id is the index of its slot.                       *)
hosted_get(id) == IF id \in DOMAIN pins THEN pins[id] ELSE 0
pin_or_find(o) ==
    IF o \in Range(pins) THEN CHOOSE i \in DOMAIN pins : pins[i] = o
    ELSE IF free # <<>> THEN Last(free) ELSE Len(pins) + 1
hosted_insert_kept(o) ==
    LET i == pin_or_find(o)
    IN  pins' = (IF i \in DOMAIN pins THEN [pins EXCEPT ![i] = o] ELSE Append(pins, o)) /\ free' = free
hosted_insert(o) ==
    LET i == pin_or_find(o)
    IN  /\ pins' = IF i \in DOMAIN pins THEN [pins EXCEPT ![i] = o] ELSE Append(pins, o)
        /\ free' = IF o \in Range(pins) \/ free = <<>> THEN free ELSE Front(free)
hosted_release(ids) ==
    LET held == SelectSeq(ids, LAMBDA i : hosted_get(i) # 0)
    IN  [pins |-> [i \in DOMAIN pins |-> IF i \in Range(held) THEN 0 ELSE pins[i]],
         free |-> free \o held]
----------------------------------------------------------------------------
(* Boot: the arguments cross one by one; a refused one closes the inbox.    *)
host_block(n) ==
    /\ boot.parent = "none"
    /\ boot' = [NoBoot EXCEPT !.parent = "sending", !.worker = "args", !.args = n]
    /\ UNCHANGED <<worker, parent, dispatch>>
SendArg ==
    /\ boot.parent = "sending" /\ boot.sent < boot.args
    /\ \/ boot' = [boot EXCEPT !.sent = @ + 1]
       \/ boot' = [boot EXCEPT !.parent = "failed"]
    /\ UNCHANGED <<worker, parent, dispatch>>
SentAll ==
    /\ boot.parent = "sending" /\ boot.sent = boot.args
    /\ boot' = [boot EXCEPT !.parent = "waiting"] /\ UNCHANGED <<worker, parent, dispatch>>
ReceiveArg ==
    /\ boot.worker = "args" /\ boot.got < boot.args
    /\ \/ boot.got < boot.sent /\ boot' = [boot EXCEPT !.got = @ + 1]
       \/ boot.got = boot.sent /\ boot.parent = "failed" /\ boot' = [boot EXCEPT !.worker = "failed"]
    /\ UNCHANGED <<worker, parent, dispatch>>
ArgsIn_lax == TRUE
ArgsIn == boot.got = boot.args
\* The block's answer is hosted and announced; anything but an object fails.
\* A block that ships a channel has filled a slot before.
announce_root ==
    /\ announced' = {ClassOf(Root)}
    /\ hosted_insert(Root) \/ (pins' = <<Chan, Root>> /\ free' = free)
    /\ boot' = [boot EXCEPT !.worker = "up", !.root = Len(pins')]
hostBlockRoot ==
    /\ boot.worker = "args" /\ ArgsIn
    /\ \/ announce_root
       \/ boot' = [boot EXCEPT !.worker = "failed"] /\ UNCHANGED <<pins, free, announced>>
    /\ UNCHANGED <<serving, made, again, parent, dispatch>>
finish_host ==
    /\ boot' = [NoBoot EXCEPT !.parent = "up", !.worker = "up", !.root = boot.root]
    /\ installed' = {ClassOf(Root)}
    /\ proxies' = [proxies EXCEPT ![0] = [id |-> 1, obj |-> Root]]
    /\ UNCHANGED <<reap, calls, issued, undeclared, lost>>
await_ready_manifest ==
    /\ boot.parent = "waiting" /\ boot.worker \in {"up", "failed"}
    /\ IF boot.worker = "failed" THEN boot' = [boot EXCEPT !.parent = "failed"] /\ UNCHANGED parent
       ELSE finish_host
    /\ UNCHANGED <<worker, dispatch>>
----------------------------------------------------------------------------
(* A call: the releases are drained into the frame before the claim.        *)
Live == {p \in DOMAIN proxies : proxies[p] # NoProxy}
hosted_call(t, p, a) ==
    [Idle EXCEPT !.pc = "claiming", !.n = issued + 1, !.via = p, !.arg = a, !.releases = reap]
service_call(t, p, a) ==
    /\ boot.parent = "up" /\ calls[t].pc = "idle" /\ p \in Live /\ a \in Live /\ issued < MaxHostCalls
    /\ calls' = [calls EXCEPT ![t] = hosted_call(t, p, a)]
    /\ reap' = <<>> /\ issued' = issued + 1
    /\ UNCHANGED <<boot, worker, installed, proxies, undeclared, lost, dispatch>>
Sent == {t \in HTasks : calls[t].pc = "sent"}
claim_object(t) ==
    /\ calls[t].pc = "claiming" /\ Cardinality(Sent) < HLanes
    /\ \A u \in Sent : proxies[calls[u].via].id # proxies[calls[t].via].id
    /\ calls' = [calls EXCEPT ![t].pc = "sent", ![t].releases = <<>>]
    /\ dispatch' = Append(dispatch, [t |-> t, n |-> calls[t].n, to |-> proxies[calls[t].via], releases |-> calls[t].releases,
                                     arg |-> proxies[calls[t].arg]])
    /\ UNCHANGED <<boot, worker, installed, proxies, reap, issued, undeclared, lost>>
\* A cancelled caller leaves; what it drained, or what it is sent, is dropped.
CancelCaller(t) ==
    /\ calls[t].pc # "idle"
    /\ calls' = [calls EXCEPT ![t] = Idle]
    /\ lost' = lost \cup Range(calls[t].releases) \cup {calls[t].reply.id}
    /\ UNCHANGED <<boot, worker, installed, proxies, reap, issued, undeclared, dispatch>>
Answered(t, n, r) ==
    IF calls[t].pc = "sent" /\ calls[t].n = n
    THEN calls' = [calls EXCEPT ![t].reply = r] /\ lost' = lost
    ELSE calls' = calls /\ lost' = lost \cup {r.id}
\* A lane takes a request, applies its releases, and finds receiver and argument.
Receive(l, req, after) ==
    /\ pins' = after.pins /\ free' = after.free
    /\ IF after.pins[req.to.id] # 0 /\ after.pins[req.arg.id] # 0
       THEN serving' = [serving EXCEPT ![l] = [Idle EXCEPT !.pc = "serving", !.n = req.n, !.via = req.t]]
            /\ UNCHANGED <<calls, lost>>
       ELSE serving' = serving /\ Answered(req.t, req.n, [NoReply EXCEPT !.kind = "error"])
hostServeLane(l) ==
    /\ boot.worker = "up" /\ serving[l].pc = "idle" /\ dispatch # <<>>
    /\ dispatch' = Tail(dispatch) /\ Receive(l, Head(dispatch), hosted_release(Head(dispatch).releases))
    /\ UNCHANGED <<boot, announced, made, again, installed, proxies, reap, issued, undeclared>>
Ends(l, r) == serving' = [serving EXCEPT ![l] = Idle] /\ Answered(serving[l].via, serving[l].n, r)
AnswerData(l) ==
    /\ serving[l].pc = "serving"
    /\ \E k \in {"data", "error"} : Ends(l, [NoReply EXCEPT !.kind = k])
    /\ UNCHANGED <<boot, pins, free, announced, made, again, installed, proxies, reap, issued, undeclared, dispatch>>
AnswerFor(o) ==
    [kind |-> IF ClassOf(o) \in announced THEN "resource" ELSE "decl", id |-> pin_or_find(o), obj |-> o]
AnswerObject(l, o) ==
    /\ serving[l].pc = "serving"
    /\ Ends(l, AnswerFor(o)) /\ hosted_insert(o) /\ announced' = announced \cup {ClassOf(o)}
    /\ UNCHANGED <<boot, installed, proxies, reap, issued, undeclared, dispatch>>
AnswerFresh(l) == made' = made + 1 /\ AnswerObject(l, made + 1) /\ UNCHANGED again
AnswerAgain(l) ==
    /\ made' = made
    /\ \E o \in 1..made : AnswerObject(l, o) /\ again' = again \cup {i \in DOMAIN pins : pins[i] = o}
----------------------------------------------------------------------------
(* The parent reads the terminal: an object becomes a proxy of its class.   *)
sub_proxy(t) == [proxies EXCEPT ![calls[t].n] = [id |-> calls[t].reply.id, obj |-> calls[t].reply.obj]]
installed_service_class(o) == installed \cup {ClassOf(o)}
lookup_service_class(o) == ClassOf(o) \in installed
interpret_terminal(t) ==
    LET r == calls[t].reply
    IN  /\ calls[t].pc = "sent" /\ r.kind # "none"
        /\ calls' = [calls EXCEPT ![t] = Idle]
        /\ installed' = IF r.kind = "decl" THEN installed_service_class(r.obj) ELSE installed
        /\ proxies' = IF r.kind = "decl" \/ (r.kind = "resource" /\ lookup_service_class(r.obj)) THEN sub_proxy(t) ELSE proxies
        /\ IF r.kind = "resource" /\ ~lookup_service_class(r.obj)
           THEN undeclared' = TRUE /\ lost' = lost \cup {r.id}
           ELSE UNCHANGED <<undeclared, lost>>
        /\ UNCHANGED <<boot, worker, reap, issued, dispatch>>
\* The collector drops a proxy nobody holds.
DropProxy(p) ==
    /\ p \in Live /\ \A t \in HTasks : calls[t].pc = "idle" \/ p \notin {calls[t].via, calls[t].arg}
    /\ proxies' = [proxies EXCEPT ![p] = NoProxy] /\ reap' = Append(reap, proxies[p].id)
    /\ UNCHANGED <<boot, worker, installed, calls, issued, undeclared, lost, dispatch>>
Boot == (\E n \in 0..2 : host_block(n)) \/ SendArg \/ SentAll \/ ReceiveArg \/ hostBlockRoot \/ await_ready_manifest
HostNext ==
    \/ Boot
    \/ \E t \in HTasks : claim_object(t) \/ CancelCaller(t) \/ interpret_terminal(t)
                         \/ \E p, a \in DOMAIN proxies : service_call(t, p, a)
    \/ \E l \in HostLanes : hostServeLane(l) \/ AnswerData(l) \/ AnswerFresh(l) \/ AnswerAgain(l)
    \/ \E p \in DOMAIN proxies : DropProxy(p)
HostSpec == HostInit /\ [][HostNext]_hostvars
----------------------------------------------------------------------------
(* A proxy reaches the object it was minted for as long as it lives: no     *)
(* release of a dropped proxy takes it away, no reused slot replaces it     *)
(* (worker.rs dispatch_hosted, hosted_release).  The root's proxy does not  *)
(* when its block shipped a channel: the parent takes its id to be 1.       *)
ShippedFirst == boot.root > 1
ProxyNamesItsObject == ShippedFirst \/ \A p \in Live : hosted_get(proxies[p].id) = proxies[p].obj
(* The same for every id that had one proxy at a time: an object answered   *)
(* again while it is out shares its id between two.                         *)
OwnIdNamesItsObject ==
    ShippedFirst \/ \A p \in Live : proxies[p].id \in again \/ hosted_get(proxies[p].id) = proxies[p].obj
(* An object the worker keeps is named by a proxy, an answer under way or a *)
(* release under way (the reap list, worker_service.rs service_call): it is *)
(* given back in the end.  Not so the root of ShippedFirst, an id with two  *)
(* proxies, one a cancelled caller had drained or been answered, and one    *)
(* refused because its class was unknown.                                   *)
Released == Range(reap) \cup UNION {Range(calls[t].releases) : t \in HTasks}
                \cup UNION {Range(dispatch[i].releases) : i \in DOMAIN dispatch}
HostedIsHeld ==
    boot.parent = "up" /\ ~ShippedFirst =>
        \A i \in DOMAIN pins \ (again \cup lost) : pins[i] # 0 =>
            \/ \E p \in Live : proxies[p].id = i
            \/ \E t \in HTasks : calls[t].reply.id = i
            \/ i \in Released
(* Whatever order the lanes' answers are read in, the class an answer names *)
(* has been declared before (dispatch_hosted: the first sighting carries    *)
(* the manifest, later returns only the name).                              *)
ReturnedClassKnown == ~undeclared
(* When the parent gave up on a host form, over a refused argument or a     *)
(* failed block, no worker came up that nobody holds (host_block).          *)
FailedHostIsDown == boot.parent = "failed" => boot.worker # "up"
=============================================================================
