--------------------------- MODULE WorkerProcess ---------------------------
(***************************************************************************)
(* One worker isolate from its spawn to its reaping (worker_spawn.rs,      *)
(* runtime/worker.rs).                                                     *)
(*                                                                         *)
(* A process-backed worker is started by a helper thread while the         *)
(* spawning task parks; the task may be cancelled at any moment of that.   *)
(* Afterwards four threads carry the mailbox: in the child the forwarder   *)
(* moves the body's sends into the funnel, where the body's own result     *)
(* follows them, and the writer drains the funnel into the socket; in the  *)
(* parent the reader moves frames into the lane the handle receives from.  *)
(* A thread-backed worker has none of this: its sends go to the lane       *)
(* directly.  Each action is what one thread does between two of its       *)
(* blocking calls.                                                         *)
(***************************************************************************)
EXTENDS Naturals, Sequences

CONSTANT MaxSends    \* bound: messages the body sends

VARIABLES backing,   \* "thread" or "process"
          helper,    \* the spawn thread: where it is
          grip,      \* is the child published to the cancel guard
          child,     \* the worker, and afterwards its process entry
          awaiter,   \* the spawning task
          outcome,   \* the slot the helper fills: "empty", "ok", "err", "accept"
          signalled, \* the helper's signal was accepted by the channel
          body,      \* "before", "running", "ended", "closed"
          sent,      \* messages the body has sent
          outbox,    \* sent, not yet forwarded
          funnel,    \* forwarded, not yet written
          wire,      \* written, not yet read by the parent
          lane,      \* what the parent's handle can receive, in order
          done,      \* the result join waits for: "none", "ok", "failed", "died"
          life       \* the LifeSink's status

mail == <<sent, outbox, funnel, wire, lane>>
wpVars == <<backing, helper, grip, child, awaiter, outcome, signalled,
            body, mail, done, life>>

Alive == {"booting", "connected", "serving"}
Ends  == {"ok", "failed"}
Refusals == {"err", "accept"}   \* the spawn failed; "accept": in accept() itself

(* A mailbox frame: a send, a result or the close sentinel.                 *)
SendFrame(n)  == <<"send", n>>
PlainFrame(k) == <<k, 0>>
Frames == {SendFrame(n) : n \in 1..MaxSends} \cup {PlainFrame(k) : k \in Ends \cup {"close"}}

WpTypeOK ==
    /\ backing \in {"thread", "process"}
    /\ helper \in {"exec", "accept", "handshake", "report", "over"}
    /\ grip \in BOOLEAN /\ signalled \in BOOLEAN
    /\ child \in Alive \cup {"none", "zombie", "reaped"}
    /\ awaiter \in {"parked", "cancelled", "refused", "has", "dropped"}
    /\ outcome \in {"empty", "ok"} \cup Refusals
    /\ body \in {"before", "running", "ended", "closed"}
    /\ sent \in 0..MaxSends
    /\ outbox \in Seq(1..MaxSends) /\ lane \in Seq(1..MaxSends)
    /\ funnel \in Seq(Frames) /\ wire \in Seq(Frames)
    /\ done \in Ends \cup {"none", "died"}
    /\ life \in {"Running", "Stopped", "Died"}

(* spawn_worker_process_bg for a process, spawn_worker_with for a thread.   *)
WpInit ==
    /\ backing \in {"thread", "process"}
    /\ helper = IF backing = "process" THEN "exec" ELSE "over"
    /\ child = IF backing = "process" THEN "none" ELSE "serving"
    /\ awaiter = IF backing = "process" THEN "parked" ELSE "has"
    /\ body = IF backing = "process" THEN "before" ELSE "running"
    /\ outcome = "empty" /\ grip = FALSE /\ signalled = FALSE
    /\ sent = 0 /\ outbox = <<>> /\ funnel = <<>> /\ wire = <<>> /\ lane = <<>>
    /\ done = "none" /\ life = "Running"

-----------------------------------------------------------------------------
(* The spawn.                                                               *)

Killed(c) == IF c \in Alive THEN "zombie" ELSE c
Reaped(c) == IF c = "none" THEN c ELSE "reaped"     \* kill, then wait

(* Mutant: a spawn that gives up leaves its child alone.                    *)
GiveUpLeaving(c) == c
(* The error exits kill and reap what the spawn built so far.               *)
GiveUp(c) == Reaped(c)

SpawnFails(c) ==
    /\ outcome' = "err" /\ helper' = "report" /\ child' = c

(* bind, current_exe, Command::spawn; the grip is published before any wait *)
Exec ==
    /\ helper = "exec"
    /\ \/ child' = "booting" /\ grip' = TRUE /\ helper' = "accept" /\ UNCHANGED outcome
       \/ SpawnFails(child) /\ UNCHANGED grip
    /\ UNCHANGED <<backing, awaiter, signalled, body, mail, done, life>>

(* The child connects its lanes, the mailbox and the channel relay.         *)
ChildConnects ==
    /\ child = "booting" /\ helper = "accept"
    /\ child' = "connected"
    /\ UNCHANGED <<backing, helper, grip, awaiter, outcome, signalled, body, mail, done, life>>

(* accept_one: all sockets are in; the child exited before connecting; the  *)
(* deadline passed; accept itself failed, which leaves the child alone.     *)
Accept ==
    /\ helper = "accept"
    /\ \/ child = "connected" /\ helper' = "handshake" /\ UNCHANGED <<child, outcome>>
       \/ child = "zombie" /\ SpawnFails("reaped")
       \/ child = "booting" /\ SpawnFails(GiveUp(child))
       \/ outcome' = "accept" /\ helper' = "report" /\ UNCHANGED child
    /\ UNCHANGED <<backing, grip, awaiter, signalled, body, mail, done, life>>

(* GetManifest/ManifestReturn, the version gate and the payload's           *)
(* acknowledgement; any failure, the read timeout included, goes to `fail`. *)
Handshake ==
    /\ helper = "handshake"
    /\ \/ /\ child = "connected"
          /\ child' = "serving" /\ body' = "running"
          /\ outcome' = "ok" /\ helper' = "report"
       \/ SpawnFails(GiveUp(child)) /\ UNCHANGED body
    /\ UNCHANGED <<backing, grip, awaiter, signalled, mail, done, life>>

(* The helper signals the awaiting task.  When the task is gone the signal  *)
(* is refused, and the helper kills and reaps what it built.                *)
Report ==
    /\ helper = "report"
    /\ helper' = "over"
    /\ IF awaiter = "cancelled"
       THEN /\ child' = IF outcome = "ok" THEN Reaped(child) ELSE child
            /\ UNCHANGED signalled
       ELSE signalled' = TRUE /\ UNCHANGED child
    /\ UNCHANGED <<backing, grip, awaiter, outcome, body, mail, done, life>>

(* await_process_spawn resumes and takes the outcome.  A spawn argument     *)
(* that cannot cross (spawn_arg) drops the channels of the fresh worker.    *)
SpawnerResumes ==
    /\ awaiter = "parked" /\ signalled
    /\ \/ outcome \in Refusals /\ awaiter' = "refused"
       \/ outcome = "ok" /\ awaiter' \in {"has", "dropped"}
    /\ UNCHANGED <<backing, helper, grip, child, outcome, signalled, body, mail, done, life>>

(* The parked task is cancelled: the dropped future kills through the grip  *)
(* if it was published, unless it had received the signal and is disarmed.  *)
SpawnerCancelled ==
    /\ awaiter = "parked"
    /\ awaiter' = "cancelled"
    /\ child' \in {IF grip THEN Killed(child) ELSE child} \cup {c \in {child} : signalled}
    /\ UNCHANGED <<backing, helper, grip, outcome, signalled, body, mail, done, life>>

-----------------------------------------------------------------------------
(* The worker side.                                                         *)

(* The isolate vanishes: a crash or a kill from outside.                    *)
ChildDies ==
    /\ backing = "process" /\ child \in Alive
    /\ child' = "zombie"
    /\ UNCHANGED <<backing, helper, grip, awaiter, outcome, signalled, body, mail, done, life>>

(* Nobody holds the parent's end of the mailbox any more: the child's       *)
(* reader sees the end of the stream and exits the process.                 *)
ParentEndClosed == awaiter \in {"cancelled", "dropped"} /\ helper = "over"

MailboxEof ==
    /\ backing = "process" /\ child = "serving" /\ ParentEndClosed
    /\ child' = "zombie"
    /\ UNCHANGED <<backing, helper, grip, awaiter, outcome, signalled, body, mail, done, life>>

(* Worker.send: inside the worker.                                          *)
BodySends ==
    /\ child = "serving" /\ body = "running" /\ sent < MaxSends
    /\ sent' = sent + 1
    /\ IF backing = "thread"
       THEN lane' = Append(lane, sent + 1) /\ UNCHANGED outbox
       ELSE outbox' = Append(outbox, sent + 1) /\ UNCHANGED lane
    /\ UNCHANGED <<backing, helper, grip, child, awaiter, outcome, signalled,
                   body, funnel, wire, done, life>>

(* Mutant: the forwarder takes the newest message.                          *)
ForwardNewest ==
    /\ funnel' = Append(funnel, SendFrame(outbox[Len(outbox)]))
    /\ outbox' = SubSeq(outbox, 1, Len(outbox) - 1)
ForwardOldest == funnel' = Append(funnel, SendFrame(Head(outbox))) /\ outbox' = Tail(outbox)

Forward ==
    /\ child = "serving" /\ outbox # <<>>
    /\ ForwardOldest
    /\ UNCHANGED <<backing, helper, grip, child, awaiter, outcome, signalled,
                   body, sent, wire, lane, done, life>>

(* The body returns or fails (a panic counts as a failure in the child):    *)
(* the result goes into the funnel, then the close sentinel.                *)
BodyEnds ==
    /\ backing = "process" /\ child = "serving" /\ body = "running"
    /\ body' = "ended"
    /\ \E e \in Ends : funnel' = Append(funnel, PlainFrame(e))
    /\ UNCHANGED <<backing, helper, grip, child, awaiter, outcome, signalled,
                   sent, outbox, wire, lane, done, life>>

CloseFunnel ==
    /\ child = "serving" /\ body = "ended"
    /\ body' = "closed"
    /\ funnel' = Append(funnel, PlainFrame("close"))
    /\ UNCHANGED <<backing, helper, grip, child, awaiter, outcome, signalled,
                   sent, outbox, wire, lane, done, life>>

(* The writer; at the sentinel it stops, the main thread joins it and the   *)
(* process exits with whatever is still queued.                             *)
Write ==
    /\ child = "serving" /\ funnel # <<>>
    /\ funnel' = Tail(funnel)
    /\ IF Head(funnel)[1] = "close"
       THEN child' = "zombie" /\ UNCHANGED wire
       ELSE wire' = Append(wire, Head(funnel)) /\ UNCHANGED child
    /\ UNCHANGED <<backing, helper, grip, awaiter, outcome, signalled,
                   body, sent, outbox, lane, done, life>>

(* A thread's body ends; a panic is a death.  The record is emitted before  *)
(* the result is sent.                                                      *)
ThreadEnds ==
    /\ backing = "thread" /\ body = "running"
    /\ body' = "closed"
    /\ \E e \in Ends \cup {"died"} :
          /\ life' = IF life # "Running" THEN life
                     ELSE IF e = "died" THEN "Died" ELSE "Stopped"
          /\ done' = e
    /\ child' = "reaped"
    /\ UNCHANGED <<backing, helper, grip, awaiter, outcome, signalled, mail>>

-----------------------------------------------------------------------------
(* The parent side.                                                         *)

PumpsRun == outcome = "ok"

(* Mutant: the result is handed to join before the terminal is recorded.    *)
EmitAfter(e) == done' = e /\ UNCHANGED life
(* emit_stopped, then the result.                                           *)
Terminal(e) ==
    /\ life' = IF life # "Running" THEN life
               ELSE IF e = "died" THEN "Died" ELSE "Stopped"
    /\ done' = IF done = "none" THEN e ELSE done

(* The mailbox reader: a send goes to the lane, a result to join.           *)
ReadFrame ==
    /\ PumpsRun /\ wire # <<>>
    /\ wire' = Tail(wire)
    /\ IF Head(wire)[1] \in Ends
       THEN Terminal(Head(wire)[1]) /\ UNCHANGED lane
       ELSE lane' = Append(lane, Head(wire)[2]) /\ UNCHANGED <<done, life>>
    /\ UNCHANGED <<backing, helper, grip, child, awaiter, outcome, signalled,
                   body, sent, outbox, funnel>>

ReadEofReaping ==
    /\ PumpsRun /\ backing = "process" /\ wire = <<>> /\ child = "zombie" /\ child' = "reaped"
    /\ UNCHANGED <<backing, helper, grip, awaiter, outcome, signalled, body, mail, done, life>>
(* The end of the stream: without a result it is a death; then the reader   *)
(* reaps the child.                                                         *)
ReadEof ==
    /\ PumpsRun /\ backing = "process" /\ wire = <<>>
    /\ child = "zombie" \/ (child = "reaped" /\ done = "none")
    /\ IF done = "none" THEN Terminal("died") ELSE UNCHANGED <<done, life>>
    /\ child' = "reaped"
    /\ UNCHANGED <<backing, helper, grip, awaiter, outcome, signalled, body, mail>>

(* terminate: the stop is recorded first, then the child is killed.         *)
Terminate ==
    /\ backing = "process" /\ awaiter = "has" /\ life = "Running"
    /\ life' = "Stopped"
    /\ child' = Killed(child)
    /\ UNCHANGED <<backing, helper, grip, awaiter, outcome, signalled, body, mail, done>>

(* Everything is over.                                                      *)
WpOver ==
    /\ helper = "over" /\ (child \in {"none", "reaped"} \/ outcome = "accept") /\ awaiter # "parked"
    /\ UNCHANGED wpVars

Threads ==
    \/ Exec \/ ChildConnects \/ Accept \/ Handshake \/ Report
    \/ SpawnerResumes \/ MailboxEof \/ Forward \/ CloseFunnel \/ Write
    \/ ReadFrame \/ ReadEof

WpNext ==
    \/ Threads
    \/ SpawnerCancelled \/ ChildDies \/ BodySends \/ BodyEnds \/ ThreadEnds
    \/ Terminate \/ WpOver

(* A thread that can go on does; the body, the faults and the user need not.*)
WpSpec == WpInit /\ [][WpNext]_wpVars /\ WF_wpVars(Threads)

-----------------------------------------------------------------------------
(* A child whose spawn was given up (the task was cancelled, the spawn      *)
(* failed, an argument could not cross) does not run on: whatever the race  *)
(* between the cancel guard, the accept deadline and the helper's refused   *)
(* signal, it is gone in the end, and its process entry with it.  The one   *)
(* exception is a spawn whose accept failed.                                *)
AbandonedChildReaped ==
    awaiter \in {"cancelled", "refused", "dropped"} ~> child \in {"none", "reaped"} \/ outcome = "accept"

(* Whoever learns the worker's result through join finds its terminal       *)
(* recorded: the status never still says Running once done is known.        *)
JoinSeesTerminal == done # "none" => life # "Running"

(* The parent receives a prefix of what the body sent, in its order,        *)
(* through the outbox, the funnel and the socket.                           *)
MailInOrder == \A i \in 1..Len(lane) : lane[i] = i

(* A worker that vanished without a result is still reported to join.       *)
JoinEnds == child = "zombie" /\ outcome = "ok" ~> done # "none"

(* The funnel's promise, which the code does not keep: once the parent has  *)
(* a result the body reported, everything the body had sent has already     *)
(* been delivered.  The body's result enters the funnel without waiting for *)
(* the forwarder, so it may overtake a send; no run checks this.            *)
DoneFollowsSends ==
    [][done = "none" /\ done' \in Ends /\ backing = "process" => lane' = [i \in 1..sent |-> i]]_wpVars
=============================================================================
