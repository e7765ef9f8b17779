--------------------------- MODULE ExtensionProofs ---------------------------
(* Proofs about Extension: the sockets of the bound child and the           *)
(* conversations that have one pinned, through deaths, restarts and         *)
(* rebinds, for any number of tasks and children.                           *)
EXTENDS Extension, TLAPS, FiniteSetTheorems, WellFoundedInduction, SequenceTheorems

(* The tasks are finitely many.                                             *)
ExtBounds == IsFiniteSet(ExtTasks)

-----------------------------------------------------------------------------
(* The inductive invariant, about the handle only: whatever else a step     *)
(* does, the handle changes by a pin, an unpin, a flag or a rebind.         *)

Conv   == [sock : Nat \X Nat, depth : Nat]
Handle == [child : Nat, dead : BOOLEAN, gaveUp : BOOLEAN, free : SUBSET (Nat \X Nat),
           convs : [ExtTasks -> Conv]]

PinnedTasks(e) == {t \in ExtTasks : e.convs[t].depth > 0}

(* Each task inside a conversation has a socket of the bound child that is  *)
(* not free, no two the same one, and every socket is free or pinned.       *)
HandleOK(e) ==
    /\ e \in Handle
    /\ e.free \subseteq Sockets(e.child)
    /\ \A t \in PinnedTasks(e) : e.convs[t].sock \in Sockets(e.child) \ e.free
    /\ \A t, u \in PinnedTasks(e) : e.convs[t].sock = e.convs[u].sock => t = u
    /\ \A s \in Sockets(e.child) \ e.free : \E t \in PinnedTasks(e) : e.convs[t].sock = s

-----------------------------------------------------------------------------
(* A fresh handle.                                                          *)
LEMMA BoundOK ==
  ASSUME NEW c \in Nat, ext.gaveUp \in BOOLEAN PROVE HandleOK(Bound(c))
<1>1. Sockets(c) \subseteq Nat \X Nat BY DEF Sockets, ExtLanes
<1>2. Bound(c) \in Handle BY <1>1 DEF Bound, Handle, Conv, NoConv
<1>3. PinnedTasks(Bound(c)) = {} BY DEF PinnedTasks, Bound, NoConv
<1> QED BY <1>2, <1>3 DEF HandleOK, Bound

(* A flag of the handle.                                                    *)
LEMMA FlagOK ==
  ASSUME NEW e, HandleOK(e), NEW d \in Handle, d.child = e.child, d.free = e.free,
         d.convs = e.convs
  PROVE  HandleOK(d)
BY DEF HandleOK, PinnedTasks

(* One more level; the first takes a socket.                                *)
LEMMA PinnedOK ==
  ASSUME NEW e, HandleOK(e), NEW t \in ExtTasks, e.convs[t].depth > 0 \/ e.free # {}
  PROVE  HandleOK(Pinned(e, t))
<1> DEFINE p == Pinned(e, t)
<1> SUFFICES HandleOK(p) OBVIOUS
<1>1. e \in Handle BY DEF HandleOK
<1>2. CASE e.convs[t].depth > 0
  <2>1. p = [e EXCEPT !.convs[t].depth = @ + 1] BY <1>2 DEF Pinned
  <2>6. e.convs[t] \in Conv /\ e.convs \in [ExtTasks -> Conv] BY <1>1 DEF Handle
  <2>7. p.convs = [e.convs EXCEPT ![t].depth = e.convs[t].depth + 1] /\ e.convs[t].depth + 1 \in Nat
    BY <1>1, <1>2, <2>1, <2>6 DEF Handle, Conv
  <2>8. p.convs \in [ExtTasks -> Conv] BY <2>6, <2>7 DEF Conv
  <2>3. p.child = e.child /\ p.free = e.free /\ p = [e EXCEPT !.convs = p.convs]
    BY <1>1, <2>1 DEF Handle
  <2>2. p \in Handle BY <1>1, <2>3, <2>8 DEF Handle
  <2>4. \A u \in ExtTasks : /\ p.convs[u].sock = e.convs[u].sock
                            /\ p.convs[u].depth > 0 <=> e.convs[u].depth > 0
    BY <1>2, <2>6, <2>7 DEF Conv
  <2>5. PinnedTasks(p) = PinnedTasks(e) BY <2>4 DEF PinnedTasks
  <2>9. PinnedTasks(e) \subseteq ExtTasks BY DEF PinnedTasks
  <2> HIDE DEF p
  <2> QED BY <2>2, <2>3, <2>4, <2>5, <2>9 DEF HandleOK
<1>3. CASE ~(e.convs[t].depth > 0)
  <2> DEFINE s == CHOOSE x \in e.free : TRUE
  <2>0. e.free # {} BY <1>3
  <2>1. s \in e.free BY <2>0
  <2>2. p = [e EXCEPT !.free = @ \ {s}, !.convs[t] = [sock |-> s, depth |-> 1]]
    BY <1>3 DEF Pinned
  <2> HIDE DEF s
  <2>3. s \in Nat \X Nat BY <1>1, <2>1 DEF Handle
  <2>13. [sock |-> s, depth |-> 1] \in Conv BY <2>3 DEF Conv
  <2>14. e.convs \in [ExtTasks -> Conv] /\ e.free \ {s} \in SUBSET (Nat \X Nat)
    BY <1>1 DEF Handle
  <2> DEFINE k == [e.convs EXCEPT ![t] = [sock |-> s, depth |-> 1]]
             fr == e.free \ {s}
  <2>16. k \in [ExtTasks -> Conv] BY <2>13, <2>14
  <2>17. p = [e EXCEPT !.free = fr, !.convs = k] BY <2>2
  <2>4. p \in Handle
    <3> HIDE DEF k, p, fr
    <3>1. fr \in SUBSET (Nat \X Nat) BY <2>14 DEF fr
    <3> QED BY <1>1, <2>16, <2>17, <3>1 DEF Handle
  <2>5. p.child = e.child /\ p.free = e.free \ {s} BY <1>1, <2>2 DEF Handle
  <2>6. /\ p.convs[t].sock = s /\ p.convs[t].depth = 1
        /\ \A u \in ExtTasks \ {t} : p.convs[u] = e.convs[u]
    BY <1>1, <2>2 DEF Handle
  <2>7. PinnedTasks(p) = PinnedTasks(e) \cup {t} BY <2>6 DEF PinnedTasks
  <2>8. t \notin PinnedTasks(e) BY <1>3 DEF PinnedTasks
  <2>9. PinnedTasks(e) \subseteq ExtTasks BY DEF PinnedTasks
  <2> HIDE DEF p
  <2>10. ASSUME NEW u \in PinnedTasks(p) PROVE p.convs[u].sock \in Sockets(p.child) \ p.free
    BY <2>1, <2>5, <2>6, <2>7, <2>8, <2>9, <2>10 DEF HandleOK
  <2>11. ASSUME NEW u \in PinnedTasks(p), NEW v \in PinnedTasks(p),
                p.convs[u].sock = p.convs[v].sock
         PROVE  u = v
    BY <2>1, <2>6, <2>7, <2>8, <2>9, <2>11 DEF HandleOK
  <2>12. ASSUME NEW x \in Sockets(p.child) \ p.free
         PROVE  \E u \in PinnedTasks(p) : p.convs[u].sock = x
    <3>1. CASE x = s BY <3>1, <2>6, <2>7
    <3>2. CASE x # s
      <4>1. PICK u \in PinnedTasks(e) : e.convs[u].sock = x BY <3>2, <2>5, <2>12 DEF HandleOK
      <4> QED BY <4>1, <2>6, <2>7, <2>8, <2>9
    <3> QED BY <3>1, <3>2
  <2>15. p.free \subseteq Sockets(p.child) BY <2>5 DEF HandleOK
  <2> QED BY <2>4, <2>15, <2>10, <2>11, <2>12 DEF HandleOK
<1> QED BY <1>2, <1>3

(* One level less; the last gives the socket back.                          *)
LEMMA UnpinnedOK ==
  ASSUME NEW e, HandleOK(e), NEW t \in ExtTasks
  PROVE  HandleOK(Unpinned(e, t))
<1> DEFINE p == Unpinned(e, t)
<1> SUFFICES HandleOK(p) OBVIOUS
<1>1. e \in Handle BY DEF HandleOK
<1>2. CASE e.convs[t].depth = 1
  <2> DEFINE s == e.convs[t].sock
  <2>1. p = [e EXCEPT !.free = @ \cup {s}, !.convs[t] = NoConv] BY <1>2 DEF Unpinned
  <2>2. t \in PinnedTasks(e) BY <1>2 DEF PinnedTasks
  <2>3. s \in Sockets(e.child) \ e.free /\ s \in Nat \X Nat BY <2>2, <1>1 DEF HandleOK, Handle, Conv
  <2> HIDE DEF s
  <2>14. NoConv \in Conv BY DEF Conv, NoConv
  <2>15. e.convs \in [ExtTasks -> Conv] /\ e.free \cup {s} \in SUBSET (Nat \X Nat)
    BY <1>1, <2>3 DEF Handle
  <2> DEFINE k == [e.convs EXCEPT ![t] = NoConv]
             fr == e.free \cup {s}
  <2>16. k \in [ExtTasks -> Conv] BY <2>14, <2>15
  <2>17. p = [e EXCEPT !.free = fr, !.convs = k] BY <2>1
  <2>4. p \in Handle
    <3> HIDE DEF k, p, fr
    <3>1. fr \in SUBSET (Nat \X Nat) BY <2>15 DEF fr
    <3> QED BY <1>1, <2>16, <2>17, <3>1 DEF Handle
  <2>5. p.child = e.child /\ p.free = e.free \cup {s} BY <1>1, <2>1 DEF Handle
  <2>6. p.convs[t].depth = 0 /\ \A u \in ExtTasks \ {t} : p.convs[u] = e.convs[u]
    BY <1>1, <2>1 DEF Handle, NoConv
  <2>7. PinnedTasks(p) = PinnedTasks(e) \ {t} BY <2>6 DEF PinnedTasks
  <2>9. PinnedTasks(e) \subseteq ExtTasks BY DEF PinnedTasks
  <2> HIDE DEF p
  <2>10. ASSUME NEW u \in PinnedTasks(p) PROVE p.convs[u].sock \in Sockets(p.child) \ p.free
    <3>1. u \in PinnedTasks(e) /\ u # t /\ p.convs[u] = e.convs[u] BY <2>6, <2>7, <2>9
    <3>2. e.convs[u].sock # s BY <3>1, <2>2 DEF HandleOK, s
    <3> QED BY <3>1, <3>2, <2>5 DEF HandleOK
  <2>11. ASSUME NEW u \in PinnedTasks(p), NEW v \in PinnedTasks(p),
                p.convs[u].sock = p.convs[v].sock
         PROVE  u = v
    BY <2>6, <2>7, <2>9, <2>11 DEF HandleOK
  <2>12. ASSUME NEW x \in Sockets(p.child) \ p.free
         PROVE  \E u \in PinnedTasks(p) : p.convs[u].sock = x
    <3>1. PICK u \in PinnedTasks(e) : e.convs[u].sock = x BY <2>5, <2>12 DEF HandleOK
    <3>2. u # t BY <3>1, <2>5, <2>12 DEF s
    <3> QED BY <3>1, <3>2, <2>6, <2>7, <2>9
  <2>13. p.free \subseteq Sockets(p.child) BY <2>3, <2>5 DEF HandleOK
  <2> QED BY <2>4, <2>13, <2>10, <2>11, <2>12 DEF HandleOK
<1>3. CASE e.convs[t].depth # 1
  <2>1. p = [e EXCEPT !.convs[t].depth = IF @ = 0 THEN 0 ELSE @ - 1] BY <1>3 DEF Unpinned
  <2>6. e.convs[t] \in Conv /\ e.convs \in [ExtTasks -> Conv] BY <1>1 DEF Handle
  <2> DEFINE n == IF e.convs[t].depth = 0 THEN 0 ELSE e.convs[t].depth - 1
  <2>7. p.convs = [e.convs EXCEPT ![t].depth = n] /\ n \in Nat
    <3>1. n \in Nat BY <2>6 DEF Conv
    <3>2. p = [e EXCEPT !.convs[t].depth = n] BY <2>1
    <3> HIDE DEF p, n
    <3> QED BY <1>1, <3>1, <3>2, <2>6 DEF Handle, Conv
  <2>8. p.convs \in [ExtTasks -> Conv] BY <2>6, <2>7 DEF Conv
  <2>3. p.child = e.child /\ p.free = e.free /\ p = [e EXCEPT !.convs = p.convs]
    BY <1>1, <2>1 DEF Handle
  <2>2. p \in Handle BY <1>1, <2>3, <2>8 DEF Handle
  <2>4. \A u \in ExtTasks : /\ p.convs[u].sock = e.convs[u].sock
                            /\ p.convs[u].depth > 0 <=> e.convs[u].depth > 0
    BY <1>3, <2>6, <2>7 DEF Conv
  <2>5. PinnedTasks(p) = PinnedTasks(e) BY <2>4 DEF PinnedTasks
  <2>9. PinnedTasks(e) \subseteq ExtTasks BY DEF PinnedTasks
  <2> HIDE DEF p
  <2> QED BY <2>2, <2>3, <2>4, <2>5, <2>9 DEF HandleOK
<1> QED BY <1>2, <1>3

-----------------------------------------------------------------------------
(* The sockets and the tasks that pin one are equally many.                 *)
LEMMA Matching ==
  ASSUME ExtBounds, HandleOK(ext) PROVE SocketsPartitioned
<1> DEFINE P == PinnedTasks(ext)
           used == {ext.convs[t].sock : t \in P}
           f == [t \in P |-> ext.convs[t].sock]
<1>1. IsFiniteSet(P) BY FS_Subset DEF PinnedTasks, ExtBounds
<1>2. f \in Bijection(P, used)
  <2>1. f \in Surjection(P, used) BY DEF Surjection
  <2>2. f \in Injection(P, used) BY DEF Injection, IsInjective, HandleOK
  <2> QED BY <2>1, <2>2 DEF Bijection
<1>3. Cardinality(used) = Cardinality(P) /\ IsFiniteSet(used)
  <2>1. ExistsBijection(P, used) BY <1>2 DEF ExistsBijection
  <2> HIDE DEF used, P
  <2> QED BY <1>1, <2>1, FS_Bijection
<1>4. ext.free \cup used = Sockets(ext.child) /\ ext.free \cap used = {}
  BY DEF HandleOK
<1> QED BY <1>3, <1>4 DEF SocketsPartitioned, PinnedTasks

-----------------------------------------------------------------------------
(* Every step leaves a handle of that shape.                                *)

(* Opening a call: a pin, undone at once on a handle known dead; nothing    *)
(* where the VM panics.                                                     *)
LEMMA OpenOK ==
  ASSUME HandleOK(ext), NEW t \in ExtTasks, NEW k, NEW cls, Open(t, k, cls)
  PROVE  HandleOK(ext')
<1>1. CASE ~SocketFree(t) BY <1>1 DEF Open
<1>2. CASE SocketFree(t)
  <2>1. HandleOK(Pinned(ext, t)) BY <1>2, PinnedOK DEF SocketFree
  <2>2. HandleOK(Unpinned(Pinned(ext, t), t)) BY <2>1, UnpinnedOK
  <2> QED BY <1>2, <2>1, <2>2 DEF Open
<1> QED BY <1>1, <1>2

(* Recording a death.                                                       *)
LEMMA NoteOK ==
  ASSUME NEW e, HandleOK(e), NoteDead(e) \/ NoteIfExited(e)
  PROVE  HandleOK(ext')
<1>1. ext' = e \/ ext' = [e EXCEPT !.dead = TRUE] BY DEF NoteDead, NoteIfExited
<1> DEFINE d == [e EXCEPT !.dead = TRUE]
<1>2. e \in Handle BY DEF HandleOK
<1>3. d \in Handle /\ d.child = e.child /\ d.free = e.free /\ d.convs = e.convs
  BY <1>2 DEF Handle
<1> HIDE DEF d
<1>4. HandleOK(d) BY <1>3, FlagOK
<1> QED BY <1>1, <1>4 DEF d

Less == {p \in Nat \X Nat : p[1] < p[2]}
(* The child a rebind starts is one that was never started.                 *)
LEMMA LeastUnborn ==
  ASSUME Unborn # {} PROVE Least(Unborn) \in Children /\ kid[Least(Unborn)] = "unborn"
<1>1. Unborn \subseteq Nat BY DEF Unborn, Children
<1>2. IsWellFoundedOn(Less, Nat) BY NatLessThanWellFounded DEF OpToRel, Less
<1>3. \E m \in Unborn : \A d \in Unborn : ~(<<d, m>> \in Less) BY <1>1, <1>2, WFMin
<1>4. \A x, y \in Nat : ~(<<y, x>> \in Less) => x <= y BY DEF Less
<1>5. \E m \in Unborn : \A d \in Unborn : m <= d BY <1>1, <1>3, <1>4
<1>6. Least(Unborn) \in Unborn BY <1>5 DEF Least
<1> QED BY <1>6 DEF Unborn

(* A rebind.                                                                *)
LEMMA RebindOK ==
  ASSUME HandleOK(ext), NEW was, Rebind(was) PROVE HandleOK(ext')
<1> DEFINE c == Least(Unborn)
<1>1. c \in Nat BY LeastUnborn DEF Rebind, Children
<1>2. ext' = Bound(c) BY DEF Rebind
<1>3. ext.gaveUp \in BOOLEAN BY DEF HandleOK, Handle
<1> HIDE DEF c
<1> QED BY <1>1, <1>2, <1>3, BoundOK

(* A failed hook.                                                           *)
LEMMA HookFailedOK ==
  ASSUME NEW e, HandleOK(e) PROVE HandleOK(HookFailed(e))
<1>1. e \in Handle BY DEF HandleOK
<1>2. HookFailed(e) \in Handle /\ HookFailed(e).child = e.child
      /\ HookFailed(e).free = e.free /\ HookFailed(e).convs = e.convs
  BY <1>1 DEF Handle, HookFailed
<1> QED BY <1>2, FlagOK

(* A death counted: the supervisor tries again, or gives up.                *)
LEMMA CountDeathOK ==
  ASSUME NEW e, HandleOK(e), CountDeath(e) PROVE HandleOK(ext')
<1> DEFINE d == [e EXCEPT !.gaveUp = TRUE]
<1>1. e \in Handle BY DEF HandleOK
<1>2. d \in Handle /\ d.child = e.child /\ d.free = e.free /\ d.convs = e.convs
  BY <1>1 DEF Handle
<1>3. ext' = d \/ ext' = e BY DEF CountDeath
<1> HIDE DEF d
<1>4. HandleOK(d) BY <1>2, FlagOK
<1> QED BY <1>3, <1>4

(* The step, action by action.                                              *)
LEMMA SocketStep ==
  ASSUME HandleOK(ext), [ExtNext]_extVars PROVE HandleOK(ext')
<1>1. ASSUME NEW t \in ExtTasks, ExtCall(t) PROVE HandleOK(ext')
  <2>1. PICK k \in Keys :
           \/ Open(t, k, [claims EXCEPT ![ext.child] = Acquired(@, t, k, ext.convs[t].depth = 0)])
           \/ UNCHANGED ext
    BY <1>1 DEF ExtCall
  <2> QED BY <2>1, OpenOK
<1>2. ASSUME NEW t \in ExtTasks, Handed(t) PROVE HandleOK(ext')
  BY <1>2, OpenOK DEF Handed
<1>3. ASSUME NEW t \in ExtTasks, CallReturns(t) PROVE HandleOK(ext')
  BY <1>3, UnpinnedOK DEF CallReturns
<1>4. ASSUME NEW t \in ExtTasks, CallBreaks(t) \/ CallErrs(t) PROVE HandleOK(ext')
  BY <1>4, UnpinnedOK, NoteOK DEF CallBreaks, CallErrs
<1>5. ASSUME NEW t \in ExtTasks, Restart(t) PROVE HandleOK(ext')
  BY <1>5, NoteOK DEF Restart
<1>6. ASSUME NEW t \in ExtTasks, RestartRebinds(t) PROVE HandleOK(ext')
  BY <1>6, RebindOK DEF RestartRebinds
<1>7. ASSUME NEW t \in ExtTasks, RestartEnds(t) PROVE HandleOK(ext')
  BY <1>7, HookFailedOK DEF RestartEnds
<1>8. ASSUME NEW t \in ExtTasks,
             CancelQueued(t) \/ HostOp(t) \/ HostOpDone(t) \/ RestartFails(t)
      PROVE HandleOK(ext')
  BY <1>8 DEF CancelQueued, HostOp, HostOpDone, RestartFails
<1>9. CASE SupervisorWakes \/ SupervisorFails
  BY <1>9, CountDeathOK DEF SupervisorWakes, SupervisorFails
<1>10. CASE SupervisorRebinds BY <1>10, RebindOK DEF SupervisorRebinds
<1>11. CASE SupervisorEnds BY <1>11, HookFailedOK, CountDeathOK DEF SupervisorEnds
<1>12. CASE ChildDies \/ ExitWatch \/ Supervise \/ SupervisorCancelled \/ DeathExpires
  BY <1>12 DEF ChildDies, ExitWatch, Supervise, SupervisorCancelled, DeathExpires
<1>13. CASE UNCHANGED extVars BY <1>13 DEF extVars
<1> QED
  BY <1>1, <1>2, <1>3, <1>4, <1>5, <1>6, <1>7, <1>8, <1>9, <1>10, <1>11, <1>12, <1>13
  DEF ExtNext, TaskMoves, SupervisorMoves

(* The first handle.                                                        *)
LEMMA InitHandle ==
  ASSUME ExtInit PROVE HandleOK(ext) /\ ext.child = 1 /\ ext.dead = FALSE
<1>1. ext = Bound(1) /\ ext.gaveUp \in BOOLEAN BY DEF ExtInit, Bound
<1>2. HandleOK(Bound(1)) BY <1>1, BoundOK
<1>3. ext.child = 1 /\ ext.dead = FALSE BY DEF ExtInit
<1>4. HandleOK(ext) BY <1>1, <1>2, Zenon
<1> QED BY <1>3, <1>4

(* Through calls, nested calls, deaths, cancellations and rebinds, calls    *)
(* that outlive a rebind and overlapping restarts included, and whatever    *)
(* the claims grant: the free sockets of the bound child and those its      *)
(* callers have pinned are all of its sockets, each pinned once.            *)
THEOREM SocketsMatch ==
  ASSUME ExtBounds PROVE ExtSpec => []SocketsPartitioned
<1>1. ExtInit => HandleOK(ext) BY InitHandle
<1>2. HandleOK(ext) /\ [ExtNext]_extVars => HandleOK(ext)' BY SocketStep
<1>3. HandleOK(ext) => SocketsPartitioned BY Matching
<1> QED BY <1>1, <1>2, <1>3, PTL DEF ExtSpec

-----------------------------------------------------------------------------
(* Nothing of a dead incarnation is left.                                   *)

Pcs == {"idle", "queued", "call", "callback", "spawning", "hook"}
CallRecords == [key : Keys, child : Children, sock : Nat \X Nat]
Wants == [key : Keys, child : Children \cup {0}, top : BOOLEAN]
CallTypes ==
    /\ ext \in Handle /\ ext.child \in Children
    /\ kid \in [Children -> {"unborn", "alive", "gone"}]
    /\ extLife \in [Children -> {"Running", "Died"}]
    /\ extPc \in [ExtTasks -> Pcs]
    /\ calls \in [ExtTasks -> Seq(CallRecords)]
    /\ want \in [ExtTasks -> Wants]
    /\ \A t \in ExtTasks : extPc[t] \in {"call", "callback"} => calls[t] # <<>>

(* Replaced children were started once and are not bound again; a death is  *)
(* recorded of a child that is gone, or that an attempt begun from another  *)
(* child replaced; and so for the handle's flag.                            *)
DeathsAreReal ==
    /\ replaced \subseteq Children /\ ext.child \notin replaced
    /\ \A c \in replaced \cup {ext.child} : kid[c] # "unborn"
    /\ \A c \in Children : extLife[c] = "Died" => kid[c] = "gone" \/ c \in replaced
    /\ ext.dead = TRUE => kid[ext.child] = "gone"

OnlyBoundRuns ==
    /\ \A c \in Children \ replaced : kid[c] = "alive" => c = ext.child
    /\ held \subseteq {ext.child} \cup replaced

(* Every attempt began from a child whose death was recorded, and the child *)
(* an attempt made is bound, gone or replaced.                              *)
Dead(life, c) == c \in Children /\ life[c] = "Died"
Made(e, k, rep, c) == c \in Children /\ (c = e.child \/ k[c] = "gone" \/ c \in rep)
Olds == [ExtTasks -> Children \cup {0}]
Loops == [at : {"off", "watch", "spawning", "hook", "over"}, watched : Children \cup {0},
          made : Children \cup {0}, deaths : Nat]
AttemptTypes == old \in Olds /\ sup \in Loops
AttemptsReal ==
    /\ AttemptTypes
    /\ \A t \in ExtTasks : extPc[t] = "spawning" => Dead(extLife, old[t])
    /\ \A t \in ExtTasks : extPc[t] = "hook" => Made(ext, kid, replaced, old[t])
    /\ sup.at = "watch" => sup.watched \in Children
    /\ sup.at \in {"spawning", "hook"} => Dead(extLife, sup.watched)
    /\ sup.at = "hook" => Made(ext, kid, replaced, sup.made)

ResidueInv == CallTypes /\ DeathsAreReal /\ OnlyBoundRuns /\ AttemptsReal

(* What a step may do to processes and handle if it does not rebind, ...    *)
Steady ==
    /\ ext' \in Handle /\ ext'.child = ext.child /\ replaced' = replaced
    /\ kid' \in [Children -> {"unborn", "alive", "gone"}]
    /\ extLife' \in [Children -> {"Running", "Died"}]
    /\ \A c \in Children : kid'[c] = kid[c] \/ (kid[c] # "unborn" /\ kid'[c] = "gone")
    /\ \A c \in Children : extLife'[c] = "Died" => \/ extLife[c] = "Died"
                                                   \/ kid'[c] = "gone" \/ c \in replaced
    /\ \A c \in Children : extLife[c] = "Died" => extLife'[c] = "Died"
    /\ (ext'.dead = TRUE) => (ext.dead = TRUE \/ kid'[ext.child] = "gone")
    /\ held' \subseteq held \cup {ext.child} \cup replaced

(* ... and to the calls, ...                                                *)
CallsStay ==
    /\ extPc' \in [ExtTasks -> Pcs]
    /\ calls' \in [ExtTasks -> Seq(CallRecords)]
    /\ want' \in [ExtTasks -> Wants]
    /\ \A t \in ExtTasks : extPc'[t] \in {"call", "callback"} => calls'[t] # <<>>

(* ... and if it begins no attempt and no step of one.                      *)
TasksStay ==
    /\ old' \in Olds
    /\ \A t \in ExtTasks :
          extPc'[t] \in {"spawning", "hook"} => extPc'[t] = extPc[t] /\ old'[t] = old[t]

(* A steady step keeps all but the attempts, ...                            *)
LEMMA SteadyCore ==
  ASSUME ResidueInv, Steady, CallsStay
  PROVE  /\ CallTypes' /\ DeathsAreReal' /\ OnlyBoundRuns'
         /\ \A c : Dead(extLife, c) => Dead(extLife', c)
         /\ \A c : Made(ext, kid, replaced, c) => Made(ext', kid', replaced', c)
<1>1. CallTypes' BY DEF ResidueInv, CallTypes, Steady, CallsStay
<1>2. \A c \in Children : kid[c] = "gone" => kid'[c] = "gone" BY DEF Steady
<1>3. ext.child \in Children /\ replaced \subseteq Children
  BY DEF ResidueInv, CallTypes, DeathsAreReal
<1>4. OnlyBoundRuns' BY <1>3 DEF ResidueInv, OnlyBoundRuns, Steady
<1>5. DeathsAreReal'
  <2>1. \A c \in Children : extLife'[c] = "Died" => kid'[c] = "gone" \/ c \in replaced'
    BY <1>2 DEF ResidueInv, DeathsAreReal, Steady
  <2>2. ext'.dead = TRUE => kid'[ext'.child] = "gone"
    BY <1>2, <1>3 DEF ResidueInv, DeathsAreReal, Steady
  <2>3. \A c \in replaced' \cup {ext'.child} : kid'[c] # "unborn"
    BY <1>3 DEF ResidueInv, DeathsAreReal, Steady
  <2> QED BY <1>3, <2>1, <2>2, <2>3 DEF DeathsAreReal, Steady, ResidueInv
<1>6. /\ \A c : Dead(extLife, c) => Dead(extLife', c)
      /\ \A c : Made(ext, kid, replaced, c) => Made(ext', kid', replaced', c)
  BY <1>2 DEF Dead, Made, Steady
<1> QED BY <1>1, <1>4, <1>5, <1>6

(* ... and the attempts too if it leaves them where they are.               *)
LEMMA SteadyKeeps ==
  ASSUME ResidueInv, Steady, CallsStay, sup' = sup, TasksStay
  PROVE  ResidueInv'
<1>1. /\ CallTypes' /\ DeathsAreReal' /\ OnlyBoundRuns'
      /\ \A c : Dead(extLife, c) => Dead(extLife', c)
      /\ \A c : Made(ext, kid, replaced, c) => Made(ext', kid', replaced', c)
  BY SteadyCore
<1>2. AttemptsReal BY DEF ResidueInv
<1>3. AttemptsReal'
  <2>1. \A t \in ExtTasks : extPc'[t] = "spawning" => Dead(extLife', old'[t])
    BY <1>1, <1>2 DEF AttemptsReal, TasksStay
  <2>2. \A t \in ExtTasks : extPc'[t] = "hook" => Made(ext', kid', replaced', old'[t])
    BY <1>1, <1>2 DEF AttemptsReal, TasksStay
  <2>3. AttemptTypes' BY <1>2 DEF AttemptsReal, AttemptTypes, TasksStay
  <2> QED BY <1>1, <1>2, <2>1, <2>2, <2>3 DEF AttemptsReal
<1> QED BY <1>1, <1>3 DEF ResidueInv

(* The parts of the types the steps below use.                              *)
LEMMA TypeParts ==
  ASSUME ResidueInv
  PROVE  /\ extPc \in [ExtTasks -> Pcs] /\ calls \in [ExtTasks -> Seq(CallRecords)]
         /\ want \in [ExtTasks -> Wants] /\ ext \in Handle /\ ext.child \in Children
         /\ kid \in [Children -> {"unborn", "alive", "gone"}]
         /\ extLife \in [Children -> {"Running", "Died"}]
         /\ old \in Olds /\ sup \in Loops
         /\ \A u \in ExtTasks : extPc[u] \in {"call", "callback"} => calls[u] # <<>>
BY DEF ResidueInv, CallTypes, AttemptsReal, AttemptTypes

SameChild(d, e) == d.child = e.child /\ d.dead = e.dead
(* Pins and unpins leave the child and the flags alone.                     *)
LEMMA PinsSameChild ==
  ASSUME NEW e, HandleOK(e), NEW t \in ExtTasks
  PROVE  SameChild(Pinned(e, t), e) /\ SameChild(Unpinned(e, t), e)
<1>1. e \in Handle BY DEF HandleOK
<1> QED BY <1>1 DEF Handle, Pinned, Unpinned, SameChild

(* Opening a call.                                                          *)
LEMMA OpenSteady ==
  ASSUME ResidueInv, HandleOK(ext), NEW t \in ExtTasks, NEW k \in Keys, NEW cls,
         Open(t, k, cls), UNCHANGED <<kid, extLife, held, attempts, past>>,
         want' \in [ExtTasks -> Wants]
  PROVE  ResidueInv'
<1>t. /\ extPc \in [ExtTasks -> Pcs] /\ calls \in [ExtTasks -> Seq(CallRecords)] /\ old \in Olds
      /\ ext \in Handle /\ ext.child \in Children
      /\ kid \in [Children -> {"unborn", "alive", "gone"}]
      /\ extLife \in [Children -> {"Running", "Died"}]
      /\ \A u \in ExtTasks : extPc[u] \in {"call", "callback"} => calls[u] # <<>>
  BY TypeParts
<1>u. replaced' = replaced /\ sup' = sup /\ old' = old BY DEF attempts, past
<1>4. HandleOK(ext') /\ SameChild(ext', ext)
  <2>1. CASE ~SocketFree(t) BY <2>1 DEF Open, SameChild
  <2>2. CASE SocketFree(t)
    <3>1. HandleOK(Pinned(ext, t)) BY <2>2, PinnedOK DEF SocketFree
    <3>2. HandleOK(Unpinned(Pinned(ext, t), t)) BY <3>1, UnpinnedOK
    <3>3. SameChild(Pinned(ext, t), ext) /\ SameChild(Unpinned(Pinned(ext, t), t), Pinned(ext, t))
      BY <3>1, PinsSameChild
    <3> QED BY <2>2, <3>1, <3>2, <3>3 DEF Open, SameChild
  <2> QED BY <2>1, <2>2
<1>9. ext' \in Handle BY <1>4 DEF HandleOK
<1>5. Steady BY <1>4, <1>9, <1>t, <1>u DEF Steady, SameChild
<1>6. CASE calls' = calls /\ extPc' = [extPc EXCEPT ![t] = Resting(t)]
  <2>1. Resting(t) \in Pcs /\ (Resting(t) = "callback" => calls[t] # <<>>)
        /\ Resting(t) \in {"idle", "callback"}
    BY DEF Resting, Pcs
  <2>2. CallsStay /\ TasksStay BY <1>6, <1>t, <1>u, <2>1 DEF CallsStay, TasksStay
  <2> QED BY <1>5, <1>u, <2>2, SteadyKeeps
<1>7. CASE /\ calls' = [calls EXCEPT ![t] = Append(@,
                           [key |-> k, child |-> ext.child, sock |-> ext'.convs[t].sock])]
           /\ extPc' = [extPc EXCEPT ![t] = "call"]
  <2> DEFINE r == [key |-> k, child |-> ext.child, sock |-> ext'.convs[t].sock]
  <2>1. calls' = [calls EXCEPT ![t] = Append(@, r)] /\ extPc' = [extPc EXCEPT ![t] = "call"]
    BY <1>7
  <2>2. ext'.convs[t].sock \in Nat \X Nat BY <1>9 DEF Handle, Conv
  <2>3. r \in CallRecords BY <1>t, <2>2 DEF CallRecords
  <2> HIDE DEF r
  <2>4. calls' \in [ExtTasks -> Seq(CallRecords)] BY <1>t, <2>1, <2>3
  <2>7. calls'[t] = Append(calls[t], r) /\ calls[t] \in Seq(CallRecords) BY <1>t, <2>1
  <2>5. calls'[t] # <<>> BY <2>3, <2>7
  <2>6. CallsStay /\ TasksStay BY <1>t, <1>u, <2>1, <2>4, <2>5 DEF CallsStay, TasksStay, Pcs
  <2> QED BY <1>5, <1>u, <2>6, SteadyKeeps
<1>8. CASE calls' = calls /\ extPc' = extPc
  <2>1. CallsStay /\ TasksStay BY <1>8, <1>t, <1>u DEF CallsStay, TasksStay
  <2> QED BY <1>5, <1>u, <2>1, SteadyKeeps
<1> QED BY <1>6, <1>7, <1>8 DEF Open

(* A stack without its top.                                                 *)
LEMMA PopProperties ==
  ASSUME NEW S, NEW q \in Seq(S), q # <<>>
  PROVE  /\ SubSeq(q, 1, Len(q) - 1) \in Seq(S)
         /\ Len(q) # 1 => SubSeq(q, 1, Len(q) - 1) # <<>>
<1>1. PICK m \in Nat : Len(q) = m + 1
  <2>1. Len(q) \in Nat /\ Len(q) # 0 OBVIOUS
  <2>2. Len(q) - 1 \in Nat /\ Len(q) = (Len(q) - 1) + 1 BY <2>1
  <2> QED BY <2>2
<1>2. m \in Int /\ 1 \in Int /\ Len(q) - 1 = m BY <1>1
<1>3. \A i \in 1..m : q[i] \in S BY <1>1
<1>4. SubSeq(q, 1, m) \in Seq(S) /\ Len(SubSeq(q, 1, m)) = IF 1 <= m THEN m - 1 + 1 ELSE 0
  BY <1>2, <1>3, SubSeqProperties
<1> QED BY <1>1, <1>2, <1>4

(* What recording a death does: nothing, or the handle's child is gone and  *)
(* dead.                                                                    *)
LEMMA NoteEffect ==
  ASSUME ResidueInv, NEW e, HandleOK(e), SameChild(e, ext), replaced' = replaced,
         \/ NoteDead(e) /\ kid[ext.child] # "unborn"
         \/ NoteIfExited(e)
         \/ ext' = e /\ UNCHANGED <<kid, extLife>>,
         held' \subseteq held
  PROVE  Steady
<1>t. /\ ext \in Handle /\ ext.child \in Children
      /\ kid \in [Children -> {"unborn", "alive", "gone"}]
      /\ extLife \in [Children -> {"Running", "Died"}]
  BY TypeParts
<1>1. \/ ext' = e /\ UNCHANGED <<kid, extLife>>
      \/ /\ ext' = [e EXCEPT !.dead = TRUE] /\ kid[ext.child] # "unborn"
         /\ kid' = [kid EXCEPT ![e.child] = "gone"]
         /\ extLife' = [extLife EXCEPT ![e.child] = "Died"]
  BY DEF NoteDead, NoteIfExited, SameChild
<1>2. e.child = ext.child /\ e.dead = ext.dead /\ e \in Handle BY DEF SameChild, HandleOK
<1>3. ext'.child = ext.child /\ ext' \in Handle BY <1>1, <1>2 DEF Handle
<1> QED BY <1>1, <1>2, <1>3, <1>t DEF Steady

(* Ending a call.                                                           *)
LEMMA EndSteady ==
  ASSUME ResidueInv, HandleOK(ext), NEW t \in ExtTasks, extPc[t] \in {"call", "callback"},
         EndCall(t), UNCHANGED <<want, attempts, past>>, held' \subseteq held,
         \/ NoteDead(Unpinned(ext, t)) \/ NoteIfExited(Unpinned(ext, t))
         \/ ext' = Unpinned(ext, t) /\ UNCHANGED <<kid, extLife>>
  PROVE  ResidueInv'
<1>t. /\ extPc \in [ExtTasks -> Pcs] /\ calls \in [ExtTasks -> Seq(CallRecords)] /\ old \in Olds
      /\ want \in [ExtTasks -> Wants]
      /\ \A u \in ExtTasks : extPc[u] \in {"call", "callback"} => calls[u] # <<>>
  BY TypeParts
<1>u. replaced' = replaced /\ sup' = sup /\ old' = old BY DEF attempts, past
<1>1. HandleOK(Unpinned(ext, t)) /\ SameChild(Unpinned(ext, t), ext)
  BY UnpinnedOK, PinsSameChild
<1>2. kid[ext.child] # "unborn" BY DEF ResidueInv, DeathsAreReal
<1>3. Steady BY <1>1, <1>2, <1>u, NoteEffect
<1>4. CallsStay /\ TasksStay
  <2>1. calls[t] # <<>> /\ calls[t] \in Seq(CallRecords) BY <1>t
  <2>2. PopCall(t) \in Seq(CallRecords) /\ (Len(calls[t]) # 1 => PopCall(t) # <<>>)
    BY <2>1, PopProperties DEF PopCall
  <2> QED BY <1>t, <1>u, <2>2 DEF CallsStay, TasksStay, EndCall, Pcs
<1> QED BY <1>3, <1>4, <1>u, SteadyKeeps

(* A rebind by an attempt that began from a child found dead.               *)
LEMMA RebindCore ==
  ASSUME ResidueInv, HandleOK(ext), NEW was, Dead(extLife, was), Rebind(was),
         extLife' = extLife, CallsStay
  PROVE  /\ CallTypes' /\ DeathsAreReal' /\ OnlyBoundRuns'
         /\ \A c : Dead(extLife, c) => Dead(extLife', c)
         /\ \A c : Made(ext, kid, replaced, c) => Made(ext', kid', replaced', c)
         /\ Made(ext', kid', replaced', Least(Unborn))
<1> DEFINE n == Least(Unborn)
<1>t. /\ ext.child \in Children /\ kid \in [Children -> {"unborn", "alive", "gone"}]
      /\ extLife \in [Children -> {"Running", "Died"}]
  BY TypeParts
<1>1. n \in Children /\ kid[n] = "unborn" BY LeastUnborn DEF Rebind
<1>2. ext' \in Handle BY RebindOK DEF HandleOK
<1>3. ext'.child = n /\ ext'.dead = FALSE BY DEF Rebind, Bound
<1>4. /\ kid' = [kid EXCEPT ![n] = "alive"] /\ held' = held \ {was}
      /\ replaced' = IF was # ext.child THEN replaced \cup {ext.child} ELSE replaced
  BY DEF Rebind
<1> HIDE DEF n
<1>5. /\ replaced \subseteq Children /\ ext.child \notin replaced
      /\ \A c \in replaced \cup {ext.child} : kid[c] # "unborn"
      /\ \A c \in Children : extLife[c] = "Died" => kid[c] = "gone" \/ c \in replaced
  BY DEF ResidueInv, DeathsAreReal
<1>6. n \notin replaced' /\ n # ext.child /\ extLife[n] # "Died" BY <1>1, <1>4, <1>5, <1>t
<1>7. was = ext.child => kid[ext.child] = "gone" BY <1>5 DEF Dead
<1>8. CallTypes' BY <1>1, <1>2, <1>3, <1>4, <1>t DEF CallTypes, CallsStay
<1>9. DeathsAreReal'
  <2>1. replaced' \subseteq Children /\ ext'.child \notin replaced' BY <1>3, <1>4, <1>5, <1>6, <1>t
  <2>2. \A c \in replaced' \cup {ext'.child} : kid'[c] # "unborn"
    BY <1>1, <1>3, <1>4, <1>5, <1>t
  <2>3. \A c \in Children : extLife'[c] = "Died" => kid'[c] = "gone" \/ c \in replaced'
    BY <1>4, <1>5, <1>6, <1>t
  <2> QED BY <2>1, <2>2, <2>3, <1>3 DEF DeathsAreReal
<1>10. OnlyBoundRuns'
  <2>1. \A c \in Children \ replaced : kid[c] = "alive" => c = ext.child
    BY DEF ResidueInv, OnlyBoundRuns
  <2>2. \A c \in Children \ replaced' : kid'[c] = "alive" => c = n
    BY <2>1, <1>1, <1>4, <1>7, <1>t
  <2>3. held \subseteq {ext.child} \cup replaced BY DEF ResidueInv, OnlyBoundRuns
  <2>4. held' \subseteq replaced' BY <2>3, <1>4
  <2> QED BY <2>2, <2>4, <1>3 DEF OnlyBoundRuns
<1>11. \A c : Made(ext, kid, replaced, c) => Made(ext', kid', replaced', c)
  BY <1>1, <1>4, <1>7, <1>t DEF Made
<1>12. Made(ext', kid', replaced', n) BY <1>1, <1>3 DEF Made
<1> QED BY <1>8, <1>9, <1>10, <1>11, <1>12 DEF n

(* A hook that failed, in the attempt that made child c.                    *)
LEMMA HookSteady ==
  ASSUME ResidueInv, NEW c, Made(ext, kid, replaced, c), HookDeath(c), held' = held,
         replaced' = replaced, ext' \in {HookFailed(ext), [HookFailed(ext) EXCEPT !.gaveUp = TRUE]}
  PROVE  Steady
<1>t. /\ ext \in Handle /\ ext.child \in Children
      /\ kid \in [Children -> {"unborn", "alive", "gone"}]
      /\ extLife \in [Children -> {"Running", "Died"}]
  BY TypeParts
<1>1. ext' \in Handle /\ ext'.child = ext.child BY <1>t DEF HookFailed, Handle
<1>2. kid[ext.child] # "unborn" BY DEF ResidueInv, DeathsAreReal
<1>3. /\ extLife' = [extLife EXCEPT ![ext.child] = "Died", ![c] = "Died"]
      /\ kid' = [kid EXCEPT ![ext.child] = "gone"]
  BY DEF HookDeath
<1> QED BY <1>1, <1>2, <1>3, <1>t DEF Steady, Made

(* A death counted leaves the loop over, or trying from the same child.     *)
LEMMA CountLoop ==
  ASSUME sup \in Loops, NEW e, CountDeath(e)
  PROVE  /\ sup' \in Loops
         /\ sup'.at = "over" \/ (sup'.at = "spawning" /\ sup'.watched = sup.watched)
<1> DEFINE n == sup.deaths + 1
           go == [sup EXCEPT !.at = "spawning", !.made = 0, !.deaths = n]
<1>2. n \in Nat BY DEF Loops
<1>3. sup' = NoLoop("over") \/ sup' = go BY DEF CountDeath
<1> HIDE DEF n
<1>4. go \in Loops /\ go.at = "spawning" /\ go.watched = sup.watched BY <1>2 DEF Loops
<1>5. CASE sup' = NoLoop("over") BY <1>5 DEF NoLoop, Loops
<1>6. CASE sup' = go
  <2> HIDE DEF go
  <2> QED BY <1>4, <1>6
<1> QED BY <1>3, <1>5, <1>6

(* Every step.                                                              *)
LEMMA ResidueStep ==
  ASSUME ResidueInv, HandleOK(ext), [ExtNext]_extVars
  PROVE  ResidueInv'
<1>t. /\ extPc \in [ExtTasks -> Pcs] /\ calls \in [ExtTasks -> Seq(CallRecords)]
      /\ old \in Olds /\ sup \in Loops
      /\ want \in [ExtTasks -> Wants] /\ ext \in Handle /\ ext.child \in Children
      /\ kid \in [Children -> {"unborn", "alive", "gone"}]
      /\ extLife \in [Children -> {"Running", "Died"}]
      /\ \A u \in ExtTasks : extPc[u] \in {"call", "callback"} => calls[u] # <<>>
  BY TypeParts
<1>a. AttemptsReal /\ DeathsAreReal /\ OnlyBoundRuns BY DEF ResidueInv
<1>w. NoWant \in Wants BY DEF NoWant, Wants, Keys
<1>r. \A t \in ExtTasks : /\ Resting(t) \in {"idle", "callback"} /\ Resting(t) \in Pcs
                          /\ Resting(t) = "callback" => calls[t] # <<>>
  BY DEF Resting, Pcs
<1>s. ASSUME ext' = ext, kid' = kid, extLife' = extLife, replaced' = replaced, held' \subseteq held
      PROVE  Steady
  BY <1>s, <1>t DEF Steady
<1>c. ASSUME extPc' = extPc, calls' = calls, want' = want PROVE CallsStay
  BY <1>c, <1>t DEF CallsStay
<1>p. ASSUME extPc' = extPc, old' = old PROVE TasksStay BY <1>p, <1>t DEF TasksStay
<1>1. ASSUME NEW t \in ExtTasks, ExtCall(t) PROVE ResidueInv'
  <2>1. PICK k \in Keys :
           \/ /\ Open(t, k, [claims EXCEPT ![ext.child] =
                                Acquired(@, t, k, ext.convs[t].depth = 0)])
              /\ UNCHANGED want
           \/ /\ want' = [want EXCEPT ![t] =
                             [key |-> k, child |-> ext.child, top |-> ext.convs[t].depth = 0]]
              /\ extPc' = [extPc EXCEPT ![t] = "queued"]
              /\ UNCHANGED <<ext, calls, panicked>>
    BY <1>1 DEF ExtCall
  <2>2. UNCHANGED <<kid, extLife, held, attempts, past>> BY <1>1 DEF ExtCall
  <2>3. CASE /\ Open(t, k, [claims EXCEPT ![ext.child] = Acquired(@, t, k, ext.convs[t].depth = 0)])
             /\ UNCHANGED want
    BY <2>2, <2>3, <1>t, OpenSteady
  <2>4. CASE /\ want' = [want EXCEPT ![t] =
                            [key |-> k, child |-> ext.child, top |-> ext.convs[t].depth = 0]]
             /\ extPc' = [extPc EXCEPT ![t] = "queued"]
             /\ UNCHANGED <<ext, calls, panicked>>
    <3> DEFINE w == [key |-> k, child |-> ext.child, top |-> ext.convs[t].depth = 0]
    <3>1. w \in Wants BY <1>t DEF Wants
    <3>2. want' = [want EXCEPT ![t] = w] BY <2>4
    <3> HIDE DEF w
    <3>3. want' \in [ExtTasks -> Wants] BY <3>1, <3>2, <1>t
    <3>4. sup' = sup /\ old' = old /\ replaced' = replaced BY <2>2 DEF attempts, past
    <3>5. Steady BY <1>s, <2>2, <2>4, <3>4
    <3>6. CallsStay /\ TasksStay BY <2>4, <3>3, <3>4, <1>t DEF CallsStay, TasksStay, Pcs
    <3> QED BY <3>4, <3>5, <3>6, SteadyKeeps
  <2> QED BY <2>1, <2>3, <2>4
<1>2. ASSUME NEW t \in ExtTasks, Handed(t) PROVE ResidueInv'
  <2>1. want[t].key \in Keys BY <1>t DEF Wants
  <2>2. want' \in [ExtTasks -> Wants] BY <1>2, <1>t, <1>w DEF Handed
  <2> QED BY <1>2, <2>1, <2>2, OpenSteady DEF Handed
<1>3. ASSUME NEW t \in ExtTasks, CallReturns(t) PROVE ResidueInv'
  BY <1>3, EndSteady DEF CallReturns
<1>4. ASSUME NEW t \in ExtTasks, CallErrs(t) PROVE ResidueInv'
  BY <1>4, EndSteady DEF CallErrs
<1>5. ASSUME NEW t \in ExtTasks, CallBreaks(t) PROVE ResidueInv'
  BY <1>5, EndSteady DEF CallBreaks
<1>6. ASSUME NEW t \in ExtTasks, CancelQueued(t) PROVE ResidueInv'
  <2>1. /\ ext' = ext /\ kid' = kid /\ extLife' = extLife /\ calls' = calls /\ held' = held
        /\ sup' = sup /\ old' = old /\ replaced' = replaced
        /\ want' = [want EXCEPT ![t] = NoWant] /\ extPc' = [extPc EXCEPT ![t] = Resting(t)]
    BY <1>6 DEF CancelQueued, attempts, past
  <2>2. CallsStay /\ TasksStay BY <2>1, <1>t, <1>w, <1>r DEF CallsStay, TasksStay
  <2> QED BY <2>1, <2>2, <1>s, SteadyKeeps
<1>7. ASSUME NEW t \in ExtTasks, HostOp(t) \/ HostOpDone(t) PROVE ResidueInv'
  <2>1. /\ ext' = ext /\ kid' = kid /\ extLife' = extLife /\ calls' = calls /\ want' = want
        /\ sup' = sup /\ old' = old /\ replaced' = replaced
        /\ extPc[t] \in {"call", "callback"} /\ kid[Top(t).child] = "alive"
        /\ extPc' \in {extPc, [extPc EXCEPT ![t] = "call"], [extPc EXCEPT ![t] = "callback"]}
        /\ held' \in {held, held \cup {Top(t).child}}
    BY <1>7 DEF HostOp, HostOpDone, attempts, past
  <2>2. Top(t).child \in Children
    <3>1. calls[t] # <<>> /\ calls[t] \in Seq(CallRecords) BY <2>1, <1>t
    <3>2. Top(t) \in CallRecords BY <3>1 DEF Top
    <3> QED BY <3>2 DEF CallRecords
  <2>3. Top(t).child \in {ext.child} \cup replaced BY <2>1, <2>2, <1>a DEF OnlyBoundRuns
  <2>4. Steady BY <2>1, <2>3, <1>t DEF Steady
  <2>5. CallsStay /\ TasksStay BY <2>1, <1>t DEF CallsStay, TasksStay, Pcs
  <2> QED BY <2>1, <2>4, <2>5, SteadyKeeps
<1>8. ASSUME NEW t \in ExtTasks, Restart(t) PROVE ResidueInv'
  <2>1. /\ NoteIfExited(ext) /\ sup' = sup /\ sup.at = "off" /\ calls' = calls /\ want' = want
        /\ held' = held /\ replaced' = replaced /\ extLife'[ext.child] = "Died"
        /\ extPc' = [extPc EXCEPT ![t] = "spawning"] /\ old' = [old EXCEPT ![t] = ext.child]
    BY <1>8 DEF Restart, past
  <2>2. Steady BY <2>1, NoteEffect DEF SameChild
  <2>3. CallsStay BY <2>1, <1>t DEF CallsStay, Pcs
  <2>4. /\ CallTypes' /\ DeathsAreReal' /\ OnlyBoundRuns'
        /\ \A c : Dead(extLife, c) => Dead(extLife', c)
        /\ \A c : Made(ext, kid, replaced, c) => Made(ext', kid', replaced', c)
    BY <2>2, <2>3, SteadyCore
  <2>5. Dead(extLife', ext.child) BY <2>1, <1>t DEF Dead
  <2>6. ASSUME NEW u \in ExtTasks, extPc'[u] = "spawning" PROVE Dead(extLife', old'[u])
    BY <2>1, <2>4, <2>5, <2>6, <1>t, <1>a DEF AttemptsReal, Olds
  <2>7. ASSUME NEW u \in ExtTasks, extPc'[u] = "hook" PROVE Made(ext', kid', replaced', old'[u])
    BY <2>1, <2>4, <2>7, <1>t, <1>a DEF AttemptsReal, Olds
  <2>9. old' \in Olds BY <2>1, <1>t DEF Olds
  <2>8. AttemptsReal' BY <2>1, <2>4, <2>6, <2>7, <2>9, <1>a DEF AttemptsReal, AttemptTypes
  <2> QED BY <2>4, <2>8 DEF ResidueInv
<1>9. ASSUME NEW t \in ExtTasks, RestartFails(t) PROVE ResidueInv'
  <2>1. /\ ext' = ext /\ kid' = kid /\ extLife' = extLife /\ calls' = calls /\ want' = want
        /\ sup' = sup /\ replaced' = replaced /\ held' = held
        /\ extPc' = [extPc EXCEPT ![t] = Resting(t)] /\ old' = [old EXCEPT ![t] = 0]
    BY <1>9 DEF RestartFails, past
  <2>2. CallsStay /\ TasksStay BY <2>1, <1>t, <1>r DEF CallsStay, TasksStay, Olds
  <2> QED BY <2>1, <2>2, <1>s, SteadyKeeps
<1>10. ASSUME NEW t \in ExtTasks, RestartRebinds(t) PROVE ResidueInv'
  <2>1. /\ Rebind(old[t]) /\ extPc[t] = "spawning" /\ extLife' = extLife /\ calls' = calls
        /\ want' = want /\ sup' = sup
        /\ extPc' = [extPc EXCEPT ![t] = "hook"] /\ old' = [old EXCEPT ![t] = Least(Unborn)]
    BY <1>10 DEF RestartRebinds
  <2>2. CallsStay BY <2>1, <1>t DEF CallsStay, Pcs
  <2>3. Dead(extLife, old[t]) BY <2>1, <1>a DEF AttemptsReal
  <2>4. /\ CallTypes' /\ DeathsAreReal' /\ OnlyBoundRuns'
        /\ \A c : Dead(extLife, c) => Dead(extLife', c)
        /\ \A c : Made(ext, kid, replaced, c) => Made(ext', kid', replaced', c)
        /\ Made(ext', kid', replaced', Least(Unborn))
    BY <2>1, <2>2, <2>3, RebindCore
  <2>6. ASSUME NEW u \in ExtTasks, extPc'[u] = "spawning" PROVE Dead(extLife', old'[u])
    BY <2>1, <2>4, <2>6, <1>t, <1>a DEF AttemptsReal, Olds
  <2>7. ASSUME NEW u \in ExtTasks, extPc'[u] = "hook" PROVE Made(ext', kid', replaced', old'[u])
    BY <2>1, <2>4, <2>7, <1>t, <1>a DEF AttemptsReal, Olds
  <2>8. AttemptsReal'
    <3>1. old' \in Olds BY <2>1, <2>4, <1>t DEF Olds, Made
    <3> QED BY <3>1, <2>1, <2>4, <2>6, <2>7, <1>a DEF AttemptsReal, AttemptTypes
  <2> QED BY <2>4, <2>8 DEF ResidueInv
<1>11. ASSUME NEW t \in ExtTasks, RestartEnds(t) PROVE ResidueInv'
  <2>1. /\ extPc[t] = "hook" /\ calls' = calls /\ want' = want /\ sup' = sup /\ held' = held
        /\ replaced' = replaced /\ old' = [old EXCEPT ![t] = 0]
        /\ extPc' = [extPc EXCEPT ![t] = Resting(t)]
    BY <1>11 DEF RestartEnds, past
  <2>2. CallsStay /\ TasksStay BY <2>1, <1>t, <1>r DEF CallsStay, TasksStay, Olds
  <2>3. Made(ext, kid, replaced, old[t]) BY <2>1, <1>a DEF AttemptsReal
  <2>4. Steady
    <3>1. CASE ext' = HookFailed(ext) /\ HookDeath(old[t])
      BY <3>1, <2>1, <2>3, HookSteady
    <3>2. CASE UNCHANGED <<ext, kid, extLife>> BY <3>2, <2>1, <1>s
    <3> QED BY <3>1, <3>2, <1>11 DEF RestartEnds
  <2> QED BY <2>1, <2>2, <2>4, SteadyKeeps
<1>12. CASE ChildDies
  <2>1. Steady /\ CallsStay /\ TasksStay
    BY <1>12, <1>t, <1>c, <1>p DEF Steady, ChildDies, past, attempts
  <2> QED BY <1>12, <2>1, SteadyKeeps DEF ChildDies, attempts
<1>13. CASE ExitWatch
  <2>1. Steady /\ CallsStay /\ TasksStay
    BY <1>13, <1>t, <1>c, <1>p DEF Steady, ExitWatch, past, attempts
  <2> QED BY <1>13, <2>1, SteadyKeeps DEF ExitWatch, attempts
<1>q. ASSUME UNCHANGED <<extPc, old>>, Steady, CallsStay, sup' \in Loops,
             sup'.at = "watch" => sup'.watched \in Children,
             sup'.at \in {"spawning", "hook"} => Dead(extLife', sup'.watched),
             sup'.at = "hook" => Made(ext', kid', replaced', sup'.made)
      PROVE  ResidueInv'
  <2>1. /\ CallTypes' /\ DeathsAreReal' /\ OnlyBoundRuns'
        /\ \A c : Dead(extLife, c) => Dead(extLife', c)
        /\ \A c : Made(ext, kid, replaced, c) => Made(ext', kid', replaced', c)
    BY <1>q, SteadyCore
  <2>2. AttemptsReal' BY <1>q, <2>1, <1>a, <1>t DEF AttemptsReal, AttemptTypes
  <2> QED BY <2>1, <2>2 DEF ResidueInv
<1>14. CASE Supervise
  <2>1. /\ ext' = ext /\ kid' = kid /\ extLife' = extLife /\ calls' = calls /\ want' = want
        /\ extPc' = extPc /\ old' = old /\ replaced' = replaced /\ held' = held
        /\ sup' = [NoLoop("watch") EXCEPT !.watched = ext.child]
    BY <1>14 DEF Supervise, past
  <2>2. sup' \in Loops /\ sup'.at = "watch" /\ sup'.watched = ext.child
    BY <2>1, <1>t DEF NoLoop, Loops
  <2> QED BY <2>1, <2>2, <1>q, <1>s, <1>c, <1>t
<1>15. CASE SupervisorWakes \/ SupervisorFails
  <2>1. /\ CountDeath(ext) /\ kid' = kid /\ extLife' = extLife /\ calls' = calls /\ want' = want
        /\ extPc' = extPc /\ old' = old /\ replaced' = replaced /\ held' = held
        /\ Dead(extLife, sup.watched)
    BY <1>15, <1>a DEF SupervisorWakes, SupervisorFails, past, AttemptsReal, Dead
  <2>5. ext' = ext \/ ext' = [ext EXCEPT !.gaveUp = TRUE] BY <2>1 DEF CountDeath
  <2>2. SameChild(ext', ext) /\ ext' \in Handle BY <2>5, <1>t DEF SameChild, Handle
  <2>3. Steady BY <2>1, <2>2, <1>t DEF Steady, SameChild
  <2>4. /\ sup' \in Loops
        /\ sup'.at = "over" \/ (sup'.at = "spawning" /\ sup'.watched = sup.watched)
    BY <2>1, <1>t, CountLoop
  <2> QED BY <2>1, <2>3, <2>4, <1>q, <1>c
<1>16. CASE SupervisorRebinds
  <2>1. /\ Rebind(sup.watched) /\ sup.at = "spawning" /\ extLife' = extLife /\ calls' = calls
        /\ want' = want /\ extPc' = extPc /\ old' = old
        /\ sup' = [sup EXCEPT !.at = "hook", !.made = Least(Unborn)]
    BY <1>16 DEF SupervisorRebinds
  <2>2. CallsStay BY <2>1, <1>c
  <2>3. Dead(extLife, sup.watched) BY <2>1, <1>a DEF AttemptsReal
  <2>4. /\ CallTypes' /\ DeathsAreReal' /\ OnlyBoundRuns'
        /\ \A c : Dead(extLife, c) => Dead(extLife', c)
        /\ \A c : Made(ext, kid, replaced, c) => Made(ext', kid', replaced', c)
        /\ Made(ext', kid', replaced', Least(Unborn))
    BY <2>1, <2>2, <2>3, RebindCore
  <2>5. Least(Unborn) \in Children BY <2>4 DEF Made
  <2>6. /\ sup' \in Loops /\ sup'.at = "hook"
        /\ sup'.watched = sup.watched /\ sup'.made = Least(Unborn)
    BY <2>1, <2>5, <1>t DEF Loops
  <2>7. AttemptsReal' BY <2>1, <2>3, <2>4, <2>6, <1>a, <1>t DEF AttemptsReal, AttemptTypes
  <2> QED BY <2>4, <2>7 DEF ResidueInv
<1>17. CASE SupervisorEnds
  <2>1. /\ sup.at = "hook" /\ calls' = calls /\ want' = want /\ extPc' = extPc /\ old' = old
        /\ held' = held /\ replaced' = replaced
    BY <1>17 DEF SupervisorEnds, past
  <2>2. Dead(extLife, sup.watched) /\ Made(ext, kid, replaced, sup.made)
    BY <2>1, <1>a DEF AttemptsReal
  <2>3. CASE sup' = [sup EXCEPT !.at = "watch", !.watched = ext.child, !.made = 0]
             /\ UNCHANGED <<ext, kid, extLife>>
    <3>1. sup' \in Loops /\ sup'.at = "watch" /\ sup'.watched = ext.child
      BY <2>3, <1>t DEF Loops
    <3> QED BY <3>1, <2>1, <2>3, <1>q, <1>s, <1>c, <1>t
  <2>4. CASE CountDeath(HookFailed(ext)) /\ HookDeath(sup.made)
    <3>1. /\ sup' \in Loops
          /\ sup'.at = "over" \/ (sup'.at = "spawning" /\ sup'.watched = sup.watched)
      BY <2>4, <1>t, CountLoop
    <3>2. ext' \in {HookFailed(ext), [HookFailed(ext) EXCEPT !.gaveUp = TRUE]}
      BY <2>4 DEF CountDeath
    <3>3. Steady BY <3>2, <2>1, <2>2, <2>4, HookSteady
    <3>4. Dead(extLife', sup.watched) BY <2>2, <3>3 DEF Dead, Steady
    <3> QED BY <3>1, <3>3, <3>4, <2>1, <1>q, <1>c
  <2> QED BY <1>17, <2>3, <2>4 DEF SupervisorEnds
<1>18. CASE SupervisorCancelled \/ DeathExpires \/ UNCHANGED extVars
  <2>1. /\ ext' = ext /\ kid' = kid /\ extLife' = extLife /\ calls' = calls /\ want' = want
        /\ extPc' = extPc /\ old' = old /\ replaced' = replaced /\ held' = held
        /\ \/ sup' = NoLoop("over") \/ sup' = sup
           \/ sup.deaths > 0 /\ sup' = [sup EXCEPT !.deaths = @ - 1]
    BY <1>18 DEF SupervisorCancelled, DeathExpires, extVars, past, attempts
  <2>2. /\ sup' \in Loops
        /\ \/ sup'.at = "over"
           \/ sup'.at = sup.at /\ sup'.watched = sup.watched /\ sup'.made = sup.made
    <3>1. CASE sup' = NoLoop("over") BY <3>1 DEF Loops, NoLoop
    <3>2. CASE sup' = sup BY <3>2, <1>t
    <3>3. CASE sup.deaths > 0 /\ sup' = [sup EXCEPT !.deaths = @ - 1]
      <4> DEFINE n == sup.deaths - 1
      <4>1. n \in Nat /\ sup' = [sup EXCEPT !.deaths = n] BY <3>3, <1>t DEF Loops
      <4> HIDE DEF n
      <4> QED BY <4>1, <1>t DEF Loops
    <3> QED BY <2>1, <3>1, <3>2, <3>3
  <2> QED BY <2>1, <2>2, <1>q, <1>s, <1>c, <1>a DEF AttemptsReal
<1> QED
  BY <1>1, <1>2, <1>3, <1>4, <1>5, <1>6, <1>7, <1>8, <1>9, <1>10, <1>11, <1>12, <1>13, <1>14,
     <1>15, <1>16, <1>17, <1>18
  DEF ExtNext, TaskMoves, SupervisorMoves

(* A process of an earlier incarnation does not run on and retains no host  *)
(* value, however calls end late, hooks fail, policies retry and restarts   *)
(* overlap, except one that was replaced by an attempt which had begun from *)
(* another child.                                                           *)
THEOREM NothingLeft == ExtSpec => []NoResidue
<1>1. ExtInit => HandleOK(ext) /\ ResidueInv
  <2> SUFFICES ASSUME ExtInit PROVE HandleOK(ext) /\ ResidueInv OBVIOUS
  <2>1. HandleOK(ext) /\ ext.child = 1 /\ ext.dead = FALSE BY InitHandle
  <2>2. ext \in Handle /\ 1 \in Children BY <2>1, ExtensionAssumption DEF HandleOK, Children
  <2>3. CallTypes BY <2>1, <2>2 DEF ExtInit, CallTypes, Keys, Wants, NoWant, Pcs
  <2>4. DeathsAreReal BY <2>1, <2>2 DEF ExtInit, DeathsAreReal
  <2>5. OnlyBoundRuns BY <2>1, <2>2 DEF ExtInit, OnlyBoundRuns
  <2>6. AttemptsReal BY DEF ExtInit, AttemptsReal, AttemptTypes, Olds, Loops, NoLoop
  <2> QED BY <2>1, <2>3, <2>4, <2>5, <2>6 DEF ResidueInv
<1>2. (HandleOK(ext) /\ ResidueInv) /\ [ExtNext]_extVars => (HandleOK(ext) /\ ResidueInv)'
  BY SocketStep, ResidueStep
<1>3. ResidueInv => NoResidue
  BY DEF ResidueInv, CallTypes, Handle, DeathsAreReal, OnlyBoundRuns, NoResidue
<1> QED BY <1>1, <1>2, <1>3, PTL DEF ExtSpec
=============================================================================
