---------------------------- MODULE FibersProofs ----------------------------
(* Proofs about Fibers: the frames in the VM are always those of the        *)
(* coroutine the driver resumes, for any tasks, fibers and nesting.         *)
EXTENDS Fibers, TLAPS, FiniteSetTheorems, SequenceTheorems

(* Tasks and fibers are told apart by the code (None against Some(fiber) in *)
(* current_fiber), and neither is the absent value.                         *)
FiberNames == FTasks \cap FFibers = {} /\ Nobody \notin Activations

-----------------------------------------------------------------------------
(* The inductive invariant.                                                 *)

Registers == [cf : Activations, rs : Seq(Activations),
              root : Activations \cup {Nobody}, frames : Activations \cup {Nobody},
              depth : Nat]
FiberStates == [status : {"created", "running", "suspended", "done", "failed"},
                started : BOOLEAN, frames : Activations \cup {Nobody},
                owner : FTasks \cup {Nobody}]

FiberTypes ==
    /\ running \in FTasks
    /\ reg \in Registers
    /\ parked \in [FTasks -> Registers]
    /\ fiber \in [FFibers -> FiberStates]
    /\ nest \in [Activations -> Nat]

(* The chain of task t, in registers r: the root comes first and only there *)
(* (what waits behind it are fibers), nobody is on it twice, and the root's *)
(* frames are in main_saved exactly while a fiber runs.                     *)
ChainShape(t, r) ==
    /\ r.frames = r.cf
    /\ r.rs = <<>> => r.cf = t
    /\ r.rs # <<>> => r.rs[1] = t /\ r.cf \in FFibers /\ r.root = t
    /\ \A i \in 1..Len(r.rs) : r.rs[i] # r.cf
    /\ \A i, j \in 1..Len(r.rs) : r.rs[i] = r.rs[j] => i = j

(* The fibers of a chain are owned by its task.  One that waits keeps its   *)
(* own frames, those of the running one are in the VM.                      *)
Waiting(fs, f, t) == f \in FFibers /\ fs[f].owner = t /\ fs[f].frames = f
                                   /\ fs[f].status = "suspended" /\ fs[f].started
Running(fs, f, t) == fs[f].owner = t /\ fs[f].frames = Nobody
                                   /\ fs[f].status = "running" /\ fs[f].started
ChainOwned(fs, t, r) ==
    /\ \A i \in 1..Len(r.rs) : i # 1 => Waiting(fs, r.rs[i], t)
    /\ r.cf \in FFibers => Running(fs, r.cf, t)

OnChain(f, r) == f = r.cf \/ \E i \in 1..Len(r.rs) : f = r.rs[i]

(* A fiber of a task is on that task's chain; one of no task has its frames *)
(* with it from its first yield to its end.                                 *)
Apart(s, f) ==
    \/ s.status \in {"done", "failed"} /\ s.frames = Nobody
    \/ s.status = "created" /\ s.frames = Nobody /\ ~s.started
    \/ s.status = "suspended" /\ s.frames = f /\ s.started
FiberPlace(f) ==
    /\ fiber[f].owner \in FTasks => OnChain(f, RegistersOf(fiber[f].owner))
    /\ fiber[f].owner = Nobody => Apart(fiber[f], f)

FiberInv ==
    /\ FiberTypes
    /\ \A t \in FTasks : ChainShape(t, RegistersOf(t)) /\ ChainOwned(fiber, t, RegistersOf(t))
    /\ \A f \in FFibers : FiberPlace(f)
    /\ taking => transfer = reg.cf

-----------------------------------------------------------------------------
(* Fresh registers, and no fiber yet resumed.                               *)
LEMMA InitEstablishes ==
  ASSUME FiberNames PROVE FiberInit => FiberInv
<1> SUFFICES ASSUME FiberInit PROVE FiberInv OBVIOUS
<1> USE DEF FiberInit, Fresh, FiberNames, Activations
<1>0. <<>> \in Seq(Activations) /\ Len(<<>>) = 0 OBVIOUS
<1>1. FiberTypes BY <1>0 DEF FiberTypes, Registers, FiberStates
<1>2. ASSUME NEW t \in FTasks PROVE RegistersOf(t) = Fresh(t) BY DEF RegistersOf
<1>3. ASSUME NEW t \in FTasks
      PROVE ChainShape(t, RegistersOf(t)) /\ ChainOwned(fiber, t, RegistersOf(t))
  BY <1>0, <1>2, <1>3 DEF ChainShape, ChainOwned
<1>4. ASSUME NEW f \in FFibers PROVE FiberPlace(f) BY <1>4 DEF FiberPlace, Apart
<1> QED BY <1>1, <1>3, <1>4 DEF FiberInv

(* What the invariant is for.                                               *)
LEMMA InvImplies ==
  ASSUME FiberNames PROVE FiberInv => FramesFollowCoroutine
<1> SUFFICES ASSUME FiberInv PROVE FramesFollowCoroutine OBVIOUS
<1>1. ASSUME NEW t \in FTasks PROVE RegistersOf(t).frames = RegistersOf(t).cf
  BY <1>1 DEF FiberInv, ChainShape
<1>2. taking => transfer = reg.cf BY DEF FiberInv
<1>3. ASSUME NEW f \in FFibers
      PROVE /\ fiber[f].frames \in {Nobody, f}
            /\ Cardinality({t \in FTasks : f \in ChainOf(RegistersOf(t))}) <= 1
            /\ (fiber[f].status = "suspended" => fiber[f].frames = f)
  <2>1. ASSUME NEW t \in FTasks, f \in ChainOf(RegistersOf(t)) PROVE OnChain(f, RegistersOf(t))
    <3>1. RegistersOf(t) \in Registers BY DEF FiberInv, FiberTypes, RegistersOf
    <3>2. PICK i \in DOMAIN Append(RegistersOf(t).rs, RegistersOf(t).cf) :
                 f = Append(RegistersOf(t).rs, RegistersOf(t).cf)[i]
      BY <2>1 DEF ChainOf, Range
    <3> DEFINE r == RegistersOf(t)
    <3>3. r.rs \in Seq(Activations) /\ r.cf \in Activations BY <3>1 DEF Registers
    <3> HIDE DEF r
    <3>4. i \in 1..(Len(r.rs) + 1) /\ f = Append(r.rs, r.cf)[i] BY <3>2, <3>3 DEF r
    <3>5. OnChain(f, r) BY <3>3, <3>4 DEF OnChain
    <3> QED BY <3>5 DEF r
  <2>2. ASSUME NEW t \in FTasks, OnChain(f, RegistersOf(t))
        PROVE  fiber[f].owner = t /\ (Waiting(fiber, f, t) \/ Running(fiber, f, t))
    <3> DEFINE r == RegistersOf(t)
    <3>0. ChainShape(t, r) /\ ChainOwned(fiber, t, r) BY DEF FiberInv
    <3>1. r \in Registers BY DEF FiberInv, FiberTypes, RegistersOf
    <3>2. OnChain(f, r) BY <2>2
    <3> HIDE DEF r
    <3>3. CASE f = r.cf BY <3>0, <3>3 DEF ChainOwned, Running
    <3>4. CASE f # r.cf
      <4>1. PICK i \in 1..Len(r.rs) : f = r.rs[i] BY <3>2, <3>4 DEF OnChain
      <4>2. i # 1 BY <3>0, <4>1, FiberNames, <3>1
                  DEF ChainShape, FiberNames, Registers
      <4> QED BY <3>0, <4>2, <4>1 DEF ChainOwned, Waiting
    <3> QED BY <3>3, <3>4
  <2>3. Cardinality({t \in FTasks : f \in ChainOf(RegistersOf(t))}) <= 1
    <3> DEFINE S == {t \in FTasks : f \in ChainOf(RegistersOf(t))}
    <3>1. \A t \in S : t = fiber[f].owner BY <2>1, <2>2
    <3>2. S = {} \/ S = {fiber[f].owner} BY <3>1
    <3> HIDE DEF S
    <3>3. Cardinality(S) \in {0, 1} BY <3>2, FS_EmptySet, FS_Singleton
    <3> QED BY <3>3 DEF S
  <2>4. CASE fiber[f].owner \in FTasks
    <3>1. OnChain(f, RegistersOf(fiber[f].owner)) BY <2>4 DEF FiberInv, FiberPlace
    <3> QED BY <3>1, <2>2, <2>3, <2>4 DEF Waiting, Running
  <2>5. CASE fiber[f].owner = Nobody
    <3>1. FiberPlace(f) BY DEF FiberInv
    <3> QED BY <3>1, <2>5, <2>3 DEF FiberPlace, Apart
  <2> QED BY <2>4, <2>5 DEF FiberInv, FiberTypes, FiberStates
<1> QED BY <1>1, <1>2, <1>3 DEF FramesFollowCoroutine

-----------------------------------------------------------------------------
(* What a step of one task leaves alone.                                    *)

(* A step that changes no fiber and, of the registers, at most the depth.   *)
LEMMA ChainsStay ==
  ASSUME FiberInv, FiberTypes', fiber' = fiber,
         \A t \in FTasks : /\ RegistersOf(t)'.cf = RegistersOf(t).cf
                           /\ RegistersOf(t)'.rs = RegistersOf(t).rs
                           /\ RegistersOf(t)'.root = RegistersOf(t).root
                           /\ RegistersOf(t)'.frames = RegistersOf(t).frames,
         taking' => transfer' = reg'.cf
  PROVE  FiberInv'
<1>1. ASSUME NEW t \in FTasks
      PROVE (ChainShape(t, RegistersOf(t)) /\ ChainOwned(fiber, t, RegistersOf(t)))'
  <2>1. ChainShape(t, RegistersOf(t)) /\ ChainOwned(fiber, t, RegistersOf(t)) BY DEF FiberInv
  <2> QED BY <2>1 DEF ChainShape, ChainOwned, Waiting, Running
<1>2. ASSUME NEW f \in FFibers PROVE FiberPlace(f)'
  <2>1. FiberPlace(f) BY DEF FiberInv
  <2> QED BY <2>1 DEF FiberPlace, OnChain
<1> QED BY <1>1, <1>2 DEF FiberInv

(* A step of the running task that changes only fibers of its own or of     *)
(* nobody leaves the chains of the other tasks, and their fibers, in place. *)
LEMMA OthersStay ==
  ASSUME FiberInv, FiberTypes', running' = running, parked' = parked,
         \A g \in FFibers : fiber[g].owner \notin {running, Nobody} => fiber'[g] = fiber[g],
         ChainShape(running, reg'), ChainOwned(fiber', running, reg'),
         \A g \in FFibers : fiber[g].owner \in {running, Nobody} => FiberPlace(g)',
         taking' => transfer' = reg'.cf, FiberNames
  PROVE  FiberInv'
<1>1. ASSUME NEW t \in FTasks
      PROVE (ChainShape(t, RegistersOf(t)) /\ ChainOwned(fiber, t, RegistersOf(t)))'
  <2>1. CASE t = running BY <2>1 DEF RegistersOf
  <2>2. CASE t # running
    <3>1. ChainShape(t, parked[t]) /\ ChainOwned(fiber, t, parked[t])
      BY <2>2 DEF FiberInv, RegistersOf
    <3>2. RegistersOf(t)' = parked[t] BY <2>2 DEF RegistersOf
    <3>3. t # Nobody BY DEF FiberNames, Activations
    <3> DEFINE r == parked[t]
    <3>4. \A i \in 1..Len(r.rs) : i # 1 => Waiting(fiber', r.rs[i], t)
      BY <3>1, <3>3, <2>2 DEF ChainOwned, Waiting
    <3>5. r.cf \in FFibers => Running(fiber', r.cf, t)
      BY <3>1, <3>3, <2>2 DEF ChainOwned, Running
    <3> QED BY <3>1, <3>2, <3>4, <3>5 DEF ChainShape, ChainOwned, Waiting, Running
  <2> QED BY <2>1, <2>2
<1>2. ASSUME NEW f \in FFibers PROVE FiberPlace(f)'
  <2>1. CASE fiber[f].owner \in {running, Nobody} BY <2>1
  <2>2. CASE fiber[f].owner \notin {running, Nobody}
    <3>1. FiberPlace(f) /\ fiber'[f] = fiber[f] BY <2>2 DEF FiberInv
    <3>2. fiber[f].owner \in FTasks BY <2>2 DEF FiberInv, FiberTypes, FiberStates
    <3>3. RegistersOf(fiber[f].owner)' = RegistersOf(fiber[f].owner)
      BY <2>2, <3>1 DEF RegistersOf
    <3> QED BY <3>1, <3>2, <3>3 DEF FiberPlace, OnChain
  <2> QED BY <2>1, <2>2
<1> QED BY <1>1, <1>2 DEF FiberInv

-----------------------------------------------------------------------------
(* The actions.                                                             *)

(* A switch of tasks moves the registers and changes none.                  *)
LEMMA SwitchKeeps ==
  ASSUME FiberInv, NEW t \in FTasks, SwitchTask(t) PROVE FiberInv'
<1>1. FiberTypes' BY DEF FiberInv, FiberTypes, SwitchTask
<1>2. ASSUME NEW u \in FTasks PROVE RegistersOf(u)' = RegistersOf(u)
  BY DEF FiberInv, FiberTypes, SwitchTask, RegistersOf
<1>3. ~taking' /\ fiber' = fiber BY DEF SwitchTask
<1> QED BY <1>1, <1>2, <1>3, ChainsStay

(* A native re-entry touches only the depth.                                *)
LEMMA ReentryKeeps ==
  ASSUME FiberInv, enter_native_reentry \/ leave_native_reentry PROVE FiberInv'
<1>1. /\ fiber' = fiber /\ running' = running /\ parked' = parked /\ ~taking'
      /\ reg' \in Registers /\ reg'.cf = reg.cf /\ reg'.rs = reg.rs /\ reg'.root = reg.root
      /\ reg'.frames = reg.frames /\ nest' \in [Activations -> Nat]
  <2>1. reg \in Registers /\ nest \in [Activations -> Nat] BY DEF FiberInv, FiberTypes
  <2>2. PICK d \in Nat : reg' = [reg EXCEPT !.depth = d]
    <3>0. reg.depth \in Nat /\ reg = [reg EXCEPT !.depth = reg.depth] BY <2>1 DEF Registers
    <3>1. CASE enter_native_reentry
      BY <3>0, <3>1 DEF enter_native_reentry
    <3>2. CASE leave_native_reentry
      BY <3>0, <3>2 DEF leave_native_reentry
    <3> QED BY <3>1, <3>2
  <2>3. nest' \in [Activations -> Nat]
    <3>0. reg.cf \in Activations BY <2>1 DEF Registers
    <3>1. CASE enter_native_reentry BY <3>0, <3>1, <2>1 DEF enter_native_reentry
    <3>2. CASE leave_native_reentry BY <3>0, <3>2, <2>1 DEF leave_native_reentry
    <3> QED BY <3>1, <3>2
  <2>4. fiber' = fiber /\ running' = running /\ parked' = parked /\ ~taking'
    BY DEF enter_native_reentry, leave_native_reentry
  <2> QED BY <2>1, <2>2, <2>3, <2>4 DEF Registers
<1>2. FiberTypes' BY <1>1 DEF FiberInv, FiberTypes
<1> QED BY <1>1, <1>2, ChainsStay DEF RegistersOf

(* The transfer is taken.                                                   *)
LEMMA TakeKeeps ==
  ASSUME FiberInv, TakeTransfer PROVE FiberInv'
<1>1. FiberTypes' BY DEF FiberInv, FiberTypes, TakeTransfer
<1> QED BY <1>1, ChainsStay DEF TakeTransfer, RegistersOf

(* Fiber.resume: the fiber, of nobody, goes on top of the chain.            *)
LEMMA ResumeKeeps ==
  ASSUME FiberNames, FiberInv, NEW f \in FFibers, fiber_resume(f) PROVE FiberInv'
<1> DEFINE out == reg.cf
<1>1. /\ ~taking /\ f # out /\ running' = running /\ parked' = parked /\ nest' = nest
      /\ fiber[f].owner \in {Nobody, running} /\ fiber[f].status \notin {"done", "failed"}
      /\ \A i \in 1..Len(reg.rs) : reg.rs[i] # f
  BY DEF fiber_resume, NotMine, Contains
<1>2. FiberTypes /\ ChainShape(running, reg) /\ ChainOwned(fiber, running, reg)
  BY DEF FiberInv, RegistersOf, FiberTypes
<1>3. fiber[f].owner = Nobody
  <2>1. SUFFICES ASSUME fiber[f].owner = running PROVE FALSE BY <1>1
  <2>2. OnChain(f, reg) BY <2>1, <1>2 DEF FiberInv, FiberPlace, RegistersOf, FiberTypes
  <2> QED BY <2>2, <1>1 DEF OnChain
<1>4. fiber[f].started => fiber[f].frames = f
  BY <1>1, <1>3 DEF FiberInv, FiberPlace, Apart
<1>5. reg \in Registers /\ fiber \in [FFibers -> FiberStates] /\ running \in FTasks
  BY <1>2 DEF FiberTypes
<1>6. /\ reg' \in Registers /\ reg'.cf = f /\ reg'.rs = Append(reg.rs, out)
      /\ reg'.frames = f /\ reg'.root = running
  <2>1. SwappedRoot(out, f) = running
    BY <1>2, <1>5 DEF SwappedRoot, ChainShape, FiberNames, Registers, Activations
  <2>2. (IF fiber[f].started THEN Loaded(f) ELSE f) = f
    BY <1>4 DEF Loaded, FiberNames, Activations
  <2>3. reg' = [reg EXCEPT !.cf = f, !.rs = Append(@, out), !.root = running, !.frames = f]
    BY <2>1, <2>2 DEF fiber_resume
  <2>4. Append(reg.rs, out) \in Seq(Activations) /\ f \in Activations /\ running \in Activations
    <3>1. reg.rs \in Seq(Activations) /\ out \in Activations BY <1>5 DEF Registers
    <3> QED BY <3>1, <1>5 DEF Activations
  <2> QED BY <1>5, <2>3, <2>4 DEF Registers
<1>7. fiber' \in [FFibers -> FiberStates]
  <2>1. reg.frames \in Activations \cup {Nobody} BY <1>5 DEF Registers
  <2>2. ASSUME NEW g \in FFibers PROVE fiber'[g] \in FiberStates
    <3>1. Kept(out, f)[g] \in FiberStates BY <2>1, <1>5 DEF Kept, FiberStates
    <3> QED BY <3>1, <1>5 DEF fiber_resume, FiberStates
  <2>3. DOMAIN fiber' = FFibers /\ fiber' = [g \in DOMAIN fiber' |-> fiber'[g]]
    BY DEF fiber_resume
  <2> QED BY <2>2, <2>3
<1>8. Running(fiber', f, running)
  <2>1. Kept(out, f)[f] = [fiber[f] EXCEPT !.frames = Nobody] BY <1>1 DEF Kept
  <2>2. fiber'[f] = [Kept(out, f)[f] EXCEPT !.status = "running", !.started = TRUE,
                                            !.owner = running]
    BY DEF fiber_resume
  <2>3. fiber[f] \in FiberStates BY <1>5
  <2> QED BY <2>1, <2>2, <2>3 DEF FiberStates, Running
<1>9. out \in FFibers => Waiting(fiber', out, running)
  <2>1. out \in FFibers => Running(fiber, out, running) /\ reg.frames = out
    BY <1>2 DEF ChainOwned, ChainShape
  <2> QED BY <2>1, <1>1, <1>5 DEF fiber_resume, Kept, FiberStates, Running, Waiting
<1>10. \A g \in FFibers : g # f /\ g # out => fiber'[g] = fiber[g]
  BY DEF fiber_resume, Kept
<1>11. FiberTypes' BY <1>1, <1>2, <1>6, <1>7 DEF FiberTypes
<1>12. ChainShape(running, reg')
  BY <1>1, <1>2, <1>5, <1>6 DEF ChainShape, Registers, FiberNames, Activations
<1>13. ChainOwned(fiber', running, reg')
  <2>1. ASSUME NEW i \in 1..Len(reg'.rs), i # 1 PROVE Waiting(fiber', reg'.rs[i], running)
    <3>1. CASE i = Len(reg.rs) + 1
      <4>1. reg'.rs[i] = out BY <3>1, <1>6, <1>5 DEF Registers
      <4>2. reg.rs # <<>> BY <3>1, <2>1, <1>5 DEF Registers
      <4>3. out \in FFibers BY <4>2, <1>2 DEF ChainShape
      <4> QED BY <4>1, <4>3, <1>9
    <3>2. CASE i # Len(reg.rs) + 1
      <4>1. i \in 1..Len(reg.rs) /\ reg'.rs[i] = reg.rs[i] BY <3>2, <1>6, <1>5 DEF Registers
      <4>2. Waiting(fiber, reg.rs[i], running) BY <4>1, <2>1, <1>2 DEF ChainOwned
      <4>3. reg.rs[i] # f /\ reg.rs[i] # out BY <4>1, <1>1, <1>2 DEF ChainShape
      <4> QED BY <4>1, <4>2, <4>3, <1>1, <1>10 DEF Waiting
    <3> QED BY <3>1, <3>2
  <2> QED BY <2>1, <1>1, <1>6, <1>8 DEF ChainOwned
<1>14. ASSUME NEW g \in FFibers, fiber[g].owner \in {running, Nobody} PROVE FiberPlace(g)'
  <2>1. FiberPlace(g) BY DEF FiberInv
  <2>0. running # Nobody BY <1>5 DEF FiberNames, Activations
  <2>2. CASE g = f
    <3>1. fiber'[g].owner = running BY <2>2, <1>8 DEF Running
    <3>2. OnChain(g, reg)' BY <2>2, <1>6 DEF OnChain
    <3> QED BY <3>1, <3>2, <2>0, <1>1 DEF FiberPlace, RegistersOf
  <2>3. CASE g = out
    <3>1. fiber'[g].owner = running BY <2>3, <1>9 DEF Waiting
    <3>2. reg'.rs[Len(reg'.rs)] = out /\ Len(reg'.rs) \in 1..Len(reg'.rs)
      BY <1>6, <1>5 DEF Registers
    <3>3. OnChain(g, reg)' BY <2>3, <3>2 DEF OnChain
    <3> QED BY <3>1, <3>3, <2>0, <1>1 DEF FiberPlace, RegistersOf
  <2>4. CASE g # f /\ g # out
    <3>1. fiber'[g] = fiber[g] BY <2>4, <1>10
    <3>2. CASE fiber[g].owner = Nobody
      BY <3>1, <3>2, <2>1, <2>0, <1>1 DEF FiberPlace, FiberNames, Activations
    <3>3. CASE fiber[g].owner = running
      <4>1. OnChain(g, reg) BY <3>3, <2>1, <1>5 DEF FiberPlace, RegistersOf
      <4>2. PICK i \in 1..Len(reg.rs) : g = reg.rs[i] BY <4>1, <2>4 DEF OnChain
      <4>3. i \in 1..Len(reg'.rs) /\ g = reg'.rs[i] BY <4>2, <1>6, <1>5 DEF Registers
      <4>4. OnChain(g, reg)' BY <4>3 DEF OnChain
      <4> QED BY <3>1, <3>3, <4>4, <2>0, <1>1 DEF FiberPlace, RegistersOf
    <3> QED BY <3>2, <3>3, <1>14
  <2> QED BY <2>2, <2>3, <2>4
<1>15. taking' => transfer' = reg'.cf BY <1>6 DEF fiber_resume
<1>16. \A g \in FFibers : fiber[g].owner \notin {running, Nobody} => fiber'[g] = fiber[g]
  BY <1>3, <1>2, <1>10 DEF ChainOwned, Running
<1> QED BY <1>1, <1>11, <1>12, <1>13, <1>14, <1>15, <1>16, OthersStay

(* fiber_yield and do_fiber_done alike: the running fiber leaves the chain, *)
(* in state s, and its resumer runs on.                                     *)
WentBack(s, d) ==
    /\ reg' = [BackTo(Resumer, SwappedRoot(reg.cf, Resumer)) EXCEPT !.depth = d]
    /\ fiber' = [f \in FFibers |->
          IF f = reg.cf THEN s
          ELSE IF f = Resumer THEN [Kept(reg.cf, Resumer)[f] EXCEPT !.status = "running"]
          ELSE fiber[f]]
(* Such a step keeps the invariant.                                         *)
LEMMA BackKeeps ==
  ASSUME FiberNames, FiberInv, reg.cf \in FFibers,
         NEW d \in Nat, NEW s \in FiberStates, s.owner = Nobody, Apart(s, reg.cf),
         WentBack(s, d), nest' \in [Activations -> Nat], running' = running, parked' = parked,
         transfer' = Resumer
  PROVE  FiberInv'
<1> DEFINE out == reg.cf
           in == Resumer
           n == Len(reg.rs)
<1>1. FiberTypes /\ ChainShape(running, reg) /\ ChainOwned(fiber, running, reg)
  BY DEF FiberInv, RegistersOf, FiberTypes
<1>2. reg \in Registers /\ fiber \in [FFibers -> FiberStates] /\ running \in FTasks
  BY <1>1 DEF FiberTypes
<1>0. running # Nobody /\ running \in Activations /\ running \notin FFibers
  BY <1>2 DEF FiberNames, Activations
<1>3. /\ reg.rs \in Seq(Activations) /\ reg.rs # <<>> /\ n \in Nat /\ n >= 1
      /\ in = reg.rs[n] /\ in # out /\ in \in Activations
  <2>1. reg.rs # <<>> BY <1>1, <1>0 DEF ChainShape
  <2>2. reg.rs \in Seq(Activations) /\ n \in Nat /\ n >= 1 BY <2>1, <1>2 DEF Registers
  <2> QED BY <2>1, <2>2, <1>1 DEF Resumer, Last, ChainShape
<1>4. reg.rs[1] = running /\ reg.root = running /\ reg.frames = out
  BY <1>1, <1>3 DEF ChainShape
<1>5. in \in FTasks => n = 1 /\ in = running
  <2>1. SUFFICES ASSUME in \in FTasks PROVE n = 1 BY <1>4, <1>3
  <2>2. n # 1 => Waiting(fiber, reg.rs[n], running)
    <3>0. n \in Nat /\ n >= 1 /\ n = Len(reg.rs) BY <1>3
    <3> HIDE DEF n
    <3>1. n \in 1..Len(reg.rs) BY <3>0
    <3> QED BY <3>1, <1>1 DEF ChainOwned
  <2> QED BY <2>1, <2>2, <1>3 DEF Waiting, FiberNames
<1>6. in \notin FTasks => n # 1 /\ Waiting(fiber, in, running)
  <2>1. SUFFICES ASSUME in \notin FTasks PROVE Waiting(fiber, in, running) /\ n # 1 OBVIOUS
  <2>2. n # 1 BY <2>1, <1>3, <1>4, <1>2
  <2>5. n \in Nat /\ n >= 1 /\ n = Len(reg.rs) BY <1>3
  <2>4. in = reg.rs[n] BY <1>3
  <2> HIDE DEF n, in
  <2>3. n \in 1..Len(reg.rs) BY <2>5
  <2> QED BY <2>2, <2>3, <2>4, <1>1 DEF ChainOwned
<1>7. Front(reg.rs) \in Seq(Activations) /\ Len(Front(reg.rs)) = n - 1
      /\ \A i \in 1..(n - 1) : Front(reg.rs)[i] = reg.rs[i]
  BY <1>3 DEF Front
<1>8. Loaded(in) = in BY <1>4, <1>5, <1>6 DEF Loaded, Waiting
<1>9. reg' = [reg EXCEPT !.cf = in, !.rs = Front(reg.rs), !.root = SwappedRoot(out, in),
                         !.frames = in, !.depth = d]
  BY <1>2, <1>8 DEF BackTo, Registers, WentBack
<1>10. SwappedRoot(out, in) = IF in \in FTasks THEN Nobody ELSE running
  BY <1>4 DEF SwappedRoot, FiberNames
<1>11. /\ reg' \in Registers /\ reg'.cf = in /\ reg'.rs = Front(reg.rs) /\ reg'.frames = in
       /\ in \notin FTasks => reg'.root = running
  <2>1. SwappedRoot(out, in) \in Activations \cup {Nobody} BY <1>10, <1>0
  <2> QED BY <1>2, <1>3, <1>7, <1>9, <1>10, <2>1 DEF Registers
<1>12. fiber'[out] = s BY <1>3 DEF WentBack
<1>13. in \in FFibers => /\ Running(fiber', in, running) /\ fiber'[in] \in FiberStates
  <2>1. SUFFICES ASSUME in \in FFibers PROVE Running(fiber', in, running)
                                               /\ fiber'[in] \in FiberStates
    OBVIOUS
  <2>2. Waiting(fiber, in, running) BY <2>1, <1>6 DEF FiberNames
  <2>3. fiber'[in] = [fiber[in] EXCEPT !.frames = Nobody, !.status = "running"]
    BY <2>1, <1>3 DEF Kept, WentBack
  <2>4. fiber[in] \in FiberStates BY <2>1, <1>2
  <2> QED BY <2>2, <2>3, <2>4 DEF Waiting, Running, FiberStates
<1>14. \A g \in FFibers : g # out /\ g # in => fiber'[g] = fiber[g] BY DEF WentBack
<1>15. fiber' \in [FFibers -> FiberStates]
  <2>1. DOMAIN fiber' = FFibers /\ fiber' = [g \in DOMAIN fiber' |-> fiber'[g]] BY DEF WentBack
  <2>2. \A g \in FFibers : fiber'[g] \in FiberStates BY <1>12, <1>13, <1>14, <1>2
  <2> QED BY <2>1, <2>2
<1> HIDE DEF in, n
<1>22. /\ Len(reg'.rs) = n - 1 /\ n \in Nat /\ n = Len(reg.rs) /\ n \in 1..Len(reg.rs)
       /\ \A i \in 1..(n - 1) : reg'.rs[i] = reg.rs[i] /\ i \in 1..Len(reg.rs) /\ i # n
  <2>1. n = Len(reg.rs) BY DEF n
  <2>2. n \in Nat /\ n >= 1 BY <1>3
  <2>3. n \in 1..Len(reg.rs) BY <2>1, <2>2
  <2>4. Len(reg'.rs) = n - 1 BY <1>7, <1>11
  <2>5. ASSUME NEW i \in 1..(n - 1) PROVE reg'.rs[i] = reg.rs[i] BY <1>7, <1>11
  <2>6. ASSUME NEW i \in 1..(n - 1) PROVE i \in 1..Len(reg.rs) /\ i # n BY <2>1, <2>2
  <2> QED BY <2>1, <2>2, <2>3, <2>4, <2>5, <2>6
<1>16. FiberTypes' BY <1>1, <1>11, <1>15 DEF FiberTypes
<1>17. ChainShape(running, reg')
  <2>1. reg'.rs = <<>> => in = running BY <1>7, <1>11, <1>3, <1>4
  <2>2. reg'.rs # <<>> => reg'.rs[1] = running /\ in \in FFibers /\ reg'.root = running
    <3>1. SUFFICES ASSUME reg'.rs # <<>>
                   PROVE  reg'.rs[1] = running /\ in \in FFibers /\ reg'.root = running
      OBVIOUS
    <3>2. n - 1 >= 1 BY <3>1, <1>7, <1>11, <1>3
    <3>3. Waiting(fiber, in, running) /\ in \notin FTasks BY <3>2, <1>5, <1>6, <1>3
    <3>4. reg'.rs[1] = reg.rs[1] BY <3>2, <1>22
    <3> QED BY <3>4, <3>3, <1>4, <1>11 DEF Waiting
  <2>3. \A i \in 1..Len(reg'.rs) : reg'.rs[i] = reg.rs[i] /\ i \in 1..n /\ i # n
    BY <1>22
  <2>4. n \in 1..Len(reg.rs) BY <1>3 DEF n
  <2>5. \A i \in 1..Len(reg'.rs) : reg'.rs[i] # in BY <2>3, <2>4, <1>1, <1>3 DEF ChainShape, n
  <2>6. \A i, j \in 1..Len(reg'.rs) : reg'.rs[i] = reg'.rs[j] => i = j
    BY <2>3, <1>1 DEF ChainShape, n
  <2> QED BY <2>1, <2>2, <2>5, <2>6, <1>11 DEF ChainShape
<1>18. ChainOwned(fiber', running, reg')
  <2>1. ASSUME NEW i \in 1..Len(reg'.rs), i # 1 PROVE Waiting(fiber', reg'.rs[i], running)
    <3>1. i # n /\ reg'.rs[i] = reg.rs[i] /\ i \in 1..n BY <1>22
    <3>2. Waiting(fiber, reg.rs[i], running) BY <3>1, <2>1, <1>1 DEF ChainOwned, n
    <3>3. reg.rs[i] # out /\ reg.rs[i] # in BY <3>1, <1>1, <1>3, <1>22 DEF ChainShape
    <3>4. reg.rs[i] \in FFibers BY <3>2 DEF Waiting
    <3>5. fiber'[reg.rs[i]] = fiber[reg.rs[i]] BY <3>3, <3>4, <1>14
    <3> QED BY <3>1, <3>2, <3>5 DEF Waiting
  <2> QED BY <2>1, <1>11, <1>13 DEF ChainOwned
<1>19. ASSUME NEW g \in FFibers, fiber[g].owner \in {running, Nobody} PROVE FiberPlace(g)'
  <2>1. FiberPlace(g) BY DEF FiberInv
  <2>2. CASE g = out
    BY <2>2, <1>12 DEF FiberPlace, FiberNames, Activations
  <2>3. CASE g = in
    <3>1. fiber'[g].owner = running BY <2>3, <1>13 DEF Running
    <3>2. OnChain(g, reg)' BY <2>3, <1>11 DEF OnChain
    <3> QED BY <3>1, <3>2, <1>0 DEF FiberPlace, RegistersOf
  <2>4. CASE g # out /\ g # in
    <3>1. fiber'[g] = fiber[g] BY <2>4, <1>14
    <3>2. CASE fiber[g].owner = Nobody
      BY <3>1, <3>2, <2>1, <1>0 DEF FiberPlace, FiberNames, Activations
    <3>3. CASE fiber[g].owner = running
      <4>1. OnChain(g, reg) BY <3>3, <2>1, <1>2 DEF FiberPlace, RegistersOf
      <4>2. PICK i \in 1..Len(reg.rs) : g = reg.rs[i] BY <4>1, <2>4 DEF OnChain
      <4>3. i # n BY <4>2, <2>4, <1>3
      <4>4. i \in 1..Len(reg'.rs) /\ g = reg'.rs[i]
        BY <4>2, <4>3, <1>22
      <4>5. OnChain(g, reg)' BY <4>4 DEF OnChain
      <4> QED BY <3>1, <3>3, <4>5, <1>0 DEF FiberPlace, RegistersOf
    <3> QED BY <3>2, <3>3, <1>19
  <2> QED BY <2>2, <2>3, <2>4
<1>20. taking' => transfer' = reg'.cf BY <1>11 DEF in
<1>21. \A g \in FFibers : fiber[g].owner \notin {running, Nobody} => fiber'[g] = fiber[g]
  <2>1. fiber[out].owner = running BY <1>1 DEF ChainOwned, Running
  <2>2. in \in FFibers => fiber[in].owner = running BY <1>6 DEF Waiting, FiberNames
  <2> QED BY <2>1, <2>2, <1>14
<1> QED BY <1>16, <1>17, <1>18, <1>19, <1>20, <1>21, OthersStay

(* Fiber.yield: the fiber leaves with its frames.                           *)
LEMMA YieldKeeps ==
  ASSUME FiberNames, FiberInv, fiber_yield PROVE FiberInv'
<1>1. reg \in Registers /\ fiber \in [FFibers -> FiberStates] /\ reg.cf \in FFibers
      /\ ChainShape(running, reg) /\ ChainOwned(fiber, running, reg)
  BY DEF FiberInv, FiberTypes, fiber_yield, RegistersOf
<1> DEFINE s == Yielded(reg.cf)
<1>2. s \in FiberStates /\ s.owner = Nobody /\ Apart(s, reg.cf)
  <2>1. fiber[reg.cf] \in FiberStates /\ fiber[reg.cf].started /\ reg.frames = reg.cf
    BY <1>1 DEF ChainShape, ChainOwned, Running
  <2>2. reg.cf \in Activations BY <1>1 DEF Registers
  <2> QED BY <2>1, <2>2 DEF Yielded, FiberStates, Apart
<1>3. reg.depth \in Nat
      /\ reg' = [BackTo(Resumer, SwappedRoot(reg.cf, Resumer)) EXCEPT !.depth = reg.depth]
  BY <1>1 DEF fiber_yield, BackTo, Registers
<1>4. WentBack(s, reg.depth) BY <1>3 DEF fiber_yield, WentBack
<1>5. nest' \in [Activations -> Nat] /\ running' = running /\ parked' = parked
      /\ transfer' = Resumer
  BY DEF fiber_yield, FiberInv, FiberTypes
<1> HIDE DEF s
<1> QED BY <1>1, <1>2, <1>3, <1>4, <1>5, BackKeeps

(* The end of a fiber, which leaves no frames.                              *)
LEMMA DoneKeeps ==
  ASSUME FiberNames, FiberInv, NEW st \in {"done", "failed"}, do_fiber_done(st)
  PROVE  FiberInv'
<1>1. reg \in Registers /\ fiber \in [FFibers -> FiberStates] /\ reg.cf \in FFibers
      /\ ChainOwned(fiber, running, reg) /\ nest \in [Activations -> Nat]
  BY DEF FiberInv, FiberTypes, do_fiber_done, RegistersOf
<1> DEFINE s == [fiber[reg.cf] EXCEPT !.status = st, !.owner = Nobody]
           d == IF reg.depth > nest[reg.cf] THEN reg.depth - nest[reg.cf] ELSE 0
<1>2. s \in FiberStates /\ s.owner = Nobody /\ Apart(s, reg.cf)
  BY <1>1 DEF FiberStates, ChainOwned, Running, Apart
<1>3. d \in Nat BY <1>1 DEF Registers, Activations
<1>4. reg' = [BackTo(Resumer, SwappedRoot(reg.cf, Resumer)) EXCEPT !.depth = d]
  BY <1>1 DEF do_fiber_done, BackTo, Registers
<1>5. WentBack(s, d) BY <1>4 DEF do_fiber_done, WentBack
<1>6. nest' \in [Activations -> Nat] /\ running' = running /\ parked' = parked
      /\ transfer' = Resumer
  BY <1>1 DEF do_fiber_done, Activations
<1> HIDE DEF s, d
<1> QED BY <1>1, <1>2, <1>3, <1>4, <1>5, <1>6, BackKeeps

(* Every step.                                                              *)
LEMMA StepKeeps ==
  ASSUME FiberNames PROVE FiberInv /\ [FiberNext]_fiberVars => FiberInv'
<1> SUFFICES ASSUME FiberInv, [FiberNext]_fiberVars PROVE FiberInv' OBVIOUS
<1>1. CASE \E t \in FTasks : SwitchTask(t) BY <1>1, SwitchKeeps
<1>2. CASE \E f \in FFibers : fiber_resume(f) BY <1>2, ResumeKeeps
<1>3. CASE fiber_yield BY <1>3, YieldKeeps
<1>4. CASE \E st \in {"done", "failed"} : do_fiber_done(st) BY <1>4, DoneKeeps
<1>5. CASE TakeTransfer BY <1>5, TakeKeeps
<1>6. CASE enter_native_reentry \/ leave_native_reentry BY <1>6, ReentryKeeps
<1>7. CASE UNCHANGED fiberVars
  <2>1. FiberTypes' BY <1>7 DEF FiberInv, FiberTypes, fiberVars
  <2> QED BY <2>1, <1>7, ChainsStay DEF fiberVars, RegistersOf, FiberInv
<1> QED BY <1>1, <1>2, <1>3, <1>4, <1>5, <1>6, <1>7 DEF FiberNext

(* Whatever tasks are switched, fibers resumed, handed from task to task,   *)
(* yielding, finishing or failing, at any nesting: the frames in the VM are *)
(* those of the coroutine the driver resumes, the transferred value is      *)
(* taken by the one it was put there for, and no fiber is on two chains.    *)
THEOREM FramesFollow ==
  ASSUME FiberNames PROVE FiberSpec => []FramesFollowCoroutine
<1>1. FiberInit => FiberInv BY InitEstablishes
<1>2. FiberInv /\ [FiberNext]_fiberVars => FiberInv' BY StepKeeps
<1>3. FiberInv => FramesFollowCoroutine BY InvImplies
<1> QED BY <1>1, <1>2, <1>3, PTL DEF FiberSpec
=============================================================================
