----------------------------- MODULE Instances -----------------------------
(* Making instances (vm/class.rs, vm/exec.rs, dispatch.rs): the append-only *)
(* field layout of a class, the memoized instantiation plan, the chain of   *)
(* initializers, the fused form of `new:`, the field caches of call sites,  *)
(* and the eigenclass of an extended instance.  Methods, mixins and flags   *)
(* may be added at any time, also while a block or an initializer of        *)
(* another instantiation is parked.                                         *)
EXTENDS Integers, Sequences, FiniteSets, SequencesExt

CONSTANTS ITasks, MaxObjs, MaxChanges,
          InstMoves   \* "midway": mix while an instantiation is under way;
                      \* "lateAbstract": abstract! after a site learnt otherwise
VARIABLES cls,        \* the classes, by name or address
          epoch,      \* dispatch_epoch
          objs,       \* the instances made: their class and fields
          sites,      \* what the inline cache of each site remembers
          inst,       \* the instantiation each task is in
          misread,    \* a read answered another field's value
          crashed
instvars == <<cls, epoch, objs, sites, inst, misread, crashed>>
----------------------------------------------------------------------------
(* A parent, its child, a mixin, and one eigenclass.  A field's value is    *)
(* the name it was stored under.                                            *)
Named == {"P", "C", "M"}
Eigen == "$1"
FieldSites == {"x", "z"}                  \* a method of P that reads and writes @x, @z
NewSite == "new:"
Blank == [kind |-> "none", epoch |-> 0, class |-> "none", n |-> 0]
NoPlan == [epoch |-> 0 - 1, slots |-> {}, inits |-> <<>>]
Class(parent, vars) ==
    [parent |-> parent, vars |-> vars, mixins |-> <<>>, defines |-> {}, slots |-> <<>>, plan |-> NoPlan,
     eigen |-> FALSE, sealed |-> FALSE, abstract |-> FALSE]
Idle == [pc |-> "idle", o |-> 0, class |-> "none", env |-> {}, names |-> {}, byBlock |-> FALSE, chain |-> <<>>, ran |-> <<>>, due |-> <<>>]
InstInit ==
    /\ cls = [c \in Named \cup {Eigen} |->
                 CASE c = "P" -> Class("none", <<"x">>) [] c = "C" -> Class("P", <<"y">>)
                   [] c = "M" -> Class("none", <<"z">>) [] OTHER -> Class("none", <<>>)]
    /\ epoch = 0 /\ objs = <<>> /\ sites = [s \in FieldSites \cup {NewSite} |-> Blank]
    /\ inst = [t \in ITasks |-> Idle] /\ misread = FALSE /\ crashed = FALSE
----------------------------------------------------------------------------
(* The hierarchy, in the order of lookups and in that of initializers.      *)
Distinct(s) == FoldLeft(LAMBDA r, e : IF e \in Range(r) THEN r ELSE Append(r, e), <<>>, s)
RECURSIVE Upward(_)
Upward(c) == IF c = "none" THEN <<>> ELSE Distinct(<<c>> \o cls[c].mixins \o Upward(cls[c].parent))
RECURSIVE collect_classes_for_init(_)
collect_classes_for_init(c) ==
    IF c = "none" THEN <<>> ELSE Distinct(collect_classes_for_init(cls[c].parent) \o cls[c].mixins \o <<c>>)
collect_instance_vars(c) == LET up == Upward(c) IN Distinct(FlattenSeq([i \in DOMAIN up |-> cls[up[i]].vars]))
SlotIn(slots, v) == IF v \in Range(slots) THEN CHOOSE i \in DOMAIN slots : slots[i] = v ELSE 0
field_slot(c, v) == SlotIn(cls[c].slots, v)
\* New names take trailing slots; the others keep theirs.
ensure_field_layout(c) ==
    LET missing == SelectSeq(collect_instance_vars(c), LAMBDA v : v \notin Range(cls[c].slots))
    IN  cls[c].slots \o missing
NewObject(c) == [class |-> c, fields |-> [i \in DOMAIN ensure_field_layout(c) |-> "nil"]]
Defines(c, what) == \E i \in DOMAIN Upward(c) : what \in cls[Upward(c)[i]].defines
ensure_instantiable_any(c) == TRUE
ensure_instantiable(c) == ~cls[c].abstract
----------------------------------------------------------------------------
(* The plan: where each instance variable goes and which initializers run,  *)
(* base first.  It is remembered for as long as the epoch stands.           *)
FreshPlan(k, c) ==
    LET chain == SelectSeq(collect_classes_for_init(c), LAMBDA d : k[d].defines \cap {"init", "init:"} # {})
    IN  [epoch |-> epoch, inits |-> [i \in DOMAIN chain |-> <<chain[i], k[chain[i]].defines>>],
         slots |-> {<<v, SlotIn(k[c].slots, v)>> : v \in Range(collect_instance_vars(c)) \cap Range(k[c].slots)}]
instantiation_plan_kept(k, c) == IF k[c].plan = NoPlan THEN FreshPlan(k, c) ELSE k[c].plan
instantiation_plan(k, c) == IF k[c].plan.epoch = epoch THEN k[c].plan ELSE FreshPlan(k, c)
Planned(k, c) == [k EXCEPT ![c].plan = instantiation_plan(k, c)]
Bind(fields, plan, env) ==
    [i \in DOMAIN fields |-> LET v == {p[1] : p \in {q \in plan.slots : q[2] = i}} \cap env
                             IN  IF v = {} THEN fields[i] ELSE CHOOSE e \in v : TRUE]
\* A binding beyond the fields the object was made with is a panic.
Overruns(fields, plan, env) == \E p \in plan.slots : p[1] \in env /\ p[2] > Len(fields)
run_init_chain_planned(t, o, env, byBlock, plan, class) ==
    inst' = [inst EXCEPT ![t] = [pc |-> "inits", o |-> o, class |-> class, env |-> env, names |-> {}, byBlock |-> byBlock,
                                 chain |-> plan.inits, ran |-> <<>>, due |-> FreshPlan(cls, class).inits]]
----------------------------------------------------------------------------
(* new: { ... }: the object, then its block in a frame of its own, then the *)
(* bindings it left and the initializers.                                   *)
Can(t) == ~crashed /\ inst[t].pc = "idle" /\ Len(objs) < MaxObjs
Made(c) == objs' = Append(objs, NewObject(c)) /\ cls' = [cls EXCEPT ![c].slots = ensure_field_layout(c)]
StartBlock(t, c) ==
    /\ Made(c)
    /\ inst' = [inst EXCEPT ![t] = [Idle EXCEPT !.pc = "block", !.o = Len(objs) + 1, !.class = c, !.byBlock = TRUE]]
CallNew(t, c) ==
    /\ Can(t) /\ c # "M" /\ ~Defines(c, "new:") /\ ensure_instantiable(c)
    /\ StartBlock(t, c) /\ UNCHANGED <<epoch, sites, misread, crashed>>
StoreLocal(t, v) ==
    /\ ~crashed /\ inst[t].pc = "block" /\ v \notin inst[t].env
    /\ inst' = [inst EXCEPT ![t].env = @ \cup {v}]
    /\ UNCHANGED <<cls, epoch, objs, sites, misread, crashed>>
Finalize(t, o, k, plan, env, bare) ==
    /\ cls' = Planned(k, objs'[o].class)
    /\ crashed' = Overruns(bare.fields, plan, env)
    /\ run_init_chain_planned(t, o, env, TRUE, plan, bare.class)
finalize_instantiation(t) ==
    LET o == inst[t].o
        plan == instantiation_plan(cls, objs[o].class)
    IN  /\ ~crashed /\ inst[t].pc = "block"
        /\ objs' = [objs EXCEPT ![o].fields = Bind(@, plan, inst[t].env)]
        /\ Finalize(t, o, cls, plan, inst[t].env, objs[o])
        /\ UNCHANGED <<epoch, sites, misread>>
\* new: no block, and only the plain initializers.
CallNewNoBlock(t, c) ==
    /\ Can(t) /\ c # "M" /\ ~Defines(c, "new") /\ ensure_instantiable(c)
    /\ objs' = Append(objs, NewObject(c))
    /\ LET k == [cls EXCEPT ![c].slots = ensure_field_layout(c)]
       IN  cls' = Planned(k, c) /\ run_init_chain_planned(t, Len(objs) + 1, {}, FALSE, instantiation_plan(k, c), c)
    /\ UNCHANGED <<epoch, sites, misread, crashed>>
\* One initializer: `init:` is fed from the block, else `init`.  It may raise.
Initializer(t, entry) ==
    IF inst[t].byBlock /\ "init:" \in entry[2] THEN "init:" ELSE IF "init" \in entry[2] THEN "init" ELSE "none"
NextInit(t) ==
    /\ ~crashed /\ inst[t].pc = "inits" /\ inst[t].chain # <<>>
    /\ inst' = [inst EXCEPT ![t].chain = Tail(@), ![t].ran = Append(@, Head(inst[t].chain))]
    /\ UNCHANGED <<cls, epoch, objs, sites, misread, crashed>>
InitRaises(t) ==
    /\ ~crashed /\ inst[t].pc = "inits" /\ inst[t].ran # <<>> /\ Initializer(t, Last(inst[t].ran)) # "none"
    /\ inst' = [inst EXCEPT ![t] = Idle] /\ UNCHANGED <<cls, epoch, objs, sites, misread, crashed>>
InstanceDone(t) ==
    /\ ~crashed /\ inst[t].pc = "inits" /\ inst[t].chain = <<>>
    /\ inst' = [inst EXCEPT ![t] = Idle] /\ UNCHANGED <<cls, epoch, objs, sites, misread, crashed>>
----------------------------------------------------------------------------
(* The fused form: one verdict per class and site, before the field         *)
(* expressions run; no frame and no environment unless there is an init.    *)
plain_new_verdict(c) == ~Defines(c, "new:") /\ ensure_instantiable(c)
plain_new_probe(c) ==
    sites[NewSite].kind = "new" /\ sites[NewSite].epoch = epoch /\ sites[NewSite].class = c
plain_new_check_cached(c) == IF plain_new_probe(c) THEN sites[NewSite].n = 1 ELSE plain_new_verdict(c)
BranchIfNotPlainNew(t, c, names) ==
    /\ Can(t) /\ c # "M"
    /\ sites' = [sites EXCEPT ![NewSite] =
                     [kind |-> "new", epoch |-> epoch, class |-> c, n |-> IF plain_new_check_cached(c) THEN 1 ELSE 0]]
    /\ inst' = IF plain_new_check_cached(c)
               THEN [inst EXCEPT ![t] = [Idle EXCEPT !.pc = "fields", !.class = c, !.names = names]] ELSE inst
    /\ UNCHANGED <<cls, epoch, objs, misread, crashed>>
exec_new_with_fields(t) ==
    LET c == inst[t].class
        k == [cls EXCEPT ![c].slots = ensure_field_layout(c)]
        plan == instantiation_plan(k, c)
    IN  /\ ~crashed /\ inst[t].pc = "fields" /\ Len(objs) < MaxObjs
        /\ objs' = Append(objs, [class |-> c, fields |-> Bind(NewObject(c).fields, plan, inst[t].names)])
        /\ Finalize(t, Len(objs) + 1, k, plan, inst[t].names, NewObject(c))
        /\ UNCHANGED <<epoch, sites, misread>>
----------------------------------------------------------------------------
(* Fields, read and written by name at a site that remembers one class.     *)
field_probe_any(s, c) == sites[s].kind = "field" /\ sites[s].epoch = epoch
field_probe(s, c) == sites[s].kind = "field" /\ sites[s].epoch = epoch /\ sites[s].class = c
SlotAt(s, c) == IF field_probe(s, c) THEN sites[s].n ELSE field_slot(c, s)
field_fill(s, c) ==
    IF cls[c].eigen \/ field_probe(s, c) THEN sites
    ELSE [sites EXCEPT ![s] = [kind |-> "field", epoch |-> epoch, class |-> c, n |-> field_slot(c, s)]]
field_of(o, s) ==
    LET c == objs[o].class
        at == SlotAt(s, c)
    IN  /\ ~crashed
        /\ misread' = (at \in DOMAIN objs[o].fields /\ objs[o].fields[at] \notin {"nil", s})
        /\ sites' = IF at = 0 THEN sites ELSE field_fill(s, c)
        /\ UNCHANGED <<cls, epoch, objs, inst, crashed>>
\* A name the class lacks, or took on after this object was made, is an error.
field_store_cached(o, s) ==
    LET c == objs[o].class
    IN  IF SlotAt(s, c) \in DOMAIN objs[o].fields THEN SlotAt(s, c) ELSE field_slot(c, s)
store_field_value(o, s) ==
    LET c == objs[o].class
        at == field_store_cached(o, s)
    IN  /\ ~crashed /\ at \in DOMAIN objs[o].fields
        /\ objs' = [objs EXCEPT ![o].fields[at] = s] /\ sites' = field_fill(s, c)
        /\ UNCHANGED <<cls, epoch, inst, misread, crashed>>
----------------------------------------------------------------------------
(* Changes to classes.                                                      *)
invalidate == epoch < MaxChanges /\ epoch' = epoch + 1
Underway == \E t \in ITasks : inst[t].pc # "idle"
ensure_not_sealed(c) == ~cls[c].sealed
DefineMethod(c, what) ==
    /\ ~crashed /\ ensure_not_sealed(c) /\ what \notin cls[c].defines
    /\ cls' = [cls EXCEPT ![c].defines = @ \cup {what}] /\ invalidate
    /\ UNCHANGED <<objs, sites, inst, misread, crashed>>
\* A mixin's variables and initializers join the class.
mix(c) ==
    /\ ~crashed /\ ensure_not_sealed(c) /\ c \in {"P", "C"} /\ cls[c].mixins = <<>>
    /\ ("midway" \in InstMoves \/ ~Underway)
    /\ cls' = [cls EXCEPT ![c].mixins = <<"M">>] /\ invalidate
    /\ UNCHANGED <<objs, sites, inst, misread, crashed>>
seal(c) ==
    /\ ~crashed /\ ~cls[c].sealed /\ cls' = [cls EXCEPT ![c].sealed = TRUE]
    /\ UNCHANGED <<epoch, objs, sites, inst, misread, crashed>>
abstract(c) ==
    /\ ~crashed /\ ~cls[c].abstract
    /\ ("lateAbstract" \in InstMoves \/ (sites[NewSite].class # c /\ ~Underway))
    /\ cls' = [cls EXCEPT ![c].abstract = TRUE]
    /\ UNCHANGED <<epoch, objs, sites, inst, misread, crashed>>
\* Extending an instance gives it a class of its own with its class's layout.
get_target_class_for_def(o) == [Class(objs[o].class, <<>>) EXCEPT !.eigen = TRUE, !.slots = cls[objs[o].class].slots]
ExtendInstance(o) ==
    /\ ~crashed /\ ~cls[Eigen].eigen /\ cls' = [cls EXCEPT ![Eigen] = get_target_class_for_def(o)]
    /\ objs' = [objs EXCEPT ![o].class = Eigen] /\ invalidate
    /\ UNCHANGED <<sites, inst, misread, crashed>>

InstNext ==
    \/ \E t \in ITasks, c \in {"P", "C"} : CallNew(t, c) \/ CallNewNoBlock(t, c)
    \/ \E t \in ITasks, c \in {"P", "C"}, names \in {{"x", "z"}} : BranchIfNotPlainNew(t, c, names)
    \/ \E t \in ITasks, v \in {"x", "z"} : StoreLocal(t, v)
    \/ \E t \in ITasks : finalize_instantiation(t) \/ NextInit(t) \/ InitRaises(t) \/ InstanceDone(t) \/ exec_new_with_fields(t)
    \/ \E o \in DOMAIN objs, s \in FieldSites : field_of(o, s) \/ store_field_value(o, s)
    \/ \E d \in {<<"P", "init">>, <<"M", "init:">>, <<"C", "init">>, <<"P", "new:">>} : DefineMethod(d[1], d[2])
    \/ \E c \in {"P", "C"} : mix(c)
    \/ seal("P") \/ abstract("C")
    \/ \E o \in DOMAIN objs : ExtendInstance(o)
InstSpec == InstInit /\ [][InstNext]_instvars
----------------------------------------------------------------------------
(* Every value lies in the slot of the name it was stored under, and a read *)
(* answers its own name's value, whichever classes met at the site, and     *)
(* whatever was mixed in or extended since.                                 *)
FieldsAreOwn ==
    /\ \A o \in DOMAIN objs : \A i \in DOMAIN objs[o].fields :
           objs[o].fields[i] \in {"nil", cls[objs[o].class].slots[i]}
    /\ ~misread
(* What the block of a new: (or the fused form) binds reaches the field of  *)
(* that name, and the object has room for it.                               *)
BoundFieldsLand ==
    /\ ~crashed
    /\ \A t \in ITasks : inst[t].pc = "inits" =>
          \A v \in inst[t].env \cap Range(cls[inst[t].class].slots) :
              LET at == field_slot(inst[t].class, v)
              IN  at <= Len(objs[inst[t].o].fields) => objs[inst[t].o].fields[at] = v
(* The initializers that run are those of the hierarchy when the object is  *)
(* finished, each once, base first.                                         *)
InitsAllRun ==
    \A t \in ITasks : inst[t].pc = "inits" =>
        inst[t].ran \o inst[t].chain = inst[t].due
(* No instance of an abstract class is made.                                *)
AbstractNeverBuilt ==
    [][Len(objs') > Len(objs) => ~cls[Last(objs').class].abstract]_instvars
=============================================================================
