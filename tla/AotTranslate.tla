---------------------------- MODULE AotTranslate ----------------------------
(* The ahead-of-time translator: one pass over a method's bytecode that      *)
(* keeps an abstract operand stack, a storage class for every local and      *)
(* proofs about slots, and emits native code. Here the pass, the emitted     *)
(* code and the interpreter advance together, an instruction at a time, so   *)
(* that what the native code computes can be compared with what the          *)
(* interpreter computes. Loops and calls between compiled methods are not    *)
(* part of the instruction set.                                              *)
EXTENDS Integers, Sequences

CONSTANTS Locals,      \* a method's local variables
          W,           \* width of an Int
          MaxInsts,    \* bound on the method's length
          MaxDepth     \* bound on its operand stack

VARIABLES
    tr,   \* the translator: abstract stack, storage of locals, deferred nils
    cm,   \* the compiled frame: operands, scalar locals, slot window, outcome
    it,   \* the interpreter's frame
    br,   \* the inlined if: being translated, and whether its body runs
    insts \* instructions so far
aotVars == <<tr, cm, it, br, insts>>

Nil == <<"Nil", 0>>
Self == <<"Obj", 0>>
Bool(b) == <<"Bool", IF b THEN 1 ELSE 0>>
Min == -(2^(W - 1))
Top == 2^(W - 1) - 1

-----------------------------------------------------------------------------
(* Int arithmetic, twice                                                     *)

Ops == {"Add", "Sub", "Mul", "Div", "Mod", "Lt", "Eq"}
\* / and % of i64 round towards zero
Magnitude(a) == IF a < 0 THEN -a ELSE a
Quotient(a, b) ==
    LET q == Magnitude(a) \div Magnitude(b) IN IF (a < 0) = (b < 0) THEN q ELSE -q
Remainder(a, b) == a - b * Quotient(a, b)
Checked(n) == IF n \in Min..Top THEN <<"Int", n>> ELSE <<"err", "overflow">>

\* the interpreter's, with checked_add and its kin
int_bin(op, a, b) ==
    CASE op = "Add" -> Checked(a + b)
      [] op = "Sub" -> Checked(a - b)
      [] op = "Mul" -> Checked(a * b)
      [] op = "Div" -> IF b = 0 THEN <<"err", "zero">>
                       ELSE IF b = -1 THEN Checked(-a) ELSE <<"Int", Quotient(a, b)>>
      [] op = "Mod" -> IF b = 0 THEN <<"err", "zero">>
                       ELSE IF b = -1 THEN <<"Int", 0>> ELSE <<"Int", Remainder(a, b)>>
      [] op = "Lt" -> Bool(a < b)
      [] op = "Eq" -> Bool(a = b)

\* the machine's: a result of W bits and an overflow flag
Wrap(n) == ((n - Min) % 2^W) + Min
SignBit(n) == n < 0
\* a mutant: no test for the one quotient that overflows
emit_div_bare(a, b) ==
    IF b = 0 THEN <<"err", "zero">>
    ELSE IF b = -1 THEN <<"Int", Wrap(-a)>> ELSE <<"Int", Quotient(a, b)>>
emit_div(a, b) ==
    IF b = 0 THEN <<"err", "zero">>
    ELSE IF b # -1 THEN <<"Int", Quotient(a, b)>>
    ELSE IF a = Min THEN <<"err", "overflow">> ELSE <<"Int", Wrap(-a)>>
emit_int_bin(op, a, b) ==
    LET sum == Wrap(a + b) diff == Wrap(a - b) prod == Wrap(a * b) IN
    CASE op = "Add" -> IF SignBit(a) = SignBit(b) /\ SignBit(sum) # SignBit(a)
                       THEN <<"err", "overflow">> ELSE <<"Int", sum>>
      [] op = "Sub" -> IF SignBit(a) # SignBit(b) /\ SignBit(diff) # SignBit(a)
                       THEN <<"err", "overflow">> ELSE <<"Int", diff>>
      [] op = "Mul" -> IF prod # a * b THEN <<"err", "overflow">> ELSE <<"Int", prod>>
      [] op = "Div" -> emit_div(a, b)
      [] op = "Mod" -> IF b = 0 THEN <<"err", "zero">>
                       ELSE IF b = -1 THEN <<"Int", 0>> ELSE <<"Int", Remainder(a, b)>>
      [] op = "Lt" -> Bool(a < b)
      [] op = "Eq" -> Bool(a = b)

\* the value of a double is not told apart from another's
Double == <<"Double", 0>>
Numeric(v) == v[1] \in {"Int", "Double"}
\* the selectors' native methods, which a dynamic operand is sent to
Dispatched(op, a, b) ==
    IF ~Numeric(a) \/ ~Numeric(b) THEN <<"err", "mnu">>
    ELSE IF a[1] = "Int" /\ b[1] = "Int" THEN int_bin(op, a[2], b[2])
    ELSE Double

-----------------------------------------------------------------------------
(* Abstract values                                                           *)

\* may: the slots a dynamic value may be read from; wide: it may be a Double
\* computed where an Int was expected
AV(t, k, proof, wide, may) == [t |-> t, k |-> k, proof |-> proof, wide |-> wide, may |-> may]
C(k) == AV("C", k, "none", FALSE, {})
Dyn(slot, proof) == AV("Dyn", "any", proof, FALSE, {slot})
SelfRef == AV("SelfRef", "any", "none", FALSE, {0})
NilAV == AV("Nil", "any", "none", FALSE, {})

NoVar == [t |-> "none", k |-> "any", slot |-> 0, proof |-> "none"]
Scalar(k) == [NoVar EXCEPT !.t = "Scalar", !.k = k]
Obj(slot, proof) == [NoVar EXCEPT !.t = "Obj", !.slot = slot, !.proof = proof]

\* slot 0 is the receiver, slot 1 an object parameter, the rest scratch, nil
\* when the frame is entered
ParamSlot == 1
MaxSlot == 1 + 2 * MaxInsts
Params == {<<Bool(TRUE), "none">>, <<<<"List", 1>>, "CollectionOfBool">>, <<<<"Obj", 2>>, "none">>}
AotInit ==
    /\ \E p \in Params :
        /\ tr = [stack |-> <<>>, var |-> [l \in Locals |-> NoVar], deferred |-> {}, next |-> 2,
                 param |-> p[2], ret |-> "Obj", refused |-> FALSE, strays |-> FALSE]
        /\ cm = [cells |-> <<>>, reg |-> [l \in Locals |-> <<"Int", 0>>], err |-> "none",
                 slot |-> [i \in 0..MaxSlot |-> IF i = 0 THEN Self ELSE IF i = 1 THEN p[1] ELSE Nil]]
        /\ it = [stack |-> <<>>, loc |-> [l \in Locals |-> Nil], param |-> p[1],
                 known |-> {}, err |-> "none"]
    /\ br = [at |-> "top", run |-> TRUE, base |-> 0]
    /\ insts = 0

\* encode and decode: an operand is a machine value or the index of a slot
Decode(cell) == IF cell[1] = "slot" THEN cm.slot[cell[2]] ELSE cell
Live == ~tr.refused /\ it.err = "none" /\ cm.err = "none" /\ br.at # "returned"
Begins == Live /\ insts < MaxInsts /\ insts' = insts + 1
Depth == Len(tr.stack)
TopAV == tr.stack[Depth]
TopCell == cm.cells[Len(cm.cells)]
TopValue == it.stack[Len(it.stack)]
Below(s, n) == SubSeq(s, 1, Len(s) - n)

\* the translator pops n and pushes av; where the code runs, both machines do
\* the same with their own operand
Runs(n, cell, val, c) ==
    IF br.run
    THEN /\ cm' = [c EXCEPT !.cells = Append(Below(@, n), cell)]
         /\ it' = [it EXCEPT !.stack = Append(Below(@, n), val)]
    ELSE UNCHANGED <<cm, it>>
Translates(n, av, t) == tr' = [t EXCEPT !.stack = Append(Below(@, n), av)]
\* both machines finish the operation, or at least one raises
Outcome(n, cell, val, c) ==
    IF br.run /\ (cell[1] = "err" \/ val[1] = "err")
    THEN /\ cm' = [cm EXCEPT !.err = IF cell[1] = "err" THEN cell[2] ELSE "none"]
         /\ it' = [it EXCEPT !.err = IF val[1] = "err" THEN val[2] ELSE "none"]
    ELSE Runs(n, cell, val, c)
\* the method stays with the interpreter
Refuse == tr' = [tr EXCEPT !.refused = TRUE] /\ UNCHANGED <<cm, it, br>>

alloc_scratch == tr.next
Allocated(t) == [t EXCEPT !.next = @ + 1]
\* helper results land in a fresh slot
IntoSlot(slot, v) == [cm EXCEPT !.slot[slot] = v]

-----------------------------------------------------------------------------
(* Constants and locals                                                      *)

Constants == {<<"Int", Top>>, <<"Int", -1>>, Double, Bool(FALSE), Nil}
const_av(c) == IF c = Nil THEN NilAV ELSE C(c[1])
Push(c) ==
    /\ Begins /\ Depth < MaxDepth
    /\ Translates(0, const_av(c), tr) /\ Runs(0, c, c, cm) /\ UNCHANGED br
LoadSelf ==
    /\ Begins /\ Depth < MaxDepth
    /\ Translates(0, SelfRef, tr) /\ Runs(0, Self, Self, cm) /\ UNCHANGED br
LoadParam ==
    /\ Begins /\ Depth < MaxDepth
    /\ Translates(0, Dyn(ParamSlot, tr.param), tr)
    /\ Runs(0, <<"slot", ParamSlot>>, it.param, cm) /\ UNCHANGED br

\* a read of a local whose nil was deferred gives it a slot, nil since entry
ForcedSlot(l) == [Allocated(tr) EXCEPT !.var[l] = Obj(alloc_scratch, "none"), !.deferred = @ \ {l}]
local_av(l) ==
    LET v == tr.var[l] IN
    CASE v.t = "Scalar" -> [av |-> C(v.k), cell |-> cm.reg[l], tr |-> tr]
      [] v.t = "Obj"    -> [av |-> Dyn(v.slot, v.proof), cell |-> <<"slot", v.slot>>, tr |-> tr]
      [] v.t = "none"   -> [av |-> Dyn(alloc_scratch, "none"), cell |-> <<"slot", alloc_scratch>>,
                            tr |-> ForcedSlot(l)]
LoadLocal(l) ==
    LET r == local_av(l) IN
    /\ Begins /\ Depth < MaxDepth /\ l \in it.known
    /\ Translates(0, r.av, r.tr) /\ Runs(0, r.cell, it.loc[l], cm) /\ UNCHANGED br

\* a Dyn stored into a scalar local is checked for the local's kind
narrow_to_scalar(cell, k) == IF Decode(cell)[1] = k THEN Decode(cell) ELSE <<"err", "narrow">>
\* a mutant: a value of another kind takes over the local's register
ChangesKindNever(av, v) == FALSE
ChangesKind(av, v) ==
    \/ av.t = "C" /\ (v.t = "Obj" \/ (v.t = "Scalar" /\ v.k # av.k))
    \/ av.t \in {"SelfRef", "Nil"} /\ v.t = "Scalar"
    \/ av.t = "Dyn" /\ v.t = "Scalar" /\ v.k # "Double" /\ av.wide
StorageFor(av, v) ==
    IF av.t = "C" \/ v.t = "Scalar" THEN (IF v.t = "none" THEN Scalar(av.k) ELSE v)
    ELSE Obj(IF v.t = "Obj" THEN v.slot ELSE alloc_scratch, av.proof)

\* Two stores after which the native code is on its own, for the properties: a
\* store to the slot an operand below still stands for, and, in an arm that
\* does not run, one that gives the local a register or proves more of it
Overtakes(v, put) ==
    /\ br.run /\ v.t = "Obj" /\ cm.slot[v.slot] # put
    /\ \E i \in 1..(Len(cm.cells) - 1) : cm.cells[i] = <<"slot", v.slot>>
DecidesUnrun(v, old) ==
    /\ ~br.run
    /\ (v.t = "Scalar" /\ old.t = "none") \/ v.proof \notin {"none", old.proof}

\* the stored value, put where the local lives
store_local(l, n, t) ==
    LET av == TopAV
        v == StorageFor(av, tr.var[l])
        put == IF v.t = "Obj" THEN Decode(TopCell)
               ELSE IF av.t = "C" THEN TopCell ELSE narrow_to_scalar(TopCell, v.k)
        stored == IF v.t = "Obj" THEN [cm EXCEPT !.slot[v.slot] = put] ELSE [cm EXCEPT !.reg[l] = put]
    IN
    /\ tr' = [t EXCEPT !.var[l] = v, !.deferred = @ \ {l}, !.stack = Below(@, n),
                       !.strays = @ \/ Overtakes(v, put) \/ DecidesUnrun(v, tr.var[l]),
                       !.next = IF v.t = "Obj" /\ tr.var[l].t # "Obj" THEN @ + 1 ELSE @]
    /\ IF ~br.run THEN UNCHANGED <<cm, it>>
       ELSE /\ cm' = IF put[1] = "err" THEN [cm EXCEPT !.err = put[2]]
                     ELSE [stored EXCEPT !.cells = Below(@, n)]
            /\ it' = [it EXCEPT !.loc[l] = TopValue, !.stack = Below(@, n)]
    /\ UNCHANGED br
\* StoreLocal pops, StoreLocalKeep does not
StoreLocal(l, n) ==
    /\ Begins /\ l \in it.known /\ Depth > br.base
    /\ IF ChangesKind(TopAV, tr.var[l]) THEN Refuse ELSE store_local(l, n, tr)
\* var l = nil decides nothing: the first store or read does
DefineNil(l) ==
    /\ Begins /\ br.at = "top" /\ l \notin it.known
    /\ tr' = [tr EXCEPT !.deferred = @ \cup {l}]
    /\ it' = [it EXCEPT !.known = @ \cup {l}] /\ UNCHANGED <<cm, br>>
Dup ==
    /\ Begins /\ Depth \in (br.base + 1)..(MaxDepth - 1)
    /\ Translates(0, TopAV, tr)
    /\ IF br.run THEN Runs(0, TopCell, TopValue, cm) ELSE UNCHANGED <<cm, it>>
    /\ UNCHANGED br
Pop ==
    /\ Begins /\ Depth > br.base
    /\ tr' = [tr EXCEPT !.stack = Below(@, 1)]
    /\ IF br.run THEN cm' = [cm EXCEPT !.cells = Below(@, 1)] /\ it' = [it EXCEPT !.stack = Below(@, 1)]
       ELSE UNCHANGED <<cm, it>>
    /\ UNCHANGED br

-----------------------------------------------------------------------------
(* Arithmetic, lists and calls                                               *)

TwoOperands == Depth >= br.base + 2
Left == tr.stack[Depth - 1]
LeftCell == cm.cells[Len(cm.cells) - 1]
LeftValue == it.stack[Len(it.stack) - 1]
BothAre(k) == Left.t = "C" /\ Left.k = k /\ TopAV.t = "C" /\ TopAV.k = k
ResultKind(op) == IF op \in {"Lt", "Eq"} THEN "Bool" ELSE "Int"
\* the IntAdd family wants two proven Ints
IntBin(op) ==
    /\ Begins /\ TwoOperands
    /\ IF ~BothAre("Int") THEN Refuse
       ELSE /\ Translates(2, C(ResultKind(op)), tr)
            /\ IF br.run
               THEN Outcome(2, emit_int_bin(op, LeftCell[2], TopCell[2]),
                               int_bin(op, LeftValue[2], TopValue[2]), cm)
               ELSE UNCHANGED <<cm, it>>
            /\ UNCHANGED br
\* a send of an arithmetic selector: in machine registers when both kinds are
\* known, else an outcall, whose result may be a Double if an operand may
EitherWide == \E av \in {Left, TopAV} : av.wide \/ (av.t = "C" /\ av.k = "Double")
NumericC(av) == av.t = "C" /\ av.k \in {"Int", "Double"}
emit_send(op) ==
    LET slot == alloc_scratch
        answer == Dispatched(op, LeftValue, TopValue)
        called == Dispatched(op, Decode(LeftCell), Decode(TopCell))
    IN
    /\ Begins /\ TwoOperands
    /\ IF BothAre("Int")
       THEN /\ Translates(2, C(ResultKind(op)), tr)
            /\ IF br.run THEN Outcome(2, emit_int_bin(op, LeftCell[2], TopCell[2]), answer, cm)
               ELSE UNCHANGED <<cm, it>>
       ELSE IF NumericC(Left) /\ NumericC(TopAV)
       THEN /\ Translates(2, C("Double"), tr)
            /\ IF br.run THEN Outcome(2, Double, answer, cm) ELSE UNCHANGED <<cm, it>>
       ELSE /\ Translates(2, [Dyn(slot, "none") EXCEPT !.wide = EitherWide], Allocated(tr))
            /\ IF ~br.run THEN UNCHANGED <<cm, it>>
               ELSE Outcome(2, IF called[1] = "err" THEN called ELSE <<"slot", slot>>, answer,
                            IntoSlot(slot, called))
    /\ UNCHANGED br

\* any other send: the answer lands in a slot of its own
Answers == {Bool(TRUE), <<"Int", 1>>, Double, <<"Obj", 2>>}
emit_outcall(answer) ==
    /\ Begins /\ Depth > br.base
    /\ Translates(1, Dyn(alloc_scratch, "none"), Allocated(tr))
    /\ Runs(1, <<"slot", alloc_scratch>>, answer, IntoSlot(alloc_scratch, answer)) /\ UNCHANGED br

\* a list literal, tagged when its type says so; only the tag is a proof
NewList(tagged) ==
    LET list == <<"List", IF tagged THEN 1 ELSE 0>> IN
    /\ Begins /\ Depth < MaxDepth
    /\ Translates(0, Dyn(alloc_scratch, IF tagged THEN "CollectionOfBool" ELSE "none"), Allocated(tr))
    /\ Runs(0, <<"slot", alloc_scratch>>, list, IntoSlot(alloc_scratch, list)) /\ UNCHANGED br
\* an element of a tagged list is a Bool or nil
ListGet(e) ==
    /\ Begins /\ Depth > br.base
    /\ br.run => TopValue[1] = "List" /\ (TopValue[2] = 1 => e[1] \in {"Bool", "Nil"})
    /\ IF TopAV.t # "Dyn" THEN Refuse
       ELSE /\ Translates(1, Dyn(alloc_scratch, IF TopAV.proof = "CollectionOfBool" THEN "BoolOrNil"
                                                ELSE "none"), Allocated(tr))
            /\ Runs(1, <<"slot", alloc_scratch>>, e, IntoSlot(alloc_scratch, e)) /\ UNCHANGED br
\* a fused each: leaves out the class test of a proven list; list_len answers
\* zero for what is no list
Each ==
    /\ Begins /\ Depth > br.base
    /\ IF TopAV.t # "Dyn" \/ TopAV.proof # "CollectionOfBool" THEN Refuse
       ELSE /\ Translates(1, NilAV, tr)
            /\ IF br.run THEN Outcome(1, Nil, IF TopValue[1] = "List" THEN Nil ELSE <<"err", "mnu">>, cm)
               ELSE UNCHANGED <<cm, it>>
            /\ UNCHANGED br

-----------------------------------------------------------------------------
(* An inlined if: without an else:                                           *)

\* operands cross into a block as its parameters, and what was proved of them
\* is left behind
norm_stack(s) ==
    [i \in 1..Len(s) |-> IF s[i].t = "C" THEN s[i]
                         ELSE [s[i] EXCEPT !.t = "Dyn", !.proof = "none", !.wide = FALSE]]
\* self and nil operands go to slots
NilsLive == \E i \in 1..(Depth - 1) : tr.stack[i].t \in {"Nil", "SelfRef"}
\* the cold arm of a condition not known to be a Bool builds the closure, which
\* gives every deferred local a slot
ColdArm == TopAV.t = "Dyn" /\ TopAV.proof # "BoolOrNil"
Forced(t) ==
    LET n == [l \in t.deferred |-> t.next]
    IN IF Locals \cap t.deferred = {} THEN t
       ELSE [t EXCEPT !.var = [l \in Locals |-> IF l \in t.deferred /\ @[l].t = "none"
                                               THEN Obj(n[l], "none") ELSE @[l]],
                      !.deferred = {}, !.next = @ + 1]
\* BranchIfNotBool and ElseJump: anything but a Bool does not answer if:
BranchIfNotBool ==
    LET cond == Decode(TopCell)
        t == IF ColdArm THEN Forced(tr) ELSE tr
    IN
    /\ Begins /\ br.at = "top" /\ Depth > 0 /\ ~NilsLive
    /\ tr' = [t EXCEPT !.stack = norm_stack(Below(@, 1))]
    /\ IF cond[1] = "Bool" /\ TopValue[1] = "Bool"
       THEN /\ br' = [at |-> "body", run |-> cond[2] = 1, base |-> Depth - 1]
            /\ cm' = [cm EXCEPT !.cells = Below(@, 1)] /\ it' = [it EXCEPT !.stack = Below(@, 1)]
       ELSE /\ cm' = [cm EXCEPT !.err = IF cond[1] = "Bool" THEN "none" ELSE "mnu"]
            /\ it' = [it EXCEPT !.err = IF TopValue[1] = "Bool" THEN "none" ELSE "mnu"]
            /\ UNCHANGED br
\* the arms meet: the body's value, in a slot, and nil, in another
IfEnds ==
    LET boxed == alloc_scratch
        av == TopAV
        merged == AV("Dyn", "any", "none", FALSE, av.may \cup {boxed})
        cell == IF TopCell[1] = "slot" THEN TopCell ELSE <<"slot", boxed>>
    IN
    /\ Begins /\ br.at = "body" /\ Depth = br.base + 1
    /\ tr' = [Allocated(tr) EXCEPT !.stack = Append(norm_stack(Below(@, 1)), merged)]
    /\ IF br.run
       THEN /\ cm' = [IntoSlot(boxed, Decode(TopCell)) EXCEPT !.cells = Append(Below(@, 1), cell)]
            /\ UNCHANGED it
       ELSE /\ cm' = [IntoSlot(boxed, Nil) EXCEPT !.cells = Append(@, <<"slot", boxed>>)]
            /\ it' = [it EXCEPT !.stack = Append(@, Nil)]
    /\ br' = [at |-> "top", run |-> TRUE, base |-> 0]

\* emit_return of an object: boxed unless it is in a slot
Return ==
    /\ Begins /\ br.at = "top" /\ Depth > 0
    /\ cm' = [cm EXCEPT !.cells = <<Decode(TopCell)>>]
    /\ it' = [it EXCEPT !.stack = <<TopValue>>]
    /\ tr' = [tr EXCEPT !.stack = <<TopAV>>] /\ br' = [br EXCEPT !.at = "returned"]

AotNext ==
    \/ \E c \in Constants : Push(c)
    \/ LoadSelf \/ LoadParam \/ Dup \/ Pop \/ Each \/ BranchIfNotBool \/ IfEnds \/ Return
    \/ \E l \in Locals : LoadLocal(l) \/ DefineNil(l) \/ \E n \in 0..1 : StoreLocal(l, n)
    \/ \E op \in Ops : IntBin(op)
    \/ \E op \in {"Add", "Div"} : emit_send(op)
    \/ \E a \in Answers : emit_outcall(a)
    \/ \E b \in BOOLEAN : NewList(b)
    \/ \E e \in {Bool(FALSE), Nil, <<"Int", 1>>} : ListGet(e)
AotSpec == AotInit /\ [][AotNext]_aotVars

-----------------------------------------------------------------------------
(* Wherever the method is, its native code holds the operands the            *)
(* interpreter would hold, answers what it would answer and raises what it   *)
(* would raise, but for the checked narrow of a dynamic value into a scalar  *)
(* local, which raises alone, and but for the two stores that stray          *)
CompiledAgrees == ~tr.refused /\ ~tr.strays =>
    /\ cm.err \in {it.err, "narrow"}
    /\ cm.err = "none" =>
        /\ Len(cm.cells) = Len(it.stack)
        /\ \A i \in 1..Len(it.stack) : Decode(cm.cells[i]) = it.stack[i]

(* What the translator believes of its locals is true of them: a scalar      *)
(* local holds a value of its kind, and a proof holds of the slot's value    *)
StorageIsTrue == ~tr.refused /\ ~tr.strays /\ br.at = "top" /\ cm.err = "none" =>
    \A l \in Locals : LET v == tr.var[l] IN
        /\ v.t = "Scalar" => cm.reg[l] = it.loc[l]
        /\ v.t = "Obj" => cm.slot[v.slot] = it.loc[l]
        /\ v.proof = "CollectionOfBool" => it.loc[l] = <<"List", 1>>
=============================================================================
