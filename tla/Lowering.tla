------------------------------ MODULE Lowering ------------------------------
(* Code generation for method bodies: src/compiler/{lowering,assignment,    *)
(* scope,devirt,inlining,bytecode}.rs, over a small tree language with      *)
(* locals, blocks, conditionals, loops, a sealed class with one field, and  *)
(* `new:`.  Every program is compiled twice, once without and once with the *)
(* inlining, splicing and fusion of the compiler, and both codes run on the *)
(* same machine: the optimised code has to mean what the plain code means.  *)
EXTENDS Naturals, Integers, Sequences, FiniteSets, SequencesExt

CONSTANT MaxSteps      \* machine steps after which a run counts as looping

VARIABLES prog, tier, phase, mach, plain
lvars == <<prog, tier, phase, mach, plain>>
----------------------------------------------------------------------------
(* Syntax trees (parser/ast.rs).                                            *)
Lit(n)        == [k |-> "int", n |-> n]
Id(x)         == [k |-> "id", x |-> x]
TrueE         == [k |-> "true"]
Fld           == [k |-> "fld"]
Self          == [k |-> "self"]
ListRef       == [k |-> "listref"]
Bin(o, l, r)  == [k |-> "bin", o |-> o, l |-> l, r |-> r]
Logic(o, l, r) == [k |-> "logic", o |-> o, l |-> l, r |-> r]
Blk(ps, b)    == [k |-> "block", ps |-> ps, body |-> b]
If(s, arms)   == [k |-> "if", s |-> s, arms |-> arms]
While(c, b)   == [k |-> "while", c |-> c, b |-> b]
Each(s, b)    == [k |-> "each", s |-> s, b |-> b]
Call(s, a)    == [k |-> "call", s |-> s, a |-> a]
Get(s)        == [k |-> "get", s |-> s]
Value(s)      == [k |-> "value", s |-> s]
New(b)        == [k |-> "new", b |-> b]
Decl(x, e)    == [k |-> "decl", x |-> x, mut |-> TRUE, e |-> e]
LetD(x, e)    == [k |-> "decl", x |-> x, mut |-> FALSE, e |-> e]
Assign(x, e)  == [k |-> "assign", x |-> x, e |-> e]
SetFld(e)     == [k |-> "setfld", e |-> e]
Ret(e)        == [k |-> "ret", e |-> e]
MRet(e)       == [k |-> "mret", e |-> e]
Emit(e)       == [k |-> "print", e |-> e]

\* The parts of a tree, in evaluation order.
Kids(n) ==
    CASE n.k \in {"bin", "logic"} -> <<n.l, n.r>>
      [] n.k = "block" -> n.body
      [] n.k = "if" -> <<n.s>> \o n.arms
      [] n.k = "while" -> <<n.c, n.b>>
      [] n.k = "each" -> <<n.s, n.b>>
      [] n.k = "call" -> <<n.s, n.a>>
      [] n.k \in {"get", "value"} -> <<n.s>>
      [] n.k = "new" -> <<n.b>>
      [] n.k \in {"decl", "assign", "setfld", "ret", "mret", "print"} -> <<n.e>>
      [] OTHER -> <<>>

RECURSIVE Nodes(_)
Nodes(n) == {n} \cup UNION {Nodes(Kids(n)[i]) : i \in DOMAIN Kids(n)}
----------------------------------------------------------------------------
(* Scopes.                                                                  *)
NoSym == <<"", 0>>
Entry(sym, mut, ty) == [sym |-> sym, mut |-> mut, ty |-> ty]
Scope(locals, init, ren) == [locals |-> locals, init |-> init, ren |-> ren]
NoNames == [x \in {} |-> NoSym]

Owners(x, st) == {i \in DOMAIN st.scopes : x \in DOMAIN st.scopes[i].locals}
is_local(x, st) == Owners(x, st) # {}
EntryOf(x, st) == st.scopes[Max(Owners(x, st))].locals[x]
Top(st) == st.scopes[Len(st.scopes)]

\* The frame a splice runs in: its nearest scope that is not a splice.
in_init_frame(st) ==
    LET real == {i \in DOMAIN st.scopes : ~st.scopes[i].ren}
    IN  real # {} /\ st.scopes[Max(real)].init

local_symbol(x, st) == IF is_local(x, st) THEN EntryOf(x, st).sym ELSE <<x, 0>>

AddLocal(x, e, st) ==
    LET i == Len(st.scopes) IN
    [st EXCEPT !.scopes[i].locals =
        [y \in DOMAIN @ \cup {x} |-> IF y = x THEN e ELSE @[y]]]

\* A declaration in a spliced arm gets a fresh symbol.
declare_local(x, mut, st) ==
    LET sym == IF Top(st).ren THEN <<x, st.renames + 1>> ELSE <<x, 0>>
        s2  == IF Top(st).ren THEN [st EXCEPT !.renames = @ + 1] ELSE st
    IN  IF x \in DOMAIN Top(st).locals
        THEN [s2 EXCEPT !.err = TRUE]
        ELSE AddLocal(x, Entry(sym, mut, "Any"), s2)

\* The n-th temporary from here on; no source name can mention one.
TempSym(n, st) == <<"temp", st.temps + n>>
new_temp_var(n, st) == [st EXCEPT !.temps = @ + n]

\* What the checker knows of an expression, as far as code generation asks.
RECURSIVE static_type(_, _)
static_type(n, st) ==
    CASE n.k = "int" -> "Int"
      [] n.k = "true" -> "Bool"
      [] n.k = "id" -> IF is_local(n.x, st) THEN EntryOf(n.x, st).ty ELSE "Any"
      [] n.k = "bin" ->
            IF static_type(n.l, st) = "Int" /\ static_type(n.r, st) = "Int"
            THEN IF n.o = "<" THEN "Bool" ELSE "Int"
            ELSE "Any"
      [] OTHER -> "Any"
----------------------------------------------------------------------------
(* Instructions.                                                            *)
Push(v)    == [op |-> "Push", v |-> v]
LoadL(s)   == [op |-> "LoadLocal", s |-> s]
StoreL(s)  == [op |-> "StoreLocal", s |-> s]
DefineL(s) == [op |-> "DefineLocal", s |-> s]
Op(name)   == [op |-> name]
Send(sel, n) == [op |-> "Send", sel |-> sel, n |-> n]
Jmp(name, o) == [op |-> name, o |-> o]
IntBin(kind) == [op |-> "IntBin", kind |-> kind]
NilV == [t |-> "nil"]
IntV(n) == [t |-> "i", n |-> n]
BoolV(b) == [t |-> "b", b |-> b]

IsJump(i) == i.op \in {"Jump", "IfJump", "ElseJump", "BranchIfNotBool",
                       "BranchIfNotList", "BranchIfNotPlainNew"}
IsStore(i) == i.op \in {"StoreLocal", "DefineLocal", "StoreField"}
KeepOf(i) == CASE i.op = "StoreLocal" -> [op |-> "StoreLocalKeep", s |-> i.s]
               [] i.op = "DefineLocal" -> [op |-> "DefineLocalKeep", s |-> i.s]
               [] OTHER -> Op("StoreFieldKeep")

(* The peephole pass: runs of instructions become one, unless a jump lands  *)
(* inside them; every jump is re-aimed at the group holding its old target. *)
Targets(code) == {i + code[i].o : i \in {j \in DOMAIN code : IsJump(code[j])}}
LoadOrPush(i) == i.op \in {"LoadLocal", "Push"}

Free(i, code) == i <= Len(code) /\ i \notin Targets(code)
Fuse(code, i, n) == [op |-> "Fused", parts |-> SubSeq(code, i, i + n - 1)]
GroupAt(i, code) ==
    IF Free(i + 1, code) /\ code[i].op = "Dup" /\ IsStore(code[i + 1])
    THEN IF Free(i + 2, code) /\ code[i + 2].op = "Pop"
         THEN [len |-> 3, inst |-> code[i + 1]] ELSE [len |-> 2, inst |-> KeepOf(code[i + 1])]
    ELSE IF /\ Free(i + 1, code) /\ Free(i + 2, code) /\ code[i].op = "LoadLocal"
            /\ LoadOrPush(code[i + 1]) /\ code[i + 2].op \in {"Send", "IntBin"}
    THEN [len |-> 3, inst |-> Fuse(code, i, 3)]
    ELSE IF Free(i + 1, code) /\ code[i].op \in {"LoadLocal", "Push", "LoadField"} /\ code[i + 1].op = "Send"
    THEN [len |-> 2, inst |-> Fuse(code, i, 2)]
    ELSE [len |-> 1, inst |-> code[i]]

RECURSIVE Groups(_, _)
GroupThen(g, i, code) == <<[at |-> i, inst |-> g.inst]>> \o Groups(i + g.len, code)
Groups(i, code) == IF i > Len(code) THEN <<>> ELSE GroupThen(GroupAt(i, code), i, code)

\* Where an old target went.
NewOf(t, gs, n) == IF t > n THEN Len(gs) + 1 ELSE Cardinality({j \in DOMAIN gs : gs[j].at <= t})
Retarget(gs, n) ==
    [j \in DOMAIN gs |->
        IF IsJump(gs[j].inst) THEN [gs[j].inst EXCEPT !.o = NewOf(gs[j].at + @, gs, n) - j] ELSE gs[j].inst]
fuse_bytecode(code) == Retarget(Groups(1, code), Len(code))
----------------------------------------------------------------------------
(* Which blocks may be spliced into their frame.                            *)
Declares(b) == \E i \in DOMAIN b.body : b.body[i].k = "decl"
DeclaredNames(b) == {b.body[i].x : i \in {j \in DOMAIN b.body : b.body[j].k = "decl"}}
Mentioned(n) == {m.x : m \in {d \in Nodes(n) : d.k \in {"id", "assign"}}}
mentions_any(n, names) == Mentioned(n) \cap names # {}

RECURSIVE Survives(_, _, _)

\* Without the capture test.
splice_hazard_free_never(b, st) == TRUE


splice_hazard_free(b, st) ==
    LET names == DeclaredNames(b)
    IN  names = {} \/ ~ \E i \in DOMAIN b.body : Survives(b.body[i], names, st)

\* A block without parameters; if it declares, not into an initialiser's
\* frame, and in a loop only when no block that outlives the iteration
\* captures what it declares.
spliceable_arm(b, looped, st) ==
    /\ b.k = "block" /\ b.ps = <<>>
    /\ Declares(b) => ~in_init_frame(st) /\ (looped => splice_hazard_free(b, st))

while_will_fuse(n, st) == spliceable_arm(n.c, TRUE, st) /\ spliceable_arm(n.b, TRUE, st)

survival_hazard(n, names, st) ==
    CASE n.k = "block" -> mentions_any(n, names)
      [] n.k = "while" /\ while_will_fuse(n, st) ->
            \E i \in DOMAIN (n.c.body \o n.b.body) : Survives((n.c.body \o n.b.body)[i], names, st)
      [] OTHER -> \E i \in DOMAIN Kids(n) : Survives(Kids(n)[i], names, st)
Survives(n, names, st) == survival_hazard(n, names, st)

\* `each:` rebinds self to the element: what mentions self keeps its frame.
each_fusion_blocker(n) ==
    \E d \in Nodes(n) : d.k \in {"self", "fld", "setfld"} \/ (d.k \in {"call", "get"} /\ d.s.k = "none")
fusable_each_block(b) ==
    /\ b.k = "block" /\ Len(b.ps) <= 1 /\ ~Declares(b)
    /\ ~ \E i \in DOMAIN b.body : each_fusion_blocker(b.body[i])

\* A configuration block whose assignments may be evaluated outside it.
fusable_field_rvalue(n) == \A d \in Nodes(n) : d.k \in {"int", "id", "bin", "get", "true"}
fusable_config_any(b) ==
    b.ps = <<>> /\ \A i \in DOMAIN b.body : b.body[i].k = "assign" /\ fusable_field_rvalue(b.body[i].e)

fusable_config(b) ==
    /\ b.ps = <<>>
    /\ \A i \in DOMAIN b.body :
          /\ b.body[i].k = "assign" /\ fusable_field_rvalue(b.body[i].e)
          /\ ~mentions_any(b.body[i].e, {b.body[j].x : j \in 1..(i - 1)})
\* A method body that may be spliced at its call: nothing in it leaves the
\* frame it runs in.
escapes_inlined_frame(n) == \E d \in Nodes(n) : d.k = "mret"
is_inlinable_body(b) ==
    \A i \in DOMAIN b.body : b.body[i].k # "decl" /\ ~escapes_inlined_frame(b.body[i])

\* A block literal of the body that still mentions the loop's temporary.
RECURSIVE References(_, _)
Literals(code) == {code[i] : i \in {j \in DOMAIN code : code[j].op = "Push" /\ code[j].v.t = "tmpl"}}
FusedLiterals(code) ==
    UNION {Literals(code[i].parts) : i \in {j \in DOMAIN code : code[j].op = "Fused"}}
block_references(code, sym) ==
    \/ \E i \in DOMAIN code :
          \/ code[i].op \in {"LoadLocal", "StoreLocal", "StoreLocalKeep"} /\ code[i].s = sym
          \/ code[i].op = "Fused" /\ \E p \in DOMAIN code[i].parts :
                code[i].parts[p].op = "LoadLocal" /\ code[i].parts[p].s = sym
    \/ \E l \in Literals(code) \cup FusedLiterals(code) : References(l.v.code, sym)
References(code, sym) == block_references(code, sym)

body_captures(code, sym) ==
    \E l \in Literals(code) \cup FusedLiterals(code) : References(l.v.code, sym)
----------------------------------------------------------------------------
(* Code generation.  The compiler's state: scopes, counters, the rebinding  *)
(* of names and of self inside a spliced body, whether `^` is a jump here,  *)
(* the nesting of inlining and of fused loops, a refusal, and whether the   *)
(* optimisations are on.  A result is the code so far and that state.       *)
MAX_INLINE_DEPTH == 3
NewCompiler(opt, method) ==
    [scopes |-> <<>>, temps |-> 0, renames |-> 0, over |-> NoNames, selfo |-> NoSym,
     inl |-> FALSE, depth |-> 0, loop |-> 0, err |-> FALSE, opt |-> opt, method |-> method]

Out(c, st) == [c |-> c, st |-> st]
Start(st) == Out(<<>>, st)
SelfSym(st) == IF st.selfo = NoSym THEN <<"self", 0>> ELSE st.selfo
With(r, F(_)) == F(r)

RECURSIVE Comp(_, _)

\* Instructions, or a compiled piece, after what is there already.
Put(is, r) == Out(r.c \o is, r.st)
Join(r, q) == Out(r.c \o q.c, q.st)
Add(n, r) == Join(r, Comp(n, r.st))

\* Statements, each but the last popped; none at all is nil.
CompileBody(ss, st) ==
    IF ss = <<>> THEN Out(<<Push(NilV)>>, st)
    ELSE FoldLeft(LAMBDA r, s : Add(s, IF r.c = <<>> THEN r ELSE Put(<<Op("Pop")>>, r)), Start(st), ss)

\* A block literal.
Template(b, init, code, opt) ==
    Push([t |-> "tmpl", ps |-> b.ps, init |-> init, code |-> IF opt THEN fuse_bytecode(code) ELSE code])
LeaveBlock(b, init, st, r) ==
    Out(<<Template(b, init, Append(r.c, Op("Return")), st.opt)>>, [r.st EXCEPT !.scopes = st.scopes, !.inl = st.inl])
compile_block(b, init, ty, st) ==
    LeaveBlock(b, init, st,
        CompileBody(b.body, [st EXCEPT !.inl = FALSE,
            !.scopes = Append(@, Scope([x \in ToSet(b.ps) |-> Entry(<<x, 0>>, TRUE, ty)], init, FALSE))]))

\* A spliced body: its `^`s become jumps to its end.
PatchCarets(c) == [i \in DOMAIN c |-> IF c[i].op = "Caret" THEN Jmp("Jump", Len(c) + 1 - i) ELSE c[i]]
inline_block_body(b, st) ==
    With(CompileBody(b.body, [st EXCEPT !.inl = TRUE]),
         LAMBDA r : Out(PatchCarets(r.c), [r.st EXCEPT !.inl = st.inl]))

\* Declarations of a spliced body get a scope of their own.
splice_block_body(b, st) ==
    With(inline_block_body(b, IF Declares(b) THEN [st EXCEPT !.scopes = Append(@, Scope(NoNames, FALSE, TRUE))] ELSE st),
         LAMBDA r : Out(r.c, [r.st EXCEPT !.scopes = IF Declares(b) THEN st.scopes ELSE @]))

\* Names.
LoadName(x, st) ==
    IF x \in DOMAIN st.over THEN LoadL(st.over[x])
    ELSE IF is_local(x, st) THEN LoadL(local_symbol(x, st))
    ELSE Op("LoadGlobal")

compile_ident_store(x, r) ==
    IF x \in DOMAIN r.st.over THEN Put(<<StoreL(r.st.over[x])>>, r)
    ELSE IF is_local(x, r.st)
    THEN Out(r.c \o <<StoreL(IF Top(r.st).init THEN <<x, 0>> ELSE local_symbol(x, r.st))>>,
             [r.st EXCEPT !.err = @ \/ ~EntryOf(x, r.st).mut])
    ELSE IF Top(r.st).init THEN Put(<<DefineL(<<x, 0>>)>>, r)
    ELSE Out(<<>>, [r.st EXCEPT !.err = TRUE])

compile_assignment(n, st) == compile_ident_store(n.x, Put(<<Op("Dup")>>, Comp(n.e, st)))

\* The name is in scope before its initialiser is compiled; an inferred
\* type is recorded only where a specialised instruction can use it.
Typed(x, ty, st) == IF ty = "Int" /\ is_local(x, st) THEN AddLocal(x, [EntryOf(x, st) EXCEPT !.ty = ty], st) ELSE st
compile_declaration(n, st) ==
    With(Comp(n.e, declare_local(n.x, n.mut, st)),
         LAMBDA r : Out(r.c \o <<Op("Dup"), DefineL(local_symbol(n.x, r.st))>>, Typed(n.x, static_type(n.e, r.st), r.st)))

BothInt(n, st) == static_type(n.l, st) = "Int" /\ static_type(n.r, st) = "Int"
compile_binary(n, st) ==
    Put(<<IF BothInt(n, st) THEN IntBin(n.o) ELSE Send(n.o, 1)>>, Add(n.r, Comp(n.l, st)))

\* && and ||: the second operand replaces the first unless it decides.
compile_logic(n, st) ==
    With(Comp(n.l, st), LAMBDA l :
      With(Comp(n.r, l.st), LAMBDA r :
        Out(l.c \o <<Op("Dup"), Jmp(IF n.o = "and" THEN "ElseJump" ELSE "IfJump", 2 + Len(r.c)), Op("Pop")>> \o r.c, r.st)))

\* `^`: a jump in a spliced body, a return otherwise.
compile_return(n, st) ==
    Put(<<IF n.k = "mret" THEN Op("MethodReturn") ELSE IF st.inl THEN Op("Caret") ELSE Op("BlockReturn")>>, Comp(n.e, st))

(* Conditionals, loops and instantiation.  A guarded form tests the operand *)
(* and keeps the real send, out of line, for what fails the test.           *)
Guarded(test, hot, cold) ==
    Out(<<Jmp(test, Len(hot.c) + 2)>> \o hot.c \o <<Jmp("Jump", Len(cold.c) + 1)>> \o cold.c, cold.st)

Branches(t, e) == Out(<<Jmp("ElseJump", Len(t.c) + 2)>> \o t.c \o <<Jmp("Jump", Len(e.c) + 1)>> \o e.c, e.st)
emit_inline_conditional_body(arms, st) ==
    With(splice_block_body(arms[1], st), LAMBDA t :
         Branches(t, IF Len(arms) = 2 THEN splice_block_body(arms[2], t.st) ELSE Out(<<Push(NilV)>>, t.st)))

PlainConditional(arms, st) ==
    Put(<<Send("if", Len(arms))>>,
        FoldLeft(LAMBDA r, a : Join(r, compile_block(a, FALSE, "Any", r.st)), Start(st), arms))

InlinesConditional(n, st) ==
    /\ st.opt /\ static_type(n.s, st) # "Int"
    /\ \A i \in DOMAIN n.arms : spliceable_arm(n.arms[i], st.loop > 0, st)

\* A subject known to be Boolean branches at once.
try_compile_inlined_conditional(n, s) ==
    With(emit_inline_conditional_body(n.arms, s.st), LAMBDA hot :
         Join(s, IF static_type(n.s, s.st) = "Bool" THEN hot
                 ELSE Guarded("BranchIfNotBool", hot, PlainConditional(n.arms, hot.st))))

compile_if(n, st) ==
    With(Comp(n.s, st), LAMBDA s :
         IF InlinesConditional(n, st) THEN try_compile_inlined_conditional(n, s)
         ELSE Join(s, PlainConditional(n.arms, s.st)))

BoolTail(b, st) == b.body # <<>> /\ static_type(b.body[Len(b.body)], st) = "Bool"
LoopCode(cc, b, st) ==
    Out(cc \o <<Jmp("ElseJump", Len(b.c) + 3)>> \o b.c
           \o <<Op("Pop"), Jmp("Jump", -(Len(cc) + Len(b.c) + 2)), Push(NilV)>>, [b.st EXCEPT !.loop = st.loop])
try_compile_inlined_while(n, st) ==
    With(splice_block_body(n.c, [st EXCEPT !.loop = @ + 1]), LAMBDA c :
         LoopCode(c.c \o (IF BoolTail(n.c, st) THEN <<>> ELSE <<Op("RequireBool")>>), splice_block_body(n.b, c.st), st))

compile_while(n, st) ==
    IF st.opt /\ while_will_fuse(n, st) THEN try_compile_inlined_while(n, st)
    ELSE Put(<<Send("while", 1)>>,
             FoldLeft(LAMBDA r, a : Join(r, compile_block(a, FALSE, "Any", r.st)), Start(st), <<n.c, n.b>>))

PlainEach(n, st) == Put(<<Send("each", 1)>>, compile_block(n.b, FALSE, "Any", st))

\* The index loop over a native list: the bound is read once, and the
\* block's parameter is one cell for all elements.
EachHead(ps, recv, cnt, i, x) ==
    <<DefineL(recv), LoadL(recv), Op("ListLen"), DefineL(cnt), Push(IntV(0)), DefineL(i)>>
    \o (IF ps = <<>> THEN <<>> ELSE <<Push(NilV), DefineL(x)>>)
EachElement(ps, recv, i, x) == IF ps = <<>> THEN <<>> ELSE <<LoadL(recv), LoadL(i), Op("ListGet"), StoreL(x)>>
EachLoop(head, pass, cnt, i) ==
    head \o <<[op |-> "Fused", parts |-> <<LoadL(i), LoadL(cnt), IntBin("<")>>], Jmp("ElseJump", Len(pass) + 5)>> \o pass
    \o <<Op("Pop"), [op |-> "Fused", parts |-> <<LoadL(i), Push(IntV(1)), IntBin("+")>>],
         StoreL(i), Jmp("Jump", -(Len(pass) + 5)), Push(NilV)>>

Overriding(ps, sym, st) ==
    [st EXCEPT !.over = [y \in DOMAIN @ \cup ToSet(ps) |-> IF y \in ToSet(ps) THEN sym ELSE @[y]]]
EachBody(n, st) ==
    With(inline_block_body(n.b, [Overriding(n.b.ps, TempSym(0, st), st) EXCEPT !.depth = @ + 1, !.loop = @ + 1]),
         LAMBDA b : Out(b.c, [b.st EXCEPT !.over = st.over, !.depth = st.depth, !.loop = st.loop]))
\* t: the temporaries for the receiver, the bound, the index and the element.
EachHot(n, b, t) ==
    Out(EachLoop(EachHead(n.b.ps, t[1], t[2], t[3], t[4]), EachElement(n.b.ps, t[1], t[3], t[4]) \o b.c, t[2], t[3]), b.st)
EachForms(n, b, t) ==
    IF n.b.ps # <<>> /\ body_captures(b.c, t[4]) THEN PlainEach(n, b.st)
    ELSE Guarded("BranchIfNotList", EachHot(n, b, t), PlainEach(n, b.st))
try_compile_inlined_each(n, s) ==
    Join(s, EachForms(n, EachBody(n, new_temp_var(IF n.b.ps = <<>> THEN 3 ELSE 4, s.st)),
                      [j \in 1..4 |-> TempSym(j, s.st)]))

compile_each(n, st) ==
    With(Comp(n.s, st), LAMBDA s :
         IF st.opt /\ st.depth < MAX_INLINE_DEPTH /\ fusable_each_block(n.b) THEN try_compile_inlined_each(n, s)
         ELSE Join(s, PlainEach(n, s.st)))

PlainNew(n, st) == Put(<<Send("new", 1)>>, compile_block(n.b, TRUE, "Any", st))
try_compile_fused_instantiation(n, st) ==
    With(Put(<<[op |-> "NewWithFields", names |-> [i \in DOMAIN n.b.body |-> n.b.body[i].x]]>>,
             FoldLeft(LAMBDA r, s : Add(s.e, r), Start(st), n.b.body)),
         LAMBDA hot : Guarded("BranchIfNotPlainNew", hot, PlainNew(n, hot.st)))
compile_new(n, st) ==
    Join(Out(<<Op("PushClass")>>, st),
         IF st.opt /\ fusable_config(n.b) THEN try_compile_fused_instantiation(n, st) ELSE PlainNew(n, st))

(* Method calls.                                                            *)
\* The callee's body at the call: the argument in a temporary, the parameter
\* and an explicit receiver rebound to theirs.
SpliceCallee(body, selfTemp, r) ==
    With(inline_block_body(body, [r.st EXCEPT !.over = [p \in ToSet(body.ps) |-> TempSym(0, r.st)], !.depth = @ + 1,
                                              !.selfo = IF selfTemp = NoSym THEN @ ELSE selfTemp]),
         LAMBDA b : Out(r.c \o b.c, [b.st EXCEPT !.over = r.st.over, !.depth = r.st.depth, !.selfo = r.st.selfo]))
inline_body_with_args(body, args, selfTemp, st) ==
    SpliceCallee(body, selfTemp,
        FoldLeft(LAMBDA r, a : With(Add(a, r), LAMBDA e : Out(Append(e.c, DefineL(TempSym(1, e.st))), new_temp_var(1, e.st))),
                 Start(st), args))

Accessor == Blk(<<>>, <<Fld>>)
Callee(n, st) == IF n.k = "get" THEN Accessor ELSE st.method
ArgsOf(n) == IF n.k = "get" THEN <<>> ELSE <<n.a>>
IsSelf(n) == n.s.k \in {"none", "self"}
InlinesSelf(n, st) ==
    /\ st.opt /\ IsSelf(n) /\ st.selfo = NoSym /\ st.depth < MAX_INLINE_DEPTH
    /\ is_inlinable_body(Callee(n, st))
InlinesExact(n, st) ==
    /\ st.opt /\ st.depth < MAX_INLINE_DEPTH /\ n.s.k # "none" /\ static_type(n.s, st) = "Foo"
    /\ n.k = "get" \/ is_inlinable_body(Callee(n, st))

try_inline_self_send(n, st) == inline_body_with_args(Callee(n, st), ArgsOf(n), NoSym, st)

ExactCall(n, s) ==
    Join(Put(<<DefineL(TempSym(1, s.st))>>, s),
         inline_body_with_args(Callee(n, s.st), ArgsOf(n), TempSym(1, s.st), new_temp_var(1, s.st)))
try_inline_exact_receiver(n, st) ==
    With(Comp(n.s, st), LAMBDA s : IF n.k = "get" THEN Put(<<Op("LoadFieldOf")>>, s) ELSE ExactCall(n, s))

compile_method_call(n, st) ==
    IF InlinesSelf(n, st) THEN try_inline_self_send(n, st)
    ELSE IF InlinesExact(n, st) THEN try_inline_exact_receiver(n, st)
    ELSE Put(<<Send(n.k, Len(ArgsOf(n)))>>,
             FoldLeft(LAMBDA r, a : Add(a, r),
                      IF n.s.k = "none" THEN Out(<<LoadL(SelfSym(st))>>, st) ELSE Comp(n.s, st), ArgsOf(n)))

compile_field(st) ==
    IF st.selfo = NoSym THEN <<Op("LoadField")>> ELSE <<LoadL(st.selfo), Op("LoadFieldOf")>>

Compile(n, st) ==
    CASE n.k = "int" -> Out(<<Push(IntV(n.n))>>, st)
      [] n.k = "true" -> Out(<<Push(BoolV(TRUE))>>, st)
      [] n.k = "listref" -> Out(<<Push([t |-> "list"])>>, st)
      [] n.k = "self" -> Out(<<LoadL(SelfSym(st))>>, st)
      [] n.k = "id" -> Out(<<LoadName(n.x, st)>>, st)
      [] n.k = "fld" -> Out(compile_field(st), st)
      [] n.k = "setfld" -> Put(<<Op("Dup"), Op("StoreField")>>, Comp(n.e, st))
      [] n.k = "decl" -> compile_declaration(n, st)
      [] n.k = "assign" -> compile_assignment(n, st)
      [] n.k = "bin" -> compile_binary(n, st)
      [] n.k = "logic" -> compile_logic(n, st)
      [] n.k = "block" -> compile_block(n, FALSE, "Any", st)
      [] n.k \in {"ret", "mret"} -> compile_return(n, st)
      [] n.k = "if" -> compile_if(n, st)
      [] n.k = "while" -> compile_while(n, st)
      [] n.k = "each" -> compile_each(n, st)
      [] n.k = "new" -> compile_new(n, st)
      [] n.k \in {"call", "get"} -> compile_method_call(n, st)
      [] n.k \in {"value", "print"} -> Put(<<Send(n.k, 0)>>, Comp(IF n.k = "value" THEN n.s ELSE n.e, st))
Comp(n, st) == Compile(n, st)
----------------------------------------------------------------------------
(* The machine that runs the code: frames over chained environments, and    *)
(* the library's `if:`, `whileDo:`, `each:` and `new:` as frames of their    *)
(* own that call the blocks they are given.                                 *)
Elements == <<IntV(1), IntV(2)>>
SelfS == <<"self", 0>>
Obj(i) == [t |-> "obj", o |-> i]
NoBinds == [s \in {} |-> NilV]

TopF(m) == m.frames[Len(m.frames)]
PushV(v, m) == [m EXCEPT !.frames[Len(m.frames)].st = Append(@, v)]
Args(n, m) == LET s == TopF(m).st IN SubSeq(s, Len(s) - n + 1, Len(s))
DropV(n, m) == [m EXCEPT !.frames[Len(m.frames)].st = SubSeq(@, 1, Len(@) - n)]
Fails(m) == [m EXCEPT !.res = "error", !.frames = <<>>]

RECURSIVE Holder(_, _, _)
Holder(s, e, envs) ==
    IF e = 0 THEN 0
    ELSE IF s \in DOMAIN envs[e].vars THEN e ELSE Holder(s, envs[e].up, envs)

Bind(s, v, e, m) ==
    [m EXCEPT !.envs[e].vars = [y \in DOMAIN @ \cup {s} |-> IF y = s THEN v ELSE @[y]]]

\* An unbound local reads as nil.
LoadLocal(s, m) ==
    LET h == Holder(s, TopF(m).env, m.envs) IN IF h = 0 THEN NilV ELSE m.envs[h].vars[s]
store_define_local(s, v, m) == Bind(s, v, TopF(m).env, m)

\* An initialiser's frame binds in itself; any other frame writes where the
\* name is bound, or binds it here.
store_set_local(s, v, m) ==
    LET h == Holder(s, TopF(m).env, m.envs)
    IN  Bind(s, v, IF TopF(m).init \/ h = 0 THEN TopF(m).env ELSE h, m)

EnterFrame(kind, code, env, home, init, data, m) ==
    [m EXCEPT !.ids = @ + 1,
              !.frames = Append(@, [kind |-> kind, code |-> code, ip |-> 1, env |-> env, st |-> <<>>,
                                    id |-> m.ids + 1, home |-> IF home = 0 THEN m.ids + 1 ELSE home,
                                    init |-> init, data |-> data])]
NewEnv(vars, up, m) == [m EXCEPT !.envs = Append(@, [vars |-> vars, up |-> up])]

\* A block is given its arguments by position; a missing one is unbound.
execute_block(b, args, selfv, m) ==
    LET bound == {i \in DOMAIN b.ps : i <= Len(args)}
        names == {<<b.ps[i], 0>> : i \in bound} \cup {SelfS : z \in selfv}
        vars == [s \in names |-> IF s = SelfS THEN CHOOSE z \in selfv : TRUE
                                 ELSE args[CHOOSE i \in bound : <<b.ps[i], 0>> = s]]
        n == NewEnv(vars, b.env, m)
    IN  EnterFrame("code", b.code, Len(n.envs), b.home, b.init, NilV, n)

valueWithSelfOrArg(b, v, m) == execute_block(b, <<v>>, IF b.ps = <<>> THEN {v} ELSE {}, m)

CallMethod(meth, recv, args, m) ==
    LET vars == [s \in {SelfS} \cup {<<meth.ps[i], 0>> : i \in DOMAIN meth.ps} |->
                    IF s = SelfS THEN recv ELSE args[1]]
        n == NewEnv(vars, 0, m)
    IN  EnterFrame("code", meth.code, Len(n.envs), 0, FALSE, NilV, n)

\* The value v goes to the frame that waits for it; e is the environment of
\* the frame that answered, where an initialiser left its bindings.
RECURSIVE Deliver(_, _, _)
Answer(v, e, m) ==
    IF m.frames = <<>> THEN [m EXCEPT !.res = "done", !.val = v]
    ELSE LET f == TopF(m)
             up == [m EXCEPT !.frames = Front(@)]
             At(d) == [m EXCEPT !.frames[Len(m.frames)].data = d]
         IN  CASE f.kind = "code" -> PushV(v, m)
               [] f.kind = "while" /\ f.data.body -> execute_block(f.data.c, <<>>, {}, At([f.data EXCEPT !.body = FALSE]))
               [] f.kind = "while" /\ ~f.data.body ->
                     IF v = BoolV(TRUE) THEN execute_block(f.data.b, <<>>, {}, At([f.data EXCEPT !.body = TRUE]))
                     ELSE IF v = BoolV(FALSE) THEN Deliver(NilV, 0, up) ELSE Fails(m)
               [] f.kind = "each" ->
                     IF f.data.i = Len(Elements) THEN Deliver(NilV, 0, up)
                     ELSE valueWithSelfOrArg(f.data.b, Elements[f.data.i + 1], At([f.data EXCEPT !.i = @ + 1]))
               [] f.kind = "new" ->
                     LET x == <<"x", 0>>
                         val == IF x \in DOMAIN m.envs[e].vars THEN m.envs[e].vars[x] ELSE NilV
                     IN  Deliver(f.data, 0, [up EXCEPT !.objs[f.data.o] = val])
Deliver(v, e, m) == Answer(v, e, m)

Leave(v, m) == Deliver(v, TopF(m).env, [m EXCEPT !.frames = Front(@)])

\* `^^` ends the method the block was written in; if that has ended already
\* nothing stops it and every frame goes.
MethodReturn(v, m) ==
    LET at == {i \in DOMAIN m.frames : m.frames[i].id = TopF(m).home}
    IN  Deliver(v, 0, [m EXCEPT !.frames = SubSeq(@, 1, IF at = {} THEN 0 ELSE Max(at) - 1)])

int_bin(kind, a, b, m) ==
    IF a.t # "i" \/ b.t # "i" THEN Fails(m)
    ELSE PushV(IF kind = "<" THEN BoolV(a.n < b.n) ELSE IntV(a.n + b.n), m)

exec_send(i, m0) ==
    LET a == Args(i.n + 1, m0)
        m == DropV(i.n + 1, m0)
        r == a[1]
        native(kind, d) == EnterFrame(kind, <<>>, 0, 0, FALSE, d, m)
    IN  CASE i.sel \in {"+", "<"} -> int_bin(i.sel, r, a[2], m)
          [] i.sel = "if" ->
                IF r.t # "b" THEN Fails(m)
                ELSE IF r.b THEN execute_block(a[2], <<>>, {}, m)
                ELSE IF i.n = 2 THEN execute_block(a[3], <<>>, {}, m) ELSE PushV(NilV, m)
          [] i.sel = "while" ->
                execute_block(r, <<>>, {}, native("while", [c |-> r, b |-> a[2], body |-> FALSE]))
          [] i.sel = "each" ->
                IF r.t # "list" THEN Fails(m)
                ELSE valueWithSelfOrArg(a[2], Elements[1], native("each", [b |-> a[2], i |-> 1]))
          [] i.sel = "new" ->
                LET o == Obj(Len(m.objs) + 1)
                    n == [native("new", o) EXCEPT !.objs = Append(@, NilV)]
                IN  execute_block(a[2], <<>>, {o}, n)
          [] i.sel = "call" -> IF r.t # "obj" THEN Fails(m) ELSE CallMethod(m.method, r, <<a[2]>>, m)
          [] i.sel = "get" -> IF r.t # "obj" THEN Fails(m) ELSE PushV(m.objs[r.o], m)
          [] i.sel = "value" -> IF r.t # "blk" THEN Fails(m) ELSE execute_block(r, <<>>, {}, m)
          [] i.sel = "print" -> PushV(NilV, [m EXCEPT !.out = Append(@, IF r.t = "blk" THEN NilV ELSE r)])

SelfOf(m) == LoadLocal(SelfS, m)
StoreField(v, m) == IF SelfOf(m).t # "obj" THEN Fails(m) ELSE [m EXCEPT !.objs[SelfOf(m).o] = v]
LoadFieldOf(r, m) == PushV(IF r.t # "obj" THEN NilV ELSE m.objs[r.o], m)
Goto(o, m) == [m EXCEPT !.frames[Len(m.frames)].ip = @ - 1 + o]

\* One instruction; the pointer is already past it.
RECURSIVE Exec(_, _, _)
Exec(i, sendTier, m) ==
    LET v == Args(1, m)[1]
        m1 == DropV(1, m)
        f == TopF(m)
    IN  CASE i.op = "Push" ->
                PushV(IF i.v.t # "tmpl" THEN i.v
                      ELSE [t |-> "blk", ps |-> i.v.ps, init |-> i.v.init, code |-> i.v.code,
                            env |-> f.env, home |-> f.home], m)
          [] i.op = "PushClass" -> PushV([t |-> "cls"], m)
          [] i.op = "Pop" -> m1
          [] i.op = "Dup" -> PushV(v, m)
          [] i.op = "LoadLocal" -> PushV(LoadLocal(i.s, m), m)
          [] i.op = "LoadGlobal" -> Fails(m)
          [] i.op = "StoreLocal" -> store_set_local(i.s, v, m1)
          [] i.op = "StoreLocalKeep" -> store_set_local(i.s, v, m)
          [] i.op = "DefineLocal" -> store_define_local(i.s, v, m1)
          [] i.op = "DefineLocalKeep" -> store_define_local(i.s, v, m)
          [] i.op = "LoadField" -> LoadFieldOf(SelfOf(m), m)
          [] i.op = "LoadFieldOf" -> LoadFieldOf(v, m1)
          [] i.op = "StoreField" -> StoreField(v, m1)
          [] i.op = "StoreFieldKeep" -> StoreField(v, m)
          [] i.op = "IntBin" -> int_bin(i.kind, Args(2, m)[1], v, DropV(2, m))
          [] i.op = "Send" -> exec_send(i, m)
          [] i.op = "Fused" -> FoldLeft(LAMBDA acc, p : IF acc.res = "run" THEN Exec(p, sendTier, acc) ELSE acc, m, i.parts)
          [] i.op = "Jump" -> Goto(i.o, m)
          [] i.op = "IfJump" -> IF v \in {NilV, BoolV(FALSE)} THEN m1 ELSE Goto(i.o, m1)
          [] i.op = "ElseJump" -> IF v \in {NilV, BoolV(FALSE)} THEN Goto(i.o, m1) ELSE m1
          [] i.op = "BranchIfNotBool" -> IF v.t = "b" THEN m ELSE Goto(i.o, m)
          [] i.op = "RequireBool" -> IF v.t = "b" THEN m ELSE Fails(m)
          [] i.op = "BranchIfNotList" -> IF v.t = "list" /\ ~sendTier THEN m ELSE Goto(i.o, m)
          [] i.op = "BranchIfNotPlainNew" -> IF v.t = "cls" THEN m ELSE Goto(i.o, m)
          [] i.op = "ListLen" -> PushV(IntV(Len(Elements)), m1)
          [] i.op = "ListGet" -> PushV(Elements[v.n + 1], DropV(2, m))
          [] i.op = "NewWithFields" ->
                LET n == Len(i.names)
                    vals == Args(n, m)
                    set == {j \in 1..n : i.names[j] = "x"}
                    val == IF set = {} THEN NilV ELSE vals[Max(set)]
                IN  PushV(Obj(Len(m.objs) + 1), [DropV(n + 1, m) EXCEPT !.objs = Append(@, val)])
          [] i.op \in {"Return", "BlockReturn"} -> Leave(v, m)
          [] i.op = "MethodReturn" -> MethodReturn(v, m)

Step(sendTier, m) ==
    LET f == TopF(m)
    IN  Exec(f.code[f.ip], sendTier, [m EXCEPT !.frames[Len(m.frames)].ip = @ + 1])
----------------------------------------------------------------------------
(* The two compilations and their runs.  A program is a method `foo` with   *)
(* one parameter of a sealed class Foo with a field and its accessor, and a *)
(* method with a parameter v of that class; self and v are two objects.     *)
Code(b, ty, opt, foo) == compile_block(b, FALSE, ty, NewCompiler(opt, foo))
Compiled(p, opt) ==
    LET main == Code(p.main, "Foo", opt, p.foo)
        foo == Code(p.foo, "Any", opt, p.foo)
    IN  [err |-> main.st.err \/ foo.st.err, main |-> main.c[1].v, foo |-> foo.c[1].v]

Boot(c) ==
    LET m == [frames |-> <<>>, envs |-> <<>>, objs |-> <<IntV(7), IntV(8)>>, out |-> <<>>, ids |-> 0,
              res |-> "run", val |-> NilV, method |-> c.foo]
    IN  IF c.err THEN [m EXCEPT !.res = "refused"] ELSE CallMethod(c.main, Obj(1), <<Obj(2)>>, m)

\* What a program can show: how it ended, its value, what it printed, and
\* the fields of the objects.
Outcome(m) == [res |-> m.res, val |-> IF m.val.t = "blk" THEN NilV ELSE m.val, out |-> m.out, objs |-> m.objs]

(* The programs.                                                            *)
X == Id("x")
Inc(x) == Assign(x, Bin("+", Id(x), Lit(1)))
Upto2(S) == {<<a>> : a \in S} \cup (S \X S)
Block0(S) == {Blk(<<>>, b) : b \in Upto2(S)}
FooPlus == Blk(<<"a">>, <<Bin("+", Id("a"), Fld)>>)
Program(foo, body) == [foo |-> foo, main |-> Blk(<<"v">>, body)]
Less2(x) == Bin("<", Id(x), Lit(2))
Capture(x) == Assign("k", Blk(<<>>, <<Id(x)>>))
NoSubject == [k |-> "none"]

Conditionals ==
    LET arms == Block0({Inc("x"), Decl("x", Lit(4)), LetD("y", X), Emit(Id("y")), Ret(Lit(5)), MRet(X)})
        subjects == {TrueE, Less2("x"), X, Logic("and", Less2("x"), Lit(0)), Logic("or", Less2("x"), X)}
    IN  {Program(FooPlus, <<Decl("x", n), If(s, <<a>>), Emit(X)>>) : n \in {Lit(1), Lit(2)}, s \in subjects, a \in arms}
        \cup {Program(FooPlus, <<Decl("x", n), Emit(If(Less2("x"), <<a, Blk(<<>>, <<Ret(X), Inc("x")>>)>>)), X>>) :
                 n \in {Lit(1), Lit(2)}, a \in arms}

Whiles ==
    LET first == If(Less2("x"), <<Blk(<<>>, <<Capture("y")>>)>>)
        bodies == Block0({Decl("y", X), first, Capture("x"), Emit(Id("y")), Ret(X), MRet(X),
                          If(Less2("x"), <<Blk(<<>>, <<Decl("z", X), Capture("z")>>)>>)})
        conds == {Blk(<<>>, <<Less2("x")>>), Blk(<<>>, <<Decl("y", Less2("x")), Id("y")>>), Blk(<<>>, <<X>>)}
    IN  {Program(FooPlus, <<Decl("x", Lit(0)), Decl("k", Lit(0)),
                            While(c, Blk(<<>>, <<Inc("x")>> \o b.body)), Emit(Value(Id("k")))>>) :
            c \in conds, b \in bodies}

Eaches ==
    LET bodies == Upto2({Assign("x", Bin("+", X, Id("e"))), Inc("e"), If(Less2("x"), <<Blk(<<>>, <<Capture("e")>>)>>), Emit(Id("e")), Ret(X), MRet(X),
                         Emit(Self), If(Less2("e"), <<Blk(<<>>, <<Decl("y", Id("e")), Capture("y")>>)>>)})
    IN  {Program(FooPlus, <<Decl("x", Lit(0)), Decl("k", Lit(0)), Each(s, Blk(ps, b)), Emit(X), Emit(Value(Id("k")))>>) :
            s \in {ListRef, Lit(3)}, ps \in {<<>>, <<"e">>}, b \in bodies}

News ==
    LET configs == Block0({Assign("x", Lit(1)), Inc("x"), Assign("w", X), Assign("x", Get(Id("v"))),
                           Assign("x", Fld), Decl("x", Lit(2))})
    IN  {Program(FooPlus, <<Decl("x", Lit(5)), Decl("o", New(c)), Emit(Get(Id("o"))), Emit(X)>>) : c \in configs}

Calls ==
    LET foos == {FooPlus, Blk(<<"a">>, <<Emit(Id("a")), Ret(Id("a")), Lit(3)>>),
                 Blk(<<"a">>, <<If(Less2("a"), <<Blk(<<>>, <<Ret(Lit(3))>>), Blk(<<>>, <<Fld>>)>>)>>),
                 Blk(<<"a">>, <<If(Less2("a"), <<Blk(<<>>, <<MRet(Lit(3))>>)>>), Fld>>),
                 Blk(<<"a">>, <<Value(Blk(<<>>, <<Bin("+", Id("a"), Get(Self))>>))>>),
                 Blk(<<"a">>, <<Decl("x", Id("a")), Emit(Id("x")), Get(NoSubject)>>),
                 Blk(<<"a">>, <<Each(ListRef, Blk(<<"b">>, <<Emit(Bin("+", Id("a"), Id("b")))>>))>>)}
        subjects == {NoSubject, Self, Id("v"), X}
        args == {X, Lit(2), Get(Id("v")), Call(Id("v"), Lit(1))}
    IN  {Program(f, <<Decl("x", Lit(1)), Decl("a", Call(s, e)), Emit(Id("a")), Emit(Call(Id("v"), Id("a"))), X>>) :
            f \in foos, s \in subjects, e \in args}

\* A body that stores a field; names declared again under a rebound parameter;
\* a declaration that reads the name it shadows.
Setters ==
    {Program(Blk(<<"a">>, <<SetFld(Id("a"))>>), <<Call(s, Lit(9)), Emit(Fld), Emit(Get(Id("v")))>>) :
        s \in {NoSubject, Self, Id("v")}}
Shadows ==
    {Program(FooPlus, <<Decl("x", Lit(1)), Each(ListRef, Blk(<<"e">>,
        <<If(Less2("x"), <<Blk(<<>>, <<Decl(n, Lit(5)), Emit(Id(n))>>)>>), Emit(Id("e"))>>))>>) : n \in {"e", "y"}}
    \cup {Program(Blk(<<"a">>, <<Each(ListRef, Blk(<<n>>, <<Decl("q", Lit(1)), Emit(Id(n)), Emit(Id("a"))>>))>>),
                  <<Call(Id("v"), Lit(9))>>) : n \in {"a", "b"}}
    \cup {Program(FooPlus, <<Decl("x", Lit(1)), If(TrueE, <<Blk(<<>>, <<Decl(n, X), Emit(Id(n))>>)>>)>>) : n \in {"x", "y"}}

Programs == Conditionals \cup Whiles \cup Eaches \cup News \cup Calls \cup Setters \cup Shadows
PlainCode == [p \in Programs |-> Compiled(p, FALSE)]
FastCode == [p \in Programs |-> Compiled(p, TRUE)]
----------------------------------------------------------------------------
Idle == [frames |-> <<>>, res |-> "idle"]
LInit == prog \in Programs /\ tier \in BOOLEAN /\ phase = "plain" /\ mach = Boot(PlainCode[prog]) /\ plain = Idle

Runs(m) == m.res = "run" /\ m.ids <= MaxSteps
StepPlain == phase = "plain" /\ Runs(mach) /\ mach' = Step(tier, mach) /\ UNCHANGED <<prog, tier, phase, plain>>
StartFast ==
    /\ phase = "plain" /\ ~Runs(mach)
    /\ phase' = "fast" /\ plain' = Outcome(mach) /\ mach' = Boot(FastCode[prog])
    /\ UNCHANGED <<prog, tier>>
StepFast == phase = "fast" /\ Runs(mach) /\ mach' = Step(tier, mach) /\ UNCHANGED <<prog, tier, phase, plain>>
LNext == StepPlain \/ StartFast \/ StepFast
LoweringSpec == LInit /\ [][LNext]_lvars

(* What the optimisations do not carry over: the field store of a body      *)
(* spliced at a call on another object, which is not rebound to it; a name  *)
(* declared again under a rebound parameter, which the rebinding hides; and *)
(* a declaration reading the outer name it shadows, which reads itself.     *)
StoresAtReceiver(p) ==
    /\ \E d \in Nodes(p.foo) : d.k = "setfld"
    /\ \E d \in Nodes(p.main) : d.k = "call" /\ ~IsSelf(d)
Redeclares(b) ==
    \E i \in DOMAIN b.body : \E d \in Nodes(b.body[i]) :
        \/ d.k = "decl" /\ d.x \in ToSet(b.ps)
        \/ d.k = "block" /\ ToSet(d.ps) \cap ToSet(b.ps) # {}
HidesRebound(p) == \E d \in Nodes(p.foo) \cup Nodes(p.main) : d.k = "block" /\ d # p.main /\ Redeclares(d)
ReadsShadowed(p) == \E d \in Nodes(p.main) : d.k = "decl" /\ d.x \in Mentioned(d.e)

(* The compiled program with inlined conditionals and loops, spliced bodies *)
(* and fused instructions prints, stores and answers what the same program  *)
(* does when every construct is a real send to a real block, save the three *)
(* shapes above.                                                            *)
OptimisedAgrees ==
    phase = "fast" /\ ~Runs(mach) /\ plain.res # "refused" =>
        \/ Outcome(mach) = plain
        \/ StoresAtReceiver(prog) \/ HidesRebound(prog) \/ ReadsShadowed(prog)
=============================================================================
