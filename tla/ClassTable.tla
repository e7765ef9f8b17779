----------------------------- MODULE ClassTable -----------------------------
(* The checker's table of class signatures (src/class_table.rs), filled     *)
(* from the live classes before each unit and from the unit's own class     *)
(* definitions while it compiles, and the warnings the checker draws from   *)
(* it about sends, against what those sends do when the unit runs.          *)
EXTENDS Naturals, Sequences, FiniteSets, SequencesExt

CONSTANT MaxUnits      \* units compiled and run, one after the other

VARIABLES classes,      \* the live classes, by name
          table,        \* the signatures, by name
          units, wrong
tvars == <<classes, table, units, wrong>>
----------------------------------------------------------------------------
(* Units: class definitions and reopenings, with bodies of methods (one     *)
(* selector `a` without, one `b:` with an argument), mixins and a seal; and *)
(* sends to an instance of the sealed class C.                              *)
Meth(s, t) == [i |-> "meth", sel |-> s, ty |-> t]
Mix(m) == [i |-> "mix", m |-> m]
Seal == [i |-> "seal"]
Def(c, p, b) == [s |-> "def", c |-> c, p |-> p, body |-> b]
Ext(c, b) == [s |-> "ext", c |-> c, body |-> b]
Send(sel, arg) == [s |-> "send", c |-> "C", sel |-> sel, arg |-> arg]

Selectors(body) == {body[i].sel : i \in {j \in DOMAIN body : body[j].i = "meth"}}
VariantsOf(body, s) == {body[i].ty : i \in {j \in DOMAIN body : body[j].i = "meth" /\ body[j].sel = s}}
Mixins(body) == {body[i].m : i \in {j \in DOMAIN body : body[j].i = "mix"}}
Seals(body) == Seal \in Range(body)
Put(f, k, v) == [x \in DOMAIN f \cup {k} |-> IF x = k THEN v ELSE f[x]]
Merged(f, g) == [x \in DOMAIN f \cup DOMAIN g |-> IF x \in DOMAIN f THEN f[x] ELSE g[x]]
Nothing == [x \in {} |-> {}]
----------------------------------------------------------------------------
(* Signatures.  params: the one fully typed variant of a method; variants:  *)
(* its variants, where there are several and all are typed.                 *)
EmptySig == [parent |-> {}, mixins |-> {}, own |-> {}, sealed |-> FALSE, from_vm |-> FALSE,
             params |-> Nothing, variants |-> Nothing]

describe_class(cs, c) == cs[c]
Typed(vs) == vs \cap {"any", "none"} = {}
from_class_info(info) ==
    [EmptySig EXCEPT !.parent = info.parent, !.mixins = info.mixins, !.own = DOMAIN info.methods,
        !.sealed = info.sealed, !.from_vm = TRUE,
        !.params = [s \in {m \in DOMAIN info.methods : Typed(info.methods[m]) /\ Cardinality(info.methods[m]) = 1}
                    |-> info.methods[s]],
        !.variants = [s \in {m \in DOMAIN info.methods : Typed(info.methods[m]) /\ Cardinality(info.methods[m]) > 1}
                      |-> info.methods[s]]]

declared_method_params(body) ==
    LET once(s) == Cardinality({i \in DOMAIN body : body[i].i = "meth" /\ body[i].sel = s}) = 1
    IN  [s \in {m \in Selectors(body) : once(m) /\ Typed(VariantsOf(body, m))} |-> VariantsOf(body, s)]
class_sig_from_def(d) ==
    [EmptySig EXCEPT !.parent = d.p, !.mixins = Mixins(d.body), !.own = Selectors(d.body),
        !.sealed = Seals(d.body), !.params = declared_method_params(d.body)]

\* A signature replaces the one before it but keeps its parameter types.
insert(t, c, sig) ==
    IF c \notin DOMAIN t THEN Put(t, c, sig)
    ELSE Put(t, c, [sig EXCEPT
            !.params = IF sig.from_vm THEN Merged(t[c].params, @) ELSE Merged(@, t[c].params),
            !.variants = Merged(@, t[c].variants)])
SigOf(t, c) == IF c \in DOMAIN t THEN t[c] ELSE EmptySig
add_params(t, c, ps) ==
    IF DOMAIN ps = {} THEN t ELSE Put(t, c, [SigOf(t, c) EXCEPT !.params = Merged(ps, @)])
add_mixins(t, c, ms) == IF ms = {} THEN t ELSE Put(t, c, [SigOf(t, c) EXCEPT !.mixins = @ \cup ms])

\* A class read from the VM is read again once, when it has been sealed.
sealed_since(t, cs, c) == cs[c].sealed /\ ~t[c].sealed
populate_from_vm(t, cs) ==
    LET fresh == {c \in DOMAIN cs : ~(c \in DOMAIN t /\ t[c].from_vm) \/ sealed_since(t, cs, c)}
    IN  FoldSet(LAMBDA c, acc : insert(acc, c, from_class_info(describe_class(cs, c))), t, fresh)

\* Whether c answers s: "yes", "no", or "unknown" where a class is missing.
RECURSIVE responds_rec(_, _, _, _)
responds_rec(t, c, s, visited) ==
    IF c \in visited THEN "no"
    ELSE IF c \notin DOMAIN t THEN "unknown"
    ELSE IF s \in t[c].own THEN "yes"
    ELSE LET up == {responds_rec(t, d, s, visited \cup {c}) : d \in t[c].mixins \cup t[c].parent}
         IN  IF "yes" \in up THEN "yes" ELSE IF "unknown" \in up THEN "unknown" ELSE "no"
RECURSIVE is_subtype_rec(_, _, _, _)
is_subtype_rec(t, c, d, visited) ==
    IF c = d THEN "yes"
    ELSE IF c \in visited THEN "no"
    ELSE IF c \notin DOMAIN t THEN "unknown"
    ELSE LET up == {is_subtype_rec(t, e, d, visited \cup {c}) : e \in t[c].mixins \cup t[c].parent}
         IN  IF "yes" \in up THEN "yes" ELSE IF "unknown" \in up THEN "unknown" ELSE "no"
----------------------------------------------------------------------------
(* Compiling a unit.                                                        *)
prescan_class_defs(t, u) ==
    FoldLeft(LAMBDA acc, n : IF n.s = "def" THEN insert(acc, n.c, class_sig_from_def(n)) ELSE acc, t, u)

\* Only a sealed class read from the VM is trusted: the mutant trusts any.
Trusted_any(t, c) == c \in DOMAIN t
Trusted(t, c) == c \in DOMAIN t /\ t[c].from_vm /\ t[c].sealed
check_mnu(t, n) == Trusted(t, n.c) /\ responds_rec(t, n.c, n.sel, {}) = "no"
\* Two static types agree when they are the same: classes of instances too.
check_variant_mismatch(t, n) ==
    /\ Trusted(t, n.c) /\ n.arg # "none" /\ n.sel \in DOMAIN t[n.c].variants
    /\ n.arg \notin t[n.c].variants[n.sel]
check_type(t, arg, ty) ==
    arg # ty /\ ({arg, ty} \cap {"Int", "Str"} = {} => is_subtype_rec(t, arg, ty, {}) = "no")
call_param_types(t, n) == IF Trusted(t, n.c) /\ n.sel \in DOMAIN t[n.c].params THEN t[n.c].params[n.sel] ELSE {}
check_arguments(t, n) == \E ty \in call_param_types(t, n) : n.arg # "none" /\ check_type(t, n.arg, ty)
Warns(t, n) == check_mnu(t, n) \/ check_variant_mismatch(t, n) \/ check_arguments(t, n)

CompileOne(acc, n) ==
    CASE n.s = "def" -> [acc EXCEPT !.t = insert(@, n.c, class_sig_from_def(n)), !.w = Append(@, FALSE)]
      [] n.s = "ext" -> [acc EXCEPT !.t = add_mixins(add_params(@, n.c, declared_method_params(n.body)), n.c, Mixins(n.body)),
                                    !.w = Append(@, FALSE)]
      [] OTHER -> [acc EXCEPT !.w = Append(@, Warns(acc.t, n))]
compile_program(t, u) == FoldLeft(CompileOne, [t |-> prescan_class_defs(t, u), w |-> <<>>], u)
----------------------------------------------------------------------------
(* Running it.  A unit stops at its first error.                            *)
DefineMethod(cl, m) ==
    [cl EXCEPT !.methods = Put(@, m.sel, {m.ty} \cup (IF m.sel \in DOMAIN @ THEN @[m.sel] ELSE {}))]
RunBody(cl, body) ==
    FoldLeft(LAMBDA acc, b : CASE acc.sealed -> acc
                               [] b.i = "meth" -> DefineMethod(acc, b)
                               [] b.i = "mix" -> [acc EXCEPT !.mixins = @ \cup {b.m}]
                               [] OTHER -> [acc EXCEPT !.sealed = TRUE], cl, body)
DefineClass(cs, n) ==
    IF n.c \in DOMAIN cs \/ ~(n.p \subseteq DOMAIN cs) \/ (\E p \in n.p : cs[p].sealed) \/ ~(Mixins(n.body) \subseteq DOMAIN cs)
    THEN {}
    ELSE {Put(cs, n.c, RunBody([parent |-> IF n.p = {} THEN {"Object"} ELSE n.p, mixins |-> {}, methods |-> Nothing,
                                sealed |-> FALSE], n.body))}
ExtendClass(cs, n) ==
    IF n.c \notin DOMAIN cs \/ (n.body # <<>> /\ cs[n.c].sealed) \/ ~(Mixins(n.body) \subseteq DOMAIN cs) THEN {}
    ELSE {[cs EXCEPT ![n.c] = RunBody(@, n.body)]}

RECURSIVE Descends(_, _, _)
Descends(cs, c, d) == c = d \/ (c \in DOMAIN cs /\ \E e \in cs[c].parent \cup cs[c].mixins : Descends(cs, e, d))
Accepts(cs, ty, arg) == ty \in {"any", "none"} \/ Descends(cs, arg, ty)
\* A class none of whose variants applies leaves the send to those above it.
RECURSIVE lookup_rec(_, _, _, _)
lookup_rec(cs, c, s, arg) ==
    \/ s \in DOMAIN cs[c].methods /\ \E ty \in cs[c].methods[s] : Accepts(cs, ty, arg)
    \/ \E d \in cs[c].mixins \cup cs[c].parent : lookup_rec(cs, d, s, arg)

RunOne(acc, n) ==
    IF acc.stopped THEN [acc EXCEPT !.ok = Append(@, FALSE)]
    ELSE CASE n.s = "send" ->
                LET ok == n.c \in DOMAIN acc.cs /\ lookup_rec(acc.cs, n.c, n.sel, n.arg)
                IN  [acc EXCEPT !.ok = Append(@, ok), !.stopped = ~ok]
           [] OTHER ->
                LET next == IF n.s = "def" THEN DefineClass(acc.cs, n) ELSE ExtendClass(acc.cs, n)
                IN  [acc EXCEPT !.ok = Append(@, FALSE), !.stopped = next = {},
                                !.cs = IF next = {} THEN @ ELSE CHOOSE cs \in next : TRUE]
execute_block(cs, u) == FoldLeft(RunOne, [cs |-> cs, ok |-> <<>>, stopped |-> FALSE], u)
----------------------------------------------------------------------------
Bodies ==
    {<<>>, <<Meth("a", "none")>>, <<Meth("b", "Int")>>, <<Meth("b", "any")>>, <<Meth("b", "Int"), Meth("b", "Str")>>,
     <<Meth("b", "P"), Meth("b", "Str")>>}
CBodies == {b \o s : b \in Bodies \cup {<<Mix("M")>>, <<Meth("b", "Int"), Mix("M")>>}, s \in {<<>>, <<Seal>>}}
AncestorBodies == {<<>>, <<Meth("a", "none")>>, <<Meth("b", "Int")>>, <<Meth("b", "any")>>}
Statements ==
    {Def(c, {}, b) : c \in {"P", "M"}, b \in AncestorBodies} \cup {Def("C", p, b) : p \in {{}, {"P"}}, b \in CBodies}
    \cup {Ext("C", b) : b \in CBodies \ {<<>>}} \cup {Ext(c, <<Meth("a", "none")>>) : c \in {"P", "M", "Object"}}
Sends == {Send("a", "none")} \cup {Send("b", x) : x \in {"Int", "Str", "C"}}
Units == {<<n>> : n \in Statements \cup Sends} \cup {<<n, s>> : n \in {m \in Statements : m.s = "ext"}, s \in Sends}

(* What the table does not follow.  A class above the receiver has gained   *)
(* methods or mixins since its signature was read; the parameter types      *)
(* recorded for the selector are not those of the live class; a class above *)
(* has a variant that takes the argument; a variant takes a class above the *)
(* argument's.                                                              *)
AncestorMoved(t, cs, n) ==
    \E c \in (DOMAIN t \cap DOMAIN cs) \ {n.c} :
        /\ Descends(cs, n.c, c) /\ t[c].from_vm
        /\ ~(DOMAIN cs[c].methods \subseteq t[c].own)
RecordedTypes(t, n) == {f[n.sel] : f \in {g \in {t[n.c].params, t[n.c].variants} : n.sel \in DOMAIN g}}
LiveTypes(cs, n) == IF n.sel \in DOMAIN cs[n.c].methods THEN cs[n.c].methods[n.sel] ELSE {}
RecordMoved(t, cs, n) == \E types \in RecordedTypes(t, n) : types # LiveTypes(cs, n)
VariantAbove(cs, n) == \E c \in cs[n.c].mixins \cup cs[n.c].parent : lookup_rec(cs, c, n.sel, n.arg)
TakesSuperclass(cs, n) == \E ty \in LiveTypes(cs, n) : ty # n.arg /\ Descends(cs, n.arg, ty)
NotFollowed(t, cs, n) ==
    \/ AncestorMoved(t, cs, n) \/ RecordMoved(t, cs, n)
    \/ LiveTypes(cs, n) # {} /\ VariantAbove(cs, n)
    \/ TakesSuperclass(cs, n)

TInit ==
    /\ classes = [c \in {"Object"} |-> [parent |-> {}, mixins |-> {}, methods |-> Nothing, sealed |-> FALSE]]
    /\ table = Nothing /\ units = 0 /\ wrong = FALSE
compile_and_run_unit == \E u \in Units :
    /\ units < MaxUnits /\ ~wrong /\ units' = units + 1
    /\ LET t == populate_from_vm(table, classes)
           c == compile_program(t, u)
           r == execute_block(classes, u)
       IN  /\ table' = c.t /\ classes' = r.cs
           /\ wrong' = \E i \in DOMAIN u : c.w[i] /\ r.ok[i] /\ ~NotFollowed(c.t, r.cs, u[i])
TableSpec == TInit /\ [][compile_and_run_unit]_tvars

(* No warning is wrong: a send the checker says nobody answers, or no       *)
(* variant accepts, is not answered when it runs, except where it rests on  *)
(* one of the four facts above that the table does not follow.              *)
NoWrongWarning == ~wrong
=============================================================================
