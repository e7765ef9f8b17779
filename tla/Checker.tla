------------------------------ MODULE Checker ------------------------------
(* The type checker: the type lattice of src/types.rs and the flow-          *)
(* sensitive nil narrowing of src/compiler/checker.rs.  Small programs over *)
(* one local x declared `Integer?` are compiled, which leaves a belief about *)
(* x at each of its uses, and then run on every path.                       *)
EXTENDS Naturals, Sequences, FiniteSets, SequencesExt

VARIABLES subject, verdict
kvars == <<subject, verdict>>
----------------------------------------------------------------------------
(* Types.                                                                   *)
Prim(n) == [k |-> n]
Of(k, t) == [k |-> k, of |-> t]
MapOf(a, b) == [k |-> "MapOf", key |-> a, of |-> b]
BlockOf(p, r) == [k |-> "BlockOf", key |-> p, of |-> r]
TVar(n) == [k |-> "Var", n |-> n]
AnyT == Prim("Any")
NilT == Prim("Nil")
IntT == Prim("Int")
Nullable(t) == Of("Nullable", t)
One == {"Nullable", "ListOf", "SetOf"}
Two == {"MapOf", "BlockOf"}

RECURSIVE contains_var(_)
contains_var(t) ==
    \/ t.k = "Var"
    \/ t.k \in One \cup Two /\ contains_var(t.of)
    \/ t.k \in Two /\ contains_var(t.key)

\* The bare collection a parameterised one belongs to.
Bare(k) == CASE k \in {"ListOf", "List"} -> "List" [] k \in {"MapOf", "Map"} -> "Map"
             [] k \in {"SetOf", "Set"} -> "Set" [] k \in {"BlockOf", "Block"} -> "Block" [] OTHER -> "none"

RECURSIVE compatible_with(_, _)
compatible_with(t, e) ==
    \/ contains_var(t) \/ contains_var(e)
    \/ t.k = "Any" \/ e.k = "Any"
    \/ t.k \in {"ListOf", "MapOf", "SetOf"} /\ e.k = Bare(t.k)
    \/ t.k \in {"ListOf", "SetOf"} /\ t = e
    \/ /\ t.k = "MapOf" /\ e.k = "MapOf"
       /\ t.key = e.key \/ AnyT \in {t.key, e.key}
       /\ t.of = e.of \/ e.of = AnyT
    \/ {t.k, e.k} = {"Block", "BlockOf"}
    \/ t.k = "BlockOf" /\ e.k = "BlockOf" /\ compatible_with(e.key, t.key) /\ compatible_with(t.of, e.of)
    \/ t.k = "Never"
    \/ e.k = "Nullable" /\ (t = NilT \/ compatible_with(IF t.k = "Nullable" THEN t.of ELSE t, e.of))
    \/ t.k \notin One \cup Two /\ t = e

Core(t) == CASE t = NilT -> {} [] t.k = "Nullable" -> {t.of} [] OTHER -> {t}
MayBeNil(t) == t = NilT \/ t.k = "Nullable"

join(a, b) ==
    LET cores == Core(a) \cup Core(b)
        one == CHOOSE t \in cores : TRUE
    IN  IF AnyT \in {a, b} THEN AnyT
        ELSE IF a.k = "Never" THEN b
        ELSE IF b.k = "Never" \/ a = b THEN a
        ELSE IF Bare(a.k) # "none" /\ Bare(a.k) = Bare(b.k) THEN Prim(Bare(a.k))
        ELSE IF Cardinality(cores) > 1 THEN AnyT
        ELSE IF MayBeNil(a) \/ MayBeNil(b) THEN Nullable(one) ELSE one

Renull(t) == IF t.k \in {"Any", "Nullable"} THEN t ELSE Nullable(t)
\* Every variable replaced by what it is bound to, by Any if by nothing.
RECURSIVE substitute(_, _)
substitute(t, b) ==
    CASE t.k = "Var" -> IF t.n \in DOMAIN b THEN b[t.n] ELSE AnyT
      [] t.k = "Nullable" -> Renull(substitute(t.of, b))
      [] t.k \in {"ListOf", "SetOf"} -> Of(t.k, substitute(t.of, b))
      [] t.k \in Two -> [k |-> t.k, key |-> substitute(t.key, b), of |-> substitute(t.of, b)]
      [] OTHER -> t

\* What matching a declared type with an actual one binds; a variable met
\* with two types is bound to Any.
BindVar(n, a, b) ==
    [m \in DOMAIN b \cup {n} |-> IF m # n THEN b[m] ELSE IF n \notin DOMAIN b \/ b[n] = a THEN a ELSE AnyT]
RECURSIVE unify_into(_, _, _)
unify_into(d, a, b) ==
    IF a.k = "Any" THEN b
    ELSE IF d.k = "Var" THEN BindVar(d.n, a, b)
    ELSE IF d.k \in {"ListOf", "SetOf"} /\ a.k = d.k THEN unify_into(d.of, a.of, b)
    ELSE IF d.k \in Two /\ a.k = d.k THEN unify_into(d.of, a.of, unify_into(d.key, a.key, b))
    ELSE IF d.k = "Nullable" THEN unify_into(d.of, IF a.k = "Nullable" THEN a.of ELSE a, b)
    ELSE b

RECURSIVE normalize_any_elems(_)
normalize_any_elems(t) ==
    CASE t.k \in {"ListOf", "SetOf"} /\ t.of = AnyT -> Prim(Bare(t.k))
      [] t.k = "MapOf" /\ t.key = AnyT /\ t.of = AnyT -> Prim("Map")
      [] t.k = "Nullable" -> Renull(normalize_any_elems(t.of))
      [] OTHER -> t

Ground == {Prim(k) : k \in {"Int", "Bool", "Nil", "List", "Block", "Any", "Never"}}
Flat == Ground \ {NilT, AnyT, Prim("Never")}
Universe ==
    Ground \cup {Of(k, t) : k \in {"Nullable", "ListOf"}, t \in Flat} \cup {MapOf(a, b) : a \in Flat, b \in Flat}
    \cup {BlockOf(a, b) : a \in Flat, b \in Flat} \cup {Nullable(Of("ListOf", t)) : t \in Flat}
Declared == {TVar("T"), Of("ListOf", TVar("T")), Nullable(TVar("T")), MapOf(TVar("T"), TVar("U")),
             BlockOf(TVar("T"), TVar("U")), MapOf(TVar("T"), TVar("T"))}
NoBinding == [n \in {} |-> AnyT]
----------------------------------------------------------------------------
(* Programs: x = nil or an Integer, a use of x, a nil guard with its arms,  *)
(* a conditional on something else, a loop, `x.defined? && use`, a block    *)
(* kept for later and its call, and the two returns.                        *)
Set(v) == [s |-> "set", v |-> v]
Use == [s |-> "use", believes |-> AnyT]
Guard(a, b) == [s |-> "guard", arms |-> <<a, b>>]
GuardIf(a) == [s |-> "guard", arms |-> <<a>>]
Cond(a) == [s |-> "cond", arms |-> <<a>>]
Loop(a) == [s |-> "loop", arms |-> <<a>>]
And == [s |-> "and", believes |-> AnyT]
Keep(a) == [s |-> "keep", arms |-> <<a>>]
CallIt == [s |-> "call"]
Exit == [s |-> "mret"]
Caret == [s |-> "caret"]

(* Compiling.  A scope holds the narrowed type of x, or nothing.            *)
DeclaredX == Nullable(IntT)
path_type(sc) ==
    LET known == {i \in DOMAIN sc : sc[i] # <<>>} IN IF known = {} THEN DeclaredX ELSE sc[Max(known)][1]
update_narrowing(sc, t) == [sc EXCEPT ![Len(sc)] = IF t = AnyT THEN <<>> ELSE <<t>>]

guard_narrowing(sc) == path_type(sc).k = "Nullable"
expr_diverges(arm) == arm # <<>> /\ arm[Len(arm)].s \in {"mret", "caret"}

\* What is known of x after a guard: the join of the arms that go on.
apply_guard_join(sc, exits, arms) ==
    LET on(i) == ~(i <= Len(arms) /\ expr_diverges(arms[i]))
    IN  IF on(1) /\ on(2) THEN update_narrowing(sc, join(exits[1], exits[2]))
        ELSE IF on(1) THEN update_narrowing(sc, exits[1])
        ELSE IF on(2) THEN update_narrowing(sc, exits[2])
        ELSE sc

RECURSIVE CompileAll(_, _)
\* A block of its own: a scope that starts with what the guard tells.
CompileArm(arm, sc, t) == CompileAll(arm, Append(sc, t))
ExitType(r, sc) == LET t == r.sc[Len(sc) + 1] IN IF t = <<>> THEN AnyT ELSE t[1]
Node(n, sc) == [n |-> n, sc |-> sc]

CompileGuard(n, sc) ==
    LET arm == <<path_type(sc).of, NilT>>
        done == [i \in DOMAIN n.arms |-> CompileArm(n.arms[i], sc, <<arm[i]>>)]
        exits == [i \in 1..2 |-> IF i <= Len(n.arms) THEN ExitType(done[i], sc) ELSE arm[i]]
    IN  Node([n EXCEPT !.arms = [i \in DOMAIN done |-> done[i].ss]],
             apply_guard_join(SubSeq(done[1].sc, 1, Len(sc)), exits, n.arms))

\* Any other conditional and a loop are spliced: their assignments narrow
\* the enclosing scope.
CompileSpliced(n, sc) ==
    LET done == FoldLeft(LAMBDA acc, a : LET r == CompileAll(a, acc.sc)
                                         IN  [arms |-> Append(acc.arms, r.ss), sc |-> r.sc],
                         [arms |-> <<>>, sc |-> sc], n.arms)
    IN  Node([n EXCEPT !.s = IF @ = "guard" THEN "split" ELSE @, !.arms = done.arms], done.sc)

CompileOne(n, sc) ==
    CASE n.s = "use" -> Node([n EXCEPT !.believes = path_type(sc)], sc)
      [] n.s = "and" -> Node([n EXCEPT !.believes = IF guard_narrowing(sc) THEN path_type(sc).of ELSE path_type(sc)], sc)
      [] n.s = "set" -> Node(n, update_narrowing(sc, n.v))
      [] n.s = "guard" /\ guard_narrowing(sc) -> CompileGuard(n, sc)
      [] n.s \in {"cond", "loop"} \/ (n.s = "guard" /\ ~guard_narrowing(sc)) -> CompileSpliced(n, sc)
      [] n.s = "keep" ->
            LET r == CompileArm(n.arms[1], sc, <<>>) IN Node([n EXCEPT !.arms = <<r.ss>>], SubSeq(r.sc, 1, Len(sc)))
      [] OTHER -> Node(n, sc)
CompileAll(ss, sc) ==
    FoldLeft(LAMBDA acc, n : LET r == CompileOne(n, acc.sc) IN [ss |-> Append(acc.ss, r.n), sc |-> r.sc],
             [ss |-> <<>>, sc |-> sc], ss)

(* Running: the values x may have where control is (none: control is not    *)
(* here), the kept block, whether a use met nil where the belief about x    *)
(* rests on what was assigned or tested on the way, and the grounds on      *)
(* which it may rest on something else since: an assignment in an arm that  *)
(* was spliced and may not have run, or in the pass before; the call of a   *)
(* block kept from an earlier point; an arm that ends in `^`.               *)
Believed(t, m) == t = IntT /\ "nil" \in m.x
RECURSIVE Within(_)
Within(ss) == UNION {{ss[i]} \cup (IF "arms" \in DOMAIN ss[i] THEN UNION {Within(ss[i].arms[j]) : j \in DOMAIN ss[i].arms} ELSE {})
                     : i \in DOMAIN ss}
Assigns(arms) == \E j \in DOMAIN arms : \E n \in Within(arms[j]) : n.s = "set"
Grounds(why, holds, m) == IF holds THEN [m EXCEPT !.stale = @ \cup {why}] ELSE m

RECURSIVE RunAll(_, _)
Meet(a, b) ==
    [a EXCEPT !.x = @ \cup b.x, !.kept = @ \o b.kept, !.lie = @ \/ b.lie,
              !.stale = UNION {m.stale : m \in {n \in {a, b} : n.x # {}}}]
RunBranch(arms, i, x, m) ==
    IF x = {} THEN [m EXCEPT !.x = {}]
    ELSE IF i > Len(arms) THEN [m EXCEPT !.x = x] ELSE RunAll(arms[i], [m EXCEPT !.x = x])
RunArms(arms, first, second) == Meet(RunBranch(arms, 1, first.x \ {"nil"}, first), RunBranch(arms, 2, second.x \cap {"nil"}, second))
RunLoop(body, once) == Meet(once, RunAll(body, Grounds("pass", Assigns(<<body>>), once)))
RunOne(n, m) ==
    CASE m.x = {} -> m
      [] n.s = "use" -> [m EXCEPT !.lie = @ \/ (Believed(n.believes, m) /\ m.stale = {})]
      [] n.s = "and" -> [m EXCEPT !.lie = @ \/ Believed(n.believes, [m EXCEPT !.x = @ \ {"nil"}])]
      [] n.s = "set" -> [m EXCEPT !.x = {IF n.v = NilT THEN "nil" ELSE "int"}, !.stale = {}]
      [] n.s = "guard" ->
            LET tested == [m EXCEPT !.stale = {}]
            IN  Grounds("caret", \E j \in DOMAIN n.arms : Last(n.arms[j]).s = "caret", RunArms(n.arms, tested, tested))
      [] n.s = "split" ->
            Grounds("arm", Assigns(n.arms), RunArms(n.arms, m, Grounds("arm", Assigns(<<n.arms[1]>>), m)))
      [] n.s = "cond" -> Grounds("arm", Assigns(n.arms), Meet(m, RunAll(n.arms[1], m)))
      [] n.s = "loop" -> Grounds("arm", Assigns(n.arms), RunLoop(n.arms[1], Meet(m, RunAll(n.arms[1], m))))
      [] n.s = "keep" -> [m EXCEPT !.kept = <<n.arms[1]>>]
      [] n.s = "call" /\ m.kept = <<>> -> m
      [] n.s = "call" /\ m.kept # <<>> ->
            Grounds("kept", Assigns(m.kept), [RunAll(m.kept[1], Grounds("kept", TRUE, m)) EXCEPT !.stale = m.stale])
      [] n.s = "mret" -> [m EXCEPT !.x = {}]
      [] n.s = "caret" -> m
RunAll(ss, m) == FoldLeft(LAMBDA acc, n : RunOne(n, acc), m, ss)

CheckedAndCompiled(p) == CompileAll(p, <<<<>>>>).ss
Belief(ss) == ~RunAll(ss, [x |-> {"nil", "int"}, kept |-> <<>>, lie |-> FALSE, stale |-> {}]).lie
----------------------------------------------------------------------------
ArmStatements == {Set(NilT), Set(IntT), Use, And, Exit, Caret}
Arms == {<<a>> : a \in ArmStatements} \cup ({Set(NilT), Set(IntT), Use} \X ArmStatements)
ElseArms == {<<Use>>, <<Exit>>, <<Caret>>, <<Set(IntT)>>, <<Set(IntT), Use>>}
Statements ==
    {Set(NilT), Set(IntT), Use, And} \cup {GuardIf(a) : a \in Arms} \cup {Guard(a, b) : a \in Arms, b \in ElseArms}
    \cup {Cond(a) : a \in Arms} \cup {Loop(a) : a \in Arms} \cup {GuardIf(<<GuardIf(a), Use>>) : a \in Arms}
CheckedPrograms ==
    {<<a, b, Use>> : a \in Statements, b \in Statements}
    \cup {<<Set(IntT), Keep(a), b, CallIt, Use>> : a \in Arms, b \in {Set(NilT), Use, GuardIf(<<Use>>)} \cup {Cond(c) : c \in Arms}}
Pairs == Universe \X Universe
Unifications == {<<d, a>> : d \in Declared, a \in Universe}

KInit == subject = <<>> /\ verdict = [belief |-> TRUE, upper |-> TRUE, fits |-> TRUE]
CheckProgram ==
    /\ subject = <<>>
    /\ \E p \in CheckedPrograms :
          subject' = [p |-> p] /\ verdict' = [verdict EXCEPT !.belief = Belief(CheckedAndCompiled(p))]
JoinTypes ==
    /\ subject = <<>>
    /\ \E q \in Pairs :
          /\ subject' = [join |-> q]
          /\ verdict' = [verdict EXCEPT !.upper = compatible_with(q[1], join(q[1], q[2])) /\ join(q[1], q[2]) = join(q[2], q[1])]
FitsArgument(d, a) ==
    LET t == normalize_any_elems(substitute(d, unify_into(d, a, NoBinding)))
    IN  ~contains_var(t) /\ (Bare(d.k) \in {"none", Bare(a.k)} => compatible_with(a, t))
UnifyTypes ==
    /\ subject = <<>>
    /\ \E q \in Unifications : subject' = [unify |-> q] /\ verdict' = [verdict EXCEPT !.fits = FitsArgument(q[1], q[2])]
KNext == CheckProgram \/ JoinTypes \/ UnifyTypes
CheckerSpec == KInit /\ [][KNext]_kvars

(* Where the checker takes x for an Integer from the assignments and tests  *)
(* made on the way there, x is not nil on any path that leads there.        *)
NonNilBeliefHolds == verdict.belief
(* The join of two arms' types accepts both, in whatever order they come.   *)
JoinIsUpperBound == verdict.upper
(* What a generic method's declared type becomes at a call accepts the      *)
(* argument it was inferred from.                                           *)
UnifiedTypeFits == verdict.fits
=============================================================================
