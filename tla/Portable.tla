------------------------------ MODULE Portable ------------------------------
(* Shipping a block to another isolate (worker.rs, worker_spawn.rs,         *)
(* runtime/worker.rs): the scan that refuses what cannot cross, the         *)
(* snapshot of its free reads, the arguments that follow it, the rebuild in *)
(* the worker, and the editor's classification (compiler/portability.rs),   *)
(* which runs the same scan before any value is known.                      *)
EXTENDS Integers, Sequences, FiniteSets, SequencesExt, FiniteSetsExt

CONSTANT MaxNest         \* how deep captured blocks may nest
VARIABLES body, types,   \* the block, and the static types of what it may capture
          home, arg,     \* the captured scope and the argument, as they are now
          phase, packed, sentArg, answer, taken
ptvars == <<body, types, home, arg, phase, packed, sentArg, answer, taken>>
----------------------------------------------------------------------------
(* Values, and blocks: parameters, instructions, whether it is guarded,     *)
(* whether its text is known and whether it is the config block of a new:,  *)
(* whose assignments bind in its own frame.  A block runs in the scopes     *)
(* around it.                                                               *)
Val(k, els) == [k |-> k, els |-> els]
Nil     == Val("nil", <<>>)
Number  == Val("int", <<>>)
Text    == Val("str", <<>>)
Object  == Val("inst", <<>>)
Names   == {"x", "y"}
Block(code) == [params |-> {}, code |-> code, guarded |-> FALSE, source |-> TRUE, init |-> FALSE]
Config(code) == [Block(code) EXCEPT !.init = TRUE]
Closure(b, scopes) == [k |-> "block", els |-> <<>>, b |-> b, scopes |-> scopes]
Here == <<>>                            \* the scopes of a block of this isolate: home
Bound(s, n) == n \in DOMAIN s
Lookup(n, scopes) ==
    LET at == {i \in DOMAIN scopes : Bound(scopes[i], n)}
    IN  IF at = {} THEN Nil ELSE scopes[Min(at)][n]
Bind(s, n, v) == [m \in DOMAIN s \cup {n} |-> IF m = n THEN v ELSE s[m]]

\* What a run of a block reads, in order; an inner block runs at once or at
\* the end, and sees the scopes as they are then.
RECURSIVE Reads(_, _, _, _, _)
RunIn(v, base, fuel) ==
    IF v.k # "block" \/ fuel = 0 THEN <<v>>
    ELSE Reads(v.b, Nil, IF v.scopes = Here THEN base ELSE v.scopes, base, fuel - 1)
Reads(b, v, scopes, base, fuel) ==
    LET Step(st, op) ==
            CASE op[1] = "get" -> [st EXCEPT !.seen = Append(@, Lookup(op[2], <<st.own>> \o scopes))]
              [] op[1] = "def" \/ (op[1] = "set" /\ b.init) -> [st EXCEPT !.own = Bind(@, op[2], Number)]
              [] op[1] = "call" -> [st EXCEPT !.seen = @ \o RunIn(Lookup(op[2], <<st.own>> \o scopes), base, fuel)]
              [] op[1] = "run" -> [st EXCEPT !.seen = @ \o Reads(op[2], Nil, <<st.own>> \o scopes, base, fuel)]
              [] op[1] = "later" -> [st EXCEPT !.later = Append(@, op[2])]
              [] op[1] = "global" -> [st EXCEPT !.seen = Append(@, Val(op[2], <<>>))]
              [] OTHER -> st
        end == FoldLeft(Step, [own |-> [n \in b.params |-> v], seen |-> <<>>, later |-> <<>>], b.code)
    IN  end.seen \o FlattenSeq([i \in DOMAIN end.later |-> Reads(end.later[i], Nil, <<end.own>> \o scopes, base, fuel)])
----------------------------------------------------------------------------
(* The scan.  A level's bound set is its parameters and every local defined *)
(* in it, collected up front.                                               *)
Defined(b) == b.params \cup {b.code[i][2] : i \in {j \in DOMAIN b.code : b.code[j][1] = "def"}}
Refusals == {"class", "self", "field", "ret"}
RECURSIVE scan_nest(_, _)
Scanned_flat(op, bound, init) ==
    [ok |-> op[1] \notin Refusals, frees |-> IF op[1] \in {"get", "call"} THEN {op[2]} \ bound ELSE {}, globals |-> {}]
\* What one instruction adds to the free reads, or a refusal.
Scanned(op, bound, init) ==
    CASE op[1] \in {"get", "call"} -> [ok |-> TRUE, frees |-> {op[2]} \ bound, globals |-> {}]
      [] op[1] = "set" -> [ok |-> op[2] \in bound \/ init, frees |-> {}, globals |-> {}]
      [] op[1] = "global" -> [ok |-> TRUE, frees |-> {}, globals |-> {op[2]}]
      [] op[1] \in {"run", "later"} -> scan_nest(op[2], bound)
      [] OTHER -> [ok |-> op[1] \notin Refusals, frees |-> {}, globals |-> {}]
Both(r, s) == [ok |-> r.ok /\ s.ok, frees |-> r.frees \cup s.frees, globals |-> r.globals \cup s.globals]
ScanAll(b, bound) ==
    FoldLeft(LAMBDA r, op : Both(r, Scanned(op, bound, b.init)), [ok |-> ~b.guarded, frees |-> {}, globals |-> {}], b.code)
scan_nest(b, bound) == ScanAll(b, bound \cup Defined(b))
scan_portable(b) == scan_nest(b, {})
----------------------------------------------------------------------------
(* Data that crosses, and the snapshot.                                     *)
RECURSIVE value_to_wire(_)
value_to_wire(v) ==
    IF v.k \in {"nil", "int", "str", "big"} THEN [ok |-> TRUE, v |-> v]
    ELSE IF v.k \in {"list", "map"}
    THEN LET els == [i \in DOMAIN v.els |-> value_to_wire(v.els[i])]
         IN  [ok |-> \A i \in DOMAIN els : els[i].ok, v |-> v]
    ELSE [ok |-> FALSE, v |-> v]
Packed(ok, b, captures, globals) == [ok |-> ok, b |-> b, captures |-> captures, globals |-> globals]
RECURSIVE snapshot_block(_, _, _)
Capture(v, base, depth) ==
    IF v.k = "block"
    THEN LET p == snapshot_block(v, base, depth + 1)
         IN  [ok |-> p.ok, k |-> "block", p |-> p]
    ELSE [ok |-> value_to_wire(v).ok, k |-> "data", p |-> v]
Snapped(b, base, depth, scan) ==
    LET caps == [n \in scan.frees |-> Capture(Lookup(n, base), base, depth)]
    IN  Packed(scan.ok /\ \A n \in scan.frees : caps[n].ok, b, caps, scan.globals)
snapshot_block(v, base, depth) ==
    IF depth > MaxNest THEN Packed(FALSE, v.b, [n \in {} |-> 0], {})
    ELSE LET scan == scan_portable(v.b)
         IN  IF scan.ok THEN Snapped(v.b, base, depth, scan) ELSE Packed(FALSE, v.b, [n \in {} |-> 0], {})
\* A process receives the block's text, which the whole nest must have.
RECURSIVE portable_block_to_wire(_)
portable_block_to_wire(p) ==
    p.b.source /\ \A n \in DOMAIN p.captures : p.captures[n].k = "block" => portable_block_to_wire(p.captures[n].p)
\* Its captures are the locals it is compiled with there: a name that is
\* neither one of them nor defined so far is a global.
RECURSIVE compile_block_source(_, _)
DefinedBefore(b, i) == b.params \cup {b.code[j][2] : j \in {g \in 1..(i - 1) : b.code[g][1] = "def"}}
Compiled(op, known) ==
    CASE op[1] \in {"get", "call"} -> IF op[2] \in known THEN op ELSE <<"global", op[2]>>
      [] op[1] \in {"run", "later"} -> <<op[1], compile_block_source(op[2], known)>>
      [] OTHER -> op
compile_block_source(b, names) ==
    [b EXCEPT !.code = [i \in DOMAIN @ |-> Compiled(@[i], names \cup DefinedBefore(b, i))]]
RECURSIVE portable_block_from_wire(_)
portable_block_from_wire(p) ==
    [p EXCEPT !.b = compile_block_source(@, DOMAIN p.captures),
              !.captures = [n \in DOMAIN @ |-> IF @[n].k = "block" THEN [@[n] EXCEPT !.p = portable_block_from_wire(@)] ELSE @[n]]]

RECURSIVE rebuild_portable_value(_)
rebuild_env(p) ==
    [n \in DOMAIN p.captures |->
        IF p.captures[n].k = "block" THEN rebuild_portable_value(p.captures[n].p) ELSE p.captures[n].p]
rebuild_portable_value(p) == Closure(p.b, <<rebuild_env(p)>>)
WorkerGlobals == {"Library"}           \* a worker boots the library only
RECURSIVE Resolves(_)
Resolves(p) ==
    /\ p.globals \subseteq WorkerGlobals
    /\ \A n \in DOMAIN p.captures : p.captures[n].k = "block" => Resolves(p.captures[n].p)
----------------------------------------------------------------------------
(* The editor's verdict.                                                    *)
Worst(a, b) == IF "never" \in {a, b} THEN "never" ELSE IF "unknown" \in {a, b} THEN "unknown" ELSE "always"
type_ships_any(t) == IF t \in {"T", "Nullable(T)", "ListOf(T)"} THEN "never" ELSE "always"
type_ships(t) ==
    CASE t \in {"Int", "String", "Nil", "BigInteger", "ListOf(Int)", "MapOf(String)"} -> "always"
      [] t \in {"Any", "List", "Block"} -> "unknown"
      [] OTHER -> "never"
classify_block_literal(b, ts) ==
    LET scan == scan_portable(b)
        ships == FoldSet(LAMBDA n, w : Worst(w, type_ships(ts[n])), "always", scan.frees \cap DOMAIN ts)
    IN  CASE ~scan.ok \/ ships = "never" -> "non-portable"
          [] ships = "unknown" -> "conditional"
          [] OTHER -> "portable"
\* The values a variable of a static type may hold.
Holding(t) ==
    CASE t = "Int" -> {Number} [] t = "String" -> {Text} [] t = "BigInteger" -> {Val("big", <<>>)}
      [] t = "ListOf(Int)" -> {Val("list", <<>>), Val("list", <<Number>>)}
      [] t = "MapOf(String)" -> {Val("map", <<Text>>)}
      [] t = "ListOf(T)" -> {Val("list", <<Object>>), Val("list", <<>>)}
      [] t = "Nullable(T)" -> {Object, Nil}
      [] t = "T" -> {Object}
      [] t = "Block" -> {Closure(Block(<<<<"get", "x">>>>), Here), Closure(Block(<<<<"call", "y">>>>), Here)}
      [] t = "Any" -> {Number, Object, Nil, Val("set", <<>>)}
----------------------------------------------------------------------------
(* The blocks.                                                              *)
Inner == {<<<<"get", "x">>>>, <<<<"def", "x">>, <<"get", "x">>>>, <<<<"set", "x">>>>, <<<<"call", "y">>>>}
Leaves == {<<"get", "x">>, <<"get", "y">>, <<"call", "y">>, <<"get", "p">>, <<"call", "p">>, <<"def", "x">>, <<"set", "x">>, <<"ret", "">>,
           <<"field", "">>, <<"self", "">>, <<"class", "">>, <<"global", "Library">>, <<"global", "Mine">>}
Configs == {<<<<"set", "x">>, <<"get", "x">>>>, <<<<"get", "x">>, <<"set", "x">>>>}
Ops == Leaves \cup {<<o, Block(c)>> : o \in {"run", "later"}, c \in Inner} \cup {<<"run", Config(c)>> : c \in Configs}
Core == {<<"get", "x">>, <<"def", "x">>, <<"set", "x">>, <<"run", Block(<<<<"get", "x">>>>)>>, <<"later", Block(<<<<"get", "x">>>>)>>}
\* Touching a name before the same block defines it reaches the outer one at
\* home; the scan takes it for the block's own.
Touches(op, n) ==
    \/ op[1] \in {"get", "set", "call"} /\ op[2] = n
    \/ op[1] \in {"run", "later"} /\ \E i \in DOMAIN op[2].code : op[2].code[i] \in {<<"get", n>>, <<"set", n>>}
ReadFirst(c) == \E i, j \in DOMAIN c : i < j /\ c[j] = <<"def", "x">> /\ Touches(c[i], "x")
Codes == (Ops \X Ops) \cup (Core \X Core \X Core)
Bodies ==
    {Block(c) : c \in Codes} \cup {[Block(c) EXCEPT !.params = {"p"}] : c \in (Leaves \X Leaves) \cap Codes}
    \cup {[Block(<<<<"get", "x">>>>) EXCEPT !.guarded = TRUE], [Block(<<<<"get", "x">>>>) EXCEPT !.source = FALSE]}

PtInit ==
    /\ body \in Bodies
    /\ types \in [x : {"Int", "Any", "T", "Nullable(T)", "ListOf(Int)", "ListOf(T)"}, y : {"Block", "String", "MapOf(String)"}]
    /\ home \in [x : Holding(types.x), y : Holding(types.y)]
    /\ arg \in {Number, Object} \cup {Closure([Block(<<<<"get", "x">>>>) EXCEPT !.source = k], Here) : k \in BOOLEAN}
    /\ (body.params = {} => arg = Number) /\ (arg.k # "int" => types.x = "Int")
    /\ phase = "home" /\ packed = Packed(FALSE, body, [n \in {} |-> 0], {}) /\ taken = [block |-> home, arg |-> home]
    /\ sentArg = Nil /\ answer = <<>>

\* Arity is checked and the captures are copied before the spawn is awaited.
start_block_worker(process, given) ==
    /\ phase = "home"
    /\ taken' = [taken EXCEPT !.block = home] /\ packed' = snapshot_block(Closure(body, Here), <<home>>, 0)
    /\ phase' = IF (body.params # {}) # given \/ ~packed'.ok \/ (process /\ ~portable_block_to_wire(packed')) THEN "refused"
                ELSE IF process THEN "process" ELSE "thread"
    /\ UNCHANGED <<body, types, home, arg, sentArg, answer>>
\* Meanwhile the program goes on.
HomeChanges ==
    /\ phase \in {"process", "thread", "sent"} /\ home = taken.block
    /\ home' = [home EXCEPT !.x = Text]
    /\ UNCHANGED <<body, types, arg, phase, packed, sentArg, answer, taken>>
\* An argument crosses as data, or as a block with a snapshot of its own.
ArgBlock(p, process) ==
    [ok |-> p.ok /\ (process => portable_block_to_wire(p)),
     v  |-> rebuild_portable_value(IF process THEN portable_block_from_wire(p) ELSE p)]
spawn_arg(v, process) ==
    IF v.k = "block" THEN ArgBlock(snapshot_block(v, <<home>>, 0), process) ELSE value_to_wire(v)
\* It is converted once the worker is up; refused, the worker is left without.
ShipArgs ==
    /\ phase \in {"process", "thread"}
    /\ packed' = IF phase = "process" THEN portable_block_from_wire(packed) ELSE packed
    /\ sentArg' = IF body.params = {} THEN Nil ELSE spawn_arg(arg, phase = "process").v
    /\ taken' = [taken EXCEPT !.arg = home]
    /\ phase' = IF body.params = {} \/ spawn_arg(arg, phase = "process").ok THEN "sent" ELSE "refused"
    /\ UNCHANGED <<body, types, home, arg, answer>>
\* In the worker: the globals must exist, the closure is rebuilt and run.
Rebuilt ==
    /\ phase' = IF Resolves(packed) THEN "ran" ELSE "failed"
    /\ answer' = IF Resolves(packed) THEN Reads(packed.b, sentArg, <<rebuild_env(packed)>>, <<rebuild_env(packed)>>, 3) ELSE <<>>
    /\ UNCHANGED <<body, types, home, arg, packed, sentArg, taken>>
run_worker_block == phase = "sent" /\ body.params = {} /\ Rebuilt
jobRoot == phase = "sent" /\ body.params # {} /\ Rebuilt
PtNext ==
    \/ \E process, given \in BOOLEAN : start_block_worker(process, given)
    \/ HomeChanges \/ ShipArgs \/ run_worker_block \/ jobRoot
PortSpec == PtInit /\ [][PtNext]_ptvars

\* What a value shows; of a block, its text.
Look(v) == <<v.k, v.els, IF v.k = "block" THEN Len(v.b.code) ELSE 0>>
AtHome == Reads(body, IF arg.k = "block" THEN [arg EXCEPT !.scopes = <<taken.arg>>] ELSE arg,
                <<taken.block>>, <<taken.block>>, 3)
\* What a name that was not captured reads as: nil, or the global of that name.
Unbound == {Nil, Val("x", <<>>)}
(* A shipped block reads in the worker what it would have read at home      *)
(* when it was shipped, whatever the program did since; only a block that   *)
(* touches a name before it defines it may find that name unbound.          *)
ShippedBlockAgrees ==
    phase = "ran" =>
        /\ Len(answer) = Len(AtHome)
        /\ \A i \in DOMAIN answer : \/ Look(answer[i]) = Look(AtHome[i])
                                    \/ ReadFirst(body.code) /\ answer[i] \in Unbound
\* a capture whose type never crosses, holding what does
Vacant == \E n \in scan_portable(body).frees \cap DOMAIN types :
    type_ships(types[n]) = "never" /\ value_to_wire(home[n]).ok
(* The editor's verdict is the boundary's: a portable block's captures are  *)
(* taken, whatever they hold, and a non-portable one is refused, unless a   *)
(* list that cannot cross is empty or a nullable is nil.                    *)
VerdictIsTrue ==
    LET shipped == snapshot_block(Closure(body, Here), <<home>>, 0).ok
        verdict == classify_block_literal(body, types)
    IN  phase = "home" =>
            (verdict = "portable" => shipped) /\ (verdict = "non-portable" => ~shipped \/ Vacant)
=============================================================================
