------------------------------- MODULE Syntax -------------------------------
(* The language's parser: the grammar (crates/quoin-syntax/src/pest/        *)
(* Quoin.pest) as ordered choices over tokens, and the tree the parser      *)
(* builds (parser.rs).  A source is a sequence of tokens, each with the     *)
(* line breaks and the spaces before it; newlines and comments are trivia.  *)
EXTENDS Integers, Sequences, FiniteSets, SequencesExt, FiniteSetsExt

Idents   == {"a", "b", "m", "k", "T", "use", "var"}
Literals == {"1", "2", "'s'"}
LineComment == "* c"
BlockComment == "c"
IsComment(t) == t \in {LineComment, BlockComment}

\* A line comment takes the rest of its line with it.
Swallowed(src, i) ==
    \E j \in 1..(i - 1) : src[j].t = LineComment /\ \A g \in (j + 1)..i : src[g].nl = 0
CodeOf(src) == SelectSeq([i \in 1..Len(src) |-> i], LAMBDA i : ~IsComment(src[i].t) /\ ~Swallowed(src, i))

\* What is parsed: the source, where its code is, and whether to keep spans.
Input(src, mark) == [src |-> src, c |-> CodeOf(src), mark |-> mark]
Tok(x, i) == IF i <= Len(x.c) THEN x.src[x.c[i]].t ELSE "eof"
Has(x, i, toks) == \A j \in DOMAIN toks : Tok(x, i + j - 1) = toks[j]
Fail == [ok |-> FALSE, n |-> 0, v |-> <<>>]
Ok(n, v) == [ok |-> TRUE, n |-> n, v |-> v]
Else(r, s) == IF r.ok THEN r ELSE s
Then(r, F(_)) == IF r.ok THEN F(r) ELSE Fail
----------------------------------------------------------------------------
(* Nodes.  A parenthesised expression is the expression alone: its span     *)
(* leaves the parentheses out.                                              *)
At(x, i) == IF x.mark THEN x.c[i] ELSE 0
extract_source_info(x, i, n) == [s |-> At(x, i), e |-> IF x.mark THEN x.c[n - 1] + 1 ELSE 0]
Node(k, v, kids, span) == [k |-> k, v |-> v, kids |-> kids, s |-> span.s, e |-> span.e]
combine_source_info(l, r) == [s |-> l.s, e |-> r.e]
Leaf(k, x, i, n) == Ok(n, Node(k, Tok(x, i), <<>>, extract_source_info(x, i, n)))
NoNode == Node("none", "", <<>>, [s |-> 0, e |-> 0])
----------------------------------------------------------------------------
(* Operators.  Between the characters of one, whitespace is trivia too.     *)
Infix == << [toks |-> <<"|", "|">>, not |-> {}, op |-> "||", prec |-> 1],
            [toks |-> <<"=", "=">>, not |-> {}, op |-> "==", prec |-> 3],
            [toks |-> <<"<", "-", "-">>, not |-> {}, op |-> "<--", prec |-> 10],
            [toks |-> <<"<">>, not |-> {"-", "="}, op |-> "<", prec |-> 4],
            [toks |-> <<"+">>, not |-> {}, op |-> "+", prec |-> 7],
            [toks |-> <<"-">>, not |-> {}, op |-> "-", prec |-> 7],
            [toks |-> <<"*">>, not |-> {}, op |-> "*", prec |-> 8],
            [toks |-> <<"%">>, not |-> {}, op |-> "%", prec |-> 8],
            [toks |-> <<".", ".">>, not |-> {}, op |-> "..", prec |-> 6] >>
PrefixOps == {"+", "-", "!", "%"}
Matching(x, i) == {j \in DOMAIN Infix : Has(x, i, Infix[j].toks) /\ Tok(x, i + Len(Infix[j].toks)) \notin Infix[j].not}
infix_op(x, i) ==
    IF Matching(x, i) = {} THEN Fail
    ELSE LET o == Infix[Min(Matching(x, i))]
         IN  Ok(i + Len(o.toks), <<[k |-> "infix", v |-> o, i |-> i, span |-> [s |-> At(x, i), e |-> 0]]>>)
op_def(x, i)  == Has(x, i, <<"<", "-">>) /\ Tok(x, i + 2) # "-"
op_meth(x, i) == Has(x, i, <<"-", ">">>) /\ Tok(x, i + 2) # "-"

(* How the operators of an expression bind: a prefix tightest, then the     *)
(* class extension, then a send, then the infix operators, each to the      *)
(* left.                                                                    *)
Loosest(items, i, j) ==
    LET ops == {n \in i..j : items[n].k = "infix" /\ items[n].v.op # "<--"}
    IN  {n \in ops : \A o \in ops : items[n].v.prec <= items[o].v.prec}
Extends(items, i, j) == {n \in i..j : items[n].k = "infix"}
Binary(op, l, r) == Node(IF op = "<--" THEN "ext" ELSE "bin", op, <<l, r>>, combine_source_info(l, r))
PRATT_PARSER(items) ==
    LET Tree[p \in (1..Len(items)) \X (1..Len(items))] ==
            LET i == p[1]
                j == p[2]
                Split(n) == Binary(items[n].v.op, Tree[<<i, n - 1>>], Tree[<<n + 1, j>>])
            IN  IF Loosest(items, i, j) # {} THEN Split(Max(Loosest(items, i, j)))
                ELSE IF items[j].k = "post"
                THEN LET l == Tree[<<i, j - 1>>]
                     IN  Node("call", items[j].v.sel, <<l>> \o items[j].v.args, [s |-> l.s, e |-> items[j].span.e])
                ELSE IF Extends(items, i, j) # {} THEN Split(Max(Extends(items, i, j)))
                ELSE IF items[i].k = "prefix"
                THEN LET r == Tree[<<i + 1, j>>]
                     IN  Node("un", items[i].v, <<r>>, combine_source_info(items[i].span, r))
                ELSE items[i].v
    IN  Tree[<<1, Len(items)>>]
----------------------------------------------------------------------------
(* The rules.  P is the grammar itself, from a rule and a position to what  *)
(* the rule matches there.                                                  *)
prefixed_operand(P, x, i) ==
    Then(P["operand", i + 1], LAMBDA r :
        Ok(r.n, <<[k |-> "prefix", v |-> Tok(x, i), i |-> i, span |-> [s |-> At(x, i), e |-> 0]]>> \o r.v))
operand(P, x, i) ==
    IF Tok(x, i) \in PrefixOps THEN prefixed_operand(P, x, i)
    ELSE Then(P["primary", i], LAMBDA r :
            Then(P["posts", r.n], LAMBDA q : Ok(q.n, <<[k |-> "prim", v |-> r.v, i |-> i, span |-> r.v]>> \o q.v)))
items(P, x, i) ==
    Then(P["operand", i], LAMBDA o :
        Else(Then(infix_op(x, o.n), LAMBDA f : Then(P["items", f.n], LAMBDA r : Ok(r.n, o.v \o f.v \o r.v))), o))
parse_expr(P, x, i) == Then(P["items", i], LAMBDA r : Ok(r.n, PRATT_PARSER(r.v)))

\* A call's selectors and arguments.
KeyArg(P, x, i) ==
    IF Tok(x, i) \in Idents /\ Tok(x, i + 1) = ":"
    THEN Then(P["expr", i + 2], LAMBDA r : Ok(r.n, [name |-> Tok(x, i), at |-> At(x, i), arg |-> r.v]))
    ELSE Fail
kwargs(P, x, i) ==
    Then(KeyArg(P, x, i), LAMBDA f :
        Else(Then(P["kwargs", f.n], LAMBDA r : Ok(r.n, <<f.v>> \o r.v)), Ok(f.n, <<f.v>>)))
Sel(names, at) == [names |-> names, at |-> at]
Sent(k, i, sel, args, e) == [k |-> k, v |-> [sel |-> sel, args |-> args], i |-> i, span |-> [s |-> 0, e |-> e]]
parse_call_sig(P, x, i) ==
    Else(Then(P["kwargs", i], LAMBDA r :
            Ok(r.n, Sent("post", i, Sel([j \in DOMAIN r.v |-> r.v[j].name], [j \in DOMAIN r.v |-> r.v[j].at]),
                         [j \in DOMAIN r.v |-> r.v[j].arg], Last(r.v).arg.e))),
         IF Tok(x, i) \notin Idents THEN Fail
         ELSE IF Tok(x, i + 1) = "!" /\ Tok(x, i + 2) # "="
         THEN Ok(i + 2, Sent("post", i, Sel(<<Tok(x, i), "!">>, <<At(x, i)>>), <<>>, At(x, i) + 1))
         ELSE Ok(i + 1, Sent("post", i, Sel(<<Tok(x, i)>>, <<At(x, i)>>), <<>>, At(x, i) + 1)))
posts(P, x, i) ==
    Else(IF Tok(x, i) # "." THEN Fail
         ELSE Then(parse_call_sig(P, x, i + 1), LAMBDA c :
                Then(P["posts", c.n], LAMBDA r : Ok(r.n, <<c.v>> \o r.v))),
         Ok(i, <<>>))
def_call_expr(P, x, i) ==
    IF Tok(x, i) # "." THEN Fail
    ELSE Then(parse_call_sig(P, x, i + 1), LAMBDA c :
            Ok(c.n, Node("call", c.v.v.sel, <<NoNode>> \o c.v.v.args, extract_source_info(x, i, c.n))))

(* The elements of a literal stand side by side, so an operator that is     *)
(* apart from what is before it and joined to what is after it starts a new *)
(* one.                                                                     *)
Apart(x, i) == x.src[x.c[i]].nl > 0 \/ x.src[x.c[i]].sp > 0
starts_new_element(x, item) ==
    item.k = "infix" /\ item.v.op \in {"+", "-", "%"} /\ Apart(x, item.i) /\ ~Apart(x, item.i + 1)
AsPrefix(item) == IF item.k = "infix" THEN [item EXCEPT !.k = "prefix", !.v = item.v.op] ELSE item
Chunk(its, from, to) == <<AsPrefix(its[from])>> \o SubSeq(its, from + 1, to)
Chunks(its, starts) ==
    [n \in DOMAIN starts |->
        PRATT_PARSER(Chunk(its, starts[n], IF n < Len(starts) THEN starts[n + 1] - 1 ELSE Len(its)))]
parse_literal_elements(x, its) ==
    Chunks(its, SetToSortSeq({1} \cup {j \in 2..Len(its) : starts_new_element(x, its[j])}, <))
elems(P, x, i) ==
    Else(Then(P["items", i], LAMBDA f :
            Then(P["elems", f.n], LAMBDA r : Ok(r.n, parse_literal_elements(x, f.v) \o r.v))),
         Ok(i, <<>>))
list_expr(P, x, i) ==
    IF Tok(x, i) # "#(" THEN Fail
    ELSE Then(P["elems", i + 1], LAMBDA r :
            IF Tok(x, r.n) # ")" THEN Fail
            ELSE Ok(r.n + 1, Node("list", "", r.v, extract_source_info(x, i, r.n + 1))))
Pair(P, x, i) ==
    Then(P["expr", i], LAMBDA k :
        IF Tok(x, k.n) # ":" THEN Fail ELSE Then(P["expr", k.n + 1], LAMBDA v : Ok(v.n, <<k.v, v.v>>)))
pairs(P, x, i) ==
    Else(Then(Pair(P, x, i), LAMBDA f : Then(P["pairs", f.n], LAMBDA r : Ok(r.n, f.v \o r.v))), Ok(i, <<>>))
dict_expr(P, x, i) ==
    IF Tok(x, i) # "#{" THEN Fail
    ELSE Then(P["pairs", i + 1], LAMBDA r :
            IF Tok(x, r.n) # "}" THEN Fail
            ELSE Ok(r.n + 1, Node("map", "", r.v, extract_source_info(x, i, r.n + 1))))

\* A block: a name for each argument, then its statements.
Names(x, i) == Min({j \in i..(Len(x.c) + 1) : Tok(x, j) \notin Idents})
parse_block_decls(x, i) ==
    IF Tok(x, i) # "|" THEN Ok(i, <<>>)
    ELSE IF Tok(x, Names(x, i + 1)) # "|" THEN Fail
    ELSE Ok(Names(x, i + 1) + 1, [j \in 1..(Names(x, i + 1) - i - 1) |-> Tok(x, i + j)])
parse_block(P, x, i) ==
    IF Tok(x, i) # "{" THEN Fail
    ELSE Then(parse_block_decls(x, i + 1), LAMBDA d :
            Then(P["stmts", d.n], LAMBDA r :
                IF Tok(x, r.n) # "}" THEN Fail
                ELSE Ok(r.n + 1, Node("block", d.v, r.v, extract_source_info(x, i, r.n + 1)))))

\* Definitions.
Defines(P, x, i, k, name, n) ==
    Then(P["block", n], LAMBDA b : Ok(b.n, Node(k, name, <<b.v>>, extract_source_info(x, i, b.n))))
parse_selector(x, i) ==
    LET Keys(n) == \A j \in 0..(n - 1) : Tok(x, i + 2 * j) \in Idents /\ Tok(x, i + 2 * j + 1) = ":"
        n == Max({m \in 0..3 : Keys(m)})
    IN  IF n > 0 THEN Ok(i + 2 * n, [j \in 1..n |-> Tok(x, i + 2 * j - 2)])
        ELSE IF Tok(x, i) \in Idents THEN Ok(i + 1, <<Tok(x, i), "">>) ELSE Fail
parse_definition_expr(P, x, i) ==
    Else(IF Tok(x, i) \notin Idents \/ ~op_def(x, i + 1) THEN Fail
         ELSE Else(Defines(P, x, i, "class", Tok(x, i), i + 3),
                   Then(P["expr", i + 3], LAMBDA r :
                        Ok(r.n, Node("const", Tok(x, i), <<r.v>>, extract_source_info(x, i, r.n))))),
         Then(parse_selector(x, i), LAMBDA s :
            IF op_meth(x, s.n) THEN Defines(P, x, i, "method", s.v, s.n + 2) ELSE Fail))

nested_expr(P, x, i) ==
    IF Tok(x, i) # "(" THEN Fail
    ELSE Then(P["expr", i + 1], LAMBDA r : IF Tok(x, r.n) = ")" THEN Ok(r.n + 1, r.v) ELSE Fail)
yield_return(P, x, i) ==
    IF ~Has(x, i, <<"^", ">">>) THEN Fail
    ELSE Then(P["expr", i + 2], LAMBDA r : Ok(r.n, Node("yield", "", <<r.v>>, extract_source_info(x, i, r.n))))
parse_primary(P, x, i) ==
    Else(nested_expr(P, x, i), Else(yield_return(P, x, i), Else(list_expr(P, x, i), Else(dict_expr(P, x, i),
    Else(parse_definition_expr(P, x, i),
    Else(IF Tok(x, i) \in Literals THEN Leaf("lit", x, i, i + 1) ELSE Fail, Else(P["block", i],
    Else(def_call_expr(P, x, i), IF Tok(x, i) \in Idents THEN Leaf("id", x, i, i + 1) ELSE Fail))))))))

\* Statements.
parse_lvalue(P, x, i) ==
    IF Tok(x, i) \in Idents THEN Ok(i + 1, <<Tok(x, i)>>)
    ELSE IF Tok(x, i) = "*" /\ Tok(x, i + 1) \in Idents THEN Ok(i + 2, <<"*", Tok(x, i + 1)>>)
    ELSE IF Tok(x, i) # "(" THEN Fail
    ELSE Then(P["lvals", i + 1], LAMBDA r : IF Tok(x, r.n) = ")" THEN Ok(r.n + 1, <<"(">> \o r.v) ELSE Fail)
lvals(P, x, i) ==
    Then(parse_lvalue(P, x, i), LAMBDA f :
        Else(Then(P["lvals", f.n], LAMBDA r : Ok(r.n, f.v \o r.v)), f))
Gives(P, x, i, k, v, n) ==
    Then(P["expr", n], LAMBDA r : Ok(r.n, Node(k, v, <<r.v>>, extract_source_info(x, i, r.n))))
parse_assignment(P, x, i, k, n) ==
    Then(P["lvals", n], LAMBDA l : IF Tok(x, l.n) = "=" THEN Gives(P, x, i, k, l.v, l.n + 1) ELSE Fail)
parse_decl(P, x, i) == IF Tok(x, i) = "var" THEN parse_assignment(P, x, i, "decl", i + 1) ELSE Fail
use_stmt(x, i) == IF Tok(x, i) = "use" /\ Tok(x, i + 1) \in Idents THEN Leaf("use", x, i, i + 2) ELSE Fail
parse_stmt(P, x, i) ==
    Else(use_stmt(x, i),
    Else(IF Has(x, i, <<"^", "^">>) THEN Gives(P, x, i, "mret", "", i + 2) ELSE Fail,
    Else(IF Tok(x, i) = "^" /\ Tok(x, i + 1) # ">" THEN Gives(P, x, i, "bret", "", i + 1) ELSE Fail,
    Else(parse_decl(P, x, i), Else(parse_assignment(P, x, i, "set", i), P["expr", i])))))
stmts(P, x, i) ==
    Else(Then(P["stmt", i], LAMBDA f :
            Then(P["stmts", IF Tok(x, f.n) = ";" THEN f.n + 1 ELSE f.n], LAMBDA r : Ok(r.n, <<f.v>> \o r.v))),
         Ok(i, <<>>))
Rules == {"stmts", "stmt", "lvals", "expr", "items", "operand", "primary", "posts", "kwargs", "elems", "pairs", "block"}
parse_program(x) ==
    LET P[r \in Rules, i \in 1..(Len(x.c) + 4)] ==
            CASE r = "stmts" -> stmts(P, x, i)
              [] r = "stmt" -> parse_stmt(P, x, i)
              [] r = "lvals" -> lvals(P, x, i)
              [] r = "expr" -> parse_expr(P, x, i)
              [] r = "items" -> items(P, x, i)
              [] r = "operand" -> operand(P, x, i)
              [] r = "primary" -> parse_primary(P, x, i)
              [] r = "posts" -> posts(P, x, i)
              [] r = "kwargs" -> kwargs(P, x, i)
              [] r = "elems" -> elems(P, x, i)
              [] r = "pairs" -> pairs(P, x, i)
              [] r = "block" -> parse_block(P, x, i)
    IN  P["stmts", 1]
Outcome(x, r) == [ok |-> r.n = Len(x.c) + 1 /\ r.v # <<>>, v |-> r.v]
Parsed(x) == Outcome(x, parse_program(x))
try_parse(src, mark) == Parsed(Input(src, mark))
=============================================================================
