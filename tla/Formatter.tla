----------------------------- MODULE Formatter -----------------------------
(* The formatter (crates/quoin-fmt): the tree is lowered to a layout        *)
(* document, with anything it does not lay out itself sliced from the       *)
(* source, the document is rendered at a width, and the result is refused   *)
(* unless it parses to the same tree with the same comments.                *)
EXTENDS Syntax

CONSTANTS Width, INDENT    \* the columns of a line and of one indentation
VARIABLES text, result, again
ftvars == <<text, result, again>>
----------------------------------------------------------------------------
(* Documents (doc.rs).                                                      *)
Nil          == [k |-> "nil"]
NoDoc        == [k |-> "no"]
Verb(ts)     == [k |-> "verb", ts |-> IF ts = <<>> THEN ts ELSE [ts EXCEPT ![1].nl = 0, ![1].sp = 0]]
Text(t)      == Verb(<<[t |-> t, nl |-> 0, sp |-> 0]>>)
Space(n)     == [k |-> "space", n |-> n]
Line         == [k |-> "line"]
SoftLine     == [k |-> "soft"]
HardLine     == [k |-> "hard"]
FlatText(t)  == [k |-> "flat", ts |-> Text(t).ts]
Concat(ds)   == [k |-> "cat", ds |-> ds]
Nest(n, d)   == [k |-> "nest", n |-> n, d |-> d]
Group(d)     == [k |-> "group", d |-> d]
PreferIfFits(need, extra, then, els) == [k |-> "prefer", need |-> need, extra |-> extra, then |-> then, els |-> els]
Wide(t) == IF t = LineComment THEN 4 ELSE IF t = BlockComment THEN 3 ELSE Len(t)
Columns(ts) == FoldLeft(LAMBDA acc, x : IF x.nl > 0 THEN x.sp + Wide(x.t) ELSE acc + x.sp + Wide(x.t), 0, ts)
Breaks(ts) == \E i \in 2..Len(ts) : ts[i].nl > 0

\* The width of a document on one line, or -1.
RECURSIVE flat_width(_)
Plus(acc, w) == IF acc < 0 \/ w < 0 THEN -1 ELSE acc + w
Within(d) == IF d.k = "cat" THEN d.ds ELSE IF d.k = "prefer" THEN <<d.then>> ELSE <<d.d>>
flat_width(d) ==
    CASE d.k \in {"nil", "soft"} -> 0
      [] d.k = "line" -> 1
      [] d.k = "space" -> d.n
      [] d.k = "hard" -> -1
      [] d.k \in {"verb", "flat"} -> IF Breaks(d.ts) THEN -1 ELSE Columns(d.ts)
      [] OTHER -> FoldLeft(LAMBDA acc, x : Plus(acc, flat_width(x)), 0, Within(d))

\* Does the top of the work stack, rendered flat, fit before the line ends?
RECURSIVE FitsRun(_, _)
FitsTop(left, stack) ==
    LET top == Head(stack)
        d == top.d
        Spend(n) == IF left < n THEN FALSE ELSE FitsRun(left - n, Tail(stack))
    IN  CASE d.k = "nil" -> FitsRun(left, Tail(stack))
          [] d.k = "space" -> Spend(d.n)
          [] d.k = "verb" -> IF Breaks(d.ts) THEN TRUE ELSE Spend(Columns(d.ts))
          [] d.k = "flat" -> IF top.flat THEN Spend(Columns(d.ts)) ELSE FitsRun(left, Tail(stack))
          [] d.k = "line" -> IF top.flat THEN Spend(1) ELSE TRUE
          [] d.k = "soft" -> IF top.flat THEN FitsRun(left, Tail(stack)) ELSE TRUE
          [] d.k = "hard" -> ~top.flat
          [] d.k = "group" -> FitsRun(left, <<[flat |-> TRUE, d |-> d.d]>> \o Tail(stack))
          [] OTHER -> FitsRun(left, [i \in DOMAIN Within(d) |-> [flat |-> top.flat, d |-> Within(d)[i]]] \o Tail(stack))
FitsRun(left, stack) == IF stack = <<>> THEN TRUE ELSE FitsTop(left, stack)
fits(left, d, rest) ==
    IF left < 0 THEN FALSE
    ELSE FitsRun(left, <<[flat |-> TRUE, d |-> d]>> \o [i \in DOMAIN rest |-> [flat |-> rest[i].flat, d |-> rest[i].d]])

\* The work stack, what is written, the gap before the next token, the column.
Work(in, flat, d) == [in |-> in, flat |-> flat, d |-> d]
newline(st, in) == [st EXCEPT !.nl = @ + 1, !.sp = in, !.col = in]
Put(st, ts) ==
    [st EXCEPT !.out = @ \o [ts EXCEPT ![1].nl = st.nl, ![1].sp = st.sp], !.nl = 0, !.sp = 0,
               !.col = IF Breaks(ts) THEN Columns(ts) ELSE @ + Columns(ts)]
Blank(st, n) == [st EXCEPT !.sp = @ + n, !.col = @ + n]
Pushed(st, w) == [st EXCEPT !.stack = w \o @]
Rendered(st, w) ==
    LET d == w.d
    IN  CASE d.k = "nil" -> st
          [] d.k = "verb" -> IF d.ts = <<>> THEN st ELSE Put(st, d.ts)
          [] d.k = "flat" -> IF w.flat THEN Put(st, d.ts) ELSE st
          [] d.k = "space" -> Blank(st, d.n)
          [] d.k = "line" -> IF w.flat THEN Blank(st, 1) ELSE newline(st, w.in)
          [] d.k = "soft" -> IF w.flat THEN st ELSE newline(st, w.in)
          [] d.k = "hard" -> newline(st, w.in)
          [] d.k = "cat" -> Pushed(st, [i \in DOMAIN d.ds |-> Work(w.in, w.flat, d.ds[i])])
          [] d.k = "nest" -> Pushed(st, <<Work(w.in + d.n, w.flat, d.d)>>)
          [] d.k = "group" -> Pushed(st, <<Work(w.in, fits(Width - st.col, d.d, st.stack), d.d)>>)
          [] d.k = "prefer" ->
                Pushed(st, <<Work(w.in, w.flat,
                             IF d.need >= 0 /\ w.in + d.extra + d.need <= Width THEN d.then ELSE d.els)>>)
RECURSIVE RenderAll(_)
RenderAll(st) ==
    IF st.stack = <<>> THEN st.out
    ELSE RenderAll(Rendered([st EXCEPT !.stack = Tail(@)], Head(st.stack)))
render(d) == RenderAll([stack |-> <<Work(0, FALSE, d)>>, out |-> <<>>, nl |-> 0, sp |-> 0, col |-> 0])
----------------------------------------------------------------------------
(* The source around a node.                                                *)
Slice(src, s, e) == SubSeq(src, s, e - 1)
HasNl(src, s, e) == \E i \in (s + 1)..(e - 1) : src[i].nl > 0
has_blank_line(src, s, e) == \E i \in s..e : i <= Len(src) /\ src[i].nl > 1
Comments(src, s, e) == SelectSeq([i \in 1..(e - s) |-> s + i - 1], LAMBDA i : IsComment(src[i].t))
\* Over the parentheses the tree leaves out.
statement_content_start(src, a, floor) ==
    Min({j \in floor..a : \A i \in j..(a - 1) : src[i].t = "("})
statement_content_end(src, s, re) ==
    Min({j \in s..re : \A i \in j..(re - 1) : src[i].t = ";" \/ IsComment(src[i].t)})
\* On the line of what precedes them, until the first break.
split_trailing(src, pe, cs) == SelectSeq(cs, LAMBDA c : \A i \in pe..c : src[i].nl = 0)

\* Would the next statement continue the one before it?
needs_separator_operators(src, prev, next, s) == src[s].t \in {"+", "-", "*", "%", "<", ">", "=", "!", "|", "."}
needs_separator(src, prev, next, s) ==
    \/ src[s].t \in {"+", "-", "*", "%", "<", ">", "=", "!", "|", "."}
    \/ prev.k = "id" /\ next.k \in {"set", "decl"}
----------------------------------------------------------------------------
(* Lowering (format.rs).                                                    *)
RECURSIVE Lower(_, _, _, _)
OrVerbatim(d, src, s, e, multi) ==
    IF d # NoDoc THEN d
    ELSE IF multi \/ ~HasNl(src, s, e) THEN Verb(Slice(src, s, e)) ELSE NoDoc
lower_or_verbatim(src, n, s, e, multi) == OrVerbatim(Lower(src, n, s, e), src, s, e, multi)

Commented(src, cs, F(_)) == FlattenSeq([j \in DOMAIN cs |-> F(cs[j])])
CommentAt(src, c) == Verb(<<src[c]>>)
\* Between two statements: the separator where it is needed, and the comments.
Separation(src, body, i, s, hard, trailing) ==
        (IF needs_separator(src, body[i - 1], body[i], s) THEN <<Text(";")>>
         ELSE IF ~hard THEN <<FlatText(";")>> ELSE <<>>)
        \o Commented(src, trailing, LAMBDA c : <<Space(2), CommentAt(src, c)>>)
        \o <<IF hard THEN HardLine ELSE Line>>
\* Each leading comment on a line of its own, and the blank lines kept.
Leading(src, leading, lo, s) ==
    LET From(j) == IF j = 1 THEN lo ELSE leading[j - 1] + 1
        Kept(from, to) == IF from > 0 /\ has_blank_line(src, from, to) THEN <<HardLine>> ELSE <<>>
    IN  FlattenSeq([j \in DOMAIN leading |-> Kept(From(j), leading[j]) \o <<CommentAt(src, leading[j]), HardLine>>])
        \o Kept(From(Len(leading) + 1), s)
BeforeStatement(src, body, i, s, pe, soft, gap, trailing) ==
    (IF i > 1 THEN Separation(src, body, i, s, ~soft \/ trailing # <<>> \/ has_blank_line(src, pe, s), trailing) ELSE <<>>)
    \o Leading(src, SubSeq(gap, Len(trailing) + 1, Len(gap)),
               IF trailing # <<>> THEN Last(trailing) + 1 ELSE IF i > 1 THEN pe ELSE 0, s)
Gap(src, body, i, s, pe, soft, gap) ==
    BeforeStatement(src, body, i, s, pe, soft, gap, IF i > 1 THEN split_trailing(src, pe, gap) ELSE <<>>)
OneStatement(src, body, s, e, pe, multi, soft, i) ==
    Append(Gap(src, body, i, s, pe, soft, Comments(src, pe, s)), lower_or_verbatim(src, body[i], s, e, multi))
\* Comments after the last statement: on its line, or each on its own.
TailComments(src, cs, near) ==
    FlattenSeq([j \in DOMAIN cs |-> <<IF j <= near THEN Space(2) ELSE HardLine, CommentAt(src, cs[j])>>])
Tailed(src, pe, cs) == TailComments(src, cs, Len(split_trailing(src, pe, cs)))
Whole(parts, tail) == IF \E j \in DOMAIN parts : parts[j] = NoDoc THEN NoDoc ELSE Concat(parts \o tail)
Laid(src, rs, re, body, multi, soft, starts, ends) ==
    Whole(FlattenSeq([i \in DOMAIN body |->
                        OneStatement(src, body, starts[i], ends[i], IF i > 1 THEN ends[i - 1] ELSE rs, multi, soft, i)]),
          Tailed(src, Last(ends), Comments(src, Last(ends), re)))
WithStarts(src, rs, re, body, multi, soft, starts) ==
    Laid(src, rs, re, body, multi, soft, starts,
         [i \in DOMAIN body |-> statement_content_end(src, starts[i], IF i < Len(body) THEN starts[i + 1] ELSE re)])
emit_sequence(src, rs, re, body, multi, soft) ==
    WithStarts(src, rs, re, body, multi, soft,
               [i \in DOMAIN body |-> statement_content_start(src, body[i].s, IF i > 1 THEN body[i - 1].s ELSE rs)])

declares_member(b) == \E i \in DOMAIN b.kids : b.kids[i].k \in {"class", "ext", "method"}
block_is_inlineable(src, b) ==
    LET one == ~HasNl(src, b.s, b.e)
    IN  IF b.kids = <<>> THEN one ELSE ~declares_member(b) /\ (Len(b.kids) = 1 \/ one)
wrap_block(header, body, group) ==
    LET sep == IF group THEN Line ELSE HardLine
        d == Concat(<<Text("{"), header, Nest(INDENT, Concat(<<sep, body>>)), sep, Text("}")>>)
    IN  IF group THEN Group(d) ELSE d
\* Where the header's closing pipe is; without a header, at the brace.
block_header(src, b) ==
    IF b.v = <<>> THEN b.s ELSE Min({j \in (b.s + 2)..(b.e - 1) : src[j].t = "|"})
BlockDoc(src, b, close, soft, body) ==
    IF HasNl(src, b.s + 1, close + 1) \/ body = NoDoc THEN NoDoc
    ELSE wrap_block(IF close = b.s THEN Nil ELSE Concat(<<Space(1), Verb(Slice(src, b.s + 1, close + 1))>>), body, soft)
BlockFrom(src, b, close, soft) ==
    BlockDoc(src, b, close, soft, emit_sequence(src, close + 1, b.e - 1, b.kids, FALSE, soft))
lower_block(src, b) ==
    IF b.kids = <<>> THEN Verb(Slice(src, b.s, b.e))
    ELSE BlockFrom(src, b, block_header(src, b), block_is_inlineable(src, b))
Headed(src, s, b, d) ==
    IF HasNl(src, s, b.s + 1) \/ d = NoDoc THEN NoDoc ELSE Concat(<<Verb(Slice(src, s, b.s)), Space(1), d>>)
lower_def(src, s, b) == Headed(src, s, b, lower_block(src, b))
Prefixed(src, s, es, d) ==
    IF HasNl(src, s, es + 1) \/ d = NoDoc THEN NoDoc
    ELSE Concat(<<Verb(Slice(src, s, es)), IF es > s THEN Space(src[es].sp) ELSE Nil, d>>)
PrefixedFrom(src, s, es, n, e) == Prefixed(src, s, es, lower_or_verbatim(src, n, es, e, FALSE))
lower_prefixed(src, s, n, e) == PrefixedFrom(src, s, statement_content_start(src, n.s, s), n, e)
lower_operator_expr(src, s, n, e) == IF ~HasNl(src, s, e) THEN NoDoc ELSE lower_prefixed(src, s, n, e)

is_collection(n) == n.k \in {"list", "map"}
Items(n) == IF n.k = "list" THEN n.kids ELSE [i \in 1..(Len(n.kids) \div 2) |-> n.kids[2 * i - 1]]
Spread(src, n, its) ==
    IF Comments(src, n.s + 1, n.e - 1) # <<>> \/ \E i \in DOMAIN its : Breaks(its[i]) THEN NoDoc
    ELSE Group(Concat(<<Text(src[n.s].t),
                        Nest(INDENT, Concat(FlattenSeq([i \in DOMAIN its |-> <<Line, Verb(its[i])>>]))),
                        Line, Text(src[n.e - 1].t)>>))
Sliced(src, n, starts) ==
    [i \in DOMAIN starts |-> Slice(src, starts[i], IF i < Len(starts) THEN starts[i + 1] ELSE n.e - 1)]
Started(src, n, its) ==
    [i \in DOMAIN its |-> statement_content_start(src, its[i].s, IF i > 1 THEN its[i - 1].s ELSE n.s + 1)]
lower_collection(src, n) ==
    IF n.kids = <<>> THEN Verb(Slice(src, n.s, n.e)) ELSE Spread(src, n, Sliced(src, n, Started(src, n, Items(n))))
\* With the parentheses around it.
Wrapped(src, n, s, e, d) ==
    IF d = NoDoc THEN NoDoc ELSE Concat(<<Verb(Slice(src, s, n.s)), d, Verb(Slice(src, n.e, e))>>)
wrapped_collection(src, n, s, e) == Wrapped(src, n, s, e, lower_collection(src, n))

ArgOr(src, rs, re, d) == IF d # NoDoc THEN d ELSE IF HasNl(src, rs, re) THEN NoDoc ELSE Verb(Slice(src, rs, re))
ArgFrom(src, n, as, re) == Lower(src, n, as, statement_content_end(src, as, re))
lower_arg(src, n, rs, re) ==
    ArgOr(src, rs, re, IF is_collection(n) \/ HasNl(src, rs, re)
                       THEN ArgFrom(src, n, statement_content_start(src, n.s, rs), re) ELSE NoDoc)
ArgDoc(src, n, arg, e, i) ==
    IF arg.k = "block" THEN lower_block(src, arg)
    ELSE lower_arg(src, arg, n.v.at[i] + 2, IF i + 1 < Len(n.kids) THEN n.v.at[i + 1] ELSE e)
Joined(ds) == FlattenSeq([i \in DOMAIN ds |-> IF i = 1 THEN <<ds[i]>> ELSE <<Line, ds[i]>>])
Keywords(subject, bare, cells, widest, inline, tail) ==
    IF inline /\ ~bare
    THEN Concat(<<PreferIfFits(widest, INDENT + 1,
                    Concat(<<subject, Group(Concat(<<Nest(INDENT, Concat(<<SoftLine, Text(".")>>)),
                                                     Nest(INDENT + 1, Concat(cells))>>))>>),
                    Concat(<<subject, Text("."), Group(Concat(cells))>>)), tail>>)
    ELSE Concat(<<subject, Text("."), Nest(IF inline THEN 1 ELSE 0, Group(Concat(cells))), tail>>)
Blocks(args) == {i \in DOMAIN args : args[i].k = "block"}
StrayComment(src, s, e, args) ==
    \E c \in s..(e - 1) : IsComment(src[c].t) /\ ~ \E i \in Blocks(args) : args[i].s <= c /\ c < args[i].e
\* What follows the last selector or block: closing parentheses.
LastEnd(n, args, e) ==
    IF args = <<>> THEN n.v.at[1] + Len(n.v.names)
    ELSE IF Len(args) \in Blocks(args) THEN Last(args).e ELSE e
Widest(ws) == IF -1 \in ws THEN -1 ELSE Max(ws)
SendDoc(src, n, s, subject, cells, inline, tail) ==
    IF cells = <<>>
    THEN Concat(<<subject, Text(".")>> \o [i \in DOMAIN n.v.names |-> Text(n.v.names[i])] \o <<tail>>)
    ELSE IF Len(cells) = 1 THEN Concat(<<subject, Text("."), cells[1], tail>>)
    ELSE Keywords(subject, subject.ts = <<>>, Joined(cells), Widest({flat_width(cells[i]) : i \in DOMAIN cells}), inline, tail)
Sends(src, n, s, e, args, docs) ==
    IF HasNl(src, s, n.v.at[1] - 1) \/ StrayComment(src, s, e, args) \/ \E i \in DOMAIN docs : docs[i] = NoDoc THEN NoDoc
    ELSE SendDoc(src, n, s, Verb(Slice(src, s, n.v.at[1] - 1)),
                 [i \in DOMAIN docs |-> Concat(<<Text(n.v.names[i]), Text(":"), docs[i]>>)],
                 \A i \in Blocks(args) : block_is_inlineable(src, args[i]),
                 Verb(Slice(src, LastEnd(n, args, e), e)))
lower_send(src, n, s, e) ==
    Sends(src, n, s, e, Tail(n.kids), [i \in DOMAIN Tail(n.kids) |-> ArgDoc(src, n, n.kids[i + 1], e, i)])

lower_stmt(src, n, s, e) ==
    CASE n.k \in {"class", "method"} -> lower_def(src, s, n.kids[1])
      [] n.k = "ext" -> lower_def(src, s, n.kids[2])
      [] n.k = "block" -> lower_block(src, n)
      [] is_collection(n) -> wrapped_collection(src, n, s, e)
      [] n.k = "call" -> lower_send(src, n, s, e)
      [] n.k \in {"set", "decl", "mret", "bret", "yield"} -> lower_prefixed(src, s, n.kids[1], e)
      [] n.k = "bin" -> lower_operator_expr(src, s, n.kids[2], e)
      [] n.k = "un" -> lower_operator_expr(src, s, n.kids[1], e)
      [] OTHER -> NoDoc
Lower(src, n, s, e) == lower_stmt(src, n, s, e)
OrAll(src, d) == IF d = NoDoc THEN Verb(src) ELSE d
lower_program(src, body) == OrAll(src, emit_sequence(src, 1, Len(src) + 1, body, TRUE, FALSE))

\* A line comment's text is the rest of its line.
LineEnd(src, i) == Max({j \in i..Len(src) : \A g \in (i + 1)..j : src[g].nl = 0})
scan_comments(src) ==
    LET cs == SelectSeq([i \in 1..Len(src) |-> i], LAMBDA i : IsComment(src[i].t) /\ ~Swallowed(src, i))
    IN  [j \in DOMAIN cs |-> IF src[cs[j]].t = LineComment THEN LineEnd(src, cs[j]) - cs[j] ELSE -1]
ast_equal(a, b) == try_parse(a, FALSE) = try_parse(b, FALSE)
comment_bag(src) == SortSeq(scan_comments(src), <)
comments_preserved(a, b) == comment_bag(a) = comment_bag(b)
Checked(src, out) == [ok |-> ast_equal(src, out) /\ comments_preserved(src, out), out |-> out]
format_source(src) == Checked(src, render(lower_program(src, try_parse(src, TRUE).v)))
----------------------------------------------------------------------------
(* The texts.  In a form, "~" is a gap that may be a space, a line break or *)
(* a blank line, and "?" one where a comment may stand as well.             *)
Tight(p, t) ==
    \/ t \in {".", ":", ")", ";", "!"} \/ p \in {"", ".", ":", "(", "#(", "^", "!"}
    \/ t = ">" \/ (p = "<" /\ t = "-")
Lay(t, nl, sp) == [t |-> t, nl |-> nl, sp |-> sp]
Gaps == {<<0, 1>>, <<1, 0>>, <<2, 0>>}
LastTok(done) == IF done = <<>> THEN "" ELSE Last(done).t
Texts(form) ==
    LET Go[i \in 0..Len(form)] ==     \* the texts of the first i, each with the gap that comes next
            IF i = 0 THEN {[done |-> <<>>, gap |-> <<>>]}
            ELSE UNION {
                CASE form[i] = "~" -> {[p EXCEPT !.gap = g] : g \in Gaps}
                  [] form[i] = "?" ->
                        {[p EXCEPT !.gap = g] : g \in Gaps}
                        \cup {[done |-> Append(p.done, Lay(c[1], c[2], 1)), gap |-> c[3]] :
                                c \in {<<LineComment, 0, <<1, 0>>>>, <<LineComment, 1, <<1, 0>>>>, <<BlockComment, 0, <<0, 1>>>>}}
                  [] OTHER ->
                        {[done |-> Append(p.done, IF p.gap = <<>>
                                            THEN Lay(form[i], 0, IF Tight(LastTok(p.done), form[i]) THEN 0 ELSE 1)
                                            ELSE Lay(form[i], p.gap[1], p.gap[2])), gap |-> <<>>]}
                : p \in Go[i - 1]}
    IN  {p.done : p \in Go[Len(form)]}
Family == [
    pairs |-> {p \o <<";", "~">> \o q :
                p \in {<<"a">>, <<"a", ".", "m">>, <<"(", "a", ")">>, <<"b", "=", "a">>, <<"a", ".", "k", ":", "1">>,
                       <<"T", "<", "-", "1">>, <<"^", "a">>, <<"k", ":", "-", ">", "{", "a", "}">>},
                q \in {<<"a">>, <<"b", "=", "1">>, <<"var", "b", "=", "1">>, <<"-", "a">>, <<".", "m">>, <<"(", "b", ")">>,
                       <<"m", "-", ">", "{", "a", "}">>, <<"{", "a", "}">>, <<"|", "a", "|">> , <<"T", "<", "-", "{", "a", "}">>}},
    defs |-> {<<"T", "<", "-", "{", "?", "m", "-", ">", "{", "~", "a", ".", "m", "~", "}", ";", "?", "k", "-", ">", "{", "1", "}", "~", "}">>,
              <<"T", ".", "m", "<", "-", "-", "{", "?", "m", "-", ">", "{", "|", "a", "|", "~", "b", "=", "a", ";", "~", "b", "}", "~", "}">>},
    sends |-> {<<"a", "~", ".", "k", ":", "{", "~", "b", "~", "}", "~", "m", ":", "(", "1", "+", "2", ")">>,
               <<"b", "=", "(", "a", ".", "k", ":", "1", "m", ":", "{", "a", ";", "~", "b", "~", "}", ")">>,
               <<".", "k", ":", "#(", "~", "1", "2", "~", ")", "~", "m", ":", "~", "a", ".", "m">>,
               <<"^", "a", ".", "k", ":", "(", "b", ".", "m", ":", "{", "~", "a", "}", ")">>},
    lists |-> {<<"b", "=", "(", "#(", "~", "1", "~", "a", ".", "m", "~", ")", ")">>, <<"#{", "~", "'s'", ":", "1", "~", "2", ":", "a", "~", "}">>,
               <<"a", "+", "~", "#(", "1", "~", "(", "2", ")", "~", ")">>},
    trailing |-> {<<"m", "-", ">", "{", "~", "a", "?", "}">>, <<"a", ".", "k", ":", "{", "~", "a", ";", "?", "b", "?", "}">>},
    keyDef |-> {<<"a", ".", "k", ":", "1", ";", "~", "m", ":", "k", ":", "-", ">", "{", "a", "}">>},
    useName |-> {<<"use", ";", "~", "a">>},
    parenDef |-> {<<"a", "=", "(", "T", "<", "-", "{", "~", "m", "-", ">", "{", "1", "}", "~", "}", ")">>}]
Sources == {t \in UNION {Texts(f) : f \in UNION {Family[n] : n \in DOMAIN Family}} : try_parse(t, FALSE).ok}

FInit == text \in Sources /\ result = [ok |-> TRUE, out |-> <<>>] /\ again = result
Format == result.out = <<>> /\ result' = format_source(text) /\ UNCHANGED <<text, again>>
Reformat ==
    /\ result.out # <<>> /\ result.ok /\ again.out = <<>>
    /\ again' = format_source(result.out) /\ UNCHANGED <<text, result>>
FNext == Format \/ Reformat
FormatSpec == FInit /\ [][FNext]_ftvars

(* The layouts that the check at the end refuses.  A statement boundary     *)
(* needs_separator does not know: the name `use` before a statement, and a  *)
(* keyword argument before the definition of a keyword method.  A class     *)
(* body in parentheses, whose last one is left out.  A line comment that    *)
(* closes a block put on one line.                                          *)
Reads(src, pat) ==
    \E i \in DOMAIN src : \A j \in DOMAIN pat : i + j - 1 \in DOMAIN src /\ src[i + j - 1].t = pat[j]
Refused(src) ==
    \/ Reads(src, <<"use", ";">>) \/ Reads(src, <<":", "1", ";", "m", ":">>)
    \/ Reads(src, <<"(", "T", "<", "-", "{">>)
    \/ Reads(src, <<LineComment, "}">>)

(* A text that parses is formatted: what is laid out parses to the same     *)
(* tree and keeps every comment, so that the check at the end has to refuse *)
(* it only for the layouts above.                                           *)
FormatSucceeds == (result.ok /\ again.ok) \/ Refused(text)
(* Formatting what was formatted changes nothing.                           *)
FormatIdempotent == again.out # <<>> => again.out = result.out
=============================================================================
