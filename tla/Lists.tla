------------------------------- MODULE Lists -------------------------------
(* List: insertion against the element tag by method and by instruction, and *)
(* the in-place sorts, whose comparisons run guest code while other tasks    *)
(* may write the same list.  The element tag is the type a checked List, Map *)
(* or Set holds its elements to.                                             *)
EXTENDS Integers, Sequences

CONSTANTS LTasks,    \* tasks sharing the list
          LTags,     \* its element tags at the start
          MaxElems,  \* bound on its length
          MaxLOps    \* bound on operations begun

VARIABLES
    list,    \* [vec, elem]
    made,    \* the list last answered by ensure: or a slice
    lop,     \* task -> the sort it is inside
    lbegun   \* operations begun
listVars == <<list, made, lop, lbegun>>

(* Element values: nil, two Integers, a String, an instance of a user class  *)
Values == 0..4
KindOf(v) == CASE v = 0 -> "nil" [] v \in {1, 2} -> "Int" [] v = 3 -> "Str" [] v = 4 -> "Class"

\* the runtime tag a class value mints; scalars and strings decide by variant
\* and a Class tag walks the value's parents, as dispatch does
matches_value(tag, v) == KindOf(v) \in {"nil", tag}
check_insert(tag, v) == tag = "none" \/ matches_value(tag, v)

-----------------------------------------------------------------------------
NoListOp == [kind |-> "none", at |-> "idle", v |-> 0, hit |-> 0,
             n |-> 0, i |-> 0, j |-> 0, gt |-> FALSE, alone |-> TRUE]
\* List.of: and a tagged literal make a checked list
ListInit ==
    /\ \E e \in LTags : list = [vec |-> <<>>, elem |-> e] /\ made = list
    /\ lop = [t \in LTasks |-> NoListOp] /\ lbegun = 0
Free(t) == lop[t].at = "idle" /\ lbegun < MaxLOps

\* a mutant: the fast path writes without consulting the tag
gate_open(tag, v) == TRUE
gate(tag, v) == check_insert(tag, v)

\* every write tells a sort of another task that it is no longer alone
Disturbed == [t \in LTasks |-> [lop[t] EXCEPT !.alone = FALSE]]
add(t, v) ==
    /\ Free(t) /\ Len(list.vec) < MaxElems /\ gate(list.elem, v)
    /\ \E first \in BOOLEAN :    \* push: puts it first, add: last
         list' = [list EXCEPT !.vec = IF first THEN <<v>> \o @ ELSE Append(@, v)]
    /\ lbegun' = lbegun + 1 /\ lop' = Disturbed /\ UNCHANGED made
InRange(i) == i >= 0 /\ i < Len(list.vec)
list_set(i, v) == [list EXCEPT !.vec[i + 1] = v]
\* at:put: and the ListSet instruction: the tag is consulted before the bounds,
\* and a refusal by either leaves the list alone
ListSet(t, i, v) ==
    /\ Free(t) /\ InRange(i) /\ gate(list.elem, v)
    /\ list' = list_set(i, v)
    /\ lbegun' = lbegun + 1 /\ lop' = Disturbed /\ UNCHANGED made

\* ensure: answers a checked copy, or refuses; the receiver is left as it is
list_ensure(t, tag) ==
    /\ Free(t) /\ \A i \in 1..Len(list.vec) : check_insert(tag, list.vec[i])
    /\ made' = [vec |-> list.vec, elem |-> tag]
    /\ lbegun' = lbegun + 1 /\ UNCHANGED <<list, lop>>
\* a slice keeps the receiver's tag, as emptyLike, the empty slice, does
sliceFrom(t, from, to) ==
    LET Least(a, b) == IF a < b THEN a ELSE b
        start == IF from < 0 THEN 0 ELSE from
        end == Least(IF to < 0 THEN 0 ELSE to, Len(list.vec))
    IN
    /\ Free(t)
    /\ made' = [list EXCEPT !.vec = IF start < end THEN SubSeq(@, start + 1, end) ELSE <<>>]
    /\ lbegun' = lbegun + 1 /\ UNCHANGED <<list, lop>>
\* List add: on what was made: a tagged copy goes on being checked
addToMade(t, v) ==
    /\ Free(t) /\ gate(made.elem, v) /\ Len(made.vec) < MaxElems
    /\ made' = [made EXCEPT !.vec = Append(@, v)]
    /\ lbegun' = lbegun + 1 /\ UNCHANGED <<list, lop>>

-----------------------------------------------------------------------------
(* sort and sort:                                                            *)

\* an insertion sort; kinds: ">:", a key block, a two-argument predicate
sort(t, kind) ==
    /\ Free(t) /\ Len(list.vec) > 1
    /\ lop' = [lop EXCEPT ![t] = [NoListOp EXCEPT !.kind = kind, !.at = "compare", !.i = 1, !.j = 1,
                                               !.n = Len(list.vec)]]
    /\ lbegun' = lbegun + 1
    /\ UNCHANGED <<list, made>>
\* nil sorts after everything; mixed kinds do not answer >:
Comparable(a, b) == a = 0 \/ b = 0 \/ KindOf(a) = KindOf(b)
\* a mutant: nil is compared like a number
GreaterPlain(a, b) == a > b
Greater(a, b) == IF a = 0 THEN b # 0 ELSE b # 0 /\ a > b
SortEnds(t) == lop' = [lop EXCEPT ![t] = NoListOp]
\* the length is read once, when the sort begins; a list never shrinks
Compared(t) ==
    LET o == lop[t] a == list.vec[o.j] b == list.vec[o.j + 1] IN
    /\ o.at = "compare"
    /\ IF Comparable(a, b)
       THEN lop' = [lop EXCEPT ![t].gt = Greater(a, b), ![t].at = "swap"]
       ELSE SortEnds(t)
    /\ UNCHANGED <<list, made, lbegun>>
\* with a key block the first element may be replaced while its key is computed
KeyCompared(t) ==
    LET o == lop[t] IN
    /\ o.at = "compare" /\ o.kind = "key" /\ o.hit = 0
    /\ lop' = [lop EXCEPT ![t].hit = 1, ![t].v = list.vec[o.j]]
    /\ UNCHANGED <<list, made, lbegun>>
KeySecond(t) ==
    LET o == lop[t] b == list.vec[o.j + 1] IN
    /\ o.at = "compare" /\ o.kind = "key" /\ o.hit = 1
    /\ IF Comparable(o.v, b)
       THEN lop' = [lop EXCEPT ![t].gt = Greater(o.v, b), ![t].at = "swap", ![t].hit = 0]
       ELSE SortEnds(t)
    /\ UNCHANGED <<list, made, lbegun>>
sort_swap(t) ==
    LET o == lop[t]
        next == IF o.gt /\ o.j > 1 THEN [o EXCEPT !.j = @ - 1, !.at = "compare"]
                ELSE IF o.i + 1 < o.n THEN [o EXCEPT !.i = @ + 1, !.j = o.i + 1, !.at = "compare"]
                ELSE [o EXCEPT !.at = "sorted"]
    IN
    /\ o.at = "swap"
    /\ list' = IF o.gt THEN [list EXCEPT !.vec = [@ EXCEPT ![o.j] = list.vec[o.j + 1],
                                                         ![o.j + 1] = list.vec[o.j]]]
               ELSE list
    /\ lop' = [u \in LTasks |-> IF u = t THEN next ELSE [lop[u] EXCEPT !.alone = @ /\ ~o.gt]]
    /\ UNCHANGED <<made, lbegun>>
Sorted(t) == lop[t].at = "sorted" /\ SortEnds(t) /\ UNCHANGED <<list, made, lbegun>>

ListNext == \E t \in LTasks :
    \/ \E v \in Values : add(t, v) \/ \E i \in 0..MaxElems : ListSet(t, i, v)
    \/ \E tag \in {"Int", "Str"} : list_ensure(t, tag)
    \/ \E from, to \in {-1, 0, 1, 4} : sliceFrom(t, from, to)
    \/ \E v \in Values : addToMade(t, v)
    \/ \E kind \in {">:", "pred", "key"} : sort(t, kind)
    \/ (lop[t].kind # "key" /\ Compared(t)) \/ KeyCompared(t) \/ KeySecond(t)
    \/ sort_swap(t) \/ Sorted(t)
ListSpec == ListInit /\ [][ListNext]_listVars

-----------------------------------------------------------------------------
(* Whichever of add:, push:, at:put:, ListSet and ListPush wrote it, every   *)
(* element of a tagged list is nil or of the tag's class                     *)
ListFitsTag == \A l \in {list, made} : \A i \in 1..Len(l.vec) : check_insert(l.elem, l.vec[i])

(* A sort nobody disturbed leaves the list ordered, nil last                 *)
SortSorts == \A t \in LTasks : lop[t].at = "sorted" /\ lop[t].alone =>
    \A i \in 1..(Len(list.vec) - 1) :
        \/ list.vec[i + 1] = 0
        \/ list.vec[i] # 0 /\ list.vec[i] <= list.vec[i + 1]
=============================================================================
