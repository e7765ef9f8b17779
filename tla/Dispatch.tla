------------------------------ MODULE Dispatch ------------------------------
(* Multi-method dispatch and its caches: the method tables of classes, the  *)
(* hierarchy lookup that scores candidates and runs their guards, the       *)
(* VM-wide memo of resolutions, the inline cache of a call site, and the    *)
(* definitions that change the tables.  One selector is modelled, with one  *)
(* argument.  A guard is guest code: it may send messages of its own,       *)
(* define methods and mix in, and the task may be switched out inside it.   *)
EXTENDS Integers, Sequences, FiniteSets, SequencesExt

CONSTANTS DTasks,      \* the tasks of the VM
          MaxBodies,   \* bound on method definitions
          MaxMixes,    \* bound on mix: sends
          MaxLookups,  \* bound on lookups under way at once, nested or in several tasks
          MaxEpoch     \* bound on dispatch_epoch

Classes == {"C", "D", "M"}             \* D's parent is C, M is a mixin
Args    == {"i0", "i1", "s"}           \* two Integers and a String
TypeOf(v)  == IF v = "s" THEN "String" ELSE "Integer"
Hints      == {"Integer", "Object"}
Passes     == {"i1"}                   \* the arguments a guard accepts
\* A method is known by the number of its definition.
NoBody     == 0
Ambiguous  == -1
TheSite    == <<"site", "-">>

VARIABLES chain,     \* the method chain of the selector in each class
          mixes,     \* class -> its mixin_classes
          entries,   \* dispatch_cache.entries: key -> body, or NoBody
          uncacheable,
          epoch,     \* dispatch_epoch
          slot,      \* the inline-cache slot of the call site
          look,      \* task -> its lookups in progress, innermost last
          cur,       \* the task that runs
          dirty      \* keys of the memo, and TheSite, that a disturbed lookup filled
dispVars == <<chain, mixes, entries, uncacheable, epoch, slot, look, cur, dirty>>

DispInit ==
    /\ chain = [c \in Classes |-> <<>>]
    /\ mixes = [c \in Classes |-> <<>>]
    /\ entries = <<>>
    /\ uncacheable = FALSE
    /\ epoch = 0
    /\ slot = [epoch |-> 0, cls |-> "-", type |-> "-", body |-> 0]
    /\ look = [t \in DTasks |-> <<>>]
    /\ cur \in DTasks
    /\ dirty = {}
----------------------------------------------------------------------------
(* Scores, as match_score computes them: twice the type distance, and a     *)
(* guard that passed breaks a tie.  Smaller is more specific.               *)
Distance(v, hint) == IF hint = "Object" THEN {1} ELSE IF TypeOf(v) = hint THEN {0} ELSE {}
match_score(v, n) == {<<2 * d, IF n.guard THEN 0 ELSE 1>> : d \in {x \in Distance(v, n.hint) : n.guard => v \in Passes}}
Below(a, b)   == a[1] < b[1] \/ (a[1] = b[1] /\ a[2] < b[2])

\* The node a class answers, given its applicable nodes (pairs of node and score).
Chosen(appl) ==
    LET least == {p \in appl : \A q \in appl : ~Below(q[2], p[2])}
    IN  IF Cardinality(least) >= 2 THEN Ambiguous ELSE (CHOOSE p \in least : TRUE)[1].body

Parent(c) == IF c = "D" THEN <<"C">> ELSE <<>>

\* What a lookup from scratch answers now: own methods, mixins, then the parent.
Order(c)   == LET up == <<c>> \o mixes[c] IN
              IF c = "D" THEN up \o SelectSeq(<<"C">> \o mixes["C"], LAMBDA x : ~Contains(up, x)) ELSE up
Fresh(c, v) ==
    LET appl(k) == UNION {{<<n, m>> : m \in match_score(v, n)} : n \in ToSet(chain[k])}
        hits    == SelectSeq(Order(c), LAMBDA k : appl(k) # {})
    IN  IF hits = <<>> THEN NoBody ELSE Chosen(appl(Head(hits)))
----------------------------------------------------------------------------
\* method_cache_key: the searched class and the argument's class
Key(c, v) == <<c, TypeOf(v)>>
Cached(k) == IF k \in DOMAIN entries THEN {entries[k]} ELSE {}

ClearMemoOnly == entries' = <<>> /\ UNCHANGED epoch    \* the call sites keep their slots

invalidate_method_cache == entries' = <<>> /\ epoch' = epoch + 1

Innermost(t) == Last(look[t])
InGuard(t)   == IF look[t] = <<>> THEN TRUE ELSE Innermost(t).at = "guard"
Update(t, r) == look' = [look EXCEPT ![t] = Front(@) \o r]

(* ic_fill: the site remembers the callable it was resolved to, if the memo *)
(* holds a resolution, be it another one, for the key.                      *)
Fills(memo, k) == k \in DOMAIN memo /\ memo[k] # NoBody
ic_fill(memo, k, body) ==
    slot' = IF Fills(memo, k) THEN [epoch |-> epoch, cls |-> k[1], type |-> k[2], body |-> body] ELSE slot

ic_probe(c, v) == slot.epoch = epoch /\ slot.cls = c /\ slot.type = TypeOf(v)

(* Another task's lookup uses the VM's one `uncacheable` during these.      *)
Mixing(l, t) == [u \in DTasks |-> IF u = t THEN l[u] ELSE [n \in 1..Len(l[u]) |-> [l[u][n] EXCEPT !.mixed = TRUE]]]

Visiting(old, rest, seen) ==
    [old EXCEPT !.here = Head(rest), !.cands = chain[Head(rest)],
     !.todo = mixes[Head(rest)] \o Parent(Head(rest)) \o Tail(rest), !.seen = seen \cup {Head(rest)}]
Begun(c, v) ==
    [at |-> "scan", cls |-> c, arg |-> v, saved |-> uncacheable, here |-> c, cands |-> <<>>,
     todo |-> <<>>, appl |-> {}, seen |-> {}, epoch |-> epoch, mixed |-> FALSE]

(* A send of the modelled selector to an instance of c.  An inline-cache or *)
(* memo hit ends here; otherwise the lookup starts with the class itself.   *)
exec_send(t, c, v) ==
    /\ cur = t /\ InGuard(t) /\ ~ic_probe(c, v)
    /\ FoldFunction(LAMBDA l, n : Len(l) + n, 0, look) < MaxLookups
    /\ IF Cached(Key(c, v)) # {}
       THEN /\ ic_fill(entries, Key(c, v), entries[Key(c, v)]) /\ UNCHANGED <<entries, uncacheable, look>>
            /\ dirty' = IF Key(c, v) \in dirty THEN dirty \cup {TheSite}
                        ELSE IF Fills(entries, Key(c, v)) THEN dirty \ {TheSite} ELSE dirty
       ELSE /\ uncacheable' = FALSE
            /\ look' = Mixing([look EXCEPT ![t] = Append(@, Visiting(Begun(c, v), <<c>>, {}))], t)
            /\ UNCHANGED <<entries, slot, dirty>>
    /\ UNCHANGED <<chain, mixes, epoch, cur>>

Scanning(t) == cur = t /\ look[t] # <<>> /\ Innermost(t).at = "scan"
Next1(r)    == [r EXCEPT !.cands = Tail(@)]

\* A candidate without a guard, or one whose types do not fit.
ScoreCandidate(t) ==
    LET r == Innermost(t) n == Head(r.cands) IN
    /\ Scanning(t) /\ r.cands # <<>>
    /\ ~n.guard \/ Distance(r.arg, n.hint) = {}
    /\ Update(t, <<[Next1(r) EXCEPT !.appl = @ \cup
           {<<Head(r.cands), m>> : m \in match_score(r.arg, n)}]>>)
    /\ UNCHANGED <<chain, mixes, entries, uncacheable, epoch, slot, cur, dirty>>

GuardUnmarked == UNCHANGED uncacheable      \* as if a guarded lookup were memoised too
GuardMarked == uncacheable' = TRUE

\* A guarded candidate: the lookup is marked, and the guard's block runs.
StartGuard(t) ==
    LET r == Innermost(t) n == Head(r.cands) IN
    /\ Scanning(t) /\ r.cands # <<>> /\ n.guard /\ Distance(r.arg, n.hint) # {}
    /\ GuardMarked
    /\ look' = Mixing([look EXCEPT ![t] = Front(@) \o <<[r EXCEPT !.at = "guard"]>>], t)
    /\ UNCHANGED <<chain, mixes, entries, epoch, slot, cur, dirty>>

GuardEnds(t) ==
    LET r == Innermost(t) n == Head(r.cands) IN
    /\ cur = t /\ look[t] # <<>> /\ r.at = "guard"
    /\ Update(t, <<[Next1(r) EXCEPT !.at = "scan", !.appl = @ \cup
           {<<Head(r.cands), m>> : m \in match_score(r.arg, n)}]>>)
    /\ UNCHANGED <<chain, mixes, entries, uncacheable, epoch, slot, cur, dirty>>

\* No candidate of this class applies: on to its mixins, then its parent.
VisitNext(t) ==
    LET r == Innermost(t) open == SelectSeq(r.todo, LAMBDA c : c \notin r.seen) IN
    /\ Scanning(t) /\ r.cands = <<>> /\ r.appl = {} /\ open # <<>>
    /\ Update(t, <<Visiting(r, open, r.seen)>>)
    /\ UNCHANGED <<chain, mixes, entries, uncacheable, epoch, slot, cur, dirty>>

RestoreKept(r)  == UNCHANGED uncacheable
RestoreSaved(r) == uncacheable' = r.saved

(* The lookup is decided: memoised unless a guard was examined or the       *)
(* candidates tie, the caller's flag restored, and the site filled.         *)
Resolve(t) ==
    LET r    == Innermost(t)
        open == SelectSeq(r.todo, LAMBDA c : c \notin r.seen)
        body == IF r.appl = {} THEN NoBody ELSE Chosen(r.appl)
        k    == Key(r.cls, r.arg)
        kept == ~uncacheable /\ body # Ambiguous
        memo == [x \in DOMAIN entries \cup (IF kept THEN {k} ELSE {}) |-> IF x = k /\ kept THEN body ELSE entries[x]]
        site == body \notin {NoBody, Ambiguous} /\ Fills(memo, k)
        filled == (IF kept THEN {k} ELSE {}) \cup (IF site THEN {TheSite} ELSE {})
        doubtful == IF r.mixed THEN filled ELSE IF r.epoch # epoch THEN filled \ {k} ELSE {}
    IN  /\ Scanning(t) /\ r.cands = <<>> /\ (r.appl # {} \/ open = <<>>)
        /\ entries' = memo
        /\ RestoreSaved(r)
        /\ IF site THEN ic_fill(memo, k, body) ELSE UNCHANGED slot
        /\ look' = Mixing([look EXCEPT ![t] = Front(@)], t)
        /\ dirty' = (dirty \ filled) \cup doubtful
        /\ UNCHANGED <<chain, mixes, epoch, cur>>
----------------------------------------------------------------------------
Newest == LET all == {n.body : n \in UNION {ToSet(chain[c]) : c \in Classes}} IN
          IF all = {} THEN 0 ELSE CHOOSE m \in all : \A k \in all : k <= m

SameSignature(a, b) == ~a.guard /\ ~b.guard /\ a.hint = b.hint
InHierarchy(c) == \E k \in ToSet(Order(c)) : chain[k] # <<>>

(* replace_or_append_method_in_chain: an unguarded method takes the place   *)
(* of one with the same parameter types, any other joins the chain's end.   *)
Joined(ch, n) ==
    IF \E k \in 1..Len(ch) : SameSignature(ch[k], n)
    THEN [k \in 1..Len(ch) |-> IF SameSignature(ch[k], n) THEN n ELSE ch[k]] ELSE Append(ch, n)

CachesKept == UNCHANGED <<entries, epoch>>

DefineMethod(t, c, hint, guard) ==
    /\ cur = t /\ InGuard(t) /\ Newest < MaxBodies /\ epoch < MaxEpoch
    /\ chain' = [chain EXCEPT ![c] = Joined(@, [hint |-> hint, guard |-> guard, body |-> Newest + 1])]
    /\ invalidate_method_cache
    /\ dirty' = dirty \cap {TheSite}
    /\ UNCHANGED <<mixes, uncacheable, slot, look, cur>>

OverrideMethod(t, c, hint, guard) == InHierarchy(c) /\ DefineMethod(t, c, hint, guard)

MixCaches == invalidate_method_cache

mix(t, c) ==
    /\ cur = t /\ InGuard(t) /\ c # "M"
    /\ Len(mixes["C"]) + Len(mixes["D"]) < MaxMixes /\ epoch < MaxEpoch
    /\ mixes' = [mixes EXCEPT ![c] = Append(@, "M")]
    /\ MixCaches
    /\ dirty' = dirty \cap {TheSite}
    /\ UNCHANGED <<chain, uncacheable, slot, look, cur>>
----------------------------------------------------------------------------
\* The batch yield: between two instructions, or inside a guard's block.
Switch ==
    /\ InGuard(cur)
    /\ cur' \in DTasks \ {cur}
    /\ UNCHANGED <<chain, mixes, entries, uncacheable, epoch, slot, look, dirty>>

DispNext ==
    \/ \E t \in DTasks :
         \/ \E c \in {"C", "D"}, v \in Args : exec_send(t, c, v)
         \/ ScoreCandidate(t) \/ StartGuard(t) \/ GuardEnds(t) \/ VisitNext(t) \/ Resolve(t)
         \/ \E c \in Classes, h \in Hints, g \in BOOLEAN : DefineMethod(t, c, h, g) \/ OverrideMethod(t, c, h, g)
         \/ \E c \in Classes : mix(t, c)
    \/ Switch
DispSpec == DispInit /\ [][DispNext]_dispVars
----------------------------------------------------------------------------
(* A resolution taken from the memo is the one a lookup from scratch would  *)
(* make now, for every argument with the key's types.  The lookup that      *)
(* filled it may have been re-entered from a guard, and the tables, mixins  *)
(* and chains may have changed during and since it; only a lookup that      *)
(* another task's lookup was mixed into is excepted.                        *)
CachedIsCurrent == \A k \in DOMAIN entries : \A v \in Args :
    (TypeOf(v) = k[2] /\ k \notin dirty) => Fresh(k[1], v) = entries[k]

(* A call site whose slot carries the current epoch calls the body that a   *)
(* lookup from scratch would call, whatever was redefined since, unless the *)
(* tables were changed while that site's own lookup ran a guard.            *)
InlineIsCurrent == (slot.epoch = epoch /\ slot.body # 0 /\ TheSite \notin dirty) =>
    \A v \in Args : TypeOf(v) = slot.type => Fresh(slot.cls, v) = slot.body
=============================================================================
