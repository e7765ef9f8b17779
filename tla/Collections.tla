---------------------------- MODULE Collections ----------------------------
(* Map and Set: the insertion-ordered store with its two lookup tiers, value *)
(* tags, and the devirtualised instructions beside the methods they shadow.  *)
(* Guest code runs inside hash and ==:, so another task may change a store   *)
(* in the middle of an operation on it.                                      *)
EXTENDS Integers, Sequences, SequencesExt, Lists

CONSTANTS CTasks,            \* tasks sharing the collections
          CKeys,             \* keys used, out of Keys
          CTags,             \* element tags of the collections at the start
          SMALL_LINEAR_MAX,  \* entries a store keeps without an index
          MaxEntries,        \* bound on a store's entries
          MaxCOps            \* bound on operations begun

VARIABLES
    stores,    \* "map", "copy", "set" -> [entries, index, elem]
    op,        \* task -> the native method it is inside
    panicked,  \* a Rust index went out of range
    begun      \* operations begun
colVars == <<stores, op, panicked, begun>>

(* Keys: an Integer 5, a Double 5.0, two equal BigIntegers 5, a String, and  *)
(* instances of classes that override hash and ==: -- two that call each     *)
(* other equal, and one, "like5", that hashes and compares as the Integer 5  *)
Keys == {"int", "double", "big1", "big2", "string", "inst1", "inst2", "like5"}
Hashes == {1, 2}
HashOf(k) == IF k \in {"string", "inst1", "inst2"} THEN 2 ELSE 1
Instance(k) == k \in {"inst1", "inst2", "like5"}
key_native_exact(k) == k \in {"int", "double", "string"}

\* Value's ==, which coerces Int and Double and is identity for the rest
NativeEq(a, b) == a = b \/ {a, b} = {"int", "double"}
\* a's own ==: method
GuestEq(a, b) ==
    \/ NativeEq(a, b)
    \/ {a, b} = {"big1", "big2"}
    \/ {a, b} = {"inst1", "inst2"}
    \/ a = "like5" /\ b \in {"int", "double"}

-----------------------------------------------------------------------------
(* The store                                                                 *)

NoIndex == [h \in Hashes |-> <<>>]
new_empty == [entries |-> <<>>, index |-> NoIndex, elem |-> "none"]
indexed(s) == Len(s.entries) > SMALL_LINEAR_MAX
\* positions whose cached hash is h, in order
Linear(s, h) == SelectSeq([i \in 1..Len(s.entries) |-> i], LAMBDA i : s.entries[i].h = h)
build_index(s) == [s EXCEPT !.index = [h \in Hashes |-> Linear(s, h)]]
find_hash_match(s, h) == IF indexed(s) THEN s.index[h] ELSE Linear(s, h)

append(s, h, k, v) ==
    LET grown == [s EXCEPT !.entries = Append(s.entries, [h |-> h, k |-> k, v |-> v])]
    IN IF ~indexed(grown) THEN grown
       ELSE IF s.index = NoIndex THEN build_index(grown)
       ELSE [grown EXCEPT !.index[h] = Append(@, Len(grown.entries))]

\* a mutant: the positions behind the removed entry are not moved up
remove_keeping(s, i) == [s EXCEPT !.entries = RemoveAt(s.entries, i)]
remove_at(s, i) ==
    LET less == [s EXCEPT !.entries = RemoveAt(s.entries, i)]
    IN IF indexed(less) THEN build_index(less) ELSE [less EXCEPT !.index = NoIndex]
set_value_at(s, i, v) == [s EXCEPT !.entries[i].v = v]

\* the position a lookup that needs no guest code finds, 0 for none
FirstOf(s, key, eq(_, _)) ==
    LET hits == SelectSeq(find_hash_match(s, HashOf(key)), LAMBDA i : eq(s.entries[i].k, key))
    IN IF hits = <<>> THEN 0 ELSE hits[1]
get_scalar(s, key) == FirstOf(s, key, NativeEq)
insert_scalar(s, key, v) ==
    IF get_scalar(s, key) # 0 THEN set_value_at(s, get_scalar(s, key), v)
    ELSE append(s, HashOf(key), key, v)
\* what the dispatched lookup finds when nobody interferes
Dispatched(s, key) == FirstOf(s, key, GuestEq)

-----------------------------------------------------------------------------
(* Operations that may run guest code                                        *)

NoOp == [kind |-> "none", on |-> "-", key |-> "-", v |-> 0, at |-> "idle",
         todo |-> <<>>, hit |-> 0, changed |-> FALSE]
Idle(t) == op[t].at = "idle" /\ ~panicked /\ begun < MaxCOps
Room(s) == Len(stores[s].entries) < MaxEntries

ColInit ==
    /\ \E e \in CTags : stores = [s \in {"map", "copy", "set"} |-> [new_empty EXCEPT !.elem = e]]
    /\ op = [t \in CTasks |-> NoOp]
    /\ panicked = FALSE /\ begun = 0

\* a lookup starts by hashing the key: an instance's hash is a guest call
Begin(t, kind, s, key, v) ==
    /\ Idle(t) /\ begun' = begun + 1
    /\ kind \in {"at:put:", "add:"} => check_insert(stores[s].elem, v) /\ Room(s)
    /\ op' = [op EXCEPT ![t] = [NoOp EXCEPT !.kind = kind, !.on = s, !.key = key, !.v = v,
                                            !.at = IF Instance(key) THEN "hash" ELSE "find"]]
    /\ UNCHANGED <<stores, panicked>>
\* at:put: and add: refuse a value the tag rejects before looking
Refused(t, s, v) ==
    /\ Idle(t) /\ ~check_insert(stores[s].elem, v)
    /\ begun' = begun + 1
    /\ UNCHANGED <<stores, op, panicked>>

map_hash_key(t) ==
    /\ op[t].at = "hash" /\ ~panicked
    /\ op' = [op EXCEPT ![t].at = "find"]
    /\ UNCHANGED <<stores, panicked, begun>>

\* the candidates are snapshot, positions and keys, before any ==: runs
bucket(s, h) == LET at == find_hash_match(s, h)
                IN [i \in 1..Len(at) |-> [i |-> at[i], k |-> s.entries[at[i]].k]]
map_find(t) ==
    /\ op[t].at = "find" /\ ~panicked
    /\ op' = [op EXCEPT ![t].at = "scan",
                        ![t].todo = bucket(stores[op[t].on], HashOf(op[t].key))]
    /\ UNCHANGED <<stores, panicked, begun>>

\* one candidate: native == decides for two exact keys, ==: otherwise
keys_equal(t) ==
    LET o == op[t] c == o.todo[1] IN
    /\ o.at = "scan" /\ o.todo # <<>> /\ ~panicked
    /\ op' = [op EXCEPT ![t] = IF NativeEq(c.k, o.key) \/ (~(key_native_exact(c.k) /\ key_native_exact(o.key))
                                                          /\ GuestEq(c.k, o.key))
                               THEN [o EXCEPT !.hit = c.i, !.todo = <<>>, !.at = "act"]
                               ELSE [o EXCEPT !.todo = Tail(@)]]
    /\ UNCHANGED <<stores, panicked, begun>>
NotFound(t) ==
    /\ op[t].at = "scan" /\ op[t].todo = <<>> /\ ~panicked
    /\ op' = [op EXCEPT ![t].at = "act"]
    /\ UNCHANGED <<stores, panicked, begun>>

Ends(t) == op' = [op EXCEPT ![t] = NoOp]
\* the operations that hold a snapshot of store s while its entries change
ChangedUnder(s) == [u \in CTasks |-> [op[u] EXCEPT !.changed = @ \/ (op[u].on = s /\ op[u].at \in {"scan", "act"})]]
EndsChanging(t, s) == op' = [ChangedUnder(s) EXCEPT ![t] = NoOp]
\* the position found is used on the store as it now is
Stale(o) == o.hit > Len(stores[o.on].entries)
map_put_any(t) ==
    LET o == op[t] s == stores[o.on] IN
    /\ o.kind = "at:put:" /\ o.at = "act" /\ ~panicked
    /\ IF o.hit = 0
       THEN /\ stores' = [stores EXCEPT ![o.on] = append(s, HashOf(o.key), o.key, o.v)]
            /\ EndsChanging(t, o.on) /\ UNCHANGED panicked
       ELSE /\ panicked' = Stale(o)
            /\ stores' = IF Stale(o) THEN stores ELSE [stores EXCEPT ![o.on] = set_value_at(s, o.hit, o.v)]
            /\ Ends(t)
    /\ UNCHANGED begun
set_add(t) ==
    LET o == op[t] IN
    /\ o.kind = "add:" /\ o.at = "act" /\ ~panicked
    /\ stores' = IF o.hit # 0 THEN stores
                 ELSE [stores EXCEPT ![o.on] = append(stores[o.on], HashOf(o.key), o.key, o.v)]
    /\ IF o.hit # 0 THEN Ends(t) ELSE EndsChanging(t, o.on)
    /\ UNCHANGED <<panicked, begun>>
remove(t) ==
    LET o == op[t] IN
    /\ o.kind = "remove:" /\ o.at = "act" /\ ~panicked
    /\ panicked' = Stale(o)
    /\ stores' = IF o.hit = 0 \/ Stale(o) THEN stores
                 ELSE [stores EXCEPT ![o.on] = remove_at(stores[o.on], o.hit)]
    /\ IF o.hit = 0 THEN Ends(t) ELSE EndsChanging(t, o.on)
    /\ UNCHANGED begun
\* at:, containsKey?: and contains?:; at: reads value_at the position found
map_get_any(t) ==
    /\ op[t].kind = "at:" /\ op[t].at = "act" /\ ~panicked
    /\ panicked' = Stale(op[t])
    /\ Ends(t) /\ UNCHANGED <<stores, begun>>

-----------------------------------------------------------------------------
(* Instructions and methods without guest code                               *)

\* a mutant: the fast path writes without consulting the tag
TagUnread(tag, v) == TRUE
FastTag(tag, v) == check_insert(tag, v)
\* MapSet for a key whose native == is authoritative
MapSet(t, key, v) ==
    /\ Idle(t) /\ key_native_exact(key) /\ Room("map") /\ FastTag(stores["map"].elem, v)
    /\ stores' = [stores EXCEPT !["map"] = insert_scalar(@, key, v)]
    /\ op' = IF get_scalar(stores["map"], key) = 0 THEN ChangedUnder("map") ELSE op
    /\ begun' = begun + 1
    /\ UNCHANGED panicked
\* ensure: answers a new store, every value checked, entries re-appended;
\* nobody can be inside an operation on the fresh one
ensure(t, from, tag) ==
    LET src == stores[from] IN
    /\ Idle(t) /\ \A u \in CTasks : op[u].on # "copy"
    /\ \A i \in 1..Len(src.entries) : check_insert(tag, src.entries[i].v)
    /\ stores' = [stores EXCEPT !["copy"] =
           [FoldLeft(LAMBDA s, e : append(s, e.h, e.k, e.v), new_empty, src.entries)
              EXCEPT !.elem = tag]]
    /\ begun' = begun + 1
    /\ UNCHANGED <<op, panicked>>

ColNext == \E t \in CTasks :
    \/ \E k \in CKeys, v \in {1, 3} :
         \/ Begin(t, "at:put:", "map", k, v)
         \/ v = 1 /\ \E kind \in {"at:", "remove:"} : Begin(t, kind, "map", k, v)
         \/ v = 1 /\ \E kind \in {"add:", "remove:"} : Begin(t, kind, "set", k, v)
         \/ Refused(t, "map", v)
         \/ MapSet(t, k, v)
    \/ map_hash_key(t) \/ map_find(t) \/ keys_equal(t) \/ NotFound(t)
    \/ map_put_any(t) \/ set_add(t) \/ remove(t) \/ map_get_any(t)
    \/ \E tag \in {"Int", "Str"} : ensure(t, "map", tag)
ColSpec == ColInit /\ [][ColNext]_colVars

-----------------------------------------------------------------------------
(* A store above the linear limit finds through its index exactly the        *)
(* positions its cached hashes say, and one at or below it keeps no index:   *)
(* append, remove_at and the tier crossings never leave the two apart        *)
IndexIsTrue == \A s \in DOMAIN stores :
    stores[s].index = IF indexed(stores[s]) THEN build_index(stores[s]).index ELSE NoIndex

(* Whatever path wrote it, method, instruction, literal or copy, every value *)
(* in a tagged collection is nil or of the tag's class                       *)
ElementsFitTag ==
    \A s \in DOMAIN stores : \A i \in 1..Len(stores[s].entries) :
        check_insert(stores[s].elem, stores[s].entries[i].v)

(* A devirtualised read or write finds what the method it shadows would have *)
(* found, so which of the two the compiler emitted never shows, as long as   *)
(* no instance in the map calls itself equal to a native key                 *)
FastPathAgrees ==
    \A s \in {"map", "copy"} : \A k \in CKeys : key_native_exact(k) =>
        LET found == Dispatched(stores[s], k) IN
        \/ get_scalar(stores[s], k) = found
        \/ found # 0 /\ Instance(stores[s].entries[found].k)

(* However long guest code in hash and ==: keeps it, an operation acts on    *)
(* the entry a lookup of its key finds now, inside the store, or appends     *)
(* because there is none; unless entries were added or removed since it took *)
(* its snapshot                                                              *)
ActsOnOwnEntry == \A t \in CTasks : (op[t].at = "act" /\ ~op[t].changed) =>
    op[t].hit = Dispatched(stores[op[t].on], op[t].key)
=============================================================================
