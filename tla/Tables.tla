------------------------------- MODULE Tables -------------------------------
(***************************************************************************)
(* The two side tables that hold host values for others: the handle table  *)
(* of extensions (handle_table.rs), whose handles carry a generation and a *)
(* scope, and the pin table (pin_table.rs), whose slots the hosted objects *)
(* of a worker are named by without one (vm/call.rs).                      *)
(***************************************************************************)
EXTENDS Integers, Sequences, FiniteSets, SequencesExt

CONSTANTS HSlots,   \* bound: slots of the handle table
          MaxGen,   \* u32::MAX, scaled: generations are 1..MaxGen
          MaxMints, \* bound: values ever minted, the values being 1..MaxMints
          HExts,    \* extension ids
          MaxEpoch, \* bound: calls ever begun
          PSlots,   \* bound: slots of the pin table
          PinKinds, \* owner kinds, "hosted" among them
          Objects   \* the objects that are pinned

None   == 0
Global == -1

VARIABLES hslot,  \* index -> [val, scope, gen, ext]; index >= hlen: not allocated
          hlen,   \* slots.len()
          hfree,  \* the free list, last freed first
          epoch,  \* the last epoch begun
          open,   \* the epochs whose call has not ended -> its extension
          minted, \* values minted so far
          refs,   \* what extensions remember: [h, val, age], age: frees of the slot since
          pslot,  \* index -> None or <<kind, object>>
          plen,
          pfree,
          names   \* wire ids the peer holds of hosted objects: id -> [obj, rel]

hVars   == <<hslot, hlen, hfree, epoch, open, minted, refs>>
pVars   == <<pslot, plen, pfree, names>>
tblVars == <<hVars, pVars>>

Handle(i, g) == <<g, i>>           \* (generation << 32) | index
NULL_HANDLE  == <<0, 0>>

TblInit ==
    /\ hslot = [i \in 0..(HSlots - 1) |-> [val |-> None, scope |-> None, gen |-> 1, ext |-> None]]
    /\ hlen = 0 /\ hfree = <<>> /\ epoch = 0 /\ open = <<>> /\ minted = 0 /\ refs = {}
    /\ pslot = [i \in 0..(PSlots - 1) |-> <<>>]
    /\ plen = 0 /\ pfree = <<>>
    /\ names = [i \in 1..PSlots |-> <<>>]

-----------------------------------------------------------------------------
(* The handle table.                                                        *)

BeginCall(e) ==
    /\ epoch < MaxEpoch
    /\ epoch' = epoch + 1
    /\ open' = [x \in (DOMAIN open) \cup {epoch'} |-> IF x = epoch' THEN e ELSE open[x]]
    /\ UNCHANGED <<hslot, hlen, hfree, minted, refs, pVars>>

(* alloc: the last freed slot, whose generation was bumped when it was      *)
(* freed, or a new one at generation 1.                                     *)
Mint(x) ==
    /\ x \in DOMAIN open /\ minted < MaxMints
    /\ hfree # <<>> \/ hlen < HSlots
    /\ LET i == IF hfree # <<>> THEN Head(hfree) ELSE hlen
           v == minted + 1
       IN  /\ hslot' = [hslot EXCEPT ![i] = [@ EXCEPT !.val = v, !.scope = x, !.ext = open[x]]]
           /\ hlen' = IF hfree # <<>> THEN hlen ELSE hlen + 1
           /\ hfree' = IF hfree # <<>> THEN Tail(hfree) ELSE hfree
           /\ minted' = v
           /\ refs' = refs \cup {[h |-> Handle(i, hslot[i].gen), val |-> v, age |-> 0]}
    /\ UNCHANGED <<epoch, open, pVars>>

(* Mutant: the generation wraps through zero.                               *)
BumpedThroughZero(g) == IF g = MaxGen THEN 0 ELSE g + 1
Bumped(g) == IF g = MaxGen THEN 1 ELSE g + 1

(* free_index over a set of slots, lowest first.                            *)
FreeSlots(S) ==
    /\ hslot' = [i \in DOMAIN hslot |->
                   IF i \in S THEN [val |-> None, scope |-> None, gen |-> Bumped(hslot[i].gen), ext |-> hslot[i].ext]
                   ELSE hslot[i]]
    /\ hfree' = Reverse(SetToSortSeq(S, LAMBDA a, b : a < b)) \o hfree
    /\ refs' = {[r EXCEPT !.age = IF r.h[2] \in S THEN @ + 1 ELSE @] : r \in refs}

Live(i)     == i < hlen /\ hslot[i].val # None
Names(h, i) == i = h[2] /\ hslot[i].gen = h[1] /\ Live(i)

(* end_call: the locals of this epoch go; retained handles stay.            *)
EndCall(x) ==
    /\ x \in DOMAIN open
    /\ open' = [y \in (DOMAIN open) \ {x} |-> open[y]]
    /\ FreeSlots({i \in DOMAIN hslot : Live(i) /\ hslot[i].scope = x})
    /\ UNCHANGED <<hlen, epoch, minted, pVars>>

(* Mutant: retain and release do not look at the generation.                *)
ReachedByIndex(h) == {i \in DOMAIN hslot : i = h[2] /\ Live(i)}
(* The slot a remembered handle still names, if it does.                    *)
Reached(h) == {i \in DOMAIN hslot : Names(h, i)}

Retain(r) ==
    /\ open # <<>> /\ Reached(r.h) # {}
    /\ hslot' = [i \in DOMAIN hslot |-> IF i \in Reached(r.h) THEN [hslot[i] EXCEPT !.scope = Global] ELSE hslot[i]]
    /\ UNCHANGED <<hlen, hfree, epoch, open, minted, refs, pVars>>

ReleaseHandle(r) ==
    /\ open # <<>>
    /\ FreeSlots(Reached(r.h))
    /\ UNCHANGED <<hlen, epoch, open, minted, pVars>>

(* release_for_ext: the extension died.                                     *)
ReleaseForExt(e) ==
    /\ \E i \in DOMAIN hslot : Live(i) /\ hslot[i].ext = e
    /\ FreeSlots({i \in DOMAIN hslot : Live(i) /\ hslot[i].ext = e})
    /\ UNCHANGED <<hlen, epoch, open, minted, pVars>>

-----------------------------------------------------------------------------
(* The pin table.                                                           *)

FirstOf(S) == CHOOSE i \in S : \A j \in S : i <= j

Pinned(kind, o) ==
    /\ pfree # <<>> \/ plen < PSlots
    /\ LET i == IF pfree # <<>> THEN Head(pfree) ELSE plen IN
       /\ pslot' = [pslot EXCEPT ![i] = <<kind, o>>]
       /\ names' = IF kind = "hosted" THEN [names EXCEPT ![i + 1] = <<o>>] ELSE names
    /\ pfree' = IF pfree # <<>> THEN Tail(pfree) ELSE pfree
    /\ plen' = IF pfree # <<>> THEN plen ELSE plen + 1

(* pin: every other feature.                                                *)
Pin(kind, o) ==
    /\ kind # "hosted" /\ Pinned(kind, o)
    /\ UNCHANGED hVars

(* hosted_insert: the same object answers the same id.                      *)
HostedInsert(o) ==
    LET same == {i \in DOMAIN pslot : i < plen /\ pslot[i] = <<"hosted", o>>} IN
    /\ IF same # {} THEN /\ names' = [names EXCEPT ![FirstOf(same) + 1] = <<o>>]
                         /\ UNCHANGED <<pslot, plen, pfree>>
       ELSE Pinned("hosted", o)
    /\ UNCHANGED hVars

(* Mutant: the owner kind is not compared.                                  *)
SlotAtAny(i, kind) == IF i < plen /\ pslot[i] # <<>> THEN {i} ELSE {}
(* get_at and unpin_at: the slot, when its owner is of this kind.           *)
SlotAt(i, kind) == IF i < plen /\ pslot[i] # <<>> /\ pslot[i][1] = kind THEN {i} ELSE {}

Unpinned(S) ==
    /\ pslot' = [i \in DOMAIN pslot |-> IF i \in S THEN <<>> ELSE pslot[i]]
    /\ pfree' = SetToSeq(S) \o pfree
    /\ UNCHANGED plen

(* hosted_release, by a wire id the peer names; releasing twice is a no-op. *)
HostedRelease(id) ==
    /\ Unpinned(SlotAt(id - 1, "hosted"))
    /\ names' = [names EXCEPT ![id] = <<>>]
    /\ UNCHANGED hVars

(* unpin, by a ticket its feature holds.                                    *)
Unpin(i) ==
    /\ i < plen /\ pslot[i] # <<>> /\ pslot[i][1] # "hosted"
    /\ Unpinned({i})
    /\ UNCHANGED <<names, hVars>>

TblNext ==
    \/ \E e \in HExts : BeginCall(e) \/ ReleaseForExt(e)
    \/ \E x \in 1..MaxEpoch : Mint(x) \/ EndCall(x)
    \/ \E r \in refs : Retain(r) \/ ReleaseHandle(r)
    \/ \E o \in Objects : HostedInsert(o) \/ \E k \in PinKinds : Pin(k, o)
    \/ \E i \in 0..(PSlots - 1) : HostedRelease(i + 1) \/ Unpin(i)

TblSpec == TblInit /\ [][TblNext]_tblVars

-----------------------------------------------------------------------------
(* A handle an extension remembers resolves to the value it was minted for  *)
(* or to nothing, however often its slot was freed and reused since, as     *)
(* long as the generations have not come round (handle_table.rs:21); and no *)
(* handle is ever the null handle.                                          *)
HandleNeverAliases ==
    \A r \in refs :
        /\ r.h # NULL_HANDLE
        /\ r.age < MaxGen => \A i \in Reached(r.h) : hslot[i].val = r.val

(* A local handle does not outlive its call, and a slot is free exactly     *)
(* when it is in the free list, once.                                       *)
LocalsEndWithCall ==
    /\ \A i \in DOMAIN hslot : Live(i) => hslot[i].scope \in {Global} \cup DOMAIN open
    /\ \A i \in 0..(hlen - 1) : (hslot[i].val = None) <=> (\E k \in 1..Len(hfree) : hfree[k] = i)
    /\ IsInjective(hfree)

(* What the peer calls by a hosted id it has not released is the object it  *)
(* was given the id for; no other feature's pin is reached or freed through *)
(* one (pin_table.rs:95).                                                   *)
HostedIdNamesItsObject ==
    /\ \A id \in DOMAIN names : names[id] # <<>> => pslot[id - 1] = <<"hosted", names[id][1]>>
    /\ \A i \in 0..(plen - 1) : (pslot[i] = <<>>) <=> (\E k \in 1..Len(pfree) : pfree[k] = i)
    /\ IsInjective(pfree)
=============================================================================
