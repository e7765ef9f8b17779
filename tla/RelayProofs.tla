---------------------------- MODULE RelayProofs ----------------------------
(***************************************************************************)
(* Proofs about ChannelRelay for every set of tasks, values and endpoints: *)
(* across the link no accepted value is lost or duplicated, a task parked  *)
(* on an endpoint has its answer on the way, and the two ends agree on the *)
(* references.                                                             *)
(*                                                                         *)
(* The inductive invariant RelayInv follows a correlation through the link *)
(* while both isolates live (UpOK):                                        *)
(*  - OneStage: it is in one stage - the request, a waiter of the owner,   *)
(*    or the answer - so no step can answer it twice;                      *)
(*  - PendingOK, OpsOK, EpochOK: a staged correlation has one pending      *)
(*    entry, a parked task's bears its current epoch, and one of an older  *)
(*    operation an older epoch, so its answer finds no taker and goes home *)
(*    as a Return;                                                         *)
(*  - UsedOK, CountOK, HeldOK: a suspended operation's endpoint is live,   *)
(*    the count is of endpoints and releases on the way, and a receive at  *)
(*    the owner has its task or has its retraction ahead of the last       *)
(*    release: the channel is hosted until nobody is left to serve;        *)
(*  - SpotsOK, WayOK, SenderOK: an accepted value is in one spot, and a    *)
(*    value on its way has one sender and one frame or one entry;          *)
(*  - ParksOK, FitsOK: what a task's flags and its entries say.            *)
(* When an isolate dies, OneStage survives the owner's death and PurgeOK,  *)
(* which HeldOK turns into, the remote's: the owner's agent still applies  *)
(* what was on the lane before it notices, and a channel shipped after     *)
(* that is the only thing to hold a reference.                             *)
(***************************************************************************)
EXTENDS ChannelRelay, ChannelProofs

(* k is the key of an element of q; no key but `no` is there twice.         *)
Has(q, key, k) == \E i \in 1..Len(q) : key[q[i]] = k
Once(q, key, no) == \A i, j \in 1..Len(q) : key[q[i]] = key[q[j]] /\ key[q[i]] # no => i = j

(* Nothing is in the empty sequence, and one element in a singleton.        *)
LEMMA HasNone ==
  ASSUME NEW key, NEW no
  PROVE  /\ \A k : ~Has(<<>>, key, k)
         /\ Once(<<>>, key, no)
  BY DEF Has, Once

(* A singleton has the key of its element.                                  *)
LEMMA HasSingle ==
  ASSUME NEW f, NEW key, NEW no
  PROVE  /\ \A k : Has(<<f>>, key, k) <=> key[f] = k
         /\ Once(<<f>>, key, no)
<1>1. Len(<<f>>) = 1 /\ <<f>>[1] = f /\ 1..1 = {1} OBVIOUS
<1> QED BY <1>1 DEF Has, Once

(* Sequences joined.                                                        *)
LEMMA HasConcat ==
  ASSUME NEW T, NEW q \in Seq(T), NEW r \in Seq(T), NEW key, NEW no
  PROVE  /\ \A k : Has(q \o r, key, k) <=> Has(q, key, k) \/ Has(r, key, k)
         /\ Once(q, key, no) /\ Once(r, key, no)
              /\ (\A k : k # no /\ Has(r, key, k) => ~Has(q, key, k)) => Once(q \o r, key, no)
<1> DEFINE s == q \o r
<1>1. /\ Len(q) \in Nat /\ Len(r) \in Nat /\ Len(s) = Len(q) + Len(r)
      /\ \A i \in 1..Len(q) : s[i] = q[i]
      /\ \A i \in 1..Len(r) : s[Len(q) + i] = r[i]
  OBVIOUS
<1> HIDE DEF s
<1>2. /\ \A i \in 1..Len(q) : i \in 1..Len(s)
      /\ \A i \in 1..Len(r) : Len(q) + i \in 1..Len(s)
  BY <1>1
<1>a. ASSUME NEW i \in 1..Len(s), i \notin 1..Len(q)
      PROVE  \E j \in 1..Len(r) : i = Len(q) + j /\ s[i] = r[j]
  <2>1. i - Len(q) \in 1..Len(r) /\ i = Len(q) + (i - Len(q)) BY <1>1, <1>a
  <2> QED BY <1>1, <2>1
<1>3. ASSUME NEW k PROVE Has(s, key, k) <=> Has(q, key, k) \/ Has(r, key, k)
  <2>1. ASSUME NEW i \in 1..Len(s), key[s[i]] = k PROVE Has(q, key, k) \/ Has(r, key, k)
    BY <2>1, <1>1, <1>a DEF Has
  <2>2. ASSUME NEW i \in 1..Len(q), key[q[i]] = k PROVE Has(s, key, k)
    BY <2>2, <1>1, <1>2 DEF Has
  <2>3. ASSUME NEW i \in 1..Len(r), key[r[i]] = k PROVE Has(s, key, k)
    BY <2>3, <1>1, <1>2 DEF Has
  <2> QED BY <2>1, <2>2, <2>3 DEF Has
<1>4. ASSUME Once(q, key, no), Once(r, key, no),
             \A k : k # no /\ Has(r, key, k) => ~Has(q, key, k)
      PROVE  Once(s, key, no)
  <2> SUFFICES ASSUME NEW i \in 1..Len(s), NEW j \in 1..Len(s),
                      key[s[i]] = key[s[j]], key[s[i]] # no
               PROVE  i = j
    BY DEF Once
  <2>1. CASE i \in 1..Len(q) /\ j \in 1..Len(q) BY <1>1, <1>4, <2>1 DEF Once
  <2>2. CASE i \notin 1..Len(q) /\ j \notin 1..Len(q)
    <3>1. PICK m \in 1..Len(r) : i = Len(q) + m /\ s[i] = r[m] BY <1>a, <2>2
    <3>2. PICK n \in 1..Len(r) : j = Len(q) + n /\ s[j] = r[n] BY <1>a, <2>2
    <3>3. m = n BY <3>1, <3>2, <1>4 DEF Once
    <3> QED BY <3>1, <3>2, <3>3
  <2>3. CASE i \in 1..Len(q) /\ j \notin 1..Len(q)
    <3>1. PICK n \in 1..Len(r) : j = Len(q) + n /\ s[j] = r[n] BY <1>a, <2>3
    <3>2. Has(r, key, key[s[i]]) /\ Has(q, key, key[s[i]]) BY <3>1, <1>1, <2>3 DEF Has
    <3> QED BY <3>2, <1>4
  <2>4. CASE i \notin 1..Len(q) /\ j \in 1..Len(q)
    <3>1. PICK m \in 1..Len(r) : i = Len(q) + m /\ s[i] = r[m] BY <1>a, <2>4
    <3>2. Has(r, key, key[s[i]]) /\ Has(q, key, key[s[i]]) BY <3>1, <1>1, <2>4 DEF Has
    <3> QED BY <3>2, <1>4
  <2> QED BY <2>1, <2>2, <2>3, <2>4
<1> QED BY <1>3, <1>4 DEF s

(* One more element.                                                        *)
LEMMA HasAppend ==
  ASSUME NEW T, NEW q \in Seq(T), NEW f \in T, NEW key, NEW no
  PROVE  /\ \A k : Has(Append(q, f), key, k) <=> Has(q, key, k) \/ key[f] = k
         /\ Once(q, key, no) /\ (key[f] = no \/ ~Has(q, key, key[f]))
              => Once(Append(q, f), key, no)
<1>1. Append(q, f) = q \o <<f>> /\ <<f>> \in Seq(T) OBVIOUS
<1>2. /\ \A k : Has(<<f>>, key, k) <=> key[f] = k
      /\ Once(<<f>>, key, no)
  BY HasSingle
<1> DEFINE r == <<f>>
<1>3. /\ \A k : Has(q \o r, key, k) <=> Has(q, key, k) \/ Has(r, key, k)
      /\ Once(q, key, no) /\ Once(r, key, no)
           /\ (\A k : k # no /\ Has(r, key, k) => ~Has(q, key, k)) => Once(q \o r, key, no)
  BY <1>1, HasConcat
<1> QED BY <1>1, <1>2, <1>3

(* The head is taken.                                                       *)
LEMMA HasTail ==
  ASSUME NEW T, NEW q \in Seq(T), q # <<>>, NEW key, NEW no
  PROVE  /\ \A k : Has(q, key, k) <=> key[Head(q)] = k \/ Has(Tail(q), key, k)
         /\ Once(q, key, no) => /\ Once(Tail(q), key, no)
                                /\ \A k : k # no /\ key[Head(q)] = k => ~Has(Tail(q), key, k)
<1> DEFINE r == Tail(q)
<1>1. /\ Len(q) \in Nat /\ Len(q) > 0 /\ Len(r) = Len(q) - 1 /\ Head(q) = q[1]
      /\ \A i \in 1..Len(r) : r[i] = q[i + 1]
  OBVIOUS
<1> HIDE DEF r
<1>2. /\ 1 \in 1..Len(q) /\ \A i \in 1..Len(r) : i + 1 \in 1..Len(q) /\ i + 1 # 1
      /\ \A i \in 1..Len(q) : i = 1 \/ (i - 1 \in 1..Len(r) /\ r[i - 1] = q[i])
  BY <1>1
<1>3. ASSUME NEW k PROVE Has(q, key, k) <=> key[q[1]] = k \/ Has(r, key, k)
  BY <1>1, <1>2 DEF Has
<1>4. ASSUME Once(q, key, no) PROVE Once(r, key, no)
  <2> SUFFICES ASSUME NEW i \in 1..Len(r), NEW j \in 1..Len(r),
                      key[r[i]] = key[r[j]], key[r[i]] # no
               PROVE  i = j
    BY DEF Once
  <2>1. i + 1 = j + 1 BY <1>1, <1>2, <1>4 DEF Once
  <2> QED BY <2>1
<1>5. ASSUME Once(q, key, no), NEW k, k # no, key[q[1]] = k PROVE ~Has(r, key, k)
  BY <1>1, <1>2, <1>5 DEF Has, Once
<1> QED BY <1>1, <1>3, <1>4, <1>5 DEF r

(* Elements taken away anywhere: r holds elements of q, in their order.     *)
Within(r, q) ==
  \E f \in [1..Len(r) -> 1..Len(q)] : /\ \A i \in 1..Len(r) : r[i] = q[f[i]]
                                      /\ \A i, j \in 1..Len(r) : f[i] = f[j] => i = j

(* What is within a sequence has no key but the sequence's, no oftener.     *)
LEMMA HasWithin ==
  ASSUME NEW q, NEW r, Within(r, q), NEW key, NEW no
  PROVE  /\ \A k : Has(r, key, k) => Has(q, key, k)
         /\ Once(q, key, no) => Once(r, key, no)
<1>1. PICK f \in [1..Len(r) -> 1..Len(q)] :
             /\ \A i \in 1..Len(r) : r[i] = q[f[i]]
             /\ \A i, j \in 1..Len(r) : f[i] = f[j] => i = j
  BY DEF Within
<1>2. \A k : Has(r, key, k) => Has(q, key, k) BY <1>1 DEF Has
<1>3. Once(q, key, no) => Once(r, key, no)
  <2> SUFFICES ASSUME Once(q, key, no), NEW i \in 1..Len(r), NEW j \in 1..Len(r),
                      key[r[i]] = key[r[j]], key[r[i]] # no
               PROVE  i = j
    BY DEF Once
  <2>1. f[i] \in 1..Len(q) /\ f[j] \in 1..Len(q) BY <1>1
  <2>2. f[i] = f[j] BY <1>1, <2>1 DEF Once
  <2> QED BY <1>1, <2>2
<1> QED BY <1>2, <1>3

-----------------------------------------------------------------------------
(* Retain: the positions that stay can be listed in order.                  *)

(* Induction over the naturals, stated for a set.                           *)
LEMMA SetInduction ==
  ASSUME NEW S \in SUBSET Nat, 0 \in S, \A n \in S : n + 1 \in S
  PROVE  \A n \in Nat : n \in S
<1> SUFFICES ASSUME \E n \in Nat : n \notin S PROVE FALSE OBVIOUS
<1> DEFINE D == Nat \ S
<1>1. IsWellFoundedOn(Less, Nat) BY NatLessThanWellFounded DEF OpToRel, Less
<1>2. D \subseteq Nat /\ D # {} OBVIOUS
<1>3. PICK x \in D : \A y \in D : ~(<<y, x>> \in Less) BY <1>1, <1>2, WFMin
<1>4. x # 0 /\ x - 1 \in Nat /\ <<x - 1, x>> \in Less BY DEF Less
<1>5. x - 1 \in S BY <1>3, <1>4
<1> QED BY <1>5, <1>4

(* f enumerates S in increasing order.                                      *)
Lists(f, S) ==
  /\ f \in [1..Cardinality(S) -> S]
  /\ \A i, j \in 1..Cardinality(S) : i < j => f[i] < f[j]
  /\ \A x \in S : \E i \in 1..Cardinality(S) : f[i] = x

(* Every set of positions up to n has such an enumeration.                  *)
Listed(n) == \A S \in SUBSET (1..n) : \E f : Lists(f, S)

(* One more position can be enumerated.                                     *)
LEMMA ListedStep ==
  ASSUME NEW n \in Nat, Listed(n) PROVE Listed(n + 1)
<1> SUFFICES ASSUME NEW S \in SUBSET (1..(n + 1)) PROVE \E f : Lists(f, S) BY DEF Listed
<1>1. CASE n + 1 \notin S
  <2>1. S \in SUBSET (1..n) BY <1>1
  <2> QED BY <2>1 DEF Listed
<1>2. CASE n + 1 \in S
  <2> DEFINE R == S \ {n + 1}
  <2>1. R \in SUBSET (1..n) OBVIOUS
  <2>2. PICK f : Lists(f, R) BY <2>1 DEF Listed
  <2>3. IsFiniteSet(R)
    <3>1. IsFiniteSet(1..n) BY FS_Interval
    <3> QED BY <3>1, <2>1, FS_Subset
  <2>4. Cardinality(R) \in Nat BY <2>3, FS_CardinalityType
  <2>5. S = R \cup {n + 1} /\ n + 1 \notin R BY <1>2
  <2> HIDE DEF R
  <2>6. Cardinality(S) = Cardinality(R) + 1
    BY <2>3, <2>5, FS_AddElement
  <2>7. PICK k \in Nat : k = Cardinality(R) BY <2>4
  <2> DEFINE g == [i \in 1..(k + 1) |-> IF i = k + 1 THEN n + 1 ELSE f[i]]
  <2>8. /\ f \in [1..k -> R]
        /\ \A i, j \in 1..k : i < j => f[i] < f[j]
        /\ \A x \in R : \E i \in 1..k : f[i] = x
    BY <2>2, <2>7 DEF Lists
  <2>9a. \A i \in 1..k : f[i] \in R BY <2>8
  <2>9. /\ \A i \in 1..k : i \in 1..(k + 1) /\ g[i] = f[i] /\ f[i] \in 1..n
        /\ g[k + 1] = n + 1 /\ k + 1 \in 1..(k + 1)
        /\ \A i \in 1..(k + 1) : i \in 1..k \/ i = k + 1
    <3>1. \A i \in 1..k : i \in 1..(k + 1) /\ i # k + 1 OBVIOUS
    <3>2. \A i \in 1..k : f[i] \in 1..n BY <2>9a, <2>1
    <3>3. \A i \in 1..(k + 1) : i \in 1..k \/ i = k + 1 OBVIOUS
    <3>4. k + 1 \in 1..(k + 1) OBVIOUS
    <3> QED BY <3>1, <3>2, <3>3, <3>4
  <2>10. g \in [1..(k + 1) -> S] BY <2>5, <2>8
  <2> HIDE DEF g
  <2>11. ASSUME NEW i \in 1..(k + 1), NEW j \in 1..(k + 1), i < j PROVE g[i] < g[j]
    <3>1. CASE j = k + 1
      <4>1. i \in 1..k BY <2>11, <3>1
      <4>2. g[i] \in 1..n BY <4>1, <2>9
      <4> QED BY <3>1, <4>2, <2>9
    <3>2. CASE j \in 1..k
      <4>1. i \in 1..k BY <2>11, <3>2
      <4> QED BY <3>2, <4>1, <2>8, <2>9, <2>11
    <3> QED BY <3>1, <3>2, <2>9
  <2>12. ASSUME NEW x \in S PROVE \E i \in 1..(k + 1) : g[i] = x
    <3>1. CASE x = n + 1 BY <2>9, <3>1
    <3>2. CASE x \in R BY <3>2, <2>8, <2>9
    <3> QED BY <3>1, <3>2, <2>5
  <2>13. Lists(g, S) BY <2>6, <2>7, <2>10, <2>11, <2>12 DEF Lists
  <2> QED BY <2>13
<1> QED BY <1>1, <1>2

(* Every finite set of positions has its enumeration: Retain is defined.    *)
LEMMA AllListed == \A n \in Nat : Listed(n)
<1> DEFINE G == {n \in Nat : Listed(n)}
<1>1. 0 \in G
  <2> SUFFICES ASSUME NEW S \in SUBSET (1..0) PROVE \E f : Lists(f, S) BY DEF Listed
  <2>1. S = {} OBVIOUS
  <2>2. Cardinality(S) = 0 BY <2>1, FS_EmptySet
  <2>3. Lists([i \in 1..0 |-> 0], S) BY <2>1, <2>2 DEF Lists
  <2> QED BY <2>3
<1>2. \A n \in G : n + 1 \in G BY ListedStep
<1>3. G \in SUBSET Nat OBVIOUS
<1> HIDE DEF G
<1>4. \A n \in Nat : n \in G BY <1>1, <1>2, <1>3, SetInduction
<1> QED BY <1>4 DEF G

(* What stays is the elements at the positions S, each once, in order.      *)
LEMMA RetainFacts ==
  ASSUME NEW T, NEW q \in Seq(T), NEW S \in SUBSET (1..Len(q))
  PROVE  /\ Retain(q, S) \in Seq(T)
         /\ Within(Retain(q, S), q)
         /\ \A i \in 1..Len(Retain(q, S)) : \E x \in S : Retain(q, S)[i] = q[x]
         /\ \A x \in S : \E i \in 1..Len(Retain(q, S)) : Retain(q, S)[i] = q[x]
<1>1. Len(q) \in Nat /\ \A x \in S : q[x] \in T OBVIOUS
<1>2. \E f : Lists(f, S) BY <1>1, AllListed DEF Listed
<1>3. IsFiniteSet(S)
  <2>1. IsFiniteSet(1..Len(q)) BY <1>1, FS_Interval
  <2> QED BY <2>1, FS_Subset
<1>4. PICK n \in Nat : n = Cardinality(S) BY <1>3, FS_CardinalityType
<1> DEFINE P(f) == /\ \A i, j \in 1..n : i < j => f[i] < f[j]
                   /\ \A x \in S : \E i \in 1..n : f[i] = x
           at == CHOOSE f \in [1..n -> S] : P(f)
<1>5. \E f \in [1..n -> S] : P(f) BY <1>2, <1>4 DEF Lists
<1>6. at \in [1..n -> S] /\ P(at) BY <1>5
<1>7. Retain(q, S) = [i \in 1..n |-> q[at[i]]] BY <1>4 DEF Retain
<1> HIDE DEF at
<1> DEFINE r == [i \in 1..n |-> q[at[i]]]
<1>8. \A i \in 1..n : at[i] \in S BY <1>6
<1>9. r \in Seq(T) /\ Len(r) = n /\ \A i \in 1..n : r[i] = q[at[i]]
  <2>1. r \in [1..n -> T] BY <1>1, <1>8
  <2>2. r \in Seq(T) /\ Len(r) = n BY <2>1, LenProperties, SeqDef
  <2> QED BY <2>2
<1> HIDE DEF r
<1>10. \A i, j \in 1..n : at[i] = at[j] => i = j
  <2> SUFFICES ASSUME NEW i \in 1..n, NEW j \in 1..n, at[i] = at[j], i # j PROVE FALSE OBVIOUS
  <2>0. at[i] \in S /\ at[j] \in S BY <1>8
  <2>a. \A x \in S : x \in Nat OBVIOUS
  <2>1. at[i] \in Nat /\ at[j] \in Nat BY <2>0, <2>a
  <2>2. i < j \/ j < i OBVIOUS
  <2> QED BY <2>1, <2>2, <1>6
<1>11. at \in [1..Len(r) -> 1..Len(q)] BY <1>6, <1>9
<1>12. Within(r, q) BY <1>9, <1>10, <1>11 DEF Within
<1>13. \A i \in 1..Len(r) : \E x \in S : r[i] = q[x] BY <1>8, <1>9
<1>14. \A x \in S : \E i \in 1..Len(r) : r[i] = q[x] BY <1>6, <1>9
<1>15. Retain(q, S) = r BY <1>7 DEF r
<1> QED BY <1>9, <1>12, <1>13, <1>14, <1>15

(* Retain keeps the keys at the kept positions, no oftener.                 *)
LEMMA RetainHas ==
  ASSUME NEW T, NEW q \in Seq(T), NEW S \in SUBSET (1..Len(q)), NEW key, NEW no
  PROVE  /\ \A k : Has(Retain(q, S), key, k) <=> \E x \in S : key[q[x]] = k
         /\ Once(q, key, no) => Once(Retain(q, S), key, no)
<1> DEFINE r == Retain(q, S)
<1>1. /\ Within(r, q)
      /\ \A i \in 1..Len(r) : \E x \in S : r[i] = q[x]
      /\ \A x \in S : \E i \in 1..Len(r) : r[i] = q[x]
  BY RetainFacts
<1> HIDE DEF r
<1>2. ASSUME NEW k PROVE Has(r, key, k) <=> \E x \in S : key[q[x]] = k
  <2>1. ASSUME NEW i \in 1..Len(r), key[r[i]] = k PROVE \E x \in S : key[q[x]] = k
    <3>1. PICK x \in S : r[i] = q[x] BY <1>1
    <3> QED BY <2>1, <3>1
  <2>2. ASSUME NEW x \in S, key[q[x]] = k PROVE \E i \in 1..Len(r) : key[r[i]] = k
    <3>1. PICK i \in 1..Len(r) : r[i] = q[x] BY <1>1
    <3> QED BY <2>2, <3>1
  <2> QED BY <2>1, <2>2 DEF Has
<1>3. Once(q, key, no) => Once(r, key, no) BY <1>1, HasWithin
<1> QED BY <1>2, <1>3 DEF r

-----------------------------------------------------------------------------
(* Counting.                                                                *)

(* What occurs once is counted once.                                        *)
LEMMA CountOnce ==
  ASSUME NEW q, NEW key, NEW no, NEW k, Once(q, key, no), k # no
  PROVE  Cardinality({i \in 1..Len(q) : key[q[i]] = k}) = IF Has(q, key, k) THEN 1 ELSE 0
<1> DEFINE S == {i \in 1..Len(q) : key[q[i]] = k}
<1>1. CASE Has(q, key, k)
  <2>1. PICK i \in 1..Len(q) : key[q[i]] = k BY <1>1 DEF Has
  <2>2. S = {i} BY <2>1 DEF Once
  <2> QED BY <1>1, <2>2, FS_Singleton
<1>2. CASE ~Has(q, key, k)
  <2>1. S = {} BY <1>2 DEF Has
  <2> QED BY <1>2, <2>1, FS_EmptySet
<1> QED BY <1>1, <1>2

(* The releases among the first n frames of a lane.                         *)
RelIn(q, n) == {i \in 1..n : q[i].type = "Release"}
RelCount(q, n) == Cardinality(RelIn(q, n))
RelBefore(q, n) == RelCount(q, n - 1)

(* The releases of a lane are counted.                                      *)
LEMMA RelFinite ==
  ASSUME NEW q, NEW n \in Nat
  PROVE  IsFiniteSet(RelIn(q, n)) /\ RelCount(q, n) \in Nat
<1>1. IsFiniteSet(1..n) BY FS_Interval
<1>2. RelIn(q, n) \in SUBSET (1..n) BY DEF RelIn
<1> QED BY <1>1, <1>2, FS_Subset, FS_CardinalityType DEF RelCount

(* Shifted positions are as many.                                           *)
LEMMA ShiftCard ==
  ASSUME NEW S \in SUBSET Nat, IsFiniteSet(S), NEW d \in Nat
  PROVE  LET R == {i + d : i \in S} IN IsFiniteSet(R) /\ Cardinality(R) = Cardinality(S)
<1> DEFINE R == {i + d : i \in S}
           f == [i \in S |-> i + d]
<1>1. f \in [S -> R] OBVIOUS
<1>2. \A i, j \in S : i \in Nat /\ j \in Nat /\ (i + d = j + d => i = j) OBVIOUS
<1>3. \A i, j \in S : f[i] = f[j] => i = j BY <1>2
<1>4. \A y \in R : \E i \in S : f[i] = y OBVIOUS
<1> HIDE DEF f
<1>5. f \in Bijection(S, R) BY <1>1, <1>3, <1>4 DEF Bijection, Injection, Surjection, IsInjective
<1>6. ExistsBijection(S, R) BY <1>5 DEF ExistsBijection
<1> HIDE DEF R
<1>7. IsFiniteSet(R) /\ Cardinality(R) = Cardinality(S) BY <1>6, FS_Bijection
<1> QED BY <1>7 DEF R

(* Releases of joined lanes add up.                                         *)
LEMMA RelJoin ==
  ASSUME NEW T, NEW q \in Seq(T), NEW r \in Seq(T)
  PROVE  /\ \A n \in 0..Len(q) : RelCount(q \o r, n) = RelCount(q, n)
         /\ \A n \in 0..Len(r) : RelCount(q \o r, Len(q) + n)
                                   = RelCount(q, Len(q)) + RelCount(r, n)
<1> DEFINE s == q \o r
<1>1. /\ Len(q) \in Nat /\ Len(r) \in Nat
      /\ \A i \in 1..Len(q) : s[i] = q[i]
      /\ \A i \in 1..Len(r) : s[Len(q) + i] = r[i]
  OBVIOUS
<1> HIDE DEF s
<1>2. ASSUME NEW n \in 0..Len(q) PROVE RelCount(s, n) = RelCount(q, n)
  <2>1. \A i \in 1..n : s[i] = q[i] BY <1>1
  <2>2. RelIn(s, n) = RelIn(q, n) BY <2>1 DEF RelIn
  <2> QED BY <2>2 DEF RelCount
<1>3. ASSUME NEW n \in 0..Len(r)
      PROVE  RelCount(s, Len(q) + n) = RelCount(q, Len(q)) + RelCount(r, n)
  <2> DEFINE A == RelIn(q, Len(q))
             B == RelIn(r, n)
             C == {i + Len(q) : i \in B}
  <2>1. IsFiniteSet(A) /\ IsFiniteSet(B) /\ Cardinality(A) \in Nat /\ Cardinality(B) \in Nat
    BY <1>1, RelFinite DEF RelCount
  <2>2. B \in SUBSET Nat BY DEF RelIn
  <2>3. IsFiniteSet(C) /\ Cardinality(C) = Cardinality(B) BY <1>1, <2>1, <2>2, ShiftCard
  <2>4. RelIn(s, Len(q) + n) = A \cup C
    <3>1. ASSUME NEW i \in 1..(Len(q) + n), s[i].type = "Release" PROVE i \in A \cup C
      <4>1. CASE i \in 1..Len(q) BY <3>1, <4>1, <1>1 DEF RelIn
      <4>2. CASE i \notin 1..Len(q)
        <5>1. i - Len(q) \in 1..n /\ i = Len(q) + (i - Len(q)) /\ i = (i - Len(q)) + Len(q)
          BY <4>2, <1>1
        <5>2. i - Len(q) \in 1..Len(r) BY <5>1, <1>1
        <5>3. s[i] = r[i - Len(q)] BY <5>1, <5>2, <1>1
        <5>4. i - Len(q) \in B BY <5>1, <5>3, <3>1 DEF RelIn
        <5> QED BY <5>1, <5>4
      <4> QED BY <4>1, <4>2
    <3>2. ASSUME NEW i \in A PROVE i \in 1..(Len(q) + n) /\ s[i].type = "Release"
      BY <1>1 DEF RelIn
    <3>3. ASSUME NEW i \in C PROVE i \in 1..(Len(q) + n) /\ s[i].type = "Release"
      <4>1. PICK j \in B : i = j + Len(q) OBVIOUS
      <4>2. j \in 1..n /\ r[j].type = "Release" BY DEF RelIn
      <4>3. j \in 1..Len(r) /\ i = Len(q) + j BY <4>1, <4>2, <1>1
      <4> QED BY <4>2, <4>3, <1>1
    <3> QED BY <3>1, <3>2, <3>3 DEF RelIn
  <2>5. A \cap C = {}
    <3>1. \A i \in A : i <= Len(q) /\ i \in Nat BY <1>1 DEF RelIn
    <3>2. \A j \in B : j > 0 /\ j \in Nat BY DEF RelIn
    <3>3. \A i \in C : i > Len(q) BY <1>1, <3>2
    <3> HIDE DEF A, B, C
    <3>4. \A i \in Nat : i <= Len(q) => ~(i > Len(q)) BY <1>1
    <3> QED BY <3>1, <3>3, <3>4
  <2> HIDE DEF A, B, C
  <2>6. Cardinality(A \cup C) = Cardinality(A) + Cardinality(C)
    <3>1. Cardinality(A \cup C) = Cardinality(A) + Cardinality(C) - Cardinality(A \cap C)
      BY <2>1, <2>3, FS_Union
    <3>2. Cardinality(A \cap C) = 0 BY <2>5, FS_EmptySet
    <3> QED BY <3>1, <3>2, <2>1, <2>3
  <2> QED BY <2>3, <2>4, <2>6 DEF A, B, RelCount
<1> QED BY <1>2, <1>3 DEF s

(* Taking the first frame takes one release, if it is one.                  *)
LEMMA RelTail ==
  ASSUME NEW T, NEW q \in Seq(T), q # <<>>
  PROVE  /\ Head(q).type # "Release" =>
              \A n \in 1..Len(q) : RelCount(q, n) = RelCount(Tail(q), n - 1)
         /\ Head(q).type = "Release" =>
              \A n \in 1..Len(q) : RelCount(q, n) = RelCount(Tail(q), n - 1) + 1
<1> DEFINE h == <<Head(q)>>
           r == Tail(q)
<1>1. h \in Seq(T) /\ r \in Seq(T) /\ q = h \o r /\ Len(h) = 1 /\ Len(q) = Len(r) + 1
        /\ Len(r) \in Nat /\ h[1] = Head(q)
  OBVIOUS
<1> HIDE DEF h, r
<1>2. ASSUME NEW n \in 1..Len(q) PROVE RelCount(q, n) = RelCount(h, 1) + RelCount(r, n - 1)
  <2>1. n - 1 \in 0..Len(r) /\ 1 + (n - 1) = n BY <1>1
  <2>2. RelCount(h \o r, Len(h) + (n - 1)) = RelCount(h, Len(h)) + RelCount(r, n - 1)
    BY <1>1, <2>1, RelJoin
  <2> QED BY <1>1, <2>1, <2>2
<1>3. CASE Head(q).type = "Release"
  <2>1. RelIn(h, 1) = {1} BY <1>1, <1>3 DEF RelIn
  <2>2. RelCount(h, 1) = 1 BY <2>1, FS_Singleton DEF RelCount
  <2>3. ASSUME NEW n \in 1..Len(q) PROVE RelCount(q, n) = RelCount(r, n - 1) + 1
    <3>1. n - 1 \in Nat OBVIOUS
    <3>2. RelCount(r, n - 1) \in Nat BY <3>1, RelFinite
    <3> QED BY <1>2, <2>2, <3>2
  <2> QED BY <2>3, <1>3 DEF r
<1>4. CASE Head(q).type # "Release"
  <2>1. RelIn(h, 1) = {} BY <1>1, <1>4 DEF RelIn
  <2>2. RelCount(h, 1) = 0 BY <2>1, FS_EmptySet DEF RelCount
  <2>3. ASSUME NEW n \in 1..Len(q) PROVE RelCount(q, n) = RelCount(r, n - 1)
    <3>1. n - 1 \in Nat OBVIOUS
    <3>2. RelCount(r, n - 1) \in Nat BY <3>1, RelFinite
    <3> QED BY <1>2, <2>2, <3>2
  <2> QED BY <2>3, <1>4 DEF r
<1> QED BY <1>3, <1>4

-----------------------------------------------------------------------------
(* The inductive invariant.                                                 *)

(* The frames of the two lanes, the entries of the queues, the pending      *)
(* entries and the wakes, each with what its kind carries.                  *)
AFrames == {"Ack", "Value", "ClosedFor", "RecvError"}
Frames == [type : OFrames \cup AFrames, corr : Nat, val : Values \cup {NoVal}]
ToFrames == {f \in Frames : /\ f.type \in OFrames
                            /\ f.type \in {"Send", "Return"} => f.val \in Values
                            /\ f.type \in {"Send", "Recv", "Cancel"} => f.corr > 0}
OutFrames == {f \in Frames : /\ f.type \in AFrames /\ f.corr > 0
                             /\ f.type = "Value" => f.val \in Values}
SendEntries == {e \in Entries : /\ e.val \in Values
                                /\ e.remote => e.id > 0
                                /\ ~e.remote => e.task \in LocalTasks}
RecvEntries == {e \in Entries : /\ e.remote => e.id > 0
                                /\ ~e.remote => e.task \in LocalTasks}
Pendings == [corr : Nat, task : RemoteTasks, epoch : Nat]
RWakes == {w \in Wakes : w.kind = "Recv" => w.val \in Values}
Corrs == Nat \ {0}

(* Types: the channel and the lanes, the tasks, the values, the link.       *)
ChanT ==
  /\ cap \in Caps /\ closed \in BOOLEAN /\ refs \in Nat /\ buffer \in Seq(Values)
  /\ recv_waiters \in Seq(RecvEntries) /\ send_waiters \in Seq(SendEntries)
  /\ toOwner \in Seq(ToFrames) /\ outbound \in Seq(OutFrames)
TaskT ==
  /\ parked_on_channel \in [Tasks -> BOOLEAN] /\ cancel_requested \in [Tasks -> BOOLEAN]
  /\ park_epoch \in [Tasks -> Nat] /\ wake \in [Tasks -> RWakes]
  /\ op \in [Tasks -> {"none", "send", "recv"}] /\ opval \in [Tasks -> Values \cup {NoVal}]
ValT ==
  /\ fate \in [Values -> {"new", "parked", "accepted", "refused", "cancelled"}]
  /\ received \in [Values -> Nat] /\ lost \in SUBSET Values
States == {"none", "shipping", "live", "reaped", "released", "undelivered"}
LinkT ==
  /\ next_corr \in Corrs /\ pending \in SUBSET Pendings
  /\ endpoint \in [Endpoints -> States]
  /\ opend \in [RemoteTasks -> Endpoints \cup {NoEnd}] /\ opcorr \in [RemoteTasks -> Nat]
  /\ dead \in {"none", "owner", "remote"} /\ noticed \in BOOLEAN
  /\ \A t \in RemoteTasks : op[t] # "none" => opcorr[t] > 0
RTypes == ChanT /\ TaskT /\ ValT /\ LinkT

(* What a frame or an entry is looked up by: the correlation of a request,  *)
(* of a receive, of an answer, of a retraction, of a remote waiter; the     *)
(* value of a send frame, of a remote sender, of an answer, of a return.    *)
ReqKey == [f \in Frames |-> IF f.type \in {"Send", "Recv"} THEN f.corr ELSE 0]
AskKey == [f \in Frames |-> IF f.type = "Recv" THEN f.corr ELSE 0]
AnsKey == [f \in Frames |-> f.corr]
RetractKey == [f \in Frames |-> IF f.type = "Cancel" THEN f.corr ELSE 0]
WaitKey == [e \in Entries |-> IF e.remote THEN e.id ELSE 0]
SendKey == [f \in Frames |-> IF f.type = "Send" THEN f.val ELSE NoVal]
FarKey == [e \in Entries |-> IF e.remote THEN e.val ELSE NoVal]
ValKey == [f \in Frames |-> IF f.type = "Value" THEN f.val ELSE NoVal]
RetKey == [f \in Frames |-> IF f.type = "Return" THEN f.val ELSE NoVal]
Self == [v \in Values |-> v]

(* Tasks: parked, cancelled or woken; the entry a sender is queued by fits  *)
(* the operation it is suspended in.                                        *)
Parks(t) ==
  /\ parked_on_channel[t] => op[t] # "none" /\ ~cancel_requested[t] /\ wake[t].kind = "none"
  /\ op[t] = "none" => ~cancel_requested[t] /\ wake[t].kind = "none"
  /\ op[t] # "none" /\ ~parked_on_channel[t] => cancel_requested[t] \/ wake[t].kind # "none"
  /\ op[t] = "send" => opval[t] \in Values
  /\ op[t] # "send" => opval[t] = NoVal
LocalFits(e) ==
  ~e.remote => /\ e.id <= park_epoch[e.task]
               /\ e.id = park_epoch[e.task] => op[e.task] = "send" /\ opval[e.task] = e.val
FitsOK == \A i \in 1..Len(send_waiters) : LocalFits(send_waiters[i])
ParksOK == \A t \in Tasks : Parks(t)

(* Correlations: an operation is in one stage.                              *)
InStage(to, rq, sq, o, c) ==
  Has(to, ReqKey, c) \/ Has(rq, WaitKey, c) \/ Has(sq, WaitKey, c) \/ Has(o, AnsKey, c)
Alone(to, rq, sq, o) ==
  /\ Once(to, ReqKey, 0) /\ Once(rq, WaitKey, 0) /\ Once(sq, WaitKey, 0) /\ Once(o, AnsKey, 0)
  /\ \A c \in Corrs :
       /\ Has(to, ReqKey, c) => ~Has(rq, WaitKey, c) /\ ~Has(sq, WaitKey, c) /\ ~Has(o, AnsKey, c)
       /\ Has(rq, WaitKey, c) => ~Has(sq, WaitKey, c) /\ ~Has(o, AnsKey, c)
       /\ Has(sq, WaitKey, c) => ~Has(o, AnsKey, c)
Wants(to, rq, c) == Has(rq, WaitKey, c) \/ Has(to, AskKey, c)
Staged(c) == InStage(toOwner, recv_waiters, send_waiters, outbound, c)
OneStage == Alone(toOwner, recv_waiters, send_waiters, outbound)
Wanting(c) == Wants(toOwner, recv_waiters, c)

(* A staged correlation has its one pending entry.                          *)
PendingOK ==
  /\ \A p, r \in pending : p.corr = r.corr => p = r
  /\ \A p \in pending : p.corr < next_corr
  /\ \A c \in Corrs : Staged(c) => \E p \in pending : p.corr = c

(* A parked task's operation is staged and pending; a woken one's is no     *)
(* longer staged; a suspended one's is not retracted.                       *)
OpOK(t) ==
  /\ op[t] = "none" => opcorr[t] = 0 /\ opend[t] = NoEnd
  /\ op[t] # "none" => opcorr[t] < next_corr /\ ~Has(toOwner, RetractKey, opcorr[t])
  /\ parked_on_channel[t] =>
       /\ Staged(opcorr[t])
       /\ [corr |-> opcorr[t], task |-> t, epoch |-> park_epoch[t]] \in pending
  /\ wake[t].kind # "none" => ~Staged(opcorr[t])
OpsOK ==
  /\ \A t \in RemoteTasks : OpOK(t)
  /\ \A t, u \in RemoteTasks : opcorr[t] = opcorr[u] /\ opcorr[t] # 0 => t = u
  /\ \A c \in Corrs : Has(toOwner, RetractKey, c) => c < next_corr

(* References: the owner counts the endpoints and the releases on the way,  *)
(* and a receive at the owner has its task, or its retraction comes before  *)
(* the last release.                                                        *)
Retracted(q, n, c) ==
  \E j \in 1..Len(q) : /\ q[j].type = "Cancel" /\ q[j].corr = c /\ RelBefore(q, j) < n
                       /\ \A i \in 1..Len(q) : AskKey[q[i]] = c => i < j
Alive == {n \in Endpoints : endpoint[n] \in {"shipping", "live", "reaped"}}
UsedOK == \A t \in RemoteTasks :
  op[t] # "none" => opend[t] \in Endpoints /\ endpoint[opend[t]] = "live"
CountOK == refs = Cardinality(Alive) + RelCount(toOwner, Len(toOwner))
HeldOK == \A c \in Corrs : Wanting(c) =>
            (\E t \in RemoteTasks : opcorr[t] = c) \/ Retracted(toOwner, refs, c)
Undelivered == \E n \in Endpoints : endpoint[n] = "undelivered"
PurgeOK ==
  /\ noticed => toOwner = <<>> /\ (refs > 0 => Undelivered)
                  /\ \A i \in 1..Len(recv_waiters) : ~recv_waiters[i].remote
  /\ ~noticed => \A c \in Corrs : Wanting(c) =>
                   RelCount(toOwner, Len(toOwner)) < refs \/ Retracted(toOwner, refs, c)

(* Values: an accepted one is in one spot, until it is lost.                *)
InW(w, v) == \E t \in Tasks : w[t].kind = "Recv" /\ w[t].val = v
WOnce(w) == \A t, u \in Tasks :
  w[t].kind = "Recv" /\ w[u].kind = "Recv" /\ w[t].val = w[u].val => t = u
At(b, w, o, r, rec, v) ==
  Has(b, Self, v) \/ InW(w, v) \/ Has(o, ValKey, v) \/ Has(r, RetKey, v) \/ rec[v] = 1
Spots(b, w, o, r, rec, acc) ==
  /\ Once(b, Self, NoVal) /\ WOnce(w) /\ Once(o, ValKey, NoVal) /\ Once(r, RetKey, NoVal)
  /\ \A v \in Values :
       /\ Has(b, Self, v) => ~InW(w, v) /\ ~Has(o, ValKey, v) /\ ~Has(r, RetKey, v) /\ rec[v] = 0
       /\ InW(w, v) => ~Has(o, ValKey, v) /\ ~Has(r, RetKey, v) /\ rec[v] = 0
       /\ Has(o, ValKey, v) => ~Has(r, RetKey, v) /\ rec[v] = 0
       /\ Has(r, RetKey, v) => rec[v] = 0
       /\ rec[v] \in {0, 1}
       /\ v \in acc <=> At(b, w, o, r, rec, v)
Kept(f, l) == {v \in Values : f[v] = "accepted" /\ v \notin l}
SpotsOK ==
  /\ Spots(buffer, wake, outbound, toOwner, received, Kept(fate, lost))
  /\ \A v \in lost : fate[v] = "accepted"

(* Sends: a value on its way has one sender, one frame or one entry.        *)
Offered(v) == Has(toOwner, SendKey, v)
Held(v) == Has(send_waiters, FarKey, v)
OfferFits(t) ==
  /\ \A i \in 1..Len(toOwner) : SendKey[toOwner[i]] = opval[t] => toOwner[i].corr = opcorr[t]
  /\ \A i \in 1..Len(send_waiters) :
       FarKey[send_waiters[i]] = opval[t] => send_waiters[i].id = opcorr[t]
WayOK ==
  /\ Once(toOwner, SendKey, NoVal) /\ Once(send_waiters, FarKey, NoVal)
  /\ \A v \in Values : /\ Offered(v) => ~Held(v) /\ fate[v] = "parked"
                       /\ Held(v) => fate[v] = "parked"
SenderOK ==
  /\ \A t, u \in Tasks : op[t] = "send" /\ op[u] = "send" /\ opval[t] = opval[u] => t = u
  /\ \A t \in Tasks : op[t] = "send" => fate[opval[t]] # "new"
  /\ \A t \in LocalTasks : op[t] = "send" => /\ ~Offered(opval[t]) /\ ~Held(opval[t])
                                             /\ parked_on_channel[t] => fate[opval[t]] = "parked"
  /\ \A t \in RemoteTasks : op[t] = "send" => OfferFits(t)

(* All of it while both isolates live; of it, what outlives either.         *)
UpOK == /\ ParksOK /\ FitsOK /\ PendingOK /\ OpsOK /\ UsedOK /\ CountOK /\ HeldOK
        /\ SpotsOK /\ WayOK /\ SenderOK
RInv ==
  /\ RTypes
  /\ dead # "remote" => OneStage
  /\ dead = "none" => UpOK
  /\ dead = "owner" => toOwner = <<>>
  /\ dead = "remote" => PurgeOK

(* Popping the first live waiter: no remote entry is dropped before it.     *)
LEMMA PopKeys ==
  ASSUME NEW T \in SUBSET Entries, NEW q \in Seq(T), NEW key, NEW no,
         \A x \in T : ~x.remote => key[x] = no
  PROVE  /\ AfterPop(q) \in Seq(T)
         /\ ~AnyLive(q) => \A k : k # no => ~Has(q, key, k)
         /\ AnyLive(q) =>
              /\ PopLive(q) \in T /\ EntryLive(PopLive(q))
              /\ \A k : k # no =>
                   (Has(q, key, k) <=> key[PopLive(q)] = k \/ Has(AfterPop(q), key, k))
         /\ Once(q, key, no) =>
              /\ Once(AfterPop(q), key, no)
              /\ AnyLive(q) /\ key[PopLive(q)] # no => ~Has(AfterPop(q), key, key[PopLive(q)])
<1>0. q \in Seq(Entries) /\ Len(q) \in Nat /\ \A i \in 1..Len(q) : q[i] \in T
  OBVIOUS
<1>1. CASE ~AnyLive(q)
  <2>1. AfterPop(q) = <<>> BY <1>1 DEF AfterPop
  <2>2. \A i \in 1..Len(q) : ~q[i].remote BY <1>1 DEF AnyLive, LiveIn, EntryLive
  <2>3. \A i \in 1..Len(q) : key[q[i]] = no BY <1>0, <2>2
  <2> QED BY <1>1, <2>1, <2>3, HasNone DEF Has
<1>2. CASE AnyLive(q)
  <2>1. PICK m \in 1..Len(q) :
           /\ PopLive(q) = q[m] /\ EntryLive(q[m])
           /\ \A j \in 1..Len(q) : j < m => ~EntryLive(q[j])
           /\ AfterPop(q) \in Seq(Entries)
           /\ Len(AfterPop(q)) = Len(q) - m
           /\ \A i \in 1..(Len(q) - m) : AfterPop(q)[i] = q[i + m]
    BY <1>0, <1>2, PopFacts
  <2> DEFINE r == AfterPop(q)
             e == PopLive(q)
  <2>2. r \in Seq(Entries) /\ Len(r) = Len(q) - m /\ \A i \in 1..Len(r) : r[i] = q[i + m]
    BY <2>1
  <2>3. e = q[m] /\ EntryLive(e) /\ e \in T BY <1>0, <2>1
  <2> HIDE DEF r, e
  <2>4. /\ \A i \in 1..Len(r) : i + m \in 1..Len(q) /\ i + m # m
        /\ \A i \in 1..Len(q) : i > m => i - m \in 1..Len(r) /\ i = (i - m) + m
    BY <1>0, <2>2
  <2>5. \A i \in 1..Len(r) : r[i] \in T BY <1>0, <2>2, <2>4
  <2>6. r \in Seq(T)
    <3>1. r \in [1..Len(r) -> T] /\ Len(r) \in Nat BY <2>2, <2>5
    <3> QED BY <3>1, SeqDef
  <2>7. \A j \in 1..Len(q) : j < m => key[q[j]] = no
    <3>1. \A j \in 1..Len(q) : j < m => ~q[j].remote BY <2>1 DEF EntryLive
    <3> QED BY <1>0, <3>1
  <2>8. ASSUME NEW k, k # no PROVE Has(q, key, k) <=> key[e] = k \/ Has(r, key, k)
    <3>1. ASSUME NEW i \in 1..Len(q), key[q[i]] = k PROVE key[e] = k \/ Has(r, key, k)
      <4>1. CASE i < m BY <4>1, <3>1, <2>7, <2>8
      <4>2. CASE i = m BY <4>2, <3>1, <2>3
      <4>3. CASE i > m
        <5>1. r[i - m] = q[i] /\ i - m \in 1..Len(r) BY <2>2, <2>4, <4>3
        <5> QED BY <5>1, <3>1 DEF Has
      <4> QED BY <4>1, <4>2, <4>3
    <3>2. ASSUME NEW i \in 1..Len(r), key[r[i]] = k PROVE Has(q, key, k)
      BY <3>2, <2>2, <2>4 DEF Has
    <3> QED BY <3>1, <3>2, <2>3 DEF Has
  <2>9. ASSUME Once(q, key, no) PROVE Once(r, key, no) /\ (key[e] # no => ~Has(r, key, key[e]))
    <3>1. ASSUME NEW i \in 1..Len(r), NEW j \in 1..Len(r), key[r[i]] = key[r[j]], key[r[i]] # no
          PROVE  i = j
      <4>1. i + m \in 1..Len(q) /\ j + m \in 1..Len(q) BY <2>4
      <4>2. key[q[i + m]] = key[q[j + m]] /\ key[q[i + m]] # no BY <2>2, <3>1
      <4>3. i + m = j + m BY <4>1, <4>2, <2>9 DEF Once
      <4> QED BY <4>3
    <3>2. ASSUME key[e] # no, NEW i \in 1..Len(r), key[r[i]] = key[e] PROVE FALSE
      <4>1. i + m = m BY <2>2, <2>3, <2>4, <2>9, <3>2 DEF Once
      <4> QED BY <4>1
    <3> QED BY <3>1, <3>2 DEF Once, Has
  <2> QED BY <1>2, <2>3, <2>6, <2>8, <2>9 DEF r, e
<1> QED BY <1>1, <1>2

(* Only remote entries have keys.                                           *)
LEMMA EntryKeys ==
  /\ RecvEntries \in SUBSET Entries /\ SendEntries \in SUBSET Entries
  /\ \A x \in Entries : /\ x.remote => WaitKey[x] = x.id /\ FarKey[x] = x.val
                        /\ ~x.remote => WaitKey[x] = 0 /\ FarKey[x] = NoVal
  /\ \A x \in RecvEntries : x.remote => WaitKey[x] \in Corrs
  /\ \A x \in SendEntries : x.remote => WaitKey[x] \in Corrs /\ FarKey[x] \in Values
  BY DEF RecvEntries, SendEntries, Entries, WaitKey, FarKey, Corrs

(* The waiter queues, popped.                                               *)
LEMMA PopRecv ==
  ASSUME NEW q \in Seq(RecvEntries)
  PROVE  /\ AfterPop(q) \in Seq(RecvEntries)
         /\ ~AnyLive(q) => AfterPop(q) = <<>> /\ \A k : k # 0 => ~Has(q, WaitKey, k)
         /\ AnyLive(q) =>
              /\ PopLive(q) \in RecvEntries /\ EntryLive(PopLive(q))
              /\ \A k : k # 0 =>
                   (Has(q, WaitKey, k) <=> (PopLive(q).remote /\ PopLive(q).id = k)
                                             \/ Has(AfterPop(q), WaitKey, k))
         /\ Once(q, WaitKey, 0) =>
              /\ Once(AfterPop(q), WaitKey, 0)
              /\ AnyLive(q) /\ PopLive(q).remote => ~Has(AfterPop(q), WaitKey, PopLive(q).id)
<1>0. \A x \in RecvEntries : ~x.remote => WaitKey[x] = 0 BY EntryKeys
<1>1. /\ AfterPop(q) \in Seq(RecvEntries)
      /\ ~AnyLive(q) => \A k : k # 0 => ~Has(q, WaitKey, k)
      /\ AnyLive(q) =>
           /\ PopLive(q) \in RecvEntries /\ EntryLive(PopLive(q))
           /\ \A k : k # 0 =>
                (Has(q, WaitKey, k) <=> WaitKey[PopLive(q)] = k \/ Has(AfterPop(q), WaitKey, k))
      /\ Once(q, WaitKey, 0) =>
           /\ Once(AfterPop(q), WaitKey, 0)
           /\ AnyLive(q) /\ WaitKey[PopLive(q)] # 0 => ~Has(AfterPop(q), WaitKey, WaitKey[PopLive(q)])
  BY <1>0, EntryKeys, PopKeys
<1>2. ~AnyLive(q) => AfterPop(q) = <<>> BY DEF AfterPop
<1>3. \A x \in RecvEntries : /\ x.remote => WaitKey[x] = x.id /\ WaitKey[x] # 0
                             /\ ~x.remote => WaitKey[x] = 0
  BY EntryKeys DEF Corrs
<1> QED BY <1>1, <1>2, <1>3

(* Popping a live sender takes its correlation from the queue, no other.    *)
LEMMA PopSend ==
  ASSUME NEW q \in Seq(SendEntries)
  PROVE  /\ AfterPop(q) \in Seq(SendEntries)
         /\ ~AnyLive(q) => AfterPop(q) = <<>> /\ \A k : k # 0 => ~Has(q, WaitKey, k)
         /\ AnyLive(q) =>
              /\ PopLive(q) \in SendEntries /\ EntryLive(PopLive(q))
              /\ \A k : k # 0 =>
                   (Has(q, WaitKey, k) <=> (PopLive(q).remote /\ PopLive(q).id = k)
                                             \/ Has(AfterPop(q), WaitKey, k))
         /\ Once(q, WaitKey, 0) =>
              /\ Once(AfterPop(q), WaitKey, 0)
              /\ AnyLive(q) /\ PopLive(q).remote => ~Has(AfterPop(q), WaitKey, PopLive(q).id)
<1>0. \A x \in SendEntries : ~x.remote => WaitKey[x] = 0 BY EntryKeys
<1>1. /\ AfterPop(q) \in Seq(SendEntries)
      /\ ~AnyLive(q) => \A k : k # 0 => ~Has(q, WaitKey, k)
      /\ AnyLive(q) =>
           /\ PopLive(q) \in SendEntries /\ EntryLive(PopLive(q))
           /\ \A k : k # 0 =>
                (Has(q, WaitKey, k) <=> WaitKey[PopLive(q)] = k \/ Has(AfterPop(q), WaitKey, k))
      /\ Once(q, WaitKey, 0) =>
           /\ Once(AfterPop(q), WaitKey, 0)
           /\ AnyLive(q) /\ WaitKey[PopLive(q)] # 0 => ~Has(AfterPop(q), WaitKey, WaitKey[PopLive(q)])
  BY <1>0, EntryKeys, PopKeys
<1>2. ~AnyLive(q) => AfterPop(q) = <<>> BY DEF AfterPop
<1>3. \A x \in SendEntries : /\ x.remote => WaitKey[x] = x.id /\ WaitKey[x] # 0
                             /\ ~x.remote => WaitKey[x] = 0
  BY EntryKeys DEF Corrs
<1> QED BY <1>1, <1>2, <1>3

(* Popping a live sender takes its value from the remote ones, no other.    *)
LEMMA PopFar ==
  ASSUME NEW q \in Seq(SendEntries)
  PROVE  /\ ~AnyLive(q) => \A v \in Values : ~Has(q, FarKey, v)
         /\ AnyLive(q) => \A v \in Values :
              (Has(q, FarKey, v) <=> (PopLive(q).remote /\ PopLive(q).val = v)
                                       \/ Has(AfterPop(q), FarKey, v))
         /\ Once(q, FarKey, NoVal) =>
              /\ Once(AfterPop(q), FarKey, NoVal)
              /\ AnyLive(q) /\ PopLive(q).remote => ~Has(AfterPop(q), FarKey, PopLive(q).val)
<1>0. \A x \in SendEntries : ~x.remote => FarKey[x] = NoVal BY EntryKeys
<1>1. /\ AfterPop(q) \in Seq(SendEntries)
      /\ ~AnyLive(q) => \A k : k # NoVal => ~Has(q, FarKey, k)
      /\ AnyLive(q) =>
           /\ PopLive(q) \in SendEntries /\ EntryLive(PopLive(q))
           /\ \A k : k # NoVal =>
                (Has(q, FarKey, k) <=> FarKey[PopLive(q)] = k \/ Has(AfterPop(q), FarKey, k))
      /\ Once(q, FarKey, NoVal) =>
           /\ Once(AfterPop(q), FarKey, NoVal)
           /\ AnyLive(q) /\ FarKey[PopLive(q)] # NoVal => ~Has(AfterPop(q), FarKey, FarKey[PopLive(q)])
  BY <1>0, EntryKeys, PopKeys
<1>3. \A x \in SendEntries : /\ x.remote => FarKey[x] = x.val /\ FarKey[x] \in Values
                             /\ ~x.remote => FarKey[x] = NoVal
  BY EntryKeys
<1>4. NoVal \notin Values BY ChannelAssumption
<1> QED BY <1>1, <1>3, <1>4

(* What an owner-side step does with the correlations: each stays in one    *)
(* stage, none comes or goes, and no receive is wanted that was not before. *)
Flow(to, rq, sq, o, to2, rq2, sq2, o2) ==
  /\ Alone(to, rq, sq, o) => Alone(to2, rq2, sq2, o2)
  /\ \A c \in Corrs : /\ InStage(to2, rq2, sq2, o2, c) <=> InStage(to, rq, sq, o, c)
                      /\ Wants(to2, rq2, c) => Wants(to, rq, c)

(* Flows compose.                                                           *)
LEMMA FlowTrans ==
  ASSUME NEW to, NEW rq, NEW sq, NEW o, NEW to2, NEW rq2, NEW sq2, NEW o2,
         NEW to3, NEW rq3, NEW sq3, NEW o3,
         Flow(to, rq, sq, o, to2, rq2, sq2, o2), Flow(to2, rq2, sq2, o2, to3, rq3, sq3, o3)
  PROVE  Flow(to, rq, sq, o, to3, rq3, sq3, o3)
  BY DEF Flow

(* No change is a flow.                                                     *)
LEMMA FlowSame ==
  ASSUME NEW to, NEW rq, NEW sq, NEW o
  PROVE  Flow(to, rq, sq, o, to, rq, sq, o)
  BY DEF Flow

(* Keys of frames.                                                          *)
LEMMA FrameKeys ==
  /\ ToFrames \in SUBSET Frames /\ OutFrames \in SUBSET Frames
  /\ \A f \in OutFrames : /\ AnsKey[f] = f.corr /\ f.corr \in Corrs
                          /\ f.type = "Value" => ValKey[f] = f.val /\ f.val \in Values
                          /\ f.type # "Value" => ValKey[f] = NoVal
  /\ \A f \in ToFrames :
       /\ f.corr \in Nat
       /\ f.type \in {"Send", "Recv"} => ReqKey[f] = f.corr /\ f.corr \in Corrs
       /\ f.type \notin {"Send", "Recv"} => ReqKey[f] = 0
       /\ f.type = "Recv" => AskKey[f] = f.corr
       /\ f.type # "Recv" => AskKey[f] = 0
       /\ f.type = "Cancel" => RetractKey[f] = f.corr /\ f.corr \in Corrs
       /\ f.type # "Cancel" => RetractKey[f] = 0
       /\ f.type = "Send" => SendKey[f] = f.val /\ f.val \in Values
       /\ f.type # "Send" => SendKey[f] = NoVal
       /\ f.type = "Return" => RetKey[f] = f.val /\ f.val \in Values
       /\ f.type # "Return" => RetKey[f] = NoVal
  BY DEF ToFrames, OutFrames, Frames, AnsKey, ReqKey, AskKey, RetractKey, SendKey, ValKey,
         RetKey, Corrs

(* One more answer, to a correlation in no stage.                           *)
LEMMA AnswerKeys ==
  ASSUME NEW o \in Seq(OutFrames), NEW f \in OutFrames
  PROVE  /\ Append(o, f) \in Seq(OutFrames)
         /\ \A c : Has(Append(o, f), AnsKey, c) <=> Has(o, AnsKey, c) \/ f.corr = c
         /\ Once(o, AnsKey, 0) /\ ~Has(o, AnsKey, f.corr) => Once(Append(o, f), AnsKey, 0)
<1>1. /\ \A k : Has(Append(o, f), AnsKey, k) <=> Has(o, AnsKey, k) \/ AnsKey[f] = k
      /\ Once(o, AnsKey, 0) /\ (AnsKey[f] = 0 \/ ~Has(o, AnsKey, AnsKey[f]))
           => Once(Append(o, f), AnsKey, 0)
  BY HasAppend
<1>2. AnsKey[f] = f.corr BY FrameKeys
<1> QED BY <1>1, <1>2

(* A waiter is popped, and answered when it is remote.                      *)
LEMMA FlowRecv ==
  ASSUME NEW to, NEW sq, NEW rq \in Seq(RecvEntries), NEW o \in Seq(OutFrames),
         NEW f \in OutFrames
  PROVE  /\ ~AnyLive(rq) => Flow(to, rq, sq, o, to, <<>>, sq, o)
         /\ AnyLive(rq) /\ ~PopLive(rq).remote => Flow(to, rq, sq, o, to, AfterPop(rq), sq, o)
         /\ AnyLive(rq) /\ PopLive(rq).remote /\ f.corr = PopLive(rq).id =>
              Flow(to, rq, sq, o, to, AfterPop(rq), sq, Append(o, f))
<1>1. \A c : ~Has(<<>>, WaitKey, c) BY HasNone
<1>2. Once(<<>>, WaitKey, 0) BY HasNone
<1>3. \A c \in Corrs : c # 0 BY DEF Corrs
<1>4. f.corr \in Corrs BY FrameKeys
<1>5. CASE ~AnyLive(rq) BY <1>1, <1>2, <1>3, <1>5, PopRecv DEF Flow, Alone, InStage, Wants
<1>6. CASE AnyLive(rq) /\ ~PopLive(rq).remote
  BY <1>3, <1>6, PopRecv DEF Flow, Alone, InStage, Wants
<1>7. CASE AnyLive(rq) /\ PopLive(rq).remote /\ f.corr = PopLive(rq).id
  BY <1>3, <1>4, <1>7, PopRecv, AnswerKeys DEF Flow, Alone, InStage, Wants
<1> QED BY <1>5, <1>6, <1>7

(* Popping a sender and acknowledging a remote one is a flow.               *)
LEMMA FlowSend ==
  ASSUME NEW to, NEW rq, NEW sq \in Seq(SendEntries), NEW o \in Seq(OutFrames),
         NEW f \in OutFrames
  PROVE  /\ ~AnyLive(sq) => Flow(to, rq, sq, o, to, rq, <<>>, o)
         /\ AnyLive(sq) /\ ~PopLive(sq).remote => Flow(to, rq, sq, o, to, rq, AfterPop(sq), o)
         /\ AnyLive(sq) /\ PopLive(sq).remote /\ f.corr = PopLive(sq).id =>
              Flow(to, rq, sq, o, to, rq, AfterPop(sq), Append(o, f))
<1>1. \A c : ~Has(<<>>, WaitKey, c) BY HasNone
<1>2. Once(<<>>, WaitKey, 0) BY HasNone
<1>3. \A c \in Corrs : c # 0 BY DEF Corrs
<1>4. f.corr \in Corrs BY FrameKeys
<1>5. CASE ~AnyLive(sq) BY <1>1, <1>2, <1>3, <1>5, PopSend DEF Flow, Alone, InStage, Wants
<1>6. CASE AnyLive(sq) /\ ~PopLive(sq).remote
  BY <1>3, <1>6, PopSend DEF Flow, Alone, InStage, Wants
<1>7. CASE AnyLive(sq) /\ PopLive(sq).remote /\ f.corr = PopLive(sq).id
  BY <1>3, <1>4, <1>7, PopSend, AnswerKeys DEF Flow, Alone, InStage, Wants
<1> QED BY <1>5, <1>6, <1>7

(* A local task queues.                                                     *)
LEMMA FlowLocal ==
  ASSUME NEW to, NEW o, NEW rq \in Seq(RecvEntries), NEW sq \in Seq(SendEntries)
  PROVE  /\ \A e \in RecvEntries : ~e.remote => Flow(to, rq, sq, o, to, Append(rq, e), sq, o)
         /\ \A e \in SendEntries : ~e.remote => Flow(to, rq, sq, o, to, rq, Append(sq, e), o)
<1>3. \A c \in Corrs : c # 0 BY DEF Corrs
<1>1. ASSUME NEW e \in RecvEntries, ~e.remote PROVE Flow(to, rq, sq, o, to, Append(rq, e), sq, o)
  <2>1. WaitKey[e] = 0 BY <1>1, EntryKeys
  <2>2. /\ \A k : Has(Append(rq, e), WaitKey, k) <=> Has(rq, WaitKey, k) \/ WaitKey[e] = k
        /\ Once(rq, WaitKey, 0) /\ (WaitKey[e] = 0 \/ ~Has(rq, WaitKey, WaitKey[e]))
             => Once(Append(rq, e), WaitKey, 0)
    BY HasAppend
  <2> QED BY <1>3, <2>1, <2>2 DEF Flow, Alone, InStage, Wants
<1>2. ASSUME NEW e \in SendEntries, ~e.remote PROVE Flow(to, rq, sq, o, to, rq, Append(sq, e), o)
  <2>1. WaitKey[e] = 0 BY <1>2, EntryKeys
  <2>2. /\ \A k : Has(Append(sq, e), WaitKey, k) <=> Has(sq, WaitKey, k) \/ WaitKey[e] = k
        /\ Once(sq, WaitKey, 0) /\ (WaitKey[e] = 0 \/ ~Has(sq, WaitKey, WaitKey[e]))
             => Once(Append(sq, e), WaitKey, 0)
    BY HasAppend
  <2> QED BY <1>3, <2>1, <2>2 DEF Flow, Alone, InStage, Wants
<1> QED BY <1>1, <1>2

(* The owner's agent takes a frame: not a request, a request it answers, or *)
(* one that queues.                                                         *)
LEMMA FlowTaken ==
  ASSUME NEW to \in Seq(ToFrames), to # <<>>, NEW rq \in Seq(RecvEntries),
         NEW sq \in Seq(SendEntries), NEW o \in Seq(OutFrames)
  PROVE  /\ Head(to).type \notin {"Send", "Recv"} => Flow(to, rq, sq, o, Tail(to), rq, sq, o)
         /\ Head(to).type \in {"Send", "Recv"} =>
              /\ \A f \in OutFrames : f.corr = Head(to).corr =>
                   Flow(to, rq, sq, o, Tail(to), rq, sq, Append(o, f))
              /\ \A e \in SendEntries : e.remote /\ e.id = Head(to).corr =>
                   Flow(to, rq, sq, o, Tail(to), rq, Append(sq, e), o)
         /\ Head(to).type = "Recv" =>
              \A e \in RecvEntries : e.remote /\ e.id = Head(to).corr =>
                Flow(to, rq, sq, o, Tail(to), Append(rq, e), sq, o)
<1>0. \A c \in Corrs : c # 0 BY DEF Corrs
<1>1. /\ \A k : Has(to, ReqKey, k) <=> ReqKey[Head(to)] = k \/ Has(Tail(to), ReqKey, k)
      /\ Once(to, ReqKey, 0) => /\ Once(Tail(to), ReqKey, 0)
                                /\ \A k : k # 0 /\ ReqKey[Head(to)] = k => ~Has(Tail(to), ReqKey, k)
  BY HasTail
<1>2. \A k : Has(to, AskKey, k) <=> AskKey[Head(to)] = k \/ Has(Tail(to), AskKey, k)
  BY HasTail
<1>3. Head(to) \in ToFrames OBVIOUS
<1>4. CASE Head(to).type \notin {"Send", "Recv"}
  <2>1. ReqKey[Head(to)] = 0 /\ AskKey[Head(to)] = 0 BY <1>3, <1>4, FrameKeys
  <2> QED BY <1>0, <1>1, <1>2, <1>4, <2>1 DEF Flow, Alone, InStage, Wants
<1>5. CASE Head(to).type \in {"Send", "Recv"}
  <2> DEFINE c == Head(to).corr
  <2>1. ReqKey[Head(to)] = c /\ c \in Corrs /\ AskKey[Head(to)] \in {0, c}
          /\ (Head(to).type = "Recv" => AskKey[Head(to)] = c)
    BY <1>3, <1>5, FrameKeys
  <2> HIDE DEF c
  <2>2. ASSUME NEW f \in OutFrames, f.corr = c
        PROVE  Flow(to, rq, sq, o, Tail(to), rq, sq, Append(o, f))
    BY <1>0, <1>1, <1>2, <2>1, <2>2, AnswerKeys DEF Flow, Alone, InStage, Wants
  <2>3. ASSUME NEW e \in SendEntries, e.remote, e.id = c
        PROVE  Flow(to, rq, sq, o, Tail(to), rq, Append(sq, e), o)
    <3>1. WaitKey[e] = c BY <2>3, EntryKeys
    <3>2. /\ \A k : Has(Append(sq, e), WaitKey, k) <=> Has(sq, WaitKey, k) \/ WaitKey[e] = k
          /\ Once(sq, WaitKey, 0) /\ (WaitKey[e] = 0 \/ ~Has(sq, WaitKey, WaitKey[e]))
               => Once(Append(sq, e), WaitKey, 0)
      BY HasAppend
    <3> QED BY <1>0, <1>1, <1>2, <2>1, <3>1, <3>2 DEF Flow, Alone, InStage, Wants
  <2>4. ASSUME NEW e \in RecvEntries, e.remote, e.id = c, Head(to).type = "Recv"
        PROVE  Flow(to, rq, sq, o, Tail(to), Append(rq, e), sq, o)
    <3>1. WaitKey[e] = c BY <2>4, EntryKeys
    <3>2. /\ \A k : Has(Append(rq, e), WaitKey, k) <=> Has(rq, WaitKey, k) \/ WaitKey[e] = k
          /\ Once(rq, WaitKey, 0) /\ (WaitKey[e] = 0 \/ ~Has(rq, WaitKey, WaitKey[e]))
               => Once(Append(rq, e), WaitKey, 0)
      BY HasAppend
    <3> QED BY <1>0, <1>1, <1>2, <2>1, <2>4, <3>1, <3>2 DEF Flow, Alone, InStage, Wants
  <2> QED BY <1>5, <2>2, <2>3, <2>4 DEF c
<1> QED BY <1>4, <1>5

(* Close answers every remote waiter.                                       *)
ClosedFors(all) ==
  LET far == Retain(all, {i \in 1..Len(all) : all[i].remote})
  IN [i \in 1..Len(far) |-> Frame("ClosedFor", far[i].id, NoVal)]

(* A close answers every remote waiter, once.                               *)
LEMMA CloseAnswers ==
  ASSUME NEW rq \in Seq(RecvEntries), NEW sq \in Seq(SendEntries)
  PROVE  /\ ClosedFors(rq \o sq) \in Seq(OutFrames)
         /\ \A i \in 1..Len(ClosedFors(rq \o sq)) : ClosedFors(rq \o sq)[i].type = "ClosedFor"
         /\ \A c \in Corrs : Has(ClosedFors(rq \o sq), AnsKey, c)
                               <=> Has(rq, WaitKey, c) \/ Has(sq, WaitKey, c)
         /\ Once(rq, WaitKey, 0) /\ Once(sq, WaitKey, 0)
              /\ (\A c \in Corrs : Has(rq, WaitKey, c) => ~Has(sq, WaitKey, c))
              => Once(ClosedFors(rq \o sq), AnsKey, 0)
<1> DEFINE T == {e \in Entries : e.remote => e.id \in Corrs}
           all == rq \o sq
           S == {i \in 1..Len(all) : all[i].remote}
           far == Retain(all, S)
           ans == ClosedFors(all)
<1>0. \A k : k # 0 /\ k \in Nat => k \in Corrs BY DEF Corrs
<1>1. rq \in Seq(T) /\ sq \in Seq(T)
  <2>1. RecvEntries \subseteq T /\ SendEntries \subseteq T
    BY DEF RecvEntries, SendEntries, Entries, Corrs
  <2> QED BY <2>1
<1>2. all \in Seq(T) /\ S \in SUBSET (1..Len(all)) BY <1>1
<1>3. \A e \in T : /\ e \in Entries /\ WaitKey[e] \in Nat
                   /\ e.remote => WaitKey[e] = e.id /\ e.id \in Corrs
                   /\ ~e.remote => WaitKey[e] = 0
  BY EntryKeys DEF Entries, WaitKey, Corrs
<1>4. \A i \in 1..Len(all) : i \in S <=> all[i].remote OBVIOUS
<1>5. \A i \in 1..Len(all) : all[i] \in T BY <1>2
<1>6. \A i \in S : i \in 1..Len(all) OBVIOUS
<1>a. /\ far \in Seq(T)
      /\ \A i \in 1..Len(far) : \E x \in S : far[i] = all[x]
  BY <1>2, RetainFacts
<1>b. /\ \A k : Has(far, WaitKey, k) <=> \E x \in S : WaitKey[all[x]] = k
      /\ Once(all, WaitKey, 0) => Once(far, WaitKey, 0)
  BY <1>2, RetainHas
<1>c. ans = [i \in 1..Len(far) |-> Frame("ClosedFor", far[i].id, NoVal)] BY DEF ClosedFors
<1>d. /\ \A k : Has(all, WaitKey, k) <=> Has(rq, WaitKey, k) \/ Has(sq, WaitKey, k)
      /\ Once(rq, WaitKey, 0) /\ Once(sq, WaitKey, 0)
           /\ (\A k : k # 0 /\ Has(sq, WaitKey, k) => ~Has(rq, WaitKey, k)) => Once(all, WaitKey, 0)
  BY <1>1, HasConcat
<1> HIDE DEF T, all, S, far, ans
<1>7. \A i \in 1..Len(far) : far[i] \in T /\ far[i].remote BY <1>a, <1>4, <1>5, <1>6
<1>8. \A i \in 1..Len(far) : far[i].id \in Corrs /\ WaitKey[far[i]] = far[i].id BY <1>3, <1>7
<1>9. Len(far) \in Nat BY <1>a
<1>10. /\ ans \in Seq(OutFrames) /\ Len(ans) = Len(far)
       /\ \A i \in 1..Len(far) : ans[i].type = "ClosedFor" /\ AnsKey[ans[i]] = WaitKey[far[i]]
  <2>1. \A c \in Corrs : /\ Frame("ClosedFor", c, NoVal) \in OutFrames
                         /\ Frame("ClosedFor", c, NoVal).type = "ClosedFor"
                         /\ AnsKey[Frame("ClosedFor", c, NoVal)] = c
    BY DEF Frame, OutFrames, Frames, AFrames, Corrs, AnsKey
  <2>2. ans \in [1..Len(far) -> OutFrames] BY <2>1, <1>8, <1>c
  <2>3. ans \in Seq(OutFrames) /\ Len(ans) = Len(far) BY <2>2, <1>9, LenProperties, SeqDef
  <2> QED BY <2>1, <2>3, <1>8, <1>c
<1>11. \A c : Has(ans, AnsKey, c) <=> Has(far, WaitKey, c) BY <1>10 DEF Has
<1>12. Once(far, WaitKey, 0) => Once(ans, AnsKey, 0) BY <1>10 DEF Once
<1>13. ASSUME NEW c \in Corrs
       PROVE  (\E x \in S : WaitKey[all[x]] = c) <=> Has(all, WaitKey, c)
  <2>1. c # 0 BY DEF Corrs
  <2>2. \A i \in 1..Len(all) : WaitKey[all[i]] = c => i \in S BY <2>1, <1>3, <1>4, <1>5
  <2> QED BY <2>2, <1>6 DEF Has
<1>14. \A k : Has(sq, WaitKey, k) => k \in Nat
  <2> SUFFICES ASSUME NEW i \in 1..Len(sq) PROVE WaitKey[sq[i]] \in Nat BY DEF Has
  <2>1. sq[i] \in T BY <1>1
  <2> QED BY <2>1, <1>3
<1>15. (\A c \in Corrs : Has(rq, WaitKey, c) => ~Has(sq, WaitKey, c))
         => (\A k : k # 0 /\ Has(sq, WaitKey, k) => ~Has(rq, WaitKey, k))
  BY <1>0, <1>14
<1>16. \A c \in Corrs : Has(ans, AnsKey, c) <=> Has(rq, WaitKey, c) \/ Has(sq, WaitKey, c)
  BY <1>11, <1>13, <1>b, <1>d
<1> QED BY <1>10, <1>12, <1>15, <1>16, <1>b, <1>d DEF all, ans

(* Emptying both queues and answering everybody is a flow.                  *)
LEMMA FlowClose ==
  ASSUME NEW to, NEW rq \in Seq(RecvEntries), NEW sq \in Seq(SendEntries), NEW o \in Seq(OutFrames)
  PROVE  Flow(to, rq, sq, o, to, <<>>, <<>>, o \o ClosedFors(rq \o sq))
<1> DEFINE ans == ClosedFors(rq \o sq)
<1>1. /\ ans \in Seq(OutFrames)
      /\ \A c \in Corrs : Has(ans, AnsKey, c) <=> Has(rq, WaitKey, c) \/ Has(sq, WaitKey, c)
      /\ Once(rq, WaitKey, 0) /\ Once(sq, WaitKey, 0)
           /\ (\A c \in Corrs : Has(rq, WaitKey, c) => ~Has(sq, WaitKey, c))
           => Once(ans, AnsKey, 0)
  BY CloseAnswers
<1> HIDE DEF ans
<1>2. /\ \A k : Has(o \o ans, AnsKey, k) <=> Has(o, AnsKey, k) \/ Has(ans, AnsKey, k)
      /\ Once(o, AnsKey, 0) /\ Once(ans, AnsKey, 0)
           /\ (\A k : k # 0 /\ Has(ans, AnsKey, k) => ~Has(o, AnsKey, k)) => Once(o \o ans, AnsKey, 0)
  BY <1>1, HasConcat
<1>3. \A k : Has(ans, AnsKey, k) => k \in Corrs
  <2> SUFFICES ASSUME NEW i \in 1..Len(ans) PROVE AnsKey[ans[i]] \in Corrs BY DEF Has
  <2>1. ans[i] \in OutFrames BY <1>1
  <2> QED BY <2>1, FrameKeys
<1>4. \A c : ~Has(<<>>, WaitKey, c) BY HasNone
<1>5. Once(<<>>, WaitKey, 0) BY HasNone
<1>6. Alone(to, rq, sq, o) => Alone(to, <<>>, <<>>, o \o ans)
  BY <1>1, <1>2, <1>3, <1>4, <1>5 DEF Alone
<1>7. \A c \in Corrs : InStage(to, <<>>, <<>>, o \o ans, c) <=> InStage(to, rq, sq, o, c)
  BY <1>1, <1>2, <1>4 DEF InStage
<1> QED BY <1>4, <1>6, <1>7 DEF Flow, Wants, ans

(* A retraction takes the entry of its correlation and no other.            *)
LEMMA WithoutFacts ==
  ASSUME NEW T \in SUBSET Entries, NEW q \in Seq(T), NEW c \in Corrs
  PROVE  /\ Without(q, c) \in Seq(T)
         /\ \A i \in 1..Len(Without(q, c)) : \E x \in 1..Len(q) : Without(q, c)[i] = q[x]
         /\ \A k \in Corrs : Has(Without(q, c), WaitKey, k) <=> Has(q, WaitKey, k) /\ k # c
         /\ Once(q, WaitKey, 0) => Once(Without(q, c), WaitKey, 0)
         /\ \A v : Has(Without(q, c), FarKey, v) => Has(q, FarKey, v)
         /\ Once(q, FarKey, NoVal) =>
              /\ Once(Without(q, c), FarKey, NoVal)
              /\ \A i \in 1..Len(q) : q[i].remote /\ q[i].id = c /\ q[i].val # NoVal =>
                   ~Has(Without(q, c), FarKey, q[i].val)
<1> DEFINE S == {i \in 1..Len(q) : ~(q[i].remote /\ q[i].id = c)}
           r == Without(q, c)
<1>1. r = Retain(q, S) /\ S \in SUBSET (1..Len(q)) BY DEF Without
<1>2. \A i \in 1..Len(q) : i \in S <=> ~(q[i].remote /\ q[i].id = c) OBVIOUS
<1> HIDE DEF S, r
<1>3. \A i \in 1..Len(q) : /\ q[i].remote => WaitKey[q[i]] = q[i].id /\ FarKey[q[i]] = q[i].val
                           /\ ~q[i].remote => WaitKey[q[i]] = 0
  <2>1. \A i \in 1..Len(q) : q[i] \in Entries OBVIOUS
  <2> QED BY <2>1, EntryKeys
<1>4. /\ r \in Seq(T)
      /\ \A i \in 1..Len(r) : \E x \in S : r[i] = q[x]
  BY <1>1, RetainFacts
<1>5. /\ \A k : Has(r, WaitKey, k) <=> \E x \in S : WaitKey[q[x]] = k
      /\ Once(q, WaitKey, 0) => Once(r, WaitKey, 0)
  <2>1. /\ \A k : Has(Retain(q, S), WaitKey, k) <=> \E x \in S : WaitKey[q[x]] = k
        /\ Once(q, WaitKey, 0) => Once(Retain(q, S), WaitKey, 0)
    BY <1>1, RetainHas
  <2> QED BY <1>1, <2>1
<1>6. /\ \A k : Has(r, FarKey, k) <=> \E x \in S : FarKey[q[x]] = k
      /\ Once(q, FarKey, NoVal) => Once(r, FarKey, NoVal)
  <2>1. /\ \A k : Has(Retain(q, S), FarKey, k) <=> \E x \in S : FarKey[q[x]] = k
        /\ Once(q, FarKey, NoVal) => Once(Retain(q, S), FarKey, NoVal)
    BY <1>1, RetainHas
  <2> QED BY <1>1, <2>1
<1>7. ASSUME NEW k \in Corrs PROVE Has(r, WaitKey, k) <=> Has(q, WaitKey, k) /\ k # c
  <2>1. k # 0 BY DEF Corrs
  <2>2. \A i \in 1..Len(q) : WaitKey[q[i]] = k => (i \in S <=> k # c) BY <1>2, <1>3, <2>1
  <2>3. \A i \in S : i \in 1..Len(q) BY <1>1
  <2> QED BY <1>5, <2>2, <2>3 DEF Has
<1>8. \A v : Has(r, FarKey, v) => Has(q, FarKey, v) BY <1>1, <1>6 DEF Has
<1>9. ASSUME Once(q, FarKey, NoVal), NEW i \in 1..Len(q), q[i].remote, q[i].id = c, q[i].val # NoVal
      PROVE  ~Has(r, FarKey, q[i].val)
  <2>1. ASSUME NEW x \in S, FarKey[q[x]] = q[i].val PROVE FALSE
    <3>1. x \in 1..Len(q) BY <1>1
    <3>2. FarKey[q[i]] = q[i].val BY <1>3, <1>9
    <3>3. x = i BY <1>9, <2>1, <3>1, <3>2 DEF Once
    <3> QED BY <1>2, <1>9, <3>3
  <2> QED BY <2>1, <1>6
<1>10. \A i \in 1..Len(r) : \E x \in 1..Len(q) : r[i] = q[x] BY <1>1, <1>4
<1> QED BY <1>4, <1>5, <1>6, <1>7, <1>8, <1>9, <1>10 DEF r

(* The keys of a sequence that gained or lost only keyless elements.        *)
Same(q, q2, key, no) ==
  /\ Once(q, key, no) => Once(q2, key, no)
  /\ \A k : k # no => (Has(q2, key, k) <=> Has(q, key, k))

(* An element without a key changes no key.                                 *)
LEMMA SameAppend ==
  ASSUME NEW T, NEW q \in Seq(T), NEW f \in T, NEW key, NEW no, key[f] = no
  PROVE  Same(q, Append(q, f), key, no)
  BY HasAppend DEF Same

(* Elements without a key change no key.                                    *)
LEMMA SameConcat ==
  ASSUME NEW T, NEW q \in Seq(T), NEW r \in Seq(T), NEW key, NEW no,
         \A i \in 1..Len(r) : key[r[i]] = no
  PROVE  Same(q, q \o r, key, no)
<1>1. \A k : k # no => ~Has(r, key, k) BY DEF Has
<1>2. Once(r, key, no) BY DEF Once
<1>3. /\ \A k : Has(q \o r, key, k) <=> Has(q, key, k) \/ Has(r, key, k)
      /\ Once(q, key, no) /\ Once(r, key, no)
           /\ (\A k : k # no /\ Has(r, key, k) => ~Has(q, key, k)) => Once(q \o r, key, no)
  BY HasConcat
<1> QED BY <1>1, <1>2, <1>3 DEF Same

(* Taking an element without a key changes no key.                          *)
LEMMA SameTail ==
  ASSUME NEW T, NEW q \in Seq(T), q # <<>>, NEW key, NEW no, key[Head(q)] = no
  PROVE  Same(q, Tail(q), key, no)
  BY HasTail DEF Same

(* The same sequence has the same keys.                                     *)
LEMMA SameKeys ==
  ASSUME NEW q, NEW key, NEW no
  PROVE  Same(q, q, key, no)
  BY DEF Same

(* Having the same keys is transitive.                                      *)
LEMMA SameTrans ==
  ASSUME NEW q, NEW r, NEW s, NEW key, NEW no, Same(q, r, key, no), Same(r, s, key, no)
  PROVE  Same(q, s, key, no)
  BY DEF Same

(* A task's wake changed: nothing received before nor after.                *)
Quiet(w, w2) ==
  \A t \in Tasks : w2[t] = w[t] \/ (w[t].kind # "Recv" /\ w2[t].kind # "Recv")

(* The lanes and wakes change, and no value moves.                          *)
LEMMA SpotsSame ==
  ASSUME NEW b, NEW w, NEW o, NEW r, NEW rec, NEW acc, NEW w2, NEW o2, NEW r2,
         Spots(b, w, o, r, rec, acc), Quiet(w, w2),
         Same(o, o2, ValKey, NoVal), Same(r, r2, RetKey, NoVal)
  PROVE  Spots(b, w2, o2, r2, rec, acc)
<1>1. \A v \in Values : v # NoVal BY ChannelAssumption
<1>2. \A v : InW(w2, v) <=> InW(w, v) BY DEF InW, Quiet
<1>3. WOnce(w) => WOnce(w2) BY DEF WOnce, Quiet
<1> QED BY <1>1, <1>2, <1>3 DEF Spots, Same, At

(* A value is put in the buffer, in a wake, on a lane, or is received.      *)
LEMMA PutBuffer ==
  ASSUME NEW b \in Seq(Values), NEW w, NEW o, NEW r, NEW rec, NEW acc, NEW v \in Values,
         Spots(b, w, o, r, rec, acc), v \notin acc
  PROVE  /\ Append(b, v) \in Seq(Values) /\ Spots(Append(b, v), w, o, r, rec, acc \cup {v})
         /\ <<v>> \o b \in Seq(Values) /\ Spots(<<v>> \o b, w, o, r, rec, acc \cup {v})
<1>0. \A x \in Values : Self[x] = x BY DEF Self
<1>1. /\ \A k : Has(Append(b, v), Self, k) <=> Has(b, Self, k) \/ Self[v] = k
      /\ Once(b, Self, NoVal) /\ (Self[v] = NoVal \/ ~Has(b, Self, Self[v]))
           => Once(Append(b, v), Self, NoVal)
  BY HasAppend
<1>2. ~At(b, w, o, r, rec, v) BY DEF Spots
<1>3. Spots(Append(b, v), w, o, r, rec, acc \cup {v}) BY <1>0, <1>1, <1>2 DEF Spots, At
<1> DEFINE h == <<v>>
<1>4. h \in Seq(Values) OBVIOUS
<1>5. \A k : Has(h, Self, k) <=> Self[v] = k BY HasSingle
<1>6. Once(h, Self, NoVal) BY HasSingle
<1> HIDE DEF h
<1>7. /\ \A k : Has(h \o b, Self, k) <=> Has(h, Self, k) \/ Has(b, Self, k)
      /\ Once(h, Self, NoVal) /\ Once(b, Self, NoVal)
           /\ (\A k : k # NoVal /\ Has(b, Self, k) => ~Has(h, Self, k)) => Once(h \o b, Self, NoVal)
  BY <1>4, HasConcat
<1>8. Spots(h \o b, w, o, r, rec, acc \cup {v}) BY <1>0, <1>2, <1>5, <1>6, <1>7 DEF Spots, At
<1> QED BY <1>3, <1>8, <1>4 DEF h

(* A value put into a wake is in that spot alone.                           *)
LEMMA PutWake ==
  ASSUME NEW b, NEW w, NEW o, NEW r, NEW rec, NEW acc, NEW v \in Values, NEW w2, NEW t \in Tasks,
         Spots(b, w, o, r, rec, acc), v \notin acc, w[t].kind # "Recv",
         w2[t] = Wake("Recv", v), \A u \in Tasks \ {t} : w2[u] = w[u]
  PROVE  Spots(b, w2, o, r, rec, acc \cup {v})
<1>1. ~At(b, w, o, r, rec, v) BY DEF Spots
<1>2. w2[t].kind = "Recv" /\ w2[t].val = v BY DEF Wake
<1>3. \A x : InW(w2, x) <=> x = v \/ InW(w, x) BY <1>2 DEF InW
<1>4. WOnce(w2)
  <2>1. WOnce(w) /\ ~InW(w, v) BY <1>1 DEF Spots, At
  <2> QED BY <2>1, <1>2 DEF WOnce, InW
<1> QED BY <1>1, <1>3, <1>4 DEF Spots, At

(* A value put on the lane to the endpoint is in that spot alone.           *)
LEMMA PutOut ==
  ASSUME NEW b, NEW w, NEW o \in Seq(OutFrames), NEW r, NEW rec, NEW acc, NEW f \in OutFrames,
         Spots(b, w, o, r, rec, acc), f.type = "Value", f.val \notin acc
  PROVE  Spots(b, w, Append(o, f), r, rec, acc \cup {f.val})
<1>1. ValKey[f] = f.val /\ f.val \in Values BY FrameKeys
<1>2. ~At(b, w, o, r, rec, f.val) BY <1>1 DEF Spots
<1>3. /\ \A k : Has(Append(o, f), ValKey, k) <=> Has(o, ValKey, k) \/ ValKey[f] = k
      /\ Once(o, ValKey, NoVal) /\ (ValKey[f] = NoVal \/ ~Has(o, ValKey, ValKey[f]))
           => Once(Append(o, f), ValKey, NoVal)
  BY HasAppend
<1> QED BY <1>1, <1>2, <1>3 DEF Spots, At

(* A value put on the lane home is in that spot alone.                      *)
LEMMA PutReturn ==
  ASSUME NEW b, NEW w, NEW o, NEW r \in Seq(ToFrames), NEW rec, NEW acc, NEW f \in ToFrames,
         Spots(b, w, o, r, rec, acc), f.type = "Return", f.val \notin acc
  PROVE  Spots(b, w, o, Append(r, f), rec, acc \cup {f.val})
<1>1. RetKey[f] = f.val /\ f.val \in Values BY FrameKeys
<1>2. ~At(b, w, o, r, rec, f.val) BY <1>1 DEF Spots
<1>3. /\ \A k : Has(Append(r, f), RetKey, k) <=> Has(r, RetKey, k) \/ RetKey[f] = k
      /\ Once(r, RetKey, NoVal) /\ (RetKey[f] = NoVal \/ ~Has(r, RetKey, RetKey[f]))
           => Once(Append(r, f), RetKey, NoVal)
  BY HasAppend
<1> QED BY <1>1, <1>2, <1>3 DEF Spots, At

(* A value received is in that spot alone.                                  *)
LEMMA PutReceived ==
  ASSUME NEW b, NEW w, NEW o, NEW r, NEW rec, NEW acc, NEW v \in Values, NEW rec2,
         Spots(b, w, o, r, rec, acc), v \notin acc,
         rec2[v] = rec[v] + 1, \A x \in Values \ {v} : rec2[x] = rec[x]
  PROVE  Spots(b, w, o, r, rec2, acc \cup {v})
<1>1. ~At(b, w, o, r, rec, v) /\ rec[v] \in {0, 1} BY DEF Spots
<1>2. rec[v] = 0 /\ rec2[v] = 1 BY <1>1 DEF At
<1> QED BY <1>1, <1>2 DEF Spots, At

(* A value is taken from the buffer, a wake or a lane.                      *)
LEMMA TakeHead ==
  ASSUME NEW b \in Seq(Values), b # <<>>, NEW w, NEW o, NEW r, NEW rec, NEW acc,
         Spots(b, w, o, r, rec, acc)
  PROVE  /\ Head(b) \in Values /\ Head(b) \in acc /\ Tail(b) \in Seq(Values)
         /\ Spots(Tail(b), w, o, r, rec, acc \ {Head(b)})
<1>0. \A x \in Values : Self[x] = x /\ x # NoVal BY ChannelAssumption DEF Self
<1>1. Head(b) \in Values /\ Tail(b) \in Seq(Values) OBVIOUS
<1>2. /\ \A k : Has(b, Self, k) <=> Self[Head(b)] = k \/ Has(Tail(b), Self, k)
      /\ Once(b, Self, NoVal) =>
           /\ Once(Tail(b), Self, NoVal)
           /\ \A k : k # NoVal /\ Self[Head(b)] = k => ~Has(Tail(b), Self, k)
  BY HasTail
<1>3. Has(b, Self, Head(b)) BY <1>0, <1>1, <1>2
<1> QED BY <1>0, <1>1, <1>2, <1>3 DEF Spots, At

(* A value taken from its wake is nowhere.                                  *)
LEMMA TakeWake ==
  ASSUME NEW b, NEW w, NEW o, NEW r, NEW rec, NEW acc, NEW w2, NEW t \in Tasks,
         Spots(b, w, o, r, rec, acc), w[t].kind = "Recv", w[t].val \in Values,
         w2[t].kind # "Recv", \A u \in Tasks \ {t} : w2[u] = w[u]
  PROVE  w[t].val \in acc /\ Spots(b, w2, o, r, rec, acc \ {w[t].val})
<1>1. InW(w, w[t].val) BY DEF InW
<1>2. WOnce(w) BY DEF Spots
<1>3. \A x : InW(w2, x) <=> x # w[t].val /\ InW(w, x) BY <1>2 DEF InW, WOnce
<1>4. WOnce(w2) BY <1>2 DEF WOnce
<1> QED BY <1>1, <1>3, <1>4 DEF Spots, At

(* A value taken from the lane to the endpoint is nowhere.                  *)
LEMMA TakeOut ==
  ASSUME NEW b, NEW w, NEW o \in Seq(OutFrames), o # <<>>, NEW r, NEW rec, NEW acc,
         Spots(b, w, o, r, rec, acc), Head(o).type = "Value"
  PROVE  /\ Head(o).val \in Values /\ Head(o).val \in acc
         /\ Spots(b, w, Tail(o), r, rec, acc \ {Head(o).val})
<1>0. \A x \in Values : x # NoVal BY ChannelAssumption
<1>1. Head(o) \in OutFrames OBVIOUS
<1>2. ValKey[Head(o)] = Head(o).val /\ Head(o).val \in Values BY <1>1, FrameKeys
<1>3. /\ \A k : Has(o, ValKey, k) <=> ValKey[Head(o)] = k \/ Has(Tail(o), ValKey, k)
      /\ Once(o, ValKey, NoVal) =>
           /\ Once(Tail(o), ValKey, NoVal)
           /\ \A k : k # NoVal /\ ValKey[Head(o)] = k => ~Has(Tail(o), ValKey, k)
  BY HasTail
<1> QED BY <1>0, <1>2, <1>3 DEF Spots, At

(* A value taken from the lane home is nowhere.                             *)
LEMMA TakeReturn ==
  ASSUME NEW b, NEW w, NEW o, NEW r \in Seq(ToFrames), r # <<>>, NEW rec, NEW acc,
         Spots(b, w, o, r, rec, acc), Head(r).type = "Return"
  PROVE  /\ Head(r).val \in Values /\ Head(r).val \in acc
         /\ Spots(b, w, o, Tail(r), rec, acc \ {Head(r).val})
<1>0. \A x \in Values : x # NoVal BY ChannelAssumption
<1>1. Head(r) \in ToFrames OBVIOUS
<1>2. RetKey[Head(r)] = Head(r).val /\ Head(r).val \in Values BY <1>1, FrameKeys
<1>3. /\ \A k : Has(r, RetKey, k) <=> RetKey[Head(r)] = k \/ Has(Tail(r), RetKey, k)
      /\ Once(r, RetKey, NoVal) =>
           /\ Once(Tail(r), RetKey, NoVal)
           /\ \A k : k # NoVal /\ RetKey[Head(r)] = k => ~Has(Tail(r), RetKey, k)
  BY HasTail
<1> QED BY <1>0, <1>2, <1>3 DEF Spots, At

-----------------------------------------------------------------------------
(* What a step does to a task: nothing, wake it, park it, end its           *)
(* operation, or cancel it.                                                 *)
SameOp(t) == op'[t] = op[t] /\ opval'[t] = opval[t] /\ park_epoch'[t] = park_epoch[t]
Untouched(t) == /\ SameOp(t) /\ parked_on_channel'[t] = parked_on_channel[t]
                /\ cancel_requested'[t] = cancel_requested[t] /\ wake'[t] = wake[t]
GetsWake(t) == /\ SameOp(t) /\ parked_on_channel[t] /\ ~parked_on_channel'[t]
               /\ cancel_requested'[t] = cancel_requested[t] /\ wake'[t].kind # "none"
GetsParked(t) ==
  /\ op[t] = "none" /\ op'[t] # "none" /\ park_epoch'[t] = park_epoch[t]
  /\ parked_on_channel'[t] = TRUE /\ cancel_requested'[t] = cancel_requested[t]
  /\ wake'[t] = wake[t]
  /\ op'[t] = "send" => opval'[t] \in Values
  /\ op'[t] # "send" => opval'[t] = NoVal
Returns(t) ==
  /\ op[t] # "none" /\ ~parked_on_channel[t] /\ ~parked_on_channel'[t]
  /\ op'[t] = "none" /\ opval'[t] = NoVal /\ park_epoch'[t] = park_epoch[t] + 1
  /\ ~cancel_requested'[t] /\ wake'[t].kind = "none"
GetsCancelled(t) ==
  /\ SameOp(t) /\ op[t] # "none" /\ ~parked_on_channel'[t]
  /\ cancel_requested'[t] = TRUE /\ wake'[t] = wake[t]
TaskStep(t) == Untouched(t) \/ GetsWake(t) \/ GetsParked(t) \/ Returns(t) \/ GetsCancelled(t)

(* The steps of tasks keep what their flags say.                            *)
LEMMA ParksKept ==
  ASSUME ParksOK, TaskT, \A t \in Tasks : TaskStep(t)
  PROVE  ParksOK'
<1> SUFFICES ASSUME NEW t \in Tasks PROVE Parks(t)' BY DEF ParksOK
<1>1. Parks(t) /\ TaskStep(t) BY DEF ParksOK
<1>2. parked_on_channel[t] \in BOOLEAN /\ cancel_requested[t] \in BOOLEAN BY DEF TaskT
<1>3. CASE Untouched(t) BY <1>1, <1>3 DEF Parks, Untouched, SameOp
<1>4. CASE GetsWake(t) BY <1>1, <1>4 DEF Parks, GetsWake, SameOp
<1>5. CASE GetsParked(t) BY <1>1, <1>5 DEF Parks, GetsParked, SameOp
<1>6. CASE Returns(t) BY <1>1, <1>6 DEF Parks, Returns, SameOp
<1>7. CASE GetsCancelled(t) BY <1>1, <1>7 DEF Parks, GetsCancelled, SameOp
<1> QED BY <1>1, <1>3, <1>4, <1>5, <1>6, <1>7 DEF TaskStep

(* Every element of r is one of q.                                          *)
Part(r, q) == \A i \in 1..Len(r) : \E j \in 1..Len(q) : r[i] = q[j]

(* Tails and popped queues have no new elements.                            *)
LEMMA PartFacts ==
  ASSUME NEW T, NEW q \in Seq(T)
  PROVE  /\ Part(q, q) /\ Part(<<>>, q)
         /\ q # <<>> => Part(Tail(q), q)
         /\ T \in SUBSET Entries => Part(AfterPop(q), q)
<1>1. Part(q, q) /\ Part(<<>>, q) BY DEF Part
<1>2. ASSUME q # <<>> PROVE Part(Tail(q), q)
  <2> DEFINE r == Tail(q)
  <2>1. Len(r) = Len(q) - 1 /\ Len(q) \in Nat /\ \A i \in 1..Len(r) : r[i] = q[i + 1]
    BY <1>2
  <2> HIDE DEF r
  <2>2. \A i \in 1..Len(r) : i + 1 \in 1..Len(q) BY <2>1
  <2> QED BY <2>1, <2>2 DEF Part, r
<1>3. ASSUME T \in SUBSET Entries PROVE Part(AfterPop(q), q)
  <2>1. CASE ~AnyLive(q)
    <3>1. AfterPop(q) = <<>> BY <2>1 DEF AfterPop
    <3> QED BY <3>1 DEF Part
  <2>2. CASE AnyLive(q)
    <3>0. q \in Seq(Entries) BY <1>3
    <3>1. PICK m \in 1..Len(q) :
             /\ Len(AfterPop(q)) = Len(q) - m
             /\ \A i \in 1..(Len(q) - m) : AfterPop(q)[i] = q[i + m]
      BY <3>0, <2>2, PopFacts
    <3> DEFINE r == AfterPop(q)
    <3>2. Len(r) = Len(q) - m /\ \A i \in 1..Len(r) : r[i] = q[i + m] BY <3>1
    <3> HIDE DEF r
    <3>3. \A i \in 1..Len(r) : i + m \in 1..Len(q) BY <3>2
    <3> QED BY <3>2, <3>3 DEF Part, r
  <2> QED BY <2>1, <2>2
<1> QED BY <1>1, <1>2, <1>3

(* The queued senders fit as before.                                        *)
LEMMA FitsKept2 ==
  ASSUME FitsOK, TaskT, send_waiters \in Seq(SendEntries), send_waiters' \in Seq(SendEntries),
         Part(send_waiters', send_waiters), \A t \in Tasks : TaskStep(t)
  PROVE  FitsOK'
<1> SUFFICES ASSUME NEW i \in 1..Len(send_waiters'), NEW e, e = send_waiters'[i], ~e.remote
             PROVE  /\ e.id <= park_epoch'[e.task]
                    /\ e.id = park_epoch'[e.task] => op'[e.task] = "send" /\ opval'[e.task] = e.val
  BY DEF FitsOK, LocalFits
<1>1. PICK j \in 1..Len(send_waiters) : e = send_waiters[j] BY DEF Part
<1>2. LocalFits(e) BY <1>1 DEF FitsOK
<1>3. e \in SendEntries BY <1>1
<1>4. e.task \in Tasks /\ e.id \in Nat BY <1>3 DEF SendEntries, Entries, Tasks
<1>5. park_epoch[e.task] \in Nat BY <1>4 DEF TaskT
<1>6. /\ e.id <= park_epoch[e.task]
      /\ e.id = park_epoch[e.task] => op[e.task] = "send" /\ opval[e.task] = e.val
  BY <1>2 DEF LocalFits
<1>7. \/ SameOp(e.task) \/ park_epoch'[e.task] = park_epoch[e.task] + 1
      \/ park_epoch'[e.task] = park_epoch[e.task] /\ op[e.task] # "send"
  <2>1. TaskStep(e.task) BY <1>4
  <2> QED BY <2>1 DEF TaskStep, Untouched, GetsWake, GetsParked, Returns, GetsCancelled
<1> QED BY <1>4, <1>5, <1>6, <1>7 DEF SameOp

-----------------------------------------------------------------------------
(* Sends: the frames and entries on the way become fewer, and a value whose *)
(* fate changes leaves them.                                                *)
LEMMA SendsKept ==
  ASSUME WayOK, SenderOK, ParksOK, ChanT, ChanT', opcorr' = opcorr,
         \A t \in Tasks : \/ op'[t] # "send"
                          \/ op'[t] = op[t] /\ opval'[t] = opval[t]
                               /\ (parked_on_channel'[t] => parked_on_channel[t]),
         Part(toOwner', toOwner), Part(send_waiters', send_waiters),
         Once(toOwner', SendKey, NoVal), Once(send_waiters', FarKey, NoVal),
         \A v \in Values : \/ fate'[v] = fate[v]
                           \/ /\ fate'[v] # "new" /\ ~Offered(v)' /\ ~Held(v)'
                              /\ \A t \in LocalTasks : op'[t] = "send" /\ opval'[t] = v =>
                                                         ~parked_on_channel'[t]
  PROVE  WayOK' /\ SenderOK'
<1>1. \A v : /\ Has(toOwner', SendKey, v) => Has(toOwner, SendKey, v)
             /\ Has(send_waiters', FarKey, v) => Has(send_waiters, FarKey, v)
  BY DEF Part, Has
<1>2. \A v \in Values : /\ Has(toOwner', SendKey, v) => ~Has(send_waiters', FarKey, v) /\ fate'[v] = "parked"
                        /\ Has(send_waiters', FarKey, v) => fate'[v] = "parked"
  BY <1>1 DEF WayOK, Offered, Held
<1>3. WayOK' BY <1>2 DEF WayOK, Offered, Held
<1>4. \A t \in Tasks : op'[t] = "send" => op[t] = "send" /\ opval'[t] = opval[t] /\ opval[t] \in Values
  BY DEF ParksOK, Parks
<1>5. \A t, u \in Tasks : op'[t] = "send" /\ op'[u] = "send" /\ opval'[t] = opval'[u] => t = u
  BY <1>4 DEF SenderOK
<1>6. \A t \in Tasks : op'[t] = "send" => fate'[opval'[t]] # "new" BY <1>4 DEF SenderOK
<1>7. ASSUME NEW t \in LocalTasks, op'[t] = "send"
      PROVE  /\ ~Has(toOwner', SendKey, opval'[t]) /\ ~Has(send_waiters', FarKey, opval'[t])
             /\ parked_on_channel'[t] => fate'[opval'[t]] = "parked"
  <2>1. t \in Tasks BY DEF Tasks
  <2>2. op[t] = "send" /\ opval'[t] = opval[t] /\ opval[t] \in Values
          /\ (parked_on_channel'[t] => parked_on_channel[t])
    BY <1>4, <1>7, <2>1
  <2>3. /\ ~Has(toOwner, SendKey, opval[t]) /\ ~Has(send_waiters, FarKey, opval[t])
        /\ parked_on_channel[t] => fate[opval[t]] = "parked"
    BY <2>2 DEF SenderOK, Offered, Held
  <2> QED BY <1>1, <1>7, <2>2, <2>3
<1>8. ASSUME NEW t \in RemoteTasks, op'[t] = "send" PROVE OfferFits(t)'
  <2>1. t \in Tasks BY DEF Tasks
  <2>2. op[t] = "send" /\ opval'[t] = opval[t] BY <1>4, <1>8, <2>1
  <2>3. OfferFits(t) BY <2>2 DEF SenderOK
  <2> QED BY <2>2, <2>3 DEF OfferFits, Part
<1>9. SenderOK' BY <1>5, <1>6, <1>7, <1>8 DEF SenderOK, Offered, Held
<1> QED BY <1>3, <1>9

(* A retraction comes nearer as the owner's agent takes the frame before    *)
(* it, or is the frame it takes.                                            *)
LEMMA RetractTail ==
  ASSUME NEW q \in Seq(ToFrames), q # <<>>, NEW n \in Nat, NEW c \in Corrs, Retracted(q, n, c)
  PROVE  /\ n > 0
         /\ \/ /\ Head(q).type = "Cancel" /\ Head(q).corr = c
               /\ ~Has(Tail(q), AskKey, c)
            \/ Retracted(Tail(q), IF Head(q).type = "Release" THEN n - 1 ELSE n, c)
<1>1. PICK j \in 1..Len(q) : /\ q[j].type = "Cancel" /\ q[j].corr = c /\ RelBefore(q, j) < n
                             /\ \A i \in 1..Len(q) : AskKey[q[i]] = c => i < j
  BY DEF Retracted
<1> DEFINE r == Tail(q)
<1>2. /\ Len(q) \in Nat /\ Len(r) = Len(q) - 1 /\ Head(q) = q[1]
      /\ \A i \in 1..Len(r) : r[i] = q[i + 1]
  OBVIOUS
<1>3. j - 1 \in Nat /\ RelBefore(q, j) \in Nat BY RelFinite DEF RelBefore
<1>4. /\ Head(q).type # "Release" => \A m \in 1..Len(q) : RelCount(q, m) = RelCount(r, m - 1)
      /\ Head(q).type = "Release" => \A m \in 1..Len(q) : RelCount(q, m) = RelCount(r, m - 1) + 1
  BY RelTail
<1> HIDE DEF r
<1>5. \A i \in 1..Len(r) : i + 1 \in 1..Len(q) /\ (AskKey[r[i]] = c => i + 1 < j) BY <1>1, <1>2
<1>6. CASE j = 1
  <2>1. ~Has(r, AskKey, c) BY <1>5, <1>6 DEF Has
  <2> QED BY <1>1, <1>2, <1>3, <1>6, <2>1 DEF r
<1>7. CASE j # 1
  <2>1. j - 1 \in 1..Len(q) /\ j - 1 \in 1..Len(r) /\ (j - 1) - 1 \in Nat BY <1>2, <1>7
  <2>2. r[j - 1] = q[j]
    <3>1. r[j - 1] = q[(j - 1) + 1] BY <1>2, <2>1
    <3> QED BY <3>1
  <2>3. RelCount(r, (j - 1) - 1) \in Nat BY <2>1, RelFinite
  <2> DEFINE m == IF Head(q).type = "Release" THEN n - 1 ELSE n
  <2>4. RelBefore(r, j - 1) < m
    <3>1. RelBefore(r, j - 1) = RelCount(r, (j - 1) - 1) /\ RelBefore(q, j) = RelCount(q, j - 1)
      BY DEF RelBefore
    <3>2. /\ Head(q).type # "Release" => RelCount(q, j - 1) = RelCount(r, (j - 1) - 1)
          /\ Head(q).type = "Release" => RelCount(q, j - 1) = RelCount(r, (j - 1) - 1) + 1
      BY <1>4, <2>1
    <3>3. RelCount(q, j - 1) < n BY <1>1, <3>1
    <3> QED BY <3>1, <3>2, <3>3, <2>3
  <2>5. \A i \in 1..Len(r) : AskKey[r[i]] = c => i < j - 1 BY <1>5
  <2>6. Retracted(r, m, c) BY <1>1, <2>1, <2>2, <2>4, <2>5 DEF Retracted
  <2> QED BY <1>1, <1>3, <2>6 DEF r
<1> QED BY <1>6, <1>7

(* Steps of the owner leave the endpoint side alone.                        *)
RemoteStill ==
  /\ UNCHANGED <<next_corr, pending, endpoint, opend, opcorr, dead, noticed>>
  /\ \A t \in RemoteTasks : Untouched(t)

(* A step of the owner keeps the link's types.                              *)
LEMMA LinkTypes ==
  ASSUME LinkT, RemoteStill PROVE LinkT'
  BY DEF LinkT, RemoteStill, Untouched, SameOp

(* A step of the owner that stages nothing and drops nothing but what is    *)
(* retracted keeps the pending entries and the operations.                  *)
LEMMA LinkKept ==
  ASSUME RTypes, ParksOK, PendingOK, OpsOK, UsedOK, RemoteStill,
         \A c \in Corrs : /\ Staged(c)' => Staged(c)
                          /\ Staged(c) /\ ~Has(toOwner, RetractKey, c) => Staged(c)'
                          /\ Has(toOwner', RetractKey, c) => Has(toOwner, RetractKey, c)
  PROVE  PendingOK' /\ OpsOK' /\ UsedOK'
<1>1. PendingOK' BY DEF PendingOK, RemoteStill
<1>2. ASSUME NEW t \in RemoteTasks PROVE OpOK(t)'
  <2>1. OpOK(t) /\ Untouched(t) BY DEF OpsOK, RemoteStill
  <2>2. UNCHANGED <<next_corr, pending, opend, opcorr>> BY DEF RemoteStill
  <2>3. op[t] # "none" => opcorr[t] \in Corrs
    BY DEF RTypes, LinkT, Corrs
  <2>4. opcorr[t] \in Nat BY DEF RTypes, LinkT
  <2>5. op[t] = "none" => ~parked_on_channel[t] /\ wake[t].kind = "none"
    BY DEF ParksOK, Parks, Tasks
  <2>6. CASE op[t] = "none"
    BY <2>1, <2>2, <2>5, <2>6 DEF OpOK, Untouched, SameOp
  <2>7. CASE op[t] # "none"
    BY <2>1, <2>2, <2>3, <2>7 DEF OpOK, Untouched, SameOp
  <2> QED BY <2>6, <2>7
<1>3. OpsOK' BY <1>2 DEF OpsOK, RemoteStill
<1>4. UsedOK' BY DEF UsedOK, RemoteStill, Untouched, SameOp
<1> QED BY <1>1, <1>3, <1>4

CorrKept ==
  \E o2 : /\ Flow(toOwner, recv_waiters, send_waiters, outbound,
                  toOwner', recv_waiters', send_waiters', o2)
          /\ RemoteUp => outbound' = o2

(* A wanted receive is an entry or a request.                               *)
LEMMA RemoteWaits ==
  ASSUME NEW q \in Seq(RecvEntries)
  PROVE  (\A i \in 1..Len(q) : ~q[i].remote) <=> (\A c \in Corrs : ~Has(q, WaitKey, c))
<1>1. \A i \in 1..Len(q) : q[i] \in RecvEntries OBVIOUS
<1>2. \A i \in 1..Len(q) : /\ q[i].remote => WaitKey[q[i]] \in Corrs
                           /\ ~q[i].remote => WaitKey[q[i]] \notin Corrs
  BY <1>1, EntryKeys DEF Corrs
<1> QED BY <1>2 DEF Has

(* A step of a local task.                                                  *)
LEMMA LocalKeeps ==
  ASSUME RInv, OwnerUp, RemoteStill, toOwner' = toOwner, refs' = refs,
         ChanT', TaskT', ValT', CorrKept, \A t \in Tasks : TaskStep(t),
         dead = "none" => FitsOK' /\ SpotsOK' /\ WayOK' /\ SenderOK'
  PROVE  RInv'
<1>0. RTypes /\ dead \in {"none", "remote"} BY DEF RInv, RTypes, LinkT, OwnerUp
<1>1. RTypes' BY <1>0, LinkTypes DEF RTypes
<1>2. dead' = dead /\ noticed' = noticed /\ endpoint' = endpoint /\ opcorr' = opcorr
  BY DEF RemoteStill
<1>3. \A c \in Corrs : Wanting(c)' => Wanting(c) BY DEF CorrKept, Flow, Wanting
<1>4. CASE dead = "none"
  <2>1. RemoteUp BY <1>4 DEF RemoteUp
  <2>2. OneStage /\ UpOK BY <1>4 DEF RInv
  <2>3. OneStage' /\ \A c \in Corrs : Staged(c)' <=> Staged(c)
    BY <2>1, <2>2 DEF CorrKept, Flow, OneStage, Staged
  <2>4. PendingOK' /\ OpsOK' /\ UsedOK' BY <1>0, <2>2, <2>3, LinkKept DEF UpOK
  <2>5. ParksOK' BY <1>0, <2>2, ParksKept DEF UpOK, RTypes
  <2>6. CountOK' BY <1>2, <2>2 DEF UpOK, CountOK, Alive
  <2>7. HeldOK' BY <1>2, <1>3, <2>2 DEF UpOK, HeldOK
  <2>8. UpOK' BY <1>4, <2>4, <2>5, <2>6, <2>7 DEF UpOK
  <2> QED BY <1>1, <1>2, <1>4, <2>3, <2>8 DEF RInv
<1>5. CASE dead = "remote"
  <2>1. PurgeOK BY <1>5 DEF RInv
  <2>2. CASE noticed
    <3>1. toOwner = <<>> /\ \A i \in 1..Len(recv_waiters) : ~recv_waiters[i].remote
      BY <2>1, <2>2 DEF PurgeOK
    <3>6. refs' > 0 => Undelivered' BY <1>2, <2>1, <2>2 DEF PurgeOK, Undelivered
    <3>2. \A c \in Corrs : ~Has(recv_waiters, WaitKey, c)
      BY <3>1, <1>0, RemoteWaits DEF RTypes, ChanT
    <3>3. \A c \in Corrs : ~Has(toOwner, AskKey, c) BY <3>1, HasNone
    <3>4. \A c \in Corrs : ~Has(recv_waiters', WaitKey, c) BY <1>3, <3>2, <3>3 DEF Wanting, Wants
    <3>5. \A i \in 1..Len(recv_waiters') : ~recv_waiters'[i].remote
      BY <3>4, RemoteWaits DEF ChanT
    <3>7. PurgeOK' BY <1>2, <2>2, <3>1, <3>5, <3>6 DEF PurgeOK
    <3> QED BY <1>1, <1>2, <1>5, <3>7 DEF RInv
  <2>3. CASE ~noticed
    <3>1. PurgeOK' BY <1>2, <1>3, <2>1, <2>3 DEF PurgeOK
    <3> QED BY <1>1, <1>2, <1>5, <3>1 DEF RInv
  <2> QED BY <2>2, <2>3
<1> QED BY <1>0, <1>4, <1>5

(* The references, as the owner's agent takes a frame.                      *)
LEMMA TailCount ==
  ASSUME NEW q \in Seq(ToFrames), q # <<>>
  PROVE  /\ RelCount(q, Len(q)) \in Nat /\ RelCount(Tail(q), Len(Tail(q))) \in Nat
         /\ Head(q).type # "Release" =>
              RelCount(q, Len(q)) = RelCount(Tail(q), Len(Tail(q)))
         /\ Head(q).type = "Release" =>
              RelCount(q, Len(q)) = RelCount(Tail(q), Len(Tail(q))) + 1
<1>1. /\ Len(q) \in Nat /\ Len(q) \in 1..Len(q) /\ Len(Tail(q)) = Len(q) - 1
      /\ Len(Tail(q)) \in Nat
  OBVIOUS
<1>2. RelCount(q, Len(q)) \in Nat /\ RelCount(Tail(q), Len(Tail(q))) \in Nat BY <1>1, RelFinite
<1>3. /\ Head(q).type # "Release" => RelCount(q, Len(q)) = RelCount(Tail(q), Len(q) - 1)
      /\ Head(q).type = "Release" => RelCount(q, Len(q)) = RelCount(Tail(q), Len(q) - 1) + 1
  BY <1>1, RelTail
<1> QED BY <1>1, <1>2, <1>3

(* The endpoints to be released are finitely many.                          *)
LEMMA AliveCount ==
  Alive \in SUBSET Endpoints /\ IsFiniteSet(Alive) /\ Cardinality(Alive) \in Nat
<1>1. Alive \in SUBSET Endpoints BY DEF Alive
<1>2. IsFiniteSet(Alive) BY <1>1, RelayAssumption, FS_Subset
<1> QED BY <1>1, <1>2, FS_CardinalityType

(* A step of the owner's agent.                                             *)
TakesFrame ==
  /\ toOwner # <<>> /\ toOwner' = Tail(toOwner)
  /\ refs' = IF Head(toOwner).type = "Release" /\ refs > 0 THEN refs - 1 ELSE refs

(* What the owner's agent has to show, whatever frame it takes.             *)
LEMMA AgentKeeps ==
  ASSUME RInv, OwnerUp, RemoteStill, TakesFrame,
         ChanT', TaskT', ValT', \A t \in Tasks : TaskStep(t),
         \A c \in Corrs : Wanting(c)' => Wanting(c),
         Head(toOwner).type = "Cancel" /\ refs > 0 =>
           ~Has(recv_waiters', WaitKey, Head(toOwner).corr),
         dead = "none" => OneStage' /\ \A c \in Corrs :
           /\ Staged(c)' => Staged(c)
           /\ Staged(c) /\ ~Has(toOwner, RetractKey, c) => Staged(c)',
         dead = "none" => FitsOK' /\ SpotsOK' /\ WayOK' /\ SenderOK'
  PROVE  RInv'
<1>0. RTypes /\ dead \in {"none", "remote"} BY DEF RInv, RTypes, LinkT, OwnerUp
<1>1. RTypes' BY <1>0, LinkTypes DEF RTypes
<1>2. dead' = dead /\ noticed' = noticed /\ endpoint' = endpoint /\ opcorr' = opcorr
  BY DEF RemoteStill
<1> DEFINE f == Head(toOwner)
           n2 == IF f.type = "Release" THEN refs - 1 ELSE refs
<1>3. toOwner \in Seq(ToFrames) /\ refs \in Nat /\ toOwner # <<>> /\ toOwner' = Tail(toOwner)
  BY <1>0 DEF RTypes, ChanT, TakesFrame
<1>4. refs > 0 => refs' = n2 BY DEF TakesFrame
<1>5. ASSUME NEW c \in Corrs, Wanting(c)', Retracted(toOwner, refs, c)
      PROVE  Retracted(toOwner', refs', c)
  <2>1. refs > 0 /\ \/ f.type = "Cancel" /\ f.corr = c /\ ~Has(Tail(toOwner), AskKey, c)
                    \/ Retracted(Tail(toOwner), n2, c)
    BY <1>3, <1>5, RetractTail
  <2>2. CASE f.type = "Cancel" /\ f.corr = c /\ ~Has(Tail(toOwner), AskKey, c)
    <3>1. ~Has(recv_waiters', WaitKey, c) BY <2>1, <2>2
    <3> QED BY <1>3, <1>5, <2>2, <3>1 DEF Wanting, Wants
  <2> QED BY <1>3, <1>4, <2>1, <2>2
<1>6. /\ RelCount(toOwner, Len(toOwner)) \in Nat /\ RelCount(toOwner', Len(toOwner')) \in Nat
      /\ f.type # "Release" => RelCount(toOwner, Len(toOwner)) = RelCount(toOwner', Len(toOwner'))
      /\ f.type = "Release" => RelCount(toOwner, Len(toOwner)) = RelCount(toOwner', Len(toOwner')) + 1
  BY <1>3, TailCount
<1>7. CASE dead = "none"
  <2>2. OneStage /\ UpOK BY <1>7 DEF RInv
  <2>3. \A k : Has(toOwner, RetractKey, k) <=> RetractKey[f] = k \/ Has(Tail(toOwner), RetractKey, k)
    BY <1>3, HasTail
  <2>4. PendingOK' /\ OpsOK' /\ UsedOK' BY <1>0, <1>3, <1>7, <2>2, <2>3, LinkKept DEF UpOK
  <2>5. ParksOK' BY <1>0, <2>2, ParksKept DEF UpOK, RTypes
  <2>6. CountOK'
    <3>1. refs = Cardinality(Alive) + RelCount(toOwner, Len(toOwner)) BY <2>2 DEF UpOK, CountOK
    <3>2. Alive' = Alive BY <1>2 DEF Alive
    <3>3. refs' = Cardinality(Alive) + RelCount(toOwner', Len(toOwner'))
      BY <1>3, <1>6, <3>1, AliveCount DEF TakesFrame
    <3> QED BY <3>2, <3>3 DEF CountOK
  <2>7. HeldOK' BY <1>2, <1>5, <2>2 DEF UpOK, HeldOK
  <2>8. UpOK' BY <1>7, <2>4, <2>5, <2>6, <2>7 DEF UpOK
  <2> QED BY <1>1, <1>2, <1>7, <2>8 DEF RInv
<1>8. CASE dead = "remote"
  <2>1. PurgeOK /\ ~noticed BY <1>3, <1>8 DEF RInv, PurgeOK
  <2>2. ASSUME NEW c \in Corrs, Wanting(c)'
        PROVE  RelCount(toOwner', Len(toOwner')) < refs' \/ Retracted(toOwner', refs', c)
    <3>1. RelCount(toOwner, Len(toOwner)) < refs \/ Retracted(toOwner, refs, c)
      BY <2>1, <2>2 DEF PurgeOK
    <3>2. CASE RelCount(toOwner, Len(toOwner)) < refs BY <1>3, <1>6, <3>2 DEF TakesFrame
    <3> QED BY <1>5, <2>2, <3>1, <3>2
  <2>3. PurgeOK' BY <1>2, <2>1, <2>2 DEF PurgeOK
  <2> QED BY <1>1, <1>2, <1>8, <2>3 DEF RInv
<1> QED BY <1>0, <1>7, <1>8

(* The frames and entries that are made.                                    *)
LEMMA MadeOut ==
  \A c \in Corrs, v \in Values :
    /\ Frame("Ack", c, NoVal) \in OutFrames /\ Frame("Ack", c, NoVal).corr = c
    /\ Frame("Ack", c, NoVal).type # "Value"
    /\ Frame("ClosedFor", c, NoVal) \in OutFrames /\ Frame("ClosedFor", c, NoVal).corr = c
    /\ Frame("ClosedFor", c, NoVal).type # "Value"
    /\ Frame("RecvError", c, NoVal) \in OutFrames /\ Frame("RecvError", c, NoVal).corr = c
    /\ Frame("RecvError", c, NoVal).type # "Value"
    /\ Frame("Value", c, v) \in OutFrames /\ Frame("Value", c, v).corr = c
    /\ Frame("Value", c, v).type = "Value" /\ Frame("Value", c, v).val = v
  BY DEF Frame, OutFrames, Frames, AFrames, Corrs

(* The answers made by the owner are answer frames.                         *)
LEMMA MadeAns ==
  \A c \in Corrs :
    /\ Frame("Ack", c, NoVal) \in OutFrames /\ Frame("Ack", c, NoVal).corr = c
    /\ Frame("Ack", c, NoVal).type # "Value"
    /\ Frame("ClosedFor", c, NoVal) \in OutFrames /\ Frame("ClosedFor", c, NoVal).corr = c
    /\ Frame("ClosedFor", c, NoVal).type # "Value"
    /\ Frame("RecvError", c, NoVal) \in OutFrames /\ Frame("RecvError", c, NoVal).corr = c
    /\ Frame("RecvError", c, NoVal).type # "Value"
  BY DEF Frame, OutFrames, Frames, AFrames, Corrs

(* The entries made by parking are waiter entries.                          *)
LEMMA MadeEntries ==
  /\ \A t \in LocalTasks, e \in Nat, v \in Values :
       LocalEntry(t, e, v) \in SendEntries /\ ~LocalEntry(t, e, v).remote
  /\ \A t \in LocalTasks, e \in Nat :
       LocalEntry(t, e, NoVal) \in RecvEntries /\ ~LocalEntry(t, e, NoVal).remote
  /\ \A c \in Corrs, v \in Values :
       RemoteEntry(c, v) \in SendEntries /\ RemoteEntry(c, v).remote /\ RemoteEntry(c, v).id = c
         /\ RemoteEntry(c, v).val = v
  /\ \A c \in Corrs :
       RemoteEntry(c, NoVal) \in RecvEntries /\ RemoteEntry(c, NoVal).remote
         /\ RemoteEntry(c, NoVal).id = c
  BY DEF LocalEntry, RemoteEntry, SendEntries, RecvEntries, Entries, Corrs, Tasks

(* A live entry of a local task is that task's current park.                *)
LEMMA LiveTask ==
  ASSUME NEW e \in Entries, ~e.remote, e.task \in LocalTasks, EntryLive(e)
  PROVE  /\ e.task \in Tasks /\ parked_on_channel[e.task] /\ ~cancel_requested[e.task]
         /\ e.id = park_epoch[e.task]
  BY DEF EntryLive, channel_waiter_live, Tasks

(* A value handed to the first receiver, or kept for the next: one more     *)
(* spot is taken, and a remote receiver is answered.                        *)
WokenHere(t) == /\ t \in LocalTasks /\ parked_on_channel[t] /\ ~parked_on_channel'[t]
                /\ wake'[t].kind # "none"
Delivers(v, w) ==
  /\ recv_waiters' \in Seq(RecvEntries) /\ outbound' \in Seq(OutFrames)
  /\ buffer' \in Seq(Values) /\ wake' \in [Tasks -> RWakes]
  /\ parked_on_channel' \in [Tasks -> BOOLEAN]
  /\ \A to, sq : Flow(to, recv_waiters, sq, outbound, to, recv_waiters', sq, outbound')
  /\ \A t \in Tasks : \/ wake'[t] = w[t] /\ parked_on_channel'[t] = parked_on_channel[t]
                      \/ WokenHere(t)
  /\ (\A t \in Tasks : parked_on_channel[t] => w[t].kind # "Recv") =>
       \A r, rec, acc : Spots(buffer, w, outbound, r, rec, acc) /\ v \notin acc =>
                          Spots(buffer', wake', outbound', r, rec, acc \cup {v})

(* Handing a value to a waiting receiver delivers it.                       *)
LEMMA HandOverFacts ==
  ASSUME ChanT, TaskT, NEW v \in Values, NEW w \in [Tasks -> RWakes],
         deliver_to_recv(v, w, outbound)
  PROVE  Delivers(v, w)
<1> DEFINE e == PopLive(recv_waiters)
<1>0. recv_waiters \in Seq(RecvEntries) /\ outbound \in Seq(OutFrames) /\ buffer \in Seq(Values)
        /\ parked_on_channel \in [Tasks -> BOOLEAN]
  BY DEF ChanT, TaskT
<1>1. /\ AnyLive(recv_waiters) /\ recv_waiters' = AfterPop(recv_waiters)
      /\ \/ /\ ~e.remote
            /\ parked_on_channel' = [parked_on_channel EXCEPT ![e.task] = FALSE]
            /\ wake' = [w EXCEPT ![e.task] = Wake("Recv", v)]
            /\ outbound' = outbound /\ buffer' = buffer
         \/ /\ e.remote /\ v \in Portable
            /\ outbound' = Append(outbound, Frame("Value", e.id, v))
            /\ wake' = w /\ buffer' = buffer /\ parked_on_channel' = parked_on_channel
         \/ /\ e.remote /\ v \notin Portable
            /\ outbound' = Append(outbound, Frame("RecvError", e.id, NoVal))
            /\ buffer' = <<v>> \o buffer
            /\ wake' = w /\ parked_on_channel' = parked_on_channel
  BY DEF deliver_to_recv
<1>2. AfterPop(recv_waiters) \in Seq(RecvEntries) /\ e \in RecvEntries /\ EntryLive(e)
  BY <1>0, <1>1, PopRecv
<1>3. e \in Entries /\ (e.remote => e.id \in Corrs) /\ (~e.remote => e.task \in LocalTasks)
  BY <1>2 DEF RecvEntries, Entries, Corrs
<1>w. Wake("Recv", v) \in RWakes /\ Wake("Recv", v).kind = "Recv"
  BY DEF Wake, RWakes, Wakes
<1>f. \A f \in OutFrames : \A to, sq :
        /\ ~e.remote => Flow(to, recv_waiters, sq, outbound, to, recv_waiters', sq, outbound)
        /\ e.remote /\ f.corr = e.id =>
             Flow(to, recv_waiters, sq, outbound, to, recv_waiters', sq, Append(outbound, f))
  BY <1>0, <1>1, FlowRecv
<1>n. \E f \in OutFrames : TRUE
  <2>1. 1 \in Corrs BY DEF Corrs
  <2> QED BY <2>1, MadeAns
<1> HIDE DEF e
<1>4. CASE ~e.remote
  <2>1. /\ parked_on_channel' = [parked_on_channel EXCEPT ![e.task] = FALSE]
        /\ wake' = [w EXCEPT ![e.task] = Wake("Recv", v)]
        /\ outbound' = outbound /\ buffer' = buffer
    BY <1>1, <1>4
  <2>2. e.task \in Tasks /\ parked_on_channel[e.task] /\ e.task \in LocalTasks
    BY <1>2, <1>3, <1>4, LiveTask
  <2>3. wake' \in [Tasks -> RWakes] /\ parked_on_channel' \in [Tasks -> BOOLEAN]
    BY <1>0, <1>w, <2>1
  <2>4. \A to, sq : Flow(to, recv_waiters, sq, outbound, to, recv_waiters', sq, outbound')
    BY <1>f, <1>n, <1>4, <2>1
  <2>5. /\ wake'[e.task] = Wake("Recv", v) /\ ~parked_on_channel'[e.task]
        /\ \A t \in Tasks \ {e.task} : wake'[t] = w[t] /\ parked_on_channel'[t] = parked_on_channel[t]
    BY <1>0, <2>1, <2>2
  <2>6. ASSUME \A t \in Tasks : parked_on_channel[t] => w[t].kind # "Recv",
               NEW r, NEW rec, NEW acc, Spots(buffer, w, outbound, r, rec, acc), v \notin acc
        PROVE  Spots(buffer, wake', outbound, r, rec, acc \cup {v})
    <3>1. w[e.task].kind # "Recv" BY <2>2, <2>6
    <3> QED BY <2>2, <2>5, <2>6, <3>1, PutWake
  <2>7. \A t \in Tasks : \/ wake'[t] = w[t] /\ parked_on_channel'[t] = parked_on_channel[t]
                         \/ WokenHere(t)
    BY <1>w, <2>2, <2>5 DEF WokenHere
  <2> QED BY <1>0, <1>1, <1>2, <2>1, <2>3, <2>4, <2>6, <2>7 DEF Delivers
<1>5. CASE e.remote /\ v \in Portable
  <2> DEFINE f == Frame("Value", e.id, v)
  <2>1. outbound' = Append(outbound, f) /\ wake' = w /\ buffer' = buffer
          /\ parked_on_channel' = parked_on_channel
    BY <1>1, <1>5
  <2>2. f \in OutFrames /\ f.corr = e.id /\ f.type = "Value" /\ f.val = v BY <1>3, <1>5, MadeOut
  <2> HIDE DEF f
  <2>3. \A to, sq : Flow(to, recv_waiters, sq, outbound, to, recv_waiters', sq, outbound')
    BY <1>f, <1>5, <2>1, <2>2
  <2>4. ASSUME NEW r, NEW rec, NEW acc, Spots(buffer, w, outbound, r, rec, acc), v \notin acc
        PROVE  Spots(buffer', wake', outbound', r, rec, acc \cup {v})
    <3>1. Spots(buffer, w, Append(outbound, f), r, rec, acc \cup {v})
      BY <1>0, <2>2, <2>4, PutOut
    <3> QED BY <2>1, <3>1
  <2>8. /\ recv_waiters' \in Seq(RecvEntries) /\ outbound' \in Seq(OutFrames)
        /\ buffer' \in Seq(Values) /\ wake' \in [Tasks -> RWakes]
        /\ parked_on_channel' \in [Tasks -> BOOLEAN]
    BY <1>0, <1>1, <1>2, <2>1, <2>2
  <2>9. \A t \in Tasks : wake'[t] = w[t] /\ parked_on_channel'[t] = parked_on_channel[t]
    BY <2>1
  <2> QED BY <2>3, <2>4, <2>8, <2>9 DEF Delivers
<1>6. CASE e.remote /\ v \notin Portable
  <2> DEFINE f == Frame("RecvError", e.id, NoVal)
  <2>1. outbound' = Append(outbound, f) /\ wake' = w /\ buffer' = <<v>> \o buffer
          /\ parked_on_channel' = parked_on_channel
    BY <1>1, <1>6
  <2>2. f \in OutFrames /\ f.corr = e.id /\ f.type # "Value" BY <1>3, <1>6, MadeAns
  <2> HIDE DEF f
  <2>3. \A to, sq : Flow(to, recv_waiters, sq, outbound, to, recv_waiters', sq, outbound')
    BY <1>f, <1>6, <2>1, <2>2
  <2>4. ASSUME NEW r, NEW rec, NEW acc, Spots(buffer, w, outbound, r, rec, acc), v \notin acc
        PROVE  Spots(buffer', wake', outbound', r, rec, acc \cup {v})
    <3>1. Spots(<<v>> \o buffer, w, outbound, r, rec, acc \cup {v}) BY <1>0, <2>4, PutBuffer
    <3>2. ValKey[f] = NoVal BY <2>2, FrameKeys
    <3>3. Same(outbound, Append(outbound, f), ValKey, NoVal) BY <1>0, <2>2, <3>2, SameAppend
    <3>4. Same(r, r, RetKey, NoVal) BY SameKeys
    <3>5. Quiet(w, w) BY DEF Quiet
    <3>6. Spots(<<v>> \o buffer, w, Append(outbound, f), r, rec, acc \cup {v})
      BY <3>1, <3>3, <3>4, <3>5, SpotsSame
    <3> QED BY <2>1, <3>6
  <2>5. <<v>> \o buffer \in Seq(Values) BY <1>0
  <2>8. /\ recv_waiters' \in Seq(RecvEntries) /\ outbound' \in Seq(OutFrames)
        /\ buffer' \in Seq(Values) /\ wake' \in [Tasks -> RWakes]
        /\ parked_on_channel' \in [Tasks -> BOOLEAN]
    BY <1>0, <1>1, <1>2, <2>1, <2>2, <2>5
  <2>9. \A t \in Tasks : wake'[t] = w[t] /\ parked_on_channel'[t] = parked_on_channel[t]
    BY <2>1
  <2> QED BY <2>3, <2>4, <2>8, <2>9 DEF Delivers
<1>7. (e.remote \/ ~e.remote) /\ (v \in Portable \/ v \notin Portable) OBVIOUS
<1> QED BY <1>4, <1>5, <1>6, <1>7

(* Redelivering a value delivers it or puts it back at the front.           *)
LEMMA RedeliverFacts ==
  ASSUME ChanT, TaskT, NEW v \in Values, NEW w \in [Tasks -> RWakes], channel_redeliver(v, w)
  PROVE  Delivers(v, w)
<1>1. CASE deliver_to_recv(v, w, outbound) BY <1>1, HandOverFacts
<1>2. CASE ~deliver_to_recv(v, w, outbound)
  <2>1. /\ ~AnyLive(recv_waiters) /\ recv_waiters' = <<>> /\ buffer' = <<v>> \o buffer /\ wake' = w
        /\ outbound' = outbound /\ parked_on_channel' = parked_on_channel
    BY <1>2 DEF channel_redeliver
  <2>2. recv_waiters \in Seq(RecvEntries) /\ outbound \in Seq(OutFrames) /\ buffer \in Seq(Values)
          /\ parked_on_channel \in [Tasks -> BOOLEAN]
    BY DEF ChanT, TaskT
  <2>3. PICK f \in OutFrames : TRUE
    <3>1. 1 \in Corrs BY DEF Corrs
    <3> QED BY <3>1, MadeAns
  <2>4. \A to, sq : Flow(to, recv_waiters, sq, outbound, to, <<>>, sq, outbound)
    BY <2>1, <2>2, <2>3, FlowRecv
  <2>5. ASSUME NEW r, NEW rec, NEW acc, Spots(buffer, w, outbound, r, rec, acc), v \notin acc
        PROVE  Spots(<<v>> \o buffer, w, outbound, r, rec, acc \cup {v})
    BY <2>2, <2>5, PutBuffer
  <2>6. <<v>> \o buffer \in Seq(Values) /\ <<>> \in Seq(RecvEntries) BY <2>2
  <2> QED BY <2>1, <2>2, <2>4, <2>5, <2>6 DEF Delivers
<1> QED BY <1>1, <1>2

(* Local tasks are woken, nothing else happens to a task.                   *)
LEMMA WokenSteps ==
  ASSUME UNCHANGED <<coroVars, park_epoch, cancel_requested>>,
         \A t \in Tasks : \/ wake'[t] = wake[t] /\ parked_on_channel'[t] = parked_on_channel[t]
                          \/ WokenHere(t)
  PROVE  /\ \A t \in Tasks : TaskStep(t) /\ SameOp(t) /\ (parked_on_channel'[t] => parked_on_channel[t])
         /\ \A t \in RemoteTasks : Untouched(t)
<1>0. LocalTasks \cap RemoteTasks = {} BY ChannelAssumption
<1>1. ASSUME NEW t \in Tasks
      PROVE TaskStep(t) /\ SameOp(t) /\ (parked_on_channel'[t] => parked_on_channel[t])
  BY DEF TaskStep, Untouched, GetsWake, WokenHere, SameOp, coroVars
<1>2. ASSUME NEW t \in RemoteTasks PROVE Untouched(t)
  BY <1>0 DEF Untouched, WokenHere, SameOp, coroVars, Tasks
<1> QED BY <1>1, <1>2

(* A value no send has named yet is nowhere.                                *)
LEMMA NewValue ==
  ASSUME UpOK, NEW v \in Values, fate[v] = "new"
  PROVE  /\ ~Offered(v) /\ ~Held(v) /\ v \notin lost /\ v \notin Kept(fate, lost)
         /\ \A u \in Tasks : op[u] = "send" => opval[u] # v
<1>1. WayOK /\ SenderOK /\ SpotsOK BY DEF UpOK
<1>2. ~Offered(v) /\ ~Held(v) BY <1>1 DEF WayOK
<1>3. v \notin lost /\ v \notin Kept(fate, lost) BY <1>1 DEF SpotsOK, Kept
<1>4. \A u \in Tasks : op[u] = "send" => opval[u] # v BY <1>1 DEF SenderOK
<1> QED BY <1>2, <1>3, <1>4

(* One value's outcome changes, and with acceptance it is kept.             *)
LEMMA FateChange ==
  ASSUME ValT, NEW v \in Values, NEW x \in {"parked", "accepted", "refused", "cancelled"},
         fate' = [fate EXCEPT ![v] = x], v \notin Kept(fate, lost), v \notin lost
  PROVE  /\ fate' \in [Values -> {"new", "parked", "accepted", "refused", "cancelled"}]
         /\ \A u \in Values : fate'[u] = IF u = v THEN x ELSE fate[u]
         /\ x = "accepted" => Kept(fate', lost) = Kept(fate, lost) \cup {v}
         /\ x # "accepted" => Kept(fate', lost) = Kept(fate, lost)
<1>1. /\ fate' \in [Values -> {"new", "parked", "accepted", "refused", "cancelled"}]
      /\ \A u \in Values : fate'[u] = IF u = v THEN x ELSE fate[u]
  BY DEF ValT
<1> QED BY <1>1 DEF Kept

(* channel_send ends at once.                                               *)
SendAtOnce(t, v) == SendRefused(v) \/ SendHandOff(v) \/ SendBuffered(v)

(* A local send that does not park keeps the invariant.                     *)
LEMMA SendNowKeeps ==
  ASSUME RInv, OwnerUp, NEW t \in LocalTasks, NEW v \in Values, fate[v] = "new",
         SendAtOnce(t, v),
         UNCHANGED <<cap, refs, cancel_requested, park_epoch, received>>, UNCHANGED relayVars
  PROVE  RInv'
<1>0. RTypes BY DEF RInv
<1>1. /\ ChanT /\ TaskT /\ ValT
      /\ recv_waiters \in Seq(RecvEntries) /\ send_waiters \in Seq(SendEntries)
      /\ outbound \in Seq(OutFrames) /\ buffer \in Seq(Values) /\ toOwner \in Seq(ToFrames)
  BY <1>0 DEF RTypes, ChanT
<1>2. closed' = closed /\ send_waiters' = send_waiters /\ UNCHANGED coroVars
  BY DEF SendAtOnce, SendRefused, SendHandOff, SendBuffered, chanVars
<1>3. PICK x \in {"accepted", "refused"} : fate' = [fate EXCEPT ![v] = x]
  BY DEF SendAtOnce, SendRefused, SendHandOff, SendBuffered
<1>4. UNCHANGED <<toOwner, next_corr, pending, endpoint, opend, opcorr, dead, noticed, lost>>
  BY DEF relayVars
<1>p. PICK f0 \in OutFrames : TRUE
  <2>1. 1 \in Corrs BY DEF Corrs
  <2> QED BY <2>1, MadeAns
<1> DEFINE SpotStep == \A r, rec, acc : Spots(buffer, wake, outbound, r, rec, acc) /\ v \notin acc =>
                Spots(buffer', wake', outbound', r, rec, IF x = "accepted" THEN acc \cup {v} ELSE acc)
           Queues == /\ recv_waiters' \in Seq(RecvEntries) /\ outbound' \in Seq(OutFrames)
                     /\ buffer' \in Seq(Values) /\ wake' \in [Tasks -> RWakes]
                     /\ parked_on_channel' \in [Tasks -> BOOLEAN]
           Flows == \A to, sq : Flow(to, recv_waiters, sq, outbound, to, recv_waiters', sq, outbound')
           Wakings == \A u \in Tasks :
                        \/ wake'[u] = wake[u] /\ parked_on_channel'[u] = parked_on_channel[u]
                        \/ WokenHere(u)
<1>5. Queues /\ Flows /\ Wakings /\ (ParksOK => SpotStep)
  <2>1. CASE SendRefused(v)
    <3>1. /\ UNCHANGED <<chanVars, outbound, wakeVars>> /\ x = "refused"
      <4>1. fate'[v] = x /\ fate'[v] = "refused" BY <1>1, <1>3, <2>1 DEF SendRefused, ValT
      <4> QED BY <4>1, <2>1 DEF SendRefused
    <3>2. Queues BY <1>1, <3>1 DEF chanVars, wakeVars, TaskT
    <3>3. Flows BY <3>1, FlowSame DEF chanVars
    <3> QED BY <3>1, <3>2, <3>3 DEF chanVars, wakeVars
  <2>2. CASE SendHandOff(v)
    <3>1. x = "accepted"
      <4>1. fate'[v] = x /\ fate'[v] = "accepted" BY <1>1, <1>3, <2>2 DEF SendHandOff, ValT
      <4> QED BY <4>1
    <3>2. Delivers(v, wake) BY <1>1, <2>2, HandOverFacts DEF SendHandOff, TaskT
    <3>3. ParksOK => \A u \in Tasks : parked_on_channel[u] => wake[u].kind # "Recv"
      BY DEF ParksOK, Parks
    <3> QED BY <3>1, <3>2, <3>3 DEF Delivers
  <2>3. CASE SendBuffered(v)
    <3>1. /\ ~AnyLive(recv_waiters) /\ recv_waiters' = <<>> /\ buffer' = Append(buffer, v)
          /\ UNCHANGED <<outbound, wakeVars>> /\ x = "accepted"
      <4>1. fate'[v] = x /\ fate'[v] = "accepted" BY <1>1, <1>3, <2>3 DEF SendBuffered, ValT
      <4> QED BY <4>1, <2>3 DEF SendBuffered
    <3>2. Queues BY <1>1, <3>1 DEF wakeVars, TaskT
    <3>3. Flows
      <4>1. \A to, sq : Flow(to, recv_waiters, sq, outbound, to, <<>>, sq, outbound)
        BY <1>1, <1>p, <3>1, FlowRecv
      <4> QED BY <3>1, <4>1
    <3>4. SpotStep
      <4>1. ASSUME NEW r, NEW rec, NEW acc, Spots(buffer, wake, outbound, r, rec, acc), v \notin acc
            PROVE  Spots(Append(buffer, v), wake, outbound, r, rec, acc \cup {v})
        BY <1>1, <4>1, PutBuffer
      <4> QED BY <3>1, <4>1 DEF wakeVars
    <3>5. Wakings BY <3>1 DEF wakeVars
    <3> QED BY <3>2, <3>3, <3>4, <3>5
  <2> QED BY <2>1, <2>2, <2>3 DEF SendAtOnce
<1> HIDE DEF SpotStep, Flows, Queues, Wakings
<1>6. /\ \A u \in Tasks : TaskStep(u) /\ SameOp(u) /\ (parked_on_channel'[u] => parked_on_channel[u])
      /\ \A u \in RemoteTasks : Untouched(u)
  BY <1>2, <1>5, WokenSteps DEF Wakings
<1>7. ChanT' /\ TaskT'
  BY <1>1, <1>2, <1>4, <1>5 DEF ChanT, TaskT, Queues, coroVars
<1>8. ValT' BY <1>1, <1>3, <1>4 DEF ValT
<1>9. CorrKept BY <1>2, <1>4, <1>5 DEF CorrKept, Flows
<1>10. RemoteStill BY <1>4, <1>6 DEF RemoteStill
<1>11. ASSUME dead = "none" PROVE FitsOK' /\ SpotsOK' /\ WayOK' /\ SenderOK'
  <2>1. UpOK BY <1>11 DEF RInv
  <2>2. /\ ~Offered(v) /\ ~Held(v) /\ v \notin lost /\ v \notin Kept(fate, lost)
        /\ \A u \in Tasks : op[u] = "send" => opval[u] # v
    BY <2>1, NewValue
  <2>3. /\ \A u \in Values : fate'[u] = IF u = v THEN x ELSE fate[u]
        /\ x = "accepted" => Kept(fate', lost) = Kept(fate, lost) \cup {v}
        /\ x # "accepted" => Kept(fate', lost) = Kept(fate, lost)
    BY <1>1, <1>3, <2>2, FateChange
  <2>4. SpotsOK'
    <3>1. Spots(buffer, wake, outbound, toOwner, received, Kept(fate, lost))
            /\ \A u \in lost : fate[u] = "accepted"
      BY <2>1 DEF UpOK, SpotsOK
    <3>a. SpotStep BY <1>5, <2>1 DEF UpOK
    <3>b. Kept(fate', lost) = IF x = "accepted" THEN Kept(fate, lost) \cup {v} ELSE Kept(fate, lost)
      BY <2>3
    <3>2. Spots(buffer', wake', outbound', toOwner, received, Kept(fate', lost))
      BY <2>2, <3>1, <3>a, <3>b DEF SpotStep
    <3>3. \A u \in lost : fate'[u] = "accepted"
      BY <1>1, <2>2, <2>3, <3>1 DEF ValT
    <3> QED BY <1>4, <3>2, <3>3 DEF SpotsOK
  <2>5. Part(toOwner', toOwner) /\ Part(send_waiters', send_waiters)
    BY <1>1, <1>2, <1>4, PartFacts
  <2>6. FitsOK' BY <1>1, <1>2, <1>6, <2>1, <2>5, FitsKept2 DEF UpOK
  <2>7. WayOK /\ SenderOK /\ ParksOK BY <2>1 DEF UpOK
  <2>8. Once(toOwner', SendKey, NoVal) /\ Once(send_waiters', FarKey, NoVal)
    BY <1>2, <1>4, <2>7 DEF WayOK
  <2>9. \A u \in Values : \/ fate'[u] = fate[u]
                          \/ /\ fate'[u] # "new" /\ ~Offered(u)' /\ ~Held(u)'
                             /\ \A y \in LocalTasks : op'[y] = "send" /\ opval'[y] = u =>
                                                        ~parked_on_channel'[y]
    BY <1>2, <1>4, <2>2, <2>3 DEF Offered, Held, coroVars, Tasks
  <2>10. WayOK' /\ SenderOK'
    BY <1>1, <1>4, <1>6, <1>7, <2>5, <2>7, <2>8, <2>9, SendsKept DEF SameOp
  <2> QED BY <2>4, <2>6, <2>10
<1> QED BY <1>4, <1>6, <1>7, <1>8, <1>9, <1>10, <1>11, LocalKeeps

(* channel_send parks: a new sender, for a value that is nowhere yet.       *)
LEMMA SendParksKeeps ==
  ASSUME RInv, OwnerUp, NEW t \in LocalTasks, NEW v \in Values, fate[v] = "new", Idle(t),
         SendParked(t, v),
         UNCHANGED <<cap, refs, cancel_requested, park_epoch, received>>, UNCHANGED relayVars
  PROVE  RInv'
<1>0. RTypes BY DEF RInv
<1>1. /\ ChanT /\ TaskT /\ ValT
      /\ recv_waiters \in Seq(RecvEntries) /\ send_waiters \in Seq(SendEntries)
      /\ outbound \in Seq(OutFrames) /\ buffer \in Seq(Values) /\ toOwner \in Seq(ToFrames)
      /\ t \in Tasks /\ park_epoch[t] \in Nat
  BY <1>0 DEF RTypes, ChanT, TaskT, Tasks
<1> DEFINE e == LocalEntry(t, park_epoch[t], v)
<1>2. e \in SendEntries /\ ~e.remote /\ e.task = t /\ e.id = park_epoch[t] /\ e.val = v
  BY <1>1, MadeEntries DEF LocalEntry
<1>3. /\ ~AnyLive(recv_waiters) /\ recv_waiters' = <<>> /\ send_waiters' = Append(send_waiters, e)
      /\ fate' = [fate EXCEPT ![v] = "parked"]
      /\ UNCHANGED <<closed, buffer, outbound, wake>>
      /\ parked_on_channel' = [parked_on_channel EXCEPT ![t] = TRUE]
      /\ op' = [op EXCEPT ![t] = "send"] /\ opval' = [opval EXCEPT ![t] = v]
  BY DEF SendParked, ParkTask
<1>4. UNCHANGED <<toOwner, next_corr, pending, endpoint, opend, opcorr, dead, noticed, lost>>
  BY DEF relayVars
<1>p. PICK f0 \in OutFrames : TRUE
  <2>1. 1 \in Corrs BY DEF Corrs
  <2> QED BY <2>1, MadeAns
<1> HIDE DEF e
<1>5. /\ op'[t] = "send" /\ opval'[t] = v /\ parked_on_channel'[t] = TRUE
      /\ \A u \in Tasks \ {t} : op'[u] = op[u] /\ opval'[u] = opval[u]
                                  /\ parked_on_channel'[u] = parked_on_channel[u]
  BY <1>1, <1>3 DEF TaskT
<1>6. \A u \in Tasks : TaskStep(u)
  <2>1. GetsParked(t) BY <1>3, <1>5 DEF GetsParked, Idle
  <2>2. \A u \in Tasks \ {t} : Untouched(u) BY <1>3, <1>5 DEF Untouched, SameOp
  <2> QED BY <2>1, <2>2 DEF TaskStep
<1>7. RemoteStill
  <2>1. t \notin RemoteTasks BY ChannelAssumption
  <2> QED BY <1>3, <1>4, <1>5, <2>1 DEF RemoteStill, Untouched, SameOp, Tasks
<1>8. ChanT' /\ TaskT'
  <2>1. ChanT' BY <1>1, <1>2, <1>3, <1>4 DEF ChanT
  <2>2. TaskT' BY <1>1, <1>3 DEF TaskT
  <2> QED BY <2>1, <2>2
<1>9. ValT' BY <1>1, <1>3, <1>4 DEF ValT
<1>10. CorrKept
  <2>1. Flow(toOwner, recv_waiters, send_waiters, outbound, toOwner, <<>>, send_waiters, outbound)
    BY <1>1, <1>p, <1>3, FlowRecv
  <2>2. Flow(toOwner, <<>>, send_waiters, outbound, toOwner, <<>>, Append(send_waiters, e), outbound)
    <3>1. <<>> \in Seq(RecvEntries) OBVIOUS
    <3> QED BY <1>1, <1>2, <3>1, FlowLocal
  <2>3. Flow(toOwner, recv_waiters, send_waiters, outbound, toOwner', recv_waiters', send_waiters', outbound')
    BY <1>3, <1>4, <2>1, <2>2, FlowTrans
  <2> QED BY <2>3 DEF CorrKept
<1>11. ASSUME dead = "none" PROVE FitsOK' /\ SpotsOK' /\ WayOK' /\ SenderOK'
  <2>1. UpOK BY <1>11 DEF RInv
  <2>2. /\ ~Offered(v) /\ ~Held(v) /\ v \notin lost /\ v \notin Kept(fate, lost)
        /\ \A u \in Tasks : op[u] = "send" => opval[u] # v
    BY <2>1, NewValue
  <2>3. /\ \A u \in Values : fate'[u] = IF u = v THEN "parked" ELSE fate[u]
        /\ Kept(fate', lost) = Kept(fate, lost)
    BY <1>1, <1>3, <2>2, FateChange
  <2>4. SpotsOK'
    <3>1. \A u \in lost : fate'[u] = "accepted"
      BY <1>1, <2>1, <2>2, <2>3 DEF ValT, UpOK, SpotsOK
    <3> QED BY <1>3, <1>4, <2>1, <2>3, <3>1 DEF UpOK, SpotsOK
  <2>5. /\ Len(send_waiters') = Len(send_waiters) + 1 /\ Len(send_waiters) \in Nat
        /\ send_waiters'[Len(send_waiters) + 1] = e
        /\ \A i \in 1..Len(send_waiters) : send_waiters'[i] = send_waiters[i]
        /\ \A i \in 1..Len(send_waiters') : i \in 1..Len(send_waiters) \/ i = Len(send_waiters) + 1
    BY <1>1, <1>2, <1>3
  <2>6. FitsOK'
    <3> SUFFICES ASSUME NEW i \in 1..Len(send_waiters'), NEW x, x = send_waiters'[i], ~x.remote
                 PROVE  /\ x.id <= park_epoch[x.task]
                        /\ x.id = park_epoch[x.task] => op'[x.task] = "send" /\ opval'[x.task] = x.val
      BY DEF FitsOK, LocalFits
    <3>1. CASE i \in 1..Len(send_waiters)
      <4>1. x = send_waiters[i] /\ x \in SendEntries BY <1>1, <2>5, <3>1
      <4>2. LocalFits(x) BY <2>1, <3>1, <4>1 DEF UpOK, FitsOK
      <4>3. x.task \in Tasks BY <4>1 DEF SendEntries, Tasks
      <4> QED BY <1>5, <4>2, <4>3 DEF LocalFits, Idle
    <3>2. CASE i = Len(send_waiters) + 1 BY <1>1, <1>2, <1>5, <2>5, <3>2
    <3> QED BY <2>5, <3>1, <3>2
  <2>7. WayOK /\ SenderOK /\ ParksOK BY <2>1 DEF UpOK
  <2>8. FarKey[e] = NoVal BY <1>2, EntryKeys
  <2>9. Same(send_waiters, send_waiters', FarKey, NoVal) BY <1>1, <1>2, <1>3, <2>8, SameAppend
  <2>a. \A u \in Values : Has(send_waiters', FarKey, u) <=> Has(send_waiters, FarKey, u)
    BY <2>9, ChannelAssumption DEF Same
  <2>10. WayOK'
    BY <1>4, <2>2, <2>3, <2>7, <2>9, <2>a DEF WayOK, Offered, Held, Same
  <2>11. SenderOK'
    <3>1. \A u \in Tasks : op'[u] = "send" =>
            u = t \/ (u # t /\ op[u] = "send" /\ opval'[u] = opval[u] /\ opval[u] \in Values /\ opval[u] # v)
      BY <1>5, <2>2, <2>7 DEF ParksOK, Parks
    <3>2. \A y, u \in Tasks : op'[y] = "send" /\ op'[u] = "send" /\ opval'[y] = opval'[u] => y = u
      BY <1>5, <2>7, <3>1 DEF SenderOK
    <3>3. \A u \in Tasks : op'[u] = "send" => fate'[opval'[u]] # "new"
      BY <1>5, <2>3, <2>7, <3>1 DEF SenderOK
    <3>4. \A u \in LocalTasks : op'[u] = "send" => /\ ~Offered(opval'[u]) /\ ~Held(opval'[u])
                                                   /\ parked_on_channel'[u] => fate'[opval'[u]] = "parked"
      BY <1>5, <2>2, <2>3, <2>7, <3>1 DEF SenderOK, Tasks
    <3>5. \A u \in LocalTasks : op'[u] = "send" =>
            /\ ~Has(toOwner', SendKey, opval'[u]) /\ ~Has(send_waiters', FarKey, opval'[u])
      BY <1>4, <1>5, <2>a, <3>1, <3>4 DEF Offered, Held, Tasks
    <3>6. ASSUME NEW u \in RemoteTasks, op'[u] = "send" PROVE OfferFits(u)'
      <4>1. u # t /\ u \in Tasks BY ChannelAssumption DEF Tasks
      <4>2. op[u] = "send" /\ opval'[u] = opval[u] /\ opval[u] # NoVal
        BY <3>1, <3>6, <4>1, ChannelAssumption
      <4>3. OfferFits(u) BY <2>7, <4>2 DEF SenderOK
      <4>4. ASSUME NEW i \in 1..Len(send_waiters'), FarKey[send_waiters'[i]] = opval[u]
            PROVE  send_waiters'[i].id = opcorr[u]
        <5>1. i \in 1..Len(send_waiters) BY <2>5, <2>8, <4>2, <4>4
        <5> QED BY <2>5, <4>3, <4>4, <5>1 DEF OfferFits
      <4> QED BY <1>4, <4>2, <4>3, <4>4 DEF OfferFits
    <3> QED BY <3>2, <3>3, <3>4, <3>5, <3>6 DEF SenderOK, Offered, Held
  <2> QED BY <2>4, <2>6, <2>10, <2>11
<1> QED BY <1>3, <1>4, <1>6, <1>7, <1>8, <1>9, <1>10, <1>11, LocalKeeps

(* Channel.send: at the owner keeps the invariant.                          *)
LEMMA ChannelSendKeeps ==
  ASSUME RInv, OwnerUp, NEW t \in LocalTasks, NEW v \in Values, channel_send(t, v),
         UNCHANGED relayVars
  PROVE  RInv'
<1>1. /\ fate[v] = "new" /\ Idle(t)
      /\ UNCHANGED <<cap, refs, cancel_requested, park_epoch, received>>
      /\ SendAtOnce(t, v) \/ SendParked(t, v)
  BY DEF channel_send, SendAtOnce
<1>2. CASE SendAtOnce(t, v) BY <1>1, <1>2, SendNowKeeps
<1>3. CASE SendParked(t, v) BY <1>1, <1>3, SendParksKeeps
<1> QED BY <1>1, <1>2, <1>3

(* A local step that adds no sender: the values whose fate it settles leave *)
(* the queue.                                                               *)
Settles ==
  /\ Part(send_waiters', send_waiters) /\ Once(send_waiters', FarKey, NoVal)
  /\ \A v \in Values : \/ fate'[v] = fate[v]
                       \/ /\ fate'[v] # "new" /\ ~Offered(v)' /\ ~Held(v)'
                          /\ \A t \in LocalTasks : op'[t] = "send" /\ opval'[t] = v =>
                                                     ~parked_on_channel'[t]
NoNewSender ==
  \A t \in Tasks : \/ op'[t] # "send"
                   \/ op'[t] = op[t] /\ opval'[t] = opval[t]
                        /\ (parked_on_channel'[t] => parked_on_channel[t])

(* What a step of the owner has to show that starts no sender.              *)
LEMMA SettleKeeps ==
  ASSUME RInv, OwnerUp, RemoteStill, toOwner' = toOwner, refs' = refs,
         ChanT', TaskT', ValT', CorrKept, \A t \in Tasks : TaskStep(t), NoNewSender,
         dead = "none" => SpotsOK' /\ Settles
  PROVE  RInv'
<1>1. ASSUME dead = "none" PROVE FitsOK' /\ SpotsOK' /\ WayOK' /\ SenderOK'
  <2>1. UpOK /\ ChanT /\ TaskT /\ Settles BY <1>1 DEF RInv, RTypes
  <2>2. send_waiters \in Seq(SendEntries) /\ toOwner \in Seq(ToFrames)
          /\ send_waiters' \in Seq(SendEntries)
    BY <2>1 DEF ChanT
  <2>3. FitsOK /\ WayOK /\ SenderOK /\ ParksOK BY <2>1 DEF UpOK
  <2>4. FitsOK' BY <2>1, <2>2, <2>3, FitsKept2 DEF Settles
  <2>5. Part(toOwner', toOwner) BY <2>2, PartFacts
  <2>6. Once(toOwner', SendKey, NoVal) BY <2>3 DEF WayOK
  <2>7. opcorr' = opcorr BY DEF RemoteStill
  <2>8. WayOK' /\ SenderOK'
    BY <2>1, <2>3, <2>5, <2>6, <2>7, SendsKept DEF Settles, NoNewSender
  <2> QED BY <1>1, <2>4, <2>8
<1> QED BY <1>1, LocalKeeps

(* The first live sender is promoted: its value is accepted, it leaves the  *)
(* queue, and is woken or answered.                                         *)
Sender == PopLive(send_waiters)
OutAck == IF Sender.remote THEN Append(outbound, Frame("Ack", Sender.id, NoVal)) ELSE outbound
Promotion ==
  /\ AnyLive(send_waiters) /\ send_waiters' = AfterPop(send_waiters)
  /\ fate' = [fate EXCEPT ![Sender.val] = "accepted"]
  /\ ~Sender.remote => wake_channel_task(Sender.task, Wake("SendOk", NoVal))
  /\ Sender.remote => UNCHANGED wakeVars
  /\ UNCHANGED <<coroVars, lost>>
PromotedQueue ==
  /\ Sender \in SendEntries /\ Sender.val \in Values
  /\ send_waiters' \in Seq(SendEntries) /\ OutAck \in Seq(OutFrames)
  /\ wake' \in [Tasks -> RWakes] /\ parked_on_channel' \in [Tasks -> BOOLEAN]
  /\ Same(outbound, OutAck, ValKey, NoVal)
  /\ \A to, rq : Flow(to, rq, send_waiters, outbound, to, rq, send_waiters', OutAck)
  /\ \A t \in Tasks : \/ wake'[t] = wake[t] /\ parked_on_channel'[t] = parked_on_channel[t]
                      \/ WokenHere(t) /\ wake'[t].kind # "Recv"
  /\ Part(send_waiters', send_waiters)
PromotedValue ==
  /\ Quiet(wake, wake') /\ Once(send_waiters', FarKey, NoVal)
  /\ fate[Sender.val] = "parked" /\ Sender.val \notin lost /\ Sender.val \notin Kept(fate, lost)
  /\ ~Has(toOwner, SendKey, Sender.val) /\ ~Has(send_waiters', FarKey, Sender.val)
  /\ \A t \in LocalTasks : op[t] = "send" /\ opval[t] = Sender.val => ~parked_on_channel'[t]

(* Completing the popped sender: the queues, the lanes and the tasks.       *)
LEMMA PromoteQueue ==
  ASSUME ChanT, TaskT, Promotion PROVE PromotedQueue
<1> DEFINE s == Sender
<1>0. send_waiters \in Seq(SendEntries) /\ outbound \in Seq(OutFrames)
        /\ wake \in [Tasks -> RWakes] /\ parked_on_channel \in [Tasks -> BOOLEAN]
  BY DEF ChanT, TaskT
<1>1. AfterPop(send_waiters) \in Seq(SendEntries) /\ s \in SendEntries /\ EntryLive(s)
  BY <1>0, PopSend DEF Promotion, Sender
<1>2. /\ s \in Entries /\ s.val \in Values /\ (s.remote => s.id \in Corrs)
      /\ (~s.remote => s.task \in LocalTasks)
  BY <1>1 DEF SendEntries, Entries, Corrs
<1> DEFINE ack == Frame("Ack", s.id, NoVal)
<1>3. s.remote => ack \in OutFrames /\ ack.corr = s.id /\ ValKey[ack] = NoVal
  BY <1>2, MadeAns, FrameKeys
<1>4. send_waiters' = AfterPop(send_waiters) BY DEF Promotion
<1>p. PICK f0 \in OutFrames : TRUE
  <2>1. 1 \in Corrs BY DEF Corrs
  <2> QED BY <2>1, MadeAns
<1>5. OutAck \in Seq(OutFrames) /\ Same(outbound, OutAck, ValKey, NoVal)
  <2>1. CASE s.remote
    <3>1. Same(outbound, Append(outbound, ack), ValKey, NoVal) BY <1>0, <1>3, <2>1, SameAppend
    <3> QED BY <1>0, <1>3, <2>1, <3>1 DEF OutAck
  <2>2. CASE ~s.remote BY <1>0, <2>2, SameKeys DEF OutAck
  <2> QED BY <2>1, <2>2
<1>6. ASSUME NEW to, NEW rq
  PROVE Flow(to, rq, send_waiters, outbound, to, rq, send_waiters', OutAck)
  <2>0. AnyLive(send_waiters) BY DEF Promotion
  <2>1. CASE s.remote
    <3>1. Flow(to, rq, send_waiters, outbound, to, rq, AfterPop(send_waiters), Append(outbound, ack))
      BY <1>0, <1>3, <2>0, <2>1, FlowSend DEF Sender
    <3> QED BY <1>4, <2>1, <3>1 DEF OutAck
  <2>2. CASE ~s.remote
    <3>1. Flow(to, rq, send_waiters, outbound, to, rq, AfterPop(send_waiters), outbound)
      BY <1>0, <1>p, <2>0, <2>2, FlowSend DEF Sender
    <3> QED BY <1>4, <2>2, <3>1 DEF OutAck
  <2> QED BY <2>1, <2>2
<1>7. Part(send_waiters', send_waiters) BY <1>0, <1>4, PartFacts, EntryKeys
<1>8. /\ wake' \in [Tasks -> RWakes] /\ parked_on_channel' \in [Tasks -> BOOLEAN]
      /\ \A t \in Tasks : \/ wake'[t] = wake[t] /\ parked_on_channel'[t] = parked_on_channel[t]
                          \/ WokenHere(t) /\ wake'[t].kind # "Recv"
  <2>1. CASE s.remote BY <1>0, <2>1 DEF Promotion, wakeVars
  <2>2. CASE ~s.remote
    <3>1. s.task \in Tasks /\ parked_on_channel[s.task] BY <1>1, <1>2, <2>2, LiveTask
    <3>2. /\ parked_on_channel' = [parked_on_channel EXCEPT ![s.task] = FALSE]
          /\ wake' = [wake EXCEPT ![s.task] = Wake("SendOk", NoVal)]
      BY <2>2 DEF Promotion, wake_channel_task
    <3>3. Wake("SendOk", NoVal) \in RWakes /\ Wake("SendOk", NoVal).kind = "SendOk"
      BY DEF Wake, RWakes, Wakes
    <3> HIDE DEF s
    <3>4. wake' \in [Tasks -> RWakes] /\ parked_on_channel' \in [Tasks -> BOOLEAN]
      BY <1>0, <3>2, <3>3
    <3>5. \A t \in Tasks : t # s.task => wake'[t] = wake[t] /\ parked_on_channel'[t] = parked_on_channel[t]
      BY <1>0, <3>2
    <3>6. wake'[s.task] = Wake("SendOk", NoVal) /\ ~parked_on_channel'[s.task]
      BY <1>0, <3>1, <3>2
    <3>7. WokenHere(s.task) /\ wake'[s.task].kind # "Recv"
      BY <1>2, <2>2, <3>1, <3>3, <3>6 DEF WokenHere
    <3> QED BY <3>4, <3>5, <3>7
  <2> QED BY <2>1, <2>2
<1> QED BY <1>1, <1>2, <1>4, <1>5, <1>6, <1>7, <1>8 DEF PromotedQueue

(* Completing the popped sender: the values and the outcomes.               *)
LEMMA PromoteValue ==
  ASSUME ChanT, TaskT, Promotion, UpOK PROVE PromotedValue
<1> DEFINE s == Sender
<1>0. send_waiters \in Seq(SendEntries) BY DEF ChanT
<1>1. WayOK /\ SenderOK /\ ParksOK /\ FitsOK /\ SpotsOK BY DEF UpOK
<1>2. PromotedQueue BY PromoteQueue
<1>3. AnyLive(send_waiters) /\ send_waiters' = AfterPop(send_waiters) BY DEF Promotion
<1>4. s \in SendEntries /\ s.val \in Values /\ EntryLive(s)
  BY <1>0, <1>2, <1>3, PopSend DEF PromotedQueue, Sender
<1>5. /\ \A v \in Values : (Has(send_waiters, FarKey, v) <=> (s.remote /\ s.val = v)
                                                             \/ Has(send_waiters', FarKey, v))
      /\ Once(send_waiters', FarKey, NoVal)
      /\ s.remote => ~Has(send_waiters', FarKey, s.val)
  BY <1>0, <1>1, <1>3, PopFar DEF Sender, WayOK
<1>6. Quiet(wake, wake')
  BY <1>1, <1>2 DEF Quiet, PromotedQueue, WokenHere, ParksOK, Parks
<1> HIDE DEF s
<1>7. /\ fate[s.val] = "parked" /\ ~Has(toOwner, SendKey, s.val) /\ ~Has(send_waiters', FarKey, s.val)
      /\ \A t \in LocalTasks : op[t] = "send" /\ opval[t] = s.val => ~parked_on_channel'[t]
  <2>1. CASE s.remote
    <3>1. Held(s.val) BY <1>4, <1>5, <2>1 DEF Held
    <3>2. fate[s.val] = "parked" /\ ~Offered(s.val) BY <1>1, <1>4, <3>1 DEF WayOK
    <3>3. \A t \in LocalTasks : op[t] = "send" => opval[t] # s.val BY <1>1, <3>1 DEF SenderOK
    <3> QED BY <1>5, <2>1, <3>2, <3>3 DEF Offered
  <2>2. CASE ~s.remote
    <3>1. s \in Entries /\ s.task \in LocalTasks BY <1>4, <2>2 DEF SendEntries
    <3>2. s.task \in Tasks /\ parked_on_channel[s.task] /\ s.id = park_epoch[s.task]
      BY <1>4, <2>2, <3>1, LiveTask
    <3>3. LocalFits(s)
      <4>1. \E i \in 1..Len(send_waiters) : s = send_waiters[i]
        <5>1. send_waiters \in Seq(Entries) BY <1>0, EntryKeys
        <5>2. PICK m \in 1..Len(send_waiters) : PopLive(send_waiters) = send_waiters[m]
          BY <1>3, <5>1, PopFacts
        <5> QED BY <5>2 DEF s, Sender
      <4> QED BY <1>1, <4>1 DEF FitsOK
    <3>4. op[s.task] = "send" /\ opval[s.task] = s.val BY <2>2, <3>2, <3>3 DEF LocalFits
    <3>5. ~Offered(s.val) /\ ~Held(s.val) /\ fate[s.val] = "parked"
      BY <1>1, <3>1, <3>2, <3>4 DEF SenderOK
    <3>6. ~parked_on_channel'[s.task]
      <4>1. wake_channel_task(s.task, Wake("SendOk", NoVal)) BY <2>2 DEF Promotion, s
      <4> QED BY <4>1, <3>2 DEF wake_channel_task, TaskT
    <3>7. \A t \in LocalTasks : op[t] = "send" /\ opval[t] = s.val => t = s.task
      BY <1>1, <3>1, <3>4 DEF SenderOK, Tasks
    <3> QED BY <1>4, <1>5, <3>5, <3>6, <3>7 DEF Offered, Held
  <2> QED BY <2>1, <2>2
<1>8. s.val \notin lost /\ s.val \notin Kept(fate, lost)
  BY <1>1, <1>7 DEF SpotsOK, Kept
<1> QED BY <1>5, <1>6, <1>7, <1>8 DEF PromotedValue, s

(* complete_send is such a promotion.                                       *)
LEMMA CompletePromotes ==
  ASSUME AnyLive(send_waiters), send_waiters' = AfterPop(send_waiters),
         complete_send(PopLive(send_waiters)), UNCHANGED <<coroVars, lost>>
  PROVE  Promotion /\ outbound' = OutAck
  BY DEF complete_send, Promotion, OutAck, Sender

(* Settling the promoted sender's value.                                    *)
LEMMA PromotionSettles ==
  ASSUME ChanT, TaskT, ValT, Promotion, UpOK, Part(toOwner', toOwner)
  PROVE  /\ Settles
         /\ Kept(fate', lost) = Kept(fate, lost) \cup {Sender.val}
         /\ \A u \in lost : fate'[u] = "accepted"
<1>1. PromotedQueue /\ PromotedValue BY PromoteQueue, PromoteValue
<1>2. Sender.val \in Values /\ Sender.val \notin lost /\ Sender.val \notin Kept(fate, lost)
  BY <1>1 DEF PromotedQueue, PromotedValue
<1>3. fate' = [fate EXCEPT ![Sender.val] = "accepted"] BY DEF Promotion
<1>4. /\ \A u \in Values : fate'[u] = IF u = Sender.val THEN "accepted" ELSE fate[u]
      /\ Kept(fate', lost) = Kept(fate, lost) \cup {Sender.val}
  BY <1>2, <1>3, FateChange
<1>5. \A u \in lost : fate'[u] = "accepted"
  BY <1>2, <1>4 DEF UpOK, SpotsOK, ValT
<1>6. Settles
  <2>1. UNCHANGED <<op, opval>> BY DEF Promotion, coroVars
  <2>3. \A v : Has(toOwner', SendKey, v) => Has(toOwner, SendKey, v) BY DEF Part, Has
  <2>2. ASSUME NEW v \in Values
        PROVE  \/ fate'[v] = fate[v]
               \/ /\ fate'[v] # "new" /\ ~Has(toOwner', SendKey, v) /\ ~Has(send_waiters', FarKey, v)
                  /\ \A t \in LocalTasks : op'[t] = "send" /\ opval'[t] = v => ~parked_on_channel'[t]
    BY <1>1, <1>4, <2>1, <2>3 DEF PromotedValue
  <2> QED BY <1>1, <2>2 DEF PromotedQueue, PromotedValue, Settles, Offered, Held
<1> QED BY <1>4, <1>5, <1>6

(* channel_recv finds a value.                                              *)
LEMMA RecvNowKeeps ==
  ASSUME RInv, OwnerUp, NEW t \in LocalTasks, RecvNow,
         UNCHANGED <<cap, refs, cancel_requested, park_epoch>>, UNCHANGED relayVars
  PROVE  RInv'
<1>0. RTypes BY DEF RInv
<1>1. /\ ChanT /\ TaskT /\ ValT
      /\ recv_waiters \in Seq(RecvEntries) /\ send_waiters \in Seq(SendEntries)
      /\ outbound \in Seq(OutFrames) /\ buffer \in Seq(Values) /\ toOwner \in Seq(ToFrames)
      /\ received \in [Values -> Nat]
  BY <1>0 DEF RTypes, ChanT, ValT
<1>2. closed' = closed /\ recv_waiters' = recv_waiters /\ UNCHANGED coroVars
        /\ received' = [received EXCEPT ![Oldest] = @ + 1]
        /\ send_waiters' = AfterPop(send_waiters)
  BY DEF RecvNow, TakeBuffered, TakeFromSender
<1>4. UNCHANGED <<toOwner, next_corr, pending, endpoint, opend, opcorr, dead, noticed, lost>>
  BY DEF relayVars
<1>p. PICK f0 \in OutFrames : TRUE
  <2>1. 1 \in Corrs BY DEF Corrs
  <2> QED BY <2>1, MadeAns
<1> DEFINE Queues == /\ send_waiters' \in Seq(SendEntries) /\ outbound' \in Seq(OutFrames)
                     /\ buffer' \in Seq(Values) /\ wake' \in [Tasks -> RWakes]
                     /\ parked_on_channel' \in [Tasks -> BOOLEAN] /\ Oldest \in Values
                     /\ fate' \in [Values -> {"new", "parked", "accepted", "refused", "cancelled"}]
           Flows == \A to, rq : Flow(to, rq, send_waiters, outbound, to, rq, send_waiters', outbound')
           Wakings == \A u \in Tasks :
                        \/ wake'[u] = wake[u] /\ parked_on_channel'[u] = parked_on_channel[u]
                        \/ WokenHere(u)
<1>r. Oldest \in Values => /\ received' \in [Values -> Nat] /\ received'[Oldest] = received[Oldest] + 1
                           /\ \A x \in Values \ {Oldest} : received'[x] = received[x]
  BY <1>1, <1>2
<1>t. Part(toOwner', toOwner) BY <1>1, <1>4, PartFacts
<1>s. UpOK => Spots(buffer, wake, outbound, toOwner, received, Kept(fate, lost))
  BY DEF UpOK, SpotsOK
<1>5. Queues /\ Flows /\ Wakings /\ (UpOK => SpotsOK' /\ Settles)
  <2>1. CASE AnyLive(send_waiters)
    <3>1. Promotion /\ outbound' = OutAck
      <4>1. complete_send(PopLive(send_waiters)) BY <2>1 DEF RecvNow, TakeBuffered, TakeFromSender
      <4> QED BY <1>2, <1>4, <2>1, <4>1, CompletePromotes
    <3>2. PromotedQueue BY <1>1, <3>1, PromoteQueue
    <3>3. Flows BY <3>1, <3>2 DEF PromotedQueue
    <3>4. Wakings BY <3>2 DEF PromotedQueue
    <3>5. /\ send_waiters' \in Seq(SendEntries) /\ outbound' \in Seq(OutFrames)
          /\ wake' \in [Tasks -> RWakes] /\ parked_on_channel' \in [Tasks -> BOOLEAN]
          /\ Sender.val \in Values
      BY <3>1, <3>2 DEF PromotedQueue
    <3>6. fate' \in [Values -> {"new", "parked", "accepted", "refused", "cancelled"}]
      BY <1>1, <3>1, <3>5 DEF Promotion, ValT
    <3>7. CASE buffer # <<>>
      <4>1. buffer' = Append(Tail(buffer), Sender.val) /\ Oldest = Head(buffer)
        BY <2>1, <3>7 DEF RecvNow, TakeBuffered, TakeFromSender, Oldest, Sender
      <4>2. Head(buffer) \in Values /\ Tail(buffer) \in Seq(Values) BY <1>1, <3>7
      <4>3. Queues BY <3>5, <3>6, <4>1, <4>2
      <4>4. ASSUME UpOK PROVE SpotsOK' /\ Settles
        <5>1. /\ Settles
              /\ Kept(fate', lost) = Kept(fate, lost) \cup {Sender.val}
              /\ \A u \in lost : fate'[u] = "accepted"
          BY <1>1, <1>t, <3>1, <4>4, PromotionSettles
        <5>2. PromotedValue BY <1>1, <3>1, <4>4, PromoteValue
        <5> DEFINE acc == Kept(fate, lost)
                   h == Head(buffer)
        <5>3. h \in acc /\ Spots(Tail(buffer), wake, outbound, toOwner, received, acc \ {h})
          BY <1>1, <1>s, <3>7, <4>4, TakeHead
        <5>4. (acc \ {h}) \cup {h} = acc BY <5>3
        <5>5. Spots(Tail(buffer), wake, outbound, toOwner, received', (acc \ {h}) \cup {h})
          BY <1>r, <4>1, <4>2, <5>3, PutReceived
        <5> HIDE DEF acc, h
        <5>6. Same(outbound, OutAck, ValKey, NoVal) /\ Quiet(wake, wake')
          BY <3>2, <5>2 DEF PromotedQueue, PromotedValue
        <5>7. Same(toOwner, toOwner, RetKey, NoVal) BY SameKeys
        <5>8. Spots(Tail(buffer), wake', OutAck, toOwner, received', acc)
          BY <5>4, <5>5, <5>6, <5>7, SpotsSame
        <5>9. Spots(Append(Tail(buffer), Sender.val), wake', OutAck, toOwner, received', acc \cup {Sender.val})
          BY <3>5, <4>2, <5>2, <5>8, PutBuffer DEF PromotedValue, acc
        <5> QED BY <1>4, <3>1, <4>1, <5>1, <5>9 DEF SpotsOK, acc
      <4> QED BY <3>3, <3>4, <4>3, <4>4
    <3>8. CASE buffer = <<>>
      <4>1. buffer' = buffer /\ Oldest = Sender.val
        BY <2>1, <3>8 DEF RecvNow, TakeBuffered, TakeFromSender, Oldest, Sender
      <4>3. Queues BY <1>1, <3>5, <3>6, <4>1
      <4>4. ASSUME UpOK PROVE SpotsOK' /\ Settles
        <5>1. /\ Settles
              /\ Kept(fate', lost) = Kept(fate, lost) \cup {Sender.val}
              /\ \A u \in lost : fate'[u] = "accepted"
          BY <1>1, <1>t, <3>1, <4>4, PromotionSettles
        <5>2. PromotedValue BY <1>1, <3>1, <4>4, PromoteValue
        <5>6. Same(outbound, OutAck, ValKey, NoVal) /\ Quiet(wake, wake')
          BY <3>2, <5>2 DEF PromotedQueue, PromotedValue
        <5>7. Same(toOwner, toOwner, RetKey, NoVal) BY SameKeys
        <5>8. Spots(buffer, wake', OutAck, toOwner, received, Kept(fate, lost))
          BY <1>s, <4>4, <5>6, <5>7, SpotsSame
        <5>9. Spots(buffer, wake', OutAck, toOwner, received', Kept(fate, lost) \cup {Sender.val})
          BY <1>r, <3>5, <4>1, <5>2, <5>8, PutReceived DEF PromotedValue
        <5> QED BY <1>4, <3>1, <4>1, <5>1, <5>9 DEF SpotsOK
      <4> QED BY <3>3, <3>4, <4>3, <4>4
    <3> QED BY <3>7, <3>8
  <2>2. CASE ~AnyLive(send_waiters)
    <3>1. /\ buffer # <<>> /\ buffer' = Tail(buffer) /\ UNCHANGED <<outbound, wakeVars, fate>>
          /\ send_waiters' = <<>> /\ Oldest = Head(buffer)
      BY <1>2, <2>2 DEF RecvNow, TakeBuffered, TakeFromSender, Oldest, AfterPop
    <3>2. Head(buffer) \in Values /\ Tail(buffer) \in Seq(Values) BY <1>1, <3>1
    <3>3. Queues BY <1>1, <3>1, <3>2 DEF wakeVars, TaskT, ValT
    <3>4. Flows
      <4>1. \A to, rq : Flow(to, rq, send_waiters, outbound, to, rq, <<>>, outbound)
        BY <1>1, <1>p, <2>2, FlowSend
      <4> QED BY <3>1, <4>1
    <3>5. Wakings BY <3>1 DEF wakeVars
    <3>6. ASSUME UpOK PROVE SpotsOK' /\ Settles
      <4> DEFINE acc == Kept(fate, lost)
                 h == Head(buffer)
      <4>1. h \in acc /\ Spots(Tail(buffer), wake, outbound, toOwner, received, acc \ {h})
        BY <1>1, <1>s, <3>1, <3>6, TakeHead
      <4>2. (acc \ {h}) \cup {h} = acc BY <4>1
      <4>3. Spots(Tail(buffer), wake, outbound, toOwner, received', (acc \ {h}) \cup {h})
        BY <1>r, <3>1, <3>2, <4>1, PutReceived
      <4>4. SpotsOK'
        <5>1. Spots(Tail(buffer), wake, outbound, toOwner, received', acc) BY <4>2, <4>3
        <5> QED BY <1>4, <3>1, <3>6, <5>1 DEF SpotsOK, UpOK, wakeVars
      <4>5. Part(send_waiters', send_waiters) BY <1>1, <3>1, PartFacts
      <4>6. Once(send_waiters', FarKey, NoVal) BY <3>1, HasNone
      <4>7. Settles BY <3>1, <4>5, <4>6 DEF Settles
      <4> QED BY <4>4, <4>7
    <3> QED BY <3>3, <3>4, <3>5, <3>6
  <2> QED BY <2>1, <2>2
<1> HIDE DEF Flows, Queues, Wakings
<1>6. /\ \A u \in Tasks : TaskStep(u) /\ SameOp(u) /\ (parked_on_channel'[u] => parked_on_channel[u])
      /\ \A u \in RemoteTasks : Untouched(u)
  BY <1>2, <1>5, WokenSteps DEF Wakings
<1>7. ChanT' /\ TaskT'
  BY <1>1, <1>2, <1>4, <1>5 DEF ChanT, TaskT, Queues, coroVars
<1>8. ValT' BY <1>1, <1>r, <1>4, <1>5 DEF ValT, Queues
<1>9. CorrKept BY <1>2, <1>4, <1>5 DEF CorrKept, Flows
<1>10. RemoteStill BY <1>4, <1>6 DEF RemoteStill
<1>11. NoNewSender BY <1>6 DEF NoNewSender, SameOp
<1>12. dead = "none" => SpotsOK' /\ Settles BY <1>5 DEF RInv
<1> QED BY <1>4, <1>6, <1>7, <1>8, <1>9, <1>10, <1>11, <1>12, SettleKeeps

(* channel_recv on a closed channel, and channel_recv that parks: the       *)
(* senders left are ghosts.                                                 *)
LEMMA RecvEndsKeeps ==
  ASSUME RInv, OwnerUp, RecvClosed,
         UNCHANGED <<cap, refs, cancel_requested, park_epoch>>, UNCHANGED relayVars
  PROVE  RInv'
<1>0. RTypes BY DEF RInv
<1>1. /\ ChanT /\ TaskT /\ ValT /\ send_waiters \in Seq(SendEntries) /\ outbound \in Seq(OutFrames)
  BY <1>0 DEF RTypes, ChanT
<1>2. /\ ~AnyLive(send_waiters) /\ send_waiters' = <<>>
      /\ UNCHANGED <<closed, buffer, recv_waiters, outbound, wakeVars, coroVars, fate, received>>
  BY DEF RecvClosed, Available
<1>4. UNCHANGED <<toOwner, next_corr, pending, endpoint, opend, opcorr, dead, noticed, lost>>
  BY DEF relayVars
<1>p. PICK f0 \in OutFrames : TRUE
  <2>1. 1 \in Corrs BY DEF Corrs
  <2> QED BY <2>1, MadeAns
<1>5. CorrKept
  <2>1. Flow(toOwner, recv_waiters, send_waiters, outbound, toOwner, recv_waiters, <<>>, outbound)
    BY <1>1, <1>2, <1>p, FlowSend
  <2> QED BY <1>2, <1>4, <2>1 DEF CorrKept
<1>6. \A t \in Tasks : wake'[t] = wake[t] /\ parked_on_channel'[t] = parked_on_channel[t]
  BY <1>2 DEF wakeVars
<1>7. /\ \A u \in Tasks : TaskStep(u) /\ SameOp(u) /\ (parked_on_channel'[u] => parked_on_channel[u])
      /\ \A u \in RemoteTasks : Untouched(u)
  BY <1>2, <1>6, WokenSteps
<1>8. ChanT' /\ TaskT' /\ ValT'
  BY <1>1, <1>2, <1>4 DEF ChanT, TaskT, ValT, wakeVars, coroVars
<1>9. RemoteStill BY <1>4, <1>7 DEF RemoteStill
<1>10. NoNewSender BY <1>7 DEF NoNewSender, SameOp
<1>11. dead = "none" => SpotsOK' /\ Settles
  <2>1. dead = "none" => SpotsOK' BY <1>2, <1>4 DEF RInv, UpOK, SpotsOK, wakeVars
  <2>2. Part(send_waiters', send_waiters) BY <1>1, <1>2, PartFacts
  <2>3. Once(send_waiters', FarKey, NoVal) BY <1>2, HasNone
  <2> QED BY <1>2, <2>1, <2>2, <2>3 DEF Settles
<1> QED BY <1>4, <1>5, <1>7, <1>8, <1>9, <1>10, <1>11, SettleKeeps

(* A local receive that parks keeps the invariant.                          *)
LEMMA RecvParksKeeps ==
  ASSUME RInv, OwnerUp, NEW t \in LocalTasks, Idle(t), RecvParked(t),
         UNCHANGED <<cap, refs, cancel_requested, park_epoch>>, UNCHANGED relayVars
  PROVE  RInv'
<1>0. RTypes BY DEF RInv
<1>1. /\ ChanT /\ TaskT /\ ValT /\ send_waiters \in Seq(SendEntries) /\ outbound \in Seq(OutFrames)
      /\ recv_waiters \in Seq(RecvEntries) /\ t \in Tasks /\ park_epoch[t] \in Nat
  BY <1>0 DEF RTypes, ChanT, TaskT, Tasks
<1> DEFINE e == LocalEntry(t, park_epoch[t], NoVal)
<1>e. e \in RecvEntries /\ ~e.remote BY <1>1, MadeEntries
<1>2. /\ ~AnyLive(send_waiters) /\ send_waiters' = <<>> /\ recv_waiters' = Append(recv_waiters, e)
      /\ UNCHANGED <<closed, buffer, outbound, wake, fate, received>>
      /\ parked_on_channel' = [parked_on_channel EXCEPT ![t] = TRUE]
      /\ op' = [op EXCEPT ![t] = "recv"] /\ opval' = [opval EXCEPT ![t] = NoVal]
  BY DEF RecvParked, Available, ParkTask
<1> HIDE DEF e
<1>4. UNCHANGED <<toOwner, next_corr, pending, endpoint, opend, opcorr, dead, noticed, lost>>
  BY DEF relayVars
<1>p. PICK f0 \in OutFrames : TRUE
  <2>1. 1 \in Corrs BY DEF Corrs
  <2> QED BY <2>1, MadeAns
<1>5. CorrKept
  <2>1. Flow(toOwner, recv_waiters, send_waiters, outbound, toOwner, recv_waiters, <<>>, outbound)
    BY <1>1, <1>2, <1>p, FlowSend
  <2>2. Flow(toOwner, recv_waiters, <<>>, outbound, toOwner, Append(recv_waiters, e), <<>>, outbound)
    <3>1. <<>> \in Seq(SendEntries) OBVIOUS
    <3> QED BY <1>1, <1>e, <3>1, FlowLocal
  <2>3. Flow(toOwner, recv_waiters, send_waiters, outbound, toOwner', recv_waiters', send_waiters', outbound')
    BY <1>2, <1>4, <2>1, <2>2, FlowTrans
  <2> QED BY <2>3 DEF CorrKept
<1>6. /\ op'[t] = "recv" /\ opval'[t] = NoVal /\ parked_on_channel'[t] = TRUE
      /\ \A u \in Tasks \ {t} : op'[u] = op[u] /\ opval'[u] = opval[u]
                                  /\ parked_on_channel'[u] = parked_on_channel[u]
  BY <1>1, <1>2 DEF TaskT
<1>7. \A u \in Tasks : TaskStep(u)
  <2>1. GetsParked(t) BY <1>2, <1>6 DEF GetsParked, Idle
  <2>2. \A u \in Tasks \ {t} : Untouched(u) BY <1>2, <1>6 DEF Untouched, SameOp
  <2> QED BY <2>1, <2>2 DEF TaskStep
<1>8. ChanT' /\ TaskT' /\ ValT'
  <2>1. ChanT' BY <1>1, <1>e, <1>2, <1>4 DEF ChanT
  <2>2. TaskT' BY <1>1, <1>2 DEF TaskT
  <2>3. ValT' BY <1>1, <1>2, <1>4 DEF ValT
  <2> QED BY <2>1, <2>2, <2>3
<1>9. RemoteStill
  <2>1. t \notin RemoteTasks BY ChannelAssumption
  <2> QED BY <1>2, <1>4, <1>6, <2>1 DEF RemoteStill, Untouched, SameOp, Tasks
<1>10. NoNewSender BY <1>6 DEF NoNewSender
<1>11. dead = "none" => SpotsOK' /\ Settles
  <2>1. dead = "none" => SpotsOK' BY <1>2, <1>4 DEF RInv, UpOK, SpotsOK
  <2>2. Part(send_waiters', send_waiters) BY <1>1, <1>2, PartFacts
  <2>3. Once(send_waiters', FarKey, NoVal) BY <1>2, HasNone
  <2> QED BY <1>2, <2>1, <2>2, <2>3 DEF Settles
<1> QED BY <1>4, <1>5, <1>7, <1>8, <1>9, <1>10, <1>11, SettleKeeps

(* Channel.receive at the owner keeps the invariant.                        *)
LEMMA ChannelRecvKeeps ==
  ASSUME RInv, OwnerUp, NEW t \in LocalTasks, channel_recv(t), UNCHANGED relayVars
  PROVE  RInv'
<1>1. /\ Idle(t) /\ UNCHANGED <<cap, refs, cancel_requested, park_epoch>>
      /\ RecvNow \/ RecvClosed \/ RecvParked(t)
  BY DEF channel_recv
<1>2. CASE RecvNow BY <1>1, <1>2, RecvNowKeeps
<1>3. CASE RecvClosed BY <1>1, <1>3, RecvEndsKeeps
<1>4. CASE RecvParked(t) BY <1>1, <1>4, RecvParksKeeps
<1> QED BY <1>1, <1>2, <1>3, <1>4

(* Closing, by a local task or a frame: the queues empty, and every live    *)
(* local waiter is woken as closed.                                         *)
ClosesHere ==
  /\ outbound' = outbound \o ClosedFors(recv_waiters \o send_waiters)
  /\ closed' = TRUE /\ recv_waiters' = <<>> /\ send_waiters' = <<>> /\ buffer' = buffer
  /\ outbound' \in Seq(OutFrames) /\ wake' \in [Tasks -> RWakes]
  /\ parked_on_channel' \in [Tasks -> BOOLEAN]
  /\ Same(outbound, outbound', ValKey, NoVal)
  /\ \A to : Flow(to, recv_waiters, send_waiters, outbound, to, <<>>, <<>>, outbound')
  /\ \A t \in Tasks : \/ wake'[t] = wake[t] /\ parked_on_channel'[t] = parked_on_channel[t]
                      \/ WokenHere(t) /\ wake'[t].kind # "Recv"

(* What a close does to the queues, the lane and the tasks.                 *)
LEMMA CloseEffectFacts ==
  ASSUME ChanT, TaskT, CloseEffect PROVE ClosesHere
<1> DEFINE all == recv_waiters \o send_waiters
           woken == {all[i].task : i \in {j \in LiveIn(all) : ~all[j].remote}}
<1>0. /\ send_waiters \in Seq(SendEntries) /\ outbound \in Seq(OutFrames)
      /\ recv_waiters \in Seq(RecvEntries) /\ parked_on_channel \in [Tasks -> BOOLEAN]
      /\ wake \in [Tasks -> RWakes]
  BY DEF ChanT, TaskT
<1>1. /\ closed' = TRUE /\ recv_waiters' = <<>> /\ send_waiters' = <<>> /\ buffer' = buffer
      /\ parked_on_channel' = [t \in Tasks |-> parked_on_channel[t] /\ t \notin woken]
      /\ wake' = [t \in Tasks |-> IF t \in woken THEN Wake("Closed", NoVal) ELSE wake[t]]
      /\ outbound' = outbound \o ClosedFors(all)
  BY DEF CloseEffect, ClosedFors
<1>2. /\ ClosedFors(all) \in Seq(OutFrames)
      /\ \A i \in 1..Len(ClosedFors(all)) : ClosedFors(all)[i].type = "ClosedFor"
  BY <1>0, CloseAnswers
<1>3. \A to : Flow(to, recv_waiters, send_waiters, outbound, to, <<>>, <<>>, outbound \o ClosedFors(all))
  BY <1>0, FlowClose
<1>4. \A t \in woken : t \in LocalTasks /\ parked_on_channel[t]
  <2>1. all \in Seq(RecvEntries \cup SendEntries) BY <1>0
  <2>2. ASSUME NEW i \in LiveIn(all), ~all[i].remote
        PROVE  all[i].task \in LocalTasks /\ parked_on_channel[all[i].task]
    <3> DEFINE x == all[i]
    <3>1. i \in 1..Len(all) /\ EntryLive(x) BY DEF LiveIn
    <3>2. x \in RecvEntries \cup SendEntries BY <2>1, <3>1
    <3>3. x \in Entries /\ x.task \in LocalTasks BY <2>2, <3>2 DEF RecvEntries, SendEntries
    <3> HIDE DEF x
    <3>4. ~x.remote BY <2>2 DEF x
    <3>5. parked_on_channel[x.task] BY <3>1, <3>3, <3>4, LiveTask
    <3> QED BY <3>3, <3>5 DEF x
  <2> QED BY <2>2
<1> HIDE DEF woken
<1>5. Wake("Closed", NoVal) \in RWakes /\ Wake("Closed", NoVal).kind = "Closed"
  BY DEF Wake, RWakes, Wakes
<1>6. wake' \in [Tasks -> RWakes] /\ parked_on_channel' \in [Tasks -> BOOLEAN]
  BY <1>0, <1>1, <1>5
<1>7. \A t \in Tasks : \/ wake'[t] = wake[t] /\ parked_on_channel'[t] = parked_on_channel[t]
                       \/ WokenHere(t) /\ wake'[t].kind # "Recv"
  <2> TAKE t \in Tasks
  <2>1. CASE t \in woken BY <1>1, <1>4, <1>5, <2>1 DEF WokenHere
  <2>2. CASE t \notin woken
    <3>1. wake'[t] = wake[t] BY <1>1, <2>2
    <3>2. parked_on_channel'[t] = parked_on_channel[t] BY <1>0, <1>1, <2>2
    <3> QED BY <3>1, <3>2
  <2> QED BY <2>1, <2>2
<1>8. Same(outbound, outbound \o ClosedFors(all), ValKey, NoVal)
  <2> DEFINE r == ClosedFors(all)
  <2>1. \A i \in 1..Len(r) : r[i] \in OutFrames /\ r[i].type # "Value" BY <1>2
  <2>2. \A i \in 1..Len(r) : ValKey[r[i]] = NoVal BY <2>1, FrameKeys
  <2> QED BY <1>0, <1>2, <2>2, SameConcat
<1>9. outbound \o ClosedFors(all) \in Seq(OutFrames) BY <1>0, <1>2
<1> QED BY <1>1, <1>3, <1>6, <1>7, <1>8, <1>9 DEF ClosesHere

(* channel_close.                                                           *)
LEMMA LocalCloseKeeps ==
  ASSUME RInv, OwnerUp, NEW t \in LocalTasks, channel_close(t), UNCHANGED relayVars
  PROVE  RInv'
<1>0. RTypes BY DEF RInv
<1>1. /\ ChanT /\ TaskT /\ ValT /\ send_waiters \in Seq(SendEntries)
  BY <1>0 DEF RTypes, ChanT
<1>2. /\ ClosesHere
      /\ UNCHANGED <<cap, refs, cancel_requested, park_epoch, coroVars, fate, received>>
  BY <1>1, CloseEffectFacts DEF channel_close
<1>4. UNCHANGED <<toOwner, next_corr, pending, endpoint, opend, opcorr, dead, noticed, lost>>
  BY DEF relayVars
<1>3. recv_waiters' = <<>> /\ send_waiters' = <<>> BY <1>2 DEF ClosesHere
<1>5. CorrKept
  <2>1. Flow(toOwner, recv_waiters, send_waiters, outbound, toOwner, <<>>, <<>>, outbound')
    BY <1>2 DEF ClosesHere
  <2> QED BY <1>3, <1>4, <2>1 DEF CorrKept
<1>6. /\ \A u \in Tasks : TaskStep(u) /\ SameOp(u) /\ (parked_on_channel'[u] => parked_on_channel[u])
      /\ \A u \in RemoteTasks : Untouched(u)
  <2>1. \A u \in Tasks : \/ wake'[u] = wake[u] /\ parked_on_channel'[u] = parked_on_channel[u]
                         \/ WokenHere(u)
    BY <1>2 DEF ClosesHere
  <2> QED BY <1>2, <2>1, WokenSteps
<1>8. ChanT' /\ TaskT' /\ ValT'
  <2>1. ChanT' BY <1>1, <1>2, <1>3, <1>4 DEF ChanT, ClosesHere
  <2>2. TaskT' BY <1>1, <1>2 DEF TaskT, ClosesHere, coroVars
  <2>3. ValT' BY <1>1, <1>2, <1>4 DEF ValT
  <2> QED BY <2>1, <2>2, <2>3
<1>9. RemoteStill BY <1>4, <1>6 DEF RemoteStill
<1>10. NoNewSender BY <1>6 DEF NoNewSender, SameOp
<1>11. ASSUME dead = "none" PROVE SpotsOK' /\ Settles
  <2>1. ParksOK /\ SpotsOK BY <1>11 DEF RInv, UpOK
  <2>2. Part(send_waiters', send_waiters) BY <1>1, <1>3, PartFacts
  <2>3. Once(send_waiters', FarKey, NoVal) BY <1>3, HasNone
  <2>4. Quiet(wake, wake')
    BY <1>2, <2>1 DEF Quiet, ClosesHere, WokenHere, ParksOK, Parks
  <2>5. Spots(buffer, wake, outbound, toOwner, received, Kept(fate, lost)) BY <2>1 DEF SpotsOK
  <2>6. Same(toOwner, toOwner, RetKey, NoVal) /\ Same(outbound, outbound', ValKey, NoVal)
    BY <1>2, SameKeys DEF ClosesHere
  <2>7. Spots(buffer, wake', outbound', toOwner, received, Kept(fate, lost))
    BY <2>4, <2>5, <2>6, SpotsSame
  <2>8. SpotsOK' BY <1>2, <1>4, <2>1, <2>7 DEF SpotsOK, ClosesHere
  <2> QED BY <1>2, <2>2, <2>3, <2>8 DEF Settles
<1> QED BY <1>2, <1>4, <1>5, <1>6, <1>8, <1>9, <1>10, <1>11, SettleKeeps

(* A task resumes: its operation ends, and so does the send of its value.   *)
LEMMA ResumeStep ==
  ASSUME TaskT, NEW t \in Tasks, Resumes(t), NEW w, w = Woken(t)
  PROVE  /\ op[t] # "none" /\ ~parked_on_channel[t]
         /\ op'[t] = "none" /\ opval'[t] = NoVal /\ park_epoch'[t] = park_epoch[t] + 1
         /\ \A u \in Tasks \ {t} : SameOp(u)
         /\ op' \in [Tasks -> {"none", "send", "recv"}] /\ opval' \in [Tasks -> Values \cup {NoVal}]
         /\ park_epoch' \in [Tasks -> Nat]
         /\ w \in [Tasks -> RWakes] /\ w[t] = NoWake /\ \A u \in Tasks \ {t} : w[u] = wake[u]
<1>1. /\ op[t] # "none" /\ ~parked_on_channel[t]
      /\ park_epoch' = [park_epoch EXCEPT ![t] = @ + 1]
      /\ op' = [op EXCEPT ![t] = "none"] /\ opval' = [opval EXCEPT ![t] = NoVal]
  BY DEF Resumes
<1>2. NoWake \in RWakes BY DEF NoWake, Wake, RWakes, Wakes
<1>3. w \in [Tasks -> RWakes] /\ w[t] = NoWake /\ \A u \in Tasks \ {t} : w[u] = wake[u]
  BY <1>2 DEF Woken, TaskT
<1>4. /\ op \in [Tasks -> {"none", "send", "recv"}] /\ opval \in [Tasks -> Values \cup {NoVal}]
      /\ park_epoch \in [Tasks -> Nat]
  BY DEF TaskT
<1>5. op' \in [Tasks -> {"none", "send", "recv"}] /\ op'[t] = "none"
        /\ \A u \in Tasks \ {t} : op'[u] = op[u]
  BY <1>1, <1>4
<1>6. opval' \in [Tasks -> Values \cup {NoVal}] /\ opval'[t] = NoVal
        /\ \A u \in Tasks \ {t} : opval'[u] = opval[u]
  BY <1>1, <1>4
<1>7. park_epoch' \in [Tasks -> Nat] /\ park_epoch'[t] = park_epoch[t] + 1
        /\ \A u \in Tasks \ {t} : park_epoch'[u] = park_epoch[u]
  BY <1>1, <1>4
<1> QED BY <1>1, <1>3, <1>5, <1>6, <1>7 DEF SameOp

(* A send that ends unaccepted changes its own value's outcome alone.       *)
LEMMA SendEndsFacts ==
  ASSUME ValT, NEW t, NEW x \in {"refused", "cancelled"}, SendEnds(t, x)
  PROVE  /\ fate' \in [Values -> {"new", "parked", "accepted", "refused", "cancelled"}]
         /\ \A v \in Values : \/ fate'[v] = fate[v]
                              \/ v = opval[t] /\ fate[v] = "parked" /\ fate'[v] = x
         /\ \A l : Kept(fate', l) = Kept(fate, l)
         /\ \A v \in Values : fate[v] = "accepted" => fate'[v] = "accepted"
<1>1. \A v \in Values : fate'[v] = IF v = opval[t] /\ fate[v] = "parked" THEN x ELSE fate[v]
  BY DEF SendEnds
<1>2. fate' \in [Values -> {"new", "parked", "accepted", "refused", "cancelled"}]
  BY DEF SendEnds, ValT
<1>3. \A l : Kept(fate', l) = Kept(fate, l) BY <1>1 DEF Kept
<1> QED BY <1>1, <1>2, <1>3

(* A local send that ends leaves the sends of others on their way.          *)
LEMMA LocalSettles ==
  ASSUME UpOK, ValT, NEW t \in LocalTasks, NEW x \in {"refused", "cancelled"}, SendEnds(t, x),
         ChanT, toOwner' = toOwner, send_waiters' = send_waiters,
         op[t] # "none", op'[t] = "none", \A u \in Tasks \ {t} : SameOp(u)
  PROVE  Settles
<1>1. WayOK /\ SenderOK /\ ParksOK BY DEF UpOK
<1>2. Part(send_waiters', send_waiters) BY PartFacts DEF ChanT
<1>3. Once(send_waiters', FarKey, NoVal) BY <1>1 DEF WayOK
<1>4. ASSUME NEW v \in Values, fate'[v] # fate[v]
      PROVE  /\ fate'[v] # "new" /\ ~Has(toOwner', SendKey, v) /\ ~Has(send_waiters', FarKey, v)
             /\ \A u \in LocalTasks : op'[u] = "send" /\ opval'[u] = v => ~parked_on_channel'[u]
  <2>1. v = opval[t] /\ fate'[v] = x BY <1>4, SendEndsFacts
  <2>2. t \in Tasks BY DEF Tasks
  <2>3. op[t] = "send"
    <3>1. opval[t] # NoVal BY <2>1, ChannelAssumption
    <3> QED BY <1>1, <2>2, <3>1 DEF ParksOK, Parks
  <2>4. ~Offered(v) /\ ~Held(v) BY <1>1, <2>1, <2>3 DEF SenderOK
  <2>5. \A u \in LocalTasks : op'[u] = "send" => u # t /\ op[u] = "send" /\ opval'[u] = opval[u]
    BY DEF SameOp, Tasks
  <2>6. \A u \in LocalTasks : op'[u] = "send" => opval'[u] # v
    BY <1>1, <2>1, <2>2, <2>3, <2>5 DEF SenderOK, Tasks
  <2> QED BY <2>1, <2>4, <2>6 DEF Offered, Held
<1> QED BY <1>2, <1>3, <1>4 DEF Settles, Offered, Held

(* The tail of channel_park: resumed with a result.                         *)
LEMMA LocalEndsKeeps ==
  ASSUME RInv, OwnerUp, NEW t \in LocalTasks, ParkEnds(t), UNCHANGED relayVars
  PROVE  RInv'
<1>0. RTypes BY DEF RInv
<1>1. /\ ChanT /\ TaskT /\ ValT /\ t \in Tasks /\ wake[t] \in RWakes
  BY <1>0 DEF RTypes, TaskT, Tasks
<1>2. /\ Resumes(t) /\ ~cancel_requested[t] /\ wake' = Woken(t) /\ SendEnds(t, "refused")
      /\ received' = [v \in Values |->
           IF wake[t].kind = "Recv" /\ v = wake[t].val THEN received[v] + 1 ELSE received[v]]
      /\ UNCHANGED <<closed, buffer, recv_waiters, send_waiters, cap, refs, outbound,
                     parked_on_channel, cancel_requested>>
  BY DEF ParkEnds, chanVars
<1>4. UNCHANGED <<toOwner, next_corr, pending, endpoint, opend, opcorr, dead, noticed, lost>>
  BY DEF relayVars
<1>3. /\ op[t] # "none" /\ ~parked_on_channel[t]
      /\ op'[t] = "none" /\ opval'[t] = NoVal /\ park_epoch'[t] = park_epoch[t] + 1
      /\ \A u \in Tasks \ {t} : SameOp(u)
      /\ op' \in [Tasks -> {"none", "send", "recv"}] /\ opval' \in [Tasks -> Values \cup {NoVal}]
      /\ park_epoch' \in [Tasks -> Nat]
      /\ wake' \in [Tasks -> RWakes] /\ wake'[t] = NoWake /\ \A u \in Tasks \ {t} : wake'[u] = wake[u]
  BY <1>1, <1>2, ResumeStep
<1>n. wake'[t].kind = "none" BY <1>3 DEF NoWake, Wake
<1>5. /\ fate' \in [Values -> {"new", "parked", "accepted", "refused", "cancelled"}]
      /\ \A l : Kept(fate', l) = Kept(fate, l)
      /\ \A v \in Values : fate[v] = "accepted" => fate'[v] = "accepted"
  BY <1>1, <1>2, SendEndsFacts
<1>6. \A u \in Tasks : TaskStep(u) /\ (u # t => Untouched(u))
  BY <1>2, <1>3, <1>n DEF TaskStep, Returns, Untouched
<1>7. ChanT' /\ TaskT' /\ ValT'
  <2>1. ChanT' BY <1>1, <1>2, <1>4 DEF ChanT
  <2>2. TaskT' BY <1>1, <1>2, <1>3 DEF TaskT
  <2>3. ValT' BY <1>1, <1>2, <1>4, <1>5 DEF ValT
  <2> QED BY <2>1, <2>2, <2>3
<1>8. RemoteStill
  <2>1. t \notin RemoteTasks BY ChannelAssumption
  <2> QED BY <1>4, <1>6, <2>1 DEF RemoteStill, Tasks
<1>9. NoNewSender BY <1>2, <1>3 DEF NoNewSender, SameOp
<1>10. CorrKept
  <2>1. Flow(toOwner, recv_waiters, send_waiters, outbound,
             toOwner', recv_waiters', send_waiters', outbound')
    BY <1>2, <1>4, FlowSame
  <2> QED BY <2>1 DEF CorrKept
<1>11. ASSUME dead = "none" PROVE SpotsOK' /\ Settles
  <2>1. UpOK BY <1>11 DEF RInv
  <2>2. Settles BY <1>1, <1>2, <1>3, <1>4, <2>1, LocalSettles
  <2> DEFINE acc == Kept(fate, lost)
  <2>3. Spots(buffer, wake, outbound, toOwner, received, acc) BY <2>1 DEF UpOK, SpotsOK
  <2>4. Spots(buffer, wake', outbound, toOwner, received', acc)
    <3>1. CASE wake[t].kind = "Recv"
      <4> DEFINE v == wake[t].val
      <4>1. v \in Values BY <1>1, <3>1 DEF RWakes
      <4>2. v \in acc /\ Spots(buffer, wake', outbound, toOwner, received, acc \ {v})
        BY <1>1, <1>3, <1>n, <2>3, <3>1, <4>1, TakeWake
      <4>3. received'[v] = received[v] + 1 /\ \A x \in Values \ {v} : received'[x] = received[x]
        BY <1>2, <3>1, <4>1
      <4>4. Spots(buffer, wake', outbound, toOwner, received', (acc \ {v}) \cup {v})
        BY <4>1, <4>2, <4>3, PutReceived
      <4>5. (acc \ {v}) \cup {v} = acc BY <4>2
      <4> QED BY <4>4, <4>5
    <3>2. CASE wake[t].kind # "Recv"
      <4>1. received' = received
        <5>1. received \in [Values -> Nat] BY <1>1 DEF ValT
        <5> QED BY <1>2, <3>2, <5>1
      <4>2. Quiet(wake, wake') BY <1>3, <1>n, <3>2 DEF Quiet
      <4>3. Same(toOwner, toOwner, RetKey, NoVal) /\ Same(outbound, outbound, ValKey, NoVal)
        BY SameKeys
      <4>4. Spots(buffer, wake', outbound, toOwner, received, acc)
        BY <2>3, <4>2, <4>3, SpotsSame
      <4> QED BY <4>1, <4>4
    <3> QED BY <3>1, <3>2
  <2>5. Kept(fate', lost) = acc BY <1>5
  <2>6. \A u \in lost : fate'[u] = "accepted"
    BY <1>1, <1>5, <2>1 DEF UpOK, SpotsOK, ValT
  <2>7. SpotsOK' BY <1>2, <1>4, <2>4, <2>5, <2>6 DEF SpotsOK
  <2> QED BY <2>2, <2>7
<1> QED BY <1>2, <1>4, <1>6, <1>7, <1>8, <1>9, <1>10, <1>11, SettleKeeps

(* The tail of channel_park: resumed cancelled, a value already in hand     *)
(* goes to the next receiver or back to the buffer.                         *)
LEMMA LocalCancelledKeeps ==
  ASSUME RInv, OwnerUp, NEW t \in LocalTasks, ParkCancelled(t), UNCHANGED relayVars
  PROVE  RInv'
<1>0. RTypes BY DEF RInv
<1> DEFINE w == Woken(t)
           v == wake[t].val
<1>1. /\ ChanT /\ TaskT /\ ValT /\ t \in Tasks /\ wake[t] \in RWakes
      /\ recv_waiters \in Seq(RecvEntries) /\ cancel_requested \in [Tasks -> BOOLEAN]
  BY <1>0 DEF RTypes, TaskT, Tasks, ChanT
<1>2. /\ Resumes(t) /\ cancel_requested[t] /\ SendEnds(t, "cancelled")
      /\ cancel_requested' = [cancel_requested EXCEPT ![t] = FALSE]
      /\ \/ wake[t].kind = "Recv" /\ channel_redeliver(v, w)
         \/ /\ wake[t].kind # "Recv" /\ wake' = w
            /\ UNCHANGED <<buffer, recv_waiters, outbound, parked_on_channel>>
      /\ UNCHANGED <<closed, send_waiters, cap, refs, received>>
  BY DEF ParkCancelled
<1>4. UNCHANGED <<toOwner, next_corr, pending, endpoint, opend, opcorr, dead, noticed, lost>>
  BY DEF relayVars
<1>3. /\ op[t] # "none" /\ ~parked_on_channel[t]
      /\ op'[t] = "none" /\ opval'[t] = NoVal /\ park_epoch'[t] = park_epoch[t] + 1
      /\ \A u \in Tasks \ {t} : SameOp(u)
      /\ op' \in [Tasks -> {"none", "send", "recv"}] /\ opval' \in [Tasks -> Values \cup {NoVal}]
      /\ park_epoch' \in [Tasks -> Nat]
      /\ w \in [Tasks -> RWakes] /\ w[t] = NoWake /\ \A u \in Tasks \ {t} : w[u] = wake[u]
  BY <1>1, <1>2, ResumeStep
<1>n. w[t].kind = "none" BY <1>3 DEF NoWake, Wake
<1> HIDE DEF w
<1>5. /\ fate' \in [Values -> {"new", "parked", "accepted", "refused", "cancelled"}]
      /\ \A l : Kept(fate', l) = Kept(fate, l)
      /\ \A u \in Values : fate[u] = "accepted" => fate'[u] = "accepted"
  BY <1>1, <1>2, SendEndsFacts
<1>c. /\ cancel_requested' \in [Tasks -> BOOLEAN] /\ ~cancel_requested'[t]
      /\ \A u \in Tasks \ {t} : cancel_requested'[u] = cancel_requested[u]
  BY <1>1, <1>2
<1> DEFINE Queues == /\ recv_waiters' \in Seq(RecvEntries) /\ outbound' \in Seq(OutFrames)
                     /\ buffer' \in Seq(Values) /\ wake' \in [Tasks -> RWakes]
                     /\ parked_on_channel' \in [Tasks -> BOOLEAN]
           Flows == \A to, sq : Flow(to, recv_waiters, sq, outbound, to, recv_waiters', sq, outbound')
           Wakings == \A u \in Tasks :
                        \/ wake'[u] = w[u] /\ parked_on_channel'[u] = parked_on_channel[u]
                        \/ WokenHere(u)
           acc == Kept(fate, lost)
<1>s. UpOK => Spots(buffer, wake, outbound, toOwner, received, acc) BY DEF UpOK, SpotsOK
<1>6. Queues /\ Flows /\ Wakings
        /\ (UpOK => Spots(buffer', wake', outbound', toOwner, received, acc))
  <2>1. CASE wake[t].kind = "Recv"
    <3>1. v \in Values BY <1>1, <2>1 DEF RWakes
    <3>2. Delivers(v, w)
      <4>1. channel_redeliver(v, w) BY <1>2, <2>1
      <4> HIDE DEF v
      <4> QED BY <1>1, <1>3, <3>1, <4>1, RedeliverFacts
    <3>3. ASSUME UpOK PROVE Spots(buffer', wake', outbound', toOwner, received, acc)
      <4>1. v \in acc /\ Spots(buffer, w, outbound, toOwner, received, acc \ {v})
        BY <1>1, <1>3, <1>n, <1>s, <2>1, <3>1, <3>3, TakeWake
      <4>2. \A u \in Tasks : parked_on_channel[u] => w[u].kind # "Recv"
        <5>1. \A u \in Tasks : parked_on_channel[u] => wake[u].kind = "none"
          BY <3>3 DEF UpOK, ParksOK, Parks
        <5> QED BY <1>3, <1>n, <5>1
      <4>3. Spots(buffer', wake', outbound', toOwner, received, (acc \ {v}) \cup {v})
        BY <3>2, <4>1, <4>2 DEF Delivers
      <4>4. (acc \ {v}) \cup {v} = acc BY <4>1
      <4> QED BY <4>3, <4>4
    <3> QED BY <3>2, <3>3 DEF Delivers
  <2>2. CASE wake[t].kind # "Recv"
    <3>1. wake' = w /\ UNCHANGED <<buffer, recv_waiters, outbound, parked_on_channel>>
      BY <1>2, <2>2
    <3>2. Queues BY <1>1, <1>3, <3>1 DEF ChanT, TaskT
    <3>3. Flows BY <3>1, FlowSame
    <3>4. ASSUME UpOK PROVE Spots(buffer', wake', outbound', toOwner, received, acc)
      <4>2. Quiet(wake, w) BY <1>3, <1>n, <2>2 DEF Quiet
      <4>3. Same(toOwner, toOwner, RetKey, NoVal) /\ Same(outbound, outbound, ValKey, NoVal)
        BY SameKeys
      <4>4. Spots(buffer, w, outbound, toOwner, received, acc)
        BY <1>s, <3>4, <4>2, <4>3, SpotsSame
      <4> QED BY <3>1, <4>4
    <3> QED BY <3>1, <3>2, <3>3, <3>4
  <2> QED BY <2>1, <2>2
<1> HIDE DEF Queues, Flows, v, acc
<1>7. wake'[t].kind = "none" /\ ~parked_on_channel'[t]
  BY <1>1, <1>3, <1>6, <1>n DEF WokenHere
<1>8. \A u \in Tasks : TaskStep(u)
  <2>1. Returns(t) BY <1>3, <1>7, <1>c DEF Returns
  <2>2. ASSUME NEW u \in Tasks \ {t} PROVE Untouched(u) \/ GetsWake(u)
    BY <1>3, <1>6, <1>c DEF Untouched, GetsWake, WokenHere, SameOp
  <2> QED BY <2>1, <2>2 DEF TaskStep
<1>9. ChanT' /\ TaskT' /\ ValT'
  <2>1. ChanT' BY <1>1, <1>2, <1>4, <1>6 DEF ChanT, Queues
  <2>2. TaskT' BY <1>1, <1>3, <1>6, <1>c DEF TaskT, Queues
  <2>3. ValT' BY <1>1, <1>2, <1>4, <1>5 DEF ValT
  <2> QED BY <2>1, <2>2, <2>3
<1>10. RemoteStill
  <2>1. LocalTasks \cap RemoteTasks = {} BY ChannelAssumption
  <2>2. ASSUME NEW u \in RemoteTasks PROVE Untouched(u)
    <3>1. u # t /\ u \notin LocalTasks /\ u \in Tasks BY <2>1 DEF Tasks
    <3> QED BY <1>3, <1>6, <1>c, <3>1 DEF Untouched, WokenHere, SameOp
  <2> QED BY <1>4, <2>2 DEF RemoteStill
<1>11. NoNewSender
  BY <1>3, <1>6 DEF NoNewSender, SameOp, WokenHere
<1>12. CorrKept
  <2>1. Flow(toOwner, recv_waiters, send_waiters, outbound,
             toOwner', recv_waiters', send_waiters', outbound')
    BY <1>2, <1>4, <1>6 DEF Flows
  <2> QED BY <2>1 DEF CorrKept
<1>13. ASSUME dead = "none" PROVE SpotsOK' /\ Settles
  <2>1. UpOK BY <1>13 DEF RInv
  <2>2. Settles BY <1>1, <1>2, <1>3, <1>4, <2>1, LocalSettles
  <2>3. Spots(buffer', wake', outbound', toOwner, received, Kept(fate', lost))
    BY <1>5, <1>6, <2>1 DEF acc
  <2>4. \A u \in lost : fate'[u] = "accepted"
    BY <1>1, <1>5, <2>1 DEF UpOK, SpotsOK, ValT
  <2>5. SpotsOK' BY <1>2, <1>4, <2>3, <2>4 DEF SpotsOK
  <2> QED BY <2>2, <2>5
<1> QED BY <1>2, <1>4, <1>8, <1>9, <1>10, <1>11, <1>12, <1>13, SettleKeeps

(* request_cancel, of a local task or of one parked on an endpoint.         *)
LEMMA CancelRequestKeeps ==
  ASSUME RInv, NEW t \in Tasks, request_cancel(t), UNCHANGED relayVars
  PROVE  RInv'
<1>0. RTypes /\ ChanT /\ TaskT /\ ValT /\ LinkT BY DEF RInv, RTypes
<1>1. /\ op[t] # "none" /\ ~cancel_requested[t]
      /\ cancel_requested' = [cancel_requested EXCEPT ![t] = TRUE]
      /\ parked_on_channel' = [parked_on_channel EXCEPT ![t] = FALSE]
      /\ UNCHANGED <<closed, buffer, recv_waiters, send_waiters, cap, refs, outbound, park_epoch,
                     wake, op, opval, fate, received>>
  BY DEF request_cancel, chanVars, coroVars
<1>2. UNCHANGED <<toOwner, next_corr, pending, endpoint, opend, opcorr, dead, noticed, lost>>
  BY DEF relayVars
<1>3. /\ cancel_requested'[t] = TRUE /\ ~parked_on_channel'[t]
      /\ \A u \in Tasks \ {t} : cancel_requested'[u] = cancel_requested[u]
                                  /\ parked_on_channel'[u] = parked_on_channel[u]
      /\ cancel_requested' \in [Tasks -> BOOLEAN] /\ parked_on_channel' \in [Tasks -> BOOLEAN]
  BY <1>0, <1>1 DEF TaskT
<1>4. \A u \in Tasks : TaskStep(u)
  BY <1>1, <1>3 DEF TaskStep, GetsCancelled, Untouched, SameOp
<1>5. RTypes'
  <2>1. ChanT' BY <1>0, <1>1, <1>2 DEF ChanT
  <2>2. TaskT' BY <1>0, <1>1, <1>3 DEF TaskT
  <2>3. ValT' BY <1>0, <1>1, <1>2 DEF ValT
  <2>4. LinkT' BY <1>0, <1>1, <1>2 DEF LinkT
  <2> QED BY <2>1, <2>2, <2>3, <2>4 DEF RTypes
<1>6. OneStage' <=> OneStage BY <1>1, <1>2 DEF OneStage
<1>7. PurgeOK' <=> PurgeOK BY <1>1, <1>2 DEF PurgeOK, Undelivered, Wanting
<1>8. ASSUME UpOK PROVE UpOK'
  <2>1. ParksOK' BY <1>0, <1>4, <1>8, ParksKept DEF UpOK
  <2>2. FitsOK' BY <1>1, <1>8 DEF UpOK, FitsOK, LocalFits
  <2>3. PendingOK' BY <1>1, <1>2, <1>8 DEF UpOK, PendingOK, Staged
  <2>4. OpsOK'
    <3>1. ASSUME NEW u \in RemoteTasks PROVE OpOK(u)'
      <4>1. OpOK(u) /\ (parked_on_channel'[u] => parked_on_channel[u])
        BY <1>3, <1>8 DEF UpOK, OpsOK, Tasks
      <4> QED BY <1>1, <1>2, <4>1 DEF OpOK, Staged
    <3> QED BY <1>2, <1>8, <3>1 DEF UpOK, OpsOK
  <2>5. UsedOK' BY <1>1, <1>2, <1>8 DEF UpOK, UsedOK
  <2>6. CountOK' BY <1>1, <1>2, <1>8 DEF UpOK, CountOK, Alive
  <2>7. HeldOK' BY <1>1, <1>2, <1>8 DEF UpOK, HeldOK, Wanting
  <2>8. SpotsOK' BY <1>1, <1>2, <1>8 DEF UpOK, SpotsOK
  <2>9. WayOK' BY <1>1, <1>2, <1>8 DEF UpOK, WayOK, Offered, Held
  <2>10. SenderOK'
    <3>1. \A u \in Tasks : parked_on_channel'[u] => parked_on_channel[u] BY <1>3
    <3>2. \A u \in RemoteTasks : OfferFits(u)' <=> OfferFits(u) BY <1>1, <1>2 DEF OfferFits
    <3> QED BY <1>1, <1>2, <1>8, <3>1, <3>2 DEF UpOK, SenderOK, Offered, Held, Tasks
  <2> QED BY <2>1, <2>2, <2>3, <2>4, <2>5, <2>6, <2>7, <2>8, <2>9, <2>10 DEF UpOK
<1> QED BY <1>2, <1>5, <1>6, <1>7, <1>8 DEF RInv

(* ship_channel: one more reference, one more endpoint; none that counts    *)
(* when the owner already knows that the isolate is gone.                   *)
LEMMA ShipKeeps ==
  ASSUME RInv, OwnerUp, NEW t \in LocalTasks, NEW n \in Endpoints, ship_channel(t, n)
  PROVE  RInv'
<1>0. RTypes /\ ChanT /\ TaskT /\ ValT /\ LinkT BY DEF RInv, RTypes
<1> DEFINE x == IF dead = "remote" /\ noticed THEN "undelivered" ELSE "shipping"
<1>1. /\ endpoint[n] = "none" /\ refs' = refs + 1
      /\ endpoint' = [endpoint EXCEPT ![n] = x]
      /\ UNCHANGED <<cap, closed, buffer, recv_waiters, send_waiters, outbound, wake,
                     parked_on_channel, cancel_requested, park_epoch, op, opval,
                     fate, received, toOwner, next_corr, pending, opend, opcorr, dead,
                     noticed, lost>>
  BY DEF ship_channel, chanVars, wakeVars, coroVars
<1>2. dead \in {"none", "remote"} /\ x \in States BY <1>0 DEF LinkT, OwnerUp, States
<1>x. /\ dead = "remote" /\ noticed => x = "undelivered"
      /\ ~(dead = "remote" /\ noticed) => x = "shipping"
  OBVIOUS
<1> HIDE DEF x
<1>3. /\ endpoint' \in [Endpoints -> States]
      /\ endpoint'[n] = x /\ \A m \in Endpoints \ {n} : endpoint'[m] = endpoint[m]
      /\ refs \in Nat /\ refs' \in Nat
  BY <1>0, <1>1, <1>2 DEF LinkT, ChanT
<1>5. RTypes'
  <2>1. ChanT' BY <1>0, <1>1, <1>3 DEF ChanT
  <2>2. TaskT' BY <1>0, <1>1, <1>3 DEF TaskT
  <2>3. ValT' BY <1>0, <1>1 DEF ValT
  <2>4. LinkT' BY <1>0, <1>1, <1>3 DEF LinkT
  <2> QED BY <2>1, <2>2, <2>3, <2>4 DEF RTypes
<1>4. \A c \in Corrs : Retracted(toOwner, refs, c) => Retracted(toOwner, refs + 1, c)
  <2>1. \A j \in 1..Len(toOwner) : RelBefore(toOwner, j) \in Nat
    <3>1. Len(toOwner) \in Nat BY <1>0 DEF ChanT
    <3>2. \A j \in 1..Len(toOwner) : j - 1 \in Nat BY <3>1
    <3> QED BY <3>2, RelFinite DEF RelBefore
  <2>2. \A j \in 1..Len(toOwner) : RelBefore(toOwner, j) < refs => RelBefore(toOwner, j) < refs + 1
    BY <1>3, <2>1
  <2> QED BY <2>2 DEF Retracted
<1>r. RelCount(toOwner, Len(toOwner)) \in Nat
  <2>1. Len(toOwner) \in Nat BY <1>0 DEF ChanT
  <2> QED BY <2>1, RelFinite
<1>6. CASE dead = "none"
  <2>0. OneStage' /\ UpOK /\ endpoint'[n] = "shipping" BY <1>1, <1>3, <1>6, <1>x DEF OneStage, RInv
  <2>1. ParksOK' BY <1>1, <2>0 DEF UpOK, ParksOK, Parks
  <2>2. FitsOK' BY <1>1, <2>0 DEF UpOK, FitsOK, LocalFits
  <2>3. PendingOK' BY <1>1, <2>0 DEF UpOK, PendingOK, Staged
  <2>4. OpsOK' BY <1>1, <2>0 DEF UpOK, OpsOK, OpOK, Staged
  <2>5. UsedOK' BY <1>1, <1>3, <2>0 DEF UpOK, UsedOK
  <2>6. CountOK'
    <3>1. Alive' = Alive \cup {n} /\ n \notin Alive BY <1>1, <1>3, <2>0 DEF Alive
    <3>2. IsFiniteSet(Alive) /\ Cardinality(Alive) \in Nat BY AliveCount
    <3>3. Cardinality(Alive \cup {n}) = Cardinality(Alive) + 1 BY <3>1, <3>2, FS_AddElement
    <3>5. refs = Cardinality(Alive) + RelCount(toOwner, Len(toOwner)) BY <2>0 DEF UpOK, CountOK
    <3>6. refs' = Cardinality(Alive') + RelCount(toOwner, Len(toOwner))
      BY <1>1, <1>r, <3>1, <3>2, <3>3, <3>5
    <3> QED BY <1>1, <3>6 DEF CountOK
  <2>7. HeldOK' BY <1>1, <1>4, <2>0 DEF UpOK, HeldOK, Wanting
  <2>8. SpotsOK' BY <1>1, <2>0 DEF UpOK, SpotsOK
  <2>9. WayOK' BY <1>1, <2>0 DEF UpOK, WayOK, Offered, Held
  <2>10. SenderOK' BY <1>1, <2>0 DEF UpOK, SenderOK, OfferFits, Offered, Held
  <2>11. UpOK' BY <2>1, <2>2, <2>3, <2>4, <2>5, <2>6, <2>7, <2>8, <2>9, <2>10 DEF UpOK
  <2> QED BY <1>1, <1>5, <1>6, <2>0, <2>11 DEF RInv
<1>7. CASE dead = "remote" /\ noticed
  <2>1. Undelivered' BY <1>3, <1>7, <1>x DEF Undelivered
  <2>2. PurgeOK' BY <1>1, <1>7, <2>1 DEF RInv, PurgeOK
  <2> QED BY <1>1, <1>5, <1>7, <2>2 DEF RInv
<1>8. CASE dead = "remote" /\ ~noticed
  <2>1. ASSUME NEW c \in Corrs, Wanting(c)'
        PROVE  RelCount(toOwner', Len(toOwner')) < refs' \/ Retracted(toOwner', refs', c)
    <3>1. Wanting(c) BY <1>1, <2>1 DEF Wanting
    <3>2. RelCount(toOwner, Len(toOwner)) < refs \/ Retracted(toOwner, refs, c)
      BY <1>8, <3>1 DEF RInv, PurgeOK
    <3>3. RelCount(toOwner, Len(toOwner)) < refs => RelCount(toOwner, Len(toOwner)) < refs + 1
      BY <1>3, <1>r
    <3> QED BY <1>1, <1>4, <3>2, <3>3
  <2>2. PurgeOK' BY <1>1, <1>8, <2>1 DEF PurgeOK
  <2> QED BY <1>1, <1>5, <1>8, <2>2 DEF RInv
<1> QED BY <1>2, <1>6, <1>7, <1>8

(* Every step of a task at the owner keeps the invariant.                   *)
LEMMA OwnerTaskKeeps ==
  ASSUME RInv, OwnerUp, OwnerTask, UNCHANGED relayVars
  PROVE  RInv'
<1>1. PICK t \in LocalTasks : \/ \E v \in Values : channel_send(t, v)
                              \/ channel_recv(t) \/ channel_close(t)
                              \/ ParkCancelled(t) \/ ParkEnds(t)
  BY DEF OwnerTask
<1>2. CASE \E v \in Values : channel_send(t, v)
  <2>1. PICK v \in Values : channel_send(t, v) BY <1>2
  <2> QED BY <2>1, ChannelSendKeeps
<1>3. CASE channel_recv(t) BY <1>3, ChannelRecvKeeps
<1>4. CASE channel_close(t) BY <1>4, LocalCloseKeeps
<1>5. CASE ParkCancelled(t) BY <1>5, LocalCancelledKeeps
<1>6. CASE ParkEnds(t) BY <1>6, LocalEndsKeeps
<1> QED BY <1>1, <1>2, <1>3, <1>4, <1>5, <1>6

-----------------------------------------------------------------------------
(* The owner's agent.                                                       *)

(* Frames put on a lane.                                                    *)
LEMMA JoinFrames ==
  ASSUME NEW T, NEW q \in Seq(T), NEW f \in T, NEW g \in T
  PROVE  /\ q \o <<>> = q /\ q \o <<f>> = Append(q, f) /\ q \o (<<>> \o <<g>>) = Append(q, g)
         /\ q \o (<<f>> \o <<g>>) = Append(Append(q, f), g)
<1>1. q \o <<>> = q OBVIOUS
<1>2. q \o <<f>> = Append(q, f) OBVIOUS
<1>3. <<>> \o <<g>> = <<g>> OBVIOUS
<1>4. q \o <<g>> = Append(q, g) OBVIOUS
<1>5. q \o (<<f>> \o <<g>>) = Append(Append(q, f), g) OBVIOUS
<1> QED BY <1>1, <1>2, <1>3, <1>4, <1>5

(* What every step of the agent leaves alone.                               *)
AgentFrame ==
  UNCHANGED <<cap, cancel_requested, park_epoch, coroVars, received, next_corr, pending,
              endpoint, opend, opcorr, dead, noticed>>
AgentTypes ==
  /\ closed' \in BOOLEAN /\ buffer' \in Seq(Values) /\ recv_waiters' \in Seq(RecvEntries)
  /\ send_waiters' \in Seq(SendEntries) /\ outbound' \in Seq(OutFrames)
  /\ wake' \in [Tasks -> RWakes] /\ parked_on_channel' \in [Tasks -> BOOLEAN]
  /\ fate' \in [Values -> {"new", "parked", "accepted", "refused", "cancelled"}]
  /\ lost' \in SUBSET Values
AgentWakes ==
  \A t \in Tasks : \/ wake'[t] = wake[t] /\ parked_on_channel'[t] = parked_on_channel[t]
                   \/ WokenHere(t)

(* The types and the tasks after a step of the owner's agent.               *)
LEMMA AgentSteps ==
  ASSUME RTypes, TakesFrame, AgentFrame, AgentTypes, AgentWakes
  PROVE  /\ ChanT' /\ TaskT' /\ ValT' /\ RemoteStill /\ NoNewSender
         /\ \A t \in Tasks : TaskStep(t)
<1>0. ChanT /\ TaskT /\ ValT BY DEF RTypes
<1>1. UNCHANGED <<cap, cancel_requested, park_epoch, op, opval, received, next_corr, pending,
                  endpoint, opend, opcorr, dead, noticed>>
  BY DEF AgentFrame, coroVars
<1>2. toOwner' \in Seq(ToFrames) /\ refs' \in Nat
  <2>1. toOwner \in Seq(ToFrames) /\ toOwner # <<>> /\ refs \in Nat BY <1>0 DEF ChanT, TakesFrame
  <2>2. refs' \in Nat BY <2>1 DEF TakesFrame
  <2>3. Tail(toOwner) \in Seq(ToFrames) BY <2>1
  <2> QED BY <2>2, <2>3 DEF TakesFrame
<1>3. ChanT' BY <1>0, <1>1, <1>2 DEF ChanT, AgentTypes
<1>4. TaskT' BY <1>0, <1>1 DEF TaskT, AgentTypes
<1>5. ValT' BY <1>0, <1>1 DEF ValT, AgentTypes
<1>6. /\ \A u \in Tasks : TaskStep(u) /\ SameOp(u) /\ (parked_on_channel'[u] => parked_on_channel[u])
      /\ \A u \in RemoteTasks : Untouched(u)
  BY WokenSteps DEF AgentWakes, AgentFrame
<1>7. RemoteStill BY <1>1, <1>6 DEF RemoteStill
<1>8. NoNewSender BY <1>6 DEF NoNewSender, SameOp
<1> QED BY <1>3, <1>4, <1>5, <1>6, <1>7, <1>8

(* A frame other than a retraction.                                         *)
LEMMA AgentFlowKeeps ==
  ASSUME RInv, OwnerUp, TakesFrame, Head(toOwner).type # "Cancel",
         AgentFrame, AgentTypes, AgentWakes, CorrKept,
         dead = "none" => FitsOK' /\ SpotsOK' /\ WayOK' /\ SenderOK'
  PROVE  RInv'
<1>0. RTypes BY DEF RInv
<1>1. /\ ChanT' /\ TaskT' /\ ValT' /\ RemoteStill /\ \A t \in Tasks : TaskStep(t)
  BY <1>0, AgentSteps
<1>2. PICK o2 : /\ Flow(toOwner, recv_waiters, send_waiters, outbound,
                        toOwner', recv_waiters', send_waiters', o2)
                /\ RemoteUp => outbound' = o2
  BY DEF CorrKept
<1>3. \A c \in Corrs : Wanting(c)' => Wanting(c) BY <1>2 DEF Flow, Wanting
<1>4. dead = "none" => OneStage' /\ \A c \in Corrs : Staged(c)' <=> Staged(c)
  BY <1>2 DEF Flow, RInv, OneStage, Staged, RemoteUp
<1> QED BY <1>1, <1>3, <1>4, AgentKeeps

(* What an applied frame other than a retraction has to show.               *)
LEMMA AgentSettleKeeps ==
  ASSUME RInv, OwnerUp, TakesFrame, Head(toOwner).type # "Cancel",
         AgentFrame, AgentTypes, AgentWakes, CorrKept,
         dead = "none" => SpotsOK' /\ Settles
  PROVE  RInv'
<1>1. ASSUME dead = "none" PROVE FitsOK' /\ SpotsOK' /\ WayOK' /\ SenderOK'
  <2>1. UpOK /\ ChanT /\ TaskT /\ RTypes /\ Settles BY <1>1 DEF RInv, RTypes
  <2>0. ChanT' /\ NoNewSender /\ \A t \in Tasks : TaskStep(t) BY <2>1, AgentSteps
  <2>2. send_waiters \in Seq(SendEntries) /\ toOwner \in Seq(ToFrames)
          /\ send_waiters' \in Seq(SendEntries) /\ toOwner # <<>> /\ toOwner' = Tail(toOwner)
    BY <2>0, <2>1 DEF ChanT, TakesFrame
  <2>3. FitsOK /\ WayOK /\ SenderOK /\ ParksOK BY <2>1 DEF UpOK
  <2>4. FitsOK' BY <2>0, <2>1, <2>2, <2>3, FitsKept2 DEF Settles
  <2>5. Part(toOwner', toOwner) BY <2>2, PartFacts
  <2>6. Once(toOwner', SendKey, NoVal)
    <3>1. Once(toOwner, SendKey, NoVal) BY <2>3 DEF WayOK
    <3>2. Once(Tail(toOwner), SendKey, NoVal) BY <2>2, <3>1, HasTail
    <3> QED BY <2>2, <3>2
  <2>7. opcorr' = opcorr BY DEF AgentFrame
  <2>8. WayOK' /\ SenderOK'
    BY <2>0, <2>1, <2>3, <2>5, <2>6, <2>7, SendsKept DEF Settles, NoNewSender
  <2> QED BY <1>1, <2>4, <2>8
<1> QED BY <1>1, AgentFlowKeeps

(* Nothing but the lane moves.                                              *)
LEMMA AgentAnswers ==
  ASSUME RInv, OwnerUp, TakesFrame, Head(toOwner).type # "Cancel", Head(toOwner).type # "Return",
         AgentFrame, NEW o2 \in Seq(OutFrames), Same(outbound, o2, ValKey, NoVal),
         outbound' = IF RemoteUp THEN o2 ELSE outbound,
         UNCHANGED <<closed, buffer, wakeVars, fate, lost>>,
         recv_waiters' \in Seq(RecvEntries),
         send_waiters' = send_waiters \/ send_waiters' = <<>>,
         Flow(toOwner, recv_waiters, send_waiters, outbound, toOwner', recv_waiters', send_waiters', o2)
  PROVE  RInv'
<1>0. RTypes /\ ChanT /\ TaskT /\ ValT BY DEF RInv, RTypes
<1>1. AgentTypes
  <2>1. send_waiters' \in Seq(SendEntries)
    <3>1. send_waiters \in Seq(SendEntries) /\ <<>> \in Seq(SendEntries) BY <1>0 DEF ChanT
    <3> QED BY <3>1
  <2>2. outbound' \in Seq(OutFrames) BY <1>0 DEF ChanT
  <2>3. closed' \in BOOLEAN /\ buffer' \in Seq(Values) BY <1>0 DEF ChanT
  <2>4. wake' \in [Tasks -> RWakes] /\ parked_on_channel' \in [Tasks -> BOOLEAN]
    BY <1>0 DEF TaskT, wakeVars
  <2>5. /\ fate' \in [Values -> {"new", "parked", "accepted", "refused", "cancelled"}]
        /\ lost' \in SUBSET Values
    BY <1>0 DEF ValT
  <2> QED BY <2>1, <2>2, <2>3, <2>4, <2>5 DEF AgentTypes
<1>2. AgentWakes BY DEF AgentWakes, wakeVars
<1>3. CorrKept BY DEF CorrKept
<1>4. ASSUME dead = "none" PROVE SpotsOK' /\ Settles
  <2>1. UpOK /\ outbound' = o2 BY <1>4 DEF RInv, RemoteUp
  <2>2. toOwner \in Seq(ToFrames) /\ toOwner # <<>> /\ toOwner' = Tail(toOwner)
          /\ send_waiters \in Seq(SendEntries)
    BY <1>0 DEF ChanT, TakesFrame
  <2>3. RetKey[Head(toOwner)] = NoVal
    <3>1. Head(toOwner) \in ToFrames BY <2>2
    <3> QED BY <3>1, FrameKeys
  <2>4. Same(toOwner, Tail(toOwner), RetKey, NoVal) BY <2>2, <2>3, SameTail
  <2>5. Quiet(wake, wake) BY DEF Quiet
  <2>6. Spots(buffer, wake, o2, Tail(toOwner), received, Kept(fate, lost))
    BY <2>1, <2>4, <2>5, SpotsSame DEF UpOK, SpotsOK
  <2>7. SpotsOK' BY <2>1, <2>2, <2>6 DEF UpOK, SpotsOK, wakeVars, AgentFrame
  <2>8. Part(send_waiters', send_waiters) BY <2>2, PartFacts
  <2>9. Once(send_waiters', FarKey, NoVal) BY <2>1, HasNone DEF UpOK, WayOK
  <2> QED BY <2>7, <2>8, <2>9 DEF Settles
<1> QED BY <1>1, <1>2, <1>3, <1>4, AgentSettleKeeps

(* A request the owner answers without touching a value: the channel is     *)
(* closed or no longer hosted.                                              *)
LEMMA AgentRefuses ==
  ASSUME RInv, OwnerUp, TakesFrame, Head(toOwner).type \in {"Send", "Recv"}, AgentFrame,
         Answer(<<Frame("ClosedFor", Head(toOwner).corr, NoVal)>>),
         UNCHANGED <<closed, buffer, recv_waiters, wakeVars, fate, lost>>,
         send_waiters' = send_waiters \/ (~AnyLive(send_waiters) /\ send_waiters' = <<>>)
  PROVE  RInv'
<1>0. RTypes /\ ChanT BY DEF RInv, RTypes
<1>1. /\ toOwner \in Seq(ToFrames) /\ toOwner # <<>> /\ toOwner' = Tail(toOwner)
      /\ outbound \in Seq(OutFrames) /\ recv_waiters \in Seq(RecvEntries)
      /\ send_waiters \in Seq(SendEntries) /\ <<>> \in Seq(SendEntries)
  BY <1>0 DEF ChanT, TakesFrame
<1>2. Head(toOwner).corr \in Corrs
  <2>1. Head(toOwner) \in ToFrames BY <1>1
  <2> QED BY <2>1, FrameKeys
<1> DEFINE g == Frame("ClosedFor", Head(toOwner).corr, NoVal)
           o2 == Append(outbound, g)
<1>3. g \in OutFrames /\ g.corr = Head(toOwner).corr /\ ValKey[g] = NoVal
  BY <1>2, MadeAns, FrameKeys
<1>4. outbound' = IF RemoteUp THEN outbound \o <<g>> ELSE outbound BY DEF Answer
<1> HIDE DEF g
<1>5. outbound \o <<g>> = o2 BY <1>1, <1>3, JoinFrames
<1>6. o2 \in Seq(OutFrames) /\ Same(outbound, o2, ValKey, NoVal) BY <1>1, <1>3, SameAppend
<1>7. \A sq \in Seq(SendEntries) :
        Flow(toOwner, recv_waiters, sq, outbound, Tail(toOwner), recv_waiters, sq, o2)
  BY <1>1, <1>3, FlowTaken
<1>p. PICK f0 \in OutFrames : TRUE BY <1>3
<1>8. Flow(toOwner, recv_waiters, send_waiters, outbound, Tail(toOwner), recv_waiters, send_waiters', o2)
  <2>1. CASE send_waiters' = send_waiters BY <1>1, <1>7, <2>1
  <2>2. CASE ~AnyLive(send_waiters) /\ send_waiters' = <<>>
    <3>1. Flow(toOwner, recv_waiters, send_waiters, outbound, toOwner, recv_waiters, <<>>, outbound)
      BY <1>1, <1>p, <2>2, FlowSend
    <3>2. Flow(toOwner, recv_waiters, <<>>, outbound, Tail(toOwner), recv_waiters, <<>>, o2)
      BY <1>1, <1>7
    <3>3. Flow(toOwner, recv_waiters, send_waiters, outbound, Tail(toOwner), recv_waiters, <<>>, o2)
      BY <3>1, <3>2, FlowTrans
    <3> QED BY <2>2, <3>3
  <2> QED BY <2>1, <2>2
<1> HIDE DEF o2
<1>9. outbound' = IF RemoteUp THEN o2 ELSE outbound BY <1>4, <1>5
<1>10. Flow(toOwner, recv_waiters, send_waiters, outbound, toOwner', recv_waiters', send_waiters', o2)
  BY <1>1, <1>8
<1>11. recv_waiters' \in Seq(RecvEntries) BY <1>1
<1> QED BY <1>6, <1>9, <1>10, <1>11, AgentAnswers

(* The value of a Send the owner takes: its sender is remote, and it is     *)
(* nowhere else.                                                            *)
LEMMA TakenSend ==
  ASSUME RInv, dead = "none", toOwner # <<>>, Head(toOwner).type = "Send", NEW v,
         v = Head(toOwner).val
  PROVE  /\ v \in Values /\ fate[v] = "parked" /\ v \notin lost /\ v \notin Kept(fate, lost)
         /\ ~Has(Tail(toOwner), SendKey, v) /\ ~Held(v)
         /\ \A t \in LocalTasks : op[t] = "send" => opval[t] # v
<1>1. UpOK /\ toOwner \in Seq(ToFrames) BY DEF RInv, RTypes, ChanT
<1>2. Head(toOwner) \in ToFrames BY <1>1
<1>3. v \in Values /\ SendKey[Head(toOwner)] = v BY <1>2, FrameKeys
<1>4. WayOK /\ SenderOK /\ SpotsOK BY <1>1 DEF UpOK
<1>5. Once(toOwner, SendKey, NoVal) BY <1>4 DEF WayOK
<1>6. /\ Has(toOwner, SendKey, v)
      /\ ~Has(Tail(toOwner), SendKey, v)
  <2>1. \A k : Has(toOwner, SendKey, k) <=> SendKey[Head(toOwner)] = k \/ Has(Tail(toOwner), SendKey, k)
    BY <1>1, HasTail
  <2>2. \A k : k # NoVal /\ SendKey[Head(toOwner)] = k => ~Has(Tail(toOwner), SendKey, k)
    BY <1>1, <1>5, HasTail
  <2> QED BY <1>3, <2>1, <2>2, ChannelAssumption
<1>7. fate[v] = "parked" /\ ~Held(v) BY <1>3, <1>4, <1>6 DEF WayOK, Offered
<1>8. v \notin lost /\ v \notin Kept(fate, lost) BY <1>4, <1>7 DEF SpotsOK, Kept
<1>9. \A t \in LocalTasks : op[t] = "send" => opval[t] # v BY <1>4, <1>6 DEF SenderOK, Offered
<1> QED BY <1>3, <1>6, <1>7, <1>8, <1>9

(* A Send is accepted: its value goes to a receiver or the buffer, and its  *)
(* sender is acknowledged.  o1 is the lane before the acknowledgement.      *)
LEMMA AgentAccepts ==
  ASSUME RInv, OwnerUp, TakesFrame, Head(toOwner).type = "Send", AgentFrame, AgentWakes,
         NEW v, v = Head(toOwner).val, NEW o1 \in Seq(OutFrames), NEW g,
         g = Frame("Ack", Head(toOwner).corr, NoVal),
         outbound' = IF RemoteUp THEN Append(o1, g) ELSE outbound,
         buffer' \in Seq(Values), recv_waiters' \in Seq(RecvEntries),
         wake' \in [Tasks -> RWakes], parked_on_channel' \in [Tasks -> BOOLEAN],
         UNCHANGED <<closed, send_waiters, lost>>, fate' = [fate EXCEPT ![v] = "accepted"],
         \A sq : Flow(toOwner, recv_waiters, sq, outbound, toOwner, recv_waiters', sq, o1),
         UpOK => \A r, rec, acc : Spots(buffer, wake, outbound, r, rec, acc) /\ v \notin acc =>
                                    Spots(buffer', wake', o1, r, rec, acc \cup {v})
  PROVE  RInv'
<1>0. RTypes /\ ChanT /\ TaskT /\ ValT BY DEF RInv, RTypes
<1>1. /\ toOwner \in Seq(ToFrames) /\ toOwner # <<>> /\ toOwner' = Tail(toOwner)
      /\ outbound \in Seq(OutFrames) /\ send_waiters \in Seq(SendEntries)
  BY <1>0 DEF ChanT, TakesFrame
<1>2. Head(toOwner).corr \in Corrs /\ v \in Values /\ RetKey[Head(toOwner)] = NoVal
  <2>1. Head(toOwner) \in ToFrames BY <1>1
  <2> QED BY <2>1, FrameKeys
<1>3. g \in OutFrames /\ g.corr = Head(toOwner).corr /\ ValKey[g] = NoVal
  BY <1>2, MadeAns, FrameKeys
<1>4. Append(o1, g) \in Seq(OutFrames) /\ Same(o1, Append(o1, g), ValKey, NoVal)
  BY <1>3, SameAppend
<1>5. Flow(toOwner, recv_waiters, send_waiters, outbound,
           toOwner', recv_waiters', send_waiters', Append(o1, g))
  <2>1. Flow(toOwner, recv_waiters', send_waiters, o1, Tail(toOwner), recv_waiters', send_waiters, Append(o1, g))
    BY <1>1, <1>3, FlowTaken
  <2>2. Flow(toOwner, recv_waiters, send_waiters, outbound,
             Tail(toOwner), recv_waiters', send_waiters, Append(o1, g))
    BY <2>1, FlowTrans
  <2> QED BY <1>1, <2>2
<1>6. CorrKept BY <1>5 DEF CorrKept
<1>7. AgentTypes
  <2>1. /\ fate' \in [Values -> {"new", "parked", "accepted", "refused", "cancelled"}]
        /\ lost' \in SUBSET Values
    BY <1>0, <1>2 DEF ValT
  <2>2. closed' \in BOOLEAN /\ send_waiters' \in Seq(SendEntries) BY <1>0 DEF ChanT
  <2>3. outbound' \in Seq(OutFrames) BY <1>1, <1>4
  <2> QED BY <2>1, <2>2, <2>3 DEF AgentTypes
<1>8. ASSUME dead = "none" PROVE SpotsOK' /\ Settles
  <2>1. UpOK /\ outbound' = Append(o1, g) BY <1>8 DEF RInv, RemoteUp
  <2>2. /\ fate[v] = "parked" /\ v \notin lost /\ v \notin Kept(fate, lost)
        /\ ~Has(Tail(toOwner), SendKey, v) /\ ~Held(v)
        /\ \A t \in LocalTasks : op[t] = "send" => opval[t] # v
    BY <1>1, <1>8, TakenSend
  <2>3. /\ \A u \in Values : fate'[u] = IF u = v THEN "accepted" ELSE fate[u]
        /\ Kept(fate', lost) = Kept(fate, lost) \cup {v}
    BY <1>0, <1>2, <2>2, FateChange
  <2>4. Spots(buffer', wake', o1, toOwner, received, Kept(fate, lost) \cup {v})
    BY <2>1, <2>2 DEF UpOK, SpotsOK
  <2>5. Same(toOwner, Tail(toOwner), RetKey, NoVal) BY <1>1, <1>2, SameTail
  <2>6. Quiet(wake', wake') BY DEF Quiet
  <2>7. Spots(buffer', wake', Append(o1, g), Tail(toOwner), received, Kept(fate, lost) \cup {v})
    BY <1>4, <2>4, <2>5, <2>6, SpotsSame
  <2>8. \A u \in lost : fate'[u] = "accepted"
    BY <1>0, <2>1, <2>2, <2>3 DEF ValT, UpOK, SpotsOK
  <2>9. SpotsOK' BY <1>1, <2>1, <2>3, <2>7, <2>8 DEF SpotsOK, AgentFrame
  <2>10. Part(send_waiters', send_waiters) BY <1>1, PartFacts
  <2>11. Once(send_waiters', FarKey, NoVal) BY <2>1 DEF UpOK, WayOK
  <2>12. UNCHANGED <<op, opval>> BY DEF AgentFrame, coroVars
  <2>13. ASSUME NEW u \in Values
         PROVE  \/ fate'[u] = fate[u]
                \/ /\ fate'[u] # "new" /\ ~Has(toOwner', SendKey, u) /\ ~Has(send_waiters', FarKey, u)
                   /\ \A t \in LocalTasks : op'[t] = "send" /\ opval'[t] = u => ~parked_on_channel'[t]
    BY <1>1, <2>2, <2>3, <2>12 DEF Held
  <2>14. Settles BY <2>10, <2>11, <2>13 DEF Settles, Offered, Held
  <2> QED BY <2>9, <2>14
<1>9. Head(toOwner).type # "Cancel" OBVIOUS
<1> QED BY <1>6, <1>7, <1>8, <1>9, AgentSettleKeeps

(* A Send meets a live receiver.                                            *)
LEMMA AgentHands ==
  ASSUME RInv, OwnerUp, TakesFrame, Head(toOwner).type = "Send", AgentFrame,
         NEW f, f = Head(toOwner), NEW e, e = PopLive(recv_waiters),
         AnyLive(recv_waiters), recv_waiters' = AfterPop(recv_waiters),
         Answer((IF e.remote THEN <<Frame("Value", e.id, f.val)>> ELSE <<>>)
                  \o <<Frame("Ack", f.corr, NoVal)>>),
         IF e.remote THEN UNCHANGED wakeVars
         ELSE wake_channel_task(e.task, Wake("Recv", f.val)),
         fate' = [fate EXCEPT ![f.val] = "accepted"],
         UNCHANGED <<closed, buffer, send_waiters, lost>>
  PROVE  RInv'
<1>0. RTypes /\ ChanT /\ TaskT BY DEF RInv, RTypes
<1>1. /\ toOwner \in Seq(ToFrames) /\ toOwner # <<>> /\ outbound \in Seq(OutFrames)
      /\ recv_waiters \in Seq(RecvEntries) /\ buffer \in Seq(Values)
      /\ wake \in [Tasks -> RWakes] /\ parked_on_channel \in [Tasks -> BOOLEAN]
  BY <1>0 DEF ChanT, TaskT, TakesFrame
<1> DEFINE v == f.val
           g == Frame("Ack", f.corr, NoVal)
           h == Frame("Value", e.id, v)
<1>2. f.corr \in Corrs /\ v \in Values
  <2>1. f \in ToFrames BY <1>1
  <2> QED BY <2>1, FrameKeys
<1>3. g \in OutFrames BY <1>2, MadeAns
<1>4. recv_waiters' \in Seq(RecvEntries) /\ e \in RecvEntries /\ EntryLive(e) BY <1>1, PopRecv
<1>5. e \in Entries /\ (e.remote => e.id \in Corrs) /\ (~e.remote => e.task \in LocalTasks)
  BY <1>4 DEF RecvEntries, Entries, Corrs
<1>6. outbound' = IF RemoteUp THEN outbound \o ((IF e.remote THEN <<h>> ELSE <<>>) \o <<g>>)
                  ELSE outbound
  BY DEF Answer
<1>7. IF e.remote THEN UNCHANGED wakeVars ELSE wake_channel_task(e.task, Wake("Recv", v))
  OBVIOUS
<1>8. fate' = [fate EXCEPT ![v] = "accepted"] OBVIOUS
<1>p. \E x \in OutFrames : TRUE BY <1>3
<1>f. \A x \in OutFrames : \A sq :
        /\ ~e.remote => Flow(toOwner, recv_waiters, sq, outbound, toOwner, recv_waiters', sq, outbound)
        /\ e.remote /\ x.corr = e.id =>
             Flow(toOwner, recv_waiters, sq, outbound, toOwner, recv_waiters', sq, Append(outbound, x))
  BY <1>1, FlowRecv
<1>9. CASE e.remote
  <2> DEFINE o1 == Append(outbound, h)
  <2>1. h \in OutFrames /\ h.corr = e.id /\ h.type = "Value" /\ h.val = v
    BY <1>2, <1>5, <1>9, MadeOut
  <2> HIDE DEF h, v
  <2>2. outbound \o (<<h>> \o <<g>>) = Append(o1, g) BY <1>1, <1>3, <2>1, JoinFrames
  <2>3. outbound' = IF RemoteUp THEN Append(o1, g) ELSE outbound BY <1>6, <1>9, <2>2
  <2>4. o1 \in Seq(OutFrames) BY <1>1, <2>1
  <2>5. UNCHANGED <<wake, parked_on_channel>> BY <1>7, <1>9 DEF wakeVars
  <2>6. AgentWakes BY <2>5 DEF AgentWakes
  <2>7. \A sq : Flow(toOwner, recv_waiters, sq, outbound, toOwner, recv_waiters', sq, o1)
    BY <1>f, <1>9, <2>1
  <2>8. ASSUME NEW r, NEW rec, NEW acc, Spots(buffer, wake, outbound, r, rec, acc), v \notin acc
        PROVE  Spots(buffer', wake', o1, r, rec, acc \cup {v})
    <3>1. Spots(buffer, wake, Append(outbound, h), r, rec, acc \cup {h.val})
      BY <1>1, <2>1, <2>8, PutOut
    <3> QED BY <2>1, <2>5, <3>1
  <2>9. buffer' \in Seq(Values) /\ wake' \in [Tasks -> RWakes] /\ parked_on_channel' \in [Tasks -> BOOLEAN]
    BY <1>1, <2>5
  <2>10. v = Head(toOwner).val /\ g = Frame("Ack", Head(toOwner).corr, NoVal) BY DEF v
  <2> HIDE DEF o1, g
  <2> QED BY <1>4, <1>8, <2>3, <2>4, <2>6, <2>7, <2>8, <2>9, <2>10, AgentAccepts
<1>10. CASE ~e.remote
  <2>2. outbound \o (<<>> \o <<g>>) = Append(outbound, g) BY <1>1, <1>3, JoinFrames
  <2>3. outbound' = IF RemoteUp THEN Append(outbound, g) ELSE outbound BY <1>6, <1>10, <2>2
  <2>4. e.task \in Tasks /\ parked_on_channel[e.task] /\ e.task \in LocalTasks
    BY <1>4, <1>5, <1>10, LiveTask
  <2> HIDE DEF v
  <2>5. /\ parked_on_channel' = [parked_on_channel EXCEPT ![e.task] = FALSE]
        /\ wake' = [wake EXCEPT ![e.task] = Wake("Recv", v)]
    BY <1>7, <1>10 DEF wake_channel_task
  <2>w. Wake("Recv", v) \in RWakes /\ Wake("Recv", v).kind = "Recv"
    BY <1>2 DEF Wake, RWakes, Wakes
  <2>6. wake' \in [Tasks -> RWakes] /\ parked_on_channel' \in [Tasks -> BOOLEAN]
    BY <1>1, <2>5, <2>w
  <2>7. /\ wake'[e.task] = Wake("Recv", v) /\ ~parked_on_channel'[e.task]
        /\ \A t \in Tasks \ {e.task} : wake'[t] = wake[t] /\ parked_on_channel'[t] = parked_on_channel[t]
    BY <1>1, <2>4, <2>5
  <2>8. AgentWakes BY <2>4, <2>7, <2>w DEF AgentWakes, WokenHere
  <2>9. \A sq : Flow(toOwner, recv_waiters, sq, outbound, toOwner, recv_waiters', sq, outbound)
    BY <1>f, <1>p, <1>10
  <2>10. ASSUME UpOK, NEW r, NEW rec, NEW acc, Spots(buffer, wake, outbound, r, rec, acc), v \notin acc
         PROVE  Spots(buffer', wake', outbound, r, rec, acc \cup {v})
    <3>1. wake[e.task].kind # "Recv" BY <2>4, <2>10 DEF UpOK, ParksOK, Parks
    <3>0. v \in Values /\ e.task \in Tasks /\ wake'[e.task] = Wake("Recv", v)
            /\ \A u \in Tasks \ {e.task} : wake'[u] = wake[u]
      BY <1>2, <2>4, <2>7
    <3>2. Spots(buffer, wake', outbound, r, rec, acc \cup {v})
      BY <2>10, <3>0, <3>1, PutWake
    <3> QED BY <3>2
  <2>11. v = Head(toOwner).val /\ g = Frame("Ack", Head(toOwner).corr, NoVal) BY DEF v
  <2>12. buffer' \in Seq(Values) BY <1>1
  <2> HIDE DEF g
  <2> QED BY <1>1, <1>4, <1>8, <2>3, <2>6, <2>8, <2>9, <2>10, <2>11, <2>12, AgentAccepts
<1> QED BY <1>9, <1>10

(* A Send goes into the buffer.                                             *)
LEMMA AgentBuffers ==
  ASSUME RInv, OwnerUp, TakesFrame, Head(toOwner).type = "Send", AgentFrame,
         NEW f, f = Head(toOwner), ~AnyLive(recv_waiters), recv_waiters' = <<>>,
         buffer' = Append(buffer, f.val), Answer(<<Frame("Ack", f.corr, NoVal)>>),
         fate' = [fate EXCEPT ![f.val] = "accepted"],
         UNCHANGED <<closed, send_waiters, wakeVars, lost>>
  PROVE  RInv'
<1>0. RTypes /\ ChanT /\ TaskT BY DEF RInv, RTypes
<1>1. /\ toOwner \in Seq(ToFrames) /\ toOwner # <<>> /\ outbound \in Seq(OutFrames)
      /\ recv_waiters \in Seq(RecvEntries) /\ buffer \in Seq(Values)
      /\ wake \in [Tasks -> RWakes] /\ parked_on_channel \in [Tasks -> BOOLEAN]
  BY <1>0 DEF ChanT, TaskT, TakesFrame
<1> DEFINE v == f.val
           g == Frame("Ack", f.corr, NoVal)
<1>2. f.corr \in Corrs /\ v \in Values
  <2>1. f \in ToFrames BY <1>1
  <2> QED BY <2>1, FrameKeys
<1>3. g \in OutFrames BY <1>2, MadeAns
<1>4. outbound' = IF RemoteUp THEN outbound \o <<g>> ELSE outbound BY DEF Answer
<1>5. outbound \o <<g>> = Append(outbound, g) BY <1>1, <1>3, JoinFrames
<1>6. outbound' = IF RemoteUp THEN Append(outbound, g) ELSE outbound BY <1>4, <1>5
<1>7. v = Head(toOwner).val /\ g = Frame("Ack", Head(toOwner).corr, NoVal)
        /\ buffer' = Append(buffer, v) /\ fate' = [fate EXCEPT ![v] = "accepted"]
  OBVIOUS
<1> HIDE DEF v, g
<1>8. UNCHANGED <<wake, parked_on_channel>> BY DEF wakeVars
<1>9. AgentWakes BY <1>8 DEF AgentWakes
<1>10. \A sq : Flow(toOwner, recv_waiters, sq, outbound, toOwner, recv_waiters', sq, outbound)
  <2>1. \A sq : Flow(toOwner, recv_waiters, sq, outbound, toOwner, <<>>, sq, outbound)
    BY <1>1, <1>3, FlowRecv
  <2> QED BY <2>1
<1>11. ASSUME NEW r, NEW rec, NEW acc, Spots(buffer, wake, outbound, r, rec, acc), v \notin acc
       PROVE  Spots(buffer', wake', outbound, r, rec, acc \cup {v})
  <2>1. Spots(Append(buffer, v), wake, outbound, r, rec, acc \cup {v})
    BY <1>1, <1>2, <1>11, PutBuffer
  <2> QED BY <1>7, <1>8, <2>1
<1>12. recv_waiters' \in Seq(RecvEntries) /\ buffer' \in Seq(Values)
         /\ wake' \in [Tasks -> RWakes] /\ parked_on_channel' \in [Tasks -> BOOLEAN]
  BY <1>1, <1>2, <1>7, <1>8
<1> QED BY <1>1, <1>6, <1>7, <1>9, <1>10, <1>11, <1>12, AgentAccepts

(* A Send queues: its value moves from the lane into the waiter entry.      *)
LEMMA AgentQueuesSend ==
  ASSUME RInv, OwnerUp, TakesFrame, Head(toOwner).type = "Send", AgentFrame,
         NEW f, f = Head(toOwner), ~AnyLive(recv_waiters), recv_waiters' = <<>>,
         send_waiters' = Append(send_waiters, RemoteEntry(f.corr, f.val)),
         UNCHANGED <<closed, buffer, outbound, wakeVars, fate, lost>>
  PROVE  RInv'
<1>0. RTypes /\ ChanT /\ TaskT /\ ValT BY DEF RInv, RTypes
<1>1. /\ toOwner \in Seq(ToFrames) /\ toOwner # <<>> /\ toOwner' = Tail(toOwner)
      /\ outbound \in Seq(OutFrames) /\ send_waiters \in Seq(SendEntries)
      /\ recv_waiters \in Seq(RecvEntries)
  BY <1>0 DEF ChanT, TakesFrame
<1> DEFINE v == f.val
           e == RemoteEntry(f.corr, v)
<1>2. f.corr \in Corrs /\ v \in Values /\ SendKey[f] = v /\ RetKey[f] = NoVal
  <2>1. f \in ToFrames BY <1>1
  <2> QED BY <2>1, FrameKeys
<1>3. e \in SendEntries /\ e.remote /\ e.id = f.corr /\ e.val = v BY <1>2, MadeEntries
<1>k. FarKey[e] = v BY <1>3, EntryKeys
<1>4. send_waiters' = Append(send_waiters, e) OBVIOUS
<1> HIDE DEF e
<1>p. PICK f0 \in OutFrames : TRUE BY <1>2, MadeAns
<1>5. CorrKept
  <2>1. Flow(toOwner, recv_waiters, send_waiters, outbound, toOwner, <<>>, send_waiters, outbound)
    BY <1>1, <1>p, FlowRecv
  <2>2. Flow(toOwner, <<>>, send_waiters, outbound, Tail(toOwner), <<>>, Append(send_waiters, e), outbound)
    <3>1. <<>> \in Seq(RecvEntries) OBVIOUS
    <3> QED BY <1>1, <1>3, <3>1, FlowTaken
  <2>3. Flow(toOwner, recv_waiters, send_waiters, outbound, toOwner', recv_waiters', send_waiters', outbound')
    BY <1>1, <1>4, <2>1, <2>2, FlowTrans
  <2> QED BY <2>3 DEF CorrKept
<1>6. AgentTypes
  <2>1. recv_waiters' \in Seq(RecvEntries) OBVIOUS
  <2>2. send_waiters' \in Seq(SendEntries) BY <1>1, <1>3, <1>4
  <2>3. closed' \in BOOLEAN /\ buffer' \in Seq(Values) /\ outbound' \in Seq(OutFrames)
    BY <1>0 DEF ChanT
  <2>4. wake' \in [Tasks -> RWakes] /\ parked_on_channel' \in [Tasks -> BOOLEAN]
    BY <1>0 DEF TaskT, wakeVars
  <2>5. /\ fate' \in [Values -> {"new", "parked", "accepted", "refused", "cancelled"}]
        /\ lost' \in SUBSET Values
    BY <1>0 DEF ValT
  <2> QED BY <2>1, <2>2, <2>3, <2>4, <2>5 DEF AgentTypes
<1>7. AgentWakes BY DEF AgentWakes, wakeVars
<1>8. UNCHANGED <<op, opval, opcorr, park_epoch, received>> BY DEF AgentFrame, coroVars
<1>9. ASSUME dead = "none" PROVE FitsOK' /\ SpotsOK' /\ WayOK' /\ SenderOK'
  <2>1. UpOK BY <1>9 DEF RInv
  <2>2. /\ fate[v] = "parked" /\ ~Has(Tail(toOwner), SendKey, v) /\ ~Held(v)
        /\ \A t \in LocalTasks : op[t] = "send" => opval[t] # v
    BY <1>1, <1>9, TakenSend
  <2>3. /\ Len(send_waiters') = Len(send_waiters) + 1 /\ Len(send_waiters) \in Nat
        /\ send_waiters'[Len(send_waiters) + 1] = e
        /\ \A i \in 1..Len(send_waiters) : send_waiters'[i] = send_waiters[i]
        /\ \A i \in 1..Len(send_waiters') : i \in 1..Len(send_waiters) \/ i = Len(send_waiters) + 1
    BY <1>1, <1>3, <1>4
  <2>4. WayOK /\ SenderOK /\ SpotsOK /\ FitsOK /\ ParksOK BY <2>1 DEF UpOK
  <2>5. FitsOK'
    <3> SUFFICES ASSUME NEW i \in 1..Len(send_waiters'), NEW x, x = send_waiters'[i], ~x.remote
                 PROVE  /\ x.id <= park_epoch[x.task]
                        /\ x.id = park_epoch[x.task] => op[x.task] = "send" /\ opval[x.task] = x.val
      BY <1>8 DEF FitsOK, LocalFits
    <3>1. i \in 1..Len(send_waiters) /\ x = send_waiters[i] BY <1>3, <2>3
    <3> QED BY <2>4, <3>1 DEF FitsOK, LocalFits
  <2>6. SpotsOK'
    <3>1. Same(toOwner, Tail(toOwner), RetKey, NoVal) /\ Same(outbound, outbound, ValKey, NoVal)
      BY <1>1, <1>2, SameTail, SameKeys
    <3>2. Quiet(wake, wake) BY DEF Quiet
    <3>3. Spots(buffer, wake, outbound, Tail(toOwner), received, Kept(fate, lost))
      BY <2>4, <3>1, <3>2, SpotsSame DEF SpotsOK
    <3> QED BY <1>1, <1>8, <2>4, <3>3 DEF SpotsOK, wakeVars
  <2>7. /\ \A k : Has(toOwner, SendKey, k) <=> SendKey[f] = k \/ Has(Tail(toOwner), SendKey, k)
        /\ Once(toOwner, SendKey, NoVal) => Once(Tail(toOwner), SendKey, NoVal)
    BY <1>1, HasTail
  <2>8. /\ \A k : Has(Append(send_waiters, e), FarKey, k) <=> Has(send_waiters, FarKey, k) \/ v = k
        /\ Once(send_waiters, FarKey, NoVal) => Once(Append(send_waiters, e), FarKey, NoVal)
    BY <1>1, <1>3, <1>k, <2>2, HasAppend DEF Held
  <2>9. Once(toOwner', SendKey, NoVal) /\ Once(send_waiters', FarKey, NoVal)
    BY <1>1, <1>4, <2>4, <2>7, <2>8 DEF WayOK
  <2>10. \A u \in Values :
           /\ Has(toOwner', SendKey, u) => ~Has(send_waiters', FarKey, u) /\ fate[u] = "parked"
           /\ Has(send_waiters', FarKey, u) => fate[u] = "parked"
    BY <1>1, <1>4, <2>2, <2>4, <2>7, <2>8 DEF WayOK, Offered, Held
  <2>11. WayOK' BY <2>9, <2>10 DEF WayOK, Offered, Held
  <2>12. \A t \in LocalTasks : op[t] = "send" =>
           ~Has(toOwner', SendKey, opval[t]) /\ ~Has(send_waiters', FarKey, opval[t])
    BY <1>1, <1>4, <2>2, <2>4, <2>7, <2>8 DEF SenderOK, Offered, Held
  <2>13. ASSUME NEW t \in RemoteTasks, op[t] = "send" PROVE OfferFits(t)'
    <3>1. OfferFits(t) BY <2>4, <2>13 DEF SenderOK
    <3>2. /\ \A i \in 1..Len(toOwner) : SendKey[toOwner[i]] = opval[t] => toOwner[i].corr = opcorr[t]
          /\ \A i \in 1..Len(send_waiters) :
               FarKey[send_waiters[i]] = opval[t] => send_waiters[i].id = opcorr[t]
      BY <3>1 DEF OfferFits
    <3>3. Part(Tail(toOwner), toOwner) BY <1>1, PartFacts
    <3>4. \A i \in 1..Len(toOwner') : SendKey[toOwner'[i]] = opval[t] => toOwner'[i].corr = opcorr[t]
      BY <1>1, <3>2, <3>3 DEF Part
    <3>5. v = opval[t] => f.corr = opcorr[t]
      <4>1. 1 \in 1..Len(toOwner) /\ f = toOwner[1] BY <1>1
      <4> QED BY <1>2, <3>2, <4>1
    <3>6. \A i \in 1..Len(send_waiters') :
            FarKey[send_waiters'[i]] = opval[t] => send_waiters'[i].id = opcorr[t]
      BY <1>3, <1>k, <2>3, <3>2, <3>5
    <3> QED BY <1>8, <3>4, <3>6 DEF OfferFits
  <2>14. SenderOK'
    BY <1>8, <2>4, <2>12, <2>13 DEF SenderOK, Offered, Held, wakeVars
  <2> QED BY <2>5, <2>6, <2>11, <2>14
<1>10. Head(toOwner).type # "Cancel" OBVIOUS
<1> QED BY <1>5, <1>6, <1>7, <1>9, <1>10, AgentFlowKeeps

(* Applying a remote send keeps the invariant.                              *)
LEMMA ApplySendKeeps ==
  ASSUME RInv, OwnerUp, TakesFrame, Head(toOwner).type = "Send", AgentFrame,
         ApplySend(Head(toOwner)), UNCHANGED lost
  PROVE  RInv'
<1> DEFINE f == Head(toOwner)
           e == PopLive(recv_waiters)
<1>1. CASE /\ Answer(<<Frame("ClosedFor", f.corr, NoVal)>>)
           /\ UNCHANGED <<chanVars, wakeVars, fate>>
  <2>1. UNCHANGED <<closed, buffer, recv_waiters, wakeVars, fate, lost>> /\ send_waiters' = send_waiters
    BY <1>1 DEF chanVars
  <2> QED BY <1>1, <2>1, AgentRefuses
<1>2. CASE /\ AnyLive(recv_waiters)
           /\ Answer((IF e.remote THEN <<Frame("Value", e.id, f.val)>> ELSE <<>>)
                       \o <<Frame("Ack", f.corr, NoVal)>>)
           /\ IF e.remote THEN UNCHANGED wakeVars
              ELSE wake_channel_task(e.task, Wake("Recv", f.val))
           /\ recv_waiters' = AfterPop(recv_waiters)
           /\ fate' = [fate EXCEPT ![f.val] = "accepted"]
           /\ UNCHANGED <<closed, buffer, send_waiters>>
  <2>1. f = Head(toOwner) /\ e = PopLive(recv_waiters) OBVIOUS
  <2> HIDE DEF f, e
  <2> QED BY <1>2, <2>1, AgentHands
<1>3. CASE /\ ~AnyLive(recv_waiters) /\ recv_waiters' = <<>>
           /\ buffer' = Append(buffer, f.val)
           /\ Answer(<<Frame("Ack", f.corr, NoVal)>>)
           /\ fate' = [fate EXCEPT ![f.val] = "accepted"]
           /\ UNCHANGED <<closed, send_waiters, wakeVars>>
  BY <1>3, AgentBuffers
<1>4. CASE /\ ~AnyLive(recv_waiters) /\ recv_waiters' = <<>>
           /\ send_waiters' = Append(send_waiters, RemoteEntry(f.corr, f.val))
           /\ UNCHANGED <<closed, buffer, outbound, wakeVars, fate>>
  BY <1>4, AgentQueuesSend
<1> QED BY <1>1, <1>2, <1>3, <1>4 DEF ApplySend

(* A Recv the owner serves: the oldest value leaves, and a parked sender's  *)
(* takes the place it freed.  `rest` is the buffer without the oldest value *)
(* and `base` the values held there or elsewhere.                           *)
Rest == IF buffer = <<>> THEN <<>>
        ELSE IF AnyLive(send_waiters) THEN Append(Tail(buffer), Sender.val) ELSE Tail(buffer)
Acked == IF AnyLive(send_waiters) THEN OutAck ELSE outbound
Serves ==
  /\ Available /\ send_waiters' = AfterPop(send_waiters)
  /\ fate' = IF AnyLive(send_waiters) THEN [fate EXCEPT ![Sender.val] = "accepted"] ELSE fate
  /\ IF AnyLive(send_waiters) /\ ~Sender.remote
     THEN wake_channel_task(Sender.task, Wake("SendOk", NoVal)) ELSE UNCHANGED wakeVars
ServedQueues ==
  /\ send_waiters' \in Seq(SendEntries) /\ Acked \in Seq(OutFrames)
  /\ wake' \in [Tasks -> RWakes] /\ parked_on_channel' \in [Tasks -> BOOLEAN]
  /\ fate' \in [Values -> {"new", "parked", "accepted", "refused", "cancelled"}]
  /\ Oldest \in Values /\ Rest \in Seq(Values)
  /\ AgentWakes
  /\ \A to, rq : Flow(to, rq, send_waiters, outbound, to, rq, send_waiters', Acked)

(* Serving a receive: the queues and the promoted sender.                   *)
LEMMA ServedTypes ==
  ASSUME ChanT, TaskT, ValT, Serves, UNCHANGED <<coroVars, lost>>
  PROVE  ServedQueues /\ (AnyLive(send_waiters) => Promotion)
<1>1. /\ send_waiters \in Seq(SendEntries) /\ outbound \in Seq(OutFrames)
      /\ buffer \in Seq(Values) /\ wake \in [Tasks -> RWakes] /\ parked_on_channel \in [Tasks -> BOOLEAN]
  BY DEF ChanT, TaskT
<1>2. CASE AnyLive(send_waiters)
  <2>1. Promotion BY <1>2 DEF Promotion, Serves
  <2>2. PromotedQueue BY <2>1, PromoteQueue
  <2>3. Acked = OutAck BY <1>2 DEF Acked
  <2>4. Sender.val \in Values BY <2>2 DEF PromotedQueue
  <2>5. Oldest \in Values /\ Rest \in Seq(Values)
    <3>1. CASE buffer = <<>>
      <4>1. Oldest = Sender.val /\ Rest = <<>> BY <3>1 DEF Oldest, Rest, Sender
      <4> QED BY <2>4, <4>1
    <3>2. CASE buffer # <<>>
      <4>1. Oldest = Head(buffer) /\ Rest = Append(Tail(buffer), Sender.val)
        BY <1>2, <3>2 DEF Oldest, Rest
      <4>2. Head(buffer) \in Values /\ Tail(buffer) \in Seq(Values) BY <1>1, <3>2
      <4> QED BY <2>4, <4>1, <4>2
    <3> QED BY <3>1, <3>2
  <2>6. fate' \in [Values -> {"new", "parked", "accepted", "refused", "cancelled"}]
    BY <2>1, <2>4 DEF Promotion, ValT
  <2>7. AgentWakes BY <2>2 DEF PromotedQueue, AgentWakes
  <2> QED BY <2>1, <2>2, <2>3, <2>5, <2>6, <2>7 DEF PromotedQueue, ServedQueues
<1>3. CASE ~AnyLive(send_waiters)
  <2>1. buffer # <<>> /\ fate' = fate /\ UNCHANGED wakeVars /\ send_waiters' = <<>> /\ Acked = outbound
    BY <1>3 DEF Serves, Available, AfterPop, Acked
  <2>2. Oldest = Head(buffer) /\ Rest = Tail(buffer) BY <1>3, <2>1 DEF Oldest, Rest
  <2>3. Head(buffer) \in Values /\ Tail(buffer) \in Seq(Values) BY <1>1, <2>1
  <2>p. PICK f0 \in OutFrames : TRUE
    <3>1. 1 \in Corrs BY DEF Corrs
    <3> QED BY <3>1, MadeAns
  <2>4. \A to, rq : Flow(to, rq, send_waiters, outbound, to, rq, <<>>, outbound)
    BY <1>1, <1>3, <2>p, FlowSend
  <2>5. AgentWakes BY <2>1 DEF AgentWakes, wakeVars
  <2>6. send_waiters' \in Seq(SendEntries) BY <2>1
  <2> QED BY <1>1, <1>3, <2>1, <2>2, <2>3, <2>4, <2>5, <2>6 DEF ServedQueues, wakeVars, ValT
<1> QED BY <1>2, <1>3

(* Serving a receive: the oldest value leaves its spot, and the promoted    *)
(* sender's is accepted.                                                    *)
LEMMA ServedValues ==
  ASSUME ChanT, TaskT, ValT, Serves, UNCHANGED <<coroVars, lost>>, UpOK, Part(toOwner', toOwner)
  PROVE  /\ Settles /\ \A u \in lost : fate'[u] = "accepted"
         /\ \A r2 : Same(toOwner, r2, RetKey, NoVal) =>
              \E base : /\ Spots(Rest, wake', Acked, r2, received, base)
                        /\ Oldest \notin base /\ base \cup {Oldest} = Kept(fate', lost)
<1>0. /\ send_waiters \in Seq(SendEntries) /\ buffer \in Seq(Values) BY DEF ChanT
<1> DEFINE acc == Kept(fate, lost)
           h == Head(buffer)
           s == Sender.val
<1>1. Spots(buffer, wake, outbound, toOwner, received, acc) BY DEF UpOK, SpotsOK
<1>2. ServedQueues BY ServedTypes
<1>3. CASE AnyLive(send_waiters)
  <2>1. Promotion BY <1>3, ServedTypes
  <2>2. PromotedQueue /\ PromotedValue BY <2>1, PromoteQueue, PromoteValue
  <2>3. /\ Settles
        /\ Kept(fate', lost) = acc \cup {s}
        /\ \A u \in lost : fate'[u] = "accepted"
    BY <2>1, PromotionSettles
  <2>4. Acked = OutAck /\ Same(outbound, Acked, ValKey, NoVal) /\ Quiet(wake, wake')
          /\ s \in Values /\ s \notin acc
    BY <1>3, <2>2 DEF Acked, PromotedQueue, PromotedValue
  <2>5. ASSUME NEW r2, Same(toOwner, r2, RetKey, NoVal)
        PROVE  \E base : /\ Spots(Rest, wake', Acked, r2, received, base)
                         /\ Oldest \notin base /\ base \cup {Oldest} = Kept(fate', lost)
    <3>1. CASE buffer = <<>>
      <4>1. Oldest = s /\ Rest = buffer BY <3>1 DEF Oldest, Rest, Sender
      <4> HIDE DEF acc
      <4>2. Spots(buffer, wake', Acked, r2, received, acc) BY <1>1, <2>4, <2>5, SpotsSame
      <4> HIDE DEF s
      <4> WITNESS acc
      <4> QED BY <2>3, <2>4, <4>1, <4>2
    <3>2. CASE buffer # <<>>
      <4>1. Oldest = h /\ Rest = Append(Tail(buffer), s) BY <1>3, <3>2 DEF Oldest, Rest
      <4> HIDE DEF acc, s
      <4>2. /\ h \in Values /\ h \in acc /\ Tail(buffer) \in Seq(Values)
            /\ Spots(Tail(buffer), wake, outbound, toOwner, received, acc \ {h})
        BY <1>0, <1>1, <3>2, TakeHead
      <4> HIDE DEF h
      <4>3. Spots(Tail(buffer), wake', Acked, r2, received, acc \ {h})
        BY <2>4, <2>5, <4>2, SpotsSame
      <4>4. Spots(Append(Tail(buffer), s), wake', Acked, r2, received, (acc \ {h}) \cup {s})
        BY <2>4, <4>2, <4>3, PutBuffer
      <4>5. ((acc \ {h}) \cup {s}) \cup {h} = acc \cup {s} BY <4>2
      <4>6. h \notin (acc \ {h}) \cup {s} BY <2>4, <4>2
      <4> WITNESS (acc \ {h}) \cup {s}
      <4> QED BY <2>3, <4>1, <4>4, <4>5, <4>6
    <3> QED BY <3>1, <3>2
  <2> QED BY <2>3, <2>5
<1>4. CASE ~AnyLive(send_waiters)
  <2>1. buffer # <<>> /\ fate' = fate /\ UNCHANGED wakeVars /\ send_waiters' = <<>> /\ Acked = outbound
    BY <1>4 DEF Serves, Available, AfterPop, Acked
  <2>2. Oldest = h /\ Rest = Tail(buffer) BY <1>4, <2>1 DEF Oldest, Rest
  <2>3. Part(send_waiters', send_waiters) BY <1>0, <2>1, PartFacts
  <2>4. Once(send_waiters', FarKey, NoVal) BY <2>1, HasNone
  <2>5. Settles BY <2>1, <2>3, <2>4 DEF Settles
  <2>6. \A u \in lost : fate'[u] = "accepted" BY <2>1 DEF UpOK, SpotsOK
  <2>7. ASSUME NEW r2, Same(toOwner, r2, RetKey, NoVal)
        PROVE  \E base : /\ Spots(Rest, wake', Acked, r2, received, base)
                         /\ Oldest \notin base /\ base \cup {Oldest} = Kept(fate', lost)
    <3>0. Kept(fate', lost) = acc BY <2>1
    <3> HIDE DEF acc
    <3>1. /\ h \in Values /\ h \in acc /\ Tail(buffer) \in Seq(Values)
          /\ Spots(Tail(buffer), wake, outbound, toOwner, received, acc \ {h})
      BY <1>0, <1>1, <2>1, TakeHead
    <3> HIDE DEF h
    <3>2. Same(outbound, outbound, ValKey, NoVal) /\ Quiet(wake, wake) BY SameKeys DEF Quiet
    <3>3. Spots(Tail(buffer), wake, outbound, r2, received, acc \ {h})
      BY <2>7, <3>1, <3>2, SpotsSame
    <3>4. h \notin acc \ {h} /\ (acc \ {h}) \cup {h} = acc BY <3>1
    <3> WITNESS acc \ {h}
    <3> QED BY <2>1, <2>2, <3>0, <3>3, <3>4 DEF wakeVars
  <2> QED BY <2>5, <2>6, <2>7
<1> QED BY <1>3, <1>4

(* The oldest value crosses, or fails the receive and stays first.          *)
LEMMA AgentServes ==
  ASSUME RInv, OwnerUp, TakesFrame, Head(toOwner).type = "Recv", AgentFrame, Serves,
         NEW g \in OutFrames, g.corr = Head(toOwner).corr,
         outbound' = IF RemoteUp THEN Append(Acked, g) ELSE outbound,
         \/ g.type = "Value" /\ g.val = Oldest /\ buffer' = Rest
         \/ g.type # "Value" /\ buffer' = <<Oldest>> \o Rest,
         UNCHANGED <<closed, recv_waiters, lost>>
  PROVE  RInv'
<1>0. RTypes /\ ChanT /\ TaskT /\ ValT BY DEF RInv, RTypes
<1>1. /\ toOwner \in Seq(ToFrames) /\ toOwner # <<>> /\ toOwner' = Tail(toOwner)
      /\ recv_waiters \in Seq(RecvEntries)
  BY <1>0 DEF ChanT, TakesFrame
<1>2. UNCHANGED <<coroVars, lost>> BY DEF AgentFrame
<1>3. ServedQueues BY <1>0, <1>2, ServedTypes
<1>4. Acked \in Seq(OutFrames) /\ Oldest \in Values /\ Rest \in Seq(Values)
        /\ send_waiters' \in Seq(SendEntries)
  BY <1>3 DEF ServedQueues
<1>5. buffer' \in Seq(Values) /\ Append(Acked, g) \in Seq(OutFrames)
  <2>1. <<Oldest>> \o Rest \in Seq(Values) BY <1>4
  <2>2. Append(Acked, g) \in Seq(OutFrames) BY <1>4
  <2> QED BY <1>4, <2>1, <2>2
<1>6. AgentTypes /\ AgentWakes BY <1>0, <1>3, <1>5 DEF AgentTypes, ServedQueues, ChanT, ValT
<1>7. CorrKept
  <2>1. Flow(toOwner, recv_waiters, send_waiters, outbound, toOwner, recv_waiters, send_waiters', Acked)
    BY <1>3 DEF ServedQueues
  <2>2. Flow(toOwner, recv_waiters, send_waiters', Acked,
             Tail(toOwner), recv_waiters, send_waiters', Append(Acked, g))
    BY <1>1, <1>4, FlowTaken
  <2>3. Flow(toOwner, recv_waiters, send_waiters, outbound,
             toOwner', recv_waiters', send_waiters', Append(Acked, g))
    BY <1>1, <2>1, <2>2, FlowTrans
  <2> QED BY <2>3 DEF CorrKept
<1>8. ASSUME dead = "none" PROVE SpotsOK' /\ Settles
  <2>1. UpOK /\ outbound' = Append(Acked, g) BY <1>8 DEF RInv, RemoteUp
  <2>2. RetKey[Head(toOwner)] = NoVal
    <3>1. Head(toOwner) \in ToFrames BY <1>1
    <3> QED BY <3>1, FrameKeys
  <2>3. Same(toOwner, Tail(toOwner), RetKey, NoVal) BY <1>1, <2>2, SameTail
  <2>4. Part(toOwner', toOwner) BY <1>1, PartFacts
  <2>5. /\ Settles /\ \A u \in lost : fate'[u] = "accepted"
        /\ \A r2 : Same(toOwner, r2, RetKey, NoVal) =>
             \E base : /\ Spots(Rest, wake', Acked, r2, received, base)
                       /\ Oldest \notin base /\ base \cup {Oldest} = Kept(fate', lost)
    BY <1>0, <1>2, <2>1, <2>4, ServedValues
  <2>6. PICK base : /\ Spots(Rest, wake', Acked, Tail(toOwner), received, base)
                    /\ Oldest \notin base /\ base \cup {Oldest} = Kept(fate', lost)
    BY <2>3, <2>5
  <2>7. Spots(buffer', wake', Append(Acked, g), Tail(toOwner), received, base \cup {Oldest})
    <3>1. CASE g.type = "Value" /\ g.val = Oldest /\ buffer' = Rest
      <4>1. Spots(Rest, wake', Append(Acked, g), Tail(toOwner), received, base \cup {g.val})
        BY <1>4, <2>6, <3>1, PutOut
      <4> QED BY <3>1, <4>1
    <3>2. CASE g.type # "Value" /\ buffer' = <<Oldest>> \o Rest
      <4>1. Spots(<<Oldest>> \o Rest, wake', Acked, Tail(toOwner), received, base \cup {Oldest})
        BY <1>4, <2>6, PutBuffer
      <4>2. ValKey[g] = NoVal BY <3>2, FrameKeys
      <4>3. Same(Acked, Append(Acked, g), ValKey, NoVal) BY <1>4, <4>2, SameAppend
      <4>4. Same(Tail(toOwner), Tail(toOwner), RetKey, NoVal) BY SameKeys
      <4>5. Quiet(wake', wake') BY DEF Quiet
      <4>6. Spots(<<Oldest>> \o Rest, wake', Append(Acked, g), Tail(toOwner), received, base \cup {Oldest})
        BY <4>1, <4>3, <4>4, <4>5, SpotsSame
      <4> QED BY <3>2, <4>6
    <3> QED BY <3>1, <3>2
  <2>8. SpotsOK' BY <1>1, <2>1, <2>5, <2>6, <2>7 DEF SpotsOK, AgentFrame
  <2> QED BY <2>5, <2>8
<1>9. Head(toOwner).type # "Cancel" OBVIOUS
<1> QED BY <1>6, <1>7, <1>8, <1>9, AgentSettleKeeps

(* A Recv queues.                                                           *)
LEMMA AgentQueuesRecv ==
  ASSUME RInv, OwnerUp, TakesFrame, Head(toOwner).type = "Recv", AgentFrame,
         NEW f, f = Head(toOwner), ~AnyLive(send_waiters), send_waiters' = <<>>,
         recv_waiters' = Append(recv_waiters, RemoteEntry(f.corr, NoVal)),
         UNCHANGED <<closed, buffer, outbound, wakeVars, fate, lost>>
  PROVE  RInv'
<1>0. RTypes /\ ChanT BY DEF RInv, RTypes
<1>1. /\ toOwner \in Seq(ToFrames) /\ toOwner # <<>> /\ toOwner' = Tail(toOwner)
      /\ recv_waiters \in Seq(RecvEntries) /\ outbound \in Seq(OutFrames)
      /\ send_waiters \in Seq(SendEntries) /\ <<>> \in Seq(SendEntries)
  BY <1>0 DEF ChanT, TakesFrame
<1> DEFINE e == RemoteEntry(f.corr, NoVal)
<1>2. f.corr \in Corrs
  <2>1. f \in ToFrames BY <1>1
  <2> QED BY <2>1, FrameKeys
<1>3. e \in RecvEntries /\ e.remote /\ e.id = f.corr BY <1>2, MadeEntries
<1>4. recv_waiters' = Append(recv_waiters, e) OBVIOUS
<1>p. PICK f0 \in OutFrames : TRUE BY <1>2, MadeAns
<1> HIDE DEF e
<1>5. Flow(toOwner, recv_waiters, send_waiters, outbound, toOwner, recv_waiters, <<>>, outbound)
  BY <1>1, <1>p, FlowSend
<1>6. Flow(toOwner, recv_waiters, <<>>, outbound, Tail(toOwner), Append(recv_waiters, e), <<>>, outbound)
  BY <1>1, <1>3, FlowTaken
<1>7. Flow(toOwner, recv_waiters, send_waiters, outbound, toOwner', recv_waiters', send_waiters', outbound)
  BY <1>1, <1>4, <1>5, <1>6, FlowTrans
<1>8. Same(outbound, outbound, ValKey, NoVal) BY SameKeys
<1>9. recv_waiters' \in Seq(RecvEntries) BY <1>1, <1>3, <1>4
<1>10. outbound' = IF RemoteUp THEN outbound ELSE outbound OBVIOUS
<1> QED BY <1>1, <1>7, <1>8, <1>9, <1>10, AgentAnswers

(* Applying a remote receive keeps the invariant.                           *)
LEMMA ApplyRecvKeeps ==
  ASSUME RInv, OwnerUp, TakesFrame, Head(toOwner).type = "Recv", AgentFrame,
         ApplyRecv(Head(toOwner)), UNCHANGED lost
  PROVE  RInv'
<1> DEFINE f == Head(toOwner)
           promoted == AnyLive(send_waiters)
           s == PopLive(send_waiters)
           rest == IF buffer = <<>> THEN <<>>
                   ELSE IF promoted THEN Append(Tail(buffer), s.val) ELSE Tail(buffer)
           ack == IF promoted /\ s.remote THEN <<Frame("Ack", s.id, NoVal)>> ELSE <<>>
<1>0. RTypes /\ ChanT /\ TaskT /\ ValT BY DEF RInv, RTypes
<1>1. CASE /\ Answer(<<Frame("ClosedFor", f.corr, NoVal)>>)
           /\ UNCHANGED <<chanVars, wakeVars, fate>>
  <2>1. UNCHANGED <<closed, buffer, recv_waiters, wakeVars, fate, lost>> /\ send_waiters' = send_waiters
    BY <1>1 DEF chanVars
  <2> QED BY <1>1, <2>1, AgentRefuses
<1>2. CASE /\ Available
           /\ send_waiters' = AfterPop(send_waiters)
           /\ fate' = IF promoted THEN [fate EXCEPT ![s.val] = "accepted"] ELSE fate
           /\ IF promoted /\ ~s.remote THEN wake_channel_task(s.task, Wake("SendOk", NoVal))
              ELSE UNCHANGED wakeVars
           /\ \/ /\ Oldest \in Portable
                 /\ buffer' = rest
                 /\ Answer(ack \o <<Frame("Value", f.corr, Oldest)>>)
              \/ /\ Oldest \notin Portable
                 /\ buffer' = <<Oldest>> \o rest
                 /\ Answer(ack \o <<Frame("RecvError", f.corr, NoVal)>>)
           /\ UNCHANGED <<closed, recv_waiters>>
  <2>1. Serves /\ rest = Rest BY <1>2 DEF Serves, Sender, Rest
  <2>2. ServedQueues BY <1>0, <2>1, ServedTypes DEF AgentFrame
  <2>3. Acked \in Seq(OutFrames) /\ Oldest \in Values /\ outbound \in Seq(OutFrames)
    BY <1>0, <2>2 DEF ServedQueues, ChanT
  <2>4. f.corr \in Corrs
    <3>1. toOwner \in Seq(ToFrames) /\ toOwner # <<>> BY <1>0 DEF ChanT, TakesFrame
    <3>2. f \in ToFrames BY <3>1
    <3> QED BY <3>2, FrameKeys
  <2>5. ASSUME NEW g \in OutFrames PROVE outbound \o (ack \o <<g>>) = Append(Acked, g)
    <3>1. CASE promoted /\ s.remote
      <4> DEFINE a == Frame("Ack", s.id, NoVal)
      <4>1. Acked = Append(outbound, a) /\ ack = <<a>> BY <3>1 DEF Acked, OutAck, Sender
      <4>2. a \in OutFrames
        <5>1. s \in SendEntries BY <1>0, <3>1, PopSend DEF ChanT
        <5>2. s.id \in Corrs BY <3>1, <5>1 DEF SendEntries, Entries, Corrs
        <5> QED BY <5>2, MadeAns
      <4> HIDE DEF a, ack
      <4>3. outbound \o (<<a>> \o <<g>>) = Append(Append(outbound, a), g) BY <2>3, <4>2, JoinFrames
      <4> QED BY <4>1, <4>3
    <3>2. CASE ~(promoted /\ s.remote)
      <4>1. Acked = outbound /\ ack = <<>> BY <3>2 DEF Acked, OutAck, Sender
      <4> HIDE DEF ack
      <4>2. outbound \o (<<>> \o <<g>>) = Append(outbound, g) BY <2>3, JoinFrames
      <4> QED BY <4>1, <4>2
    <3> QED BY <3>1, <3>2
  <2> HIDE DEF rest, ack
  <2>6. CASE buffer' = rest /\ Answer(ack \o <<Frame("Value", f.corr, Oldest)>>)
    <3> DEFINE g == Frame("Value", f.corr, Oldest)
    <3>1. g \in OutFrames /\ g.corr = f.corr /\ g.type = "Value" /\ g.val = Oldest
      BY <2>3, <2>4, MadeOut
    <3>2. outbound' = IF RemoteUp THEN outbound \o (ack \o <<g>>) ELSE outbound BY <2>6 DEF Answer
    <3> HIDE DEF g
    <3>3. outbound' = IF RemoteUp THEN Append(Acked, g) ELSE outbound BY <2>5, <3>1, <3>2
    <3> QED BY <1>2, <2>1, <2>6, <3>1, <3>3, AgentServes
  <2>7. CASE buffer' = <<Oldest>> \o rest /\ Answer(ack \o <<Frame("RecvError", f.corr, NoVal)>>)
    <3> DEFINE g == Frame("RecvError", f.corr, NoVal)
    <3>1. g \in OutFrames /\ g.corr = f.corr /\ g.type # "Value" BY <2>4, MadeAns
    <3>2. outbound' = IF RemoteUp THEN outbound \o (ack \o <<g>>) ELSE outbound BY <2>7 DEF Answer
    <3> HIDE DEF g
    <3>3. outbound' = IF RemoteUp THEN Append(Acked, g) ELSE outbound BY <2>5, <3>1, <3>2
    <3> QED BY <1>2, <2>1, <2>7, <3>1, <3>3, AgentServes
  <2> QED BY <1>2, <2>6, <2>7
<1>3. CASE /\ ~Available /\ send_waiters' = <<>>
           /\ Answer(<<Frame("ClosedFor", f.corr, NoVal)>>)
           /\ UNCHANGED <<closed, buffer, recv_waiters, wakeVars, fate>>
  <2>1. ~AnyLive(send_waiters) BY <1>3 DEF Available
  <2> QED BY <1>3, <2>1, AgentRefuses
<1>4. CASE /\ ~Available /\ send_waiters' = <<>>
           /\ recv_waiters' = Append(recv_waiters, RemoteEntry(f.corr, NoVal))
           /\ UNCHANGED <<closed, buffer, outbound, wakeVars, fate>>
  <2>1. ~AnyLive(send_waiters) BY <1>4 DEF Available
  <2> QED BY <1>4, <2>1, AgentQueuesRecv
<1> QED BY <1>1, <1>2, <1>3, <1>4 DEF ApplyRecv

(* A Close, a Release, or a Close of a channel no longer hosted.            *)
LEMMA AgentIdleKeeps ==
  ASSUME RInv, OwnerUp, TakesFrame, Head(toOwner).type \in {"Close", "Release"}, AgentFrame,
         UNCHANGED <<chanVars, outbound, wakeVars, fate, lost>>
  PROVE  RInv'
<1>0. RTypes /\ ChanT BY DEF RInv, RTypes
<1>1. /\ toOwner \in Seq(ToFrames) /\ toOwner # <<>> /\ toOwner' = Tail(toOwner)
      /\ recv_waiters \in Seq(RecvEntries) /\ outbound \in Seq(OutFrames)
      /\ send_waiters \in Seq(SendEntries)
  BY <1>0 DEF ChanT, TakesFrame
<1>2. UNCHANGED <<closed, buffer, recv_waiters, send_waiters>> BY DEF chanVars
<1>3. Flow(toOwner, recv_waiters, send_waiters, outbound, Tail(toOwner), recv_waiters, send_waiters, outbound)
  BY <1>1, FlowTaken
<1>4. Flow(toOwner, recv_waiters, send_waiters, outbound, toOwner', recv_waiters', send_waiters', outbound)
  BY <1>1, <1>2, <1>3
<1>5. Same(outbound, outbound, ValKey, NoVal) BY SameKeys
<1>6. recv_waiters' \in Seq(RecvEntries) /\ outbound' = (IF RemoteUp THEN outbound ELSE outbound)
  BY <1>1, <1>2
<1> QED BY <1>1, <1>2, <1>4, <1>5, <1>6, AgentAnswers

(* Applying a remote close keeps the invariant.                             *)
LEMMA ApplyCloseKeeps ==
  ASSUME RInv, OwnerUp, TakesFrame, Head(toOwner).type = "Close", AgentFrame,
         CloseEffect, UNCHANGED <<fate, lost>>
  PROVE  RInv'
<1>0. RTypes /\ ChanT /\ TaskT /\ ValT BY DEF RInv, RTypes
<1>1. /\ toOwner \in Seq(ToFrames) /\ toOwner # <<>> /\ toOwner' = Tail(toOwner)
      /\ recv_waiters \in Seq(RecvEntries) /\ outbound \in Seq(OutFrames)
      /\ send_waiters \in Seq(SendEntries)
  BY <1>0 DEF ChanT, TakesFrame
<1>2. ClosesHere BY <1>0, CloseEffectFacts
<1>3. recv_waiters' = <<>> /\ send_waiters' = <<>> /\ buffer' = buffer /\ closed' = TRUE
  BY <1>2 DEF ClosesHere
<1>4. CorrKept
  <2>1. Flow(toOwner, recv_waiters, send_waiters, outbound, Tail(toOwner), recv_waiters, send_waiters, outbound)
    BY <1>1, FlowTaken
  <2>2. Flow(Tail(toOwner), recv_waiters, send_waiters, outbound, Tail(toOwner), <<>>, <<>>, outbound')
    BY <1>2 DEF ClosesHere
  <2>3. Flow(toOwner, recv_waiters, send_waiters, outbound, toOwner', recv_waiters', send_waiters', outbound')
    BY <1>1, <1>3, <2>1, <2>2, FlowTrans
  <2> QED BY <2>3 DEF CorrKept
<1>5. AgentTypes
  <2>1. recv_waiters' \in Seq(RecvEntries) /\ send_waiters' \in Seq(SendEntries) BY <1>3
  <2>2. closed' \in BOOLEAN /\ buffer' \in Seq(Values) BY <1>0, <1>3 DEF ChanT
  <2> QED BY <1>0, <1>2, <2>1, <2>2 DEF AgentTypes, ClosesHere, ValT
<1>6. AgentWakes BY <1>2 DEF AgentWakes, ClosesHere
<1>7. ASSUME dead = "none" PROVE SpotsOK' /\ Settles
  <2>1. ParksOK /\ SpotsOK BY <1>7 DEF RInv, UpOK
  <2>2. Part(send_waiters', send_waiters) BY <1>1, <1>3, PartFacts
  <2>3. Once(send_waiters', FarKey, NoVal) BY <1>3, HasNone
  <2>4. Quiet(wake, wake')
    BY <1>2, <2>1 DEF Quiet, ClosesHere, WokenHere, ParksOK, Parks
  <2>5. Spots(buffer, wake, outbound, toOwner, received, Kept(fate, lost)) BY <2>1 DEF SpotsOK
  <2>6. RetKey[Head(toOwner)] = NoVal
    <3>1. Head(toOwner) \in ToFrames BY <1>1
    <3> QED BY <3>1, FrameKeys
  <2>7. Same(toOwner, Tail(toOwner), RetKey, NoVal) BY <1>1, <2>6, SameTail
  <2>8. Same(outbound, outbound', ValKey, NoVal) BY <1>2 DEF ClosesHere
  <2>9. Spots(buffer, wake', outbound', Tail(toOwner), received, Kept(fate, lost))
    BY <2>4, <2>5, <2>7, <2>8, SpotsSame
  <2>10. SpotsOK' BY <1>1, <1>3, <2>1, <2>9 DEF SpotsOK, AgentFrame
  <2> QED BY <2>2, <2>3, <2>10 DEF Settles
<1>8. Head(toOwner).type # "Cancel" OBVIOUS
<1> QED BY <1>4, <1>5, <1>6, <1>7, <1>8, AgentSettleKeeps

(* A value comes home: to the next receiver, to the buffer, or too late.    *)
LEMMA ApplyReturnKeeps ==
  ASSUME RInv, OwnerUp, TakesFrame, Head(toOwner).type = "Return", AgentFrame,
         ApplyReturn(Head(toOwner))
  PROVE  RInv'
<1>0. RTypes /\ ChanT /\ TaskT /\ ValT BY DEF RInv, RTypes
<1>1. /\ toOwner \in Seq(ToFrames) /\ toOwner # <<>> /\ toOwner' = Tail(toOwner)
      /\ recv_waiters \in Seq(RecvEntries) /\ outbound \in Seq(OutFrames)
      /\ send_waiters \in Seq(SendEntries) /\ wake \in [Tasks -> RWakes]
  BY <1>0 DEF ChanT, TakesFrame, TaskT
<1> DEFINE v == Head(toOwner).val
           acc == Kept(fate, lost)
<1>2. v \in Values
  <2>1. Head(toOwner) \in ToFrames BY <1>1
  <2> QED BY <2>1, FrameKeys
<1>3. /\ \/ channel_redeliver(v, wake) /\ lost' = lost
         \/ lost' = lost \cup {v} /\ UNCHANGED <<buffer, recv_waiters, outbound, wakeVars>>
      /\ UNCHANGED <<closed, send_waiters, fate>>
  BY DEF ApplyReturn
<1>4. Flow(toOwner, recv_waiters, send_waiters, outbound, Tail(toOwner), recv_waiters, send_waiters, outbound)
  BY <1>1, FlowTaken
<1>5. UpOK => /\ v \in acc
              /\ Spots(buffer, wake, outbound, Tail(toOwner), received, acc \ {v})
  <2>1. UpOK => Spots(buffer, wake, outbound, toOwner, received, acc) BY DEF UpOK, SpotsOK
  <2> HIDE DEF acc
  <2> QED BY <1>1, <2>1, TakeReturn
<1>6. Head(toOwner).type # "Cancel" OBVIOUS
<1>s. ASSUME UpOK PROVE Settles
  <2>1. Part(send_waiters', send_waiters) BY <1>1, <1>3, PartFacts
  <2>2. Once(send_waiters', FarKey, NoVal) BY <1>3, <1>s DEF UpOK, WayOK
  <2> QED BY <1>3, <2>1, <2>2 DEF Settles
<1>u. UpOK => \A u \in lost : fate[u] = "accepted" BY DEF UpOK, SpotsOK
<1>7. CASE channel_redeliver(v, wake) /\ lost' = lost
  <2> HIDE DEF v, acc
  <2>1. Delivers(v, wake) BY <1>0, <1>1, <1>2, <1>7, RedeliverFacts
  <2>2. AgentTypes BY <1>0, <1>3, <1>7, <2>1 DEF AgentTypes, Delivers, ChanT, ValT
  <2>3. AgentWakes BY <2>1 DEF AgentWakes, Delivers
  <2>4. CorrKept
    <3>1. Flow(Tail(toOwner), recv_waiters, send_waiters, outbound,
               Tail(toOwner), recv_waiters', send_waiters, outbound')
      BY <2>1 DEF Delivers
    <3>2. Flow(toOwner, recv_waiters, send_waiters, outbound,
               Tail(toOwner), recv_waiters', send_waiters, outbound')
      BY <1>4, <3>1, FlowTrans
    <3> QED BY <1>1, <1>3, <3>2 DEF CorrKept
  <2>5. ASSUME dead = "none" PROVE SpotsOK' /\ Settles
    <3>1. UpOK BY <2>5 DEF RInv
    <3>2. \A t \in Tasks : parked_on_channel[t] => wake[t].kind # "Recv"
      BY <3>1 DEF UpOK, ParksOK, Parks
    <3>3. v \notin acc \ {v} /\ (acc \ {v}) \cup {v} = acc BY <1>5, <3>1
    <3>4. Spots(buffer', wake', outbound', Tail(toOwner), received, (acc \ {v}) \cup {v})
      BY <1>5, <2>1, <3>1, <3>2, <3>3 DEF Delivers
    <3>5. SpotsOK'
      BY <1>1, <1>3, <1>7, <1>u, <3>1, <3>3, <3>4 DEF SpotsOK, AgentFrame, acc
    <3> QED BY <1>s, <3>1, <3>5
  <2> QED BY <1>6, <2>2, <2>3, <2>4, <2>5, AgentSettleKeeps
<1>8. CASE lost' = lost \cup {v} /\ UNCHANGED <<buffer, recv_waiters, outbound, wakeVars>>
  <2>1. AgentTypes BY <1>0, <1>2, <1>3, <1>8 DEF AgentTypes, ChanT, ValT, TaskT, wakeVars
  <2>2. AgentWakes BY <1>8 DEF AgentWakes, wakeVars
  <2>3. CorrKept BY <1>1, <1>3, <1>4, <1>8 DEF CorrKept
  <2>4. ASSUME dead = "none" PROVE SpotsOK' /\ Settles
    <3>1. UpOK BY <2>4 DEF RInv
    <3>2. Kept(fate, lost \cup {v}) = acc \ {v} BY DEF Kept
    <3>3. fate[v] = "accepted" BY <1>5, <3>1 DEF Kept
    <3>4. \A u \in lost' : fate[u] = "accepted" BY <1>8, <1>u, <3>1, <3>3
    <3>5. Spots(buffer, wake, outbound, Tail(toOwner), received, Kept(fate, lost \cup {v}))
      BY <1>5, <3>1, <3>2
    <3> HIDE DEF v, acc
    <3>6. SpotsOK' BY <1>1, <1>3, <1>8, <3>4, <3>5 DEF SpotsOK, wakeVars, AgentFrame
    <3> QED BY <1>s, <3>1, <3>6
  <2> QED BY <1>6, <2>1, <2>2, <2>3, <2>4, AgentSettleKeeps
<1> QED BY <1>3, <1>7, <1>8

(* A retraction: the entry of its correlation goes, and no other.           *)
LEMMA CancelQueues ==
  ASSUME ChanT, NEW c \in Corrs,
         \/ recv_waiters' = Without(recv_waiters, c) /\ send_waiters' = Without(send_waiters, c)
         \/ recv_waiters' = recv_waiters /\ send_waiters' = send_waiters
  PROVE  /\ recv_waiters' \in Seq(RecvEntries) /\ send_waiters' \in Seq(SendEntries)
         /\ Part(send_waiters', send_waiters)
         /\ \A k \in Corrs : /\ Has(recv_waiters', WaitKey, k) => Has(recv_waiters, WaitKey, k)
                             /\ Has(send_waiters', WaitKey, k) => Has(send_waiters, WaitKey, k)
                             /\ k # c /\ Has(recv_waiters, WaitKey, k) => Has(recv_waiters', WaitKey, k)
                             /\ k # c /\ Has(send_waiters, WaitKey, k) => Has(send_waiters', WaitKey, k)
         /\ Once(recv_waiters, WaitKey, 0) => Once(recv_waiters', WaitKey, 0)
         /\ Once(send_waiters, WaitKey, 0) => Once(send_waiters', WaitKey, 0)
         /\ Once(send_waiters, FarKey, NoVal) => Once(send_waiters', FarKey, NoVal)
<1>1. recv_waiters \in Seq(RecvEntries) /\ send_waiters \in Seq(SendEntries) BY DEF ChanT
<1>2. RecvEntries \in SUBSET Entries /\ SendEntries \in SUBSET Entries BY EntryKeys
<1>3. CASE recv_waiters' = recv_waiters /\ send_waiters' = send_waiters
  BY <1>1, <1>3, PartFacts
<1>4. CASE recv_waiters' = Without(recv_waiters, c) /\ send_waiters' = Without(send_waiters, c)
  <2> DEFINE r == Without(recv_waiters, c)
             s == Without(send_waiters, c)
  <2>1. /\ r \in Seq(RecvEntries)
        /\ \A k \in Corrs : Has(r, WaitKey, k) <=> Has(recv_waiters, WaitKey, k) /\ k # c
        /\ Once(recv_waiters, WaitKey, 0) => Once(r, WaitKey, 0)
    BY <1>1, <1>2, WithoutFacts
  <2>2. /\ s \in Seq(SendEntries)
        /\ \A i \in 1..Len(s) : \E x \in 1..Len(send_waiters) : s[i] = send_waiters[x]
        /\ \A k \in Corrs : Has(s, WaitKey, k) <=> Has(send_waiters, WaitKey, k) /\ k # c
        /\ Once(send_waiters, WaitKey, 0) => Once(s, WaitKey, 0)
        /\ Once(send_waiters, FarKey, NoVal) => Once(s, FarKey, NoVal)
    BY <1>1, <1>2, WithoutFacts
  <2> HIDE DEF r, s
  <2>3. recv_waiters' = r /\ send_waiters' = s BY <1>4 DEF r, s
  <2> QED BY <2>1, <2>2, <2>3 DEF Part
<1> QED BY <1>3, <1>4

(* Applying a retraction keeps the invariant.                               *)
LEMMA ApplyCancelKeeps ==
  ASSUME RInv, OwnerUp, TakesFrame, Head(toOwner).type = "Cancel", AgentFrame,
         ApplyCancel(Head(toOwner)), UNCHANGED lost
  PROVE  RInv'
<1>0. RTypes /\ ChanT /\ TaskT /\ ValT BY DEF RInv, RTypes
<1> DEFINE c == Head(toOwner).corr
           gone == {e.val : e \in {x \in ToSet(send_waiters) : x.remote /\ x.id = c}}
<1>1. /\ toOwner \in Seq(ToFrames) /\ toOwner # <<>> /\ toOwner' = Tail(toOwner)
      /\ recv_waiters \in Seq(RecvEntries) /\ outbound \in Seq(OutFrames)
      /\ send_waiters \in Seq(SendEntries) /\ refs \in Nat
  BY <1>0 DEF ChanT, TakesFrame
<1>2. c \in Corrs /\ ReqKey[Head(toOwner)] = 0 /\ AskKey[Head(toOwner)] = 0
        /\ RetractKey[Head(toOwner)] = c /\ RetKey[Head(toOwner)] = NoVal
        /\ SendKey[Head(toOwner)] = NoVal
  <2>1. Head(toOwner) \in ToFrames BY <1>1
  <2> QED BY <2>1, FrameKeys
<1>3. /\ IF refs > 0
         THEN /\ recv_waiters' = Without(recv_waiters, c) /\ send_waiters' = Without(send_waiters, c)
              /\ fate' = [v \in Values |-> IF v \in gone THEN "cancelled" ELSE fate[v]]
         ELSE UNCHANGED <<recv_waiters, send_waiters, fate>>
      /\ UNCHANGED <<closed, buffer, outbound, wake, parked_on_channel>>
  BY DEF ApplyCancel, Hosted, wakeVars
<1> HIDE DEF c
<1>4. /\ recv_waiters' \in Seq(RecvEntries) /\ send_waiters' \in Seq(SendEntries)
      /\ Part(send_waiters', send_waiters)
      /\ \A k \in Corrs : /\ Has(recv_waiters', WaitKey, k) => Has(recv_waiters, WaitKey, k)
                          /\ Has(send_waiters', WaitKey, k) => Has(send_waiters, WaitKey, k)
                          /\ k # c /\ Has(recv_waiters, WaitKey, k) => Has(recv_waiters', WaitKey, k)
                          /\ k # c /\ Has(send_waiters, WaitKey, k) => Has(send_waiters', WaitKey, k)
      /\ Once(recv_waiters, WaitKey, 0) => Once(recv_waiters', WaitKey, 0)
      /\ Once(send_waiters, WaitKey, 0) => Once(send_waiters', WaitKey, 0)
      /\ Once(send_waiters, FarKey, NoVal) => Once(send_waiters', FarKey, NoVal)
  <2>1. \/ recv_waiters' = Without(recv_waiters, c) /\ send_waiters' = Without(send_waiters, c)
        \/ recv_waiters' = recv_waiters /\ send_waiters' = send_waiters
    BY <1>3
  <2> QED BY <1>0, <1>2, <2>1, CancelQueues
<1>5. AgentWakes BY <1>3 DEF AgentWakes
<1>6. AgentTypes
  <2>1. fate' \in [Values -> {"new", "parked", "accepted", "refused", "cancelled"}]
    <3> HIDE DEF gone
    <3> QED BY <1>0, <1>3 DEF ValT
  <2> QED BY <1>0, <1>3, <1>4, <2>1 DEF AgentTypes, ChanT, TaskT, ValT
<1>7. /\ ChanT' /\ TaskT' /\ ValT' /\ RemoteStill /\ NoNewSender /\ \A t \in Tasks : TaskStep(t)
  BY <1>0, <1>5, <1>6, AgentSteps
<1>8. /\ \A k : Has(toOwner, ReqKey, k) <=> ReqKey[Head(toOwner)] = k \/ Has(Tail(toOwner), ReqKey, k)
      /\ Once(toOwner, ReqKey, 0) => Once(Tail(toOwner), ReqKey, 0)
  BY <1>1, HasTail
<1>9. \A k : Has(toOwner, AskKey, k) <=> AskKey[Head(toOwner)] = k \/ Has(Tail(toOwner), AskKey, k)
  BY <1>1, HasTail
<1>10. \A k : Has(toOwner, RetractKey, k)
               <=> RetractKey[Head(toOwner)] = k \/ Has(Tail(toOwner), RetractKey, k)
  BY <1>1, HasTail
<1>11. \A k \in Corrs : Wanting(k)' => Wanting(k)
  BY <1>1, <1>4, <1>9 DEF Wanting, Wants
<1>12. refs > 0 => ~Has(recv_waiters', WaitKey, c)
  <2>0. RecvEntries \in SUBSET Entries BY EntryKeys
  <2>1. \A k \in Corrs : Has(Without(recv_waiters, c), WaitKey, k) <=> Has(recv_waiters, WaitKey, k) /\ k # c
    BY <1>1, <1>2, <2>0, WithoutFacts
  <2> QED BY <1>2, <1>3, <2>1
<1>13. ASSUME dead = "none"
       PROVE  OneStage' /\ \A k \in Corrs : /\ Staged(k)' => Staged(k)
                                            /\ Staged(k) /\ ~Has(toOwner, RetractKey, k) => Staged(k)'
  <2>1. Alone(toOwner, recv_waiters, send_waiters, outbound) BY <1>13 DEF RInv, OneStage
  <2>2. \A k \in Corrs : Has(Tail(toOwner), ReqKey, k) <=> Has(toOwner, ReqKey, k)
    BY <1>2, <1>8 DEF Corrs
  <2>3. OneStage'
    BY <1>1, <1>3, <1>4, <1>8, <2>1, <2>2 DEF OneStage, Alone
  <2>4. ASSUME NEW k \in Corrs
        PROVE  /\ Staged(k)' => Staged(k)
               /\ Staged(k) /\ ~Has(toOwner, RetractKey, k) => Staged(k)'
    <3>1. ~Has(toOwner, RetractKey, k) => k # c BY <1>2, <1>10
    <3> QED BY <1>1, <1>3, <1>4, <2>2, <3>1 DEF Staged, InStage
  <2> QED BY <2>3, <2>4
<1>14. ASSUME dead = "none" PROVE FitsOK' /\ SpotsOK' /\ WayOK' /\ SenderOK'
  <2>1. UpOK BY <1>14 DEF RInv
  <2>2. FitsOK /\ WayOK /\ SenderOK /\ ParksOK /\ SpotsOK BY <2>1 DEF UpOK
  <2>3. FitsOK' BY <1>0, <1>1, <1>4, <1>7, <2>2, FitsKept2
  <2>4. ASSUME NEW v \in Values, fate'[v] # fate[v]
        PROVE  /\ fate'[v] = "cancelled" /\ fate[v] = "parked"
               /\ ~Has(Tail(toOwner), SendKey, v) /\ ~Has(send_waiters', FarKey, v)
               /\ \A t \in LocalTasks : op[t] = "send" => opval[t] # v
    <3>1. refs > 0 /\ v \in gone /\ fate'[v] = "cancelled" /\ send_waiters' = Without(send_waiters, c)
      <4>1. refs > 0 BY <1>3, <2>4
      <4>2. fate' = [u \in Values |-> IF u \in gone THEN "cancelled" ELSE fate[u]]
              /\ send_waiters' = Without(send_waiters, c)
        BY <1>3, <4>1
      <4> HIDE DEF gone
      <4>3. fate'[v] = IF v \in gone THEN "cancelled" ELSE fate[v] BY <4>2
      <4> QED BY <2>4, <4>1, <4>2, <4>3
    <3>2. PICK i \in 1..Len(send_waiters) :
             send_waiters[i].remote /\ send_waiters[i].id = c /\ send_waiters[i].val = v
      BY <3>1 DEF ToSet
    <3>3. send_waiters[i] \in SendEntries BY <1>1
    <3>4. FarKey[send_waiters[i]] = v BY <3>2, <3>3, EntryKeys
    <3>5. Held(v) BY <3>4 DEF Held, Has
    <3>6. v # NoVal BY ChannelAssumption
    <3>7. \A j \in 1..Len(send_waiters) :
             send_waiters[j].remote /\ send_waiters[j].id = c /\ send_waiters[j].val # NoVal =>
               ~Has(Without(send_waiters, c), FarKey, send_waiters[j].val)
      <4>1. Once(send_waiters, FarKey, NoVal) BY <2>2 DEF WayOK
      <4> QED BY <1>1, <1>2, <4>1, EntryKeys, WithoutFacts
    <3>8. ~Has(send_waiters', FarKey, v) BY <3>1, <3>2, <3>6, <3>7
    <3>9. fate[v] = "parked" /\ ~Offered(v) BY <2>2, <3>5 DEF WayOK
    <3>10. \A k : Has(toOwner, SendKey, k) <=> SendKey[Head(toOwner)] = k \/ Has(Tail(toOwner), SendKey, k)
      BY <1>1, HasTail
    <3>11. \A t \in LocalTasks : op[t] = "send" => opval[t] # v BY <2>2, <3>5 DEF SenderOK
    <3> QED BY <3>1, <3>8, <3>9, <3>10, <3>11 DEF Offered
  <2>5. SpotsOK'
    <3>1. Kept(fate', lost) = Kept(fate, lost)
      <4>1. \A v \in Values : fate'[v] = "accepted" <=> fate[v] = "accepted" BY <2>4
      <4> QED BY <4>1 DEF Kept
    <3>2. \A u \in lost : fate'[u] = "accepted"
      <4>1. \A v \in Values : fate'[v] = "accepted" <=> fate[v] = "accepted" BY <2>4
      <4> QED BY <1>0, <2>2, <4>1 DEF SpotsOK, ValT
    <3>3. Same(toOwner, Tail(toOwner), RetKey, NoVal) BY <1>1, <1>2, SameTail
    <3>4. Same(outbound, outbound, ValKey, NoVal) /\ Quiet(wake, wake) BY SameKeys DEF Quiet
    <3>5. Spots(buffer, wake, outbound, Tail(toOwner), received, Kept(fate, lost))
      BY <2>2, <3>3, <3>4, SpotsSame DEF SpotsOK
    <3> QED BY <1>1, <1>3, <3>1, <3>2, <3>5 DEF SpotsOK, AgentFrame
  <2>6. Part(toOwner', toOwner) BY <1>1, PartFacts
  <2>7. Once(toOwner', SendKey, NoVal) /\ Once(send_waiters', FarKey, NoVal)
    <3>1. Once(toOwner, SendKey, NoVal) /\ Once(send_waiters, FarKey, NoVal) BY <2>2 DEF WayOK
    <3>2. Once(Tail(toOwner), SendKey, NoVal) BY <1>1, <3>1, HasTail
    <3> QED BY <1>1, <1>4, <3>1, <3>2
  <2>8. UNCHANGED <<op, opval, opcorr>> BY DEF AgentFrame, coroVars
  <2>9. \A v \in Values : \/ fate'[v] = fate[v]
                          \/ /\ fate'[v] # "new" /\ ~Offered(v)' /\ ~Held(v)'
                             /\ \A t \in LocalTasks : op'[t] = "send" /\ opval'[t] = v =>
                                                        ~parked_on_channel'[t]
    BY <1>1, <2>4, <2>8 DEF Offered, Held
  <2>10. WayOK' /\ SenderOK'
    BY <1>0, <1>4, <1>7, <2>2, <2>6, <2>7, <2>8, <2>9, SendsKept DEF NoNewSender
  <2> QED BY <2>3, <2>5, <2>10
<1>15. Head(toOwner).type = "Cancel" /\ refs > 0 => ~Has(recv_waiters', WaitKey, Head(toOwner).corr)
  BY <1>12 DEF c
<1> QED BY <1>7, <1>11, <1>13, <1>14, <1>15, AgentKeeps

(* Every step of the owner's agent keeps the invariant.                     *)
LEMMA OwnerAgentKeeps ==
  ASSUME RInv, OwnerAgent PROVE RInv'
<1> DEFINE f == Head(toOwner)
<1>1. OwnerUp /\ TakesFrame BY DEF OwnerAgent, TakesFrame
<1>2. AgentFrame BY DEF OwnerAgent, AgentFrame
<1>3. \/ f.type = "Send" /\ ApplySend(f) /\ UNCHANGED lost
      \/ f.type = "Recv" /\ ApplyRecv(f) /\ UNCHANGED lost
      \/ f.type = "Close" /\ ApplyClose /\ UNCHANGED lost
      \/ f.type = "Cancel" /\ ApplyCancel(f) /\ UNCHANGED lost
      \/ f.type = "Release" /\ UNCHANGED <<chanVars, outbound, wakeVars, fate, lost>>
      \/ f.type = "Return" /\ ApplyReturn(f)
  BY DEF OwnerAgent
<1>4. CASE f.type = "Send" /\ ApplySend(f) /\ UNCHANGED lost BY <1>1, <1>2, <1>4, ApplySendKeeps
<1>5. CASE f.type = "Recv" /\ ApplyRecv(f) /\ UNCHANGED lost BY <1>1, <1>2, <1>5, ApplyRecvKeeps
<1>6. CASE f.type = "Close" /\ ApplyClose /\ UNCHANGED lost
  <2>1. CASE CloseEffect /\ UNCHANGED fate BY <1>1, <1>2, <1>6, <2>1, ApplyCloseKeeps
  <2>2. CASE UNCHANGED <<chanVars, outbound, wakeVars, fate>>
    BY <1>1, <1>2, <1>6, <2>2, AgentIdleKeeps
  <2> QED BY <1>6, <2>1, <2>2 DEF ApplyClose
<1>7. CASE f.type = "Cancel" /\ ApplyCancel(f) /\ UNCHANGED lost
  BY <1>1, <1>2, <1>7, ApplyCancelKeeps
<1>8. CASE f.type = "Release" /\ UNCHANGED <<chanVars, outbound, wakeVars, fate, lost>>
  BY <1>1, <1>2, <1>8, AgentIdleKeeps
<1>9. CASE f.type = "Return" /\ ApplyReturn(f) BY <1>1, <1>2, <1>9, ApplyReturnKeeps
<1> QED BY <1>3, <1>4, <1>5, <1>6, <1>7, <1>8, <1>9

(* channel_link_died.                                                       *)
LEMMA LinkDiedKeeps ==
  ASSUME RInv, channel_link_died PROVE RInv'
<1>0. RTypes /\ ChanT /\ TaskT /\ ValT /\ LinkT BY DEF RInv, RTypes
<1>1. /\ dead = "remote" /\ toOwner = <<>> /\ ~noticed /\ noticed' = TRUE /\ refs' = 0
      /\ recv_waiters' = IF refs > 0
                         THEN Retain(recv_waiters, {i \in 1..Len(recv_waiters) :
                                                      ~recv_waiters[i].remote})
                         ELSE recv_waiters
      /\ UNCHANGED <<cap, closed, buffer, send_waiters, outbound, wake, parked_on_channel,
                     cancel_requested, park_epoch, op, opval, fate, received, toOwner, next_corr,
                     pending, endpoint, opend, opcorr, dead, lost>>
  BY DEF channel_link_died, Hosted, wakeVars, coroVars
<1>2. PurgeOK /\ recv_waiters \in Seq(RecvEntries) /\ refs \in Nat BY <1>0, <1>1 DEF RInv, ChanT
<1>3. /\ recv_waiters' \in Seq(RecvEntries)
      /\ \A i \in 1..Len(recv_waiters') : ~recv_waiters'[i].remote
  <2>1. CASE refs > 0
    <3> DEFINE S == {i \in 1..Len(recv_waiters) : ~recv_waiters[i].remote}
               r == Retain(recv_waiters, S)
    <3>1. S \in SUBSET (1..Len(recv_waiters)) OBVIOUS
    <3>2. \A x \in S : ~recv_waiters[x].remote OBVIOUS
    <3>3. recv_waiters' = r BY <1>1, <2>1
    <3> HIDE DEF S
    <3>4. /\ r \in Seq(RecvEntries)
          /\ \A i \in 1..Len(r) : \E x \in S : r[i] = recv_waiters[x]
      BY <1>2, <3>1, RetainFacts
    <3> QED BY <3>2, <3>3, <3>4
  <2>2. CASE ~(refs > 0)
    <3>1. recv_waiters' = recv_waiters /\ refs = 0 BY <1>1, <1>2, <2>2
    <3>2. Len(toOwner) = 0 /\ RelCount(toOwner, Len(toOwner)) \in Nat
      <4>1. Len(toOwner) = 0 BY <1>1
      <4> QED BY <4>1, RelFinite
    <3>3. \A c : ~Retracted(toOwner, refs, c) BY <3>2 DEF Retracted
    <3>4. \A c \in Corrs : ~Wanting(c) BY <1>1, <1>2, <3>1, <3>2, <3>3 DEF PurgeOK
    <3>5. \A c \in Corrs : ~Has(recv_waiters, WaitKey, c) BY <3>4 DEF Wanting, Wants
    <3> QED BY <1>2, <3>1, <3>5, RemoteWaits
  <2> QED BY <2>1, <2>2
<1>4. RTypes'
  <2>1. ChanT' BY <1>0, <1>1, <1>3 DEF ChanT
  <2>2. TaskT' BY <1>0, <1>1 DEF TaskT
  <2>3. ValT' BY <1>0, <1>1 DEF ValT
  <2>4. LinkT' BY <1>0, <1>1 DEF LinkT
  <2> QED BY <2>1, <2>2, <2>3, <2>4 DEF RTypes
<1>5. PurgeOK' BY <1>1, <1>3 DEF PurgeOK
<1> QED BY <1>1, <1>4, <1>5 DEF RInv

-----------------------------------------------------------------------------
(* The endpoint side.                                                       *)

(* What a step puts on the lane to the owner: releases, and at most one     *)
(* other frame x.                                                           *)
Bears(g, x) ==
  /\ g \in Seq(ToFrames) /\ x \in ToFrames
  /\ \A i \in 1..Len(g) : g[i].type = "Release" \/ g[i] = x
  /\ \A i, j \in 1..Len(g) : g[i].type # "Release" /\ g[j].type # "Release" => i = j
  /\ x.type # "Release" => \E i \in 1..Len(g) : g[i] = x

ReleaseFrame == Frame("Release", 0, NoVal)

(* The frames made by the endpoints are frames of the lane to the owner.    *)
LEMMA MadeTo ==
  /\ ReleaseFrame \in ToFrames /\ ReleaseFrame.type = "Release"
  /\ Frame("Close", 0, NoVal) \in ToFrames /\ Frame("Close", 0, NoVal).type = "Close"
  /\ \A v \in Values : /\ Frame("Return", 0, v) \in ToFrames
                       /\ Frame("Return", 0, v).type = "Return" /\ Frame("Return", 0, v).val = v
  /\ \A c \in Corrs, v \in Values :
       /\ Frame("Send", c, v) \in ToFrames
       /\ Frame("Send", c, v).type = "Send" /\ Frame("Send", c, v).val = v
       /\ Frame("Send", c, v).corr = c
  /\ \A c \in Corrs :
       /\ Frame("Recv", c, NoVal) \in ToFrames /\ Frame("Cancel", c, NoVal) \in ToFrames
       /\ Frame("Recv", c, NoVal).type = "Recv" /\ Frame("Recv", c, NoVal).corr = c
       /\ Frame("Cancel", c, NoVal).type = "Cancel" /\ Frame("Cancel", c, NoVal).corr = c
  BY DEF ReleaseFrame, Frame, ToFrames, Frames, OFrames, AFrames, Corrs

(* Releases and one frame x have the key of x.                              *)
LEMMA BearsKeys ==
  ASSUME NEW g, NEW x, Bears(g, x), NEW key, NEW no,
         \A f \in ToFrames : f.type = "Release" => key[f] = no
  PROVE  /\ Once(g, key, no)
         /\ \A k : k # no => (Has(g, key, k) <=> key[x] = k)
<1>1. \A i \in 1..Len(g) : g[i] \in ToFrames BY DEF Bears
<1>2. \A i \in 1..Len(g) : g[i].type = "Release" => key[g[i]] = no BY <1>1
<1>3. Once(g, key, no) BY <1>2 DEF Once, Bears
<1>4. ASSUME NEW k, k # no, Has(g, key, k) PROVE key[x] = k
  <2>1. PICK i \in 1..Len(g) : key[g[i]] = k BY <1>4 DEF Has
  <2> QED BY <1>2, <1>4, <2>1 DEF Bears
<1>5. ASSUME NEW k, k # no, key[x] = k PROVE Has(g, key, k)
  <2>1. x.type # "Release" BY <1>5 DEF Bears
  <2> QED BY <1>5, <2>1 DEF Bears, Has
<1> QED BY <1>3, <1>4, <1>5

(* The lane to the owner grows by the key of x.                             *)
LEMMA LaneGrows ==
  ASSUME NEW q \in Seq(ToFrames), NEW g, NEW x, Bears(g, x), NEW key, NEW no,
         \A f \in ToFrames : f.type = "Release" => key[f] = no
  PROVE  /\ q \o g \in Seq(ToFrames)
         /\ \A k : k # no => (Has(q \o g, key, k) <=> Has(q, key, k) \/ key[x] = k)
         /\ Once(q, key, no) /\ (key[x] = no \/ ~Has(q, key, key[x])) => Once(q \o g, key, no)
<1>1. g \in Seq(ToFrames) BY DEF Bears
<1>2. /\ \A k : Has(q \o g, key, k) <=> Has(q, key, k) \/ Has(g, key, k)
      /\ Once(q, key, no) /\ Once(g, key, no)
           /\ (\A k : k # no /\ Has(g, key, k) => ~Has(q, key, k)) => Once(q \o g, key, no)
  BY <1>1, HasConcat
<1>3. /\ Once(g, key, no)
      /\ \A k : k # no => (Has(g, key, k) <=> key[x] = k)
  BY BearsKeys
<1> QED BY <1>1, <1>2, <1>3

(* A release has no key.                                                    *)
LEMMA ReleaseKeys ==
  \A f \in ToFrames : f.type = "Release" =>
    /\ ReqKey[f] = 0 /\ AskKey[f] = 0 /\ RetractKey[f] = 0
    /\ SendKey[f] = NoVal /\ RetKey[f] = NoVal
  BY FrameKeys

(* A retraction stays where it is, behind every request of its correlation. *)
LEMMA RetractGrows ==
  ASSUME NEW q \in Seq(ToFrames), NEW g, NEW x, Bears(g, x), NEW n, NEW c \in Corrs,
         Retracted(q, n, c), AskKey[x] # c
  PROVE  Retracted(q \o g, n, c)
<1>1. PICK j \in 1..Len(q) : /\ q[j].type = "Cancel" /\ q[j].corr = c /\ RelBefore(q, j) < n
                             /\ \A i \in 1..Len(q) : AskKey[q[i]] = c => i < j
  BY DEF Retracted
<1> DEFINE s == q \o g
<1>2. g \in Seq(ToFrames) BY DEF Bears
<1>3. /\ Len(q) \in Nat /\ Len(g) \in Nat /\ Len(s) = Len(q) + Len(g)
      /\ \A i \in 1..Len(q) : s[i] = q[i]
      /\ \A i \in 1..Len(s) : i \notin 1..Len(q) => i - Len(q) \in 1..Len(g) /\ s[i] = g[i - Len(q)]
  BY <1>2
<1>4. \A m \in 0..Len(q) : RelCount(s, m) = RelCount(q, m) BY <1>2, RelJoin
<1> HIDE DEF s
<1>5. \A f \in ToFrames : f.type = "Release" => AskKey[f] = 0 BY ReleaseKeys
<1>6. ~Has(g, AskKey, c)
  <2>1. c # 0 BY DEF Corrs
  <2> QED BY <1>5, <2>1, BearsKeys
<1>7. \A i \in 1..Len(s) : AskKey[s[i]] = c => i < j BY <1>1, <1>3, <1>6 DEF Has
<1>8. j \in 1..Len(s) /\ s[j] = q[j] /\ j - 1 \in 0..Len(q) BY <1>3
<1>9. RelBefore(s, j) = RelBefore(q, j) BY <1>4, <1>8 DEF RelBefore
<1>10. Retracted(s, n, c) BY <1>1, <1>7, <1>8, <1>9 DEF Retracted
<1> QED BY <1>10 DEF s

(* A new retraction, while an endpoint is held.                             *)
LEMMA RetractAdded ==
  ASSUME NEW q \in Seq(ToFrames), NEW c \in Corrs, NEW n \in Nat, RelCount(q, Len(q)) < n
  PROVE  Retracted(q \o <<Frame("Cancel", c, NoVal)>>, n, c)
<1> DEFINE f == Frame("Cancel", c, NoVal)
           g == <<f>>
           s == q \o g
           j == Len(q) + 1
<1>1. f \in ToFrames /\ f.type = "Cancel" /\ f.corr = c BY MadeTo
<1>2. AskKey[f] = 0 BY <1>1, FrameKeys
<1> HIDE DEF f
<1>3. g \in Seq(ToFrames) BY <1>1
<1>4. /\ Len(q) \in Nat /\ Len(s) = j /\ s[j] = f /\ \A i \in 1..Len(s) : i # j => i < j
  BY <1>1
<1>5. \A m \in 0..Len(q) : RelCount(s, m) = RelCount(q, m) BY <1>3, RelJoin
<1>6. RelCount(s, Len(q)) = RelCount(q, Len(q)) BY <1>4, <1>5
<1>7. RelBefore(s, j) = RelCount(s, Len(q)) BY <1>4 DEF RelBefore
<1> HIDE DEF s, g
<1>8. \A i \in 1..Len(s) : AskKey[s[i]] = c => i < j BY <1>2, <1>4 DEF Corrs
<1>9. j \in 1..Len(s) BY <1>4
<1> HIDE DEF j
<1>10. Retracted(s, n, c) BY <1>1, <1>4, <1>6, <1>7, <1>8, <1>9 DEF Retracted
<1> QED BY <1>10 DEF s, g, f

(* flush_chan_reap: as many releases as endpoints reaped.                   *)
LEMMA ReleasesFacts ==
  /\ Releases \in Seq(ToFrames) /\ Len(Releases) = Cardinality(Reaped)
  /\ \A i \in 1..Len(Releases) : Releases[i] = ReleaseFrame
  /\ Cardinality(Reaped) \in Nat /\ RelCount(Releases, Len(Releases)) = Cardinality(Reaped)
<1>1. IsFiniteSet(Reaped) /\ Cardinality(Reaped) \in Nat
  <2>1. Reaped \in SUBSET Endpoints BY DEF Reaped
  <2>2. IsFiniteSet(Reaped) BY <2>1, RelayAssumption, FS_Subset
  <2> QED BY <2>2, FS_CardinalityType
<1> DEFINE n == Cardinality(Reaped)
           r == [i \in 1..n |-> ReleaseFrame]
<1> HIDE DEF n
<1>2. ReleaseFrame \in ToFrames /\ ReleaseFrame.type = "Release" BY MadeTo
<1>3. n \in Nat BY <1>1 DEF n
<1>4. r \in Seq(ToFrames) /\ Len(r) = n /\ \A i \in 1..Len(r) : r[i] = ReleaseFrame BY <1>2, <1>3
<1>5. Releases = r BY DEF Releases, n, ReleaseFrame
<1> HIDE DEF r
<1>6. RelIn(r, Len(r)) = 1..n BY <1>2, <1>4 DEF RelIn
<1>7. Cardinality(1..n) = n
  <2>1. Cardinality(1..n) = IF 1 > n THEN 0 ELSE n - 1 + 1 BY <1>3, FS_Interval
  <2> QED BY <1>3, <2>1
<1> QED BY <1>3, <1>4, <1>5, <1>6, <1>7 DEF n, RelCount

(* Flushing the reaped endpoints releases as many as were reaped.           *)
LEMMA FlushFacts ==
  ASSUME LinkT, flush_chan_reap
  PROVE  /\ endpoint' \in [Endpoints -> States]
         /\ \A n \in Endpoints : endpoint[n] = "live" => endpoint'[n] = "live"
         /\ Cardinality(Alive') \in Nat
         /\ Cardinality(Alive) = Cardinality(Alive') + Cardinality(Reaped)
<1>1. /\ endpoint \in [Endpoints -> States]
      /\ endpoint' = [n \in Endpoints |-> IF n \in Reaped THEN "released" ELSE endpoint[n]]
  BY DEF LinkT, flush_chan_reap
<1>2. \A n \in Endpoints : endpoint'[n] = IF endpoint[n] = "reaped" THEN "released" ELSE endpoint[n]
  BY <1>1 DEF Reaped
<1>3. endpoint' \in [Endpoints -> States]
  BY <1>1, <1>2 DEF States
<1>4. Alive' = Alive \ Reaped /\ Alive \cap Reaped = Reaped BY <1>2 DEF Alive, Reaped
<1>5. IsFiniteSet(Alive) /\ Cardinality(Alive) \in Nat BY AliveCount
<1>6. IsFiniteSet(Alive \ Reaped) /\ Cardinality(Alive \ Reaped) = Cardinality(Alive) - Cardinality(Alive \cap Reaped)
  BY <1>5, FS_Difference
<1>7. Cardinality(Alive \ Reaped) \in Nat BY <1>6, FS_CardinalityType
<1>8. Cardinality(Reaped) \in Nat BY ReleasesFacts
<1>9. Cardinality(Alive) = Cardinality(Alive \ Reaped) + Cardinality(Reaped)
  <2> DEFINE a == Cardinality(Alive)
             b == Cardinality(Alive \ Reaped)
             c == Cardinality(Reaped)
  <2>1. b = a - Cardinality(Alive \cap Reaped) /\ Cardinality(Alive \cap Reaped) = c
    BY <1>4, <1>6
  <2>2. a \in Nat /\ b \in Nat /\ c \in Nat BY <1>5, <1>7, <1>8
  <2> HIDE DEF a, b, c
  <2>3. a = b + c BY <2>1, <2>2
  <2> QED BY <2>3 DEF a, b, c
<1> QED BY <1>2, <1>3, <1>4, <1>7, <1>9

(* The count of releases on the lane that grew.                             *)
LEMMA RelGrows ==
  ASSUME NEW q \in Seq(ToFrames), NEW g \in Seq(ToFrames)
  PROVE  /\ RelCount(q \o g, Len(q \o g)) = RelCount(q, Len(q)) + RelCount(g, Len(g))
         /\ RelCount(q, Len(q)) \in Nat /\ RelCount(g, Len(g)) \in Nat
<1>1. Len(q) \in Nat /\ Len(g) \in Nat /\ Len(q \o g) = Len(q) + Len(g) OBVIOUS
<1>2. \A n \in 0..Len(g) : RelCount(q \o g, Len(q) + n) = RelCount(q, Len(q)) + RelCount(g, n)
  BY RelJoin
<1>3. RelCount(q \o g, Len(q) + Len(g)) = RelCount(q, Len(q)) + RelCount(g, Len(g)) BY <1>1, <1>2
<1> QED BY <1>1, <1>3, RelFinite

(* The lane with releases and x on it.                                      *)
LEMMA BearsReleases ==
  ASSUME NEW x \in ToFrames, x.type # "Release"
  PROVE  /\ Bears(Releases, ReleaseFrame) /\ Bears(Releases \o <<x>>, x)
         /\ Bears(<<x>> \o Releases, x) /\ Bears(<<x>>, x) /\ Bears(<<>>, ReleaseFrame)
         /\ Bears(<<>> \o Releases, ReleaseFrame)
         /\ \A g \in {Releases, Releases \o <<x>>, <<x>> \o Releases, <<>> \o Releases} :
              RelCount(g, Len(g)) = Cardinality(Reaped)
         /\ RelCount(<<x>>, Len(<<x>>)) = 0 /\ RelCount(<<>>, Len(<<>>)) = 0
<1> DEFINE r == Releases
           h == <<x>>
           a == r \o h
           b == h \o r
<1>0. ReleaseFrame \in ToFrames /\ ReleaseFrame.type = "Release" BY MadeTo
<1>1. /\ r \in Seq(ToFrames) /\ \A i \in 1..Len(r) : r[i] = ReleaseFrame
      /\ Cardinality(Reaped) \in Nat /\ RelCount(r, Len(r)) = Cardinality(Reaped)
  BY ReleasesFacts
<1> HIDE DEF r
<1>2. /\ h \in Seq(ToFrames) /\ Len(h) = 1 /\ h[1] = x OBVIOUS
<1>3. /\ a \in Seq(ToFrames) /\ Len(a) = Len(r) + 1 /\ a[Len(r) + 1] = x
      /\ \A i \in 1..Len(r) : a[i] = r[i]
      /\ b \in Seq(ToFrames) /\ Len(b) = 1 + Len(r) /\ b[1] = x
      /\ \A i \in 1..Len(r) : b[1 + i] = r[i]
      /\ Len(r) \in Nat
  BY <1>1
<1>4. <<>> \o r = r BY <1>1
<1>5. Bears(r, ReleaseFrame) BY <1>0, <1>1 DEF Bears
<1>6. Bears(h, x)
  BY <1>2 DEF Bears
<1>7. Bears(<<>>, ReleaseFrame) BY <1>0 DEF Bears
<1>8. RelCount(h, Len(h)) = 0
  <2>1. RelIn(h, Len(h)) = {} BY <1>2 DEF RelIn
  <2> QED BY <2>1, FS_EmptySet DEF RelCount
<1>9. RelCount(<<>>, Len(<<>>)) = 0
  <2>1. RelIn(<<>>, Len(<<>>)) = {} BY DEF RelIn
  <2> QED BY <2>1, FS_EmptySet DEF RelCount
<1> HIDE DEF h
<1>10. RelCount(a, Len(a)) = Cardinality(Reaped)
  <2>0. r \in Seq(ToFrames) /\ h \in Seq(ToFrames) BY <1>1, <1>2
  <2>1. RelCount(r \o h, Len(r \o h)) = RelCount(r, Len(r)) + RelCount(h, Len(h)) BY <2>0, RelGrows
  <2> QED BY <1>1, <1>8, <2>1
<1>11. RelCount(b, Len(b)) = Cardinality(Reaped)
  <2>0. r \in Seq(ToFrames) /\ h \in Seq(ToFrames) BY <1>1, <1>2
  <2>1. RelCount(h \o r, Len(h \o r)) = RelCount(h, Len(h)) + RelCount(r, Len(r)) BY <2>0, RelGrows
  <2> QED BY <1>1, <1>8, <2>1
<1> HIDE DEF a, b
<1>12. Bears(a, x)
  <2>1. \A i \in 1..Len(a) : IF i = Len(r) + 1 THEN a[i] = x ELSE a[i] = ReleaseFrame
    BY <1>1, <1>3
  <2>2. Len(r) + 1 \in 1..Len(a) BY <1>3
  <2> QED BY <1>0, <1>3, <2>1, <2>2 DEF Bears
<1>13. Bears(b, x)
  <2>1. \A i \in 1..Len(b) : IF i = 1 THEN b[i] = x ELSE b[i] = ReleaseFrame
    <3>1. ASSUME NEW i \in 1..Len(b), i # 1 PROVE b[i] = ReleaseFrame
      <4>1. i - 1 \in 1..Len(r) /\ 1 + (i - 1) = i BY <1>3, <3>1
      <4> QED BY <1>1, <1>3, <4>1
    <3> QED BY <1>3, <3>1
  <2>2. 1 \in 1..Len(b) BY <1>3
  <2> QED BY <1>0, <1>3, <2>1, <2>2 DEF Bears
<1> QED BY <1>1, <1>4, <1>5, <1>6, <1>7, <1>8, <1>9, <1>10, <1>11, <1>12, <1>13 DEF r, h, a, b

(* relay_endpoint and drop: the endpoint stays counted.                     *)
LEMMA EndpointMoves ==
  ASSUME RInv, RemoteUp, NEW n \in Endpoints, NEW x \in {"live", "reaped"},
         endpoint[n] \in {"shipping", "live"},
         x = "reaped" => \A t \in RemoteTasks : opend[t] # n,
         endpoint' = [endpoint EXCEPT ![n] = x],
         UNCHANGED <<vars, toOwner, next_corr, pending, opend, opcorr, dead, noticed, lost>>
  PROVE  RInv'
<1>0. RTypes /\ ChanT /\ TaskT /\ ValT /\ LinkT BY DEF RInv, RTypes
<1>1. UNCHANGED <<cap, closed, buffer, recv_waiters, send_waiters, refs, outbound, wake,
                  parked_on_channel, cancel_requested, park_epoch, op, opval,
                  fate, received, toOwner, next_corr, pending, opend, opcorr, dead,
                  noticed, lost>>
  BY DEF vars, chanVars, wakeVars, coroVars
<1>2. /\ endpoint' \in [Endpoints -> States]
      /\ endpoint'[n] = x /\ \A m \in Endpoints \ {n} : endpoint'[m] = endpoint[m]
  BY <1>0 DEF LinkT, States
<1>3. RTypes'
  <2>1. ChanT' BY <1>0, <1>1 DEF ChanT
  <2>2. TaskT' BY <1>0, <1>1 DEF TaskT
  <2>3. ValT' BY <1>0, <1>1 DEF ValT
  <2>4. LinkT' BY <1>0, <1>1, <1>2 DEF LinkT
  <2> QED BY <2>1, <2>2, <2>3, <2>4 DEF RTypes
<1>4. OneStage' BY <1>1 DEF OneStage, RInv, RemoteUp
<1>5. ASSUME UpOK PROVE UpOK'
  <2>1. ParksOK' BY <1>1, <1>5 DEF UpOK, ParksOK, Parks
  <2>2. FitsOK' BY <1>1, <1>5 DEF UpOK, FitsOK, LocalFits
  <2>3. PendingOK' BY <1>1, <1>5 DEF UpOK, PendingOK, Staged
  <2>4. OpsOK' BY <1>1, <1>5 DEF UpOK, OpsOK, OpOK, Staged
  <2>5. UsedOK' BY <1>1, <1>2, <1>5 DEF UpOK, UsedOK
  <2>6. CountOK'
    <3>1. Alive' = Alive BY <1>2 DEF Alive
    <3> QED BY <1>1, <1>5, <3>1 DEF UpOK, CountOK
  <2>7. HeldOK' BY <1>1, <1>5 DEF UpOK, HeldOK, Wanting
  <2>8. SpotsOK' BY <1>1, <1>5 DEF UpOK, SpotsOK
  <2>9. WayOK' BY <1>1, <1>5 DEF UpOK, WayOK, Offered, Held
  <2>10. SenderOK' BY <1>1, <1>5 DEF UpOK, SenderOK, OfferFits, Offered, Held
  <2> QED BY <2>1, <2>2, <2>3, <2>4, <2>5, <2>6, <2>7, <2>8, <2>9, <2>10 DEF UpOK
<1> QED BY <1>1, <1>3, <1>4, <1>5 DEF RInv, RemoteUp

(* An endpoint that arrives or is dropped keeps the invariant.              *)
LEMMA ArrivesKeeps ==
  ASSUME RInv, NEW n \in Endpoints, relay_endpoint(n) \/ drop(n) PROVE RInv'
<1>1. CASE relay_endpoint(n)
  <2>1. /\ RemoteUp /\ endpoint[n] = "shipping" /\ endpoint' = [endpoint EXCEPT ![n] = "live"]
        /\ UNCHANGED <<vars, toOwner, next_corr, pending, opend, opcorr, dead, noticed, lost>>
    BY <1>1 DEF relay_endpoint
  <2> QED BY <2>1, EndpointMoves
<1>2. CASE drop(n)
  <2>1. /\ RemoteUp /\ endpoint[n] = "live" /\ endpoint' = [endpoint EXCEPT ![n] = "reaped"]
        /\ \A t \in RemoteTasks : opend[t] # n
        /\ UNCHANGED <<vars, toOwner, next_corr, pending, opend, opcorr, dead, noticed, lost>>
    BY <1>2 DEF drop
  <2> QED BY <2>1, EndpointMoves
<1> QED BY <1>1, <1>2

(* The lane q has grown into s, by releases and x: the frames on it, and    *)
(* its keys.                                                                *)
Grown(q, s, x) == \E g : Bears(g, x) /\ s = q \o g

(* The frames of the grown lane.                                            *)
LEMMA GrownFrames ==
  ASSUME NEW q \in Seq(ToFrames), NEW s, NEW x, Grown(q, s, x)
  PROVE  /\ s \in Seq(ToFrames) /\ x \in ToFrames
         /\ \A i \in 1..Len(s) : /\ s[i] \in ToFrames
                                 /\ \/ \E j \in 1..Len(q) : s[i] = q[j]
                                    \/ s[i].type = "Release" \/ s[i] = x
<1>0. PICK g : Bears(g, x) /\ s = q \o g BY DEF Grown
<1>1. g \in Seq(ToFrames) /\ x \in ToFrames BY <1>0 DEF Bears
<1>2. /\ Len(q) \in Nat /\ Len(g) \in Nat /\ s \in Seq(ToFrames)
      /\ \A i \in 1..Len(q) : s[i] = q[i]
      /\ \A i \in 1..Len(s) : i \notin 1..Len(q) => i - Len(q) \in 1..Len(g) /\ s[i] = g[i - Len(q)]
  BY <1>0, <1>1
<1>3. \A i \in 1..Len(g) : g[i].type = "Release" \/ g[i] = x BY <1>0 DEF Bears
<1>4. \A i \in 1..Len(s) : s[i] \in ToFrames BY <1>2
<1> QED BY <1>1, <1>2, <1>3, <1>4

(* The keys of the grown lane.                                              *)
LEMMA GrownKeys ==
  ASSUME NEW q \in Seq(ToFrames), NEW s, NEW x, Grown(q, s, x)
  PROVE  /\ \A k : k # 0 =>
              /\ Has(s, ReqKey, k) <=> Has(q, ReqKey, k) \/ ReqKey[x] = k
              /\ Has(s, AskKey, k) <=> Has(q, AskKey, k) \/ AskKey[x] = k
              /\ Has(s, RetractKey, k) <=> Has(q, RetractKey, k) \/ RetractKey[x] = k
         /\ \A k : k # NoVal =>
              /\ Has(s, SendKey, k) <=> Has(q, SendKey, k) \/ SendKey[x] = k
              /\ Has(s, RetKey, k) <=> Has(q, RetKey, k) \/ RetKey[x] = k
         /\ Once(q, ReqKey, 0) /\ (ReqKey[x] = 0 \/ ~Has(q, ReqKey, ReqKey[x])) => Once(s, ReqKey, 0)
         /\ Once(q, SendKey, NoVal) /\ (SendKey[x] = NoVal \/ ~Has(q, SendKey, SendKey[x]))
              => Once(s, SendKey, NoVal)
         /\ Once(q, RetKey, NoVal) /\ (RetKey[x] = NoVal \/ ~Has(q, RetKey, RetKey[x]))
              => Once(s, RetKey, NoVal)
         /\ \A n, c : c \in Corrs /\ Retracted(q, n, c) /\ AskKey[x] # c => Retracted(s, n, c)
<1>0. PICK g : Bears(g, x) /\ s = q \o g BY DEF Grown
<1>1. /\ \A k : k # 0 => (Has(s, ReqKey, k) <=> Has(q, ReqKey, k) \/ ReqKey[x] = k)
      /\ Once(q, ReqKey, 0) /\ (ReqKey[x] = 0 \/ ~Has(q, ReqKey, ReqKey[x])) => Once(s, ReqKey, 0)
  <2>1. \A f \in ToFrames : f.type = "Release" => ReqKey[f] = 0 BY ReleaseKeys
  <2>2. /\ q \o g \in Seq(ToFrames)
        /\ \A k : k # 0 => (Has(q \o g, ReqKey, k) <=> Has(q, ReqKey, k) \/ ReqKey[x] = k)
        /\ Once(q, ReqKey, 0) /\ (ReqKey[x] = 0 \/ ~Has(q, ReqKey, ReqKey[x])) => Once(q \o g, ReqKey, 0)
    BY <1>0, <2>1, LaneGrows
  <2> QED BY <1>0, <2>2
<1>2. /\ \A k : k # 0 => (Has(s, AskKey, k) <=> Has(q, AskKey, k) \/ AskKey[x] = k)
      /\ Once(q, AskKey, 0) /\ (AskKey[x] = 0 \/ ~Has(q, AskKey, AskKey[x])) => Once(s, AskKey, 0)
  <2>1. \A f \in ToFrames : f.type = "Release" => AskKey[f] = 0 BY ReleaseKeys
  <2>2. /\ q \o g \in Seq(ToFrames)
        /\ \A k : k # 0 => (Has(q \o g, AskKey, k) <=> Has(q, AskKey, k) \/ AskKey[x] = k)
        /\ Once(q, AskKey, 0) /\ (AskKey[x] = 0 \/ ~Has(q, AskKey, AskKey[x])) => Once(q \o g, AskKey, 0)
    BY <1>0, <2>1, LaneGrows
  <2> QED BY <1>0, <2>2
<1>3. /\ \A k : k # 0 => (Has(s, RetractKey, k) <=> Has(q, RetractKey, k) \/ RetractKey[x] = k)
      /\ Once(q, RetractKey, 0) /\ (RetractKey[x] = 0 \/ ~Has(q, RetractKey, RetractKey[x])) => Once(s, RetractKey, 0)
  <2>1. \A f \in ToFrames : f.type = "Release" => RetractKey[f] = 0 BY ReleaseKeys
  <2>2. /\ q \o g \in Seq(ToFrames)
        /\ \A k : k # 0 => (Has(q \o g, RetractKey, k) <=> Has(q, RetractKey, k) \/ RetractKey[x] = k)
        /\ Once(q, RetractKey, 0) /\ (RetractKey[x] = 0 \/ ~Has(q, RetractKey, RetractKey[x])) => Once(q \o g, RetractKey, 0)
    BY <1>0, <2>1, LaneGrows
  <2> QED BY <1>0, <2>2
<1>4. /\ \A k : k # NoVal => (Has(s, SendKey, k) <=> Has(q, SendKey, k) \/ SendKey[x] = k)
      /\ Once(q, SendKey, NoVal) /\ (SendKey[x] = NoVal \/ ~Has(q, SendKey, SendKey[x])) => Once(s, SendKey, NoVal)
  <2>1. \A f \in ToFrames : f.type = "Release" => SendKey[f] = NoVal BY ReleaseKeys
  <2>2. /\ q \o g \in Seq(ToFrames)
        /\ \A k : k # NoVal => (Has(q \o g, SendKey, k) <=> Has(q, SendKey, k) \/ SendKey[x] = k)
        /\ Once(q, SendKey, NoVal) /\ (SendKey[x] = NoVal \/ ~Has(q, SendKey, SendKey[x])) => Once(q \o g, SendKey, NoVal)
    BY <1>0, <2>1, LaneGrows
  <2> QED BY <1>0, <2>2
<1>5. /\ \A k : k # NoVal => (Has(s, RetKey, k) <=> Has(q, RetKey, k) \/ RetKey[x] = k)
      /\ Once(q, RetKey, NoVal) /\ (RetKey[x] = NoVal \/ ~Has(q, RetKey, RetKey[x])) => Once(s, RetKey, NoVal)
  <2>1. \A f \in ToFrames : f.type = "Release" => RetKey[f] = NoVal BY ReleaseKeys
  <2>2. /\ q \o g \in Seq(ToFrames)
        /\ \A k : k # NoVal => (Has(q \o g, RetKey, k) <=> Has(q, RetKey, k) \/ RetKey[x] = k)
        /\ Once(q, RetKey, NoVal) /\ (RetKey[x] = NoVal \/ ~Has(q, RetKey, RetKey[x])) => Once(q \o g, RetKey, NoVal)
    BY <1>0, <2>1, LaneGrows
  <2> QED BY <1>0, <2>2
<1>6. \A n, c : c \in Corrs /\ Retracted(q, n, c) /\ AskKey[x] # c => Retracted(s, n, c)
  BY <1>0, RetractGrows
<1> QED BY <1>1, <1>2, <1>3, <1>4, <1>5, <1>6

(* Sends, while nothing but x and releases goes on the lane, and x is no    *)
(* Send.                                                                    *)
LEMMA SendsGrow ==
  ASSUME WayOK, SenderOK, ParksOK, ChanT, NEW x, Grown(toOwner, toOwner', x),
         SendKey[x] = NoVal, send_waiters' = send_waiters,
         \A t \in Tasks : \/ op'[t] # "send"
                          \/ op'[t] = op[t] /\ opval'[t] = opval[t]
                               /\ (parked_on_channel'[t] => parked_on_channel[t]),
         \A t \in RemoteTasks : op'[t] = "send" => opcorr'[t] = opcorr[t],
         \A v \in Values : \/ fate'[v] = fate[v]
                           \/ /\ fate'[v] # "new" /\ ~Offered(v) /\ ~Held(v)
                              /\ \A t \in LocalTasks : op'[t] = "send" /\ opval'[t] = v =>
                                                         ~parked_on_channel'[t]
  PROVE  WayOK' /\ SenderOK'
<1>0. toOwner \in Seq(ToFrames) BY DEF ChanT
<1>a. \A f \in ToFrames : f.type = "Release" => SendKey[f] = NoVal BY ReleaseKeys
<1>b. /\ \A k : k # NoVal => (Has(toOwner', SendKey, k) <=> Has(toOwner, SendKey, k) \/ SendKey[x] = k)
      /\ Once(toOwner, SendKey, NoVal) /\ (SendKey[x] = NoVal \/ ~Has(toOwner, SendKey, SendKey[x]))
           => Once(toOwner', SendKey, NoVal)
  BY <1>0, GrownKeys
<1>c. NoVal \notin Values BY ChannelAssumption
<1>1. /\ Once(toOwner', SendKey, NoVal)
      /\ \A v \in Values : Has(toOwner', SendKey, v) <=> Has(toOwner, SendKey, v)
  BY <1>b, <1>c DEF WayOK
<1>2. \A v \in Values : /\ Has(toOwner', SendKey, v) => ~Has(send_waiters', FarKey, v) /\ fate'[v] = "parked"
                        /\ Has(send_waiters', FarKey, v) => fate'[v] = "parked"
  BY <1>1 DEF WayOK, Offered, Held
<1>3. WayOK' BY <1>1, <1>2 DEF WayOK, Offered, Held
<1>4. \A t \in Tasks : op'[t] = "send" => op[t] = "send" /\ opval'[t] = opval[t] /\ opval[t] \in Values
  BY DEF ParksOK, Parks
<1>5. \A t, u \in Tasks : op'[t] = "send" /\ op'[u] = "send" /\ opval'[t] = opval'[u] => t = u
  BY <1>4 DEF SenderOK
<1>6. \A t \in Tasks : op'[t] = "send" => fate'[opval'[t]] # "new" BY <1>4 DEF SenderOK
<1>7. ASSUME NEW t \in LocalTasks, op'[t] = "send"
      PROVE  /\ ~Has(toOwner', SendKey, opval'[t]) /\ ~Has(send_waiters', FarKey, opval'[t])
             /\ parked_on_channel'[t] => fate'[opval'[t]] = "parked"
  <2>1. t \in Tasks BY DEF Tasks
  <2>2. op[t] = "send" /\ opval'[t] = opval[t] /\ opval[t] \in Values
          /\ (parked_on_channel'[t] => parked_on_channel[t])
    BY <1>4, <1>7, <2>1
  <2>3. /\ ~Has(toOwner, SendKey, opval[t]) /\ ~Has(send_waiters, FarKey, opval[t])
        /\ parked_on_channel[t] => fate[opval[t]] = "parked"
    BY <2>2 DEF SenderOK, Offered, Held
  <2> QED BY <1>1, <1>7, <2>2, <2>3
<1>8. ASSUME NEW t \in RemoteTasks, op'[t] = "send" PROVE OfferFits(t)'
  <2>1. t \in Tasks BY DEF Tasks
  <2>2. op[t] = "send" /\ opval'[t] = opval[t] /\ opval[t] \in Values /\ opcorr'[t] = opcorr[t]
    BY <1>4, <1>8, <2>1
  <2>3. OfferFits(t) BY <2>2 DEF SenderOK
  <2>4. \A i \in 1..Len(toOwner') : /\ toOwner'[i] \in ToFrames
                                    /\ \/ \E j \in 1..Len(toOwner) : toOwner'[i] = toOwner[j]
                                       \/ toOwner'[i].type = "Release" \/ toOwner'[i] = x
    BY <1>0, GrownFrames
  <2> DEFINE s == toOwner'
  <2>5. \A i \in 1..Len(s) : SendKey[s[i]] = opval[t] => s[i].corr = opcorr[t]
    BY <1>a, <1>c, <2>2, <2>3, <2>4 DEF OfferFits
  <2> QED BY <2>2, <2>3, <2>5 DEF OfferFits
<1>9. SenderOK' BY <1>5, <1>6, <1>7, <1>8 DEF SenderOK, Offered, Held
<1> QED BY <1>3, <1>9

(* The references, as releases go out.                                      *)
LEMMA CountGrows ==
  ASSUME CountOK, ChanT, LinkT, NEW g \in Seq(ToFrames), toOwner' = toOwner \o g, refs' = refs,
         \/ flush_chan_reap /\ RelCount(g, Len(g)) = Cardinality(Reaped)
         \/ endpoint' = endpoint /\ RelCount(g, Len(g)) = 0
  PROVE  CountOK'
<1>1. toOwner \in Seq(ToFrames) BY DEF ChanT
<1> DEFINE a == Cardinality(Alive)
           b == Cardinality(Alive')
           r == RelCount(toOwner, Len(toOwner))
           d == RelCount(g, Len(g))
<1>2. RelCount(toOwner \o g, Len(toOwner \o g)) = r + d /\ r \in Nat /\ d \in Nat
  BY <1>1, RelGrows
<1>3. refs = a + r BY DEF CountOK
<1>4. a \in Nat /\ b \in Nat /\ a = b + d
  <2>1. CASE flush_chan_reap /\ RelCount(g, Len(g)) = Cardinality(Reaped)
    <3>1. b \in Nat /\ a = b + Cardinality(Reaped) BY <2>1, FlushFacts
    <3>2. a \in Nat BY AliveCount
    <3> QED BY <2>1, <3>1, <3>2
  <2>2. CASE endpoint' = endpoint /\ RelCount(g, Len(g)) = 0
    <3>1. Alive' = Alive BY <2>2 DEF Alive
    <3>2. a \in Nat BY AliveCount
    <3> QED BY <2>2, <3>1, <3>2
  <2> QED BY <2>1, <2>2
<1> HIDE DEF a, b, r, d
<1>5. refs = b + (r + d) BY <1>2, <1>3, <1>4
<1> QED BY <1>2, <1>5 DEF CountOK, b

(* The operations of the endpoint side's tasks, as the lane grows by a      *)
(* keyless frame.                                                           *)
LEMMA GrownLink ==
  ASSUME ChanT, LinkT, ParksOK, OneStage, PendingOK, OpsOK, HeldOK,
         NEW x, Grown(toOwner, toOwner', x), ReqKey[x] = 0, AskKey[x] = 0, RetractKey[x] = 0,
         UNCHANGED <<recv_waiters, send_waiters, outbound, refs, wake, parked_on_channel,
                     park_epoch, op, next_corr, pending, opend, opcorr>>
  PROVE  OneStage' /\ PendingOK' /\ OpsOK' /\ HeldOK'
<1>0. toOwner \in Seq(ToFrames) BY DEF ChanT
<1>1. /\ \A k : k # 0 =>
           /\ Has(toOwner', ReqKey, k) <=> Has(toOwner, ReqKey, k) \/ ReqKey[x] = k
           /\ Has(toOwner', AskKey, k) <=> Has(toOwner, AskKey, k) \/ AskKey[x] = k
           /\ Has(toOwner', RetractKey, k) <=> Has(toOwner, RetractKey, k) \/ RetractKey[x] = k
      /\ Once(toOwner, ReqKey, 0) /\ (ReqKey[x] = 0 \/ ~Has(toOwner, ReqKey, ReqKey[x]))
           => Once(toOwner', ReqKey, 0)
      /\ \A n, c : c \in Corrs /\ Retracted(toOwner, n, c) /\ AskKey[x] # c => Retracted(toOwner', n, c)
  BY <1>0, GrownKeys
<1>2. \A c \in Corrs : /\ Has(toOwner', ReqKey, c) <=> Has(toOwner, ReqKey, c)
                       /\ Has(toOwner', AskKey, c) <=> Has(toOwner, AskKey, c)
                       /\ Has(toOwner', RetractKey, c) <=> Has(toOwner, RetractKey, c)
                       /\ \A n : Retracted(toOwner, n, c) => Retracted(toOwner', n, c)
  BY <1>1 DEF Corrs
<1>3. OneStage' BY <1>1, <1>2 DEF OneStage, Alone
<1>4. \A c \in Corrs : Staged(c)' <=> Staged(c) BY <1>2 DEF Staged, InStage
<1>5. PendingOK' BY <1>4 DEF PendingOK
<1>6. ASSUME NEW t \in RemoteTasks PROVE OpOK(t)'
  <2>1. OpOK(t) BY DEF OpsOK
  <2>2. op[t] # "none" => opcorr[t] \in Corrs BY DEF LinkT, Corrs
  <2>3. op[t] = "none" => ~parked_on_channel[t] /\ wake[t].kind = "none"
    BY DEF ParksOK, Parks, Tasks
  <2>4. CASE op[t] = "none" BY <2>1, <2>3, <2>4 DEF OpOK
  <2>5. CASE op[t] # "none" BY <1>2, <1>4, <2>1, <2>2, <2>5 DEF OpOK
  <2> QED BY <2>4, <2>5
<1>7. OpsOK' BY <1>2, <1>6 DEF OpsOK
<1>8. HeldOK' BY <1>2 DEF HeldOK, Wanting, Wants
<1> QED BY <1>3, <1>5, <1>7, <1>8

(* A task's operation that reaches the owner with releases and at most a    *)
(* Close: no task parks.                                                    *)
LEMMA FlushKeeps ==
  ASSUME RInv, RemoteUp, flush_chan_reap, NEW g, NEW x, Bears(g, x), x.type \in {"Release", "Close"},
         RelCount(g, Len(g)) = Cardinality(Reaped),
         toOwner' = IF OwnerUp THEN toOwner \o g ELSE toOwner,
         \/ fate' = fate
         \/ \E v \in Values : fate[v] = "new" /\ fate' = [fate EXCEPT ![v] = "refused"],
         UNCHANGED <<cap, closed, buffer, recv_waiters, send_waiters, refs, outbound, wake,
                     parked_on_channel, cancel_requested, park_epoch, op, opval,
                     received, next_corr, pending, opend, opcorr, dead, noticed, lost>>
  PROVE  RInv'
<1>0. RTypes /\ ChanT /\ TaskT /\ ValT /\ LinkT BY DEF RInv, RTypes
<1>1. /\ endpoint' \in [Endpoints -> States]
      /\ \A n \in Endpoints : endpoint[n] = "live" => endpoint'[n] = "live"
  BY <1>0, FlushFacts
<1>2. fate' \in [Values -> {"new", "parked", "accepted", "refused", "cancelled"}]
  BY <1>0 DEF ValT
<1>3. toOwner \in Seq(ToFrames) /\ g \in Seq(ToFrames) /\ x \in ToFrames BY <1>0 DEF ChanT, Bears
<1>4. toOwner' \in Seq(ToFrames) BY <1>3
<1>5. RTypes'
  <2>1. ChanT' BY <1>0, <1>4 DEF ChanT
  <2>2. TaskT' BY <1>0 DEF TaskT
  <2>3. ValT' BY <1>0, <1>2 DEF ValT
  <2>4. LinkT' BY <1>0, <1>1 DEF LinkT
  <2> QED BY <2>1, <2>2, <2>3, <2>4 DEF RTypes
<1>6. CASE dead = "owner"
  <2>1. toOwner' = toOwner /\ toOwner = <<>> BY <1>6 DEF OwnerUp, RInv
  <2>2. OneStage' BY <1>6, <2>1 DEF RInv, OneStage
  <2> QED BY <1>5, <1>6, <2>1, <2>2 DEF RInv
<1>7. CASE dead = "none"
  <2>0. toOwner' = toOwner \o g BY <1>7 DEF OwnerUp
  <2>1. OneStage /\ UpOK BY <1>7 DEF RInv
  <2>2. Grown(toOwner, toOwner', x) BY <2>0 DEF Grown
  <2>3. ReqKey[x] = 0 /\ AskKey[x] = 0 /\ RetractKey[x] = 0 /\ SendKey[x] = NoVal /\ RetKey[x] = NoVal
    BY <1>3, FrameKeys
  <2>4. OneStage' /\ PendingOK' /\ OpsOK' /\ HeldOK'
    <3>1. ParksOK /\ PendingOK /\ OpsOK /\ HeldOK BY <2>1 DEF UpOK
    <3> QED BY <1>0, <2>1, <2>2, <2>3, <3>1, GrownLink
  <2>5. ParksOK' BY <2>1 DEF UpOK, ParksOK, Parks
  <2>6. FitsOK' BY <2>1 DEF UpOK, FitsOK, LocalFits
  <2>7. UsedOK' BY <1>1, <2>1 DEF UpOK, UsedOK
  <2>8. CountOK' BY <1>0, <1>3, <2>0, <2>1, CountGrows DEF UpOK
  <2>9. \A v \in Values : \/ fate'[v] = fate[v]
                          \/ /\ fate[v] = "new" /\ fate'[v] = "refused" /\ ~Offered(v) /\ ~Held(v)
                             /\ \A t \in Tasks : op[t] = "send" => opval[t] # v
    <3>1. CASE fate' = fate BY <3>1
    <3>2. CASE \E v \in Values : fate[v] = "new" /\ fate' = [fate EXCEPT ![v] = "refused"]
      <4>1. PICK v \in Values : fate[v] = "new" /\ fate' = [fate EXCEPT ![v] = "refused"] BY <3>2
      <4>2. fate'[v] = "refused" /\ \A u \in Values \ {v} : fate'[u] = fate[u]
        BY <1>0, <4>1 DEF ValT
      <4>3. ~Offered(v) /\ ~Held(v) /\ \A t \in Tasks : op[t] = "send" => opval[t] # v
        BY <2>1, <4>1, NewValue
      <4> QED BY <4>1, <4>2, <4>3
    <3> QED BY <3>1, <3>2
  <2>10. SpotsOK'
    <3>1. \A v \in Values : fate'[v] = "accepted" <=> fate[v] = "accepted" BY <2>9
    <3>2. Kept(fate', lost) = Kept(fate, lost) BY <3>1 DEF Kept
    <3>3. Same(toOwner, toOwner', RetKey, NoVal)
      <4>1. /\ \A k : k # NoVal => (Has(toOwner', RetKey, k) <=> Has(toOwner, RetKey, k) \/ RetKey[x] = k)
            /\ Once(toOwner, RetKey, NoVal) /\ (RetKey[x] = NoVal \/ ~Has(toOwner, RetKey, RetKey[x]))
                 => Once(toOwner', RetKey, NoVal)
        BY <1>3, <2>2, GrownKeys
      <4> QED BY <2>3, <4>1 DEF Same
    <3>4. Same(outbound, outbound, ValKey, NoVal) /\ Quiet(wake, wake) BY SameKeys DEF Quiet
    <3>5. Spots(buffer, wake, outbound, toOwner', received, Kept(fate, lost))
      BY <2>1, <3>3, <3>4, SpotsSame DEF UpOK, SpotsOK
    <3>6. \A v \in lost : fate'[v] = "accepted" BY <1>0, <2>1, <3>1 DEF UpOK, SpotsOK, ValT
    <3> QED BY <3>2, <3>5, <3>6 DEF SpotsOK
  <2>11. WayOK' /\ SenderOK'
    <3>1. WayOK /\ SenderOK /\ ParksOK BY <2>1 DEF UpOK
    <3>2. \A v \in Values : \/ fate'[v] = fate[v]
                            \/ /\ fate'[v] # "new" /\ ~Offered(v) /\ ~Held(v)
                               /\ \A t \in LocalTasks : op'[t] = "send" /\ opval'[t] = v =>
                                                          ~parked_on_channel'[t]
      BY <2>9 DEF Tasks
    <3> QED BY <1>0, <2>2, <2>3, <3>1, <3>2, SendsGrow
  <2>12. UpOK' BY <2>4, <2>5, <2>6, <2>7, <2>8, <2>10, <2>11 DEF UpOK
  <2> QED BY <1>5, <1>7, <2>4, <2>12 DEF RInv
<1> QED BY <1>0, <1>6, <1>7 DEF LinkT, RemoteUp

(* relay_close, and an operation that raises: the value cannot cross, or    *)
(* the owning isolate is gone.                                              *)
LEMMA RelayCloseKeeps ==
  ASSUME RInv, NEW t \in RemoteTasks, NEW n \in Endpoints, relay_close(t, n) PROVE RInv'
<1> DEFINE x == Frame("Close", 0, NoVal)
           g == Releases \o <<x>>
<1>1. x \in ToFrames /\ x.type = "Close" BY MadeTo
<1>2. /\ RemoteUp /\ flush_chan_reap /\ toOwner' = IF OwnerUp THEN toOwner \o g ELSE toOwner
      /\ UNCHANGED <<cap, closed, buffer, recv_waiters, send_waiters, refs, outbound, wake,
                     parked_on_channel, cancel_requested, park_epoch, op, opval, fate,
                     received, next_corr, pending, opend, opcorr, dead, noticed, lost>>
  BY DEF relay_close, UsesEndpoint, Emit, vars, chanVars, wakeVars, coroVars
<1> HIDE DEF x
<1>3. Bears(g, x) /\ RelCount(g, Len(g)) = Cardinality(Reaped) BY <1>1, BearsReleases
<1> HIDE DEF g
<1> QED BY <1>1, <1>2, <1>3, FlushKeeps

(* An operation of an endpoint that raises at once keeps the invariant.     *)
LEMMA RelayRaisesKeeps ==
  ASSUME RInv, RemoteUp, flush_chan_reap,
         toOwner' = IF OwnerUp THEN toOwner \o Releases ELSE toOwner,
         \/ fate' = fate
         \/ \E v \in Values : fate[v] = "new" /\ fate' = [fate EXCEPT ![v] = "refused"],
         UNCHANGED <<cap, closed, buffer, recv_waiters, send_waiters, refs, outbound, wake,
                     parked_on_channel, cancel_requested, park_epoch, op, opval,
                     received, next_corr, pending, opend, opcorr, dead, noticed, lost>>
  PROVE  RInv'
<1> DEFINE c == Frame("Close", 0, NoVal)
<1>1. c \in ToFrames /\ c.type = "Close" /\ ReleaseFrame.type = "Release" BY MadeTo
<1> HIDE DEF c
<1>2. Bears(Releases, ReleaseFrame) /\ RelCount(Releases, Len(Releases)) = Cardinality(Reaped)
  BY <1>1, BearsReleases
<1> QED BY <1>1, <1>2, FlushKeeps

(* begin_op: a fresh correlation, registered, requested and parked on.      *)
ReqFrame(what, c, v) == Frame(IF what = "send" THEN "Send" ELSE "Recv", c, v)
BeginsOp(t, n, what, v) ==
  /\ dead = "none" /\ endpoint[n] = "live" /\ op[t] = "none" /\ flush_chan_reap
  /\ what = "send" => v \in Values /\ fate[v] = "new" /\ fate' = [fate EXCEPT ![v] = "parked"]
  /\ what = "recv" => v = NoVal /\ fate' = fate
  /\ next_corr' = next_corr + 1
  /\ pending' = pending \cup {[corr |-> next_corr, task |-> t, epoch |-> park_epoch[t]]}
  /\ toOwner' = toOwner \o (Releases \o <<ReqFrame(what, next_corr, v)>>)
  /\ parked_on_channel' = [parked_on_channel EXCEPT ![t] = TRUE]
  /\ op' = [op EXCEPT ![t] = what] /\ opval' = [opval EXCEPT ![t] = v]
  /\ opend' = [opend EXCEPT ![t] = n] /\ opcorr' = [opcorr EXCEPT ![t] = next_corr]
  /\ UNCHANGED <<cap, closed, buffer, recv_waiters, send_waiters, refs, outbound, wake,
                 cancel_requested, park_epoch, received, dead, noticed, lost>>

(* The correlation is new.                                                  *)
LEMMA FreshCorr ==
  ASSUME LinkT, UpOK
  PROVE  /\ next_corr \in Corrs /\ ~Staged(next_corr) /\ ~Has(toOwner, RetractKey, next_corr)
         /\ \A p \in pending : p.corr # next_corr
         /\ \A t \in RemoteTasks : opcorr[t] # next_corr
<1>1. next_corr \in Corrs /\ next_corr \in Nat /\ next_corr # 0 BY DEF LinkT, Corrs
<1>2. \A p \in pending : p.corr \in Nat BY DEF LinkT, Pendings
<1>3. \A p \in pending : p.corr # next_corr BY <1>1, <1>2 DEF UpOK, PendingOK
<1>4. ~Staged(next_corr) BY <1>1, <1>3 DEF UpOK, PendingOK
<1>5. ~Has(toOwner, RetractKey, next_corr) BY <1>1 DEF UpOK, OpsOK
<1>6. ASSUME NEW t \in RemoteTasks PROVE opcorr[t] # next_corr
  <2>1. OpOK(t) /\ opcorr[t] \in Nat BY DEF UpOK, OpsOK, LinkT
  <2> QED BY <1>1, <2>1 DEF OpOK
<1> QED BY <1>1, <1>3, <1>4, <1>5, <1>6

(* What begin_op writes.                                                    *)
Begun(t, n, what, v, x) ==
  /\ v \in Values \cup {NoVal} /\ RTypes' /\ Grown(toOwner, toOwner', x) /\ x \in ToFrames
  /\ ReqKey[x] = next_corr /\ x.corr = next_corr /\ RetractKey[x] = 0 /\ RetKey[x] = NoVal
  /\ AskKey[x] = (IF what = "recv" THEN next_corr ELSE 0)
  /\ SendKey[x] = (IF what = "send" THEN v ELSE NoVal)
  /\ parked_on_channel'[t] = TRUE /\ op'[t] = what /\ opval'[t] = v
  /\ opend'[t] = n /\ opcorr'[t] = next_corr
  /\ \A u \in Tasks \ {t} : /\ parked_on_channel'[u] = parked_on_channel[u]
                            /\ op'[u] = op[u] /\ opval'[u] = opval[u]
  /\ \A u \in RemoteTasks \ {t} : opend'[u] = opend[u] /\ opcorr'[u] = opcorr[u]
  /\ \A m \in Endpoints : endpoint[m] = "live" => endpoint'[m] = "live"

(* What an operation begun on an endpoint writes.                           *)
LEMMA BeginWrites ==
  ASSUME RTypes, NEW t \in RemoteTasks, NEW n \in Endpoints, NEW what \in {"send", "recv"}, NEW v,
         BeginsOp(t, n, what, v), NEW x, x = ReqFrame(what, next_corr, v)
  PROVE  Begun(t, n, what, v, x)
<1>0. ChanT /\ TaskT /\ ValT /\ LinkT /\ t \in Tasks BY DEF RTypes, Tasks
<1>1. next_corr \in Corrs /\ next_corr + 1 \in Corrs BY <1>0 DEF LinkT, Corrs
<1>2. v \in Values \cup {NoVal} /\ (what = "send" => v \in Values) /\ (what = "recv" => v = NoVal)
  BY DEF BeginsOp
<1>3. /\ x \in ToFrames /\ x.corr = next_corr /\ x.type = IF what = "send" THEN "Send" ELSE "Recv"
      /\ what = "send" => x.val = v
  <2>1. CASE what = "send"
    <3>1. x = Frame("Send", next_corr, v) BY <2>1 DEF ReqFrame
    <3>2. /\ Frame("Send", next_corr, v) \in ToFrames /\ Frame("Send", next_corr, v).type = "Send"
          /\ Frame("Send", next_corr, v).val = v /\ Frame("Send", next_corr, v).corr = next_corr
      BY <1>1, <1>2, <2>1, MadeTo
    <3> QED BY <2>1, <3>1, <3>2
  <2>2. CASE what = "recv"
    <3>1. x = Frame("Recv", next_corr, NoVal) BY <1>2, <2>2 DEF ReqFrame
    <3>2. /\ Frame("Recv", next_corr, NoVal) \in ToFrames /\ Frame("Recv", next_corr, NoVal).type = "Recv"
          /\ Frame("Recv", next_corr, NoVal).corr = next_corr
      BY <1>1, MadeTo
    <3> QED BY <2>2, <3>1, <3>2
  <2> QED BY <2>1, <2>2
<1>4. /\ ReqKey[x] = next_corr /\ RetractKey[x] = 0 /\ RetKey[x] = NoVal
      /\ AskKey[x] = (IF what = "recv" THEN next_corr ELSE 0)
      /\ SendKey[x] = (IF what = "send" THEN v ELSE NoVal)
  BY <1>3, FrameKeys
<1> DEFINE g == Releases \o <<x>>
<1>5. Bears(g, x) BY <1>3, BearsReleases
<1>6. toOwner' = toOwner \o g BY DEF BeginsOp
<1> HIDE DEF g
<1>7. Grown(toOwner, toOwner', x) BY <1>5, <1>6 DEF Grown
<1>8. toOwner' \in Seq(ToFrames) BY <1>0, <1>5, <1>6 DEF ChanT, Bears
<1>9. /\ parked_on_channel' \in [Tasks -> BOOLEAN] /\ parked_on_channel'[t] = TRUE
      /\ \A u \in Tasks \ {t} : parked_on_channel'[u] = parked_on_channel[u]
  BY <1>0 DEF BeginsOp, TaskT
<1>10. /\ op' \in [Tasks -> {"none", "send", "recv"}] /\ op'[t] = what
       /\ \A u \in Tasks \ {t} : op'[u] = op[u]
  BY <1>0 DEF BeginsOp, TaskT
<1>11. /\ opval' \in [Tasks -> Values \cup {NoVal}] /\ opval'[t] = v
       /\ \A u \in Tasks \ {t} : opval'[u] = opval[u]
  BY <1>0, <1>2 DEF BeginsOp, TaskT
<1>12. /\ opend' \in [RemoteTasks -> Endpoints \cup {NoEnd}] /\ opend'[t] = n
       /\ \A u \in RemoteTasks \ {t} : opend'[u] = opend[u]
  BY <1>0 DEF BeginsOp, LinkT
<1>13. /\ opcorr' \in [RemoteTasks -> Nat] /\ opcorr'[t] = next_corr
       /\ \A u \in RemoteTasks \ {t} : opcorr'[u] = opcorr[u]
  BY <1>0, <1>1 DEF BeginsOp, LinkT, Corrs
<1>14. fate' \in [Values -> {"new", "parked", "accepted", "refused", "cancelled"}]
  BY <1>0 DEF BeginsOp, ValT
<1>15. /\ endpoint' \in [Endpoints -> States]
       /\ \A m \in Endpoints : endpoint[m] = "live" => endpoint'[m] = "live"
  <2>1. flush_chan_reap BY DEF BeginsOp
  <2> QED BY <1>0, <2>1, FlushFacts
<1>16. pending' \in SUBSET Pendings
  <2>1. park_epoch[t] \in Nat /\ next_corr \in Nat BY <1>0, <1>1 DEF TaskT, Corrs
  <2>2. [corr |-> next_corr, task |-> t, epoch |-> park_epoch[t]] \in Pendings BY <2>1 DEF Pendings
  <2> QED BY <1>0, <2>2 DEF BeginsOp, LinkT
<1>17. RTypes'
  <2>1. ChanT' BY <1>0, <1>8 DEF BeginsOp, ChanT
  <2>2. TaskT' BY <1>0, <1>9, <1>10, <1>11 DEF BeginsOp, TaskT
  <2>3. ValT' BY <1>0, <1>14 DEF BeginsOp, ValT
  <2>4. \A u \in RemoteTasks : op'[u] # "none" => opcorr'[u] > 0
    <3>1. next_corr > 0 BY <1>1 DEF Corrs
    <3> QED BY <1>0, <1>10, <1>13, <3>1 DEF LinkT, Tasks
  <2>5. next_corr' \in Corrs /\ UNCHANGED <<dead, noticed>> BY <1>1 DEF BeginsOp
  <2>6. LinkT' BY <1>0, <1>12, <1>13, <1>15, <1>16, <2>4, <2>5 DEF LinkT
  <2> QED BY <2>1, <2>2, <2>3, <2>6 DEF RTypes
<1> QED BY <1>2, <1>3, <1>4, <1>7, <1>9, <1>10, <1>11, <1>12, <1>13, <1>15, <1>17 DEF Begun

(* The operation is in its first stage, and no other changed.               *)
LEMMA BeginLink ==
  ASSUME RTypes, UpOK, OneStage, NEW t \in RemoteTasks, NEW n \in Endpoints,
         NEW what \in {"send", "recv"}, NEW v, BeginsOp(t, n, what, v),
         NEW c, c = next_corr, NEW x, x = ReqFrame(what, next_corr, v)
  PROVE  OneStage' /\ PendingOK' /\ OpsOK' /\ UsedOK' /\ CountOK' /\ HeldOK'
<1> DEFINE e == [corr |-> c, task |-> t, epoch |-> park_epoch[t]]
<1>0. ChanT /\ TaskT /\ ValT /\ LinkT /\ t \in Tasks /\ toOwner \in Seq(ToFrames)
  BY DEF RTypes, Tasks, ChanT
<1>1. /\ RTypes' /\ Grown(toOwner, toOwner', x) /\ x \in ToFrames
      /\ ReqKey[x] = c /\ RetractKey[x] = 0
      /\ AskKey[x] = (IF what = "recv" THEN c ELSE 0)
      /\ parked_on_channel'[t] = TRUE /\ op'[t] = what
      /\ opend'[t] = n /\ opcorr'[t] = c
      /\ \A u \in Tasks \ {t} : parked_on_channel'[u] = parked_on_channel[u] /\ op'[u] = op[u]
      /\ \A u \in RemoteTasks \ {t} : opend'[u] = opend[u] /\ opcorr'[u] = opcorr[u]
      /\ \A m \in Endpoints : endpoint[m] = "live" => endpoint'[m] = "live"
  <2>1. Begun(t, n, what, v, x) BY BeginWrites
  <2> QED BY <2>1 DEF Begun
<1>2. /\ c \in Corrs /\ ~Staged(c) /\ ~Has(toOwner, RetractKey, c)
      /\ \A p \in pending : p.corr # c
      /\ \A u \in RemoteTasks : opcorr[u] # c
  BY <1>0, FreshCorr
<1>3. /\ op[t] = "none" /\ endpoint[n] = "live" /\ next_corr' = next_corr + 1 /\ flush_chan_reap
      /\ pending' = pending \cup {e} /\ toOwner' = toOwner \o (Releases \o <<x>>)
      /\ UNCHANGED <<recv_waiters, send_waiters, refs, outbound, wake, park_epoch>>
  BY DEF BeginsOp
<1>4. PendingOK /\ OpsOK /\ UsedOK /\ CountOK /\ HeldOK /\ ParksOK BY DEF UpOK
<1>x. x.type # "Release" BY <1>1, <1>2, FrameKeys DEF Corrs
<1>5. CountOK'
  <2> DEFINE g == Releases \o <<x>>
  <2>1. g \in Seq(ToFrames) /\ RelCount(g, Len(g)) = Cardinality(Reaped)
    BY <1>1, <1>x, BearsReleases DEF Bears
  <2> HIDE DEF g
  <2>2. toOwner' = toOwner \o g BY <1>3 DEF g
  <2> QED BY <1>0, <1>3, <1>4, <2>1, <2>2, CountGrows
<1> HIDE DEF e
<1>6. /\ \A k : k # 0 =>
           /\ Has(toOwner', ReqKey, k) <=> Has(toOwner, ReqKey, k) \/ ReqKey[x] = k
           /\ Has(toOwner', AskKey, k) <=> Has(toOwner, AskKey, k) \/ AskKey[x] = k
           /\ Has(toOwner', RetractKey, k) <=> Has(toOwner, RetractKey, k) \/ RetractKey[x] = k
      /\ Once(toOwner, ReqKey, 0) /\ (ReqKey[x] = 0 \/ ~Has(toOwner, ReqKey, ReqKey[x]))
           => Once(toOwner', ReqKey, 0)
      /\ \A m, k : k \in Corrs /\ Retracted(toOwner, m, k) /\ AskKey[x] # k => Retracted(toOwner', m, k)
  BY <1>0, <1>1, GrownKeys
<1>7. \A k \in Corrs : /\ Has(toOwner', ReqKey, k) <=> Has(toOwner, ReqKey, k) \/ k = c
                       /\ Has(toOwner', AskKey, k) => Has(toOwner, AskKey, k) \/ k = c
                       /\ Has(toOwner', RetractKey, k) <=> Has(toOwner, RetractKey, k)
                       /\ k # c => \A m : Retracted(toOwner, m, k) => Retracted(toOwner', m, k)
  BY <1>1, <1>6 DEF Corrs
<1>8. ~Has(toOwner, ReqKey, c) /\ ~Has(recv_waiters, WaitKey, c) /\ ~Has(send_waiters, WaitKey, c)
        /\ ~Has(outbound, AnsKey, c)
  BY <1>2 DEF Staged, InStage
<1>9. OneStage'
  <2>1. Once(toOwner', ReqKey, 0) BY <1>1, <1>6, <1>8 DEF OneStage, Alone
  <2> QED BY <1>3, <1>7, <1>8, <2>1 DEF OneStage, Alone
<1>10. \A k \in Corrs : Staged(k)' <=> Staged(k) \/ k = c
  BY <1>3, <1>7 DEF Staged, InStage
<1>11. c \in Nat /\ next_corr = c /\ next_corr' = c + 1 /\ e.corr = c /\ \A p \in pending : p.corr \in Nat
  BY <1>0, <1>2, <1>3 DEF e, Corrs, LinkT, Pendings
<1>12. PendingOK'
  <2>1. \A p, r \in pending' : p.corr = r.corr => p = r BY <1>2, <1>3, <1>4, <1>11 DEF PendingOK
  <2>2. \A p \in pending' : p.corr < next_corr' BY <1>3, <1>4, <1>11 DEF PendingOK
  <2>3. \A k \in Corrs : Staged(k)' => \E p \in pending' : p.corr = k
    BY <1>3, <1>4, <1>10, <1>11 DEF PendingOK
  <2> QED BY <2>1, <2>2, <2>3 DEF PendingOK
<1>13. OpOK(t)'
  <2>1. wake[t].kind = "none" BY <1>0, <1>3, <1>4 DEF ParksOK, Parks
  <2>2. Staged(c)' /\ ~Has(toOwner', RetractKey, c) BY <1>2, <1>7, <1>10
  <2>3. [corr |-> opcorr'[t], task |-> t, epoch |-> park_epoch'[t]] \in pending'
    BY <1>1, <1>3 DEF e
  <2>4. InStage(toOwner', recv_waiters', send_waiters', outbound', opcorr'[t])
    BY <1>1, <2>2 DEF Staged
  <2>5. opcorr'[t] < next_corr' /\ ~Has(toOwner', RetractKey, opcorr'[t]) BY <1>1, <1>11, <2>2
  <2>6. op'[t] # "none" /\ wake'[t].kind = "none" BY <1>1, <1>3, <2>1
  <2> QED BY <2>3, <2>4, <2>5, <2>6 DEF OpOK, Staged
<1>14. ASSUME NEW u \in RemoteTasks \ {t} PROVE OpOK(u)'
  <2>1. OpOK(u) /\ u \in Tasks BY <1>4 DEF OpsOK, Tasks
  <2>2. /\ parked_on_channel'[u] = parked_on_channel[u] /\ op'[u] = op[u] /\ opend'[u] = opend[u]
        /\ opcorr'[u] = opcorr[u] /\ wake' = wake /\ park_epoch' = park_epoch
    BY <1>1, <1>3, <2>1
  <2>3. op[u] = "none" => ~parked_on_channel[u] /\ wake[u].kind = "none"
    BY <1>4, <2>1 DEF ParksOK, Parks
  <2>4. op[u] # "none" => opcorr[u] \in Corrs /\ opcorr[u] \in Nat BY <1>0 DEF LinkT, Corrs
  <2>5. CASE op[u] = "none" BY <2>1, <2>2, <2>3, <2>5 DEF OpOK
  <2>6. CASE op[u] # "none"
    <3>1. opcorr[u] # c BY <1>2
    <3>2. InStage(toOwner', recv_waiters', send_waiters', outbound', opcorr'[u]) <=> Staged(opcorr[u])
      <4>1. \A k \in Corrs : k # c => (InStage(toOwner', recv_waiters', send_waiters', outbound', k) <=> Staged(k))
        BY <1>10 DEF Staged
      <4> QED BY <2>2, <2>4, <2>6, <3>1, <4>1
    <3>3. opcorr[u] < next_corr' /\ ~Has(toOwner', RetractKey, opcorr[u])
      BY <1>7, <1>11, <2>1, <2>4, <2>6 DEF OpOK
    <3>4. pending \in SUBSET pending' BY <1>3
    <3> QED BY <2>1, <2>2, <2>6, <3>2, <3>3, <3>4 DEF OpOK, Staged
  <2> QED BY <2>5, <2>6
<1>15. OpsOK'
  <2>1. \A u \in RemoteTasks : OpOK(u)' BY <1>13, <1>14
  <2>2. \A u, w \in RemoteTasks : opcorr'[u] = opcorr'[w] /\ opcorr'[u] # 0 => u = w
    BY <1>1, <1>2, <1>4 DEF OpsOK
  <2>3. \A k \in Corrs : Has(toOwner', RetractKey, k) => k < next_corr'
    BY <1>4, <1>7, <1>11 DEF OpsOK, Corrs
  <2> QED BY <2>1, <2>2, <2>3 DEF OpsOK
<1>16. UsedOK' BY <1>1, <1>3, <1>4 DEF UsedOK, Tasks
<1>17. HeldOK'
  <2> SUFFICES ASSUME NEW k \in Corrs, Wanting(k)'
               PROVE  (\E u \in RemoteTasks : opcorr'[u] = k) \/ Retracted(toOwner', refs', k)
    BY DEF HeldOK
  <2>1. CASE k = c BY <1>1, <2>1
  <2>2. CASE k # c
    <3>1. Wanting(k) BY <1>3, <1>7, <2>2 DEF Wanting, Wants
    <3>2. CASE \E u \in RemoteTasks : opcorr[u] = k
      <4>1. PICK u \in RemoteTasks : opcorr[u] = k BY <3>2
      <4>2. opcorr[t] = 0 BY <1>3, <1>4 DEF OpsOK, OpOK
      <4>3. u # t BY <4>1, <4>2 DEF Corrs
      <4> QED BY <1>1, <4>1, <4>3
    <3> QED BY <1>3, <1>4, <1>7, <2>2, <3>1, <3>2 DEF HeldOK
  <2> QED BY <2>1, <2>2
<1> QED BY <1>5, <1>9, <1>12, <1>15, <1>16, <1>17

(* The value is on its way, and no other moved.                             *)
LEMMA BeginValues ==
  ASSUME RTypes, UpOK, NEW t \in RemoteTasks, NEW n \in Endpoints,
         NEW what \in {"send", "recv"}, NEW v, BeginsOp(t, n, what, v),
         NEW c, c = next_corr, NEW x, x = ReqFrame(what, next_corr, v)
  PROVE  SpotsOK' /\ WayOK' /\ SenderOK' /\ ParksOK' /\ FitsOK'
<1>0. ChanT /\ TaskT /\ ValT /\ LinkT /\ t \in Tasks /\ toOwner \in Seq(ToFrames)
  BY DEF RTypes, Tasks, ChanT
<1>1. /\ Grown(toOwner, toOwner', x) /\ x \in ToFrames /\ x.corr = c
      /\ RetKey[x] = NoVal /\ SendKey[x] = (IF what = "send" THEN v ELSE NoVal)
      /\ parked_on_channel'[t] = TRUE /\ op'[t] = what /\ opval'[t] = v /\ opcorr'[t] = c
      /\ \A u \in Tasks \ {t} : /\ parked_on_channel'[u] = parked_on_channel[u]
                                /\ op'[u] = op[u] /\ opval'[u] = opval[u]
      /\ \A u \in RemoteTasks \ {t} : opcorr'[u] = opcorr[u]
  <2>1. Begun(t, n, what, v, x) BY BeginWrites
  <2> QED BY <2>1 DEF Begun
<1>2. /\ op[t] = "none"
      /\ what = "send" => v \in Values /\ fate[v] = "new" /\ fate' = [fate EXCEPT ![v] = "parked"]
      /\ what = "recv" => v = NoVal /\ fate' = fate
      /\ UNCHANGED <<buffer, send_waiters, outbound, wake, cancel_requested, park_epoch, received, lost>>
  BY DEF BeginsOp
<1>3. WayOK /\ SenderOK /\ ParksOK /\ FitsOK /\ SpotsOK BY DEF UpOK
<1>n. NoVal \notin Values BY ChannelAssumption
<1>4. \A u \in Tasks : TaskStep(u)
  <2>1. GetsParked(t) BY <1>1, <1>2 DEF GetsParked
  <2>2. \A u \in Tasks \ {t} : Untouched(u) BY <1>1, <1>2 DEF Untouched, SameOp
  <2> QED BY <2>1, <2>2 DEF TaskStep
<1>5. ParksOK' BY <1>0, <1>3, <1>4, ParksKept
<1>6. FitsOK'
  <2>1. send_waiters \in Seq(SendEntries) /\ send_waiters' \in Seq(SendEntries)
    BY <1>0, <1>2 DEF ChanT
  <2>2. Part(send_waiters', send_waiters) BY <1>2, <2>1, PartFacts
  <2> QED BY <1>0, <1>3, <1>4, <2>1, <2>2, FitsKept2
<1>7. what = "send" =>
        /\ ~Offered(v) /\ ~Held(v) /\ v \notin lost
        /\ \A u \in Tasks : op[u] = "send" => opval[u] # v
        /\ fate'[v] = "parked" /\ \A u \in Values \ {v} : fate'[u] = fate[u]
        /\ Kept(fate', lost) = Kept(fate, lost)
  <2> SUFFICES ASSUME what = "send" PROVE
        /\ ~Offered(v) /\ ~Held(v) /\ v \notin lost
        /\ \A u \in Tasks : op[u] = "send" => opval[u] # v
        /\ fate'[v] = "parked" /\ \A u \in Values \ {v} : fate'[u] = fate[u]
        /\ Kept(fate', lost) = Kept(fate, lost)
    OBVIOUS
  <2>1. v \in Values /\ fate[v] = "new" /\ fate' = [fate EXCEPT ![v] = "parked"] BY <1>2
  <2>2. /\ ~Offered(v) /\ ~Held(v) /\ v \notin lost /\ v \notin Kept(fate, lost)
        /\ \A u \in Tasks : op[u] = "send" => opval[u] # v
    BY <2>1, NewValue
  <2>3. fate'[v] = "parked" /\ \A u \in Values \ {v} : fate'[u] = fate[u] BY <1>0, <2>1 DEF ValT
  <2>4. Kept(fate', lost) = Kept(fate, lost) BY <2>1, <2>3 DEF Kept
  <2> QED BY <2>2, <2>3, <2>4
<1>8. /\ \A k : k # NoVal =>
           /\ Has(toOwner', SendKey, k) <=> Has(toOwner, SendKey, k) \/ SendKey[x] = k
           /\ Has(toOwner', RetKey, k) <=> Has(toOwner, RetKey, k) \/ RetKey[x] = k
      /\ Once(toOwner, SendKey, NoVal) /\ (SendKey[x] = NoVal \/ ~Has(toOwner, SendKey, SendKey[x]))
           => Once(toOwner', SendKey, NoVal)
      /\ Once(toOwner, RetKey, NoVal) /\ (RetKey[x] = NoVal \/ ~Has(toOwner, RetKey, RetKey[x]))
           => Once(toOwner', RetKey, NoVal)
  BY <1>0, <1>1, GrownKeys
<1>9. SpotsOK'
  <2>1. Kept(fate', lost) = Kept(fate, lost) BY <1>2, <1>7
  <2>2. Same(toOwner, toOwner', RetKey, NoVal) BY <1>1, <1>8 DEF Same
  <2>3. Same(outbound, outbound, ValKey, NoVal) /\ Quiet(wake, wake) BY SameKeys DEF Quiet
  <2>4. Spots(buffer, wake, outbound, toOwner', received, Kept(fate, lost))
    BY <1>3, <2>2, <2>3, SpotsSame DEF SpotsOK
  <2>5. \A u \in lost : fate'[u] = "accepted" BY <1>0, <1>2, <1>3, <1>7 DEF SpotsOK, ValT
  <2> QED BY <1>2, <2>1, <2>4, <2>5 DEF SpotsOK
<1>10. CASE what = "recv"
  <2>1. \A u \in Tasks : \/ op'[u] # "send"
                         \/ op'[u] = op[u] /\ opval'[u] = opval[u]
                              /\ (parked_on_channel'[u] => parked_on_channel[u])
    BY <1>1, <1>10
  <2>2. \A u \in RemoteTasks : op'[u] = "send" => opcorr'[u] = opcorr[u] BY <1>1, <1>10
  <2>3. SendKey[x] = NoVal /\ fate' = fate BY <1>1, <1>2, <1>10
  <2>4. WayOK' /\ SenderOK' BY <1>0, <1>1, <1>2, <1>3, <2>1, <2>2, <2>3, SendsGrow
  <2> QED BY <1>5, <1>6, <1>9, <2>4
<1>11. CASE what = "send"
  <2>0. v \in Values /\ SendKey[x] = v /\ v # NoVal BY <1>1, <1>2, <1>11, <1>n
  <2>1. \A u \in Values : Has(toOwner', SendKey, u) <=> Has(toOwner, SendKey, u) \/ u = v
    BY <1>8, <1>n, <2>0
  <2>2. Once(toOwner', SendKey, NoVal) BY <1>3, <1>7, <1>8, <1>11, <2>0 DEF WayOK, Offered
  <2>3. WayOK'
    <3>1. \A u \in Values : /\ Has(toOwner', SendKey, u) => ~Has(send_waiters', FarKey, u) /\ fate'[u] = "parked"
                            /\ Has(send_waiters', FarKey, u) => fate'[u] = "parked"
      BY <1>2, <1>3, <1>7, <1>11, <2>1 DEF WayOK, Offered, Held
    <3>2. Once(send_waiters', FarKey, NoVal) BY <1>2, <1>3 DEF WayOK
    <3> QED BY <2>2, <3>1, <3>2 DEF WayOK, Offered, Held
  <2>4. \A u \in Tasks \ {t} : op'[u] = "send" => opval'[u] # v /\ opval'[u] \in Values
    BY <1>1, <1>3, <1>7, <1>11 DEF ParksOK, Parks
  <2>5. \A u, w \in Tasks : op'[u] = "send" /\ op'[w] = "send" /\ opval'[u] = opval'[w] => u = w
    BY <1>1, <1>3, <2>4 DEF SenderOK
  <2>6. \A u \in Tasks : op'[u] = "send" => fate'[opval'[u]] # "new"
    BY <1>1, <1>3, <1>7, <1>11, <2>4 DEF SenderOK
  <2>7. ASSUME NEW u \in LocalTasks, op'[u] = "send"
        PROVE  /\ ~Has(toOwner', SendKey, opval'[u]) /\ ~Has(send_waiters', FarKey, opval'[u])
               /\ parked_on_channel'[u] => fate'[opval'[u]] = "parked"
    <3>1. u \in Tasks \ {t} BY ChannelAssumption DEF Tasks
    <3>2. op[u] = "send" /\ opval'[u] = opval[u] /\ opval[u] \in Values /\ opval[u] # v
            /\ parked_on_channel'[u] = parked_on_channel[u]
      BY <1>1, <2>4, <2>7, <3>1
    <3>3. /\ ~Has(toOwner, SendKey, opval[u]) /\ ~Has(send_waiters, FarKey, opval[u])
          /\ parked_on_channel[u] => fate[opval[u]] = "parked"
      BY <1>3, <3>2 DEF SenderOK, Offered, Held
    <3> QED BY <1>2, <1>7, <1>11, <2>1, <3>2, <3>3
  <2>8. \A i \in 1..Len(toOwner') : /\ toOwner'[i] \in ToFrames
                                    /\ \/ \E j \in 1..Len(toOwner) : toOwner'[i] = toOwner[j]
                                       \/ toOwner'[i].type = "Release" \/ toOwner'[i] = x
    BY <1>0, <1>1, GrownFrames
  <2>a. \A f \in ToFrames : f.type = "Release" => SendKey[f] = NoVal BY ReleaseKeys
  <2>9. OfferFits(t)'
    <3>1. \A i \in 1..Len(toOwner') : SendKey[toOwner'[i]] = v => toOwner'[i].corr = c
      BY <1>1, <1>7, <1>11, <2>0, <2>8, <2>a DEF Offered, Has
    <3>2. \A i \in 1..Len(send_waiters) : FarKey[send_waiters[i]] # v BY <1>7, <1>11 DEF Held, Has
    <3> QED BY <1>1, <1>2, <3>1, <3>2 DEF OfferFits
  <2>10. ASSUME NEW u \in RemoteTasks \ {t}, op'[u] = "send" PROVE OfferFits(u)'
    <3>1. u \in Tasks \ {t} BY DEF Tasks
    <3>2. op[u] = "send" /\ opval'[u] = opval[u] /\ opval[u] \in Values /\ opval[u] # v
            /\ opcorr'[u] = opcorr[u] /\ opval[u] # NoVal
      BY <1>1, <1>n, <2>4, <2>10, <3>1
    <3>3. OfferFits(u) BY <1>3, <3>2 DEF SenderOK
    <3>4. \A i \in 1..Len(toOwner') : SendKey[toOwner'[i]] = opval[u] => toOwner'[i].corr = opcorr[u]
      BY <2>0, <2>8, <2>a, <3>2, <3>3 DEF OfferFits
    <3> QED BY <1>2, <3>2, <3>3, <3>4 DEF OfferFits
  <2>11. SenderOK' BY <2>5, <2>6, <2>7, <2>9, <2>10 DEF SenderOK, Offered, Held
  <2> QED BY <1>5, <1>6, <1>9, <2>3, <2>11
<1> QED BY <1>10, <1>11

(* Beginning an operation on an endpoint keeps the invariant.               *)
LEMMA BeginKeeps ==
  ASSUME RInv, NEW t \in RemoteTasks, NEW n \in Endpoints, NEW what \in {"send", "recv"}, NEW v,
         BeginsOp(t, n, what, v)
  PROVE  RInv'
<1>1. dead = "none" /\ dead' = dead BY DEF BeginsOp
<1>2. RTypes /\ UpOK /\ OneStage BY <1>1 DEF RInv
<1> DEFINE c == next_corr
           x == ReqFrame(what, next_corr, v)
<1>3. c = next_corr /\ x = ReqFrame(what, next_corr, v) OBVIOUS
<1> HIDE DEF c, x
<1>4. RTypes'
  <2>1. Begun(t, n, what, v, x) BY <1>2, <1>3, BeginWrites
  <2> QED BY <2>1 DEF Begun
<1>5. OneStage' /\ PendingOK' /\ OpsOK' /\ UsedOK' /\ CountOK' /\ HeldOK'
  BY <1>2, <1>3, BeginLink
<1>6. SpotsOK' /\ WayOK' /\ SenderOK' /\ ParksOK' /\ FitsOK' BY <1>2, <1>3, BeginValues
<1>7. UpOK' BY <1>5, <1>6 DEF UpOK
<1> QED BY <1>1, <1>4, <1>5, <1>7 DEF RInv

(* begin_op when the owner is gone: the operation is registered and parked  *)
(* on, and its frame goes nowhere.                                          *)
LEMMA BeginLateKeeps ==
  ASSUME RInv, dead = "owner", NEW t \in RemoteTasks, NEW n \in Endpoints,
         NEW what \in {"send", "recv"}, NEW v \in Values \cup {NoVal},
         begin_op(t, n, what, v), flush_chan_reap,
         fate' = fate \/ \E u \in Values : fate' = [fate EXCEPT ![u] = "parked"],
         UNCHANGED <<closed, buffer, recv_waiters, send_waiters, cap, refs, outbound, wake,
                     cancel_requested, park_epoch, received, dead, noticed, lost>>
  PROVE  RInv'
<1>0. ChanT /\ TaskT /\ ValT /\ LinkT /\ t \in Tasks BY DEF RInv, RTypes, Tasks
<1>1. /\ toOwner = <<>> /\ toOwner' = toOwner /\ OneStage /\ next_corr' = next_corr + 1
      /\ pending' = pending \cup {[corr |-> next_corr, task |-> t, epoch |-> park_epoch[t]]}
      /\ parked_on_channel' = [parked_on_channel EXCEPT ![t] = TRUE]
      /\ op' = [op EXCEPT ![t] = what] /\ opval' = [opval EXCEPT ![t] = v]
      /\ opend' = [opend EXCEPT ![t] = n] /\ opcorr' = [opcorr EXCEPT ![t] = next_corr]
  BY DEF RInv, begin_op, Emit, OwnerUp, ParkTask
<1>2. next_corr \in Corrs /\ next_corr + 1 \in Corrs /\ next_corr \in Nat /\ next_corr > 0
  BY <1>0 DEF LinkT, Corrs
<1>3. ChanT' BY <1>0, <1>1 DEF ChanT
<1>4. TaskT'
  <2>1. parked_on_channel' \in [Tasks -> BOOLEAN] BY <1>0, <1>1 DEF TaskT
  <2>2. op' \in [Tasks -> {"none", "send", "recv"}] BY <1>0, <1>1 DEF TaskT
  <2>3. opval' \in [Tasks -> Values \cup {NoVal}] BY <1>0, <1>1 DEF TaskT
  <2> QED BY <1>0, <2>1, <2>2, <2>3 DEF TaskT
<1>5. ValT'
  <2>1. fate' \in [Values -> {"new", "parked", "accepted", "refused", "cancelled"}]
    BY <1>0 DEF ValT
  <2> QED BY <1>0, <2>1 DEF ValT
<1>6. LinkT'
  <2>1. pending' \in SUBSET Pendings
    <3>1. park_epoch[t] \in Nat BY <1>0 DEF TaskT
    <3>2. [corr |-> next_corr, task |-> t, epoch |-> park_epoch[t]] \in Pendings
      BY <1>2, <3>1 DEF Pendings
    <3> QED BY <1>0, <1>1, <3>2 DEF LinkT
  <2>2. endpoint' \in [Endpoints -> States] BY <1>0, FlushFacts
  <2>3. opend' \in [RemoteTasks -> Endpoints \cup {NoEnd}] BY <1>0, <1>1 DEF LinkT
  <2>4. /\ opcorr' \in [RemoteTasks -> Nat] /\ opcorr'[t] = next_corr
        /\ \A u \in RemoteTasks \ {t} : opcorr'[u] = opcorr[u]
    BY <1>0, <1>1, <1>2 DEF LinkT
  <2>5. \A u \in RemoteTasks \ {t} : op'[u] = op[u] BY <1>0, <1>1 DEF TaskT, Tasks
  <2>6. \A u \in RemoteTasks : op'[u] # "none" => opcorr'[u] > 0
    BY <1>0, <1>2, <2>4, <2>5 DEF LinkT
  <2>7. next_corr' \in Corrs BY <1>1, <1>2
  <2> QED BY <1>0, <2>1, <2>2, <2>3, <2>4, <2>6, <2>7 DEF LinkT
<1>7. RTypes' BY <1>3, <1>4, <1>5, <1>6 DEF RTypes
<1>8. OneStage' BY <1>1 DEF OneStage
<1> QED BY <1>1, <1>7, <1>8 DEF RInv

(* relay_send and relay_recv.                                               *)
LEMMA RelaySendKeeps ==
  ASSUME RInv, NEW t \in RemoteTasks, NEW n \in Endpoints, NEW v \in Values, relay_send(t, n, v)
  PROVE  RInv'
<1>1. /\ RemoteUp /\ op[t] = "none" /\ endpoint[n] = "live" /\ fate[v] = "new" /\ flush_chan_reap
      /\ UNCHANGED <<closed, buffer, recv_waiters, send_waiters, cap, refs, outbound, wake,
                     cancel_requested, park_epoch, received, dead, noticed, lost>>
  BY DEF relay_send, UsesEndpoint, Idle, chanVars
<1>2. CASE /\ fate' = [fate EXCEPT ![v] = "refused"] /\ Emit(Releases)
           /\ UNCHANGED <<next_corr, pending, opend, opcorr, parked_on_channel, coroVars>>
  <2>1. /\ toOwner' = IF OwnerUp THEN toOwner \o Releases ELSE toOwner
        /\ UNCHANGED <<next_corr, pending, opend, opcorr, parked_on_channel, op, opval>>
        /\ \E u \in Values : fate[u] = "new" /\ fate' = [fate EXCEPT ![u] = "refused"]
    BY <1>1, <1>2 DEF Emit, coroVars
  <2> QED BY <1>1, <2>1, RelayRaisesKeeps
<1>3. CASE begin_op_fails /\ fate' = [fate EXCEPT ![v] = "refused"]
  <2>1. /\ toOwner' = IF OwnerUp THEN toOwner \o Releases ELSE toOwner
        /\ UNCHANGED <<next_corr, pending, opend, opcorr, parked_on_channel, op, opval>>
        /\ \E u \in Values : fate[u] = "new" /\ fate' = [fate EXCEPT ![u] = "refused"]
    BY <1>1, <1>3 DEF begin_op_fails, Emit, coroVars
  <2> QED BY <1>1, <2>1, RelayRaisesKeeps
<1>4. CASE begin_op(t, n, "send", v) /\ fate' = [fate EXCEPT ![v] = "parked"]
  <2>1. dead \in {"none", "owner"} BY <1>1 DEF RemoteUp, RInv, RTypes, LinkT
  <2>2. CASE dead = "none"
    <3>1. BeginsOp(t, n, "send", v)
      BY <1>1, <1>4, <2>2 DEF begin_op, BeginsOp, Emit, OwnerUp, ParkTask, ReqFrame
    <3> QED BY <3>1, BeginKeeps
  <2>3. CASE dead = "owner"
    <3> DEFINE what == "send"
    <3>1. /\ what \in {"send", "recv"} /\ begin_op(t, n, what, v) /\ v \in Values \cup {NoVal}
          /\ fate' = fate \/ \E u \in Values : fate' = [fate EXCEPT ![u] = "parked"]
      BY <1>1, <1>4
    <3> HIDE DEF what
    <3> QED BY <1>1, <2>3, <3>1, BeginLateKeeps
  <2> QED BY <2>1, <2>2, <2>3
<1> QED BY <1>2, <1>3, <1>4 DEF relay_send

(* A receive on an endpoint keeps the invariant.                            *)
LEMMA RelayRecvKeeps ==
  ASSUME RInv, NEW t \in RemoteTasks, NEW n \in Endpoints, relay_recv(t, n)
  PROVE  RInv'
<1>1. /\ RemoteUp /\ op[t] = "none" /\ endpoint[n] = "live" /\ flush_chan_reap
      /\ UNCHANGED <<closed, buffer, recv_waiters, send_waiters, cap, refs, outbound, wake,
                     cancel_requested, park_epoch, fate, received, dead, noticed, lost>>
  BY DEF relay_recv, UsesEndpoint, Idle, chanVars
<1>2. CASE begin_op_fails
  <2>1. /\ toOwner' = IF OwnerUp THEN toOwner \o Releases ELSE toOwner
        /\ UNCHANGED <<next_corr, pending, opend, opcorr, parked_on_channel, op, opval>>
    BY <1>1, <1>2 DEF begin_op_fails, Emit, coroVars
  <2> QED BY <1>1, <2>1, RelayRaisesKeeps
<1>3. CASE begin_op(t, n, "recv", NoVal)
  <2>1. dead \in {"none", "owner"} BY <1>1 DEF RemoteUp, RInv, RTypes, LinkT
  <2>2. CASE dead = "none"
    <3>1. BeginsOp(t, n, "recv", NoVal)
      BY <1>1, <1>3, <2>2 DEF begin_op, BeginsOp, Emit, OwnerUp, ParkTask, ReqFrame
    <3> QED BY <3>1, BeginKeeps
  <2>3. CASE dead = "owner"
    <3> DEFINE what == "recv"
    <3>1. /\ what \in {"send", "recv"} /\ begin_op(t, n, what, NoVal) /\ NoVal \in Values \cup {NoVal}
          /\ fate' = fate \/ \E u \in Values : fate' = [fate EXCEPT ![u] = "parked"]
      BY <1>1, <1>3
    <3> HIDE DEF what
    <3> QED BY <1>1, <2>3, <3>1, BeginLateKeeps
  <2> QED BY <2>1, <2>2, <2>3
<1> QED BY <1>2, <1>3 DEF relay_recv

(* RelayResume: the operation of t ends, and x, with no release, goes out.  *)
FarResumes(t, c, g, x) ==
  /\ RemoteUp /\ op[t] # "none" /\ ~parked_on_channel[t] /\ c = opcorr[t]
  /\ op'[t] = "none" /\ opval'[t] = NoVal /\ park_epoch'[t] = park_epoch[t] + 1
  /\ wake'[t] = NoWake /\ cancel_requested'[t] = FALSE
  /\ \A u \in Tasks \ {t} : /\ SameOp(u) /\ wake'[u] = wake[u]
                            /\ cancel_requested'[u] = cancel_requested[u]
  /\ opend'[t] = NoEnd /\ opcorr'[t] = 0
  /\ \A u \in RemoteTasks \ {t} : opend'[u] = opend[u] /\ opcorr'[u] = opcorr[u]
  /\ Bears(g, x) /\ RelCount(g, Len(g)) = 0
  /\ toOwner' = IF OwnerUp THEN toOwner \o g ELSE toOwner
  /\ x.type \in {"Release", "Return", "Cancel"}
  /\ x.type = "Cancel" => x = Frame("Cancel", c, NoVal) /\ g = <<x>>
  /\ dead = "none" /\ x.type # "Cancel" => wake[t].kind # "none"
  /\ UNCHANGED <<closed, buffer, recv_waiters, send_waiters, cap, refs, outbound,
                 parked_on_channel, next_corr, pending, endpoint, dead, noticed, lost>>

(* The keys of what a resumed task puts on the lane.                        *)
LEMMA FarKeys ==
  ASSUME LinkT, NEW t \in RemoteTasks, NEW c, NEW g, NEW x, FarResumes(t, c, g, x)
  PROVE  /\ x \in ToFrames /\ c \in Corrs /\ ReqKey[x] = 0 /\ AskKey[x] = 0 /\ SendKey[x] = NoVal
         /\ RetractKey[x] = (IF x.type = "Cancel" THEN c ELSE 0)
         /\ RetKey[x] = (IF x.type = "Return" THEN x.val ELSE NoVal)
<1>1. c \in Corrs BY DEF FarResumes, LinkT, Corrs
<1>2. x \in ToFrames BY DEF FarResumes, Bears
<1>3. x.type = "Cancel" => x.corr = c
  <2>1. Frame("Cancel", c, NoVal).corr = c BY <1>1, MadeTo
  <2> QED BY <2>1 DEF FarResumes
<1>4. x.type \in {"Release", "Return", "Cancel"} BY DEF FarResumes
<1> QED BY <1>1, <1>2, <1>3, <1>4, FrameKeys

(* A resumed task leaves its operation, retracting it when unanswered.      *)
LEMMA ResumeLink ==
  ASSUME RTypes, UpOK, OneStage, dead = "none", NEW t \in RemoteTasks, NEW c, NEW g, NEW x,
         FarResumes(t, c, g, x)
  PROVE  OneStage' /\ PendingOK' /\ OpsOK' /\ UsedOK' /\ CountOK' /\ HeldOK'
<1>0. /\ ChanT /\ TaskT /\ ValT /\ LinkT /\ t \in Tasks /\ toOwner \in Seq(ToFrames)
      /\ g \in Seq(ToFrames) /\ refs \in Nat
  BY DEF RTypes, Tasks, ChanT, FarResumes, Bears
<1>1. /\ x \in ToFrames /\ c \in Corrs /\ ReqKey[x] = 0 /\ AskKey[x] = 0
      /\ RetractKey[x] = (IF x.type = "Cancel" THEN c ELSE 0)
  BY <1>0, FarKeys
<1>2. toOwner' = toOwner \o g BY DEF FarResumes, OwnerUp
<1>3. Grown(toOwner, toOwner', x) BY <1>2 DEF Grown, FarResumes
<1>4. PendingOK /\ OpsOK /\ UsedOK /\ CountOK /\ HeldOK /\ ParksOK BY DEF UpOK
<1>5. UNCHANGED <<recv_waiters, send_waiters, outbound, refs, parked_on_channel, next_corr,
                  pending, endpoint>>
  BY DEF FarResumes
<1>6. CountOK'
  <2>1. RelCount(g, Len(g)) = 0 BY DEF FarResumes
  <2> QED BY <1>0, <1>2, <1>4, <1>5, <2>1, CountGrows
<1>7. /\ \A k : k # 0 =>
           /\ Has(toOwner', ReqKey, k) <=> Has(toOwner, ReqKey, k) \/ ReqKey[x] = k
           /\ Has(toOwner', AskKey, k) <=> Has(toOwner, AskKey, k) \/ AskKey[x] = k
           /\ Has(toOwner', RetractKey, k) <=> Has(toOwner, RetractKey, k) \/ RetractKey[x] = k
      /\ Once(toOwner, ReqKey, 0) /\ (ReqKey[x] = 0 \/ ~Has(toOwner, ReqKey, ReqKey[x]))
           => Once(toOwner', ReqKey, 0)
      /\ \A m, k : k \in Corrs /\ Retracted(toOwner, m, k) /\ AskKey[x] # k => Retracted(toOwner', m, k)
  BY <1>0, <1>3, GrownKeys
<1>8. \A k \in Corrs : /\ Has(toOwner', ReqKey, k) <=> Has(toOwner, ReqKey, k)
                       /\ Has(toOwner', AskKey, k) <=> Has(toOwner, AskKey, k)
                       /\ Has(toOwner', RetractKey, k) => Has(toOwner, RetractKey, k) \/ k = c
                       /\ \A m : Retracted(toOwner, m, k) => Retracted(toOwner', m, k)
  BY <1>1, <1>7 DEF Corrs
<1>9. OneStage' BY <1>1, <1>5, <1>7, <1>8 DEF OneStage, Alone
<1>10. \A k \in Corrs : Staged(k)' <=> Staged(k) BY <1>5, <1>8 DEF Staged, InStage
<1>11. PendingOK' BY <1>4, <1>5, <1>10 DEF PendingOK
<1>12. OpOK(t)'
  BY <1>5 DEF OpOK, FarResumes, NoWake, Wake
<1>13. ASSUME NEW u \in RemoteTasks \ {t} PROVE OpOK(u)'
  <2>1. OpOK(u) /\ u \in Tasks \ {t} BY <1>4 DEF OpsOK, Tasks
  <2>2. /\ op'[u] = op[u] /\ opend'[u] = opend[u] /\ opcorr'[u] = opcorr[u] /\ wake'[u] = wake[u]
        /\ park_epoch'[u] = park_epoch[u]
    BY <2>1 DEF FarResumes, SameOp
  <2>3. op[u] = "none" => ~parked_on_channel[u] /\ wake[u].kind = "none"
    BY <1>4, <2>1 DEF ParksOK, Parks
  <2>4. op[u] # "none" => opcorr[u] \in Corrs /\ opcorr[u] # 0 BY <1>0 DEF LinkT, Corrs
  <2>5. CASE op[u] = "none" BY <1>5, <2>1, <2>2, <2>3, <2>5 DEF OpOK
  <2>6. CASE op[u] # "none"
    <3>1. opcorr[u] # c BY <1>4, <2>4, <2>6 DEF OpsOK, FarResumes
    <3>2. InStage(toOwner', recv_waiters', send_waiters', outbound', opcorr'[u]) <=> Staged(opcorr[u])
      <4>1. \A k \in Corrs : InStage(toOwner', recv_waiters', send_waiters', outbound', k) <=> Staged(k)
        BY <1>10 DEF Staged
      <4> QED BY <2>2, <2>4, <2>6, <4>1
    <3>3. ~Has(toOwner', RetractKey, opcorr[u]) BY <1>8, <2>1, <2>4, <2>6, <3>1 DEF OpOK
    <3> QED BY <1>5, <2>1, <2>2, <2>6, <3>2, <3>3 DEF OpOK, Staged
  <2> QED BY <2>5, <2>6
<1>14. OpsOK'
  <2>1. \A u \in RemoteTasks : OpOK(u)' BY <1>12, <1>13
  <2>2. \A u, w \in RemoteTasks : opcorr'[u] = opcorr'[w] /\ opcorr'[u] # 0 => u = w
    BY <1>4 DEF OpsOK, FarResumes
  <2>3. c < next_corr
    <3>1. OpOK(t) /\ op[t] # "none" /\ c = opcorr[t] BY <1>4 DEF OpsOK, FarResumes
    <3> QED BY <3>1 DEF OpOK
  <2>4. \A k \in Corrs : Has(toOwner', RetractKey, k) => k < next_corr'
    BY <1>4, <1>5, <1>8, <2>3 DEF OpsOK
  <2> QED BY <2>1, <2>2, <2>4 DEF OpsOK
<1>15. UsedOK'
  <2>1. \A u \in RemoteTasks : op'[u] # "none" => op[u] # "none" /\ opend'[u] = opend[u]
    BY DEF FarResumes, SameOp, Tasks
  <2> QED BY <1>4, <1>5, <2>1 DEF UsedOK
<1>16. Wanting(c) => Retracted(toOwner', refs, c)
  <2> SUFFICES ASSUME Wanting(c) PROVE Retracted(toOwner', refs, c) OBVIOUS
  <2>1. Staged(c)
    <3>1. Has(toOwner, AskKey, c) => Has(toOwner, ReqKey, c)
      <4>1. \A i \in 1..Len(toOwner) : toOwner[i] \in ToFrames BY <1>0
      <4>2. \A f \in ToFrames : AskKey[f] = c => ReqKey[f] = c BY <1>1, FrameKeys DEF Corrs
      <4> QED BY <4>1, <4>2 DEF Has
    <3> QED BY <3>1 DEF Wanting, Wants, Staged, InStage
  <2>2. wake[t].kind = "none"
    <3>1. OpOK(t) /\ c = opcorr[t] BY <1>4 DEF OpsOK, FarResumes
    <3> QED BY <2>1, <3>1 DEF OpOK
  <2>3. toOwner' = toOwner \o <<Frame("Cancel", c, NoVal)>>
    BY <1>2, <2>2 DEF FarResumes
  <2>4. RelCount(toOwner, Len(toOwner)) < refs
    <3>1. opend[t] \in Alive BY <1>4 DEF UsedOK, FarResumes, Alive
    <3>2. IsFiniteSet(Alive) /\ Cardinality(Alive) \in Nat BY AliveCount
    <3>3. Cardinality(Alive) # 0 BY <3>1, <3>2, FS_EmptySet
    <3>4. RelCount(toOwner, Len(toOwner)) \in Nat
      <4>1. Len(toOwner) \in Nat BY <1>0
      <4> QED BY <4>1, RelFinite
    <3>5. refs = Cardinality(Alive) + RelCount(toOwner, Len(toOwner)) BY <1>4 DEF CountOK
    <3> QED BY <3>2, <3>3, <3>4, <3>5
  <2>5. Retracted(toOwner \o <<Frame("Cancel", c, NoVal)>>, refs, c)
    BY <1>0, <1>1, <2>4, RetractAdded
  <2> QED BY <2>3, <2>5
<1>17. HeldOK'
  <2> SUFFICES ASSUME NEW k \in Corrs, Wanting(k)'
               PROVE  (\E u \in RemoteTasks : opcorr'[u] = k) \/ Retracted(toOwner', refs', k)
    BY DEF HeldOK
  <2>1. Wanting(k) BY <1>5, <1>8 DEF Wanting, Wants
  <2>2. CASE k = c BY <1>5, <1>16, <2>1, <2>2
  <2>3. CASE k # c
    <3>1. CASE \E u \in RemoteTasks : opcorr[u] = k
      <4>1. PICK u \in RemoteTasks : opcorr[u] = k BY <3>1
      <4>2. u # t BY <2>3, <4>1 DEF FarResumes
      <4>3. opcorr'[u] = k BY <4>1, <4>2 DEF FarResumes
      <4> QED BY <4>3
    <3> QED BY <1>4, <1>5, <1>8, <2>1, <3>1 DEF HeldOK
  <2> QED BY <2>2, <2>3
<1> QED BY <1>6, <1>9, <1>11, <1>14, <1>15, <1>17

(* A task that was answered has no frame nor entry left, nor its value.     *)
LEMMA AnsweredSender ==
  ASSUME RTypes, UpOK, NEW t \in RemoteTasks, op[t] # "none", wake[t].kind # "none",
         NEW v \in Values, opval[t] = v
  PROVE  /\ ~Offered(v) /\ ~Held(v) /\ op[t] = "send"
         /\ \A u \in Tasks : op[u] = "send" /\ opval[u] = v => u = t
<1>0. ChanT /\ t \in Tasks /\ toOwner \in Seq(ToFrames) /\ send_waiters \in Seq(SendEntries)
  BY DEF RTypes, Tasks, ChanT
<1>1. ParksOK /\ SenderOK /\ OpsOK BY DEF UpOK
<1>n. NoVal \notin Values BY ChannelAssumption
<1>2. op[t] = "send" BY <1>0, <1>1, <1>n DEF ParksOK, Parks
<1>3. OfferFits(t) /\ \A u \in Tasks : op[u] = "send" /\ opval[u] = v => u = t
  BY <1>0, <1>1, <1>2 DEF SenderOK
<1> DEFINE c == opcorr[t]
<1>4. ~Staged(c) BY <1>1 DEF OpsOK, OpOK
<1> HIDE DEF c
<1>5. ~Offered(v)
  <2> SUFFICES ASSUME Offered(v) PROVE FALSE OBVIOUS
  <2>1. PICK i \in 1..Len(toOwner) : SendKey[toOwner[i]] = v BY DEF Offered, Has
  <2>2. toOwner[i].corr = c /\ toOwner[i] \in ToFrames BY <1>0, <1>3, <2>1 DEF OfferFits, c
  <2>3. toOwner[i].type = "Send" BY <1>n, <2>1, <2>2, FrameKeys
  <2>4. ReqKey[toOwner[i]] = c BY <2>2, <2>3, FrameKeys
  <2> QED BY <1>4, <2>4 DEF Staged, InStage, Has
<1>6. ~Held(v)
  <2> SUFFICES ASSUME Held(v) PROVE FALSE OBVIOUS
  <2>1. PICK i \in 1..Len(send_waiters) : FarKey[send_waiters[i]] = v BY DEF Held, Has
  <2>2. send_waiters[i].id = c /\ send_waiters[i] \in SendEntries
    BY <1>0, <1>3, <2>1 DEF OfferFits, c
  <2>3. send_waiters[i] \in Entries BY <2>2, EntryKeys
  <2>4. send_waiters[i].remote BY <1>n, <2>1, <2>3, EntryKeys
  <2>5. WaitKey[send_waiters[i]] = c BY <2>2, <2>3, <2>4, EntryKeys
  <2> QED BY <1>4, <2>5 DEF Staged, InStage, Has
<1> QED BY <1>2, <1>3, <1>5, <1>6

(* What a resumed task of the endpoint side has to show.                    *)
LEMMA FarResumeKeeps ==
  ASSUME RInv, NEW t \in RemoteTasks, NEW c, NEW g, NEW x, FarResumes(t, c, g, x),
         TaskT', ValT', LinkT', dead = "none" => SpotsOK',
         \A v \in Values : \/ fate'[v] = fate[v]
                           \/ /\ v = opval[t] /\ fate'[v] # "new"
                              /\ dead = "none" => wake[t].kind # "none"
  PROVE  RInv'
<1>0. RTypes /\ ChanT /\ TaskT /\ ValT /\ LinkT /\ t \in Tasks BY DEF RInv, RTypes, Tasks
<1>1. toOwner \in Seq(ToFrames) /\ g \in Seq(ToFrames) BY <1>0 DEF ChanT, FarResumes, Bears
<1>2. toOwner' \in Seq(ToFrames)
  BY <1>1 DEF FarResumes
<1>3. ChanT' BY <1>0, <1>2 DEF ChanT, FarResumes
<1>4. RTypes' BY <1>3 DEF RTypes
<1>5. CASE dead = "owner"
  <2>1. toOwner' = toOwner /\ toOwner = <<>> /\ dead' = dead
          /\ UNCHANGED <<recv_waiters, send_waiters, outbound>>
    BY <1>5 DEF OwnerUp, RInv, FarResumes
  <2>2. OneStage' BY <1>5, <2>1 DEF RInv, OneStage
  <2> QED BY <1>4, <1>5, <2>1, <2>2 DEF RInv
<1>6. CASE dead = "none"
  <2>1. UpOK /\ OneStage BY <1>6 DEF RInv
  <2>2. OneStage' /\ PendingOK' /\ OpsOK' /\ UsedOK' /\ CountOK' /\ HeldOK'
    BY <1>0, <1>6, <2>1, ResumeLink
  <2>3. WayOK /\ SenderOK /\ ParksOK /\ FitsOK BY <2>1 DEF UpOK
  <2>4. \A u \in Tasks : TaskStep(u)
    <3>1. Returns(t) BY DEF Returns, FarResumes, NoWake, Wake
    <3>2. \A u \in Tasks \ {t} : Untouched(u) BY DEF Untouched, FarResumes
    <3> QED BY <3>1, <3>2 DEF TaskStep
  <2>5. ParksOK' BY <1>0, <2>3, <2>4, ParksKept
  <2>6. FitsOK'
    <3>1. send_waiters \in Seq(SendEntries) /\ send_waiters' = send_waiters
      BY <1>0 DEF ChanT, FarResumes
    <3>2. Part(send_waiters', send_waiters) BY <3>1, PartFacts
    <3> QED BY <1>0, <2>3, <2>4, <3>1, <3>2, FitsKept2
  <2>7. WayOK' /\ SenderOK'
    <3>1. Grown(toOwner, toOwner', x) BY <1>6 DEF Grown, FarResumes, OwnerUp
    <3>2. SendKey[x] = NoVal BY <1>0, FarKeys
    <3>3. \A u \in Tasks : \/ op'[u] # "send"
                           \/ op'[u] = op[u] /\ opval'[u] = opval[u]
                                /\ (parked_on_channel'[u] => parked_on_channel[u])
      BY DEF FarResumes, SameOp
    <3>4. \A u \in RemoteTasks : op'[u] = "send" => opcorr'[u] = opcorr[u] BY DEF FarResumes
    <3>5. op[t] # "none" /\ send_waiters' = send_waiters /\ op'[t] = "none"
            /\ \A u \in Tasks \ {t} : SameOp(u)
      BY DEF FarResumes
    <3>6. ASSUME NEW v \in Values, fate'[v] # fate[v]
          PROVE  /\ fate'[v] # "new" /\ ~Offered(v) /\ ~Held(v)
                 /\ \A u \in LocalTasks : op'[u] = "send" /\ opval'[u] = v => ~parked_on_channel'[u]
      <4>1. v = opval[t] /\ wake[t].kind # "none" /\ fate'[v] # "new" BY <1>6, <3>6
      <4>2. /\ ~Offered(v) /\ ~Held(v)
            /\ \A u \in Tasks : op[u] = "send" /\ opval[u] = v => u = t
        BY <1>0, <2>1, <3>5, <4>1, AnsweredSender
      <4> QED BY <3>5, <4>1, <4>2 DEF SameOp, Tasks
    <3> QED BY <1>0, <2>3, <3>1, <3>2, <3>3, <3>4, <3>5, <3>6, SendsGrow
  <2>8. UpOK' BY <1>6, <2>2, <2>5, <2>6, <2>7 DEF UpOK
  <2>9. dead' = dead BY DEF FarResumes
  <2> QED BY <1>4, <1>6, <2>2, <2>8, <2>9 DEF RInv
<1>7. RemoteUp BY DEF FarResumes
<1> QED BY <1>0, <1>5, <1>6, <1>7 DEF LinkT, RemoteUp

(* What RelayResume does whichever way it ends.                             *)
LEMMA ResumeWrites ==
  ASSUME RTypes, NEW t \in RemoteTasks, RelayResume(t)
  PROVE  /\ RemoteUp /\ op[t] # "none" /\ ~parked_on_channel[t]
         /\ op'[t] = "none" /\ opval'[t] = NoVal /\ park_epoch'[t] = park_epoch[t] + 1
         /\ wake'[t] = NoWake /\ cancel_requested'[t] = FALSE
         /\ \A u \in Tasks \ {t} : /\ SameOp(u) /\ wake'[u] = wake[u]
                                   /\ cancel_requested'[u] = cancel_requested[u]
         /\ opend'[t] = NoEnd /\ opcorr'[t] = 0
         /\ \A u \in RemoteTasks \ {t} : opend'[u] = opend[u] /\ opcorr'[u] = opcorr[u]
         /\ TaskT' /\ LinkT'
         /\ UNCHANGED <<closed, buffer, recv_waiters, send_waiters, cap, refs, outbound,
                        parked_on_channel, next_corr, pending, endpoint, dead, noticed, lost>>
<1>0. ChanT /\ TaskT /\ ValT /\ LinkT /\ t \in Tasks BY DEF RTypes, Tasks
<1>1. /\ RemoteUp /\ Resumes(t)
      /\ opend' = [opend EXCEPT ![t] = NoEnd] /\ opcorr' = [opcorr EXCEPT ![t] = 0]
      /\ cancel_requested' = [cancel_requested EXCEPT ![t] = FALSE] /\ wake' = Woken(t)
      /\ UNCHANGED <<closed, buffer, recv_waiters, send_waiters, cap, refs, outbound,
                     parked_on_channel, next_corr, pending, endpoint, dead, noticed, lost>>
  BY DEF RelayResume, chanVars
<1>2. /\ op[t] # "none" /\ ~parked_on_channel[t]
      /\ op'[t] = "none" /\ opval'[t] = NoVal /\ park_epoch'[t] = park_epoch[t] + 1
      /\ \A u \in Tasks \ {t} : SameOp(u)
      /\ op' \in [Tasks -> {"none", "send", "recv"}] /\ opval' \in [Tasks -> Values \cup {NoVal}]
      /\ park_epoch' \in [Tasks -> Nat]
      /\ wake' \in [Tasks -> RWakes] /\ wake'[t] = NoWake /\ \A u \in Tasks \ {t} : wake'[u] = wake[u]
  BY <1>0, <1>1, ResumeStep
<1>3. /\ cancel_requested' \in [Tasks -> BOOLEAN] /\ cancel_requested'[t] = FALSE
      /\ \A u \in Tasks \ {t} : cancel_requested'[u] = cancel_requested[u]
  BY <1>0, <1>1 DEF TaskT
<1>4. /\ opend' \in [RemoteTasks -> Endpoints \cup {NoEnd}] /\ opend'[t] = NoEnd
      /\ \A u \in RemoteTasks \ {t} : opend'[u] = opend[u]
  BY <1>0, <1>1 DEF LinkT
<1>5. /\ opcorr' \in [RemoteTasks -> Nat] /\ opcorr'[t] = 0
      /\ \A u \in RemoteTasks \ {t} : opcorr'[u] = opcorr[u]
  BY <1>0, <1>1 DEF LinkT
<1>6. TaskT' BY <1>0, <1>1, <1>2, <1>3 DEF TaskT
<1>7. \A u \in RemoteTasks : op'[u] # "none" => opcorr'[u] > 0
  BY <1>0, <1>2, <1>5 DEF LinkT, SameOp, Tasks
<1>8. LinkT' BY <1>0, <1>1, <1>4, <1>5, <1>7 DEF LinkT
<1> QED BY <1>1, <1>2, <1>3, <1>4, <1>5, <1>6, <1>8

(* Cancelled: a value in hand goes home, an unanswered operation is         *)
(* retracted.                                                               *)
LEMMA FarCancelledKeeps ==
  ASSUME RInv, NEW t \in RemoteTasks, RelayResume(t), NEW g,
         g = (CASE wake[t].kind = "SendOk" -> <<>>
                [] wake[t].kind = "Recv" -> <<Frame("Return", 0, wake[t].val)>>
                [] OTHER -> <<Frame("Cancel", opcorr[t], NoVal)>>),
         toOwner' = IF OwnerUp THEN toOwner \o g ELSE toOwner,
         UNCHANGED <<fate, received>>
  PROVE  RInv'
<1>0. RTypes /\ ChanT /\ TaskT /\ ValT /\ LinkT /\ t \in Tasks BY DEF RInv, RTypes, Tasks
<1> DEFINE c == opcorr[t]
           v == wake[t].val
           x == CASE wake[t].kind = "SendOk" -> ReleaseFrame
                  [] wake[t].kind = "Recv" -> Frame("Return", 0, v)
                  [] OTHER -> Frame("Cancel", c, NoVal)
<1>1. /\ RemoteUp /\ op[t] # "none" /\ ~parked_on_channel[t]
      /\ op'[t] = "none" /\ opval'[t] = NoVal /\ park_epoch'[t] = park_epoch[t] + 1
      /\ wake'[t] = NoWake /\ cancel_requested'[t] = FALSE
      /\ \A u \in Tasks \ {t} : /\ SameOp(u) /\ wake'[u] = wake[u]
                                /\ cancel_requested'[u] = cancel_requested[u]
      /\ opend'[t] = NoEnd /\ opcorr'[t] = 0
      /\ \A u \in RemoteTasks \ {t} : opend'[u] = opend[u] /\ opcorr'[u] = opcorr[u]
      /\ TaskT' /\ LinkT'
      /\ UNCHANGED <<closed, buffer, recv_waiters, send_waiters, cap, refs, outbound,
                     parked_on_channel, next_corr, pending, endpoint, dead, noticed, lost>>
  BY <1>0, ResumeWrites
<1>2. c \in Corrs BY <1>0, <1>1 DEF LinkT, Corrs
<1>3. wake[t] \in RWakes /\ (wake[t].kind = "Recv" => v \in Values) BY <1>0 DEF TaskT, RWakes
<1>4. /\ Bears(g, x) /\ RelCount(g, Len(g)) = 0 /\ x \in ToFrames
      /\ x.type \in {"Release", "Return", "Cancel"}
      /\ x.type = "Cancel" => x = Frame("Cancel", c, NoVal) /\ g = <<x>>
      /\ x.type # "Cancel" => wake[t].kind # "none"
      /\ wake[t].kind = "Recv" => x.type = "Return" /\ x.val = v /\ g = <<x>>
      /\ wake[t].kind # "Recv" => x.type # "Return"
  <2>1. CASE wake[t].kind = "SendOk"
    <3> DEFINE y == Frame("Close", 0, NoVal)
    <3>0. y \in ToFrames /\ y.type = "Close" /\ ReleaseFrame \in ToFrames /\ ReleaseFrame.type = "Release"
      BY MadeTo
    <3>1. g = <<>> /\ x = ReleaseFrame BY <2>1
    <3> HIDE DEF y, x
    <3>2. Bears(<<>>, ReleaseFrame) /\ RelCount(<<>>, Len(<<>>)) = 0 BY <3>0, BearsReleases
    <3> QED BY <2>1, <3>0, <3>1, <3>2
  <2>2. CASE wake[t].kind = "Recv"
    <3>0. g = <<x>> /\ x = Frame("Return", 0, v) BY <2>2
    <3>1. x \in ToFrames /\ x.type = "Return" /\ x.val = v
      <4>1. v \in Values BY <1>3, <2>2
      <4> HIDE DEF v, x
      <4> QED BY <3>0, <4>1, MadeTo
    <3> HIDE DEF x
    <3>2. Bears(<<x>>, x) /\ RelCount(<<x>>, Len(<<x>>)) = 0 BY <3>1, BearsReleases
    <3> QED BY <2>2, <3>0, <3>1, <3>2
  <2>3. CASE wake[t].kind # "SendOk" /\ wake[t].kind # "Recv"
    <3>0. g = <<x>> /\ x = Frame("Cancel", c, NoVal) BY <2>3
    <3> HIDE DEF x, c
    <3>1. x \in ToFrames /\ x.type = "Cancel" BY <1>2, <3>0, MadeTo
    <3>2. Bears(<<x>>, x) /\ RelCount(<<x>>, Len(<<x>>)) = 0 BY <3>1, BearsReleases
    <3> QED BY <2>3, <3>0, <3>1, <3>2
  <2> QED BY <2>1, <2>2, <2>3
<1>5. c = opcorr[t] OBVIOUS
<1> HIDE DEF x, c
<1>6. FarResumes(t, c, g, x) BY <1>1, <1>4, <1>5 DEF FarResumes
<1>7. ValT' BY <1>0, <1>1 DEF ValT
<1>8. ASSUME dead = "none" PROVE SpotsOK'
  <2>1. SpotsOK /\ toOwner \in Seq(ToFrames) BY <1>0, <1>8 DEF RInv, UpOK, ChanT
  <2>2. toOwner' = toOwner \o g BY <1>8 DEF OwnerUp
  <2> DEFINE acc == Kept(fate, lost)
  <2>3. Spots(buffer, wake, outbound, toOwner, received, acc) BY <2>1 DEF SpotsOK
  <2> HIDE DEF acc, v
  <2>4. Spots(buffer, wake', outbound, toOwner', received, acc)
    <3>1. CASE wake[t].kind = "Recv"
      <4>1. v \in Values /\ v = wake[t].val BY <1>3, <3>1 DEF v
      <4>2. wake'[t].kind # "Recv" BY <1>1 DEF NoWake, Wake
      <4>3. wake[t].val \in acc /\ Spots(buffer, wake', outbound, toOwner, received, acc \ {wake[t].val})
        BY <1>0, <1>1, <2>3, <3>1, <4>1, <4>2, TakeWake
      <4>4. x \in ToFrames /\ x.type = "Return" /\ x.val = v BY <1>4, <3>1
      <4>5. Spots(buffer, wake', outbound, Append(toOwner, x), received, (acc \ {v}) \cup {x.val})
        <5>1. Spots(buffer, wake', outbound, toOwner, received, acc \ {v}) BY <4>1, <4>3
        <5>2. x.val \notin acc \ {v} BY <4>4
        <5> QED BY <2>1, <4>4, <5>1, <5>2, PutReturn
      <4>6. (acc \ {v}) \cup {x.val} = acc BY <4>1, <4>3, <4>4
      <4>7. toOwner' = Append(toOwner, x)
        <5>1. g = <<x>> BY <1>4, <3>1
        <5>2. toOwner \o <<x>> = Append(toOwner, x) BY <2>1, <4>4, JoinFrames
        <5> QED BY <2>2, <5>1, <5>2
      <4> QED BY <4>5, <4>6, <4>7
    <3>2. CASE wake[t].kind # "Recv"
      <4>1. Quiet(wake, wake') BY <1>1, <3>2 DEF Quiet, NoWake, Wake
      <4>2. Grown(toOwner, toOwner', x) BY <1>4, <2>2 DEF Grown
      <4>3. RetKey[x] = NoVal BY <1>4, <3>2, FrameKeys
      <4>4. Same(toOwner, toOwner', RetKey, NoVal)
        <5>1. /\ \A k : k # NoVal => (Has(toOwner', RetKey, k) <=> Has(toOwner, RetKey, k) \/ RetKey[x] = k)
              /\ Once(toOwner, RetKey, NoVal) /\ (RetKey[x] = NoVal \/ ~Has(toOwner, RetKey, RetKey[x]))
                   => Once(toOwner', RetKey, NoVal)
          BY <2>1, <4>2, GrownKeys
        <5> QED BY <4>3, <5>1 DEF Same
      <4>5. Same(outbound, outbound, ValKey, NoVal) BY SameKeys
      <4> QED BY <2>3, <4>1, <4>4, <4>5, SpotsSame
    <3> QED BY <3>1, <3>2
  <2>5. \A u \in lost : fate[u] = "accepted" BY <2>1 DEF SpotsOK
  <2> QED BY <1>1, <2>4, <2>5 DEF SpotsOK, acc
<1>9. \A u \in Values : fate'[u] = fate[u] OBVIOUS
<1> QED BY <1>1, <1>6, <1>7, <1>8, <1>9, FarResumeKeeps

(* Resumed with its answer.                                                 *)
LEMMA FarEndsKeeps ==
  ASSUME RInv, NEW t \in RemoteTasks, RelayResume(t), ~cancel_requested[t],
         received' = [v \in Values |-> IF wake[t].kind = "Recv" /\ v = wake[t].val
                                       THEN received[v] + 1 ELSE received[v]],
         SendEnds(t, "refused"), UNCHANGED toOwner
  PROVE  RInv'
<1>0. RTypes /\ ChanT /\ TaskT /\ ValT /\ LinkT /\ t \in Tasks BY DEF RInv, RTypes, Tasks
<1> DEFINE c == opcorr[t]
           x == ReleaseFrame
           y == Frame("Close", 0, NoVal)
<1>1. /\ RemoteUp /\ op[t] # "none" /\ ~parked_on_channel[t]
      /\ op'[t] = "none" /\ opval'[t] = NoVal /\ park_epoch'[t] = park_epoch[t] + 1
      /\ wake'[t] = NoWake /\ cancel_requested'[t] = FALSE
      /\ \A u \in Tasks \ {t} : /\ SameOp(u) /\ wake'[u] = wake[u]
                                /\ cancel_requested'[u] = cancel_requested[u]
      /\ opend'[t] = NoEnd /\ opcorr'[t] = 0
      /\ \A u \in RemoteTasks \ {t} : opend'[u] = opend[u] /\ opcorr'[u] = opcorr[u]
      /\ TaskT' /\ LinkT'
      /\ UNCHANGED <<closed, buffer, recv_waiters, send_waiters, cap, refs, outbound,
                     parked_on_channel, next_corr, pending, endpoint, dead, noticed, lost>>
  BY <1>0, ResumeWrites
<1>2. y \in ToFrames /\ y.type = "Close" /\ x \in ToFrames /\ x.type = "Release" BY MadeTo
<1> HIDE DEF y
<1>3. Bears(<<>>, x) /\ RelCount(<<>>, Len(<<>>)) = 0 BY <1>2, BearsReleases
<1>4. toOwner' = IF OwnerUp THEN toOwner \o <<>> ELSE toOwner BY <1>0 DEF ChanT
<1>5. c = opcorr[t] OBVIOUS
<1> HIDE DEF x, c
<1>6. /\ fate' \in [Values -> {"new", "parked", "accepted", "refused", "cancelled"}]
      /\ \A v \in Values : \/ fate'[v] = fate[v]
                           \/ v = opval[t] /\ fate[v] = "parked" /\ fate'[v] = "refused"
      /\ Kept(fate', lost) = Kept(fate, lost)
      /\ \A v \in Values : fate[v] = "accepted" => fate'[v] = "accepted"
  BY <1>0, SendEndsFacts
<1>7. received' \in [Values -> Nat] BY <1>0 DEF ValT
<1>8. ValT' BY <1>0, <1>1, <1>6, <1>7 DEF ValT
<1>9. dead = "none" => wake[t].kind # "none"
  BY <1>0, <1>1 DEF RInv, UpOK, ParksOK, Parks
<1>10. FarResumes(t, c, <<>>, x)
  BY <1>1, <1>2, <1>3, <1>4, <1>5, <1>9 DEF FarResumes
<1>11. ASSUME dead = "none" PROVE SpotsOK'
  <2>1. SpotsOK BY <1>11 DEF RInv, UpOK
  <2> DEFINE acc == Kept(fate, lost)
  <2>2. Spots(buffer, wake, outbound, toOwner, received, acc) BY <2>1 DEF SpotsOK
  <2> HIDE DEF acc
  <2>3. wake'[t].kind # "Recv" BY <1>1 DEF NoWake, Wake
  <2>4. Spots(buffer, wake', outbound, toOwner, received', acc)
    <3>1. CASE wake[t].kind = "Recv"
      <4> DEFINE v == wake[t].val
      <4>1. v \in Values BY <1>0, <3>1 DEF TaskT, RWakes
      <4>2. v \in acc /\ Spots(buffer, wake', outbound, toOwner, received, acc \ {v})
        BY <1>0, <1>1, <2>2, <2>3, <3>1, <4>1, TakeWake
      <4> HIDE DEF v
      <4>3. received'[v] = received[v] + 1 /\ \A z \in Values \ {v} : received'[z] = received[z]
        BY <3>1, <4>1 DEF v
      <4>4. v \notin acc \ {v} OBVIOUS
      <4>5. Spots(buffer, wake', outbound, toOwner, received', (acc \ {v}) \cup {v})
        BY <4>1, <4>2, <4>3, <4>4, PutReceived
      <4>6. (acc \ {v}) \cup {v} = acc BY <4>2
      <4> QED BY <4>5, <4>6
    <3>2. CASE wake[t].kind # "Recv"
      <4>1. Quiet(wake, wake') BY <1>1, <2>3, <3>2 DEF Quiet
      <4>2. Same(toOwner, toOwner, RetKey, NoVal) /\ Same(outbound, outbound, ValKey, NoVal)
        BY SameKeys
      <4>3. Spots(buffer, wake', outbound, toOwner, received, acc) BY <2>2, <4>1, <4>2, SpotsSame
      <4>4. received' = received BY <1>0, <3>2 DEF ValT
      <4> QED BY <4>3, <4>4
    <3> QED BY <3>1, <3>2
  <2>5. \A u \in lost : fate'[u] = "accepted" BY <1>0, <1>6, <2>1 DEF SpotsOK, ValT
  <2> QED BY <1>1, <1>6, <2>4, <2>5 DEF SpotsOK, acc
<1>12. \A v \in Values : \/ fate'[v] = fate[v]
                         \/ /\ v = opval[t] /\ fate'[v] # "new"
                            /\ dead = "none" => wake[t].kind # "none"
  BY <1>6, <1>9
<1> QED BY <1>1, <1>8, <1>10, <1>11, <1>12, FarResumeKeeps

(* RelayResume, either way.                                                 *)
LEMMA RelayResumeKeeps ==
  ASSUME RInv, NEW t \in RemoteTasks, RelayResume(t) PROVE RInv'
<1>1. CASE cancel_requested[t]
  <2> DEFINE g == CASE wake[t].kind = "SendOk" -> <<>>
                    [] wake[t].kind = "Recv" -> <<Frame("Return", 0, wake[t].val)>>
                    [] OTHER -> <<Frame("Cancel", opcorr[t], NoVal)>>
  <2>1. Emit(g) /\ UNCHANGED <<fate, received>> BY <1>1 DEF RelayResume
  <2>2. g = (CASE wake[t].kind = "SendOk" -> <<>>
               [] wake[t].kind = "Recv" -> <<Frame("Return", 0, wake[t].val)>>
               [] OTHER -> <<Frame("Cancel", opcorr[t], NoVal)>>)
    OBVIOUS
  <2> HIDE DEF g
  <2>3. toOwner' = IF OwnerUp THEN toOwner \o g ELSE toOwner BY <2>1 DEF Emit
  <2> QED BY <2>1, <2>2, <2>3, FarCancelledKeeps
<1>2. CASE ~cancel_requested[t]
  <2>1. /\ received' = [v \in Values |-> IF wake[t].kind = "Recv" /\ v = wake[t].val
                                         THEN received[v] + 1 ELSE received[v]]
        /\ SendEnds(t, "refused") /\ UNCHANGED toOwner
    BY <1>2 DEF RelayResume
  <2> QED BY <1>2, <2>1, FarEndsKeeps
<1> QED BY <1>1, <1>2

(* A pending entry of the current epoch is the one of the current           *)
(* operation: an older operation's answer finds no taker.                   *)
EpochOK ==
  \A p \in pending :
    /\ p.epoch <= park_epoch[p.task]
    /\ p.epoch = park_epoch[p.task] => op[p.task] # "none" /\ opcorr[p.task] = p.corr

(* The endpoint side's agent takes the answer to c, wakes the tasks W (at   *)
(* most one), and puts releases and x on the lane.                          *)
TakesAnswer(c, W, g, x) ==
  /\ RemoteUp /\ outbound # <<>> /\ outbound' = Tail(outbound) /\ c = Head(outbound).corr
  /\ pending' = {p \in pending : p.corr # c}
  /\ Bears(g, x) /\ RelCount(g, Len(g)) = Cardinality(Reaped) /\ x.type \in {"Release", "Return"}
  /\ flush_chan_reap
  /\ toOwner' = IF OwnerUp THEN toOwner \o g ELSE toOwner
  /\ W \in SUBSET RemoteTasks
  /\ \A u \in W : /\ parked_on_channel[u] /\ parked_on_channel'[u] = FALSE
                  /\ wake'[u] = WakeFor(Head(outbound))
                  /\ [corr |-> c, task |-> u, epoch |-> park_epoch[u]] \in pending
  /\ \A u \in Tasks \ W : parked_on_channel'[u] = parked_on_channel[u] /\ wake'[u] = wake[u]
  /\ dead = "none" => \A u \in RemoteTasks : parked_on_channel[u] /\ opcorr[u] = c => u \in W
  /\ UNCHANGED <<closed, buffer, recv_waiters, send_waiters, cap, refs, cancel_requested,
                 park_epoch, op, opval, fate, received, next_corr, opend, opcorr, dead,
                 noticed, lost>>

(* The wake of an answer carries its value.                                 *)
LEMMA WakeForFacts ==
  ASSUME NEW f \in OutFrames
  PROVE  /\ WakeFor(f) \in RWakes /\ WakeFor(f).kind # "none"
         /\ f.type = "Value" => WakeFor(f) = Wake("Recv", f.val)
         /\ f.type # "Value" => WakeFor(f).kind # "Recv"
<1>1. f.type \in AFrames /\ f.val \in Values \cup {NoVal} /\ (f.type = "Value" => f.val \in Values)
  BY DEF OutFrames, Frames
<1>m. /\ \A v \in Values : Wake("Recv", v) \in RWakes /\ Wake("Recv", v).kind = "Recv"
      /\ \A k \in {"SendOk", "Closed", "Err"} :
           Wake(k, NoVal) \in RWakes /\ Wake(k, NoVal).kind = k
  BY DEF RWakes, Wakes, Wake
<1>2. CASE f.type = "Value"
  <2>1. WakeFor(f) = Wake("Recv", f.val) BY <1>2 DEF WakeFor
  <2> QED BY <1>1, <1>m, <1>2, <2>1
<1>3. CASE f.type = "Ack"
  <2>1. WakeFor(f) = Wake("SendOk", NoVal) BY <1>3 DEF WakeFor
  <2> QED BY <1>1, <1>m, <1>3, <2>1
<1>4. CASE f.type = "ClosedFor"
  <2>1. WakeFor(f) = Wake("Closed", NoVal) BY <1>4 DEF WakeFor
  <2> QED BY <1>1, <1>m, <1>4, <2>1
<1>5. CASE f.type = "RecvError"
  <2>1. WakeFor(f) = Wake("Err", NoVal) BY <1>5 DEF WakeFor
  <2> QED BY <1>1, <1>m, <1>5, <2>1
<1> QED BY <1>1, <1>2, <1>3, <1>4, <1>5 DEF AFrames

(* The answered correlation leaves its last stage.                          *)
LEMMA AnswerTakenKeys ==
  ASSUME RTypes, NEW c, NEW W, NEW g, NEW x, TakesAnswer(c, W, g, x)
  PROVE  /\ c \in Corrs /\ Head(outbound) \in OutFrames /\ outbound' \in Seq(OutFrames)
         /\ \A k : Has(outbound, AnsKey, k) <=> k = c \/ Has(outbound', AnsKey, k)
         /\ Once(outbound, AnsKey, 0) => Once(outbound', AnsKey, 0) /\ ~Has(outbound', AnsKey, c)
<1>1. outbound \in Seq(OutFrames) /\ outbound # <<>> /\ outbound' = Tail(outbound)
        /\ c = Head(outbound).corr
  BY DEF RTypes, ChanT, TakesAnswer
<1>2. Head(outbound) \in OutFrames /\ Tail(outbound) \in Seq(OutFrames) BY <1>1
<1>3. c \in Corrs /\ AnsKey[Head(outbound)] = c BY <1>1, <1>2, FrameKeys
<1>4. /\ \A k : Has(outbound, AnsKey, k) <=> AnsKey[Head(outbound)] = k \/ Has(Tail(outbound), AnsKey, k)
      /\ Once(outbound, AnsKey, 0) =>
           /\ Once(Tail(outbound), AnsKey, 0)
           /\ \A k : k # 0 /\ AnsKey[Head(outbound)] = k => ~Has(Tail(outbound), AnsKey, k)
  BY <1>1, HasTail
<1> QED BY <1>1, <1>2, <1>3, <1>4 DEF Corrs

(* An answer taken leaves its stage and its pending entry together.         *)
LEMMA AnswerLink ==
  ASSUME RTypes, UpOK, OneStage, EpochOK, dead = "none", NEW c, NEW W, NEW g, NEW x,
         TakesAnswer(c, W, g, x)
  PROVE  OneStage' /\ PendingOK' /\ OpsOK' /\ UsedOK' /\ CountOK' /\ HeldOK'
<1>0. /\ ChanT /\ TaskT /\ ValT /\ LinkT /\ toOwner \in Seq(ToFrames)
      /\ g \in Seq(ToFrames) /\ refs \in Nat /\ x \in ToFrames
  BY DEF RTypes, ChanT, TakesAnswer, Bears
<1>1. ReqKey[x] = 0 /\ AskKey[x] = 0 /\ RetractKey[x] = 0
  <2>1. x.type \in {"Release", "Return"} BY DEF TakesAnswer
  <2> QED BY <1>0, <2>1, FrameKeys
<1>2. toOwner' = toOwner \o g BY DEF TakesAnswer, OwnerUp
<1>3. Grown(toOwner, toOwner', x) BY <1>2 DEF Grown, TakesAnswer
<1>4. PendingOK /\ OpsOK /\ UsedOK /\ CountOK /\ HeldOK /\ ParksOK BY DEF UpOK
<1>5. UNCHANGED <<recv_waiters, send_waiters, refs, park_epoch, next_corr, op, opend, opcorr>>
  BY DEF TakesAnswer
<1>6. CountOK'
  <2>1. flush_chan_reap /\ RelCount(g, Len(g)) = Cardinality(Reaped) BY DEF TakesAnswer
  <2> QED BY <1>0, <1>2, <1>4, <1>5, <2>1, CountGrows
<1>7. /\ \A k : k # 0 =>
           /\ Has(toOwner', ReqKey, k) <=> Has(toOwner, ReqKey, k) \/ ReqKey[x] = k
           /\ Has(toOwner', AskKey, k) <=> Has(toOwner, AskKey, k) \/ AskKey[x] = k
           /\ Has(toOwner', RetractKey, k) <=> Has(toOwner, RetractKey, k) \/ RetractKey[x] = k
      /\ Once(toOwner, ReqKey, 0) /\ (ReqKey[x] = 0 \/ ~Has(toOwner, ReqKey, ReqKey[x]))
           => Once(toOwner', ReqKey, 0)
      /\ \A m, k : k \in Corrs /\ Retracted(toOwner, m, k) /\ AskKey[x] # k => Retracted(toOwner', m, k)
  BY <1>0, <1>3, GrownKeys
<1>8. \A k \in Corrs : /\ Has(toOwner', ReqKey, k) <=> Has(toOwner, ReqKey, k)
                       /\ Has(toOwner', AskKey, k) <=> Has(toOwner, AskKey, k)
                       /\ Has(toOwner', RetractKey, k) <=> Has(toOwner, RetractKey, k)
                       /\ \A m : Retracted(toOwner, m, k) => Retracted(toOwner', m, k)
  BY <1>1, <1>7 DEF Corrs
<1>9. /\ c \in Corrs
      /\ \A k : Has(outbound, AnsKey, k) <=> k = c \/ Has(outbound', AnsKey, k)
      /\ Once(outbound', AnsKey, 0) /\ ~Has(outbound', AnsKey, c)
  <2>1. Once(outbound, AnsKey, 0) BY DEF OneStage, Alone
  <2> QED BY <2>1, AnswerTakenKeys
<1>10. OneStage'
  <2>1. Once(toOwner', ReqKey, 0) BY <1>1, <1>7 DEF OneStage, Alone
  <2> QED BY <1>5, <1>8, <1>9, <2>1 DEF OneStage, Alone
<1>11. \A k \in Corrs : Staged(k)' <=> Staged(k) /\ k # c
  <2>1. ~Has(toOwner, ReqKey, c) /\ ~Has(recv_waiters, WaitKey, c) /\ ~Has(send_waiters, WaitKey, c)
    BY <1>9 DEF OneStage, Alone
  <2> QED BY <1>5, <1>8, <1>9, <2>1 DEF Staged, InStage
<1>12. pending' = {p \in pending : p.corr # c} BY DEF TakesAnswer
<1>13. PendingOK' BY <1>4, <1>5, <1>11, <1>12 DEF PendingOK
<1>14. ASSUME NEW u \in RemoteTasks PROVE OpOK(u)'
  <2>1. OpOK(u) /\ u \in Tasks BY <1>4 DEF OpsOK, Tasks
  <2>2. op[u] = "none" => ~parked_on_channel[u] /\ wake[u].kind = "none"
    BY <1>4, <2>1 DEF ParksOK, Parks
  <2>3. op[u] # "none" => opcorr[u] \in Corrs BY <1>0 DEF LinkT, Corrs
  <2>4. u \in W => parked_on_channel[u] /\ ~parked_on_channel'[u] /\ opcorr[u] = c
    <3>1. ASSUME u \in W PROVE opcorr[u] = c
      <4> DEFINE e == [corr |-> c, task |-> u, epoch |-> park_epoch[u]]
      <4>1. e \in pending BY <3>1 DEF TakesAnswer
      <4>2. e.epoch = park_epoch[u] /\ e.task = u /\ e.corr = c OBVIOUS
      <4> HIDE DEF e
      <4> QED BY <4>1, <4>2 DEF EpochOK
    <3> QED BY <3>1 DEF TakesAnswer
  <2>5. u \notin W => parked_on_channel'[u] = parked_on_channel[u] /\ wake'[u] = wake[u]
                        /\ (parked_on_channel[u] => opcorr[u] # c)
    BY <2>1 DEF TakesAnswer
  <2>6. CASE op[u] = "none" BY <1>5, <2>1, <2>2, <2>4, <2>5, <2>6 DEF OpOK
  <2>7. CASE op[u] # "none"
    <3>1. InStage(toOwner', recv_waiters', send_waiters', outbound', opcorr'[u])
            <=> Staged(opcorr[u]) /\ opcorr[u] # c
      <4>1. \A k \in Corrs : InStage(toOwner', recv_waiters', send_waiters', outbound', k)
                               <=> Staged(k) /\ k # c
        BY <1>11 DEF Staged
      <4> QED BY <1>5, <2>3, <2>7, <4>1
    <3>2. ~Has(toOwner', RetractKey, opcorr'[u]) /\ opcorr'[u] < next_corr'
      BY <1>5, <1>8, <2>1, <2>3, <2>7 DEF OpOK
    <3>3. parked_on_channel'[u] => parked_on_channel[u] /\ opcorr[u] # c /\ u \notin W
      BY <2>4, <2>5
    <3>4. parked_on_channel'[u] =>
             [corr |-> opcorr'[u], task |-> u, epoch |-> park_epoch'[u]] \in pending'
      BY <1>5, <1>12, <2>1, <3>3 DEF OpOK
    <3>5. parked_on_channel'[u] => InStage(toOwner', recv_waiters', send_waiters', outbound', opcorr'[u])
      BY <2>1, <3>1, <3>3 DEF OpOK
    <3>6. wake'[u].kind # "none" => ~InStage(toOwner', recv_waiters', send_waiters', outbound', opcorr'[u])
      BY <2>1, <2>4, <2>5, <3>1 DEF OpOK
    <3> QED BY <1>5, <2>7, <3>2, <3>4, <3>5, <3>6 DEF OpOK, Staged
  <2> QED BY <2>6, <2>7
<1>15. OpsOK'
  <2>1. \A k \in Corrs : Has(toOwner', RetractKey, k) => k < next_corr'
    BY <1>4, <1>5, <1>8 DEF OpsOK
  <2> QED BY <1>4, <1>5, <1>14, <2>1 DEF OpsOK
<1>16. UsedOK'
  <2>1. flush_chan_reap BY DEF TakesAnswer
  <2>2. \A n \in Endpoints : endpoint[n] = "live" => endpoint'[n] = "live" BY <1>0, <2>1, FlushFacts
  <2> QED BY <1>4, <1>5, <2>2 DEF UsedOK
<1>17. HeldOK' BY <1>4, <1>5, <1>8 DEF HeldOK, Wanting, Wants
<1> QED BY <1>6, <1>10, <1>13, <1>15, <1>16, <1>17

(* The answered value is in its receiver's hand, or on its way home.        *)
LEMMA AnswerSpots ==
  ASSUME RTypes, UpOK, dead = "none", NEW c, NEW W, NEW g, NEW x, TakesAnswer(c, W, g, x),
         Head(outbound).type = "Value" =>
           \/ x.type = "Release" /\ \E u \in W : W = {u}
           \/ /\ W = {} /\ x = Frame("Return", 0, Head(outbound).val)
              /\ g = <<x>> \o Releases,
         Head(outbound).type # "Value" => x.type = "Release"
  PROVE  SpotsOK'
<1> DEFINE f == Head(outbound)
           acc == Kept(fate, lost)
<1>0. /\ ChanT /\ TaskT /\ ValT /\ LinkT /\ toOwner \in Seq(ToFrames)
      /\ g \in Seq(ToFrames) /\ x \in ToFrames /\ outbound \in Seq(OutFrames) /\ outbound # <<>>
  BY DEF RTypes, ChanT, TakesAnswer, Bears
<1>1. f \in OutFrames BY <1>0
<1>2. SpotsOK /\ ParksOK BY DEF UpOK
<1>3. Spots(buffer, wake, outbound, toOwner, received, acc) BY <1>2 DEF SpotsOK
<1>4. toOwner' = toOwner \o g /\ outbound' = Tail(outbound) BY DEF TakesAnswer, OwnerUp
<1>5. /\ W \in SUBSET Tasks /\ \A u \in W : parked_on_channel[u] /\ wake'[u] = WakeFor(f)
      /\ \A u \in Tasks \ W : wake'[u] = wake[u]
  BY DEF TakesAnswer, Tasks
<1>6. \A u \in W : wake[u].kind = "none" BY <1>2, <1>5 DEF ParksOK, Parks
<1>7. /\ f.type = "Value" => WakeFor(f) = Wake("Recv", f.val)
      /\ f.type # "Value" => WakeFor(f).kind # "Recv"
  BY <1>1, WakeForFacts
<1>8. x.type = "Release" => Same(toOwner, toOwner', RetKey, NoVal)
  <2>1. Grown(toOwner, toOwner', x) BY <1>4 DEF Grown, TakesAnswer
  <2>2. /\ \A k : k # NoVal => (Has(toOwner', RetKey, k) <=> Has(toOwner, RetKey, k) \/ RetKey[x] = k)
        /\ Once(toOwner, RetKey, NoVal) /\ (RetKey[x] = NoVal \/ ~Has(toOwner, RetKey, RetKey[x]))
             => Once(toOwner', RetKey, NoVal)
    BY <1>0, <2>1, GrownKeys
  <2>3. x.type = "Release" => RetKey[x] = NoVal BY <1>0, FrameKeys
  <2> QED BY <2>2, <2>3 DEF Same
<1> HIDE DEF acc
<1>9. Spots(buffer, wake', outbound', toOwner', received, acc)
  <2>1. CASE f.type # "Value"
    <3>1. ValKey[Head(outbound)] = NoVal BY <1>1, <2>1, FrameKeys
    <3>2. Same(outbound, Tail(outbound), ValKey, NoVal) BY <1>0, <3>1, SameTail
    <3>3. Quiet(wake, wake') BY <1>5, <1>6, <1>7, <2>1 DEF Quiet
    <3>4. Same(toOwner, toOwner', RetKey, NoVal) /\ Same(outbound, outbound', ValKey, NoVal)
      BY <1>4, <1>8, <2>1, <3>2
    <3> QED BY <1>3, <3>3, <3>4, SpotsSame
  <2>2. CASE f.type = "Value" /\ x.type = "Release" /\ \E u \in W : W = {u}
    <3> DEFINE v == f.val
    <3>1. PICK u \in W : W = {u} BY <2>2
    <3>2. /\ v \in Values /\ v \in acc
          /\ Spots(buffer, wake, Tail(outbound), toOwner, received, acc \ {v})
      BY <1>0, <1>3, <2>2, TakeOut
    <3> HIDE DEF v
    <3>3. /\ u \in Tasks /\ wake[u].kind # "Recv" /\ v \notin acc \ {v}
          /\ wake'[u] = Wake("Recv", v) /\ \A z \in Tasks \ {u} : wake'[z] = wake[z]
      BY <1>5, <1>6, <1>7, <2>2, <3>1 DEF v
    <3>4. Spots(buffer, wake', Tail(outbound), toOwner, received, (acc \ {v}) \cup {v})
      BY <3>2, <3>3, PutWake
    <3>5. (acc \ {v}) \cup {v} = acc BY <3>2
    <3>6. Spots(buffer, wake', outbound', toOwner, received, acc) BY <1>4, <3>4, <3>5
    <3>7. Same(toOwner, toOwner', RetKey, NoVal) /\ Same(outbound', outbound', ValKey, NoVal)
            /\ Quiet(wake', wake')
      BY <1>8, <2>2, SameKeys DEF Quiet
    <3> QED BY <3>6, <3>7, SpotsSame
  <2>3. CASE /\ f.type = "Value" /\ W = {} /\ x = Frame("Return", 0, f.val)
             /\ g = <<x>> \o Releases
    <3> DEFINE v == f.val
    <3>1. /\ v \in Values /\ v \in acc
          /\ Spots(buffer, wake, Tail(outbound), toOwner, received, acc \ {v})
      BY <1>0, <1>3, <2>3, TakeOut
    <3> HIDE DEF v
    <3>2. x.type = "Return" /\ x.val = v /\ x.val \notin acc \ {v} BY <2>3, <3>1, MadeTo DEF v
    <3> DEFINE r == Append(toOwner, x)
    <3>3. Spots(buffer, wake, Tail(outbound), r, received, (acc \ {v}) \cup {x.val})
      BY <1>0, <3>1, <3>2, PutReturn
    <3>4. (acc \ {v}) \cup {x.val} = acc BY <3>1, <3>2
    <3>5. r \in Seq(ToFrames) /\ toOwner' = r \o Releases
      <4>1. Releases \in Seq(ToFrames) BY ReleasesFacts
      <4>2. toOwner \o <<x>> = r BY <1>0, JoinFrames
      <4>3. toOwner \o (<<x>> \o Releases) = (toOwner \o <<x>>) \o Releases
        <5>1. <<x>> \in Seq(ToFrames) BY <1>0
        <5> DEFINE h == <<x>>
                   R == Releases
        <5>2. toOwner \in Seq(ToFrames) /\ h \in Seq(ToFrames) /\ R \in Seq(ToFrames)
          BY <1>0, <4>1, <5>1
        <5> HIDE DEF r, h, R
        <5>3. (toOwner \o h) \o R = toOwner \o (h \o R) BY <5>2, ConcatAssociative
        <5> QED BY <5>3 DEF h, R
      <4>4. toOwner \o (<<x>> \o Releases) = r \o Releases BY <4>2, <4>3
      <4>5. toOwner' = toOwner \o (<<x>> \o Releases) BY <1>4, <2>3
      <4> QED BY <1>0, <4>4, <4>5
    <3> HIDE DEF r
    <3>6. Same(r, toOwner', RetKey, NoVal)
      <4>1. Releases \in Seq(ToFrames) BY ReleasesFacts
      <4>2. \A i \in 1..Len(Releases) : RetKey[Releases[i]] = NoVal
        BY ReleasesFacts, ReleaseKeys, MadeTo
      <4>3. Same(r, r \o Releases, RetKey, NoVal) BY <3>5, <4>1, <4>2, SameConcat
      <4> QED BY <3>5, <4>3
    <3>7. \A u \in Tasks : wake'[u] = wake[u] BY <1>5, <2>3
    <3>8. Quiet(wake, wake') BY <3>7 DEF Quiet
    <3>9. Same(Tail(outbound), outbound', ValKey, NoVal)
      <4>1. Same(Tail(outbound), Tail(outbound), ValKey, NoVal) BY SameKeys
      <4> QED BY <1>4, <4>1
    <3>10. Spots(buffer, wake, Tail(outbound), r, received, acc) BY <3>3, <3>4
    <3> QED BY <3>6, <3>8, <3>9, <3>10, SpotsSame
  <2> QED BY <2>1, <2>2, <2>3
<1>10. \A v \in lost : fate[v] = "accepted" BY <1>2 DEF SpotsOK
<1>11. UNCHANGED <<buffer, received, fate, lost>> BY DEF TakesAnswer
<1> QED BY <1>9, <1>10, <1>11 DEF SpotsOK, acc

(* What taking an answer has to show.                                       *)
LEMMA TakesAnswerKeeps ==
  ASSUME RInv, EpochOK, NEW c, NEW W, NEW g, NEW x, TakesAnswer(c, W, g, x),
         TaskT',
         dead = "none" => SpotsOK'
  PROVE  RInv'
<1>0. RTypes /\ ChanT /\ TaskT /\ ValT /\ LinkT BY DEF RInv, RTypes
<1>1. toOwner \in Seq(ToFrames) /\ g \in Seq(ToFrames) /\ x \in ToFrames
        /\ x.type \in {"Release", "Return"}
  BY <1>0 DEF ChanT, TakesAnswer, Bears
<1>2. toOwner' \in Seq(ToFrames) BY <1>1 DEF TakesAnswer
<1>3. c \in Corrs /\ Head(outbound) \in OutFrames /\ outbound' \in Seq(OutFrames)
        /\ (\A k : Has(outbound, AnsKey, k) <=> k = c \/ Has(outbound', AnsKey, k))
        /\ (Once(outbound, AnsKey, 0) => Once(outbound', AnsKey, 0))
  BY <1>0, AnswerTakenKeys
<1>4. RTypes'
  <2>1. ChanT' BY <1>0, <1>2, <1>3 DEF ChanT, TakesAnswer
  <2>2. ValT' BY <1>0 DEF ValT, TakesAnswer
  <2>3. endpoint' \in [Endpoints -> States]
    <3>1. flush_chan_reap BY DEF TakesAnswer
    <3> QED BY <1>0, <3>1, FlushFacts
  <2>4. pending' \in SUBSET Pendings BY <1>0 DEF LinkT, TakesAnswer
  <2>5. LinkT' BY <1>0, <2>3, <2>4 DEF LinkT, TakesAnswer
  <2> QED BY <2>1, <2>2, <2>5 DEF RTypes
<1>5. CASE dead = "owner"
  <2>1. toOwner' = toOwner /\ toOwner = <<>> /\ dead' = dead
          /\ UNCHANGED <<recv_waiters, send_waiters>>
    BY <1>5 DEF OwnerUp, RInv, TakesAnswer
  <2>2. OneStage BY <1>5 DEF RInv
  <2>3. OneStage' BY <1>3, <2>1, <2>2 DEF OneStage, Alone
  <2> QED BY <1>4, <1>5, <2>1, <2>3 DEF RInv
<1>6. CASE dead = "none"
  <2>1. UpOK /\ OneStage BY <1>6 DEF RInv
  <2>2. OneStage' /\ PendingOK' /\ OpsOK' /\ UsedOK' /\ CountOK' /\ HeldOK'
    BY <1>0, <1>6, <2>1, AnswerLink
  <2>3. WayOK /\ SenderOK /\ ParksOK /\ FitsOK BY <2>1 DEF UpOK
  <2>4. \A u \in Tasks : TaskStep(u)
    <3>0. WakeFor(Head(outbound)).kind # "none" BY <1>3, WakeForFacts
    <3>1. \A u \in Tasks : SameOp(u) /\ cancel_requested'[u] = cancel_requested[u]
      BY DEF TakesAnswer, SameOp
    <3>2. \A u \in W : u \in Tasks => GetsWake(u) BY <3>0, <3>1 DEF TakesAnswer, GetsWake
    <3>3. \A u \in Tasks \ W : Untouched(u) BY <3>1 DEF Untouched, TakesAnswer
    <3> QED BY <3>2, <3>3 DEF TaskStep
  <2>5. ParksOK' BY <1>0, <2>3, <2>4, ParksKept
  <2>6. FitsOK'
    <3>1. send_waiters \in Seq(SendEntries) /\ send_waiters' = send_waiters
      BY <1>0 DEF ChanT, TakesAnswer
    <3>2. Part(send_waiters', send_waiters) BY <3>1, PartFacts
    <3> QED BY <1>0, <2>3, <2>4, <3>1, <3>2, FitsKept2
  <2>7. WayOK' /\ SenderOK'
    <3>1. Grown(toOwner, toOwner', x) BY <1>6 DEF Grown, TakesAnswer, OwnerUp
    <3>2. SendKey[x] = NoVal BY <1>1, FrameKeys
    <3>3. UNCHANGED <<op, opval, opcorr, send_waiters, fate>> BY DEF TakesAnswer
    <3>4. \A u \in Tasks : parked_on_channel'[u] => parked_on_channel[u] BY DEF TakesAnswer
    <3> QED BY <1>0, <2>3, <3>1, <3>2, <3>3, <3>4, SendsGrow
  <2>8. UpOK' BY <1>6, <2>2, <2>5, <2>6, <2>7 DEF UpOK
  <2>9. dead' = dead BY DEF TakesAnswer
  <2> QED BY <1>4, <1>6, <2>2, <2>8, <2>9 DEF RInv
<1>7. RemoteUp BY DEF TakesAnswer
<1> QED BY <1>0, <1>5, <1>6, <1>7 DEF LinkT, RemoteUp

(* EndpointAgent: the answer has at most one taker, the task of its entry;  *)
(* an answered value nobody takes goes home.                                *)
LEMMA EndpointAgentKeeps ==
  ASSUME RInv, EpochOK, EndpointAgent PROVE RInv'
<1> DEFINE f == Head(outbound)
           entries == {p \in pending : p.corr = f.corr}
           takers == {p \in entries : channel_waiter_live(p.task, p.epoch)}
           home == IF f.type = "Value" /\ entries # {} /\ takers = {}
                   THEN <<Frame("Return", 0, f.val)>> ELSE <<>>
           p == CHOOSE q \in takers : TRUE
           W == IF takers # {} THEN {p.task} ELSE {}
           x == IF f.type = "Value" /\ entries # {} /\ takers = {}
                THEN Frame("Return", 0, f.val) ELSE ReleaseFrame
           g == home \o Releases
           c == f.corr
<1>0. RTypes /\ ChanT /\ TaskT /\ ValT /\ LinkT BY DEF RInv, RTypes
<1>1. /\ RemoteUp /\ outbound # <<>> /\ outbound' = Tail(outbound)
      /\ pending' = pending \ entries
      /\ takers # {} => wake_channel_task(p.task, WakeFor(f))
      /\ takers = {} => UNCHANGED <<parked_on_channel, wake>>
      /\ flush_chan_reap /\ Emit(g)
      /\ UNCHANGED <<closed, buffer, recv_waiters, send_waiters, cap, refs, cancel_requested,
                     park_epoch, op, opval, fate, received, next_corr, opend, opcorr, dead,
                     noticed, lost>>
  BY DEF EndpointAgent, chanVars, coroVars, wakeVars
<1>2. outbound \in Seq(OutFrames) /\ f \in OutFrames /\ c \in Corrs
  <2>1. outbound \in Seq(OutFrames) BY <1>0 DEF ChanT
  <2>2. f \in OutFrames BY <1>1, <2>1
  <2> QED BY <2>1, <2>2, FrameKeys
<1>3. f.type = "Value" => f.val \in Values BY <1>2, FrameKeys
<1>4. pending' = {q \in pending : q.corr # c} BY <1>1
<1>5. takers # {} => /\ p \in pending /\ p.corr = c /\ p.task \in RemoteTasks /\ p.task \in Tasks
                     /\ parked_on_channel[p.task] /\ p.epoch = park_epoch[p.task]
                     /\ [corr |-> c, task |-> p.task, epoch |-> park_epoch[p.task]] = p
  <2> SUFFICES ASSUME takers # {}
               PROVE  /\ p \in pending /\ p.corr = c /\ p.task \in RemoteTasks /\ p.task \in Tasks
                      /\ parked_on_channel[p.task] /\ p.epoch = park_epoch[p.task]
                      /\ [corr |-> c, task |-> p.task, epoch |-> park_epoch[p.task]] = p
    OBVIOUS
  <2>1. p \in takers OBVIOUS
  <2> HIDE DEF p
  <2>2. p \in pending /\ p.corr = c /\ channel_waiter_live(p.task, p.epoch) BY <2>1
  <2>3. p \in Pendings BY <1>0, <2>2 DEF LinkT
  <2>4. p.task \in RemoteTasks /\ p = [corr |-> p.corr, task |-> p.task, epoch |-> p.epoch]
    BY <2>3 DEF Pendings
  <2> QED BY <2>2, <2>4 DEF channel_waiter_live, Tasks
<1> HIDE DEF p
<1>6. /\ W \in SUBSET RemoteTasks
      /\ \A u \in W : /\ parked_on_channel[u] /\ parked_on_channel'[u] = FALSE
                      /\ wake'[u] = WakeFor(f)
                      /\ [corr |-> c, task |-> u, epoch |-> park_epoch[u]] \in pending
      /\ \A u \in Tasks \ W : parked_on_channel'[u] = parked_on_channel[u] /\ wake'[u] = wake[u]
      /\ TaskT'
  <2>0. /\ parked_on_channel \in [Tasks -> BOOLEAN] /\ wake \in [Tasks -> RWakes]
        /\ WakeFor(f) \in RWakes
    BY <1>0, <1>2, WakeForFacts DEF TaskT
  <2>1. CASE takers # {}
    <3> HIDE DEF takers, f
    <3>0. W = {p.task} BY <2>1
    <3>1. /\ parked_on_channel' = [parked_on_channel EXCEPT ![p.task] = FALSE]
          /\ wake' = [wake EXCEPT ![p.task] = WakeFor(f)]
      BY <1>1, <2>1 DEF wake_channel_task
    <3>2. /\ p.task \in RemoteTasks /\ p.task \in Tasks /\ parked_on_channel[p.task]
          /\ [corr |-> c, task |-> p.task, epoch |-> park_epoch[p.task]] \in pending
      BY <1>5, <2>1
    <3>3. parked_on_channel' \in [Tasks -> BOOLEAN] /\ parked_on_channel'[p.task] = FALSE
            /\ \A u \in Tasks \ {p.task} : parked_on_channel'[u] = parked_on_channel[u]
      BY <2>0, <3>1, <3>2
    <3>4. wake' \in [Tasks -> RWakes] /\ wake'[p.task] = WakeFor(f)
            /\ \A u \in Tasks \ {p.task} : wake'[u] = wake[u]
      BY <2>0, <3>1, <3>2
    <3>5. TaskT' BY <1>0, <1>1, <3>3, <3>4 DEF TaskT
    <3> HIDE DEF W, c
    <3> QED BY <3>0, <3>2, <3>3, <3>4, <3>5
  <2>2. CASE takers = {}
    <3>1. W = {} /\ UNCHANGED <<parked_on_channel, wake>> BY <1>1, <2>2
    <3>2. TaskT' BY <1>0, <1>1, <3>1 DEF TaskT
    <3> QED BY <3>1, <3>2
  <2> QED BY <2>1, <2>2
<1>7. dead = "none" => \A u \in RemoteTasks : parked_on_channel[u] /\ opcorr[u] = c => u \in W
  <2> SUFFICES ASSUME dead = "none", NEW u \in RemoteTasks, parked_on_channel[u], opcorr[u] = c
               PROVE  u \in W
    OBVIOUS
  <2>1. ParksOK /\ OpsOK /\ PendingOK /\ u \in Tasks BY DEF RInv, UpOK, Tasks
  <2> DEFINE e == [corr |-> opcorr[u], task |-> u, epoch |-> park_epoch[u]]
  <2>2. e \in pending BY <2>1 DEF OpsOK, OpOK
  <2>3. e.corr = c /\ e.task = u /\ e.epoch = park_epoch[u] OBVIOUS
  <2> HIDE DEF e
  <2>4. channel_waiter_live(e.task, e.epoch) BY <2>1, <2>3 DEF channel_waiter_live, ParksOK, Parks
  <2>5. e \in takers BY <2>2, <2>3, <2>4
  <2>6. p \in pending /\ p.corr = c BY <1>5, <2>5
  <2>7. p = e BY <2>1, <2>2, <2>3, <2>6 DEF PendingOK
  <2> QED BY <2>3, <2>5, <2>7
<1>8. /\ Bears(g, x) /\ RelCount(g, Len(g)) = Cardinality(Reaped) /\ x.type \in {"Release", "Return"}
      /\ f.type = "Value" /\ entries # {} /\ takers = {} =>
           x = Frame("Return", 0, f.val) /\ g = <<x>> \o Releases
      /\ ~(f.type = "Value" /\ entries # {} /\ takers = {}) => x.type = "Release"
  <2>1. CASE f.type = "Value" /\ entries # {} /\ takers = {}
    <3>1. x = Frame("Return", 0, f.val) /\ g = <<x>> \o Releases BY <2>1
    <3>2. x \in ToFrames /\ x.type = "Return"
      <4>1. f.val \in Values BY <1>3, <2>1
      <4> HIDE DEF x, f
      <4> QED BY <3>1, <4>1, MadeTo
    <3> HIDE DEF x, g
    <3> DEFINE h == <<x>> \o Releases
    <3>3. Bears(<<x>> \o Releases, x) BY <3>2, BearsReleases
    <3>4. h \in {Releases, Releases \o <<x>>, <<x>> \o Releases, <<>> \o Releases} OBVIOUS
    <3> HIDE DEF h
    <3>5. RelCount(h, Len(h)) = Cardinality(Reaped) BY <3>2, <3>4, BearsReleases
    <3> QED BY <2>1, <3>1, <3>2, <3>3, <3>5 DEF h
  <2>2. CASE ~(f.type = "Value" /\ entries # {} /\ takers = {})
    <3>1. x = ReleaseFrame /\ g = <<>> \o Releases BY <2>2
    <3> HIDE DEF x, g, f, takers, entries
    <3> DEFINE y == Frame("Close", 0, NoVal)
               h == <<>> \o Releases
    <3>2. y \in ToFrames /\ y.type = "Close" /\ ReleaseFrame.type = "Release" BY MadeTo
    <3>3. h \in {Releases, Releases \o <<y>>, <<y>> \o Releases, <<>> \o Releases} OBVIOUS
    <3>4. Bears(<<>> \o Releases, ReleaseFrame)
      <4> HIDE DEF y, h
      <4> QED BY <3>2, BearsReleases
    <3> HIDE DEF h, y
    <3>5. RelCount(h, Len(h)) = Cardinality(Reaped) BY <3>2, <3>3, BearsReleases
    <3> QED BY <2>2, <3>1, <3>2, <3>4, <3>5 DEF h
  <2> QED BY <2>1, <2>2
<1>9. toOwner' = IF OwnerUp THEN toOwner \o g ELSE toOwner BY <1>1 DEF Emit
<1>10. c = Head(outbound).corr OBVIOUS
<1>11. f.type = "Value" /\ takers # {} => \E u \in W : W = {u} OBVIOUS
<1>12. takers = {} => W = {} OBVIOUS
<1>13. dead = "none" => entries # {}
  <2> SUFFICES ASSUME dead = "none" PROVE entries # {} OBVIOUS
  <2>1. PendingOK BY DEF RInv, UpOK
  <2>2. Has(outbound, AnsKey, c)
    <3>1. AnsKey[outbound[1]] = c /\ 1 \in 1..Len(outbound)
      <4>1. Head(outbound) = outbound[1] /\ Len(outbound) \in Nat /\ Len(outbound) # 0 BY <1>1, <1>2
      <4> QED BY <1>2, <4>1, FrameKeys
    <3> HIDE DEF c
    <3> QED BY <3>1 DEF Has
  <2> HIDE DEF c
  <2>3. \E q \in pending : q.corr = c BY <1>2, <2>1, <2>2 DEF PendingOK, Staged, InStage
  <2> QED BY <2>3 DEF c
<1> HIDE DEF x, g, W
<1>14. TakesAnswer(c, W, g, x)
  <2> HIDE DEF c, takers, entries, home
  <2> QED BY <1>1, <1>4, <1>6, <1>7, <1>8, <1>9, <1>10 DEF TakesAnswer
<1>15. dead = "none" => SpotsOK'
  <2> SUFFICES ASSUME dead = "none" PROVE SpotsOK' OBVIOUS
  <2>1. UpOK BY DEF RInv
  <2>2. f.type = "Value" => \/ x.type = "Release" /\ \E u \in W : W = {u}
                            \/ W = {} /\ x = Frame("Return", 0, f.val) /\ g = <<x>> \o Releases
    <3> HIDE DEF takers, entries
    <3> QED BY <1>8, <1>11, <1>12, <1>13
  <2>3. f.type # "Value" => x.type = "Release" BY <1>8
  <2> HIDE DEF c, takers, entries
  <2> QED BY <1>0, <1>14, <2>1, <2>2, <2>3, AnswerSpots
<1> HIDE DEF c, takers, entries, f
<1> QED BY <1>6, <1>14, <1>15, TakesAnswerKeeps

(* The peer's agent learns of a death after it.                             *)
NoticedOK == dead = "none" => noticed = FALSE

(* EndpointAgentEnds: only tasks of the endpoint side are woken.            *)
LEMMA EndpointEndsKeeps ==
  ASSUME RInv, EndpointAgentEnds PROVE RInv'
<1> DEFINE woken == {p.task : p \in {q \in pending : channel_waiter_live(q.task, q.epoch)}}
<1>0. RTypes /\ ChanT /\ TaskT /\ ValT /\ LinkT BY DEF RInv, RTypes
<1>1. /\ dead = "owner" /\ noticed' = TRUE /\ pending' = {}
      /\ parked_on_channel' = [t \in Tasks |-> parked_on_channel[t] /\ t \notin woken]
      /\ wake' = [t \in Tasks |-> IF t \in woken THEN Wake("Closed", NoVal) ELSE wake[t]]
      /\ UNCHANGED <<closed, buffer, recv_waiters, send_waiters, cap, refs, outbound,
                     cancel_requested, park_epoch, op, opval, fate, received, toOwner, next_corr,
                     endpoint, opend, opcorr, dead, lost>>
  BY DEF EndpointAgentEnds, chanVars, coroVars
<1> HIDE DEF woken
<1>2. ChanT' /\ ValT' BY <1>0, <1>1 DEF ChanT, ValT
<1>3. Wake("Closed", NoVal) \in RWakes BY DEF RWakes, Wakes, Wake
<1>4. parked_on_channel' \in [Tasks -> BOOLEAN] BY <1>0, <1>1 DEF TaskT
<1>5. wake' \in [Tasks -> RWakes] BY <1>0, <1>1, <1>3 DEF TaskT
<1>6. TaskT' BY <1>0, <1>1, <1>4, <1>5 DEF TaskT
<1>7. LinkT' BY <1>0, <1>1 DEF LinkT
<1>8. RTypes' BY <1>2, <1>6, <1>7 DEF RTypes
<1>9. OneStage' BY <1>1 DEF RInv, OneStage
<1> QED BY <1>1, <1>8, <1>9 DEF RInv

(* OwnerDies: the requests on the lane are gone.                            *)
LEMMA OwnerDiesKeeps ==
  ASSUME RInv, OwnerDies PROVE RInv'
<1>0. RTypes /\ ChanT /\ TaskT /\ ValT /\ LinkT BY DEF RInv, RTypes
<1>1. /\ dead = "none" /\ dead' = "owner" /\ toOwner' = <<>>
      /\ UNCHANGED <<closed, buffer, recv_waiters, send_waiters, cap, refs, outbound,
                     parked_on_channel, wake, cancel_requested, park_epoch, op, opval, fate,
                     received, next_corr, pending, endpoint, opend, opcorr, noticed, lost>>
  BY DEF OwnerDies, vars, chanVars, coroVars, wakeVars
<1>2. RTypes'
  <2>1. ChanT' BY <1>0, <1>1 DEF ChanT
  <2>2. TaskT' BY <1>0, <1>1 DEF TaskT
  <2>3. ValT' BY <1>0, <1>1 DEF ValT
  <2>4. LinkT' BY <1>0, <1>1 DEF LinkT
  <2> QED BY <2>1, <2>2, <2>3, <2>4 DEF RTypes
<1>3. OneStage'
  <2>1. Once(<<>>, ReqKey, 0) /\ \A k : ~Has(<<>>, ReqKey, k) BY HasNone
  <2>2. OneStage BY <1>1 DEF RInv
  <2> QED BY <1>1, <2>1, <2>2 DEF OneStage, Alone
<1> QED BY <1>1, <1>2, <1>3 DEF RInv

(* RemoteDies: a receive still wanted has a counted endpoint behind it or   *)
(* its retraction on the lane, so the purge finds the channel hosted.       *)
LEMMA RemoteDiesKeeps ==
  ASSUME RInv, NoticedOK, RemoteDies PROVE RInv'
<1>0. RTypes /\ ChanT /\ TaskT /\ ValT /\ LinkT BY DEF RInv, RTypes
<1>1. /\ dead = "none" /\ dead' = "remote" /\ outbound' = <<>> /\ pending' = {}
      /\ parked_on_channel' = [t \in Tasks |-> t \in LocalTasks /\ parked_on_channel[t]]
      /\ wake' = [t \in Tasks |-> IF t \in LocalTasks THEN wake[t] ELSE NoWake]
      /\ op' = [t \in Tasks |-> IF t \in LocalTasks THEN op[t] ELSE "none"]
      /\ opval' = [t \in Tasks |-> IF t \in LocalTasks THEN opval[t] ELSE NoVal]
      /\ UNCHANGED <<closed, buffer, recv_waiters, send_waiters, cap, refs, cancel_requested,
                     park_epoch, fate, received, toOwner, next_corr, endpoint, opend, opcorr,
                     noticed, lost>>
  BY DEF RemoteDies, chanVars
<1>2. RTypes'
  <2>1. ChanT' BY <1>0, <1>1 DEF ChanT
  <2>2. NoWake \in RWakes BY DEF RWakes, Wakes, NoWake, Wake
  <2>3. parked_on_channel' \in [Tasks -> BOOLEAN] BY <1>0, <1>1 DEF TaskT
  <2>4. wake' \in [Tasks -> RWakes] BY <1>0, <1>1, <2>2 DEF TaskT
  <2>5. op' \in [Tasks -> {"none", "send", "recv"}] BY <1>0, <1>1 DEF TaskT
  <2>6. opval' \in [Tasks -> Values \cup {NoVal}] BY <1>0, <1>1 DEF TaskT
  <2>7. TaskT' BY <1>0, <1>1, <2>3, <2>4, <2>5, <2>6 DEF TaskT
  <2>8. ValT' BY <1>0, <1>1 DEF ValT
  <2>9. \A t \in RemoteTasks : op'[t] = "none" BY <1>1, ChannelAssumption DEF Tasks
  <2>10. LinkT' BY <1>0, <1>1, <2>9 DEF LinkT
  <2> QED BY <2>1, <2>7, <2>8, <2>10 DEF RTypes
<1>3. UpOK BY <1>1 DEF RInv
<1>4. ASSUME NEW c \in Corrs, Wanting(c)
      PROVE  RelCount(toOwner, Len(toOwner)) < refs \/ Retracted(toOwner, refs, c)
  <2>1. CASE \E t \in RemoteTasks : opcorr[t] = c
    <3>1. PICK t \in RemoteTasks : opcorr[t] = c BY <2>1
    <3>2. op[t] # "none" BY <1>3, <3>1 DEF UpOK, OpsOK, OpOK, Corrs
    <3>3. opend[t] \in Alive BY <1>3, <3>2 DEF UpOK, UsedOK, Alive
    <3>4. IsFiniteSet(Alive) /\ Cardinality(Alive) \in Nat BY AliveCount
    <3>5. Cardinality(Alive) # 0 BY <3>3, <3>4, FS_EmptySet
    <3>6. RelCount(toOwner, Len(toOwner)) \in Nat
      <4>1. Len(toOwner) \in Nat BY <1>0 DEF ChanT
      <4> QED BY <4>1, RelFinite
    <3>7. refs = Cardinality(Alive) + RelCount(toOwner, Len(toOwner)) BY <1>3 DEF UpOK, CountOK
    <3> QED BY <3>4, <3>5, <3>6, <3>7
  <2> QED BY <1>3, <1>4, <2>1 DEF UpOK, HeldOK
<1>5. PurgeOK'
  <2>1. noticed' = FALSE BY <1>1 DEF NoticedOK
  <2>2. \A c \in Corrs : Wanting(c)' =>
          RelCount(toOwner', Len(toOwner')) < refs' \/ Retracted(toOwner', refs', c)
    BY <1>1, <1>4 DEF Wanting, Wants
  <2> QED BY <2>1, <2>2 DEF PurgeOK
<1> QED BY <1>1, <1>2, <1>5 DEF RInv

(* The first state.                                                         *)
LEMMA RelayInit ==
  ASSUME RInit PROVE RInv /\ EpochOK /\ NoticedOK
<1>1. /\ cap \in Caps /\ closed = FALSE /\ buffer = <<>> /\ recv_waiters = <<>>
      /\ send_waiters = <<>> /\ refs = 0 /\ outbound = <<>> /\ toOwner = <<>>
      /\ parked_on_channel = [t \in Tasks |-> FALSE] /\ cancel_requested = [t \in Tasks |-> FALSE]
      /\ wake = [t \in Tasks |-> NoWake] /\ park_epoch = [t \in Tasks |-> 0]
      /\ op = [t \in Tasks |-> "none"] /\ opval = [t \in Tasks |-> NoVal]
      /\ fate = [v \in Values |-> "new"] /\ received = [v \in Values |-> 0]
      /\ next_corr = 1 /\ pending = {} /\ endpoint = [n \in Endpoints |-> "none"]
      /\ opend = [t \in RemoteTasks |-> NoEnd] /\ opcorr = [t \in RemoteTasks |-> 0]
      /\ dead = "none" /\ noticed = FALSE /\ lost = {}
  BY DEF RInit, Init
<1>2. NoWake \in RWakes /\ NoWake.kind = "none" BY DEF RWakes, Wakes, NoWake, Wake
<1>3. ChanT
  <2>1. closed \in BOOLEAN BY <1>1
  <2>2. cap \in Caps /\ refs \in Nat BY <1>1
  <2>3. buffer \in Seq(Values) BY <1>1
  <2>4. recv_waiters \in Seq(RecvEntries) BY <1>1
  <2>5. send_waiters \in Seq(SendEntries) BY <1>1
  <2>6. toOwner \in Seq(ToFrames) BY <1>1
  <2>7. outbound \in Seq(OutFrames) BY <1>1
  <2> QED BY <2>1, <2>2, <2>3, <2>4, <2>5, <2>6, <2>7 DEF ChanT
<1>4. TaskT BY <1>1, <1>2 DEF TaskT
<1>5. ValT BY <1>1 DEF ValT
<1>6. LinkT
  <2>1. \A t \in RemoteTasks : op[t] = "none" BY <1>1 DEF Tasks
  <2>2. next_corr \in Corrs BY <1>1 DEF Corrs
  <2>3. pending \in SUBSET Pendings BY <1>1
  <2>4. endpoint \in [Endpoints -> States] BY <1>1 DEF States
  <2>5. opend \in [RemoteTasks -> Endpoints \cup {NoEnd}] BY <1>1
  <2>6. opcorr \in [RemoteTasks -> Nat] BY <1>1
  <2>7. dead \in {"none", "owner", "remote"} BY <1>1
  <2>8. noticed \in BOOLEAN BY <1>1
  <2> QED BY <2>1, <2>2, <2>3, <2>4, <2>5, <2>6, <2>7, <2>8 DEF LinkT
<1>7. \A key, k : ~Has(<<>>, key, k) BY HasNone
<1>8. \A key, no : Once(<<>>, key, no) BY HasNone
<1>9. OneStage BY <1>1, <1>7, <1>8 DEF OneStage, Alone
<1>10. ParksOK /\ FitsOK BY <1>1, <1>2 DEF ParksOK, Parks, FitsOK
<1>11. \A c : ~Staged(c) BY <1>1, <1>7 DEF Staged, InStage
<1>12. PendingOK BY <1>1, <1>11 DEF PendingOK
<1>13. OpsOK BY <1>1, <1>2, <1>7 DEF OpsOK, OpOK, Tasks
<1>14. UsedOK BY <1>1 DEF UsedOK, Tasks
<1>15. CountOK
  <2>1. Alive = {} BY <1>1 DEF Alive
  <2>2. RelIn(<<>>, 0) = {} BY DEF RelIn
  <2>3. Cardinality({}) = 0 BY FS_EmptySet
  <2>4. Len(toOwner) = 0 BY <1>1
  <2>5. RelCount(toOwner, Len(toOwner)) = 0
    <3>1. RelCount(<<>>, 0) = 0 BY <2>2, <2>3 DEF RelCount
    <3> QED BY <1>1, <2>4, <3>1
  <2>6. Cardinality(Alive) = 0 BY <2>1, <2>3
  <2> QED BY <1>1, <2>5, <2>6 DEF CountOK
<1>16. HeldOK BY <1>1, <1>7 DEF HeldOK, Wanting, Wants
<1>17. Kept(fate, lost) = {} BY <1>1 DEF Kept
<1>18. SpotsOK
  <2>1. \A v : ~InW(wake, v) BY <1>1, <1>2 DEF InW
  <2>2. WOnce(wake) BY <1>1, <1>2 DEF WOnce
  <2>3. \A v \in Values : received[v] = 0 BY <1>1
  <2>4. \A v \in Values : ~At(buffer, wake, outbound, toOwner, received, v)
    BY <1>1, <1>7, <2>1, <2>3 DEF At
  <2>5. Spots(buffer, wake, outbound, toOwner, received, {})
    BY <1>1, <1>7, <1>8, <2>1, <2>2, <2>3, <2>4 DEF Spots
  <2> QED BY <1>1, <1>17, <2>5 DEF SpotsOK
<1>19. WayOK BY <1>1, <1>7, <1>8 DEF WayOK, Offered, Held
<1>20. SenderOK BY <1>1 DEF SenderOK, Tasks
<1>21. UpOK BY <1>10, <1>12, <1>13, <1>14, <1>15, <1>16, <1>18, <1>19, <1>20 DEF UpOK
<1>22. RInv BY <1>1, <1>3, <1>4, <1>5, <1>6, <1>9, <1>21 DEF RInv, RTypes
<1> QED BY <1>1, <1>22 DEF EpochOK, NoticedOK

(* The steps that leave the endpoint side's epochs and operations alone.    *)
FarStill ==
  /\ pending' \in SUBSET pending /\ opcorr' = opcorr
  /\ \A u \in RemoteTasks : op'[u] = op[u] /\ park_epoch'[u] = park_epoch[u]

(* A step of the owner leaves the epochs of the pending entries.            *)
LEMMA EpochStill ==
  ASSUME LinkT, EpochOK, FarStill PROVE EpochOK'
<1>1. \A p \in pending : p.task \in RemoteTasks BY DEF LinkT, Pendings
<1> QED BY <1>1 DEF EpochOK, FarStill

(* A local task touches its own operation only.                             *)
LEMMA OwnerTaskStill ==
  ASSUME TaskT, OwnerTask, UNCHANGED relayVars PROVE FarStill
<1>1. PICK t \in LocalTasks : \/ \E v \in Values : channel_send(t, v)
                              \/ channel_recv(t) \/ channel_close(t)
                              \/ ParkCancelled(t) \/ ParkEnds(t)
  BY DEF OwnerTask
<1>2. \A u \in RemoteTasks : u # t /\ u \in Tasks /\ t \in Tasks BY ChannelAssumption DEF Tasks
<1>3. DOMAIN op = Tasks /\ DOMAIN park_epoch = Tasks BY DEF TaskT
<1>4. CASE \E v \in Values : channel_send(t, v)
  <2>1. \/ op' = op
        \/ op' = [op EXCEPT ![t] = "send"]
    BY <1>4 DEF channel_send, SendRefused, SendHandOff, SendBuffered, SendParked, ParkTask, coroVars
  <2>2. park_epoch' = park_epoch BY <1>4 DEF channel_send
  <2>3. \A u \in RemoteTasks : op'[u] = op[u] BY <1>2, <1>3, <2>1
  <2> QED BY <2>2, <2>3 DEF FarStill, relayVars
<1>5. CASE channel_recv(t)
  <2>1. op' = op \/ op' = [op EXCEPT ![t] = "recv"]
    BY <1>5 DEF channel_recv, RecvNow, RecvClosed, RecvParked, ParkTask, coroVars
  <2>2. park_epoch' = park_epoch BY <1>5 DEF channel_recv
  <2>3. \A u \in RemoteTasks : op'[u] = op[u] BY <1>2, <1>3, <2>1
  <2> QED BY <2>2, <2>3 DEF FarStill, relayVars
<1>6. CASE channel_close(t)
  <2>1. UNCHANGED <<op, park_epoch>> BY <1>6 DEF channel_close, coroVars
  <2> QED BY <2>1 DEF FarStill, relayVars
<1>7. CASE ParkCancelled(t) \/ ParkEnds(t)
  <2>1. op' = [op EXCEPT ![t] = "none"] /\ park_epoch' = [park_epoch EXCEPT ![t] = park_epoch[t] + 1]
    BY <1>7 DEF ParkCancelled, ParkEnds, Resumes
  <2>2. \A u \in RemoteTasks : op'[u] = op[u] BY <1>2, <1>3, <2>1
  <2>3. \A u \in RemoteTasks : park_epoch'[u] = park_epoch[u] BY <1>2, <1>3, <2>1
  <2> QED BY <2>2, <2>3 DEF FarStill, relayVars
<1> QED BY <1>1, <1>4, <1>5, <1>6, <1>7

(* begin_op registers the epoch the task is in, the first of that epoch.    *)
LEMMA BeginEpoch ==
  ASSUME TaskT, LinkT, EpochOK, NEW t \in RemoteTasks, NEW n, NEW what, NEW v, op[t] = "none",
         begin_op(t, n, what, v), what # "none", park_epoch' = park_epoch
  PROVE  EpochOK'
<1> DEFINE e == [corr |-> next_corr, task |-> t, epoch |-> park_epoch[t]]
<1>1. pending' = pending \cup {e} /\ op' = [op EXCEPT ![t] = what]
        /\ opcorr' = [opcorr EXCEPT ![t] = next_corr]
  BY DEF begin_op, ParkTask
<1>2. e.corr = next_corr /\ e.task = t /\ e.epoch = park_epoch[t] OBVIOUS
<1> HIDE DEF e
<1>3. t \in Tasks /\ park_epoch[t] \in Nat BY DEF TaskT, Tasks
<1>4. op'[t] = what /\ \A u \in RemoteTasks \ {t} : op'[u] = op[u]
  BY <1>1, <1>3 DEF TaskT, Tasks
<1>5. opcorr'[t] = next_corr /\ \A u \in RemoteTasks \ {t} : opcorr'[u] = opcorr[u]
  BY <1>1 DEF LinkT
<1>6. ASSUME NEW p \in pending'
      PROVE  /\ p.epoch <= park_epoch'[p.task]
             /\ p.epoch = park_epoch'[p.task] => op'[p.task] # "none" /\ opcorr'[p.task] = p.corr
  <2>1. CASE p = e BY <1>2, <1>3, <1>4, <1>5, <2>1
  <2>2. CASE p \in pending
    <3>1. p.task \in RemoteTasks BY <2>2 DEF LinkT, Pendings
    <3>2. CASE p.task = t BY <2>2, <3>2 DEF EpochOK
    <3>3. CASE p.task # t BY <1>4, <1>5, <2>2, <3>1, <3>3 DEF EpochOK
    <3> QED BY <3>2, <3>3
  <2> QED BY <1>1, <2>1, <2>2
<1> QED BY <1>6 DEF EpochOK

(* RelayResume leaves the entry to an older epoch.                          *)
LEMMA ResumeEpoch ==
  ASSUME RTypes, EpochOK, NEW t \in RemoteTasks, RelayResume(t) PROVE EpochOK'
<1>0. TaskT /\ LinkT BY DEF RTypes
<1>1. /\ op'[t] = "none" /\ park_epoch'[t] = park_epoch[t] + 1 /\ pending' = pending
      /\ \A u \in Tasks \ {t} : SameOp(u)
      /\ \A u \in RemoteTasks \ {t} : opcorr'[u] = opcorr[u]
  BY ResumeWrites
<1>2. ASSUME NEW p \in pending
      PROVE  /\ p.epoch <= park_epoch'[p.task]
             /\ p.epoch = park_epoch'[p.task] => op'[p.task] # "none" /\ opcorr'[p.task] = p.corr
  <2>1. p.task \in RemoteTasks /\ p.task \in Tasks /\ p.epoch \in Nat
    BY <1>0 DEF LinkT, Pendings, Tasks
  <2>2. park_epoch[p.task] \in Nat BY <1>0, <2>1 DEF TaskT
  <2>3. CASE p.task = t
    <3>1. p.epoch <= park_epoch[t] BY <2>3 DEF EpochOK
    <3> QED BY <1>1, <2>1, <2>2, <2>3, <3>1
  <2>4. CASE p.task # t
    <3>1. op'[p.task] = op[p.task] /\ park_epoch'[p.task] = park_epoch[p.task]
            /\ opcorr'[p.task] = opcorr[p.task]
      BY <1>1, <2>1, <2>4 DEF SameOp
    <3> QED BY <3>1 DEF EpochOK
  <2> QED BY <2>3, <2>4
<1> QED BY <1>1, <1>2 DEF EpochOK

(* The side invariants are kept by every step.                              *)
LEMMA SideKept ==
  ASSUME RTypes, EpochOK, NoticedOK, RNext PROVE EpochOK' /\ NoticedOK'
<1>0. TaskT /\ LinkT BY DEF RTypes
<1>1. CASE OwnerUp /\ OwnerTask /\ UNCHANGED relayVars
  <2>1. FarStill BY <1>0, <1>1, OwnerTaskStill
  <2>2. NoticedOK' BY <1>1 DEF relayVars, NoticedOK
  <2> QED BY <1>0, <2>1, <2>2, EpochStill
<1>2. CASE \E t \in LocalTasks, n \in Endpoints : OwnerUp /\ ship_channel(t, n)
  <2>1. UNCHANGED <<op, park_epoch, pending, opcorr, dead, noticed>>
    BY <1>2 DEF ship_channel, coroVars
  <2>2. FarStill BY <2>1 DEF FarStill
  <2> QED BY <1>0, <2>1, <2>2, EpochStill DEF NoticedOK
<1>3. CASE \E t \in Tasks : request_cancel(t) /\ UNCHANGED relayVars
  <2>1. UNCHANGED <<op, park_epoch, pending, opcorr, dead, noticed>>
    BY <1>3 DEF request_cancel, coroVars, relayVars
  <2>2. FarStill BY <2>1 DEF FarStill
  <2> QED BY <1>0, <2>1, <2>2, EpochStill DEF NoticedOK
<1>4. CASE \E n \in Endpoints : relay_endpoint(n) \/ drop(n)
  <2>1. UNCHANGED <<op, park_epoch, pending, opcorr, dead, noticed>>
    BY <1>4 DEF relay_endpoint, drop, vars, coroVars
  <2>2. FarStill BY <2>1 DEF FarStill
  <2> QED BY <1>0, <2>1, <2>2, EpochStill DEF NoticedOK
<1>5. CASE \E t \in RemoteTasks, n \in Endpoints, v \in Values : relay_send(t, n, v)
  <2>1. PICK t \in RemoteTasks, n \in Endpoints, v \in Values : relay_send(t, n, v) BY <1>5
  <2>2. UNCHANGED <<park_epoch, dead, noticed>> /\ op[t] = "none"
    BY <2>1 DEF relay_send, UsesEndpoint, Idle
  <2>3. \/ begin_op(t, n, "send", v)
        \/ UNCHANGED <<pending, opcorr, op>>
    BY <2>1 DEF relay_send, begin_op_fails, coroVars
  <2>4. EpochOK'
    <3>1. CASE begin_op(t, n, "send", v)
      <4> DEFINE what == "send"
      <4>1. begin_op(t, n, what, v) /\ what # "none" BY <3>1
      <4> HIDE DEF what
      <4> QED BY <1>0, <2>2, <4>1, BeginEpoch
    <3>2. CASE UNCHANGED <<pending, opcorr, op>>
      <4>1. FarStill BY <2>2, <3>2 DEF FarStill
      <4> QED BY <1>0, <4>1, EpochStill
    <3> QED BY <2>3, <3>1, <3>2
  <2> QED BY <2>2, <2>4 DEF NoticedOK
<1>6. CASE \E t \in RemoteTasks, n \in Endpoints : relay_recv(t, n)
  <2>1. PICK t \in RemoteTasks, n \in Endpoints : relay_recv(t, n) BY <1>6
  <2>2. UNCHANGED <<park_epoch, dead, noticed>> /\ op[t] = "none"
    BY <2>1 DEF relay_recv, UsesEndpoint, Idle
  <2>3. \/ begin_op(t, n, "recv", NoVal)
        \/ UNCHANGED <<pending, opcorr, op>>
    BY <2>1 DEF relay_recv, begin_op_fails, coroVars
  <2>4. EpochOK'
    <3>1. CASE begin_op(t, n, "recv", NoVal)
      <4> DEFINE what == "recv"
      <4>1. begin_op(t, n, what, NoVal) /\ what # "none" BY <3>1
      <4> HIDE DEF what
      <4> QED BY <1>0, <2>2, <4>1, BeginEpoch
    <3>2. CASE UNCHANGED <<pending, opcorr, op>>
      <4>1. FarStill BY <2>2, <3>2 DEF FarStill
      <4> QED BY <1>0, <4>1, EpochStill
    <3> QED BY <2>3, <3>1, <3>2
  <2> QED BY <2>2, <2>4 DEF NoticedOK
<1>7. CASE \E t \in RemoteTasks, n \in Endpoints : relay_close(t, n)
  <2>1. UNCHANGED <<op, park_epoch, pending, opcorr, dead, noticed>>
    BY <1>7 DEF relay_close, vars, coroVars
  <2>2. FarStill BY <2>1 DEF FarStill
  <2> QED BY <1>0, <2>1, <2>2, EpochStill DEF NoticedOK
<1>8. CASE \E t \in RemoteTasks : RelayResume(t)
  <2>1. PICK t \in RemoteTasks : RelayResume(t) BY <1>8
  <2>2. EpochOK' BY <2>1, ResumeEpoch
  <2> QED BY <2>1, <2>2 DEF NoticedOK, RelayResume
<1>9. CASE EndpointAgent
  <2>1. UNCHANGED <<op, park_epoch, opcorr, dead, noticed>> /\ pending' \in SUBSET pending
    BY <1>9 DEF EndpointAgent, coroVars
  <2>2. FarStill BY <2>1 DEF FarStill
  <2> QED BY <1>0, <2>1, <2>2, EpochStill DEF NoticedOK
<1>10. CASE EndpointAgentEnds
  <2>1. UNCHANGED <<op, park_epoch, opcorr>> /\ pending' = {} /\ dead' = "owner"
    BY <1>10 DEF EndpointAgentEnds, coroVars
  <2> QED BY <2>1 DEF EpochOK, NoticedOK
<1>11. CASE OwnerAgent
  <2>1. UNCHANGED <<op, park_epoch, pending, opcorr, dead, noticed>>
    BY <1>11 DEF OwnerAgent, coroVars
  <2>2. FarStill BY <2>1 DEF FarStill
  <2> QED BY <1>0, <2>1, <2>2, EpochStill DEF NoticedOK
<1>12. CASE channel_link_died
  <2>1. UNCHANGED <<op, park_epoch, pending, opcorr>> /\ dead' = "remote"
    BY <1>12 DEF channel_link_died, coroVars
  <2>2. FarStill BY <2>1 DEF FarStill
  <2> QED BY <1>0, <2>1, <2>2, EpochStill DEF NoticedOK
<1>13. CASE OwnerDies
  <2>1. UNCHANGED <<op, park_epoch, pending, opcorr>> /\ dead' = "owner"
    BY <1>13 DEF OwnerDies, vars, coroVars
  <2>2. FarStill BY <2>1 DEF FarStill
  <2> QED BY <1>0, <2>1, <2>2, EpochStill DEF NoticedOK
<1>14. CASE RemoteDies
  <2>1. pending' = {} /\ dead' = "remote" BY <1>14 DEF RemoteDies
  <2> QED BY <2>1 DEF EpochOK, NoticedOK
<1>15. CASE WriterEnds
  <2>1. UNCHANGED <<op, park_epoch, pending, opcorr, dead, noticed>>
    BY <1>15 DEF WriterEnds, vars, coroVars
  <2>2. FarStill BY <2>1 DEF FarStill
  <2> QED BY <1>0, <2>1, <2>2, EpochStill DEF NoticedOK
<1> QED BY <1>1, <1>2, <1>3, <1>4, <1>5, <1>6, <1>7, <1>8, <1>9, <1>10, <1>11, <1>12, <1>13, <1>14,
           <1>15
     DEF RNext, Tasks

(* The inductive invariant.                                                 *)
RelayInv == RInv /\ EpochOK /\ NoticedOK

(* A step that changes nothing it speaks of keeps it.                       *)
StateKept ==
  UNCHANGED <<closed, buffer, recv_waiters, send_waiters, cap, refs, outbound,
              parked_on_channel, wake, cancel_requested, park_epoch, op, opval, fate,
              received, toOwner, next_corr, pending, endpoint, opend, opcorr, dead,
              noticed, lost>>

(* Such a step is one that stutters, or that only closes the outbound lane. *)
LEMMA RelayStutter ==
  ASSUME RelayInv, StateKept PROVE RelayInv'
<1>1. UNCHANGED <<closed, buffer, recv_waiters, send_waiters, cap, refs, outbound,
                  parked_on_channel, wake, cancel_requested, park_epoch, op, opval, fate,
                  received, toOwner, next_corr, pending, endpoint, opend, opcorr, dead,
                  noticed, lost>>
  BY DEF StateKept
<1>2. RTypes' <=> RTypes BY <1>1 DEF RTypes, ChanT, TaskT, ValT, LinkT
<1>3. OneStage' <=> OneStage BY <1>1 DEF OneStage
<1>4. \A c : Staged(c)' <=> Staged(c) BY <1>1 DEF Staged
<1>5. \A c : Wanting(c)' <=> Wanting(c) BY <1>1 DEF Wanting
<1>6. Alive' = Alive BY <1>1 DEF Alive
<1>7. ParksOK' <=> ParksOK BY <1>1 DEF ParksOK, Parks
<1>8. FitsOK' <=> FitsOK BY <1>1 DEF FitsOK, LocalFits
<1>9. PendingOK' <=> PendingOK BY <1>1, <1>4 DEF PendingOK
<1>10. OpsOK' <=> OpsOK BY <1>1 DEF OpsOK, OpOK, Staged
<1>11. UsedOK' <=> UsedOK BY <1>1 DEF UsedOK
<1>12. CountOK' <=> CountOK BY <1>1, <1>6 DEF CountOK
<1>13. HeldOK' <=> HeldOK BY <1>1, <1>5 DEF HeldOK
<1>14. SpotsOK' <=> SpotsOK BY <1>1 DEF SpotsOK
<1>15. WayOK' <=> WayOK BY <1>1 DEF WayOK, Offered, Held
<1>16. SenderOK' <=> SenderOK BY <1>1 DEF SenderOK, Offered, Held, OfferFits
<1>17. PurgeOK' <=> PurgeOK BY <1>1, <1>5 DEF PurgeOK, Undelivered
<1>18. UpOK' <=> UpOK
  BY <1>7, <1>8, <1>9, <1>10, <1>11, <1>12, <1>13, <1>14, <1>15, <1>16 DEF UpOK
<1>19. RInv' <=> RInv BY <1>1, <1>2, <1>3, <1>17, <1>18 DEF RInv
<1>20. EpochOK' /\ NoticedOK' BY <1>1 DEF RelayInv, EpochOK, NoticedOK
<1> QED BY <1>19, <1>20 DEF RelayInv

(* Every step keeps it, one lemma per action.                               *)
LEMMA RelayStep ==
  ASSUME RelayInv, RNext PROVE RelayInv'
<1>0. RInv /\ EpochOK /\ NoticedOK /\ RTypes BY DEF RelayInv, RInv
<1>1. EpochOK' /\ NoticedOK' BY <1>0, SideKept
<1>2. RInv'
  <2>1. CASE OwnerUp /\ OwnerTask /\ UNCHANGED relayVars BY <1>0, <2>1, OwnerTaskKeeps
  <2>2. CASE \E t \in LocalTasks, n \in Endpoints : OwnerUp /\ ship_channel(t, n)
    BY <1>0, <2>2, ShipKeeps
  <2>3. CASE \E t \in LocalTasks : OwnerUp /\ request_cancel(t) /\ UNCHANGED relayVars
    <3>1. PICK t \in Tasks : request_cancel(t) /\ UNCHANGED relayVars BY <2>3 DEF Tasks
    <3> QED BY <1>0, <3>1, CancelRequestKeeps
  <2>4. CASE \E t \in RemoteTasks : RemoteUp /\ request_cancel(t) /\ UNCHANGED relayVars
    <3>1. PICK t \in Tasks : request_cancel(t) /\ UNCHANGED relayVars BY <2>4 DEF Tasks
    <3> QED BY <1>0, <3>1, CancelRequestKeeps
  <2>5. CASE \E n \in Endpoints : relay_endpoint(n) \/ drop(n) BY <1>0, <2>5, ArrivesKeeps
  <2>6. CASE \E t \in RemoteTasks, n \in Endpoints :
               \/ \E v \in Values : relay_send(t, n, v)
               \/ relay_recv(t, n) \/ relay_close(t, n)
    BY <1>0, <2>6, RelaySendKeeps, RelayRecvKeeps, RelayCloseKeeps
  <2>7. CASE \E t \in RemoteTasks : RelayResume(t) BY <1>0, <2>7, RelayResumeKeeps
  <2>8. CASE EndpointAgent BY <1>0, <2>8, EndpointAgentKeeps
  <2>9. CASE EndpointAgentEnds BY <1>0, <2>9, EndpointEndsKeeps
  <2>10. CASE OwnerAgent BY <1>0, <2>10, OwnerAgentKeeps
  <2>11. CASE channel_link_died BY <1>0, <2>11, LinkDiedKeeps
  <2>12. CASE OwnerDies BY <1>0, <2>12, OwnerDiesKeeps
  <2>13. CASE RemoteDies BY <1>0, <2>13, RemoteDiesKeeps
  <2>14. CASE WriterEnds
    <3>1. StateKept BY <2>14 DEF WriterEnds, StateKept, vars, chanVars, wakeVars, coroVars
    <3> QED BY <1>0, <3>1, RelayStutter DEF RelayInv
  <2> QED BY <2>1, <2>2, <2>3, <2>4, <2>5, <2>6, <2>7, <2>8, <2>9, <2>10, <2>11, <2>12, <2>13, <2>14
          DEF RNext
<1> QED BY <1>1, <1>2 DEF RelayInv

(* What the invariant says of the counts the properties are stated with.    *)
LEMMA StageCounts ==
  ASSUME RTypes, OneStage, NEW c \in Corrs
  PROVE  Stages(c) = IF Staged(c) THEN 1 ELSE 0
<1>0. /\ toOwner \in Seq(ToFrames) /\ recv_waiters \in Seq(RecvEntries)
      /\ send_waiters \in Seq(SendEntries) /\ outbound \in Seq(OutFrames)
  BY DEF RTypes, ChanT
<1> DEFINE A == {i \in 1..Len(toOwner) :
                   toOwner[i].type \in {"Send", "Recv"} /\ toOwner[i].corr = c}
           B == {i \in 1..Len(recv_waiters) : recv_waiters[i].remote /\ recv_waiters[i].id = c}
           D == {i \in 1..Len(send_waiters) : send_waiters[i].remote /\ send_waiters[i].id = c}
           E == {i \in 1..Len(outbound) : outbound[i].corr = c}
<1>1. A = {i \in 1..Len(toOwner) : ReqKey[toOwner[i]] = c}
  <2>1. \A i \in 1..Len(toOwner) : toOwner[i] \in ToFrames BY <1>0
  <2>2. \A f \in ToFrames : (f.type \in {"Send", "Recv"} /\ f.corr = c) <=> ReqKey[f] = c
    BY FrameKeys DEF Corrs
  <2> QED BY <2>1, <2>2
<1>2. B = {i \in 1..Len(recv_waiters) : WaitKey[recv_waiters[i]] = c}
  <2>1. \A i \in 1..Len(recv_waiters) : recv_waiters[i] \in Entries BY <1>0, EntryKeys
  <2>2. \A e \in Entries : (e.remote /\ e.id = c) <=> WaitKey[e] = c BY EntryKeys DEF Corrs
  <2> QED BY <2>1, <2>2
<1>3. D = {i \in 1..Len(send_waiters) : WaitKey[send_waiters[i]] = c}
  <2>1. \A i \in 1..Len(send_waiters) : send_waiters[i] \in Entries BY <1>0, EntryKeys
  <2>2. \A e \in Entries : (e.remote /\ e.id = c) <=> WaitKey[e] = c BY EntryKeys DEF Corrs
  <2> QED BY <2>1, <2>2
<1>4. E = {i \in 1..Len(outbound) : AnsKey[outbound[i]] = c}
  <2>1. \A i \in 1..Len(outbound) : outbound[i] \in OutFrames BY <1>0
  <2>2. \A f \in OutFrames : f.corr = c <=> AnsKey[f] = c BY FrameKeys
  <2> QED BY <2>1, <2>2
<1>5. /\ Once(toOwner, ReqKey, 0) /\ Once(recv_waiters, WaitKey, 0)
      /\ Once(send_waiters, WaitKey, 0) /\ Once(outbound, AnsKey, 0) /\ c # 0
  BY DEF OneStage, Alone, Corrs
<1>6. Cardinality(A) = IF Has(toOwner, ReqKey, c) THEN 1 ELSE 0
  <2>1. Cardinality({i \in 1..Len(toOwner) : ReqKey[toOwner[i]] = c})
          = IF Has(toOwner, ReqKey, c) THEN 1 ELSE 0
    BY <1>5, CountOnce
  <2> QED BY <1>1, <2>1
<1>7. Cardinality(B) = IF Has(recv_waiters, WaitKey, c) THEN 1 ELSE 0
  <2>1. Cardinality({i \in 1..Len(recv_waiters) : WaitKey[recv_waiters[i]] = c})
          = IF Has(recv_waiters, WaitKey, c) THEN 1 ELSE 0
    BY <1>5, CountOnce
  <2> QED BY <1>2, <2>1
<1>8. Cardinality(D) = IF Has(send_waiters, WaitKey, c) THEN 1 ELSE 0
  <2>1. Cardinality({i \in 1..Len(send_waiters) : WaitKey[send_waiters[i]] = c})
          = IF Has(send_waiters, WaitKey, c) THEN 1 ELSE 0
    BY <1>5, CountOnce
  <2> QED BY <1>3, <2>1
<1>9. Cardinality(E) = IF Has(outbound, AnsKey, c) THEN 1 ELSE 0
  <2>1. Cardinality({i \in 1..Len(outbound) : AnsKey[outbound[i]] = c})
          = IF Has(outbound, AnsKey, c) THEN 1 ELSE 0
    BY <1>5, CountOnce
  <2> QED BY <1>4, <2>1
<1>10. Stages(c) = Cardinality(A) + Cardinality(B) + Cardinality(D) + Cardinality(E) BY DEF Stages
<1> HIDE DEF A, B, D, E
<1> QED BY <1>6, <1>7, <1>8, <1>9, <1>10 DEF OneStage, Alone, Staged, InStage

(* A value occurs once in the spot that holds it.                           *)
LEMMA SpotCounts ==
  ASSUME RTypes, SpotsOK, NEW v \in Values
  PROVE  Copies(v) + Carried(outbound, {"Value"}, v) + Carried(toOwner, {"Return"}, v)
           = IF v \in Kept(fate, lost) THEN 1 ELSE 0
<1>0. /\ toOwner \in Seq(ToFrames) /\ outbound \in Seq(OutFrames) /\ buffer \in Seq(Values)
      /\ wake \in [Tasks -> RWakes]
  BY DEF RTypes, ChanT, TaskT
<1>n. v # NoVal BY ChannelAssumption
<1>1. Spots(buffer, wake, outbound, toOwner, received, Kept(fate, lost)) BY DEF SpotsOK
<1> DEFINE A == {i \in 1..Len(buffer) : buffer[i] = v}
           B == {t \in Tasks : wake[t] = Wake("Recv", v)}
           D == {i \in 1..Len(outbound) : outbound[i].type \in {"Value"} /\ outbound[i].val = v}
           E == {i \in 1..Len(toOwner) : toOwner[i].type \in {"Return"} /\ toOwner[i].val = v}
<1>2. Cardinality(A) = IF Has(buffer, Self, v) THEN 1 ELSE 0
  <2>1. \A i \in 1..Len(buffer) : buffer[i] = v <=> Self[buffer[i]] = v BY <1>0 DEF Self
  <2>2. A = {i \in 1..Len(buffer) : Self[buffer[i]] = v} BY <2>1
  <2>3. Once(buffer, Self, NoVal) BY <1>1 DEF Spots
  <2>4. Cardinality({i \in 1..Len(buffer) : Self[buffer[i]] = v})
          = IF Has(buffer, Self, v) THEN 1 ELSE 0
    BY <1>n, <2>3, CountOnce
  <2> QED BY <2>2, <2>4
<1>3. Cardinality(B) = IF InW(wake, v) THEN 1 ELSE 0
  <2>1. \A t \in Tasks : wake[t] = Wake("Recv", v) <=> wake[t].kind = "Recv" /\ wake[t].val = v
    <3>1. \A w \in RWakes : w = [kind |-> w.kind, val |-> w.val] BY DEF RWakes, Wakes
    <3> QED BY <1>0, <3>1 DEF Wake
  <2>2. CASE InW(wake, v)
    <3>1. PICK t \in Tasks : wake[t].kind = "Recv" /\ wake[t].val = v BY <2>2 DEF InW
    <3>2. B = {t} BY <1>1, <2>1, <3>1 DEF Spots, WOnce
    <3> QED BY <2>2, <3>2, FS_Singleton
  <2>3. CASE ~InW(wake, v)
    <3>1. B = {} BY <2>1, <2>3 DEF InW
    <3> QED BY <2>3, <3>1, FS_EmptySet
  <2> QED BY <2>2, <2>3
<1>4. Cardinality(D) = IF Has(outbound, ValKey, v) THEN 1 ELSE 0
  <2>1. \A i \in 1..Len(outbound) : outbound[i] \in OutFrames BY <1>0
  <2>2. \A f \in OutFrames : (f.type \in {"Value"} /\ f.val = v) <=> ValKey[f] = v
    BY <1>n, FrameKeys
  <2>3. D = {i \in 1..Len(outbound) : ValKey[outbound[i]] = v} BY <2>1, <2>2
  <2>4. Once(outbound, ValKey, NoVal) BY <1>1 DEF Spots
  <2>5. Cardinality({i \in 1..Len(outbound) : ValKey[outbound[i]] = v})
          = IF Has(outbound, ValKey, v) THEN 1 ELSE 0
    BY <1>n, <2>4, CountOnce
  <2> QED BY <2>3, <2>5
<1>5. Cardinality(E) = IF Has(toOwner, RetKey, v) THEN 1 ELSE 0
  <2>1. \A i \in 1..Len(toOwner) : toOwner[i] \in ToFrames BY <1>0
  <2>2. \A f \in ToFrames : (f.type \in {"Return"} /\ f.val = v) <=> RetKey[f] = v
    BY <1>n, FrameKeys
  <2>3. E = {i \in 1..Len(toOwner) : RetKey[toOwner[i]] = v} BY <2>1, <2>2
  <2>4. Once(toOwner, RetKey, NoVal) BY <1>1 DEF Spots
  <2>5. Cardinality({i \in 1..Len(toOwner) : RetKey[toOwner[i]] = v})
          = IF Has(toOwner, RetKey, v) THEN 1 ELSE 0
    BY <1>n, <2>4, CountOnce
  <2> QED BY <2>3, <2>5
<1>6. Copies(v) = Cardinality(A) + Cardinality(B) + received[v] BY DEF Copies
<1>7. Carried(outbound, {"Value"}, v) = Cardinality(D) BY DEF Carried
<1>8. Carried(toOwner, {"Return"}, v) = Cardinality(E) BY DEF Carried
<1> HIDE DEF A, B, D, E
<1> DEFINE b == Has(buffer, Self, v)
           w == InW(wake, v)
           o == Has(outbound, ValKey, v)
           r == Has(toOwner, RetKey, v)
           k == v \in Kept(fate, lost)
<1>9. /\ b => ~w /\ ~o /\ ~r /\ received[v] = 0
      /\ w => ~o /\ ~r /\ received[v] = 0
      /\ o => ~r /\ received[v] = 0
      /\ r => received[v] = 0
      /\ received[v] \in {0, 1}
      /\ k <=> (b \/ w \/ o \/ r \/ received[v] = 1)
  BY <1>1 DEF Spots, At
<1>10. /\ Cardinality(A) = (IF b THEN 1 ELSE 0) /\ Cardinality(B) = (IF w THEN 1 ELSE 0)
       /\ Cardinality(D) = (IF o THEN 1 ELSE 0) /\ Cardinality(E) = (IF r THEN 1 ELSE 0)
  BY <1>2, <1>3, <1>4, <1>5
<1> HIDE DEF b, w, o, r, k
<1>11. Cardinality(A) + Cardinality(B) + received[v] + Cardinality(D) + Cardinality(E)
         = IF k THEN 1 ELSE 0
  BY <1>9, <1>10
<1> QED BY <1>6, <1>7, <1>8, <1>11 DEF k

(* The inductive invariant holds in every reachable state.                  *)
LEMMA RelayInvHolds == RSpec => []RelayInv
<1>1. RInit => RelayInv BY RelayInit DEF RelayInv
<1>2. RelayInv /\ [RNext]_allVars => RelayInv'
  <2> SUFFICES ASSUME RelayInv, [RNext]_allVars PROVE RelayInv' OBVIOUS
  <2>1. CASE RNext BY <2>1, RelayStep
  <2>2. CASE UNCHANGED allVars
    <3>1. StateKept BY <2>2 DEF StateKept, allVars, vars, relayVars, chanVars, wakeVars, coroVars
    <3> QED BY <3>1, RelayStutter
  <2> QED BY <2>1, <2>2
<1> QED BY <1>1, <1>2, PTL DEF RSpec

(* A value in one spot is counted once.                                     *)
LEMMA ConservedOf == RelayInv => RelayConserved
<1> SUFFICES ASSUME RelayInv PROVE RelayConserved OBVIOUS
<1> SUFFICES ASSUME dead = "none", NEW v \in Values
             PROVE  Copies(v) + Carried(outbound, {"Value"}, v) + Carried(toOwner, {"Return"}, v)
                      = IF fate[v] = "accepted" /\ v \notin lost THEN 1 ELSE 0
  BY DEF RelayConserved
<1>1. RTypes /\ SpotsOK BY DEF RelayInv, RInv, UpOK
<1>2. Copies(v) + Carried(outbound, {"Value"}, v) + Carried(toOwner, {"Return"}, v)
        = IF v \in Kept(fate, lost) THEN 1 ELSE 0
  BY <1>1, SpotCounts
<1>3. v \in Kept(fate, lost) <=> fate[v] = "accepted" /\ v \notin lost BY DEF Kept
<1> QED BY <1>2, <1>3

(* A parked operation is staged, once, and pending.                         *)
LEMMA AnsweredOf == RelayInv => ParkedRemotelyIsAnswered
<1> SUFFICES ASSUME RelayInv PROVE ParkedRemotelyIsAnswered OBVIOUS
<1> SUFFICES ASSUME dead = "none", NEW t \in RemoteTasks, parked_on_channel[t]
             PROVE  /\ Stages(opcorr[t]) = 1
                    /\ [corr |-> opcorr[t], task |-> t, epoch |-> park_epoch[t]] \in pending
  BY DEF ParkedRemotelyIsAnswered
<1>1. RTypes /\ OneStage /\ ParksOK /\ OpsOK BY DEF RelayInv, RInv, UpOK
<1>2. op[t] # "none" BY <1>1 DEF ParksOK, Parks, Tasks
<1> DEFINE c == opcorr[t]
<1>3. c \in Corrs BY <1>1, <1>2 DEF RTypes, LinkT, Corrs
<1>4. Staged(c) /\ [corr |-> c, task |-> t, epoch |-> park_epoch[t]] \in pending
  BY <1>1 DEF OpsOK, OpOK
<1> HIDE DEF c
<1>5. Stages(c) = 1 BY <1>1, <1>3, <1>4, StageCounts
<1> QED BY <1>4, <1>5 DEF c

(* One stage is at most one answer; the counts and the purge as they stand. *)
LEMMA AgreesOf == RelayInv => LinkAgrees
<1> SUFFICES ASSUME RelayInv PROVE LinkAgrees OBVIOUS
<1>1. OneAnswer
  <2> SUFFICES ASSUME RemoteUp, NEW c \in 1..MaxCorr PROVE Stages(c) <= 1 BY DEF OneAnswer
  <2>1. RTypes /\ OneStage BY DEF RelayInv, RInv, RemoteUp
  <2>2. c \in Corrs BY RelayAssumption DEF Corrs
  <2>3. Stages(c) = IF Staged(c) THEN 1 ELSE 0 BY <2>1, <2>2, StageCounts
  <2> QED BY <2>3
<1>2. RefsCoverEndpoints
  BY DEF RelayInv, RInv, UpOK, CountOK, Alive, RelCount, RelIn, RefsCoverEndpoints
<1>3. DeadLinkPurged
  <2> SUFFICES ASSUME dead = "remote", noticed
               PROVE  (refs > 0 => Undelivered) /\ \A e \in ToSet(recv_waiters) : ~e.remote
    BY DEF DeadLinkPurged, Undelivered
  <2>1. (refs > 0 => Undelivered) /\ \A i \in 1..Len(recv_waiters) : ~recv_waiters[i].remote
    BY DEF RelayInv, RInv, PurgeOK
  <2>2. recv_waiters \in Seq(RecvEntries) BY DEF RelayInv, RInv, RTypes, ChanT
  <2>3. ToSet(recv_waiters) = {recv_waiters[i] : i \in 1..Len(recv_waiters)} BY <2>2 DEF ToSet
  <2> QED BY <2>1, <2>3
<1> QED BY <1>1, <1>2, <1>3 DEF LinkAgrees

(* Across the relay no value is lost or duplicated: while both isolates     *)
(* live, a value whose send was acknowledged is in the owner's buffer, in   *)
(* one wake, in one Value frame, in one Return frame or received once,      *)
(* whatever retractions, closes, releases and cancelled receivers           *)
(* (channel_apply_owner_frame, relay_agent) come between; and one that was  *)
(* not accepted is nowhere.                                                 *)
THEOREM RelayedConserved == RSpec => []RelayConserved
BY RelayInvHolds, ConservedOf, PTL

(* A task parked on an endpoint waits for something: its operation is in    *)
(* exactly one stage (the request on the lane, an entry in one of the       *)
(* owner's queues, or the answer on the way back) and its pending entry     *)
(* holds the epoch of that very park, so that relay_agent wakes it.         *)
THEOREM RelayedAnswered == RSpec => []ParkedRemotelyIsAnswered
BY RelayInvHolds, AnsweredOf, PTL

(* The two ends agree: a correlation is answered at most once, the owner's  *)
(* reference count is the number of endpoints that can still reach it and   *)
(* of releases on the way, and after channel_link_died no receiver of a     *)
(* dead isolate is queued and no reference is held but by a channel shipped *)
(* to it since - which ship_channel does not refuse.                        *)
THEOREM RelayedAgrees == RSpec => []LinkAgrees
BY RelayInvHolds, AgreesOf, PTL
=============================================================================
