-------------------------- MODULE CacheLabProofs ---------------------------
(***************************************************************************)
(* csim implements SetLRU, for any sizes of the cache and any traces, it   *)
(* counts what the reference simulator counts, and test-csim loads the     *)
(* results of the simulator it has run: so its marks are fair.             *)
(*                                                                         *)
(* The abstract list of a set is made of its time stamps by counting the   *)
(* lines that are not older.  The invariant has instead, for each set, a   *)
(* sequence q of its valid lines from the latest used to the one used      *)
(* longest ago; an access changes q as SetLRU changes its list.            *)
(***************************************************************************)
EXTENDS CSimLRU, FiniteSetTheorems, SequenceTheorems, WellFoundedInduction, TLAPS

Line == [dirty : {0, 1}, valid : {0, 1}, tag : Nat, lru_counter : Nat]

Way(E) == 0 .. E - 1

CacheSet(E) == [Way(E) -> Line]

(* q has the valid lines of a set, the latest used first.                  *)
Ordered(set, q) ==
  /\ \A r \in 1 .. Len(q) : q[r] \in Used(set)
  /\ \A j \in Used(set) : \E r \in 1 .. Len(q) : q[r] = j
  /\ \A r, x \in 1 .. Len(q) : r < x => set[q[r]].lru_counter > set[q[x]].lru_counter

(* The time stamps are of the past and tell the lines apart, and no block  *)
(* is in two lines.                                                        *)
SetOK(set, E, now) ==
  /\ set \in CacheSet(E)
  /\ \A j \in Way(E) : set[j].lru_counter <= now
  /\ \A j, k \in Used(set) : set[j].tag = set[k].tag => j = k
  /\ \E q \in Seq(Way(E)) : Ordered(set, q)

-----------------------------------------------------------------------------
(* Lists and numbers                                                       *)

LEMMA LeastElement ==
  ASSUME NEW S \in SUBSET Nat, S # {}
  PROVE  \E m \in S : \A k \in S : m <= k
<1> DEFINE R == {ss \in Nat \X Nat : ss[1] < ss[2]}
<1>1. IsWellFoundedOn(R, Nat)
  BY NatLessThanWellFounded DEF OpToRel
<1>2. PICK m \in S : \A k \in S : ~(<<k, m>> \in R)
  <2> HIDE DEF R
  <2> QED BY <1>1, WFMin
<1>3. \A k \in S : ~(k < m)
  BY <1>2
<1> QED BY <1>3

LEMMA LowestIs ==
  ASSUME NEW S \in SUBSET Nat
  PROVE  /\ S # {} => Lowest(S) \in S
         /\ \A x : S = {x} => Lowest(S) = x
<1>1. ASSUME S # {} PROVE Lowest(S) \in S
  <2> DEFINE P(m) == \A k \in S : m <= k
  <2>1. \E m \in S : P(m)
    BY <1>1, LeastElement
  <2>2. Lowest(S) = CHOOSE m \in S : P(m)
    BY DEF Lowest
  <2> HIDE DEF P
  <2> QED BY <2>1, <2>2
<1> QED BY <1>1

LEMMA FunctionIsSeq ==
  ASSUME NEW S, NEW m \in Nat, NEW f \in [1 .. m -> S]
  PROVE  f \in Seq(S) /\ Len(f) = m
OBVIOUS

(* A set listed without repetition has as many elements as the list.       *)
LEMMA ListedSet ==
  ASSUME NEW S, NEW s \in Seq(S), \A r, x \in 1 .. Len(s) : s[r] = s[x] => r = x
  PROVE  IsFiniteSet(Range(s)) /\ Cardinality(Range(s)) = Len(s)
<1>1. Len(s) \in Nat /\ DOMAIN s = 1 .. Len(s)
  OBVIOUS
<1>2. s \in Bijection(1 .. Len(s), Range(s))
  BY <1>1 DEF Bijection, Injection, Surjection, Range, IsInjective
<1>3. ExistsBijection(1 .. Len(s), Range(s))
  BY <1>2 DEF ExistsBijection
<1> QED BY <1>1, <1>3, FS_CountingElements, FS_NatBijection

LEMMA Ways ==
  ASSUME NEW E \in Nat
  PROVE  IsFiniteSet(Way(E)) /\ Cardinality(Way(E)) = E /\ Way(E) \subseteq Nat
<1>1. IsFiniteSet(0 .. E - 1) /\ Cardinality(0 .. E - 1) = IF 0 > E - 1 THEN 0 ELSE E - 1 - 0 + 1
  BY FS_Interval
<1> QED BY <1>1 DEF Way

(* What an ordered sequence says of its set.                               *)
LEMMA OrderedFacts ==
  ASSUME NEW E \in Nat, NEW set \in CacheSet(E), NEW q \in Seq(Way(E)), Ordered(set, q)
  PROVE  /\ Len(q) \in Nat /\ DOMAIN q = 1 .. Len(q)
         /\ \A r \in 1 .. Len(q) : q[r] \in Way(E) /\ set[q[r]] \in Line /\ set[q[r]].valid = 1
         /\ \A r, x \in 1 .. Len(q) : q[r] = q[x] => r = x
         /\ Used(set) = Range(q) /\ Used(set) \subseteq Way(E)
         /\ Cardinality(Used(set)) = Len(q) /\ IsFiniteSet(Used(set))
<1>1. Len(q) \in Nat /\ DOMAIN q = 1 .. Len(q)
  OBVIOUS
<1>2. \A r \in 1 .. Len(q) : q[r] \in Way(E) /\ set[q[r]] \in Line /\ set[q[r]].valid = 1
  BY DEF Ordered, Used, CacheSet
<1>3. ASSUME NEW r \in 1 .. Len(q), NEW x \in 1 .. Len(q), q[r] = q[x] PROVE r = x
  <2>1. set[q[r]].lru_counter \in Nat
    BY <1>2 DEF Line
  <2>2. ~(r < x) /\ ~(x < r)
    BY <1>3, <2>1 DEF Ordered
  <2> QED BY <1>1, <2>2
<1>4. Used(set) = Range(q)
  BY <1>1 DEF Ordered, Range
<1>5. Used(set) \subseteq Way(E)
  BY DEF Used, CacheSet
<1> QED BY <1>1, <1>2, <1>3, <1>4, <1>5, ListedSet

(* The abstract list is the ordered sequence.                              *)
LEMMA RecencyIs ==
  ASSUME NEW E \in Nat, NEW set \in CacheSet(E), NEW q \in Seq(Way(E)), Ordered(set, q)
  PROVE  Recency(set) = [r \in 1 .. Len(q) |-> Entry(set[q[r]])]
<1> DEFINE Rank(j) == Cardinality({k \in Used(set) : set[k].lru_counter >= set[j].lru_counter})
<1>1. /\ Len(q) \in Nat /\ DOMAIN q = 1 .. Len(q)
      /\ \A r \in 1 .. Len(q) : q[r] \in Way(E) /\ set[q[r]] \in Line
      /\ \A r, x \in 1 .. Len(q) : q[r] = q[x] => r = x
      /\ Used(set) = Range(q) /\ Cardinality(Used(set)) = Len(q)
  BY OrderedFacts
<1>2. ASSUME NEW r \in 1 .. Len(q) PROVE Rank(q[r]) = r
  <2> DEFINE p == [x \in 1 .. r |-> q[x]]
  <2>1. r \in Nat /\ 1 .. r \subseteq 1 .. Len(q)
    BY <1>1
  <2>2. p \in Seq(Way(E)) /\ Len(p) = r /\ DOMAIN p = 1 .. r
    BY <1>1, <2>1
  <2>3. \A x, y \in 1 .. Len(p) : p[x] = p[y] => x = y
    BY <1>1, <2>1, <2>2
  <2>4. Cardinality(Range(p)) = r
    BY <2>2, <2>3, ListedSet
  <2>5. {k \in Used(set) : set[k].lru_counter >= set[q[r]].lru_counter} = Range(p)
    <3>1. ASSUME NEW k \in Used(set), set[k].lru_counter >= set[q[r]].lru_counter
          PROVE  k \in Range(p)
      <4>1. PICK x \in 1 .. Len(q) : q[x] = k
        BY DEF Ordered
      <4>2. set[q[r]].lru_counter \in Nat /\ set[q[x]].lru_counter \in Nat
        BY <1>1 DEF Line
      <4>3. ~(r < x)
        BY <3>1, <4>1, <4>2 DEF Ordered
      <4>4. x \in 1 .. r
        BY <1>1, <4>3
      <4> QED BY <2>2, <4>1, <4>4 DEF Range
    <3>2. ASSUME NEW k \in Range(p)
          PROVE  k \in Used(set) /\ set[k].lru_counter >= set[q[r]].lru_counter
      <4>1. PICK x \in 1 .. r : k = q[x]
        BY <2>2 DEF Range
      <4>2. set[q[r]].lru_counter \in Nat /\ set[q[x]].lru_counter \in Nat
        BY <1>1, <2>1 DEF Line
      <4>3. x < r => set[q[x]].lru_counter > set[q[r]].lru_counter
        BY <2>1 DEF Ordered
      <4>4. x = r \/ x < r
        BY <2>1
      <4> QED BY <2>1, <4>1, <4>2, <4>3, <4>4 DEF Ordered
    <3> QED BY <3>1, <3>2
  <2> QED BY <2>4, <2>5
<1>3. ASSUME NEW r \in 1 .. Len(q) PROVE (CHOOSE k \in Used(set) : Rank(k) = r) = q[r]
  <2>1. q[r] \in Used(set) /\ Rank(q[r]) = r
    BY <1>2 DEF Ordered
  <2>2. ASSUME NEW k \in Used(set), Rank(k) = r PROVE k = q[r]
    <3>1. PICK x \in 1 .. Len(q) : q[x] = k
      BY DEF Ordered
    <3>2. Rank(k) = x
      BY <1>2, <3>1
    <3> QED BY <2>2, <3>1, <3>2
  <2> HIDE DEF Rank
  <2> QED BY <2>1, <2>2
<1>4. Recency(set) = [r \in 1 .. Cardinality(Used(set)) |->
                        Entry(set[CHOOSE k \in Used(set) : Rank(k) = r])]
  BY DEF Recency
<1> HIDE DEF Rank
<1> QED BY <1>1, <1>3, <1>4

-----------------------------------------------------------------------------
(* An access to a set.  The line it uses gets a time stamp of its own.     *)

(* q with its k-th entry moved to the front, and q with a new entry before *)
(* the first n of it.                                                      *)
ToFront(q, k) ==
  [r \in 1 .. Len(q) |-> IF r = 1 THEN q[k] ELSE IF r <= k THEN q[r - 1] ELSE q[r]]
Before(j, q, n) == [r \in 1 .. n + 1 |-> IF r = 1 THEN j ELSE q[r - 1]]

(* At the time now + 1, the j-th line of set becomes line; set2 results.   *)
Takes(set, j, line, now, set2, E) ==
  /\ line \in Line /\ line.valid = 1 /\ line.lru_counter = now + 1
  /\ set2 \in CacheSet(E) /\ set2[j] = line
  /\ \A x \in Way(E) \ {j} : set2[x] = set[x]

Absent(set, tag) == \A x \in Used(set) : set[x].tag # tag

LEMMA ToFrontOrdered ==
  ASSUME NEW E \in Nat, NEW now \in Nat, NEW set, SetOK(set, E, now),
         NEW q \in Seq(Way(E)), Ordered(set, q),
         NEW k \in 1 .. Len(q), NEW j, q[k] = j,
         NEW line, NEW set2, Takes(set, j, line, now, set2, E)
  PROVE  ToFront(q, k) \in Seq(Way(E)) /\ Ordered(set2, ToFront(q, k))
<1> set \in CacheSet(E) /\ \A x \in Way(E) : set[x].lru_counter <= now
  BY DEF SetOK
<1> DEFINE u == ToFront(q, k)
<1>1. /\ Len(q) \in Nat /\ DOMAIN q = 1 .. Len(q)
      /\ \A r \in 1 .. Len(q) : q[r] \in Way(E) /\ set[q[r]] \in Line
      /\ \A r, x \in 1 .. Len(q) : q[r] = q[x] => r = x
  BY OrderedFacts
<1>2. /\ line.valid = 1 /\ line.lru_counter = now + 1 /\ set2 \in CacheSet(E)
      /\ set2[q[k]] = line /\ \A x \in Way(E) \ {q[k]} : set2[x] = set[x]
  BY DEF Takes
<1>3. q[k] \in Used(set)
  BY DEF Ordered
<1>4. Used(set2) = Used(set)
  BY <1>2, <1>3 DEF Used, CacheSet
<1>5. /\ u \in Seq(Way(E)) /\ Len(u) = Len(q) /\ u[1] = q[k]
      /\ \A r \in 1 .. Len(q) : r # 1 /\ r <= k => u[r] = q[r - 1]
      /\ \A r \in 1 .. Len(q) : r # 1 /\ ~(r <= k) => u[r] = q[r]
  <2>1. \A r \in 1 .. Len(q) : u[r] \in Way(E)
    BY <1>1 DEF ToFront
  <2>2. u = [r \in 1 .. Len(q) |-> u[r]]
    BY DEF ToFront
  <2>3. u \in Seq(Way(E)) /\ Len(u) = Len(q)
    BY <1>1, <2>1, <2>2
  <2>4. 1 \in 1 .. Len(q)
    BY <1>1
  <2> QED BY <2>3, <2>4 DEF ToFront
<1> HIDE DEF u
<1>6. ASSUME NEW r \in 1 .. Len(u), r # 1
      PROVE  \E x \in 1 .. Len(q) : u[r] = q[x] /\ x # k /\ x = IF r <= k THEN r - 1 ELSE r
  BY <1>1, <1>5, <1>6
<1>7. \A r \in 1 .. Len(u) : u[r] \in Used(set2)
  <2> TAKE r \in 1 .. Len(u)
  <2>1. CASE r = 1
    BY <1>3, <1>4, <1>5, <2>1
  <2>2. CASE r # 1
    BY <1>4, <1>6, <2>2 DEF Ordered
  <2> QED BY <2>1, <2>2
<1>8. ASSUME NEW y \in Used(set2) PROVE \E r \in 1 .. Len(u) : u[r] = y
  <2>1. PICK x \in 1 .. Len(q) : q[x] = y
    BY <1>4 DEF Ordered
  <2>2. CASE x = k
    BY <1>1, <1>5, <2>1, <2>2
  <2>3. CASE x < k
    <3>1. x + 1 \in 1 .. Len(q) /\ x + 1 # 1 /\ x + 1 <= k /\ (x + 1) - 1 = x
      BY <1>1, <2>3
    <3> QED BY <1>5, <2>1, <3>1
  <2>4. CASE x > k
    <3>1. x # 1 /\ ~(x <= k)
      BY <1>1, <2>4
    <3> QED BY <1>5, <2>1, <3>1
  <2> QED BY <1>1, <2>2, <2>3, <2>4
<1>9. ASSUME NEW r \in 1 .. Len(u), NEW x \in 1 .. Len(u), r < x
      PROVE  set2[u[r]].lru_counter > set2[u[x]].lru_counter
  <2>1. x # 1
    BY <1>1, <1>5, <1>9
  <2>2. PICK y \in 1 .. Len(q) : u[x] = q[y] /\ y # k /\ y = IF x <= k THEN x - 1 ELSE x
    BY <1>6, <2>1
  <2>3. set2[u[x]] = set[q[y]] /\ q[y] \in Way(E)
    BY <1>1, <1>2, <2>2
  <2>4. CASE r = 1
    <3>1. set2[u[r]].lru_counter = now + 1
      BY <1>2, <1>5, <2>4
    <3>2. set[q[y]].lru_counter <= now /\ set[q[y]].lru_counter \in Nat
      BY <1>1, <2>3 DEF Line
    <3>3. now + 1 > set[q[y]].lru_counter
      BY <3>2
    <3> QED BY <2>3, <3>1, <3>3
  <2>5. CASE r # 1
    <3>1. PICK z \in 1 .. Len(q) : u[r] = q[z] /\ z # k /\ z = IF r <= k THEN r - 1 ELSE r
      BY <1>6, <2>5
    <3>2. z < y
      BY <1>1, <1>5, <1>9, <2>2, <3>1
    <3>3. set2[u[r]] = set[q[z]]
      BY <1>1, <1>2, <3>1
    <3>4. set[q[z]].lru_counter > set[q[y]].lru_counter
      BY <3>2 DEF Ordered
    <3> QED BY <2>3, <3>3, <3>4
  <2> QED BY <2>4, <2>5
<1>10. Ordered(set2, u)
  BY <1>7, <1>8, <1>9 DEF Ordered
<1> QED BY <1>2, <1>4, <1>5, <1>10 DEF u

(* The lines that are used apart from j are the first n of q.              *)
Others(set, q, n, j) ==
  /\ \A r \in 1 .. n : q[r] # j
  /\ \A k \in Used(set) \ {j} : \E r \in 1 .. n : q[r] = k

LEMMA BeforeOrdered ==
  ASSUME NEW E \in Nat, NEW now \in Nat, NEW set, SetOK(set, E, now),
         NEW q \in Seq(Way(E)), Ordered(set, q),
         NEW j \in Way(E), NEW n \in 0 .. Len(q),
         Others(set, q, n, j),
         NEW line, NEW set2, Takes(set, j, line, now, set2, E)
  PROVE  /\ Used(set2) = Used(set) \cup {j}
         /\ Before(j, q, n) \in Seq(Way(E)) /\ Ordered(set2, Before(j, q, n))
<1> set \in CacheSet(E) /\ \A k \in Way(E) : set[k].lru_counter <= now
  BY DEF SetOK
<1> DEFINE u == Before(j, q, n)
<1>1. /\ Len(q) \in Nat /\ DOMAIN q = 1 .. Len(q)
      /\ \A r \in 1 .. Len(q) : q[r] \in Way(E) /\ set[q[r]] \in Line
  BY OrderedFacts
<1>2. n \in Nat /\ 1 .. n \subseteq 1 .. Len(q)
  BY <1>1
<1>3. /\ line.valid = 1 /\ line.lru_counter = now + 1 /\ set2 \in CacheSet(E)
      /\ set2[j] = line /\ \A k \in Way(E) \ {j} : set2[k] = set[k]
  BY DEF Takes
<1>4. Used(set2) = Used(set) \cup {j}
  BY <1>3 DEF Used, CacheSet
<1>5. /\ u \in Seq(Way(E)) /\ Len(u) = n + 1 /\ u[1] = j
      /\ \A r \in 1 .. n + 1 : r # 1 => u[r] = q[r - 1]
  <2>1. \A r \in 1 .. n + 1 : u[r] \in Way(E)
    BY <1>1, <1>2 DEF Before
  <2>2. u = [r \in 1 .. n + 1 |-> u[r]]
    BY DEF Before
  <2>3. u \in Seq(Way(E)) /\ Len(u) = n + 1
    <3>1. u \in [1 .. n + 1 -> Way(E)]
      BY <2>1, <2>2, Zenon
    <3> HIDE DEF u
    <3> QED BY <1>2, <3>1, FunctionIsSeq
  <2>4. 1 \in 1 .. n + 1
    BY <1>2
  <2> QED BY <2>3, <2>4 DEF Before
<1> HIDE DEF u
<1>6. ASSUME NEW r \in 1 .. Len(u), r # 1
      PROVE  r - 1 \in 1 .. n /\ u[r] = q[r - 1] /\ q[r - 1] # j
  BY <1>2, <1>5, <1>6 DEF Others
<1>7. \A r \in 1 .. Len(u) : u[r] \in Used(set2)
  <2> TAKE r \in 1 .. Len(u)
  <2>1. CASE r = 1
    BY <1>4, <1>5, <2>1
  <2>2. CASE r # 1
    <3>1. r - 1 \in 1 .. Len(q) /\ u[r] = q[r - 1]
      BY <1>2, <1>6, <2>2
    <3>2. q[r - 1] \in Used(set)
      BY <3>1 DEF Ordered
    <3> QED BY <1>4, <3>1, <3>2
  <2> QED BY <2>1, <2>2
<1>8. ASSUME NEW k \in Used(set2) PROVE \E r \in 1 .. Len(u) : u[r] = k
  <2>1. CASE k = j
    BY <1>2, <1>5, <2>1
  <2>2. CASE k # j
    <3>1. PICK x \in 1 .. n : q[x] = k
      BY <1>4, <2>2 DEF Others
    <3>2. x + 1 \in 1 .. n + 1 /\ x + 1 # 1 /\ (x + 1) - 1 = x
      BY <1>2
    <3>3. u[x + 1] = k /\ x + 1 \in 1 .. Len(u)
      BY <1>5, <3>1, <3>2
    <3> QED BY <3>3
  <2> QED BY <2>1, <2>2
<1>9. ASSUME NEW r \in 1 .. Len(u), NEW x \in 1 .. Len(u), r < x
      PROVE  set2[u[r]].lru_counter > set2[u[x]].lru_counter
  <2>1. x # 1
    BY <1>2, <1>5, <1>9
  <2>2. set2[u[x]] = set[q[x - 1]] /\ q[x - 1] \in Way(E) /\ set[q[x - 1]] \in Line
    <3>1. u[x] = q[x - 1] /\ q[x - 1] # j /\ x - 1 \in 1 .. Len(q)
      BY <1>2, <1>6, <2>1
    <3>2. q[x - 1] \in Way(E) /\ set[q[x - 1]] \in Line
      BY <1>1, <3>1
    <3> QED BY <1>3, <3>1, <3>2
  <2>3. CASE r = 1
    <3>1. set2[u[r]].lru_counter = now + 1
      BY <1>3, <1>5, <2>3
    <3>2. set[q[x - 1]].lru_counter <= now /\ set[q[x - 1]].lru_counter \in Nat
      BY <2>2 DEF Line
    <3>3. now + 1 > set[q[x - 1]].lru_counter
      BY <3>2
    <3> QED BY <2>2, <3>1, <3>3
  <2>4. CASE r # 1
    <3>1. set2[u[r]] = set[q[r - 1]]
      BY <1>1, <1>2, <1>3, <1>6, <2>4
    <3>2. /\ r - 1 \in 1 .. Len(q) /\ x - 1 \in 1 .. Len(q) /\ r - 1 < x - 1
      BY <1>2, <1>6, <1>9, <2>1, <2>4
    <3>3. set[q[r - 1]].lru_counter > set[q[x - 1]].lru_counter
      BY <3>2 DEF Ordered
    <3> QED BY <2>2, <3>1, <3>3
  <2> QED BY <2>3, <2>4
<1>10. Ordered(set2, u)
  BY <1>7, <1>8, <1>9 DEF Ordered
<1> QED BY <1>3, <1>4, <1>5, <1>10 DEF u

-----------------------------------------------------------------------------
(* The same of the abstract list.                                          *)

EntryRec == [tag : Nat, dirty : BOOLEAN]

Moved(e, L, k) ==
  [r \in 1 .. Len(L) |-> IF r = 1 THEN e ELSE IF r <= k THEN L[r - 1] ELSE L[r]]
Put(e, L, n) == [r \in 1 .. n + 1 |-> IF r = 1 THEN e ELSE L[r - 1]]

LEMMA MovedFirst ==
  ASSUME NEW S, NEW L \in Seq(S), NEW e \in S, NEW k \in 1 .. Len(L)
  PROVE  <<e>> \o RemoveAt(L, k) = Moved(e, L, k)
<1> DEFINE a == SubSeq(L, 1, k - 1)
           b == SubSeq(L, k + 1, Len(L))
           rest == a \o b
           all == <<e>> \o rest
<1>1. Len(L) \in Nat /\ k \in Nat
  OBVIOUS
<1>2. /\ a \in Seq(S) /\ Len(a) = k - 1 /\ \A r \in 1 .. k - 1 : a[r] = L[r]
  <2>1. 1 \in 1 .. Len(L) + 1 /\ k - 1 \in 1 - 1 .. Len(L)
    BY <1>1
  <2> QED BY <1>1, <2>1, SubSeqProperties
<1>3. /\ b \in Seq(S) /\ Len(b) = Len(L) - k /\ \A r \in 1 .. Len(L) - k : b[r] = L[k + r]
  <2>1. k + 1 \in 1 .. Len(L) + 1 /\ Len(L) \in (k + 1) - 1 .. Len(L)
    BY <1>1
  <2> QED BY <1>1, <2>1, SubSeqProperties
<1> HIDE DEF a, b
<1>4. /\ rest \in Seq(S) /\ Len(rest) = Len(L) - 1
      /\ \A r \in 1 .. Len(L) - 1 : rest[r] = IF r <= k - 1 THEN L[r] ELSE L[r + 1]
  <2>1. /\ rest \in Seq(S) /\ Len(rest) = Len(a) + Len(b)
        /\ \A r \in 1 .. Len(a) + Len(b) : rest[r] = IF r <= Len(a) THEN a[r] ELSE b[r - Len(a)]
    BY <1>2, <1>3, ConcatProperties
  <2>2. Len(a) + Len(b) = Len(L) - 1
    BY <1>1, <1>2, <1>3
  <2>3. ASSUME NEW r \in 1 .. Len(L) - 1 PROVE rest[r] = IF r <= k - 1 THEN L[r] ELSE L[r + 1]
    <3>1. CASE r <= k - 1
      BY <1>2, <2>1, <2>2, <3>1
    <3>2. CASE ~(r <= k - 1)
      <4>1. rest[r] = b[r - (k - 1)]
        BY <1>2, <2>1, <2>2, <3>2
      <4>2. r - (k - 1) \in 1 .. Len(L) - k /\ k + (r - (k - 1)) = r + 1
        BY <1>1, <3>2
      <4> QED BY <1>3, <3>2, <4>1, <4>2
    <3> QED BY <3>1, <3>2
  <2> HIDE DEF rest
  <2> QED BY <2>1, <2>2, <2>3
<1>5. RemoveAt(L, k) = rest
  BY DEF RemoveAt, a, b
<1> HIDE DEF rest
<1>6. /\ all \in Seq(S) /\ Len(all) = Len(L)
      /\ \A r \in 1 .. Len(L) : all[r] = IF r <= 1 THEN <<e>>[r] ELSE rest[r - 1]
  <2>1. <<e>> \in Seq(S) /\ Len(<<e>>) = 1
    OBVIOUS
  <2>2. Len(<<e>>) + Len(rest) = Len(L)
    BY <1>1, <1>4, <2>1
  <2> QED BY <1>4, <2>1, <2>2, ConcatProperties
<1>7. ASSUME NEW r \in 1 .. Len(L)
      PROVE  all[r] = IF r = 1 THEN e ELSE IF r <= k THEN L[r - 1] ELSE L[r]
  <2>1. CASE r = 1
    BY <1>6, <2>1
  <2>2. CASE r # 1
    <3>1. all[r] = rest[r - 1] /\ r - 1 \in 1 .. Len(L) - 1 /\ (r - 1) + 1 = r
      BY <1>1, <1>6, <2>2
    <3>2. r - 1 <= k - 1 <=> r <= k
      BY <1>1
    <3> QED BY <1>4, <2>2, <3>1, <3>2
  <2> QED BY <2>1, <2>2
<1>8. all = [r \in 1 .. Len(L) |-> all[r]]
  BY <1>6
<1> HIDE DEF all
<1>9. all = Moved(e, L, k)
  BY <1>7, <1>8 DEF Moved
<1> QED BY <1>5, <1>9 DEF all

LEMMA PutFirst ==
  ASSUME NEW S, NEW L \in Seq(S), NEW e \in S, NEW n \in 0 .. Len(L)
  PROVE  <<e>> \o SubSeq(L, 1, n) = Put(e, L, n)
<1> DEFINE a == SubSeq(L, 1, n)
           all == <<e>> \o a
<1>1. Len(L) \in Nat /\ n \in Nat
  OBVIOUS
<1>2. a \in Seq(S) /\ Len(a) = n /\ \A r \in 1 .. n : a[r] = L[r]
  <2>1. 1 \in 1 .. Len(L) + 1 /\ n \in 1 - 1 .. Len(L)
    BY <1>1
  <2> QED BY <1>1, <2>1, SubSeqProperties
<1> HIDE DEF a
<1>3. /\ all \in Seq(S) /\ Len(all) = n + 1
      /\ \A r \in 1 .. n + 1 : all[r] = IF r <= 1 THEN <<e>>[r] ELSE a[r - 1]
  <2>1. <<e>> \in Seq(S) /\ Len(<<e>>) = 1
    OBVIOUS
  <2>2. Len(<<e>>) + Len(a) = n + 1
    BY <1>1, <1>2, <2>1
  <2> QED BY <1>2, <2>1, <2>2, ConcatProperties
<1>4. ASSUME NEW r \in 1 .. n + 1 PROVE all[r] = IF r = 1 THEN e ELSE L[r - 1]
  <2>1. CASE r = 1
    BY <1>3, <2>1
  <2>2. CASE r # 1
    <3>1. r - 1 \in 1 .. n /\ ~(r <= 1)
      BY <1>1, <2>2
    <3> QED BY <1>2, <1>3, <2>2, <3>1
  <2> QED BY <2>1, <2>2
<1>5. all = [r \in 1 .. n + 1 |-> all[r]]
  BY <1>3
<1> HIDE DEF all
<1>6. all = Put(e, L, n)
  BY <1>4, <1>5 DEF Put
<1> QED BY <1>6 DEF all, a

LEMMA RecencyFacts ==
  ASSUME NEW E \in Nat, NEW set \in CacheSet(E), NEW q \in Seq(Way(E)), Ordered(set, q)
  PROVE  /\ Recency(set) \in Seq(EntryRec) /\ Len(Recency(set)) = Len(q)
         /\ DOMAIN Recency(set) = 1 .. Len(q)
         /\ \A r \in 1 .. Len(q) : Recency(set)[r] = Entry(set[q[r]])
<1>1. /\ Len(q) \in Nat
      /\ \A r \in 1 .. Len(q) : q[r] \in Way(E) /\ set[q[r]] \in Line
  BY OrderedFacts
<1>2. \A r \in 1 .. Len(q) : Entry(set[q[r]]) \in EntryRec
  BY <1>1 DEF Entry, EntryRec, Line
<1>3. Recency(set) = [r \in 1 .. Len(q) |-> Entry(set[q[r]])]
  BY RecencyIs
<1>4. Recency(set) \in [1 .. Len(q) -> EntryRec]
  BY <1>2, <1>3
<1> QED BY <1>1, <1>3, <1>4, FunctionIsSeq

(* A hit moves the block to the front.                                     *)
LEMMA HitSet ==
  ASSUME NEW E \in Nat, NEW now \in Nat, NEW set, SetOK(set, E, now), NEW j \in Used(set),
         NEW line, line.tag = set[j].tag, NEW set2, Takes(set, j, line, now, set2, E)
  PROVE  /\ SetOK(set2, E, now + 1)
         /\ \E k \in DOMAIN Recency(set) :
              /\ Recency(set)[k] = Entry(set[j])
              /\ Recency(set2) = <<Entry(line)>> \o RemoveAt(Recency(set), k)
<1>1. /\ set \in CacheSet(E) /\ \A x \in Way(E) : set[x].lru_counter <= now
      /\ \A x, y \in Used(set) : set[x].tag = set[y].tag => x = y
  BY DEF SetOK
<1>2. PICK q \in Seq(Way(E)) : Ordered(set, q)
  BY DEF SetOK
<1>3. PICK k \in 1 .. Len(q) : q[k] = j
  BY <1>2 DEF Ordered
<1> DEFINE u == ToFront(q, k)
<1>4. /\ j \in Way(E) /\ set2 \in CacheSet(E) /\ set2[j] = line
      /\ \A x \in Way(E) \ {j} : set2[x] = set[x]
      /\ line \in Line /\ line.lru_counter = now + 1 /\ line.valid = 1
  BY <1>1 DEF Takes, CacheSet, Used
<1>5. Used(set2) = Used(set) /\ u \in Seq(Way(E)) /\ Ordered(set2, u)
  <2>1. Used(set2) = Used(set)
    BY <1>1, <1>4 DEF Used, CacheSet
  <2> HIDE DEF u
  <2>2. ToFront(q, k) \in Seq(Way(E)) /\ Ordered(set2, ToFront(q, k))
    BY <1>2, <1>3, ToFrontOrdered
  <2> QED BY <2>1, <2>2 DEF u
<1>6. /\ Len(q) \in Nat /\ \A r \in 1 .. Len(q) : q[r] \in Way(E) /\ set[q[r]] \in Line
      /\ \A r, x \in 1 .. Len(q) : q[r] = q[x] => r = x
  BY <1>1, <1>2, OrderedFacts
<1>7. SetOK(set2, E, now + 1)
  <2>1. ASSUME NEW x \in Way(E) PROVE set2[x].lru_counter <= now + 1
    <3>1. set[x].lru_counter <= now /\ set[x].lru_counter \in Nat
      BY <1>1 DEF CacheSet, Line
    <3>2. set[x].lru_counter <= now + 1 /\ line.lru_counter <= now + 1
      BY <1>4, <3>1
    <3>3. CASE x = j
      BY <1>4, <3>2, <3>3
    <3>4. CASE x # j
      BY <1>4, <3>2, <3>4
    <3> QED BY <3>3, <3>4
  <2>2. \A x \in Used(set) : set2[x].tag = set[x].tag
    BY <1>1, <1>4 DEF Used, CacheSet
  <2>3. \A x, y \in Used(set2) : set2[x].tag = set2[y].tag => x = y
    BY <1>1, <1>5, <2>2
  <2> HIDE DEF u
  <2> QED BY <1>4, <1>5, <2>1, <2>3 DEF SetOK
<1> DEFINE L == Recency(set)
<1>8. /\ L \in Seq(EntryRec) /\ Len(L) = Len(q) /\ DOMAIN L = 1 .. Len(q)
      /\ \A r \in 1 .. Len(q) : L[r] = Entry(set[q[r]])
  BY <1>1, <1>2, RecencyFacts
<1>9. Entry(line) \in EntryRec
  BY <1>4 DEF Entry, EntryRec, Line
<1>10. Recency(set2) = [r \in 1 .. Len(u) |-> Entry(set2[u[r]])] /\ Len(u) = Len(q)
  <2>1. u \in [1 .. Len(q) -> Way(E)]
    BY <1>6 DEF ToFront
  <2>2. Len(u) = Len(q)
    BY <1>6, <2>1, FunctionIsSeq
  <2> QED BY <1>4, <1>5, <2>2, RecencyIs
<1>11. ASSUME NEW r \in 1 .. Len(q)
       PROVE  Entry(set2[u[r]])
                = IF r = 1 THEN Entry(line) ELSE IF r <= k THEN L[r - 1] ELSE L[r]
  <2>1. u[r] = IF r = 1 THEN q[k] ELSE IF r <= k THEN q[r - 1] ELSE q[r]
    BY DEF ToFront
  <2>2. CASE r = 1
    BY <1>3, <1>4, <2>1, <2>2
  <2>3. CASE r # 1 /\ r <= k
    <3>1. r - 1 \in 1 .. Len(q) /\ r - 1 # k
      BY <1>6, <2>3
    <3>2. q[r - 1] # j /\ q[r - 1] \in Way(E)
      BY <1>3, <1>6, <3>1
    <3> QED BY <1>4, <1>8, <2>1, <2>3, <3>1, <3>2
  <2>4. CASE r # 1 /\ ~(r <= k)
    <3>1. q[r] # j /\ q[r] \in Way(E)
      BY <1>3, <1>6, <2>4
    <3> QED BY <1>4, <1>8, <2>1, <2>4, <3>1
  <2> QED BY <2>2, <2>3, <2>4
<1> HIDE DEF u, L
<1>12. Recency(set2) = Moved(Entry(line), L, k)
  BY <1>8, <1>10, <1>11 DEF Moved
<1>13. k \in 1 .. Len(L)
  BY <1>8
<1>14. <<Entry(line)>> \o RemoveAt(L, k) = Moved(Entry(line), L, k)
  BY <1>8, <1>9, <1>13, MovedFirst
<1>15. Recency(set2) = <<Entry(line)>> \o RemoveAt(L, k)
  BY <1>12, <1>14
<1>16. k \in DOMAIN L /\ L[k] = Entry(set[j])
  BY <1>3, <1>8
<1> QED BY <1>7, <1>15, <1>16 DEF L
(* A miss puts its block before the first n.                               *)
LEMMA PutSet ==
  ASSUME NEW E \in Nat, NEW now \in Nat, NEW set, SetOK(set, E, now),
         NEW q \in Seq(Way(E)), Ordered(set, q), NEW n \in 0 .. Len(q), NEW j \in Way(E),
         Others(set, q, n, j),
         NEW line, Absent(set, line.tag), NEW set2, Takes(set, j, line, now, set2, E)
  PROVE  /\ SetOK(set2, E, now + 1)
         /\ Recency(set2) = <<Entry(line)>> \o SubSeq(Recency(set), 1, n)
<1>1. /\ set \in CacheSet(E) /\ \A x \in Way(E) : set[x].lru_counter <= now
      /\ \A x, y \in Used(set) : set[x].tag = set[y].tag => x = y
  BY DEF SetOK
<1> DEFINE u == Before(j, q, n)
<1>2. /\ set2 \in CacheSet(E) /\ set2[j] = line
      /\ \A x \in Way(E) \ {j} : set2[x] = set[x]
      /\ line \in Line /\ line.lru_counter = now + 1
      /\ \A k \in Used(set) : set[k].tag # line.tag
  BY DEF Takes, Absent
<1>3. Used(set2) = Used(set) \cup {j} /\ u \in Seq(Way(E)) /\ Ordered(set2, u)
  <2> HIDE DEF u
  <2>1. /\ Used(set2) = Used(set) \cup {j}
        /\ Before(j, q, n) \in Seq(Way(E)) /\ Ordered(set2, Before(j, q, n))
    BY BeforeOrdered
  <2> QED BY <2>1 DEF u
<1>4. /\ Len(q) \in Nat /\ n \in Nat /\ 1 .. n \subseteq 1 .. Len(q)
      /\ \A r \in 1 .. Len(q) : q[r] \in Way(E) /\ set[q[r]] \in Line
  BY <1>1, OrderedFacts
<1>5. SetOK(set2, E, now + 1)
  <2>1. ASSUME NEW x \in Way(E) PROVE set2[x].lru_counter <= now + 1
    <3>1. set[x].lru_counter <= now /\ set[x].lru_counter \in Nat
      BY <1>1 DEF CacheSet, Line
    <3>2. set[x].lru_counter <= now + 1 /\ line.lru_counter <= now + 1
      BY <1>2, <3>1
    <3>3. CASE x = j
      BY <1>2, <3>2, <3>3
    <3>4. CASE x # j
      BY <1>2, <3>2, <3>4
    <3> QED BY <3>3, <3>4
  <2>2. ASSUME NEW x \in Used(set2), NEW y \in Used(set2), set2[x].tag = set2[y].tag PROVE x = y
    <3>1. \A z \in Used(set2) \ {j} : z \in Used(set) /\ set2[z] = set[z]
      BY <1>1, <1>2, <1>3 DEF Used, CacheSet
    <3>2. CASE x = j
      BY <1>2, <2>2, <3>1, <3>2
    <3>3. CASE y = j
      BY <1>2, <2>2, <3>1, <3>3
    <3>4. CASE x # j /\ y # j
      <4>1. x \in Used(set) /\ y \in Used(set) /\ set2[x] = set[x] /\ set2[y] = set[y]
        BY <3>1, <3>4
      <4> QED BY <1>1, <2>2, <4>1
    <3> QED BY <3>2, <3>3, <3>4
  <2> HIDE DEF u
  <2> QED BY <1>2, <1>3, <2>1, <2>2 DEF SetOK
<1> DEFINE L == Recency(set)
<1>6. /\ L \in Seq(EntryRec) /\ Len(L) = Len(q) /\ DOMAIN L = 1 .. Len(q)
      /\ \A r \in 1 .. Len(q) : L[r] = Entry(set[q[r]])
  BY <1>1, RecencyFacts
<1>7. Entry(line) \in EntryRec
  BY <1>2 DEF Entry, EntryRec, Line
<1>8. Recency(set2) = [r \in 1 .. Len(u) |-> Entry(set2[u[r]])] /\ Len(u) = n + 1
  <2>1. u \in [1 .. n + 1 -> Way(E)]
    BY <1>4 DEF Before
  <2>2. Len(u) = n + 1
    <3> HIDE DEF u
    <3> QED BY <1>4, <2>1, FunctionIsSeq
  <2> HIDE DEF u
  <2> QED BY <1>2, <1>3, <2>2, RecencyIs
<1>9. ASSUME NEW r \in 1 .. n + 1
       PROVE  Entry(set2[u[r]]) = IF r = 1 THEN Entry(line) ELSE L[r - 1]
  <2>1. u[r] = IF r = 1 THEN j ELSE q[r - 1]
    BY DEF Before
  <2>2. CASE r = 1
    BY <1>2, <2>1, <2>2
  <2>3. CASE r # 1
    <3>1. r - 1 \in 1 .. n /\ r - 1 \in 1 .. Len(q)
      BY <1>4, <2>3
    <3>2. q[r - 1] # j /\ q[r - 1] \in Way(E)
      BY <1>4, <3>1 DEF Others
    <3>3. set2[q[r - 1]] = set[q[r - 1]] /\ L[r - 1] = Entry(set[q[r - 1]])
      BY <1>2, <1>6, <3>1, <3>2
    <3> QED BY <2>1, <2>3, <3>3
  <2> QED BY <2>2, <2>3
<1> HIDE DEF u, L
<1>10. Recency(set2) = Put(Entry(line), L, n)
  <2>1. Recency(set2) = [r \in 1 .. n + 1 |-> Entry(set2[u[r]])]
    BY <1>8
  <2> QED BY ONLY <1>9, <2>1 DEF Put
<1>11. <<Entry(line)>> \o SubSeq(L, 1, n) = Put(Entry(line), L, n)
  <2>1. n \in 0 .. Len(L) /\ L \in Seq(EntryRec)
    BY <1>6
  <2> QED BY ONLY <1>7, <2>1, PutFirst
<1>12. Recency(set2) = <<Entry(line)>> \o SubSeq(L, 1, n)
  BY <1>10, <1>11
<1> QED BY <1>5, <1>12 DEF L
(* What the list of a set becomes when line takes the place of the j-th.   *)
Replaces(set, j, line, set2, E) ==
  /\ Len(Recency(set)) = E <=> set[j].valid = 1
  /\ Len(Recency(set)) = E => Last(Recency(set)) = Entry(set[j])
  /\ Recency(set2) = <<Entry(line)>> \o
       (IF Len(Recency(set)) = E THEN Front(Recency(set)) ELSE Recency(set))

(* The victim of a full set is the line used longest ago, and only that.   *)
LEMMA MissSet ==
  ASSUME NEW E \in Nat \ {0}, NEW now \in Nat, NEW set, SetOK(set, E, now),
         NEW line, Absent(set, line.tag), NEW j, j = search_victim_or_empty_line_idx(set),
         NEW set2, j \in Way(E) => Takes(set, j, line, now, set2, E)
  PROVE  j \in Way(E) /\ SetOK(set2, E, now + 1) /\ Replaces(set, j, line, set2, E)
<1> DEFINE L == Recency(set)
           empty == {x \in DOMAIN set : set[x].valid = 0}
           oldest == {x \in DOMAIN set :
                        \A y \in DOMAIN set : set[x].lru_counter <= set[y].lru_counter}
<1>1. /\ set \in CacheSet(E) /\ DOMAIN set = Way(E) /\ Way(E) \subseteq Nat
      /\ IsFiniteSet(Way(E)) /\ Cardinality(Way(E)) = E
  BY Ways DEF SetOK, CacheSet
<1>2. PICK q \in Seq(Way(E)) : Ordered(set, q)
  BY DEF SetOK
<1>3. /\ Len(q) \in Nat /\ DOMAIN q = 1 .. Len(q)
      /\ \A r \in 1 .. Len(q) : q[r] \in Way(E) /\ set[q[r]] \in Line /\ set[q[r]].valid = 1
      /\ \A r, x \in 1 .. Len(q) : q[r] = q[x] => r = x
      /\ Used(set) \subseteq Way(E) /\ Cardinality(Used(set)) = Len(q) /\ IsFiniteSet(Used(set))
  BY <1>1, <1>2, OrderedFacts
<1>4. /\ L \in Seq(EntryRec) /\ Len(L) = Len(q) /\ DOMAIN L = 1 .. Len(q)
      /\ \A r \in 1 .. Len(q) : L[r] = Entry(set[q[r]])
  BY <1>1, <1>2, RecencyFacts
<1>5. j = Lowest(IF empty # {} THEN empty ELSE oldest)
  BY DEF search_victim_or_empty_line_idx
<1>6. E \in Nat
  OBVIOUS
<1>7. CASE empty # {}
  <2>1. j \in empty
    <3>1. empty \in SUBSET Nat
      BY <1>1
    <3> QED BY <1>5, <1>7, <3>1, LowestIs, Zenon
  <2>2. j \in Way(E) /\ set[j].valid = 0 /\ j \notin Used(set)
    <3>1. j \in Way(E) /\ set[j].valid = 0
      BY <1>1, <2>1
    <3> QED BY ONLY <3>1 DEF Used
  <2>3. Len(q) # E
    <3>1. Used(set) # Way(E)
      BY <2>2, Zenon
    <3>2. Cardinality(Used(set)) = Cardinality(Way(E)) => Used(set) = Way(E)
      BY <1>1, <1>3, FS_Subset, Zenon
    <3> QED BY <1>1, <1>3, <3>1, <3>2, Zenon
  <2>4. Others(set, q, Len(q), j)
    BY <1>2, <2>2 DEF Others, Ordered
  <2>5. Len(q) \in 0 .. Len(q)
    BY <1>3
  <2>6. SetOK(set2, E, now + 1) /\ Recency(set2) = <<Entry(line)>> \o SubSeq(L, 1, Len(q))
    BY <1>2, <1>6, <2>2, <2>4, <2>5, PutSet
  <2>7. SubSeq(L, 1, Len(q)) = L
    BY <1>3, <1>4
  <2>8. Len(L) # E /\ set[j].valid # 1
    <3>1. Len(L) = Len(q)
      BY <1>4
    <3> HIDE DEF L
    <3> QED BY ONLY <2>2, <2>3, <3>1
  <2> HIDE DEF L
  <2> QED BY <2>2, <2>6, <2>7, <2>8 DEF L, Replaces
<1>8. CASE empty = {}
  <2>1. Used(set) = Way(E) /\ Len(q) = E
    <3>1. \A x \in Way(E) : set[x].valid = 1
      BY <1>1, <1>8 DEF CacheSet, Line
    <3>2. Used(set) = Way(E)
      BY <1>1, <3>1 DEF Used
    <3> QED BY <1>1, <1>3, <3>2, Zenon
  <2>2. E \in 1 .. Len(q) /\ q[E] \in Way(E) /\ E - 1 \in 0 .. Len(q)
    BY <1>3, <2>1
  <2>3. ASSUME NEW x \in Way(E), x # q[E]
        PROVE  set[x].lru_counter > set[q[E]].lru_counter
    <3>1. PICK r \in 1 .. Len(q) : q[r] = x
      BY <1>2, <2>1 DEF Ordered
    <3>2. r < E
      BY <1>3, <2>1, <2>3, <3>1
    <3> QED BY <1>2, <2>2, <3>1, <3>2 DEF Ordered
  <2>4. oldest = {q[E]}
    <3>1. \A x \in Way(E) : set[x].lru_counter \in Nat
      BY <1>1 DEF CacheSet, Line
    <3>2. q[E] \in oldest
      <4>1. ASSUME NEW y \in Way(E) PROVE set[q[E]].lru_counter <= set[y].lru_counter
        <5>1. set[q[E]].lru_counter \in Nat /\ set[y].lru_counter \in Nat
          BY <2>2, <3>1
        <5> QED BY <2>3, <5>1
      <4> QED BY <1>1, <2>2, <4>1
    <3>3. ASSUME NEW x \in oldest PROVE x = q[E]
      <4>1. x \in Way(E) /\ set[x].lru_counter <= set[q[E]].lru_counter
        BY <1>1, <2>2
      <4>2. set[x].lru_counter \in Nat /\ set[q[E]].lru_counter \in Nat
        BY <2>2, <3>1, <4>1
      <4> QED BY <2>3, <4>1, <4>2
    <3> HIDE DEF oldest
    <3> QED BY <3>2, <3>3
  <2>5. j = q[E]
    <3>1. oldest \in SUBSET Nat
      BY <1>1
    <3> HIDE DEF oldest, empty
    <3> QED BY <1>5, <1>8, <2>4, <3>1, LowestIs
  <2>6. Others(set, q, E - 1, j)
    <3>1. \A r \in 1 .. E - 1 : r \in 1 .. Len(q) /\ r # E
      BY <2>1
    <3>2. \A r \in 1 .. E - 1 : q[r] # j
      BY <1>3, <2>2, <2>5, <3>1
    <3>3. ASSUME NEW k \in Used(set) \ {j} PROVE \E r \in 1 .. E - 1 : q[r] = k
      <4>1. PICK r \in 1 .. Len(q) : q[r] = k
        BY <1>2 DEF Ordered
      <4>2. r # E
        BY <2>5, <3>3, <4>1
      <4>3. r \in 1 .. E - 1
        BY <2>1, <4>2
      <4> QED BY <4>1, <4>3
    <3> QED BY <3>2, <3>3 DEF Others
  <2>7. SetOK(set2, E, now + 1) /\ Recency(set2) = <<Entry(line)>> \o SubSeq(L, 1, E - 1)
    <3>1. Takes(set, j, line, now, set2, E) /\ E - 1 \in 0 .. Len(q)
      BY <2>2, <2>5
    <3> QED BY <1>2, <1>6, <2>2, <2>5, <2>6, <3>1, PutSet
  <2>8. Front(L) = SubSeq(L, 1, E - 1) /\ Last(L) = Entry(set[j])
    BY <1>4, <2>1, <2>2, <2>5 DEF Front, Last
  <2>9. set[j].valid = 1 /\ Len(L) = E
    <3>1. Len(L) = Len(q) /\ set[q[E]].valid = 1
      BY <1>3, <1>4, <2>2
    <3> HIDE DEF L
    <3> QED BY ONLY <2>1, <2>5, <3>1
  <2> HIDE DEF L
  <2> QED BY <2>2, <2>5, <2>7, <2>8, <2>9 DEF L, Replaces
<1> QED BY <1>7, <1>8

-----------------------------------------------------------------------------
(* The invariant                                                           *)

CacheOK ==
  /\ geom \in Geometries
  /\ lines \in [0 .. 2^geom.s - 1 -> CacheSet(geom.E)]
  /\ \A set \in DOMAIN lines : SetOK(lines[set], geom.E, counter)

(* What is simulated is the trace of a command line.                       *)
TraceOK ==
  \E options \in AllOptions :
    /\ Outcome(options) = "run" /\ trace = LastOf(options, "t")
    /\ trace # FileMissing => pos \in 0 .. Len(trace)

(* A test of test-csim is one of those it has.                             *)
TestOK ==
  /\ call \in [DOMAIN TRACE_INFO -> TraceFiles]
  /\ step # "report" => i \in DOMAIN TRACE_INFO

SimInv ==
  /\ counter \in Nat
  /\ lines = <<>> => stats = ZeroStats /\ phase # "trace"
  /\ lines # <<>> => CacheOK /\ phase \in {"trace", "exited"}
  /\ phase = "args" => argv \in AllOptions
  /\ phase = "trace" => TraceOK

CallerInv ==
  /\ phase # "off" => tool = "csim" \/ (tool = "test-csim" /\ step = "wait")
  /\ tool = "test-csim" => TestOK

SInv == SimInv /\ CallerInv

LEMMA Powers ==
  ASSUME NEW g \in Geometries
  PROVE  /\ 2^g.s \in Nat \ {0} /\ 2^g.b \in Nat \ {0} /\ 2^(g.s + g.b) \in Nat \ {0}
         /\ g.E \in Nat \ {0}
<1>1. g.s \in 0 .. AddrBits /\ g.b \in 0 .. AddrBits /\ g.s + g.b \in 0 .. AddrBits
  BY CSimAssumption, CSimLRUAssumption DEF Geometries
<1> QED BY <1>1, CSimLRUAssumption DEF Geometries

LEMMA Quotients ==
  ASSUME NEW a \in Nat, NEW b \in Nat \ {0}
  PROVE  a \div b \in Nat /\ a % b \in 0 .. b - 1
OBVIOUS

LEMMA Later ==
  ASSUME NEW E \in Nat, NEW now \in Nat, NEW set, SetOK(set, E, now)
  PROVE  SetOK(set, E, now + 1)
<1>1. ASSUME NEW j \in Way(E) PROVE set[j].lru_counter <= now + 1
  <2>1. set[j].lru_counter <= now /\ set[j].lru_counter \in Nat
    BY DEF SetOK, CacheSet, Line
  <2> QED BY <2>1
<1> QED BY <1>1 DEF SetOK

(* A set without a block.                                                  *)
LEMMA EmptySet ==
  ASSUME NEW E \in Nat, NEW set, set = [j \in 0 .. E - 1 |-> EmptyLine]
  PROVE  SetOK(set, E, 0) /\ Recency(set) = <<>>
<1>1. set \in CacheSet(E) /\ \A j \in Way(E) : set[j] = EmptyLine
  BY DEF CacheSet, Way, Line, EmptyLine
<1>2. Used(set) = {}
  BY <1>1 DEF Used, CacheSet, EmptyLine
<1>3. Ordered(set, <<>>) /\ <<>> \in Seq(Way(E))
  BY <1>2 DEF Ordered
<1>4. \A j \in Way(E) : set[j].lru_counter <= 0
  BY <1>1 DEF EmptyLine
<1>5. SetOK(set, E, 0)
  BY <1>1, <1>2, <1>3, <1>4 DEF SetOK
<1>6. Len(Recency(set)) = 0 /\ Recency(set) \in Seq(EntryRec)
  BY <1>1, <1>3, RecencyFacts
<1> QED BY <1>5, <1>6

-----------------------------------------------------------------------------
(* A line of the trace is an access.                                       *)

LEMMA AccessStep ==
  ASSUME CacheOK, CacheOK', lines # <<>>, lines' # <<>>, UNCHANGED geom,
         NEW set \in DOMAIN lines, NEW list, Recency(lines'[set]) = list,
         \A x \in DOMAIN lines \ {set} : lines'[x] = lines[x]
  PROVE  Recent' = [Recent EXCEPT ![set] = list] /\ Recent[set] = Recency(lines[set])
<1>1. Recent = [x \in DOMAIN lines |-> Recency(lines[x])]
  BY DEF Recent, Running
<1>2. Recent' = [x \in DOMAIN lines |-> Recency(lines'[x])]
  BY DEF Recent, Running, CacheOK
<1>3. \A x \in DOMAIN lines : Recency(lines'[x]) = IF x = set THEN list ELSE Recency(lines[x])
  OBVIOUS
<1> QED BY <1>1, <1>2, <1>3

LEMMA HitLineIs ==
  ASSUME counter \in Nat, NEW old \in Line, NEW op \in {"L", "S"}
  PROVE  LET line == HitLine(op, old)
         IN  /\ line \in Line /\ line.valid = old.valid /\ line.lru_counter = counter + 1
             /\ line.tag = old.tag
             /\ Entry(line) = [tag |-> Entry(old).tag, dirty |-> Entry(old).dirty \/ op = "S"]
<1> DEFINE line == HitLine(op, old)
<1>1. PICK d \in {0, 1}, v \in {0, 1}, t \in Nat, c \in Nat :
         old = [dirty |-> d, valid |-> v, tag |-> t, lru_counter |-> c]
  BY DEF Line
<1>2. line = [dirty |-> IF op = "S" THEN 1 ELSE d, valid |-> v,
              tag |-> t, lru_counter |-> counter + 1]
  <2> DEFINE dirtied == IF op = "S" THEN 1 ELSE old.dirty
  <2>1. line = [[old EXCEPT !.lru_counter = counter + 1] EXCEPT !.dirty = dirtied]
    BY <1>1 DEF HitLine
  <2>2. dirtied = IF op = "S" THEN 1 ELSE d
    BY <1>1
  <2> HIDE DEF line, dirtied
  <2>3. line = [dirty |-> dirtied, valid |-> v, tag |-> t, lru_counter |-> counter + 1]
    BY <1>1, <2>1
  <2> QED BY <2>2, <2>3
<1> HIDE DEF line
<1>3. /\ line \in Line /\ line.valid = old.valid /\ line.lru_counter = counter + 1
      /\ line.tag = old.tag /\ line.dirty = IF op = "S" THEN 1 ELSE old.dirty
  BY <1>1, <1>2 DEF Line
<1>4. Entry(line) = [tag |-> Entry(old).tag, dirty |-> Entry(old).dirty \/ op = "S"]
  BY <1>3 DEF Entry
<1> QED BY <1>3, <1>4 DEF line

LEMMA TouchStep ==
  ASSUME CacheOK, lines # <<>>, counter \in Nat, UNCHANGED geom,
         NEW op \in {"L", "S"}, NEW address \in Addresses, touch_cache(op, address)
  PROVE  /\ counter' \in Nat /\ lines' # <<>> /\ CacheOK'
         /\ Abstract!Access(address, op = "S")
<1> DEFINE set == SetIndex(address)
           tag == Tag(address)
           hits == {x \in DOMAIN lines[set] : lines[set][x].valid = 1 /\ lines[set][x].tag = tag}
           hit == search_hit_line_idx(lines[set], tag)
           victim == search_victim_or_empty_line_idx(lines[set])
           L == Recency(lines[set])
<1>1. /\ 2^geom.s \in Nat \ {0} /\ 2^geom.b \in Nat \ {0} /\ 2^(geom.s + geom.b) \in Nat \ {0}
      /\ geom.E \in Nat \ {0} /\ geom.E \in Nat /\ geom \in Geometries
  BY Powers DEF CacheOK
<1>2. set \in DOMAIN lines /\ tag \in Nat /\ DOMAIN lines = 0 .. 2^geom.s - 1
  <2>1. address \in Nat
    BY CSimLRUAssumption
  <2>2. address \div 2^geom.b \in Nat /\ tag \in Nat
    BY <1>1, <2>1, Quotients DEF Tag
  <2> QED BY <1>1, <2>2, Quotients DEF SetIndex, CacheOK
<1>3. /\ SetOK(lines[set], geom.E, counter) /\ lines[set] \in CacheSet(geom.E)
      /\ DOMAIN lines[set] = Way(geom.E)
      /\ \A x \in DOMAIN lines : SetOK(lines[x], geom.E, counter)
  BY <1>2 DEF CacheOK, CacheSet
<1>4. hit # -1 => hit \in hits
  <2>1. hits \in SUBSET Nat
    BY <1>1, <1>3, Ways
  <2>2. hit = IF hits # {} THEN Lowest(hits) ELSE -1
    BY DEF search_hit_line_idx
  <2> HIDE DEF hits, hit
  <2> QED BY <2>1, <2>2, LowestIs
<1>5. hit = -1 => hits = {}
  <2>1. hits \in SUBSET Nat
    BY <1>1, <1>3, Ways
  <2>2. hit = IF hits # {} THEN Lowest(hits) ELSE -1
    BY DEF search_hit_line_idx
  <2> HIDE DEF hits, hit
  <2>3. hits # {} => hit \in Nat
    BY <2>1, <2>2, LowestIs
  <2> QED BY <2>3
<1>6. /\ counter' = counter + 1 /\ counter' \in Nat
      /\ \/ /\ hit # -1
            /\ lines' = [lines EXCEPT ![set][hit] = HitLine(op, @)]
            /\ stats' = HitStats(op, lines[set][hit])
         \/ /\ hit = -1
            /\ lines' = [lines EXCEPT ![set][victim] = FilledLine(op, tag)]
            /\ stats' = MissStats(op, lines[set][victim])
  BY DEF touch_cache
<1> HIDE DEF hit, victim, set, tag
<1>7. ASSUME NEW set2, lines' = [lines EXCEPT ![set] = set2],
             SetOK(set2, geom.E, counter + 1)
      PROVE  /\ lines' # <<>> /\ CacheOK' /\ lines'[set] = set2
             /\ \A x \in DOMAIN lines \ {set} : lines'[x] = lines[x]
  <2>1. /\ lines'[set] = set2 /\ \A x \in DOMAIN lines \ {set} : lines'[x] = lines[x]
        /\ DOMAIN lines' = DOMAIN lines /\ lines' \in [0 .. 2^geom.s - 1 -> CacheSet(geom.E)]
    BY <1>2, <1>7 DEF CacheOK, SetOK
  <2>2. ASSUME NEW x \in DOMAIN lines PROVE SetOK(lines'[x], geom.E, counter + 1)
    <3>1. CASE x = set
      BY <1>7, <2>1, <3>1
    <3>2. CASE x # set
      <4>1. SetOK(lines[x], geom.E, counter) /\ lines'[x] = lines[x]
        BY <1>3, <2>1, <3>2
      <4> QED BY <1>1, <4>1, Later
    <3> QED BY <3>1, <3>2
  <2>3. CacheOK'
    BY <1>1, <1>6, <2>1, <2>2 DEF CacheOK
  <2> QED BY <1>2, <2>1, <2>3

<1>8. CASE hit # -1
  <2> DEFINE old == lines[set][hit]
             line == HitLine(op, old)
             set2 == [lines[set] EXCEPT ![hit] = line]
  <2>1. /\ hit \in DOMAIN lines[set] /\ hit \in Used(lines[set]) /\ old \in Line
        /\ old.valid = 1 /\ old.tag = tag
    BY <1>3, <1>4, <1>8 DEF Used, CacheSet
  <2>2. /\ line \in Line /\ line.valid = 1 /\ line.lru_counter = counter + 1 /\ line.tag = old.tag
        /\ Entry(line) = [tag |-> Entry(old).tag, dirty |-> Entry(old).dirty \/ op = "S"]
    <3> HIDE DEF old
    <3> QED BY <2>1, HitLineIs
  <2>3. lines' = [lines EXCEPT ![set] = set2] /\ stats' = HitStats(op, old)
    BY <1>6, <1>8
  <2>4. /\ SetOK(set2, geom.E, counter + 1)
        /\ \E k \in DOMAIN L :
             /\ L[k] = Entry(old)
             /\ Recency(set2) = <<Entry(line)>> \o RemoveAt(L, k)
    <3>1. /\ set2 \in CacheSet(geom.E) /\ set2[hit] = line
          /\ \A x \in Way(geom.E) \ {hit} : set2[x] = lines[set][x]
      BY <1>3, <2>1, <2>2 DEF CacheSet
    <3> HIDE DEF line, set2
    <3>2. Takes(lines[set], hit, line, counter, set2, geom.E)
      BY <2>2, <3>1 DEF Takes
    <3> QED BY <1>1, <1>3, <2>1, <2>2, <3>2, HitSet
  <2> HIDE DEF set2, line, L
  <2>5. PICK k \in DOMAIN L :
             /\ L[k] = Entry(old)
             /\ Recency(set2) = <<Entry(line)>> \o RemoveAt(L, k)
    BY <2>4
  <2>6. /\ lines' # <<>> /\ CacheOK' /\ lines'[set] = set2
        /\ \A x \in DOMAIN lines \ {set} : lines'[x] = lines[x]
    BY <1>7, <2>3, <2>4
  <2>7. Recent' = [Recent EXCEPT ![set] = <<Entry(line)>> \o RemoveAt(L, k)] /\ Recent[set] = L
    <3> DEFINE list == <<Entry(line)>> \o RemoveAt(L, k)
    <3>1. Recency(lines'[set]) = list
      BY <2>5, <2>6
    <3> HIDE DEF list
    <3>2. Recent' = [Recent EXCEPT ![set] = list] /\ Recent[set] = Recency(lines[set])
      BY <1>2, <2>6, <3>1, AccessStep
    <3> QED BY <3>2 DEF L, list
  <2>8. Abstract!Hit(set, k, op = "S")
    <3>1. Entry(line) = Abstract!Block(Recent[set][k].tag, Recent[set][k].dirty \/ op = "S")
      BY <2>2, <2>5, <2>7 DEF Abstract!Block
    <3>2. op = "S" /\ old.dirty = 0 <=> op = "S" /\ ~Recent[set][k].dirty
      <4>1. Recent[set][k] = Entry(old)
        BY <2>5, <2>7
      <4>2. (Entry(old).dirty <=> old.dirty = 1) /\ old.dirty \in {0, 1}
        BY <2>1 DEF Entry, Line
      <4> QED BY <4>1, <4>2
    <3>3. stats' = [stats EXCEPT !.hits = @ + 1,
                      !.dirty_bytes = IF op = "S" /\ ~Recent[set][k].dirty
                                      THEN @ + 2^geom.b ELSE @]
      BY <2>3, <3>2 DEF HitStats, BlockBytes
    <3>4. Abstract!RemoveAt(Recent[set], k) = RemoveAt(L, k)
      BY <2>7 DEF Abstract!RemoveAt, RemoveAt
    <3> QED BY <2>7, <3>1, <3>3, <3>4 DEF Abstract!Hit
  <2>9. Recent[set][k].tag = tag
    BY <2>1, <2>5, <2>7 DEF Entry
  <2>10. Abstract!Access(address, op = "S")
    BY <2>5, <2>7, <2>8, <2>9 DEF Abstract!Access, set, tag, SetIndex, Tag
  <2> QED BY <1>6, <2>6, <2>10

<1>9. CASE hit = -1
  <2> DEFINE old == lines[set][victim]
             line == FilledLine(op, tag)
             set2 == [lines[set] EXCEPT ![victim] = line]
  <2>1. /\ line \in Line /\ line.valid = 1 /\ line.lru_counter = counter + 1
        /\ Entry(line) = [tag |-> tag, dirty |-> op = "S"] /\ line.tag = tag
    BY <1>2, <1>6 DEF FilledLine, Line, Entry
  <2>2. \A x \in Used(lines[set]) : lines[set][x].tag # tag
    BY <1>5, <1>9 DEF Used
  <2>3. lines' = [lines EXCEPT ![set] = set2] /\ stats' = MissStats(op, old)
    BY <1>6, <1>9
  <2>4. /\ victim \in Way(geom.E) /\ SetOK(set2, geom.E, counter + 1)
        /\ Len(L) = geom.E <=> old.valid = 1
        /\ Len(L) = geom.E => Last(L) = Entry(old)
        /\ Recency(set2) = <<Entry(line)>> \o (IF Len(L) = geom.E THEN Front(L) ELSE L)
    <3>1. victim \in Way(geom.E) =>
             /\ set2 \in CacheSet(geom.E) /\ set2[victim] = line
             /\ \A x \in Way(geom.E) \ {victim} : set2[x] = lines[set][x]
      BY <1>3, <2>1 DEF CacheSet
    <3> HIDE DEF line, set2
    <3>2. victim \in Way(geom.E) => Takes(lines[set], victim, line, counter, set2, geom.E)
      BY <2>1, <3>1 DEF Takes
    <3>3. Absent(lines[set], line.tag)
      BY <2>1, <2>2 DEF Absent
    <3>4. victim = search_victim_or_empty_line_idx(lines[set])
      BY DEF victim
    <3>5. /\ victim \in Way(geom.E) /\ SetOK(set2, geom.E, counter + 1)
          /\ Replaces(lines[set], victim, line, set2, geom.E)
      BY <1>1, <1>3, <3>2, <3>3, <3>4, MissSet
    <3> QED BY <3>5 DEF Replaces
  <2> HIDE DEF set2, line, L
  <2>5. /\ lines' # <<>> /\ CacheOK' /\ lines'[set] = set2
        /\ \A x \in DOMAIN lines \ {set} : lines'[x] = lines[x]
    BY <1>7, <2>3, <2>4
  <2> DEFINE kept == IF Len(Recent[set]) = geom.E THEN Front(Recent[set]) ELSE Recent[set]
  <2>6. Recent' = [Recent EXCEPT ![set] = <<Entry(line)>> \o kept] /\ Recent[set] = L
    <3> DEFINE list == <<Entry(line)>> \o (IF Len(L) = geom.E THEN Front(L) ELSE L)
    <3>1. Recency(lines'[set]) = list
      BY <2>4, <2>5
    <3> HIDE DEF list
    <3>2. Recent' = [Recent EXCEPT ![set] = list] /\ Recent[set] = Recency(lines[set])
      BY <1>2, <2>5, <3>1, AccessStep
    <3> QED BY <3>2 DEF L, list
  <2>7. Abstract!Miss(set, tag, op = "S")
    <3> DEFINE full == Len(Recent[set]) = geom.E
               written == IF full /\ Last(Recent[set]).dirty THEN 2^geom.b ELSE 0
    <3>1. Entry(line) = Abstract!Block(tag, op = "S")
      BY <2>1 DEF Abstract!Block
    <3>2. /\ full <=> old.valid = 1
          /\ written = IF old.valid = 1 /\ old.dirty = 1 THEN 2^geom.b ELSE 0
      <4>1. full <=> old.valid = 1
        BY <2>4, <2>6
      <4>2. Entry(old).dirty <=> old.dirty = 1
        BY DEF Entry
      <4>3. full => Last(Recent[set]) = Entry(old)
        BY <2>4, <2>6
      <4> QED BY <4>1, <4>2, <4>3
    <3>3. stats' = [stats EXCEPT !.misses = @ + 1,
                      !.evictions = IF full THEN @ + 1 ELSE @,
                      !.dirty_evictions = @ + written,
                      !.dirty_bytes = (@ - written) + (IF op = "S" THEN 2^geom.b ELSE 0)]
      BY <2>3, <3>2 DEF MissStats, BlockBytes
    <3>4. Recent' = [Recent EXCEPT ![set] = <<Abstract!Block(tag, op = "S")>> \o kept]
      BY <2>6, <3>1
    <3>5. Abstract!Front(L) = Front(L) /\ Abstract!Last(L) = Last(L)
      BY DEF Abstract!Front, Abstract!Last, Front, Last
    <3> QED BY <2>6, <3>3, <3>4, <3>5 DEF Abstract!Miss
  <2>8. \A k \in DOMAIN Recent[set] : Recent[set][k].tag # tag
    <3>1. PICK q \in Seq(Way(geom.E)) : Ordered(lines[set], q)
      BY <1>3 DEF SetOK
    <3>2. DOMAIN L = 1 .. Len(q) /\ \A r \in 1 .. Len(q) : L[r] = Entry(lines[set][q[r]])
      BY <1>1, <1>3, <3>1, RecencyFacts DEF L
    <3>3. \A r \in 1 .. Len(q) : q[r] \in Used(lines[set])
      BY <3>1 DEF Ordered
    <3> QED BY <2>2, <2>6, <3>2, <3>3 DEF Entry
  <2>9. Abstract!Access(address, op = "S")
    BY <2>7, <2>8 DEF Abstract!Access, set, tag, SetIndex, Tag
  <2> QED BY <1>6, <2>5, <2>9
<1> QED BY <1>8, <1>9

-----------------------------------------------------------------------------
(* The other steps                                                         *)

NoCache == [s |-> 0, E |-> 1, b |-> 0]

LEMMA NoCacheIs == NoCache \in Geometries
BY CSimAssumption, CSimLRUAssumption DEF NoCache, Geometries

LEMMA SameCache ==
  ASSUME UNCHANGED <<geom, lines, counter, stats>>
  PROVE  UNCHANGED Abstract!absvars /\ (CacheOK => CacheOK')
<1>1. Recent' = Recent
  BY DEF Recent, Running
<1> QED BY <1>1 DEF Abstract!absvars, CacheOK

LEMMA SimEndsResets ==
  ASSUME SimEnds
  PROVE  Abstract!Reset
<1>1. geom' = NoCache /\ lines' = <<>> /\ stats' = Abstract!Zero
  BY DEF SimEnds, NoCache, ZeroStats, Abstract!Zero
<1>2. Recent' = [set \in 0 .. 2^geom'.s - 1 |-> <<>>]
  BY <1>1 DEF Recent, Running
<1> QED BY <1>1, <1>2, NoCacheIs DEF Abstract!Reset

LEMMA StartResets ==
  ASSUME argv \in AllOptions, Start
  PROVE  CacheOK' /\ lines' # <<>> /\ Abstract!Reset
<1>1. /\ geom' \in Geometries /\ lines' = init_cache(geom'.s, geom'.E)
      /\ counter' = 0 /\ stats' = Abstract!Zero
  <2>1. /\ Outcome(argv) = "run"
        /\ geom' = [s |-> LastOf(argv, "s"), E |-> LastOf(argv, "E"), b |-> LastOf(argv, "b")]
        /\ lines' = init_cache(LastOf(argv, "s"), LastOf(argv, "E"))
        /\ counter' = 0 /\ stats' = ZeroStats
    BY DEF Start
  <2>2. geom' \in Geometries
    BY <2>1, CSimLRUAssumption
  <2> QED BY <2>1, <2>2 DEF Abstract!Zero, ZeroStats
<1>2. geom'.E \in Nat \ {0} /\ 2^geom'.s \in Nat \ {0}
  BY <1>1, Powers
<1>3. DOMAIN lines' = 0 .. 2^geom'.s - 1
  BY <1>1 DEF init_cache
<1>4. ASSUME NEW set \in DOMAIN lines'
      PROVE  SetOK(lines'[set], geom'.E, 0) /\ Recency(lines'[set]) = <<>>
  <2>1. lines'[set] = [j \in 0 .. geom'.E - 1 |-> EmptyLine]
    BY <1>1, <1>3, <1>4 DEF init_cache
  <2> QED BY <1>2, <2>1, EmptySet
<1>5. lines' \in [0 .. 2^geom'.s - 1 -> CacheSet(geom'.E)]
  <2>1. lines' = [set \in 0 .. 2^geom'.s - 1 |-> lines'[set]]
    BY <1>1 DEF init_cache
  <2> QED BY <1>3, <1>4, <2>1 DEF SetOK
<1>6. CacheOK'
  BY <1>1, <1>4, <1>5 DEF CacheOK
<1>7. lines' # <<>>
  <2>1. 0 \in DOMAIN lines'
    BY <1>2, <1>3
  <2> QED BY <2>1
<1>8. Recent' = [set \in 0 .. 2^geom'.s - 1 |-> <<>>]
  <2>1. Recent' = [set \in DOMAIN lines' |-> Recency(lines'[set])]
    BY <1>7 DEF Recent, Running
  <2> QED BY <1>3, <1>4, <2>1
<1> QED BY <1>1, <1>6, <1>7, <1>8 DEF Abstract!Reset

LEMMA InitIs == Init => SInv /\ Abstract!AbsInit
<1> SUFFICES ASSUME Init PROVE SInv /\ Abstract!AbsInit
  OBVIOUS
<1>1. geom = NoCache /\ lines = <<>> /\ stats = Abstract!Zero
  BY DEF Init, SimOff, NoCache, ZeroStats, Abstract!Zero
<1>2. Recent = [set \in 0 .. 2^geom.s - 1 |-> <<>>]
  BY <1>1 DEF Recent, Running
<1>3. Abstract!AbsInit
  BY <1>1, <1>2, NoCacheIs DEF Abstract!AbsInit
<1> QED BY <1>3 DEF SInv, SimInv, CallerInv, Init, SimOff, ToolOff

LEMMA SimIdleKeeps ==
  ASSUME SimInv, UNCHANGED simvars
  PROVE  SimInv' /\ UNCHANGED Abstract!absvars
<1>1. UNCHANGED <<phase, argv, geom, lines, counter, stats, trace, pos>>
  BY DEF simvars
<1>2. UNCHANGED Abstract!absvars /\ (CacheOK => CacheOK')
  BY <1>1, SameCache
<1>3. TraceOK => TraceOK'
  BY <1>1 DEF TraceOK
<1> QED BY <1>1, <1>2, <1>3 DEF SimInv

LEMMA SimEndsKeeps ==
  ASSUME SimEnds
  PROVE  SimInv' /\ phase' = "off" /\ Abstract!Reset
<1>1. Abstract!Reset
  BY SimEndsResets
<1> QED BY <1>1 DEF SimEnds, SimInv

(* The steps of csim.                                                      *)
LEMMA ReadStep ==
  ASSUME SimInv, ReadLine
  PROVE  SimInv' /\ [Abstract!AbsNext]_(Abstract!absvars)
<1>1. /\ phase = "trace" /\ lines # <<>> /\ CacheOK /\ counter \in Nat
      /\ UNCHANGED <<phase, argv, geom, trace>> /\ pos' = pos + 1
  BY DEF SimInv, ReadLine
<1>2. PICK options \in AllOptions :
         /\ Outcome(options) = "run" /\ trace = LastOf(options, "t")
         /\ trace # FileMissing => pos \in 0 .. Len(trace)
  BY <1>1 DEF SimInv, TraceOK
<1>3. trace # FileMissing /\ pos # Len(trace)
  BY DEF ReadLine, AtEnd
<1>4. /\ Len(trace) \in Nat
      /\ \A k \in 1 .. Len(trace) : parse_trace_line(trace[k]) => trace[k].address \in Addresses
  BY <1>2, <1>3, CSimLRUAssumption
<1>5. pos + 1 \in 1 .. Len(trace) /\ pos' \in 0 .. Len(trace)
  BY <1>1, <1>2, <1>3, <1>4
<1>6. TraceOK'
  BY <1>1, <1>2, <1>5 DEF TraceOK
<1> DEFINE line == trace[pos + 1]
<1>7. CASE ~parse_trace_line(line)
  <2>1. UNCHANGED <<lines, counter, stats>>
    BY <1>7 DEF ReadLine
  <2>2. UNCHANGED Abstract!absvars /\ CacheOK'
    BY <1>1, <2>1, SameCache
  <2> QED BY <1>1, <1>6, <2>1, <2>2 DEF SimInv
<1>8. CASE parse_trace_line(line)
  <2>1. touch_cache(line.op, line.address)
    BY <1>8 DEF ReadLine
  <2>2. line.address \in Addresses /\ line.op \in {"L", "S"}
    BY <1>4, <1>5, <1>8 DEF parse_trace_line
  <2> HIDE DEF line
  <2>3. /\ counter' \in Nat /\ lines' # <<>> /\ CacheOK'
        /\ Abstract!Access(line.address, line.op = "S")
    BY <1>1, <2>1, <2>2, TouchStep
  <2>4. Abstract!AbsNext
    BY <2>2, <2>3 DEF Abstract!AbsNext
  <2>5. SimInv'
    BY <1>1, <1>6, <2>3 DEF SimInv
  <2> QED BY <2>4, <2>5
<1> QED BY <1>7, <1>8

LEMMA CsimStep ==
  ASSUME SInv, CsimSteps \/ CsimEnds \/ CsimKilled
  PROVE  SInv' /\ [Abstract!AbsNext]_(Abstract!absvars)
<1>1. phase # "off" /\ UNCHANGED <<tool, step, call, i>>
  BY DEF CsimSteps, Refuse, Start, StartFails, ReadLine, CsimEnds, Finish, Simulated, CsimKilled,
         SimulatorRuns, toolvars
<1>2. CallerInv'
  BY <1>1 DEF SInv, CallerInv, TestOK
<1>3. CASE Refuse \/ StartFails \/ Finish \/ CsimKilled
  <2>1. UNCHANGED <<argv, geom, lines, counter, stats>> /\ phase' = "exited"
    BY <1>3 DEF Refuse, StartFails, Finish, CsimKilled, Exit
  <2>2. UNCHANGED Abstract!absvars /\ (CacheOK => CacheOK')
    BY <2>1, SameCache
  <2> QED BY <1>2, <2>1, <2>2 DEF SInv, SimInv
<1>4. CASE Start
  <2>1. argv \in AllOptions
    BY <1>4 DEF SInv, SimInv, Start
  <2>2. CacheOK' /\ lines' # <<>> /\ Abstract!Reset
    BY <1>4, <2>1, StartResets
  <2>3. counter' \in Nat /\ phase' = "trace"
    BY <1>4 DEF Start
  <2>4. TraceOK'
    <3>1. Outcome(argv) = "run" /\ trace' = LastOf(argv, "t") /\ pos' = 0
      BY <1>4 DEF Start
    <3>2. trace' # FileMissing => Len(trace') \in Nat
      BY <2>1, <3>1, CSimLRUAssumption
    <3>3. trace' # FileMissing => pos' \in 0 .. Len(trace')
      BY <3>1, <3>2
    <3> QED BY <2>1, <3>1, <3>3 DEF TraceOK
  <2> QED BY <1>2, <2>2, <2>3, <2>4 DEF SInv, SimInv, Abstract!AbsNext
<1>5. CASE ReadLine
  BY <1>2, <1>5, ReadStep DEF SInv
<1> QED BY <1>3, <1>4, <1>5 DEF CsimSteps, CsimEnds

(* A command line is one of those that csim is given.                      *)
LEMMA CommandStep ==
  ASSUME SInv, StartUserCsim \/ SystemCsim
  PROVE  SInv' /\ UNCHANGED Abstract!absvars
<1>1. phase = "off" /\ lines = <<>>
  BY DEF SInv, SimInv, CallerInv, StartUserCsim, SystemCsim
<1>2. UNCHANGED <<geom, lines, counter, stats>> /\ phase' = "args"
  BY DEF StartUserCsim, SystemCsim
<1>3. UNCHANGED Abstract!absvars
  BY <1>2, SameCache
<1>4. argv' \in AllOptions
  <2>1. CASE StartUserCsim
    BY <2>1 DEF StartUserCsim, AllOptions
  <2>2. CASE SystemCsim
    <3>1. i \in DOMAIN TRACE_INFO /\ call[i] \in TraceFiles
      BY <2>2 DEF SInv, CallerInv, TestOK, SystemCsim
    <3> QED BY <2>2, <3>1 DEF SystemCsim, AllOptions
  <2> QED BY <2>1, <2>2
<1>5. SimInv'
  BY <1>1, <1>2, <1>4 DEF SInv, SimInv
<1>6. CallerInv'
  <2>1. CASE StartUserCsim
    BY <2>1 DEF CallerInv, StartUserCsim
  <2>2. CASE SystemCsim
    BY <2>2 DEF SInv, CallerInv, TestOK, SystemCsim
  <2> QED BY <2>1, <2>2
<1> QED BY <1>3, <1>5, <1>6 DEF SInv

(* A simulator that has ended, and a tool.                                 *)
LEMMA EndStep ==
  ASSUME SInv, UserCsimEnds \/ SystemFails \/ SystemReturns \/ Report \/ Alarm
  PROVE  SInv' /\ Abstract!AbsNext
<1>1. SimEnds
  BY DEF UserCsimEnds, SystemFails, SystemReturns, Report, Alarm
<1>2. SimInv' /\ phase' = "off" /\ Abstract!Reset
  BY <1>1, SimEndsKeeps
<1>3. tool' = "test-csim" => TestOK'
  <2>1. CASE UserCsimEnds \/ Report \/ Alarm
    BY <2>1 DEF UserCsimEnds, Report, Alarm, ToolEnds
  <2>2. CASE SystemFails
    <3>1. TestOK /\ i \in DOMAIN TRACE_INFO
      BY <2>2 DEF SInv, CallerInv, TestOK, SystemFails
    <3>2. /\ call' = call /\ i' = i + 1
          /\ step' = IF i = Len(TRACE_INFO) THEN "report" ELSE "unlink"
      BY <2>2 DEF SystemFails, NextTest
    <3> QED BY <3>1, <3>2, CSimLRUAssumption DEF TestOK
  <2>3. CASE SystemReturns
    BY <2>3 DEF SInv, CallerInv, TestOK, SystemReturns
  <2> QED BY <2>1, <2>2, <2>3
<1> QED BY <1>2, <1>3 DEF SInv, CallerInv, Abstract!AbsNext

(* The steps of its callers that leave csim alone.                         *)
LEMMA IdleStep ==
  ASSUME SInv,
         \/ StartTestCsim \/ StartTestTrans \/ Unlink \/ SystemRef \/ Load
         \/ Skip \/ Generate \/ Simulate \/ Record
  PROVE  SInv' /\ UNCHANGED Abstract!absvars
<1>1. UNCHANGED simvars
  BY DEF StartTestCsim, StartTestTrans, Unlink, SystemRef, Load, Skip, Generate, Simulate,
         Record, SimIdle
<1>2. SimInv' /\ UNCHANGED Abstract!absvars /\ phase' = phase
  BY <1>1, SimIdleKeeps DEF SInv, simvars
<1>3. phase = "off"
  BY DEF SInv, CallerInv, StartTestCsim, StartTestTrans, Unlink, SystemRef, Load, Skip, Generate,
         Simulate, Record
<1>4. tool' = "test-csim" => TestOK'
  <2>1. CASE StartTestCsim
    <3>1. call' \in [DOMAIN TRACE_INFO -> TraceFiles] /\ i' = 1
      BY <2>1 DEF StartTestCsim
    <3> QED BY <3>1, CSimLRUAssumption DEF TestOK
  <2>2. CASE Unlink \/ SystemRef \/ Load
    <3>1. TestOK /\ i \in DOMAIN TRACE_INFO
      BY <2>2 DEF SInv, CallerInv, TestOK, Unlink, SystemRef, Load
    <3>2. /\ call' = call
          /\ \/ i' = i
             \/ i' = i + 1 /\ step' = IF i = Len(TRACE_INFO) THEN "report" ELSE "unlink"
      BY <2>2 DEF Unlink, SystemRef, Load, NextTest
    <3> QED BY <3>1, <3>2, CSimLRUAssumption DEF TestOK
  <2>3. CASE StartTestTrans \/ Skip \/ Generate \/ Simulate \/ Record
    BY <2>3 DEF StartTestTrans, Skip, Generate, Simulate, Record
  <2> QED BY <2>1, <2>2, <2>3
<1> QED BY <1>2, <1>3, <1>4 DEF SInv, CallerInv

LEMMA StepKeeps ==
  ASSUME SInv, [Next]_vars
  PROVE  SInv' /\ [Abstract!AbsNext]_(Abstract!absvars)
<1>1. CASE CsimSteps \/ CsimEnds \/ CsimKilled
  BY <1>1, CsimStep
<1>2. CASE StartUserCsim \/ SystemCsim
  BY <1>2, CommandStep
<1>3. CASE UserCsimEnds \/ SystemFails \/ SystemReturns \/ Report \/ Alarm
  BY <1>3, EndStep
<1>4. CASE \/ StartTestCsim \/ StartTestTrans \/ Unlink \/ SystemRef \/ Load
           \/ Skip \/ Generate \/ Simulate \/ Record
  BY <1>4, IdleStep
<1>5. CASE UNCHANGED vars
  <2>1. UNCHANGED simvars /\ UNCHANGED toolvars
    BY <1>5 DEF vars
  <2>2. SimInv' /\ UNCHANGED Abstract!absvars /\ phase' = phase
    BY <2>1, SimIdleKeeps DEF SInv, simvars
  <2> QED BY <2>1, <2>2 DEF SInv, CallerInv, TestOK, toolvars
<1> QED BY <1>1, <1>2, <1>3, <1>4, <1>5 DEF Next

(* csim, as it is run by a user or by test-csim, implements SetLRU: each   *)
(* line of a trace that can be read is one access to a cache that is least *)
(* recently used set by set, with the counts that SetLRU has, and nothing  *)
(* else that happens, in csim or in its callers, touches it but a reset.   *)
THEOREM CSimIsSetLRU == Spec => ImplementsSetLRU
<1>1. Init => SInv /\ Abstract!AbsInit
  BY InitIs
<1>2. SInv /\ [Next]_vars => SInv' /\ [Abstract!AbsNext]_(Abstract!absvars)
  BY StepKeeps
<1> QED BY <1>1, <1>2, PTL DEF Spec, ImplementsSetLRU, Abstract!AbsSpec

-----------------------------------------------------------------------------
(* The file of results                                                     *)

(* What the file holds, if it is whole, is of the last simulator.          *)
OwnOrNone == loadSummaryOK => file.serial = serial

FileInv ==
  tool = "test-csim" =>
    /\ step = "system" => ~loadSummaryOK
    /\ step = "wait" => OwnOrNone /\ (phase \in {"args", "trace"} => ~loadSummaryOK)
    /\ step = "load" => OwnOrNone

LEMMA Printed ==
  ASSUME NEW st, printSummary(st), OwnOrNone \/ ~loadSummaryOK, serial' = serial
  PROVE  OwnOrNone'
BY DEF printSummary, OwnOrNone, loadSummaryOK

LEMMA FileStep ==
  ASSUME SInv, FileInv, [Next]_vars
  PROVE  FileInv'
<1>1. CASE UNCHANGED vars
  BY <1>1 DEF FileInv, OwnOrNone, loadSummaryOK, vars, simvars, toolvars
<1>2. CASE Next
  <2>1. CASE CsimSteps \/ CsimKilled
    <3>1. /\ UNCHANGED <<tool, step, file, serial>> /\ phase \in {"args", "trace"}
      BY <2>1 DEF CsimSteps, CsimKilled, Refuse, Start, StartFails, ReadLine, SimulatorRuns,
                  toolvars
    <3> QED BY <3>1 DEF FileInv, OwnOrNone, loadSummaryOK
  <2>2. CASE CsimEnds
    <3>1. /\ UNCHANGED <<tool, step, serial>> /\ phase = "trace" /\ phase' = "exited"
          /\ UNCHANGED file \/ printSummary(stats)
      BY <2>2 DEF CsimEnds, Finish, Simulated, Exit
    <3>2. tool = "test-csim" => step = "wait"
      BY <3>1 DEF SInv, CallerInv
    <3>3. tool = "test-csim" => ~loadSummaryOK
      BY <3>1, <3>2 DEF FileInv
    <3>4. tool = "test-csim" => OwnOrNone'
      <4>1. CASE UNCHANGED file
        BY <3>1, <3>3, <4>1 DEF OwnOrNone, loadSummaryOK
      <4>2. CASE printSummary(stats)
        BY <3>1, <3>3, <4>2, Printed
      <4> QED BY <3>1, <4>1, <4>2
    <3> QED BY <3>1, <3>2, <3>4 DEF FileInv
  <2>3. CASE Unlink
    <3>1. step' = "system" => ~loadSummaryOK'
      BY <2>3 DEF Unlink, NextTest, NoFile, loadSummaryOK
    <3>2. step' \in {"system", "report", "unlink"}
      BY <2>3 DEF Unlink, NextTest
    <3> QED BY <3>1, <3>2 DEF FileInv
  <2>4. CASE SystemCsim
    BY <2>4 DEF SystemCsim, FileInv, OwnOrNone, loadSummaryOK
  <2>5. CASE SystemRef
    <3>1. /\ ~loadSummaryOK /\ step' = "load"
          /\ \E st : printSummary(st)
      BY <2>5 DEF SystemRef, FileInv
    <3>2. OwnOrNone'
      BY <3>1 DEF printSummary, OwnOrNone, loadSummaryOK
    <3> QED BY <3>1, <3>2 DEF FileInv
  <2>6. CASE SystemReturns
    <3>1. step' = "load" /\ UNCHANGED <<file, serial>> /\ OwnOrNone
      BY <2>6 DEF SystemReturns, FileInv
    <3> QED BY <3>1 DEF FileInv, OwnOrNone, loadSummaryOK
  <2>7. CASE \/ StartUserCsim \/ StartTestCsim \/ StartTestTrans \/ UserCsimEnds \/ SystemFails
             \/ Load \/ Skip \/ Generate \/ Simulate \/ Record \/ Report \/ Alarm
    <3>1. tool' = "test-csim" => step' \in {"unlink", "report"}
      BY <2>7 DEF StartUserCsim, StartTestCsim, StartTestTrans, UserCsimEnds, SystemFails, Load,
                  Skip, Generate, Simulate, Record, Report, Alarm, NextTest, ToolEnds
    <3> QED BY <3>1 DEF FileInv
  <2> QED BY <1>2, <2>1, <2>2, <2>3, <2>4, <2>5, <2>6, <2>7 DEF Next
<1> QED BY <1>1, <1>2

(* test-csim never marks one simulator by the counts of another: whatever  *)
(* fails, and whatever an earlier tool has left there, the .csim_results   *)
(* that it loads is of the simulator it has just run.                      *)
THEOREM LoadsItsOwn == Spec => []TestCsimLoadsItsOwn
<1>1. Init => SInv /\ FileInv
  BY InitIs DEF Init, ToolOff, FileInv
<1>2. SInv /\ [Next]_vars => SInv'
  BY StepKeeps
<1>3. SInv /\ FileInv /\ [Next]_vars => FileInv'
  BY FileStep
<1>4. FileInv => TestCsimLoadsItsOwn
  BY DEF FileInv, OwnOrNone, TestCsimLoadsItsOwn
<1> QED BY <1>1, <1>2, <1>3, <1>4, PTL DEF Spec

-----------------------------------------------------------------------------
(* Numbers, and the greatest of them                                       *)

(* A number is its quotient and its remainder.                             *)
LEMMA DivideIs ==
  ASSUME NEW d \in Nat \ {0}, NEW q \in Nat, NEW r \in 0 .. d - 1, NEW n \in Nat, n = q * d + r
  PROVE  n \div d = q /\ n % d = r
OBVIOUS

(* A quotient of a quotient.                                               *)
LEMMA DivideTwice ==
  ASSUME NEW a \in Nat, NEW x \in Nat \ {0}, NEW y \in Nat \ {0}
  PROVE  a \div (x * y) = (a \div x) \div y
<1>1. PICK q \in Nat, r \in 0 .. x - 1 : a = q * x + r /\ a \div x = q
  OBVIOUS
<1>2. PICK p \in Nat, t \in 0 .. y - 1 : q = p * y + t /\ q \div y = p
  OBVIOUS
<1>3. a = p * (x * y) + (t * x + r)
  <2>1. q * x = (p * y) * x + t * x
    BY <1>2
  <2>2. (p * y) * x = p * (x * y)
    OBVIOUS
  <2> QED BY <1>1, <2>1, <2>2
<1>4. t * x + r \in 0 .. x * y - 1
  <2>1. t * x \in Nat /\ (y - 1) * x = x * y - x /\ x * y \in Nat
    OBVIOUS
  <2>2. t * x <= (y - 1) * x
    OBVIOUS
  <2> QED BY <2>1, <2>2
<1>5. x * y \in Nat \ {0}
  OBVIOUS
<1>6. a \div (x * y) = p
  BY <1>3, <1>4, <1>5, DivideIs
<1> QED BY <1>1, <1>2, <1>6

(* A number is known by its quotient and its remainder.                    *)
LEMMA Divided ==
  ASSUME NEW a \in Nat, NEW c \in Nat, NEW d \in Nat \ {0}, a \div d = c \div d, a % d = c % d
  PROVE  a = c
OBVIOUS

-----------------------------------------------------------------------------
(* RefStats, after the first n accesses of the trace of csim               *)

Blk(k) == trace[k].address \div 2^geom.b
SetOf(k) == Blk(k) % 2^geom.s
TagOf(k) == trace[k].address \div 2^(geom.s + geom.b)

Rivals(k, first, last) ==
  {Blk(j) : j \in {h \in first .. last : SetOf(h) = SetOf(k) /\ Blk(h) # Blk(k)}}
Earlier(k) == {j \in 1 .. k - 1 : Blk(j) = Blk(k)}
RefHit(k) == /\ Earlier(k) # {}
             /\ Cardinality(Rivals(k, Max(Earlier(k)) + 1, k - 1)) < geom.E
Misses(n) == {k \in 1 .. n : ~RefHit(k)}
Again(k, n) == {j \in Misses(n) : j > k /\ Blk(j) = Blk(k)}
Uses(k, n) == {j \in k .. n : Blk(j) = Blk(k) /\ \A h \in Again(k, n) : j < h}
Leaves(k, n) == \/ Again(k, n) # {}
                \/ Cardinality(Rivals(k, Max(Uses(k, n)) + 1, n)) >= geom.E
Dirtied(k, n) == \E j \in Uses(k, n) : trace[j].op = "S"
Gone(n) == {k \in Misses(n) : Leaves(k, n)}
Dirt(n) == {k \in Misses(n) : Dirtied(k, n)}

Counts(n) ==
  [hits |-> n - Cardinality(Misses(n)), misses |-> Cardinality(Misses(n)),
   evictions |-> Cardinality(Gone(n)),
   dirty_bytes |-> 2^geom.b * Cardinality(Dirt(n) \ Gone(n)),
   dirty_evictions |-> 2^geom.b * Cardinality(Dirt(n) \cap Gone(n))]

(* No access after u, up to n, has the block of u.                         *)
LastUse(u, n) == u \in 1 .. n /\ \A h \in u + 1 .. n : Blk(h) # Blk(u)

(* A line of L has the block of access k.                                  *)
InCache(L, k) == \E j \in Used(L[SetOf(k)]) : L[SetOf(k)][j].tag = TagOf(k)

(* The time stamps of the lines L are those of the last uses of their      *)
(* blocks,                                                                 *)
Stamped(L, n) ==
  \A set \in DOMAIN L : \A j \in Used(L[set]) :
    LET u == L[set][j].lru_counter
    IN  LastUse(u, n) /\ SetOf(u) = set /\ TagOf(u) = L[set][j].tag

(* a block that is in no line was used before those in all the lines of    *)
(* its set,                                                                *)
LeastRecent(L, n) ==
  \A u \in 1 .. n : LastUse(u, n) /\ ~InCache(L, u) =>
    \A j \in Way(geom.E) : j \in Used(L[SetOf(u)]) /\ L[SetOf(u)][j].lru_counter > u

(* and a line is dirty if there was a store since its block came.          *)
MarkedDirty(L, n) ==
  \A set \in DOMAIN L : \A j \in Used(L[set]) : \A k \in Misses(n) :
    SetOf(k) = set /\ TagOf(k) = L[set][j].tag /\ Again(k, n) = {} =>
      (L[set][j].dirty = 1 <=> Dirtied(k, n))

Follows(L, n) == Stamped(L, n) /\ LeastRecent(L, n) /\ MarkedDirty(L, n)

(* The lines and the counts of csim are those of the trace, as far as it   *)
(* has been read.                                                          *)
CountsInv ==
  phase = "trace" /\ Readable(trace) =>
    /\ parse_error = 0 /\ counter = pos
    /\ Follows(lines, pos) /\ stats = Counts(pos)

-----------------------------------------------------------------------------
(* A trace, and lines for the first n accesses of it.                      *)
GoodTrace ==
  /\ geom \in Geometries /\ Len(trace) \in Nat
  /\ \A k \in 1 .. Len(trace) : trace[k].op \in {"L", "S"} /\ trace[k].address \in Nat

LinesOK(L, n) ==
  /\ L \in [0 .. 2^geom.s - 1 -> CacheSet(geom.E)]
  /\ \A set \in DOMAIN L : SetOK(L[set], geom.E, n)

LEMMA GeometryIs ==
  ASSUME GoodTrace
  PROVE  /\ 2^geom.s \in Nat \ {0} /\ 2^geom.b \in Nat \ {0}
         /\ 2^(geom.s + geom.b) = 2^geom.b * 2^geom.s
         /\ geom.E \in Nat \ {0}
<1>1. geom \in Geometries
  BY DEF GoodTrace
<1>2. geom.s \in 0 .. AddrBits /\ geom.b \in 0 .. AddrBits /\ geom.s + geom.b <= AddrBits
  BY <1>1, CSimAssumption, CSimLRUAssumption DEF Geometries
<1>3. 2^(geom.s + geom.b) = 2^geom.b * 2^geom.s
  BY <1>2, CSimLRUAssumption
<1> QED BY <1>1, <1>3, Powers

LEMMA AccessIs ==
  ASSUME GoodTrace, NEW k \in 1 .. Len(trace)
  PROVE  /\ Blk(k) \in Nat /\ SetOf(k) \in 0 .. 2^geom.s - 1 /\ TagOf(k) \in Nat
         /\ TagOf(k) = Blk(k) \div 2^geom.s
<1> DEFINE a == trace[k].address
           x == 2^geom.b
           y == 2^geom.s
<1>1. a \in Nat /\ x \in Nat \ {0} /\ y \in Nat \ {0} /\ 2^(geom.s + geom.b) = x * y
  BY GeometryIs DEF GoodTrace
<1>2. Blk(k) = a \div x /\ SetOf(k) = (a \div x) % y /\ TagOf(k) = a \div (x * y)
  BY <1>1 DEF Blk, SetOf, TagOf
<1> HIDE DEF a, x, y
<1>3. a \div (x * y) = (a \div x) \div y
  BY <1>1, DivideTwice
<1>4. a \div x \in Nat
  BY <1>1, Quotients
<1>5. (a \div x) % y \in 0 .. y - 1 /\ (a \div x) \div y \in Nat
  BY <1>1, <1>4, Quotients
<1> QED BY <1>2, <1>3, <1>4, <1>5 DEF y

(* A block is its set and its tag.                                         *)
LEMMA SameBlock ==
  ASSUME GoodTrace, NEW k \in 1 .. Len(trace), NEW h \in 1 .. Len(trace)
  PROVE  Blk(k) = Blk(h) <=> SetOf(k) = SetOf(h) /\ TagOf(k) = TagOf(h)
<1>1. Blk(k) \in Nat /\ TagOf(k) = Blk(k) \div 2^geom.s /\ SetOf(k) = Blk(k) % 2^geom.s
  BY AccessIs DEF SetOf
<1>2. Blk(h) \in Nat /\ TagOf(h) = Blk(h) \div 2^geom.s /\ SetOf(h) = Blk(h) % 2^geom.s
  BY AccessIs DEF SetOf
<1>3. 2^geom.s \in Nat \ {0}
  BY GeometryIs
<1>4. ASSUME SetOf(k) = SetOf(h), TagOf(k) = TagOf(h) PROVE Blk(k) = Blk(h)
  BY <1>1, <1>2, <1>3, <1>4, Divided
<1> QED BY <1>1, <1>2, <1>4

LEMMA Greatest ==
  ASSUME NEW n \in Nat, NEW S \in SUBSET (0 .. n), S # {}
  PROVE  Max(S) \in S /\ \A k \in S : k <= Max(S)
<1> DEFINE Mirror == {m \in 0 .. n : n - m \in S}
<1>1. Mirror \in SUBSET Nat
  OBVIOUS
<1>2. Mirror # {}
  <2>1. PICK k \in S : k \in 0 .. n
    OBVIOUS
  <2>2. n - k \in Mirror
    BY <2>1
  <2> QED BY <2>2
<1>3. PICK m \in Mirror : \A k \in Mirror : m <= k
  <2> HIDE DEF Mirror
  <2> QED BY <1>1, <1>2, LeastElement
<1>4. PICK u \in S : u = n - m
  BY <1>3
<1>5. \A k \in S : u >= k
  <2> TAKE k \in S
  <2>1. n - k \in Mirror
    OBVIOUS
  <2>2. n - u <= n - k
    BY <1>3, <1>4, <2>1
  <2> QED BY <2>2
<1>6. \E x \in S : \A k \in S : x >= k
  BY <1>5
<1>7. Max(S) \in S /\ \A k \in S : Max(S) >= k
  BY <1>6 DEF Max
<1> QED BY <1>7

LEMMA MaxIs ==
  ASSUME NEW S \in SUBSET Nat, NEW u \in S, \A k \in S : k <= u
  PROVE  Max(S) = u
<1>1. \E x \in S : \A k \in S : x >= k
  <2>1. \A k \in S : u >= k
    OBVIOUS
  <2> QED BY <2>1
<1>2. Max(S) \in S /\ \A k \in S : Max(S) >= k
  BY <1>1 DEF Max
<1>3. Max(S) \in Nat /\ u \in Nat /\ Max(S) <= u /\ Max(S) >= u
  BY <1>2
<1> QED BY <1>3

LEMMA LastUseIs ==
  ASSUME GoodTrace, NEW n \in 0 .. Len(trace), NEW k \in 1 .. n
  PROVE  \E u \in k .. n : LastUse(u, n) /\ Blk(u) = Blk(k)
<1> DEFINE S == {j \in k .. n : Blk(j) = Blk(k)}
<1>1. n \in Nat /\ S \in SUBSET (0 .. n) /\ k \in S
  BY DEF GoodTrace
<1>2. Max(S) \in S /\ \A j \in S : j <= Max(S)
  <2> HIDE DEF S
  <2> QED BY <1>1, Greatest
<1>3. PICK u \in k .. n : u = Max(S) /\ Blk(u) = Blk(k)
  BY <1>2
<1>4. ASSUME NEW h \in u + 1 .. n, Blk(h) = Blk(u) PROVE FALSE
  <2>1. h \in S
    BY <1>1, <1>3, <1>4
  <2> QED BY <1>1, <1>2, <1>3, <2>1
<1>5. LastUse(u, n)
  BY <1>1, <1>3, <1>4 DEF LastUse
<1> QED BY <1>3, <1>5

LEMMA LastUseOnce ==
  ASSUME NEW n \in Nat, NEW u, NEW v, LastUse(u, n), LastUse(v, n), Blk(u) = Blk(v)
  PROVE  u = v
<1>1. u \in 1 .. n /\ v \in 1 .. n
  BY DEF LastUse
<1>2. v \notin u + 1 .. n /\ u \notin v + 1 .. n
  BY DEF LastUse
<1> QED BY <1>1, <1>2

(* The lines of a set, and their time stamps.                              *)
LEMMA LineIs ==
  ASSUME GoodTrace, NEW n \in 0 .. Len(trace), NEW L, LinesOK(L, n), Stamped(L, n),
         NEW set \in DOMAIN L, NEW j \in Used(L[set])
  PROVE  /\ j \in Way(geom.E) /\ L[set][j] \in Line /\ L[set][j].valid = 1
         /\ L[set][j].lru_counter \in 1 .. n /\ LastUse(L[set][j].lru_counter, n)
         /\ SetOf(L[set][j].lru_counter) = set /\ TagOf(L[set][j].lru_counter) = L[set][j].tag
         /\ \A x \in Used(L[set]) : L[set][x].tag = L[set][j].tag => x = j
         /\ \A x \in Used(L[set]) : L[set][x].lru_counter = L[set][j].lru_counter => x = j
<1>1. SetOK(L[set], geom.E, n)
  BY DEF LinesOK
<1>2. j \in Way(geom.E) /\ L[set][j] \in Line /\ L[set][j].valid = 1
  BY <1>1 DEF SetOK, CacheSet, Used
<1>3. \A x \in Used(L[set]) : L[set][x].tag = L[set][j].tag => x = j
  BY <1>1 DEF SetOK
<1>4. \A x \in Used(L[set]) : LET u == L[set][x].lru_counter
                              IN  LastUse(u, n) /\ SetOf(u) = set /\ TagOf(u) = L[set][x].tag
  BY DEF Stamped
<1>5. L[set][j].lru_counter \in 1 .. n
  BY <1>4 DEF LastUse
<1> QED BY <1>2, <1>3, <1>4, <1>5

LEMMA SetsAre ==
  ASSUME GoodTrace, NEW n \in 0 .. Len(trace), NEW L, LinesOK(L, n)
  PROVE  /\ DOMAIN L = 0 .. 2^geom.s - 1
         /\ \A k \in 1 .. Len(trace) : SetOf(k) \in DOMAIN L
         /\ \A set \in DOMAIN L : /\ L[set] \in CacheSet(geom.E) /\ DOMAIN L[set] = Way(geom.E)
                                  /\ Used(L[set]) \subseteq Way(geom.E)
<1>1. DOMAIN L = 0 .. 2^geom.s - 1 /\ \A set \in DOMAIN L : L[set] \in CacheSet(geom.E)
  BY DEF LinesOK
<1>2. \A k \in 1 .. Len(trace) : SetOf(k) \in DOMAIN L
  BY <1>1, AccessIs
<1> QED BY <1>1, <1>2 DEF CacheSet, Used

(* Of a block in a line there are fewer than E rivals since,               *)
LEMMA FewRivals ==
  ASSUME GoodTrace, NEW n \in 0 .. Len(trace), NEW L, LinesOK(L, n), Stamped(L, n),
         LeastRecent(L, n), NEW set \in DOMAIN L, NEW j \in Used(L[set]),
         NEW u, u = L[set][j].lru_counter
  PROVE  /\ IsFiniteSet(Rivals(u, u + 1, n)) /\ Cardinality(Rivals(u, u + 1, n)) \in Nat
         /\ Cardinality(Rivals(u, u + 1, n)) < geom.E
<1> DEFINE R == Rivals(u, u + 1, n)
           W == {x \in Used(L[set]) : Blk(L[set][x].lru_counter) \in R}
           f == [x \in W |-> Blk(L[set][x].lru_counter)]
<1>1. /\ u \in 1 .. n /\ LastUse(u, n) /\ SetOf(u) = set /\ n \in Nat /\ n <= Len(trace)
      /\ j \in Way(geom.E)
  BY LineIs DEF GoodTrace
<1>2. geom.E \in Nat \ {0} /\ IsFiniteSet(Way(geom.E)) /\ Cardinality(Way(geom.E)) = geom.E
  BY GeometryIs, Ways
<1>3. W \subseteq Way(geom.E) \ {j}
  <2>1. Used(L[set]) \subseteq Way(geom.E)
    BY SetsAre
  <2>2. Blk(u) \notin R
    BY DEF Rivals
  <2> QED BY <2>1, <2>2
<1>4. ASSUME NEW r \in R PROVE \E x \in W : f[x] = r
  <2>1. PICK h \in u + 1 .. n : SetOf(h) = SetOf(u) /\ Blk(h) # Blk(u) /\ r = Blk(h)
    BY <1>4 DEF Rivals
  <2>2. h \in 1 .. n /\ h > u
    BY <1>1
  <2>3. PICK v \in h .. n : LastUse(v, n) /\ Blk(v) = Blk(h)
    BY <2>2, LastUseIs
  <2>4. v \in 1 .. n /\ v > u /\ v \in 1 .. Len(trace) /\ h \in 1 .. Len(trace)
    BY <1>1, <2>2, <2>3
  <2>5. SetOf(v) = set
    BY <1>1, <2>1, <2>3, <2>4, SameBlock
  <2>6. InCache(L, v)
    <3>1. ~(L[set][j].lru_counter > v)
      BY <1>1, <2>4
    <3> QED BY <1>1, <2>3, <2>4, <2>5, <3>1 DEF LeastRecent
  <2>7. PICK x \in Used(L[set]) : L[set][x].tag = TagOf(v)
    BY <2>5, <2>6 DEF InCache
  <2>8. PICK w \in 1 .. n : w = L[set][x].lru_counter /\ SetOf(w) = set /\ TagOf(w) = TagOf(v)
    BY <2>7, LineIs
  <2>9. Blk(w) = Blk(v)
    BY <1>1, <2>4, <2>5, <2>8, SameBlock
  <2> QED BY <2>1, <2>3, <2>7, <2>8, <2>9
<1>5. f \in Surjection(W, R)
  BY <1>4 DEF Surjection
<1> HIDE DEF f, R, W
<1>6. IsFiniteSet(Way(geom.E) \ {j}) /\ Cardinality(Way(geom.E) \ {j}) = geom.E - 1
  <2>1. /\ IsFiniteSet(Way(geom.E) \ {j})
        /\ Cardinality(Way(geom.E) \ {j}) =
             IF j \in Way(geom.E) THEN Cardinality(Way(geom.E)) - 1 ELSE Cardinality(Way(geom.E))
    BY <1>2, FS_RemoveElement
  <2> QED BY <1>1, <1>2, <2>1
<1>7. IsFiniteSet(W) /\ Cardinality(W) <= geom.E - 1
  BY <1>3, <1>6, FS_Subset
<1>8. IsFiniteSet(R) /\ Cardinality(R) <= Cardinality(W)
  BY <1>5, <1>7, FS_Surjection
<1>9. Cardinality(R) \in Nat /\ Cardinality(W) \in Nat
  BY <1>7, <1>8, FS_CardinalityType
<1>10. Cardinality(R) < geom.E
  BY <1>2, <1>7, <1>8, <1>9
<1> QED BY <1>8, <1>9, <1>10 DEF R

(* and of a block in no line there are E.                                  *)
LEMMA ManyRivals ==
  ASSUME GoodTrace, NEW n \in 0 .. Len(trace), NEW L, LinesOK(L, n), Stamped(L, n),
         LeastRecent(L, n), NEW u, LastUse(u, n), ~InCache(L, u)
  PROVE  /\ Cardinality(Rivals(u, u + 1, n)) \in Nat
         /\ Cardinality(Rivals(u, u + 1, n)) >= geom.E
<1> DEFINE R == Rivals(u, u + 1, n)
           set == SetOf(u)
           f == [x \in Way(geom.E) |-> Blk(L[set][x].lru_counter)]
           H == {h \in u + 1 .. n : SetOf(h) = SetOf(u) /\ Blk(h) # Blk(u)}
           g == [h \in H |-> Blk(h)]
<1>1. u \in 1 .. n /\ n \in Nat /\ n <= Len(trace) /\ u \in 1 .. Len(trace) /\ set \in DOMAIN L
  BY SetsAre DEF LastUse, GoodTrace
<1>2. \A x \in Way(geom.E) : x \in Used(L[set]) /\ L[set][x].lru_counter > u
  BY <1>1 DEF LeastRecent
<1>3. ASSUME NEW x \in Way(geom.E)
      PROVE  Blk(L[set][x].lru_counter) \in R
  <2>1. PICK v \in 1 .. n : v = L[set][x].lru_counter /\ SetOf(v) = set /\ v > u
    BY <1>1, <1>2, LineIs
  <2>2. v \in u + 1 .. n
    BY <1>1, <2>1
  <2>3. Blk(v) # Blk(u)
    BY <2>2 DEF LastUse
  <2> QED BY <2>1, <2>2, <2>3 DEF Rivals
<1>4. ASSUME NEW x \in Way(geom.E), NEW y \in Way(geom.E), f[x] = f[y]
      PROVE  x = y
  <2>1. x \in Used(L[set]) /\ y \in Used(L[set])
    BY <1>2
  <2>2. LastUse(L[set][x].lru_counter, n) /\ LastUse(L[set][y].lru_counter, n)
    BY <1>1, <2>1, LineIs
  <2>3. L[set][x].lru_counter = L[set][y].lru_counter
    BY <1>1, <1>4, <2>2, LastUseOnce
  <2> QED BY <1>1, <2>1, <2>3, LineIs
<1>5. f \in Injection(Way(geom.E), R)
  BY <1>3, <1>4 DEF Injection, IsInjective
<1>6. g \in Surjection(H, R)
  BY DEF Rivals, Surjection
<1>7. IsFiniteSet(H)
  <2>1. IsFiniteSet(u + 1 .. n)
    BY <1>1, FS_Interval
  <2> QED BY <2>1, FS_Subset
<1> HIDE DEF f, g, R, H
<1>8. IsFiniteSet(R)
  BY <1>6, <1>7, FS_Surjection
<1>9. Cardinality(Way(geom.E)) <= Cardinality(R)
  BY <1>5, <1>8, FS_Injection
<1>10. Cardinality(Way(geom.E)) = geom.E /\ geom.E \in Nat
  BY GeometryIs, Ways
<1>11. Cardinality(R) \in Nat
  BY <1>8, FS_CardinalityType
<1> QED BY <1>9, <1>10, <1>11 DEF R

LEMMA SameRivals ==
  ASSUME NEW k, NEW u, Blk(u) = Blk(k), NEW n
  PROVE  Rivals(k, u + 1, n) = Rivals(u, u + 1, n)
<1>1. SetOf(u) = SetOf(k)
  BY DEF SetOf
<1> QED BY <1>1 DEF Rivals

(* The line of a block was last used when the block was.                   *)
LEMMA LineOfBlock ==
  ASSUME GoodTrace, NEW n \in 0 .. Len(trace), NEW L, LinesOK(L, n), Stamped(L, n),
         NEW k \in 1 .. Len(trace), InCache(L, k)
  PROVE  \E j \in Used(L[SetOf(k)]) : \E u \in 1 .. n :
           /\ L[SetOf(k)][j].tag = TagOf(k) /\ u = L[SetOf(k)][j].lru_counter
           /\ LastUse(u, n) /\ Blk(u) = Blk(k)
<1>1. PICK j \in Used(L[SetOf(k)]) : L[SetOf(k)][j].tag = TagOf(k)
  BY DEF InCache
<1>2. SetOf(k) \in DOMAIN L
  BY SetsAre
<1>3. PICK u \in 1 .. n : /\ u = L[SetOf(k)][j].lru_counter /\ LastUse(u, n)
                         /\ SetOf(u) = SetOf(k) /\ TagOf(u) = TagOf(k)
  BY <1>1, <1>2, LineIs
<1>4. u \in 1 .. Len(trace)
  BY <1>3 DEF GoodTrace
<1>5. Blk(u) = Blk(k)
  BY <1>3, <1>4, SameBlock
<1> QED BY <1>1, <1>3, <1>5

LEMMA InCacheTogether ==
  ASSUME GoodTrace, NEW L, NEW k \in 1 .. Len(trace), NEW u \in 1 .. Len(trace), Blk(u) = Blk(k)
  PROVE  InCache(L, u) <=> InCache(L, k)
<1>1. SetOf(u) = SetOf(k) /\ TagOf(u) = TagOf(k)
  BY SameBlock
<1> QED BY <1>1 DEF InCache

(* RefStats has a hit where csim has one.                                  *)
LEMMA RefHitIs ==
  ASSUME GoodTrace, NEW n \in 0 .. Len(trace), n + 1 \in 1 .. Len(trace), NEW L, LinesOK(L, n),
         Stamped(L, n), LeastRecent(L, n)
  PROVE  RefHit(n + 1) <=> InCache(L, n + 1)
<1>1. n \in Nat /\ (n + 1) - 1 = n
  BY DEF GoodTrace
<1>2. PICK k \in 1 .. Len(trace) : k = n + 1 /\ k - 1 = n
  BY <1>1
<1>3. Earlier(k) = {j \in 1 .. n : Blk(j) = Blk(k)}
  BY <1>2 DEF Earlier
<1>4. RefHit(k) <=> Earlier(k) # {} /\ Cardinality(Rivals(k, Max(Earlier(k)) + 1, n)) < geom.E
  BY <1>2 DEF RefHit
<1>5. ASSUME InCache(L, k) PROVE RefHit(k)
  <2>1. PICK j \in Used(L[SetOf(k)]), u \in 1 .. n :
          u = L[SetOf(k)][j].lru_counter /\ LastUse(u, n) /\ Blk(u) = Blk(k)
    BY <1>5, LineOfBlock
  <2>2. u \in Earlier(k) /\ Earlier(k) \in SUBSET Nat
    BY <1>1, <1>3, <2>1
  <2>3. ASSUME NEW j2 \in Earlier(k) PROVE j2 <= u
    <3>1. j2 \in 1 .. n /\ Blk(j2) = Blk(u)
      BY <1>3, <2>1, <2>3
    <3>2. j2 \notin u + 1 .. n
      BY <2>1, <3>1 DEF LastUse
    <3> QED BY <1>1, <3>1, <3>2
  <2>4. Max(Earlier(k)) = u
    BY <2>2, <2>3, MaxIs
  <2>5. SetOf(k) \in DOMAIN L
    BY SetsAre
  <2>6. Cardinality(Rivals(u, u + 1, n)) < geom.E
    BY <2>1, <2>5, FewRivals
  <2> QED BY <1>4, <2>1, <2>2, <2>4, <2>6, SameRivals
<1>6. ASSUME ~InCache(L, k), RefHit(k) PROVE FALSE
  <2>1. Earlier(k) # {} /\ Earlier(k) \in SUBSET (0 .. n)
    BY <1>1, <1>3, <1>4, <1>6
  <2>2. PICK u \in Earlier(k) : u = Max(Earlier(k)) /\ \A j \in Earlier(k) : j <= u
    BY <1>1, <2>1, Greatest
  <2>3. u \in 1 .. n /\ Blk(u) = Blk(k)
    BY <1>3, <2>2
  <2>4. ASSUME NEW h \in u + 1 .. n, Blk(h) = Blk(u) PROVE FALSE
    <3>1. h \in Earlier(k)
      BY <1>1, <1>3, <2>3, <2>4
    <3> QED BY <1>1, <2>2, <2>3, <3>1
  <2>5. LastUse(u, n)
    BY <2>3, <2>4 DEF LastUse
  <2>6. ~InCache(L, u)
    <3>1. u \in 1 .. Len(trace)
      BY <2>3 DEF GoodTrace
    <3> QED BY <1>6, <2>3, <3>1, InCacheTogether
  <2>7. /\ Cardinality(Rivals(u, u + 1, n)) \in Nat /\ geom.E \in Nat
        /\ Cardinality(Rivals(u, u + 1, n)) >= geom.E
    BY <2>5, <2>6, ManyRivals, GeometryIs
  <2>8. Cardinality(Rivals(u, u + 1, n)) < geom.E
    BY <1>4, <1>6, <2>2, <2>3, SameRivals
  <2> QED BY <2>7, <2>8
<1> QED BY <1>2, <1>5, <1>6

LEMMA MissesAre ==
  ASSUME GoodTrace, NEW n \in 0 .. Len(trace)
  PROVE  /\ Misses(n) \subseteq 1 .. n /\ IsFiniteSet(Misses(n))
         /\ n + 1 \notin Misses(n)
         /\ Misses(n + 1) = IF RefHit(n + 1) THEN Misses(n) ELSE Misses(n) \cup {n + 1}
<1>1. n \in Nat /\ 1 .. n + 1 = (1 .. n) \cup {n + 1} /\ n + 1 \notin 1 .. n
  BY DEF GoodTrace
<1>2. IsFiniteSet(1 .. n)
  BY <1>1, FS_Interval
<1>3. Misses(n) \subseteq 1 .. n
  BY DEF Misses
<1>4. IsFiniteSet(Misses(n))
  BY <1>2, <1>3, FS_Subset
<1> QED BY <1>1, <1>3, <1>4 DEF Misses

(* The misses of a block after k, and the uses of what k brought in.       *)
LEMMA AgainStep ==
  ASSUME GoodTrace, NEW n \in 0 .. Len(trace), NEW k \in 1 .. n
  PROVE  Again(k, n + 1) = IF ~RefHit(n + 1) /\ Blk(k) = Blk(n + 1)
                           THEN Again(k, n) \cup {n + 1} ELSE Again(k, n)
<1>1. n \in Nat /\ n + 1 > k
  BY DEF GoodTrace
<1>2. Misses(n + 1) = IF RefHit(n + 1) THEN Misses(n) ELSE Misses(n) \cup {n + 1}
  BY MissesAre
<1>3. CASE RefHit(n + 1)
  BY <1>2, <1>3 DEF Again
<1>4. CASE ~RefHit(n + 1)
  <2>1. Misses(n + 1) = Misses(n) \cup {n + 1}
    BY <1>2, <1>4
  <2>2. \A j : j \in Again(k, n + 1) <=>
               j \in Again(k, n) \/ (j = n + 1 /\ Blk(k) = Blk(n + 1))
    BY <1>1, <2>1 DEF Again
  <2>3. CASE Blk(k) = Blk(n + 1)
    <3>1. Again(k, n + 1) = Again(k, n) \cup {n + 1}
      BY <2>2, <2>3
    <3> QED BY <1>4, <2>3, <3>1
  <2>4. CASE Blk(k) # Blk(n + 1)
    <3>1. Again(k, n + 1) = Again(k, n)
      BY <2>2, <2>4
    <3> QED BY <2>4, <3>1
  <2> QED BY <2>3, <2>4
<1> QED BY <1>3, <1>4

LEMMA UsesStep ==
  ASSUME GoodTrace, NEW n \in 0 .. Len(trace), NEW k \in 1 .. n
  PROVE  Uses(k, n + 1) = IF RefHit(n + 1) /\ Blk(k) = Blk(n + 1) /\ Again(k, n) = {}
                          THEN Uses(k, n) \cup {n + 1} ELSE Uses(k, n)
<1>1. /\ n \in Nat /\ k .. n + 1 = (k .. n) \cup {n + 1} /\ n + 1 \notin k .. n
      /\ \A j \in k .. n : j < n + 1
  BY DEF GoodTrace
<1>2. \A h \in Again(k, n) : h \in 1 .. n /\ ~(n + 1 < h)
  <2>1. Again(k, n) \subseteq 1 .. n
    BY MissesAre DEF Again
  <2> QED BY <1>1, <2>1
<1>3. CASE RefHit(n + 1)
  <2>1. Again(k, n + 1) = Again(k, n)
    BY <1>3, AgainStep
  <2>2. CASE Again(k, n) = {}
    BY <1>1, <1>3, <2>1, <2>2 DEF Uses
  <2>3. CASE Again(k, n) # {}
    <3>1. \E h \in Again(k, n) : ~(n + 1 < h)
      BY <1>2, <2>3
    <3> QED BY <1>1, <1>3, <2>1, <2>3, <3>1 DEF Uses
  <2> QED BY <2>2, <2>3
<1>4. CASE ~RefHit(n + 1)
  <2>1. CASE Blk(k) # Blk(n + 1)
    <3>1. Again(k, n + 1) = Again(k, n)
      BY <2>1, AgainStep
    <3> QED BY <1>1, <1>4, <2>1, <3>1 DEF Uses
  <2>2. CASE Blk(k) = Blk(n + 1)
    <3>1. Again(k, n + 1) = Again(k, n) \cup {n + 1}
      BY <1>4, <2>2, AgainStep
    <3>2. ~(n + 1 < n + 1)
      BY <1>1
    <3> QED BY <1>1, <1>4, <3>1, <3>2 DEF Uses
  <2> QED BY <2>1, <2>2
<1> QED BY <1>3, <1>4

LEMMA NewMiss ==
  ASSUME GoodTrace, NEW n \in 0 .. Len(trace)
  PROVE  Again(n + 1, n + 1) = {} /\ Uses(n + 1, n + 1) = {n + 1}
<1>1. n \in Nat /\ n + 1 .. n + 1 = {n + 1} /\ \A j \in 1 .. n + 1 : ~(j > n + 1)
  BY DEF GoodTrace
<1>2. Misses(n + 1) \subseteq 1 .. n + 1
  BY DEF Misses
<1>3. Again(n + 1, n + 1) = {}
  BY <1>1, <1>2 DEF Again
<1> QED BY <1>1, <1>3 DEF Uses

(* The block of a miss has left if it was missed again or is in no line.   *)
LEMMA LeavesIs ==
  ASSUME GoodTrace, NEW n \in 0 .. Len(trace), NEW L, LinesOK(L, n),
         Stamped(L, n), LeastRecent(L, n), NEW k \in 1 .. n
  PROVE  Leaves(k, n) <=> Again(k, n) # {} \/ ~InCache(L, k)
<1> SUFFICES ASSUME Again(k, n) = {} PROVE Leaves(k, n) <=> ~InCache(L, k)
  BY DEF Leaves
<1>1. PICK u \in k .. n : LastUse(u, n) /\ Blk(u) = Blk(k)
  BY LastUseIs
<1>2. n \in Nat /\ u \in 1 .. n /\ u \in 1 .. Len(trace) /\ k \in 1 .. Len(trace)
  BY <1>1 DEF GoodTrace
<1>3. Uses(k, n) = {j \in k .. n : Blk(j) = Blk(k)}
  BY DEF Uses
<1>4. Max(Uses(k, n)) = u
  <2>1. u \in Uses(k, n) /\ Uses(k, n) \in SUBSET Nat
    BY <1>1, <1>2, <1>3
  <2>2. ASSUME NEW j \in Uses(k, n) PROVE j <= u
    <3>1. j \in k .. n /\ Blk(j) = Blk(u)
      BY <1>1, <1>3, <2>2
    <3>2. j \notin u + 1 .. n
      BY <1>1, <3>1 DEF LastUse
    <3> QED BY <1>2, <3>1, <3>2
  <2> QED BY <2>1, <2>2, MaxIs
<1>5. Rivals(k, Max(Uses(k, n)) + 1, n) = Rivals(u, u + 1, n)
  BY <1>1, <1>4, SameRivals
<1>6. InCache(L, u) <=> InCache(L, k)
  BY <1>1, <1>2, InCacheTogether
<1>7. Leaves(k, n) <=> Cardinality(Rivals(u, u + 1, n)) >= geom.E
  BY <1>5 DEF Leaves
<1>8. CASE InCache(L, k)
  <2>1. PICK j \in Used(L[SetOf(u)]), v \in 1 .. n :
          v = L[SetOf(u)][j].lru_counter /\ LastUse(v, n) /\ Blk(v) = Blk(u)
    BY <1>2, <1>6, <1>8, LineOfBlock
  <2>2. v = u
    BY <1>1, <1>2, <2>1, LastUseOnce
  <2>3. SetOf(u) \in DOMAIN L
    BY <1>2, SetsAre
  <2>4. /\ Cardinality(Rivals(u, u + 1, n)) \in Nat /\ geom.E \in Nat
        /\ Cardinality(Rivals(u, u + 1, n)) < geom.E
    BY <2>1, <2>2, <2>3, FewRivals, GeometryIs
  <2> QED BY <1>7, <1>8, <2>4
<1>9. CASE ~InCache(L, k)
  BY <1>1, <1>6, <1>7, <1>9, ManyRivals
<1> QED BY <1>8, <1>9

(* Every block that was used came by one miss last.                        *)
LEMMA LastMiss ==
  ASSUME GoodTrace, NEW n \in 0 .. Len(trace), NEW k \in 1 .. n
  PROVE  \E m \in Misses(n) : /\ Blk(m) = Blk(k) /\ Again(m, n) = {}
                               /\ \A x \in Misses(n) :
                                    Blk(x) = Blk(k) /\ Again(x, n) = {} => x = m
<1> DEFINE S == {j \in 1 .. n : Blk(j) = Blk(k)}
           M == {j \in Misses(n) : Blk(j) = Blk(k)}
<1>1. n \in Nat /\ S \in SUBSET Nat /\ k \in S
  BY DEF GoodTrace
<1>2. PICK f \in S : \A j \in S : f <= j
  <2> HIDE DEF S
  <2> QED BY <1>1, LeastElement
<1>3. Earlier(f) = {}
  <2>1. ASSUME NEW j \in 1 .. f - 1, Blk(j) = Blk(f) PROVE FALSE
    <3>1. j \in S /\ j < f
      BY <1>1, <1>2, <2>1
    <3> QED BY <1>1, <1>2, <3>1
  <2> QED BY <2>1 DEF Earlier
<1>4. f \in M
  BY <1>2, <1>3 DEF Misses, RefHit
<1>5. M \in SUBSET (0 .. n)
  <2>1. Misses(n) \subseteq 1 .. n
    BY MissesAre
  <2>2. 1 .. n \subseteq 0 .. n
    BY <1>1
  <2> QED BY <2>1, <2>2
<1>6. Max(M) \in M /\ \A j \in M : j <= Max(M)
  <2> HIDE DEF M
  <2> QED BY <1>1, <1>4, <1>5, Greatest
<1>7. PICK m \in Misses(n) : m = Max(M) /\ Blk(m) = Blk(k)
  BY <1>6
<1>8. ASSUME NEW j \in Again(m, n) PROVE FALSE
  <2>1. j \in M /\ j > m /\ j \in 0 .. n /\ m \in 0 .. n
    BY <1>5, <1>6, <1>7, <1>8 DEF Again
  <2> QED BY <1>6, <1>7, <2>1
<1>9. ASSUME NEW x \in Misses(n), Blk(x) = Blk(k), Again(x, n) = {} PROVE x = m
  <2>1. x \in M /\ x <= m /\ x \in 0 .. n /\ m \in 0 .. n
    BY <1>5, <1>6, <1>7, <1>9
  <2>2. ~(m > x)
    BY <1>7, <1>9 DEF Again
  <2> QED BY <2>1, <2>2
<1> QED BY <1>7, <1>8, <1>9

-----------------------------------------------------------------------------
(* Access n + 1: line j of its set takes the block, and no other line has  *)
(* it; d is its dirty bit.                                                 *)
TakesLine(L, L2, n, j, d) ==
  /\ n + 1 \in 1 .. Len(trace) /\ LinesOK(L, n) /\ LinesOK(L2, n + 1) /\ j \in Way(geom.E)
  /\ \A set \in DOMAIN L \ {SetOf(n + 1)} : L2[set] = L[set]
  /\ LET old == L[SetOf(n + 1)]
         new == L2[SetOf(n + 1)]
     IN  /\ \A x \in Way(geom.E) \ {j} : new[x] = old[x]
         /\ \A x \in Used(old) \ {j} : old[x].tag # TagOf(n + 1)
         /\ new[j].valid = 1 /\ new[j].tag = TagOf(n + 1) /\ new[j].lru_counter = n + 1
         /\ new[j].dirty = d

(* j is the line that has the block of access k, in the set of n + 1.      *)
HasLine(L, n, j, k) ==
  /\ SetOf(k) = SetOf(n + 1)
  /\ j \in Used(L[SetOf(n + 1)]) /\ L[SetOf(n + 1)][j].tag = TagOf(k)

(* It is the line of a hit, or a free one, or the one used longest ago.    *)
IsHit(L, n, j, d) ==
  /\ HasLine(L, n, j, n + 1)
  /\ d = IF trace[n + 1].op = "S" THEN 1 ELSE L[SetOf(n + 1)][j].dirty

IsMiss(L, n, j, d) ==
  LET set == L[SetOf(n + 1)]
  IN  /\ ~InCache(L, n + 1)
      /\ d = IF trace[n + 1].op = "S" THEN 1 ELSE 0
      /\ j \in Used(set) => \A x \in Way(geom.E) : /\ x \in Used(set)
                                                   /\ set[j].lru_counter <= set[x].lru_counter

LEMMA OtherLines ==
  ASSUME GoodTrace, NEW n \in 0 .. Len(trace), NEW L, NEW L2, NEW j, NEW d,
         TakesLine(L, L2, n, j, d)
  PROVE  /\ DOMAIN L2 = DOMAIN L /\ SetOf(n + 1) \in DOMAIN L
         /\ \A set \in DOMAIN L : \A x \in Way(geom.E) :
              set # SetOf(n + 1) \/ x # j =>
                L2[set][x] = L[set][x] /\ (x \in Used(L2[set]) <=> x \in Used(L[set]))
         /\ j \in Used(L2[SetOf(n + 1)])
         /\ L2[SetOf(n + 1)][j].tag = TagOf(n + 1) /\ L2[SetOf(n + 1)][j].lru_counter = n + 1
         /\ L2[SetOf(n + 1)][j].dirty = d
         /\ \A set \in DOMAIN L : Used(L[set]) \subseteq Way(geom.E)
                                /\ Used(L2[set]) \subseteq Way(geom.E)
<1> DEFINE set1 == SetOf(n + 1)
<1>1. /\ n + 1 \in 1 .. Len(trace) /\ LinesOK(L, n) /\ LinesOK(L2, n + 1) /\ j \in Way(geom.E)
      /\ n + 1 \in 0 .. Len(trace)
  BY DEF TakesLine
<1>2. DOMAIN L = 0 .. 2^geom.s - 1 /\ set1 \in DOMAIN L
      /\ \A set \in DOMAIN L : DOMAIN L[set] = Way(geom.E) /\ Used(L[set]) \subseteq Way(geom.E)
  BY <1>1, SetsAre
<1>3. DOMAIN L2 = 0 .. 2^geom.s - 1
      /\ \A set \in DOMAIN L2 : DOMAIN L2[set] = Way(geom.E) /\ Used(L2[set]) \subseteq Way(geom.E)
  BY <1>1, SetsAre
<1>4. /\ \A set \in DOMAIN L \ {set1} : L2[set] = L[set]
      /\ \A x \in Way(geom.E) \ {j} : L2[set1][x] = L[set1][x]
      /\ L2[set1][j].valid = 1 /\ L2[set1][j].tag = TagOf(n + 1)
      /\ L2[set1][j].lru_counter = n + 1 /\ L2[set1][j].dirty = d
  BY DEF TakesLine
<1> HIDE DEF set1
<1>5. ASSUME NEW set \in DOMAIN L, NEW x \in Way(geom.E), set # set1 \/ x # j
      PROVE  L2[set][x] = L[set][x] /\ (x \in Used(L2[set]) <=> x \in Used(L[set]))
  <2>1. L2[set][x] = L[set][x]
    BY <1>4, <1>5
  <2> QED BY <1>2, <1>3, <2>1 DEF Used
<1>6. j \in Used(L2[set1])
  BY <1>1, <1>2, <1>3, <1>4 DEF Used
<1> QED BY <1>2, <1>3, <1>4, <1>5, <1>6 DEF set1

LEMMA InCacheStep ==
  ASSUME GoodTrace, NEW n \in 0 .. Len(trace), NEW L, NEW L2, NEW j, NEW d,
         TakesLine(L, L2, n, j, d), NEW k \in 1 .. Len(trace)
  PROVE  InCache(L2, k) <=> Blk(k) = Blk(n + 1) \/ (InCache(L, k) /\ ~HasLine(L, n, j, k))
<1> DEFINE set1 == SetOf(n + 1)
<1>1. n + 1 \in 1 .. Len(trace) /\ LinesOK(L, n) /\ SetOf(k) \in DOMAIN L /\ j \in Way(geom.E)
  BY SetsAre DEF TakesLine
<1>2. Blk(k) = Blk(n + 1) <=> SetOf(k) = set1 /\ TagOf(k) = TagOf(n + 1)
  BY <1>1, SameBlock
<1>3. /\ \A x \in Way(geom.E) : SetOf(k) # set1 \/ x # j =>
             /\ L2[SetOf(k)][x] = L[SetOf(k)][x]
             /\ x \in Used(L2[SetOf(k)]) <=> x \in Used(L[SetOf(k)])
      /\ j \in Used(L2[set1]) /\ L2[set1][j].tag = TagOf(n + 1)
      /\ Used(L[SetOf(k)]) \subseteq Way(geom.E) /\ Used(L2[SetOf(k)]) \subseteq Way(geom.E)
  BY <1>1, OtherLines
<1> HIDE DEF set1
<1>4. CASE SetOf(k) # set1
  <2>1. InCache(L2, k) <=> InCache(L, k)
    BY <1>3, <1>4 DEF InCache
  <2> QED BY <1>2, <1>4, <2>1 DEF HasLine, set1
<1>5. CASE SetOf(k) = set1
  <2>1. ASSUME InCache(L2, k), Blk(k) # Blk(n + 1)
        PROVE  InCache(L, k) /\ ~HasLine(L, n, j, k)
    <3>1. PICK x \in Used(L2[set1]) : L2[set1][x].tag = TagOf(k)
      BY <1>5, <2>1 DEF InCache
    <3>2. x # j /\ x \in Way(geom.E)
      BY <1>2, <1>3, <1>5, <2>1, <3>1
    <3>3. x \in Used(L[set1]) /\ L[set1][x].tag = TagOf(k)
      BY <1>3, <1>5, <3>1, <3>2
    <3>4. \A y, z \in Used(L[set1]) : L[set1][y].tag = L[set1][z].tag => y = z
      BY <1>1, <1>5 DEF LinesOK, SetOK
    <3> QED BY <1>5, <3>2, <3>3, <3>4 DEF InCache, HasLine, set1
  <2>2. ASSUME InCache(L, k), ~HasLine(L, n, j, k)
        PROVE  InCache(L2, k)
    <3>1. PICK x \in Used(L[set1]) : L[set1][x].tag = TagOf(k)
      BY <1>5, <2>2 DEF InCache
    <3>2. x # j /\ x \in Way(geom.E)
      BY <1>3, <1>5, <2>2, <3>1 DEF HasLine, set1
    <3>3. x \in Used(L2[set1]) /\ L2[set1][x].tag = TagOf(k)
      BY <1>3, <1>5, <3>1, <3>2
    <3> QED BY <1>5, <3>3 DEF InCache
  <2>3. Blk(k) = Blk(n + 1) => InCache(L2, k)
    BY <1>2, <1>3, <1>5 DEF InCache
  <2> QED BY <2>1, <2>2, <2>3
<1> QED BY <1>4, <1>5

LEMMA LastUseStep ==
  ASSUME NEW n \in Nat, NEW u
  PROVE  LastUse(u, n + 1) <=> u = n + 1 \/ (LastUse(u, n) /\ Blk(u) # Blk(n + 1))
<1>1. u \in 1 .. n + 1 <=> u = n + 1 \/ u \in 1 .. n
  OBVIOUS
<1>2. u \in 1 .. n => u + 1 .. n + 1 = (u + 1 .. n) \cup {n + 1}
  OBVIOUS
<1>3. u = n + 1 => u + 1 .. n + 1 = {} /\ u \notin 1 .. n
  OBVIOUS
<1> QED BY <1>1, <1>2, <1>3 DEF LastUse

LEMMA StampedStep ==
  ASSUME GoodTrace, NEW n \in 0 .. Len(trace), NEW L, NEW L2, NEW j, NEW d,
         TakesLine(L, L2, n, j, d), Stamped(L, n)
  PROVE  Stamped(L2, n + 1)
<1> SUFFICES ASSUME NEW set \in DOMAIN L2, NEW x \in Used(L2[set])
             PROVE  LET u == L2[set][x].lru_counter
                    IN  LastUse(u, n + 1) /\ SetOf(u) = set /\ TagOf(u) = L2[set][x].tag
  BY DEF Stamped
<1>1. n \in Nat /\ n + 1 \in 1 .. Len(trace) /\ LinesOK(L, n)
  BY DEF GoodTrace, TakesLine
<1>2. DOMAIN L2 = DOMAIN L /\ x \in Way(geom.E)
  BY OtherLines
<1>3. CASE set = SetOf(n + 1) /\ x = j
  <2>1. L2[set][x].lru_counter = n + 1 /\ L2[set][x].tag = TagOf(n + 1)
    BY <1>3, OtherLines
  <2> QED BY <1>1, <1>3, <2>1, LastUseStep
<1>4. CASE set # SetOf(n + 1) \/ x # j
  <2>1. L2[set][x] = L[set][x] /\ x \in Used(L[set])
    BY <1>2, <1>4, OtherLines
  <2>2. PICK u \in 1 .. n : /\ u = L[set][x].lru_counter /\ LastUse(u, n)
                           /\ SetOf(u) = set /\ TagOf(u) = L[set][x].tag
    BY <1>1, <1>2, <2>1, LineIs
  <2>3. Blk(u) # Blk(n + 1)
    <3>1. u \in 1 .. Len(trace)
      BY <1>1
    <3>2. set = SetOf(n + 1) => L[set][x].tag # TagOf(n + 1)
      BY <1>4, <2>1 DEF TakesLine
    <3> QED BY <1>1, <2>2, <3>1, <3>2, SameBlock
  <2> QED BY <1>1, <2>1, <2>2, <2>3, LastUseStep
<1> QED BY <1>3, <1>4

LEMMA LeastRecentStep ==
  ASSUME GoodTrace, NEW n \in 0 .. Len(trace), NEW L, NEW L2, NEW j, NEW d,
         TakesLine(L, L2, n, j, d), IsHit(L, n, j, d) \/ IsMiss(L, n, j, d),
         Stamped(L, n), LeastRecent(L, n)
  PROVE  LeastRecent(L2, n + 1)
<1> SUFFICES ASSUME NEW u \in 1 .. n + 1, LastUse(u, n + 1), ~InCache(L2, u),
                    NEW x \in Way(geom.E)
             PROVE  x \in Used(L2[SetOf(u)]) /\ L2[SetOf(u)][x].lru_counter > u
  BY DEF LeastRecent
<1>1. n \in Nat /\ n + 1 \in 1 .. Len(trace) /\ LinesOK(L, n) /\ u \in 1 .. Len(trace)
  BY DEF GoodTrace, TakesLine
<1>2. Blk(u) # Blk(n + 1) /\ (InCache(L, u) => HasLine(L, n, j, u))
  BY <1>1, InCacheStep
<1>3. u \in 1 .. n /\ LastUse(u, n)
  <2>1. u # n + 1
    BY <1>2
  <2> QED BY <1>1, <2>1, LastUseStep
<1>4. SetOf(u) \in DOMAIN L /\ SetOf(n + 1) \in DOMAIN L
  BY <1>1, SetsAre
<1>5. x = j /\ SetOf(u) = SetOf(n + 1) =>
        x \in Used(L2[SetOf(u)]) /\ L2[SetOf(u)][x].lru_counter > u
  <2>1. n + 1 > u
    BY <1>1, <1>3
  <2> QED BY <2>1, OtherLines
<1>6. CASE ~InCache(L, u)
  <2>1. x \in Used(L[SetOf(u)]) /\ L[SetOf(u)][x].lru_counter > u
    BY <1>3, <1>6 DEF LeastRecent
  <2>2. x # j \/ SetOf(u) # SetOf(n + 1) =>
          L2[SetOf(u)][x] = L[SetOf(u)][x] /\ x \in Used(L2[SetOf(u)])
    BY <1>4, <2>1, OtherLines
  <2> QED BY <1>5, <2>1, <2>2
<1>7. CASE InCache(L, u)
  <2> DEFINE set == SetOf(n + 1)
  <2>1. SetOf(u) = set /\ j \in Used(L[set]) /\ L[set][j].tag = TagOf(u)
    BY <1>2, <1>7 DEF HasLine
  <2>2. IsMiss(L, n, j, d)
    <3>1. TagOf(u) # TagOf(n + 1)
      BY <1>1, <1>2, <2>1, SameBlock
    <3> QED BY <2>1, <3>1 DEF IsHit, HasLine
  <2>3. x \in Used(L[set]) /\ L[set][j].lru_counter <= L[set][x].lru_counter
    BY <2>1, <2>2 DEF IsMiss
  <2>4. L[set][j].lru_counter = u
    <3>1. PICK v \in 1 .. n : /\ v = L[set][j].lru_counter /\ LastUse(v, n)
                             /\ SetOf(v) = set /\ TagOf(v) = L[set][j].tag
      BY <1>1, <1>4, <2>1, LineIs
    <3>2. v \in 1 .. Len(trace)
      BY <1>1
    <3>3. Blk(v) = Blk(u)
      BY <1>1, <2>1, <3>1, <3>2, SameBlock
    <3> QED BY <1>1, <1>3, <3>1, <3>3, LastUseOnce
  <2>5. CASE x # j
    <3>1. L[set][x].lru_counter # u /\ L[set][x].lru_counter \in 1 .. n
      BY <1>1, <1>4, <2>1, <2>3, <2>4, <2>5, LineIs
    <3>2. L[set][x].lru_counter > u
      BY <1>3, <2>3, <2>4, <3>1
    <3>3. L2[set][x] = L[set][x] /\ x \in Used(L2[set])
      BY <1>4, <2>3, <2>5, OtherLines
    <3> QED BY <2>1, <3>2, <3>3
  <2> QED BY <1>5, <2>1, <2>5
<1> QED BY <1>6, <1>7

LEMMA HitOrMiss ==
  ASSUME GoodTrace, NEW n \in 0 .. Len(trace), NEW L, NEW L2, NEW j, NEW d,
         TakesLine(L, L2, n, j, d), Stamped(L, n), LeastRecent(L, n)
  PROVE  /\ IsHit(L, n, j, d) => RefHit(n + 1)
         /\ IsMiss(L, n, j, d) => ~RefHit(n + 1)
<1>1. n + 1 \in 1 .. Len(trace) /\ LinesOK(L, n)
  BY DEF TakesLine
<1>2. RefHit(n + 1) <=> InCache(L, n + 1)
  BY <1>1, RefHitIs
<1>3. IsHit(L, n, j, d) => InCache(L, n + 1)
  BY DEF IsHit, HasLine, InCache
<1> QED BY <1>2, <1>3 DEF IsMiss

(* The uses of the other blocks stay, and of those that have left.         *)
LEMMA DirtiedStep ==
  ASSUME GoodTrace, NEW n \in 0 .. Len(trace), NEW k \in 1 .. n
  PROVE  Dirtied(k, n + 1) <=>
           \/ Dirtied(k, n)
           \/ /\ RefHit(n + 1) /\ Blk(k) = Blk(n + 1) /\ Again(k, n) = {}
              /\ trace[n + 1].op = "S"
<1>1. Uses(k, n + 1) = IF RefHit(n + 1) /\ Blk(k) = Blk(n + 1) /\ Again(k, n) = {}
                       THEN Uses(k, n) \cup {n + 1} ELSE Uses(k, n)
  BY UsesStep
<1> QED BY <1>1 DEF Dirtied

LEMMA MarkedDirtyStep ==
  ASSUME GoodTrace, NEW n \in 0 .. Len(trace), NEW L, NEW L2, NEW j, NEW d,
         TakesLine(L, L2, n, j, d), IsHit(L, n, j, d) \/ IsMiss(L, n, j, d),
         Follows(L, n)
  PROVE  MarkedDirty(L2, n + 1)
<1> SUFFICES ASSUME NEW set \in DOMAIN L2, NEW x \in Used(L2[set]), NEW k \in Misses(n + 1),
                    SetOf(k) = set, TagOf(k) = L2[set][x].tag, Again(k, n + 1) = {}
             PROVE  L2[set][x].dirty = 1 <=> Dirtied(k, n + 1)
  BY DEF MarkedDirty
<1>1. /\ n \in Nat /\ n + 1 \in 1 .. Len(trace) /\ LinesOK(L, n)
      /\ Stamped(L, n) /\ LeastRecent(L, n) /\ MarkedDirty(L, n)
  BY DEF GoodTrace, TakesLine, Follows
<1>2. DOMAIN L2 = DOMAIN L /\ x \in Way(geom.E) /\ SetOf(n + 1) \in DOMAIN L
  BY OtherLines
<1>3. k \in 1 .. n + 1 /\ k \in 1 .. Len(trace) /\ (k \in 1 .. n => k \in Misses(n))
      /\ (k = n + 1 \/ k \in 1 .. n)
  BY <1>1 DEF Misses
<1>4. RefHit(n + 1) => k # n + 1
  BY DEF Misses
<1>5. /\ IsHit(L, n, j, d) => RefHit(n + 1)
      /\ IsMiss(L, n, j, d) => ~RefHit(n + 1)
  BY <1>1, HitOrMiss
<1>6. CASE set = SetOf(n + 1) /\ x = j
  <2>1. L2[set][x].dirty = d /\ TagOf(k) = TagOf(n + 1)
    BY <1>6, OtherLines
  <2>2. Blk(k) = Blk(n + 1)
    BY <1>1, <1>3, <1>6, <2>1, SameBlock
  <2>3. CASE IsHit(L, n, j, d)
    <3>1. k \in 1 .. n /\ k \in Misses(n) /\ RefHit(n + 1)
      BY <1>3, <1>4, <1>5, <2>3
    <3>2. Again(k, n) = {}
      BY <3>1, AgainStep
    <3>3. j \in Used(L[set]) /\ L[set][j].tag = TagOf(k)
      BY <1>6, <2>1, <2>3 DEF IsHit, HasLine
    <3>4. L[set][j].dirty = 1 <=> Dirtied(k, n)
      BY <1>1, <1>2, <3>1, <3>2, <3>3 DEF MarkedDirty
    <3>5. Dirtied(k, n + 1) <=> Dirtied(k, n) \/ trace[n + 1].op = "S"
      BY <2>2, <3>1, <3>2, DirtiedStep
    <3>6. d = 1 <=> trace[n + 1].op = "S" \/ L[set][j].dirty = 1
      BY <1>6, <2>3 DEF IsHit
    <3> QED BY <2>1, <3>4, <3>5, <3>6
  <2>4. CASE IsMiss(L, n, j, d)
    <3>1. k = n + 1
      <4>1. ASSUME k \in 1 .. n PROVE FALSE
        <5>1. n + 1 \in Again(k, n + 1)
          BY <1>5, <2>2, <2>4, <4>1, AgainStep
        <5> QED BY <5>1
      <4> QED BY <1>3, <4>1
    <3>2. Dirtied(k, n + 1) <=> trace[n + 1].op = "S"
      BY <3>1, NewMiss DEF Dirtied
    <3>3. d = 1 <=> trace[n + 1].op = "S"
      BY <2>4 DEF IsMiss
    <3> QED BY <2>1, <3>2, <3>3
  <2> QED BY <2>3, <2>4
<1>7. CASE set # SetOf(n + 1) \/ x # j
  <2>1. L2[set][x] = L[set][x] /\ x \in Used(L[set])
    BY <1>2, <1>7, OtherLines
  <2>2. Blk(k) # Blk(n + 1)
    <3>1. set = SetOf(n + 1) => L[set][x].tag # TagOf(n + 1)
      BY <1>7, <2>1 DEF TakesLine
    <3> QED BY <1>1, <1>3, <2>1, <3>1, SameBlock
  <2>3. k \in 1 .. n /\ k \in Misses(n)
    BY <1>3, <2>2
  <2>4. Again(k, n) = {}
    BY <2>2, <2>3, AgainStep
  <2>5. Dirtied(k, n + 1) <=> Dirtied(k, n)
    BY <2>2, <2>3, DirtiedStep
  <2>6. L[set][x].dirty = 1 <=> Dirtied(k, n)
    BY <1>1, <1>2, <2>1, <2>3, <2>4 DEF MarkedDirty
  <2> QED BY <2>1, <2>5, <2>6
<1> QED BY <1>6, <1>7

(* The line j of a set has the block that the miss m brought in.           *)
Brought(L, n, set, j, m) ==
  /\ SetOf(m) = set /\ TagOf(m) = L[set][j].tag /\ Again(m, n) = {}
  /\ m \notin Gone(n) /\ (m \in Dirt(n) <=> L[set][j].dirty = 1)
  /\ \A k \in Misses(n) : Blk(k) = Blk(m) /\ Again(k, n) = {} => k = m

(* The line j has a block, and the miss that brought it in has not left.   *)
LEMMA MissOfLine ==
  ASSUME GoodTrace, NEW n \in 0 .. Len(trace), NEW L, LinesOK(L, n), Follows(L, n),
         NEW set \in DOMAIN L, NEW j \in Used(L[set])
  PROVE  \E m \in Misses(n) : Brought(L, n, set, j, m)
<1>1. Stamped(L, n) /\ LeastRecent(L, n) /\ MarkedDirty(L, n)
  BY DEF Follows
<1>2. PICK u \in 1 .. n : /\ u = L[set][j].lru_counter /\ LastUse(u, n)
                         /\ SetOf(u) = set /\ TagOf(u) = L[set][j].tag
  BY <1>1, LineIs
<1>3. PICK m \in Misses(n) :
         /\ Blk(m) = Blk(u) /\ Again(m, n) = {}
         /\ \A k \in Misses(n) : Blk(k) = Blk(u) /\ Again(k, n) = {} => k = m
  BY LastMiss
<1>4. m \in 1 .. n /\ m \in 1 .. Len(trace) /\ u \in 1 .. Len(trace)
  <2>1. Misses(n) \subseteq 1 .. n
    BY MissesAre
  <2>2. 1 .. n \subseteq 1 .. Len(trace)
    BY DEF GoodTrace
  <2> QED BY <1>2, <1>3, <2>1, <2>2
<1>5. SetOf(m) = set /\ TagOf(m) = L[set][j].tag
  BY <1>2, <1>3, <1>4, SameBlock
<1>6. m \notin Gone(n)
  <2>1. InCache(L, m)
    BY <1>5 DEF InCache
  <2> QED BY <1>1, <1>3, <1>4, <2>1, LeavesIs DEF Gone
<1>7. m \in Dirt(n) <=> L[set][j].dirty = 1
  <2>1. L[set][j].dirty = 1 <=> Dirtied(m, n)
    BY <1>1, <1>3, <1>5 DEF MarkedDirty
  <2> QED BY <2>1 DEF Dirt
<1>8. \A k \in Misses(n) : Blk(k) = Blk(m) /\ Again(k, n) = {} => k = m
  BY <1>3
<1> QED BY <1>3, <1>5, <1>6, <1>7, <1>8 DEF Brought

LEMMA FollowsStep ==
  ASSUME GoodTrace, NEW n \in 0 .. Len(trace), NEW L, NEW L2, NEW j, NEW d,
         TakesLine(L, L2, n, j, d), IsHit(L, n, j, d) \/ IsMiss(L, n, j, d),
         Follows(L, n)
  PROVE  Follows(L2, n + 1)
<1>1. Stamped(L, n) /\ LeastRecent(L, n)
  BY DEF Follows
<1> QED BY <1>1, StampedStep, LeastRecentStep, MarkedDirtyStep DEF Follows

(* What a hit does to the sets that are counted,                           *)
LEMMA HitCounts ==
  ASSUME GoodTrace, NEW n \in 0 .. Len(trace), NEW L, NEW L2, NEW j, NEW d,
         TakesLine(L, L2, n, j, d), IsHit(L, n, j, d), Follows(L, n)
  PROVE  /\ Misses(n + 1) = Misses(n) /\ Gone(n + 1) = Gone(n)
         /\ \E m \in Misses(n) :
              /\ m \notin Gone(n) /\ (m \in Dirt(n) <=> L[SetOf(n + 1)][j].dirty = 1)
              /\ Dirt(n + 1) = IF trace[n + 1].op = "S" THEN Dirt(n) \cup {m} ELSE Dirt(n)
<1> DEFINE set == SetOf(n + 1)
<1>1. /\ n \in Nat /\ n + 1 \in 1 .. Len(trace) /\ LinesOK(L, n) /\ LinesOK(L2, n + 1)
      /\ n + 1 \in 0 .. Len(trace)
      /\ Stamped(L, n) /\ LeastRecent(L, n) /\ Follows(L2, n + 1)
  <2>1. Follows(L2, n + 1)
    BY FollowsStep
  <2> QED BY <2>1 DEF GoodTrace, TakesLine, Follows
<1>2. set \in DOMAIN L /\ j \in Used(L[set]) /\ L[set][j].tag = TagOf(n + 1)
  BY <1>1, SetsAre DEF IsHit, HasLine
<1>3. RefHit(n + 1)
  BY <1>1, HitOrMiss
<1>4. Misses(n + 1) = Misses(n) /\ Misses(n) \subseteq 1 .. n
  BY <1>3, MissesAre
<1>5. \A k \in 1 .. n : Again(k, n + 1) = Again(k, n)
  BY <1>3, AgainStep
<1>6. ASSUME NEW k \in 1 .. n PROVE Leaves(k, n + 1) <=> Leaves(k, n)
  <2>1. k \in 1 .. Len(trace) /\ k \in 1 .. n + 1
    BY <1>1
  <2>2. HasLine(L, n, j, k) <=> Blk(k) = Blk(n + 1)
    BY <1>1, <1>2, <2>1, SameBlock DEF HasLine
  <2>3. Blk(k) = Blk(n + 1) => InCache(L, k)
    BY <1>2, <2>2 DEF HasLine, InCache
  <2>4. InCache(L2, k) <=> InCache(L, k)
    BY <2>1, <2>2, <2>3, InCacheStep
  <2>5. Leaves(k, n + 1) <=> Again(k, n + 1) # {} \/ ~InCache(L2, k)
    BY <1>1, <2>1, LeavesIs DEF Follows
  <2>6. Leaves(k, n) <=> Again(k, n) # {} \/ ~InCache(L, k)
    BY <1>1, LeavesIs
  <2> QED BY <1>5, <2>4, <2>5, <2>6
<1>7. Gone(n + 1) = Gone(n)
  BY <1>4, <1>6 DEF Gone
<1>0. PICK m \in Misses(n) : Brought(L, n, set, j, m)
  BY <1>1, <1>2, MissOfLine
<1>8. /\ SetOf(m) = set /\ TagOf(m) = L[set][j].tag /\ Again(m, n) = {}
      /\ m \notin Gone(n) /\ (m \in Dirt(n) <=> L[set][j].dirty = 1)
      /\ \A k \in Misses(n) : Blk(k) = Blk(m) /\ Again(k, n) = {} => k = m
  BY <1>0 DEF Brought
<1>9. Blk(m) = Blk(n + 1)
  <2>1. m \in 1 .. Len(trace)
    BY <1>1, <1>4
  <2> QED BY <1>1, <1>2, <1>8, <2>1, SameBlock
<1>10. ASSUME NEW k \in Misses(n)
       PROVE  Dirtied(k, n + 1) <=> Dirtied(k, n) \/ (k = m /\ trace[n + 1].op = "S")
  <2>1. Dirtied(k, n + 1) <=>
           \/ Dirtied(k, n)
           \/ Blk(k) = Blk(n + 1) /\ Again(k, n) = {} /\ trace[n + 1].op = "S"
    BY <1>3, <1>4, DirtiedStep
  <2>2. Blk(k) = Blk(n + 1) /\ Again(k, n) = {} <=> k = m
    BY <1>8, <1>9
  <2> QED BY <2>1, <2>2
<1>11. Dirt(n + 1) = IF trace[n + 1].op = "S" THEN Dirt(n) \cup {m} ELSE Dirt(n)
  BY <1>4, <1>10 DEF Dirt
<1> QED BY <1>4, <1>7, <1>8, <1>11

(* and what a miss does.                                                   *)
LEMMA MissCounts ==
  ASSUME GoodTrace, NEW n \in 0 .. Len(trace), NEW L, NEW L2, NEW j, NEW d,
         TakesLine(L, L2, n, j, d), IsMiss(L, n, j, d), Follows(L, n)
  PROVE  /\ Misses(n + 1) = Misses(n) \cup {n + 1} /\ n + 1 \notin Misses(n)
         /\ Dirt(n + 1) = IF trace[n + 1].op = "S" THEN Dirt(n) \cup {n + 1} ELSE Dirt(n)
         /\ j \notin Used(L[SetOf(n + 1)]) => Gone(n + 1) = Gone(n)
         /\ j \in Used(L[SetOf(n + 1)]) =>
              \E m \in Misses(n) :
                /\ m \notin Gone(n) /\ (m \in Dirt(n) <=> L[SetOf(n + 1)][j].dirty = 1)
                /\ Gone(n + 1) = Gone(n) \cup {m}
<1> DEFINE set == SetOf(n + 1)
<1>1. /\ n \in Nat /\ n + 1 \in 1 .. Len(trace) /\ LinesOK(L, n) /\ LinesOK(L2, n + 1)
      /\ n + 1 \in 0 .. Len(trace)
      /\ Stamped(L, n) /\ LeastRecent(L, n) /\ Follows(L2, n + 1)
      /\ Stamped(L2, n + 1) /\ LeastRecent(L2, n + 1)
  <2>1. Follows(L2, n + 1)
    BY FollowsStep
  <2> QED BY <2>1 DEF GoodTrace, TakesLine, Follows
<1>2. set \in DOMAIN L
  BY <1>1, SetsAre
<1>3. ~RefHit(n + 1)
  BY <1>1, HitOrMiss
<1>4. /\ Misses(n + 1) = Misses(n) \cup {n + 1} /\ n + 1 \notin Misses(n)
      /\ Misses(n) \subseteq 1 .. n
  BY <1>3, MissesAre
<1>5. \A k \in 1 .. n : Dirtied(k, n + 1) <=> Dirtied(k, n)
  BY <1>3, DirtiedStep
<1>6. Dirtied(n + 1, n + 1) <=> trace[n + 1].op = "S"
  BY NewMiss DEF Dirtied
<1>7. Dirt(n + 1) = IF trace[n + 1].op = "S" THEN Dirt(n) \cup {n + 1} ELSE Dirt(n)
  BY <1>4, <1>5, <1>6 DEF Dirt
<1>8. ~Leaves(n + 1, n + 1)
  <2>1. InCache(L2, n + 1)
    BY <1>1, InCacheStep
  <2>2. n + 1 \in 1 .. n + 1
    BY <1>1
  <2> QED BY <1>1, <2>1, <2>2, NewMiss, LeavesIs
<1>9. ASSUME NEW k \in Misses(n)
      PROVE  Leaves(k, n + 1) <=> Leaves(k, n) \/ (HasLine(L, n, j, k) /\ Again(k, n) = {})
  <2>1. k \in 1 .. Len(trace) /\ k \in 1 .. n + 1 /\ k \in 1 .. n
    BY <1>1, <1>4
  <2>2. Leaves(k, n + 1) <=> Again(k, n + 1) # {} \/ ~InCache(L2, k)
    BY <1>1, <2>1, LeavesIs
  <2>3. Leaves(k, n) <=> Again(k, n) # {} \/ ~InCache(L, k)
    BY <1>1, <2>1, LeavesIs
  <2>4. InCache(L2, k) <=> Blk(k) = Blk(n + 1) \/ (InCache(L, k) /\ ~HasLine(L, n, j, k))
    BY <2>1, InCacheStep
  <2>5. CASE Blk(k) = Blk(n + 1)
    <3>1. Again(k, n + 1) # {}
      <4>1. n + 1 \in Again(k, n + 1)
        BY <1>3, <2>1, <2>5, AgainStep
      <4> QED BY <4>1
    <3>2. ~InCache(L, k)
      BY <1>1, <2>1, <2>5, InCacheTogether DEF IsMiss
    <3> QED BY <2>2, <2>3, <3>1, <3>2
  <2>6. CASE Blk(k) # Blk(n + 1)
    <3>1. Again(k, n + 1) = Again(k, n)
      BY <2>1, <2>6, AgainStep
    <3> QED BY <2>2, <2>3, <2>4, <2>6, <3>1
  <2> QED BY <2>5, <2>6
<1>10. Gone(n + 1) = Gone(n) \cup {k \in Misses(n) : HasLine(L, n, j, k) /\ Again(k, n) = {}}
  BY <1>4, <1>8, <1>9 DEF Gone
<1>11. ASSUME j \notin Used(L[set]) PROVE Gone(n + 1) = Gone(n)
  BY <1>10, <1>11 DEF HasLine
<1>12. ASSUME j \in Used(L[set])
       PROVE  \E m \in Misses(n) :
                /\ m \notin Gone(n) /\ (m \in Dirt(n) <=> L[set][j].dirty = 1)
                /\ Gone(n + 1) = Gone(n) \cup {m}
  <2>0. PICK m \in Misses(n) : Brought(L, n, set, j, m)
    BY <1>1, <1>2, <1>12, MissOfLine
  <2>1. /\ SetOf(m) = set /\ TagOf(m) = L[set][j].tag /\ Again(m, n) = {}
        /\ m \notin Gone(n) /\ (m \in Dirt(n) <=> L[set][j].dirty = 1)
        /\ \A k \in Misses(n) : Blk(k) = Blk(m) /\ Again(k, n) = {} => k = m
    BY <2>0 DEF Brought
  <2>2. \A k \in Misses(n) : HasLine(L, n, j, k) <=> Blk(k) = Blk(m)
    <3>1. \A k \in Misses(n) : k \in 1 .. Len(trace)
      BY <1>1, <1>4
    <3> QED BY <1>12, <2>1, <3>1, SameBlock DEF HasLine
  <2>3. {k \in Misses(n) : HasLine(L, n, j, k) /\ Again(k, n) = {}} = {m}
    BY <2>1, <2>2
  <2> QED BY <1>10, <2>1, <2>3
<1> QED BY <1>4, <1>7, <1>11, <1>12

(* The counts are of finite sets.                                          *)
LEMMA CountsAre ==
  ASSUME GoodTrace, NEW n \in 0 .. Len(trace)
  PROVE  /\ IsFiniteSet(Misses(n)) /\ IsFiniteSet(Gone(n)) /\ IsFiniteSet(Dirt(n) \ Gone(n))
         /\ IsFiniteSet(Dirt(n) \cap Gone(n))
         /\ Cardinality(Misses(n)) \in Nat /\ Cardinality(Gone(n)) \in Nat
         /\ Cardinality(Dirt(n) \ Gone(n)) \in Nat /\ Cardinality(Dirt(n) \cap Gone(n)) \in Nat
         /\ Gone(n) \subseteq Misses(n) /\ Dirt(n) \subseteq Misses(n)
<1>1. IsFiniteSet(Misses(n))
  BY MissesAre
<1>2. Gone(n) \subseteq Misses(n) /\ Dirt(n) \subseteq Misses(n)
  BY DEF Gone, Dirt
<1>3. /\ IsFiniteSet(Gone(n)) /\ IsFiniteSet(Dirt(n) \ Gone(n))
      /\ IsFiniteSet(Dirt(n) \cap Gone(n))
  <2>1. /\ Gone(n) \in SUBSET Misses(n) /\ (Dirt(n) \ Gone(n)) \in SUBSET Misses(n)
        /\ (Dirt(n) \cap Gone(n)) \in SUBSET Misses(n)
    BY <1>2
  <2> QED BY <1>1, <2>1, FS_Subset
<1> QED BY <1>1, <1>2, <1>3, FS_CardinalityType

LEMMA OneAdded ==
  ASSUME NEW S, IsFiniteSet(S), NEW x
  PROVE  /\ IsFiniteSet(S \cup {x}) /\ Cardinality(S) \in Nat
         /\ x \notin S => Cardinality(S \cup {x}) = Cardinality(S) + 1
         /\ x \in S => Cardinality(S \cup {x}) = Cardinality(S)
BY FS_AddElement, FS_CardinalityType

LEMMA OneRemoved ==
  ASSUME NEW S, IsFiniteSet(S), NEW x \in S
  PROVE  /\ IsFiniteSet(S \ {x}) /\ Cardinality(S) \in Nat /\ Cardinality(S) > 0
         /\ Cardinality(S \ {x}) = Cardinality(S) - 1
<1>1. Cardinality(S) \in Nat
  BY FS_CardinalityType
<1>2. Cardinality(S) # 0
  BY FS_EmptySet
<1>3. IsFiniteSet(S \ {x}) /\ Cardinality(S \ {x}) = Cardinality(S) - 1
  BY FS_RemoveElement
<1> QED BY <1>1, <1>2, <1>3

(* The counts, written out.                                                *)
Stats(h, m, e, b, d) ==
  [hits |-> h, misses |-> m, evictions |-> e, dirty_bytes |-> b, dirty_evictions |-> d]

LEMMA StatsFields ==
  ASSUME NEW h, NEW m, NEW e, NEW b, NEW d, NEW st, st = Stats(h, m, e, b, d)
  PROVE  /\ st.hits = h /\ st.misses = m /\ st.evictions = e /\ st.dirty_bytes = b
         /\ st.dirty_evictions = d
BY DEF Stats

LEMMA HitRecord ==
  ASSUME NEW h, NEW m, NEW e, NEW b, NEW d, stats = Stats(h, m, e, b, d), NEW op, NEW line
  PROVE  HitStats(op, line) =
           Stats(h + 1, m, e, IF op = "S" /\ line.dirty = 0 THEN b + BlockBytes ELSE b, d)
<1> DEFINE y == IF op = "S" /\ line.dirty = 0 THEN b + BlockBytes ELSE b
<1>1. stats.hits = h /\ stats.dirty_bytes = b
  BY StatsFields
<1>2. HitStats(op, line) = [stats EXCEPT !.hits = h + 1, !.dirty_bytes = y]
  BY <1>1 DEF HitStats
<1> DEFINE x == h + 1
<1> HIDE DEF x, y
<1>3. [stats EXCEPT !.hits = x, !.dirty_bytes = y] = Stats(x, m, e, y, d)
  <2>1. [stats EXCEPT !.hits = x] = Stats(x, m, e, b, d)
    BY DEF Stats
  <2>2. [Stats(x, m, e, b, d) EXCEPT !.dirty_bytes = y] = Stats(x, m, e, y, d)
    BY DEF Stats
  <2> QED BY <2>1, <2>2, Zenon
<1> QED BY <1>2, <1>3 DEF x, y

LEMMA MissRecord ==
  ASSUME NEW h, NEW m, NEW e, NEW b, NEW d, stats = Stats(h, m, e, b, d), NEW op, NEW line
  PROVE  LET less == IF line.valid = 1 /\ line.dirty = 1 THEN BlockBytes ELSE 0
             more == IF op = "S" THEN BlockBytes ELSE 0
         IN  MissStats(op, line) =
               Stats(h, m + 1, IF line.valid = 1 THEN e + 1 ELSE e, b - less + more, d + less)
<1> DEFINE less == IF line.valid = 1 /\ line.dirty = 1 THEN BlockBytes ELSE 0
           more == IF op = "S" THEN BlockBytes ELSE 0
           y == IF line.valid = 1 THEN e + 1 ELSE e
           v == d + less
           w == b - less + more
<1>1. stats.misses = m /\ stats.evictions = e /\ stats.dirty_evictions = d /\ stats.dirty_bytes = b
  BY StatsFields
<1>2. MissStats(op, line) = [stats EXCEPT !.misses = m + 1, !.evictions = y,
                                          !.dirty_evictions = v, !.dirty_bytes = w]
  BY <1>1 DEF MissStats
<1> DEFINE x == m + 1
<1> HIDE DEF x, y, v, w
<1>3. [stats EXCEPT !.misses = x, !.evictions = y, !.dirty_evictions = v, !.dirty_bytes = w] =
        Stats(h, x, y, w, v)
  <2>1. [stats EXCEPT !.misses = x] = Stats(h, x, e, b, d)
    BY DEF Stats
  <2>2. [Stats(h, x, e, b, d) EXCEPT !.evictions = y] = Stats(h, x, y, b, d)
    BY DEF Stats
  <2>3. [Stats(h, x, y, b, d) EXCEPT !.dirty_evictions = v] = Stats(h, x, y, b, v)
    BY DEF Stats
  <2>4. [Stats(h, x, y, b, v) EXCEPT !.dirty_bytes = w] = Stats(h, x, y, w, v)
    BY DEF Stats
  <2> QED BY <2>1, <2>2, <2>3, <2>4, Zenon
<1> QED BY <1>2, <1>3 DEF x, y, v, w

LEMMA OneMore ==
  ASSUME NEW x \in Nat, NEW k \in Nat
  PROVE  /\ x * (k + 1) = x * k + x
         /\ k > 0 => x * (k - 1) = x * k - x
         /\ x * k \in Nat
OBVIOUS

(* The counts of csim after a hit                                          *)
LEMMA HitStatsAre ==
  ASSUME GoodTrace, NEW n \in 0 .. Len(trace), NEW L, NEW L2, NEW j, NEW d,
         TakesLine(L, L2, n, j, d), IsHit(L, n, j, d), Follows(L, n), stats = Counts(n),
         NEW old \in Line, old = L[SetOf(n + 1)][j]
  PROVE  HitStats(trace[n + 1].op, old) = Counts(n + 1)
<1> DEFINE M == Cardinality(Misses(n))
           G == Cardinality(Gone(n))
           Stay == Cardinality(Dirt(n) \ Gone(n))
           D == Cardinality(Dirt(n) \cap Gone(n))
           A2 == Cardinality(Dirt(n + 1) \ Gone(n + 1))
           stores == trace[n + 1].op = "S" /\ old.dirty = 0
<1>1. M \in Nat /\ Stay \in Nat /\ IsFiniteSet(Dirt(n) \ Gone(n)) /\ n \in Nat /\ 2^geom.b \in Nat
  <2>1. n \in Nat
    BY DEF GoodTrace
  <2>2. 2^geom.b \in Nat
    BY GeometryIs
  <2> QED BY <2>1, <2>2, CountsAre
<1>2. Misses(n + 1) = Misses(n) /\ Gone(n + 1) = Gone(n)
  BY HitCounts
<1>3. PICK m \in Misses(n) :
        /\ m \notin Gone(n) /\ (m \in Dirt(n) <=> L[SetOf(n + 1)][j].dirty = 1)
        /\ Dirt(n + 1) = IF trace[n + 1].op = "S" THEN Dirt(n) \cup {m} ELSE Dirt(n)
  BY HitCounts
<1>4. m \in Dirt(n) <=> ~(old.dirty = 0)
  <2>1. old.dirty \in {0, 1}
    BY DEF Line
  <2> QED BY <1>3, <2>1
<1>5. Dirt(n + 1) \cap Gone(n + 1) = Dirt(n) \cap Gone(n)
  BY <1>2, <1>3
<1>6. A2 = IF stores THEN Stay + 1 ELSE Stay
  <2>1. CASE trace[n + 1].op = "S"
    <3>1. Dirt(n + 1) \ Gone(n + 1) = (Dirt(n) \ Gone(n)) \cup {m}
      BY <1>2, <1>3, <2>1
    <3>2. A2 = IF m \in Dirt(n) \ Gone(n) THEN Stay ELSE Stay + 1
      BY <1>1, <3>1, OneAdded
    <3> QED BY <1>3, <1>4, <2>1, <3>2
  <2>2. CASE trace[n + 1].op # "S"
    BY <1>2, <1>3, <2>2
  <2> QED BY <2>1, <2>2
<1> DEFINE Size == BlockBytes
           BA == Size * Stay
           BA2 == Size * A2
           BD == Size * D
<1>7. stats = Stats(n - M, M, G, BA, BD)
  BY DEF Counts, Stats, BlockBytes
<1>8. Counts(n + 1) = Stats((n + 1) - M, M, G, BA2, BD)
  BY <1>2, <1>5 DEF Counts, Stats, BlockBytes
<1>9. BA2 = IF stores THEN BA + Size ELSE BA
  <2>1. Size * (Stay + 1) = Size * Stay + Size
    BY <1>1, OneMore DEF BlockBytes
  <2> QED BY <1>6, <2>1
<1>10. (n + 1) - M = (n - M) + 1
  BY <1>1
<1>11. HitStats(trace[n + 1].op, old) =
         Stats((n - M) + 1, M, G, IF stores THEN BA + Size ELSE BA, BD)
  <2> HIDE DEF M, G, Stay, D, A2, BA, BA2, BD
  <2> QED BY <1>7, HitRecord
<1> QED BY <1>8, <1>9, <1>10, <1>11

(* and after a miss.                                                       *)
LEMMA MissStatsAre ==
  ASSUME GoodTrace, NEW n \in 0 .. Len(trace), NEW L, NEW L2, NEW j, NEW d,
         TakesLine(L, L2, n, j, d), IsMiss(L, n, j, d), Follows(L, n), stats = Counts(n),
         NEW old \in Line, old = L[SetOf(n + 1)][j], old.valid = 1 <=> j \in Used(L[SetOf(n + 1)])
  PROVE  MissStats(trace[n + 1].op, old) = Counts(n + 1)
<1> DEFINE M == Cardinality(Misses(n))
           G == Cardinality(Gone(n))
           Stay == Cardinality(Dirt(n) \ Gone(n))
           D == Cardinality(Dirt(n) \cap Gone(n))
           M2 == Cardinality(Misses(n + 1))
           G2 == Cardinality(Gone(n + 1))
           A2 == Cardinality(Dirt(n + 1) \ Gone(n + 1))
           D2 == Cardinality(Dirt(n + 1) \cap Gone(n + 1))
           stores == trace[n + 1].op = "S"
           evicts == old.valid = 1
           writes == old.valid = 1 /\ old.dirty = 1
<1>1. /\ M \in Nat /\ G \in Nat /\ Stay \in Nat /\ D \in Nat /\ n \in Nat /\ 2^geom.b \in Nat
      /\ IsFiniteSet(Misses(n)) /\ IsFiniteSet(Gone(n)) /\ IsFiniteSet(Dirt(n) \ Gone(n))
      /\ IsFiniteSet(Dirt(n) \cap Gone(n))
      /\ Gone(n) \subseteq Misses(n) /\ Dirt(n) \subseteq Misses(n)
  <2>1. n \in Nat
    BY DEF GoodTrace
  <2>2. 2^geom.b \in Nat
    BY GeometryIs
  <2> QED BY <2>1, <2>2, CountsAre
<1>2. Misses(n + 1) = Misses(n) \cup {n + 1} /\ n + 1 \notin Misses(n)
  BY MissCounts
<1>3. M2 = M + 1
  BY <1>1, <1>2, OneAdded
<1>4. Dirt(n + 1) = IF stores THEN Dirt(n) \cup {n + 1} ELSE Dirt(n)
  BY MissCounts
<1> DEFINE A1 == IF writes THEN Stay - 1 ELSE Stay
<1>5. /\ G2 = IF evicts THEN G + 1 ELSE G
      /\ D2 = IF writes THEN D + 1 ELSE D
      /\ writes => Stay > 0
      /\ A2 = IF stores THEN A1 + 1 ELSE A1
  <2>0. /\ ~evicts => Gone(n + 1) = Gone(n)
        /\ evicts => \E m \in Misses(n) :
                       /\ m \notin Gone(n) /\ (m \in Dirt(n) <=> old.dirty = 1)
                       /\ Gone(n + 1) = Gone(n) \cup {m}
    BY MissCounts
  <2> DEFINE kept == (Dirt(n) \ Gone(n)) \ Gone(n + 1)
  <2>1. n + 1 \notin Gone(n + 1)
    BY <1>1, <1>2, <2>0
  <2>2. Gone(n) \subseteq Gone(n + 1)
    BY <2>0
  <2>3. Dirt(n + 1) \ Gone(n + 1) = IF stores THEN kept \cup {n + 1} ELSE kept
    BY <1>4, <2>1, <2>2
  <2>4. Dirt(n + 1) \cap Gone(n + 1) = Dirt(n) \cap Gone(n + 1)
    BY <1>4, <2>1
  <2>5. /\ G2 = IF evicts THEN G + 1 ELSE G
        /\ Cardinality(Dirt(n) \cap Gone(n + 1)) = IF writes THEN D + 1 ELSE D
        /\ writes => Stay > 0
        /\ IsFiniteSet(kept) /\ Cardinality(kept) = A1
    <3>1. CASE ~evicts
      <4>1. Gone(n + 1) = Gone(n) /\ kept = Dirt(n) \ Gone(n)
        BY <2>0, <3>1
      <4> QED BY <1>1, <3>1, <4>1
    <3>2. CASE evicts
      <4>1. PICK m \in Misses(n) :
              /\ m \notin Gone(n) /\ (m \in Dirt(n) <=> old.dirty = 1)
              /\ Gone(n + 1) = Gone(n) \cup {m}
        BY <2>0, <3>2
      <4>2. G2 = G + 1
        BY <1>1, <4>1, OneAdded
      <4>3. CASE old.dirty = 1
        <5>1. Dirt(n) \cap Gone(n + 1) = (Dirt(n) \cap Gone(n)) \cup {m}
          BY <4>1, <4>3
        <5>2. Cardinality(Dirt(n) \cap Gone(n + 1)) = D + 1
          BY <1>1, <4>1, <5>1, OneAdded
        <5>3. kept = (Dirt(n) \ Gone(n)) \ {m} /\ m \in Dirt(n) \ Gone(n)
          BY <4>1, <4>3
        <5>4. IsFiniteSet(kept) /\ Cardinality(kept) = Stay - 1
          BY <1>1, <5>3, OneRemoved
        <5>5. Stay # 0
          <6>1. Dirt(n) \ Gone(n) # {}
            BY <5>3
          <6> QED BY <1>1, <6>1, FS_EmptySet
        <5> QED BY <1>1, <3>2, <4>2, <4>3, <5>2, <5>4, <5>5
      <4>4. CASE old.dirty # 1
        <5>1. Dirt(n) \cap Gone(n + 1) = Dirt(n) \cap Gone(n)
          BY <4>1, <4>4
        <5>2. kept = Dirt(n) \ Gone(n)
          BY <4>1, <4>4
        <5> QED BY <1>1, <3>2, <4>2, <4>4, <5>1, <5>2
      <4> QED BY <4>3, <4>4
    <3> QED BY <3>1, <3>2
  <2>6. D2 = IF writes THEN D + 1 ELSE D
    BY <2>4, <2>5
  <2>7. A2 = IF stores THEN A1 + 1 ELSE A1
    <3>1. n + 1 \notin kept
      BY <1>1, <1>2
    <3> HIDE DEF kept
    <3>2. Cardinality(kept \cup {n + 1}) = A1 + 1
      BY <2>5, <3>1, OneAdded
    <3> QED BY <2>3, <2>5, <3>2
  <2> QED BY <2>5, <2>6, <2>7
<1> DEFINE Size == BlockBytes
           BA == Size * Stay
           BA2 == Size * A2
           BD == Size * D
           BD2 == Size * D2
           less == IF writes THEN Size ELSE 0
           more == IF stores THEN Size ELSE 0
<1>6. stats = Stats(n - M, M, G, BA, BD)
  BY DEF Counts, Stats, BlockBytes
<1>7. Counts(n + 1) = Stats((n + 1) - M2, M2, G2, BA2, BD2)
  BY DEF Counts, Stats, BlockBytes
<1>8. MissStats(trace[n + 1].op, old) =
        Stats(n - M, M + 1, IF evicts THEN G + 1 ELSE G, BA - less + more, BD + less)
  <2> HIDE DEF M, G, Stay, D, M2, G2, A2, D2, BA, BA2, BD, BD2
  <2> QED BY <1>6, MissRecord
<1>0. Size \in Nat
  BY <1>1 DEF BlockBytes
<1> HIDE DEF M, G, Stay, D, M2, G2, A2, D2, stores, evicts, writes, Size
<1>9. BD2 = BD + less
  <2>1. Size * D2 = IF writes THEN Size * (D + 1) ELSE Size * D
    BY <1>5
  <2>2. Size * (D + 1) = Size * D + Size /\ Size * D \in Nat
    BY <1>0, <1>1, OneMore
  <2> QED BY <2>1, <2>2
<1>10. BA2 = BA - less + more
  <2>1. A1 \in Nat
    BY <1>1, <1>5
  <2>2. writes => Size * (Stay - 1) = Size * Stay - Size
    BY <1>0, <1>1, <1>5, OneMore
  <2>3. Size * A1 = BA - less
    <3>1. BA \in Nat
      BY <1>0, <1>1, OneMore
    <3> QED BY <2>2, <3>1
  <2> HIDE DEF A1
  <2>4. Size * (A1 + 1) = Size * A1 + Size /\ Size * A1 \in Nat
    BY <1>0, <2>1, OneMore
  <2>5. BA2 = IF stores THEN Size * (A1 + 1) ELSE Size * A1
    BY <1>5
  <2> HIDE DEF BA, BA2
  <2> QED BY <2>3, <2>4, <2>5, <1>0
<1>11. (n + 1) - M2 = n - M
  BY <1>1, <1>3
<1> HIDE DEF A1, BA, BA2, BD, BD2, less, more
<1> QED BY <1>3, <1>5, <1>7, <1>8, <1>9, <1>10, <1>11

(* The line that is taken for an access, and what it becomes.              *)
LEMMA Taken ==
  ASSUME GoodTrace, NEW n \in 0 .. Len(trace), n + 1 \in 1 .. Len(trace),
         LinesOK(lines, n), counter = n, NEW j \in Way(geom.E), NEW line,
         lines' = [lines EXCEPT ![SetOf(n + 1)][j] = line], LinesOK(lines', n + 1),
         line.valid = 1, line.tag = TagOf(n + 1), line.lru_counter = n + 1,
         \A x \in Used(lines[SetOf(n + 1)]) \ {j} : lines[SetOf(n + 1)][x].tag # TagOf(n + 1)
  PROVE  TakesLine(lines, lines', n, j, line.dirty)
<1> DEFINE set == SetOf(n + 1)
           set2 == [lines[set] EXCEPT ![j] = line]
<1>1. set \in DOMAIN lines /\ DOMAIN lines[set] = Way(geom.E)
  BY SetsAre
<1>2. lines' = [lines EXCEPT ![set] = set2]
  OBVIOUS
<1>3. set2[j] = line /\ \A x \in Way(geom.E) \ {j} : set2[x] = lines[set][x]
  BY <1>1
<1>4. lines'[set] = set2 /\ \A x \in DOMAIN lines \ {set} : lines'[x] = lines[x]
  <2> HIDE DEF set, set2
  <2> QED BY <1>1, <1>2
<1> HIDE DEF set2
<1> QED BY <1>3, <1>4 DEF TakesLine

LEMMA Touched ==
  ASSUME GoodTrace, NEW n \in 0 .. Len(trace), n + 1 \in 1 .. Len(trace), counter = n,
         LinesOK(lines, n), Follows(lines, n), stats = Counts(n),
         touch_cache(trace[n + 1].op, trace[n + 1].address), LinesOK(lines', n + 1)
  PROVE  Follows(lines', n + 1) /\ stats' = Counts(n + 1)
<1> DEFINE set == SetOf(n + 1)
           tag == TagOf(n + 1)
           op == trace[n + 1].op
           hits == {x \in DOMAIN lines[set] : lines[set][x].valid = 1 /\ lines[set][x].tag = tag}
           hit == search_hit_line_idx(lines[set], tag)
           victim == search_victim_or_empty_line_idx(lines[set])
<1>1. /\ set \in DOMAIN lines /\ DOMAIN lines[set] = Way(geom.E)
      /\ lines[set] \in CacheSet(geom.E) /\ Used(lines[set]) \subseteq Way(geom.E)
      /\ SetOK(lines[set], geom.E, n) /\ geom.E \in Nat \ {0}
  BY SetsAre, GeometryIs DEF LinesOK
<1>2. SetIndex(trace[n + 1].address) = set /\ Tag(trace[n + 1].address) = tag
  BY DEF SetIndex, Tag, SetOf, Blk, TagOf
<1>3. \/ /\ hit # -1
         /\ lines' = [lines EXCEPT ![set][hit] = HitLine(op, @)]
         /\ stats' = HitStats(op, lines[set][hit])
      \/ /\ hit = -1
         /\ lines' = [lines EXCEPT ![set][victim] = FilledLine(op, tag)]
         /\ stats' = MissStats(op, lines[set][victim])
  BY <1>2 DEF touch_cache
<1>4. (hit # -1 => hit \in hits) /\ (hit = -1 => hits = {})
  <2>1. hits \in SUBSET Nat
    BY <1>1, Ways
  <2>2. hit = IF hits # {} THEN Lowest(hits) ELSE -1
    BY DEF search_hit_line_idx
  <2> HIDE DEF hits, hit
  <2>3. hits # {} => hit \in hits /\ hit \in Nat
    BY <2>1, <2>2, LowestIs
  <2> QED BY <2>2, <2>3
<1>5. op \in {"L", "S"} /\ tag \in Nat /\ counter + 1 = n + 1 /\ counter \in Nat
  BY AccessIs DEF GoodTrace
<1> HIDE DEF set, tag, op, hit, victim
<1>6. CASE hit # -1
  <2> DEFINE old == lines[set][hit]
             line == HitLine(op, old)
  <2>1. /\ hit \in Way(geom.E) /\ hit \in Used(lines[set]) /\ old \in Line
        /\ old.valid = 1 /\ old.tag = tag
    BY <1>1, <1>4, <1>6 DEF Used, CacheSet
  <2>2. /\ line.valid = 1 /\ line.tag = tag /\ line.lru_counter = n + 1
        /\ line.dirty = IF op = "S" THEN 1 ELSE old.dirty
    <3>1. line \in Line /\ line.valid = old.valid /\ line.lru_counter = counter + 1
          /\ line.tag = old.tag
      <4> HIDE DEF old
      <4> QED BY <1>5, <2>1, HitLineIs
    <3>2. line.dirty = IF op = "S" THEN 1 ELSE old.dirty
      BY <2>1 DEF HitLine, Line
    <3> QED BY <1>5, <2>1, <3>1, <3>2
  <2>3. lines' = [lines EXCEPT ![set][hit] = line] /\ stats' = HitStats(op, old)
    BY <1>3, <1>6
  <2>4. \A x \in Used(lines[set]) \ {hit} : lines[set][x].tag # tag
    BY <1>1, <2>1 DEF SetOK
  <2> HIDE DEF old, line
  <2>5. TakesLine(lines, lines', n, hit, line.dirty)
    BY <2>1, <2>2, <2>3, <2>4, Taken DEF set, tag
  <2>6. IsHit(lines, n, hit, line.dirty)
    BY <2>1, <2>2 DEF IsHit, HasLine, set, tag, op, old
  <2>7. Follows(lines', n + 1)
    BY <2>5, <2>6, FollowsStep
  <2>8. HitStats(op, old) = Counts(n + 1)
    BY <2>1, <2>5, <2>6, HitStatsAre DEF op, old, set
  <2> QED BY <2>3, <2>7, <2>8
<1>7. CASE hit = -1
  <2> DEFINE old == lines[set][victim]
             line == FilledLine(op, tag)
             empty == {x \in DOMAIN lines[set] : lines[set][x].valid = 0}
             oldest == {x \in DOMAIN lines[set] :
                          \A y \in DOMAIN lines[set] :
                            lines[set][x].lru_counter <= lines[set][y].lru_counter}
  <2>1. \A x \in Used(lines[set]) : lines[set][x].tag # tag
    BY <1>4, <1>7 DEF Used
  <2>2. victim = Lowest(IF empty # {} THEN empty ELSE oldest)
    BY DEF search_victim_or_empty_line_idx, victim
  <2>3. oldest # {}
    <3> DEFINE stamps == {lines[set][x].lru_counter : x \in Way(geom.E)}
    <3>1. stamps \in SUBSET Nat /\ stamps # {}
      <4>1. 0 \in Way(geom.E)
        BY <1>1 DEF Way
      <4> QED BY <1>1, <4>1 DEF CacheSet, Line
    <3>2. PICK m \in stamps : \A k \in stamps : m <= k
      <4> HIDE DEF stamps
      <4> QED BY <3>1, LeastElement
    <3>3. PICK x \in Way(geom.E) : m = lines[set][x].lru_counter
      BY <3>2
    <3>4. x \in oldest
      BY <1>1, <3>2, <3>3
    <3> QED BY <3>4
  <2>4. empty \in SUBSET Nat /\ oldest \in SUBSET Nat
    BY <1>1, Ways
  <2>5. victim \in (IF empty # {} THEN empty ELSE oldest)
    <3> HIDE DEF empty, oldest
    <3> QED BY <2>2, <2>3, <2>4, LowestIs
  <2>6. /\ victim \in Way(geom.E) /\ old \in Line
        /\ old.valid = 1 <=> victim \in Used(lines[set])
    BY <1>1, <2>5 DEF CacheSet, Used
  <2>7. ASSUME victim \in Used(lines[set])
        PROVE  \A x \in Way(geom.E) : /\ x \in Used(lines[set])
                                      /\ lines[set][victim].lru_counter <= lines[set][x].lru_counter
    <3>1. empty = {}
      BY <2>5, <2>7 DEF Used
    <3>2. \A x \in Way(geom.E) : lines[set][x].valid \in {0, 1}
      BY <1>1 DEF CacheSet, Line
    <3>3. \A x \in Way(geom.E) : x \in Used(lines[set])
      BY <1>1, <3>1, <3>2 DEF Used
    <3> QED BY <1>1, <2>5, <3>1, <3>3
  <2>8. /\ line.valid = 1 /\ line.tag = tag /\ line.lru_counter = n + 1
        /\ line.dirty = IF op = "S" THEN 1 ELSE 0
    BY <1>5 DEF FilledLine
  <2>9. lines' = [lines EXCEPT ![set][victim] = line] /\ stats' = MissStats(op, old)
    BY <1>3, <1>7
  <2> HIDE DEF old, line, empty, oldest
  <2>10. TakesLine(lines, lines', n, victim, line.dirty)
    BY <2>1, <2>6, <2>8, <2>9, Taken DEF set, tag
  <2>11. IsMiss(lines, n, victim, line.dirty)
    <3>1. ~InCache(lines, n + 1)
      BY <2>1 DEF InCache, set, tag
    <3> QED BY <2>7, <2>8, <3>1 DEF IsMiss, set, op
  <2>12. Follows(lines', n + 1)
    BY <2>10, <2>11, FollowsStep
  <2>13. MissStats(op, old) = Counts(n + 1)
    BY <2>6, <2>10, <2>11, MissStatsAre DEF op, old, set
  <2> QED BY <2>9, <2>12, <2>13
<1> QED BY <1>6, <1>7

-----------------------------------------------------------------------------
(* The run of csim                                                         *)

LEMMA TraceIsGood ==
  ASSUME SimInv, phase = "trace", Readable(trace)
  PROVE  /\ GoodTrace /\ pos \in 0 .. Len(trace) /\ DOMAIN trace = 1 .. Len(trace)
         /\ lines # <<>> /\ CacheOK
<1>1. lines # <<>> /\ CacheOK /\ TraceOK
  BY DEF SimInv
<1>2. PICK options \in AllOptions :
         /\ Outcome(options) = "run" /\ trace = LastOf(options, "t")
         /\ trace # FileMissing => pos \in 0 .. Len(trace)
  BY <1>1 DEF TraceOK
<1>3. /\ trace # FileMissing /\ \A k \in DOMAIN trace : parse_trace_line(trace[k])
  BY DEF Readable
<1>4. /\ Len(trace) \in Nat /\ DOMAIN trace = 1 .. Len(trace)
      /\ \A k \in 1 .. Len(trace) : parse_trace_line(trace[k]) => trace[k].address \in Addresses
  BY <1>2, <1>3, CSimLRUAssumption
<1>5. \A k \in 1 .. Len(trace) : trace[k].op \in {"L", "S"} /\ trace[k].address \in Nat
  BY <1>3, <1>4, CSimLRUAssumption DEF parse_trace_line
<1>6. geom \in Geometries
  BY <1>1 DEF CacheOK
<1> QED BY <1>1, <1>2, <1>3, <1>4, <1>5, <1>6 DEF GoodTrace

(* What is said of the lines is said with the trace and the cache's sizes, *)
(* which stay.                                                             *)
LEMMA SameTrace ==
  ASSUME UNCHANGED <<trace, geom>>
  PROVE  /\ \A L, n : Follows(L, n)' <=> Follows(L, n)
         /\ \A n : Counts(n)' = Counts(n)
         /\ Readable(trace)' <=> Readable(trace)
<1>1. \A k : Blk(k)' = Blk(k) /\ TagOf(k)' = TagOf(k)
  BY DEF Blk, TagOf
<1>2. \A k : SetOf(k)' = SetOf(k)
  BY <1>1 DEF SetOf
<1>3. \A k, first, last : Rivals(k, first, last)' = Rivals(k, first, last)
  BY <1>1, <1>2 DEF Rivals
<1>4. \A k : Earlier(k)' = Earlier(k)
  BY <1>1 DEF Earlier
<1>5. \A k : RefHit(k)' <=> RefHit(k)
  BY <1>3, <1>4 DEF RefHit
<1>6. \A n : Misses(n)' = Misses(n)
  BY <1>5 DEF Misses
<1>7. \A k, n : Again(k, n)' = Again(k, n)
  BY <1>1, <1>6 DEF Again
<1>8. \A k, n : Uses(k, n)' = Uses(k, n)
  BY <1>1, <1>7 DEF Uses
<1>9. \A k, n : Leaves(k, n)' <=> Leaves(k, n)
  BY <1>3, <1>7, <1>8 DEF Leaves
<1>10. \A k, n : Dirtied(k, n)' <=> Dirtied(k, n)
  BY <1>8 DEF Dirtied
<1>11. \A n : Gone(n)' = Gone(n) /\ Dirt(n)' = Dirt(n)
  BY <1>6, <1>9, <1>10 DEF Gone, Dirt
<1>12. \A n : Counts(n)' = Counts(n)
  BY <1>6, <1>11 DEF Counts
<1>13. \A u, n : LastUse(u, n)' <=> LastUse(u, n)
  BY <1>1 DEF LastUse
<1>14. \A L, k : InCache(L, k)' <=> InCache(L, k)
  BY <1>1, <1>2 DEF InCache
<1>15. \A L, n : Stamped(L, n)' <=> Stamped(L, n)
  BY <1>1, <1>2, <1>13 DEF Stamped
<1>16. \A L, n : LeastRecent(L, n)' <=> LeastRecent(L, n)
  BY <1>2, <1>13, <1>14 DEF LeastRecent
<1>17. \A L, n : MarkedDirty(L, n)' <=> MarkedDirty(L, n)
  BY <1>1, <1>2, <1>6, <1>7, <1>10 DEF MarkedDirty
<1>18. \A L, n : Follows(L, n)' <=> Follows(L, n)
  BY <1>15, <1>16, <1>17 DEF Follows
<1>19. Readable(trace)' <=> Readable(trace)
  BY DEF Readable, parse_trace_line
<1> QED BY <1>12, <1>18, <1>19

LEMMA ReadCounts ==
  ASSUME SimInv, CountsInv, ReadLine
  PROVE  CountsInv'
<1>1. /\ UNCHANGED <<trace, geom>> /\ phase = "trace" /\ pos' = pos + 1
      /\ trace # FileMissing /\ pos # Len(trace)
  BY DEF ReadLine, AtEnd
<1> SUFFICES ASSUME Readable(trace)
             PROVE  /\ parse_error' = 0 /\ counter' = pos'
                    /\ Follows(lines', pos') /\ stats' = Counts(pos')
  BY <1>1, SameTrace DEF CountsInv
<1>2. /\ GoodTrace /\ pos \in 0 .. Len(trace) /\ DOMAIN trace = 1 .. Len(trace)
      /\ lines # <<>> /\ CacheOK /\ Len(trace) \in Nat
  BY <1>1, TraceIsGood DEF GoodTrace
<1>3. pos + 1 \in 1 .. Len(trace) /\ pos \in Nat
  <2>1. pos \in 0 .. Len(trace) /\ Len(trace) \in Nat /\ pos # Len(trace)
    BY <1>1, <1>2
  <2> QED BY <2>1
<1>4. parse_error = 0 /\ counter = pos /\ Follows(lines, pos) /\ stats = Counts(pos)
  BY <1>1 DEF CountsInv
<1>5. parse_trace_line(trace[pos + 1])
  BY <1>2, <1>3 DEF Readable
<1>6. touch_cache(trace[pos + 1].op, trace[pos + 1].address) /\ parse_error' = parse_error
  BY <1>5 DEF ReadLine
<1>7. counter' = pos'
  BY <1>1, <1>4, <1>6 DEF touch_cache
<1>8. LinesOK(lines, pos)
  BY <1>2, <1>4 DEF CacheOK, LinesOK
<1>9. LinesOK(lines', pos + 1)
  <2>1. SimInv'
    BY ReadStep
  <2>2. lines' # <<>>
    BY <1>1, <2>1 DEF SimInv, ReadLine
  <2>3. CacheOK'
    BY <2>1, <2>2 DEF SimInv
  <2> QED BY <1>1, <1>7, <2>3 DEF CacheOK, LinesOK
<1>10. Follows(lines', pos + 1) /\ stats' = Counts(pos + 1)
  BY <1>2, <1>3, <1>4, <1>6, <1>8, <1>9, Touched
<1> QED BY <1>1, <1>4, <1>6, <1>7, <1>10

LEMMA StartCounts ==
  ASSUME argv \in AllOptions, Start
  PROVE  CountsInv'
<1>1. /\ counter' = 0 /\ pos' = 0 /\ stats' = ZeroStats /\ trace' = LastOf(argv, "t")
      /\ parse_error' = IF trace' = FileMissing THEN 1 ELSE 0
      /\ lines' = init_cache(geom'.s, geom'.E)
  BY DEF Start
<1>2. \A set \in DOMAIN lines' : Used(lines'[set]) = {}
  BY <1>1 DEF init_cache, Used, EmptyLine
<1>3. Follows(lines, pos)'
  BY <1>1, <1>2 DEF Follows, Stamped, LeastRecent, MarkedDirty
<1>4. geom' \in Geometries
  <2>1. CacheOK'
    BY StartResets
  <2> QED BY <2>1 DEF CacheOK
<1>5. 2^geom'.b \in Nat
  BY <1>4, Powers
<1>6. Misses(0)' = {} /\ Gone(0)' = {} /\ Dirt(0)' = {}
  BY DEF Misses, Gone, Dirt
<1>7. Cardinality({}) = 0 /\ 2^geom'.b * 0 = 0
  BY <1>5, FS_EmptySet
<1>8. Counts(0)' = ZeroStats
  <2>1. /\ Cardinality(Misses(0))' = 0 /\ Cardinality(Gone(0))' = 0
        /\ Cardinality(Dirt(0) \ Gone(0))' = 0 /\ Cardinality(Dirt(0) \cap Gone(0))' = 0
    <3>1. (Dirt(0) \ Gone(0))' = {} /\ (Dirt(0) \cap Gone(0))' = {}
      BY <1>6
    <3> QED BY <1>6, <1>7, <3>1
  <2>2. Counts(0)' = [hits |-> 0 - 0, misses |-> 0, evictions |-> 0,
                      dirty_bytes |-> 2^geom'.b * 0, dirty_evictions |-> 2^geom'.b * 0]
    BY <2>1, Zenon DEF Counts
  <2> QED BY <1>7, <2>2 DEF ZeroStats
<1>9. Counts(pos)' = ZeroStats
  BY <1>1, <1>8
<1>10. Readable(trace)' => parse_error' = 0
  BY <1>1 DEF Readable
<1> QED BY <1>1, <1>3, <1>9, <1>10 DEF CountsInv

LEMMA CountsStep ==
  ASSUME SInv, CountsInv, [Next]_vars
  PROVE  CountsInv'
<1>1. CASE ReadLine
  BY <1>1, ReadCounts DEF SInv
<1>2. CASE Start
  <2>1. argv \in AllOptions
    BY <1>2 DEF SInv, SimInv, Start
  <2> QED BY <1>2, <2>1, StartCounts
<1>3. CASE UNCHANGED vars
  <2>1. UNCHANGED <<trace, geom, phase, lines, pos, stats, counter, parse_error>>
    BY <1>3 DEF vars, simvars
  <2> QED BY <2>1, SameTrace DEF CountsInv
<1>4. CASE Next /\ ~(CsimSteps /\ (ReadLine \/ Start))
  <2>1. phase' = "trace" => UNCHANGED simvars
    BY <1>4 DEF Next, StartUserCsim, StartTestCsim, StartTestTrans, CsimSteps, CsimEnds, CsimKilled,
                UserCsimEnds, Unlink, SystemCsim, SystemRef, SystemFails, SystemReturns, Load, Skip,
                Generate, Simulate, Record, Report, Alarm, SimIdle, SimEnds, Refuse, StartFails,
                Finish, Exit
  <2>2. phase' = "trace" =>
          UNCHANGED <<trace, geom, phase, lines, pos, stats, counter, parse_error>>
    BY <2>1 DEF simvars
  <2> QED BY <2>2, SameTrace DEF CountsInv
<1> QED BY <1>1, <1>2, <1>3, <1>4

(* The counts of the whole trace are those of the reference.               *)
LEMMA RefIs ==
  ASSUME GoodTrace, DOMAIN trace = 1 .. Len(trace)
  PROVE  RefStats(trace, geom.s, geom.E, geom.b) = Counts(Len(trace))
<1> DEFINE n == Len(trace)
           block == SubSeq([k \in DOMAIN trace |-> trace[k].address \div 2^geom.b], 1, n)
           SameSet(k, h) == block[k] % 2^geom.s = block[h] % 2^geom.s
           rivals(k, first, last) ==
             {block[h] : h \in {j \in first .. last : SameSet(k, j) /\ block[j] # block[k]}}
           before(k) == {j \in 1 .. k - 1 : block[j] = block[k]}
           hits(k) == /\ before(k) # {}
                      /\ Cardinality(rivals(k, Max(before(k)) + 1, k - 1)) < geom.E
           misses == {k \in DOMAIN trace : ~hits(k)}
           again(k) == {j \in misses : j > k /\ block[j] = block[k]}
           uses(k) == {j \in k .. n : block[j] = block[k] /\ \A h \in again(k) : j < h}
           leaves(k) == \/ again(k) # {}
                        \/ Cardinality(rivals(k, Max(uses(k)) + 1, n)) >= geom.E
           dirtied(k) == \E j \in uses(k) : trace[j].op = "S"
           gone == {k \in misses : leaves(k)}
           dirty == {k \in misses : dirtied(k)}
<1>1. RefStats(trace, geom.s, geom.E, geom.b) =
        [hits |-> n - Cardinality(misses), misses |-> Cardinality(misses),
         evictions |-> Cardinality(gone),
         dirty_bytes |-> 2^geom.b * Cardinality(dirty \ gone),
         dirty_evictions |-> 2^geom.b * Cardinality(dirty \cap gone)]
  BY DEF RefStats
<1>2. n \in Nat /\ DOMAIN trace = 1 .. n
  BY DEF GoodTrace
<1>3. \A k \in 1 .. n : block[k] = Blk(k)
  <2> DEFINE blocks == [k \in DOMAIN trace |-> trace[k].address \div 2^geom.b]
  <2>1. blocks = [k \in 1 .. n |-> Blk(k)]
    BY <1>2 DEF Blk
  <2>2. \A k \in 1 .. n : Blk(k) \in Nat
    BY AccessIs
  <2>3. blocks \in Seq(Nat) /\ Len(blocks) = n
    <3> HIDE DEF n, blocks
    <3>1. blocks \in [1 .. n -> Nat]
      BY <2>1, <2>2
    <3> QED BY <1>2, <3>1, FunctionIsSeq
  <2> HIDE DEF blocks
  <2>4. \A k \in 1 .. n : SubSeq(blocks, 1, n)[k] = blocks[k]
    BY <1>2, <2>3, SubSeqProperties
  <2> QED BY <2>1, <2>4 DEF blocks
<1> HIDE DEF block, n
<1>4. \A k, h \in 1 .. n : SameSet(k, h) <=> SetOf(k) = SetOf(h)
  BY <1>3 DEF SetOf
<1> HIDE DEF SameSet
<1>5. ASSUME NEW k \in 1 .. n, NEW first \in Nat \ {0}, NEW last \in 0 .. n
      PROVE  rivals(k, first, last) = Rivals(k, first, last)
  <2>1. \A j \in first .. last : j \in 1 .. n
    BY <1>2
  <2>2. {j \in first .. last : SameSet(k, j) /\ block[j] # block[k]} =
        {h \in first .. last : SetOf(h) = SetOf(k) /\ Blk(h) # Blk(k)}
    BY <1>3, <1>4, <2>1
  <2> QED BY <1>3, <2>1, <2>2 DEF Rivals
<1> HIDE DEF rivals
<1>6. ASSUME NEW k \in 1 .. n
      PROVE  before(k) = Earlier(k) /\ Earlier(k) \in SUBSET (0 .. k - 1)
  <2>1. \A j \in 1 .. k - 1 : j \in 1 .. n
    BY <1>2
  <2> QED BY <1>2, <1>3, <2>1 DEF Earlier
<1> HIDE DEF before
<1>7. ASSUME NEW k \in 1 .. n
      PROVE  hits(k) <=> RefHit(k)
  <2>1. CASE Earlier(k) # {}
    <3>1. k - 1 \in Nat /\ k - 1 \in 0 .. n
      BY <1>2
    <3>2. Max(Earlier(k)) \in 0 .. k - 1
      <4> DEFINE m == k - 1
      <4>1. m \in Nat /\ Earlier(k) \in SUBSET (0 .. m)
        BY <1>6, <3>1
      <4> HIDE DEF m
      <4>2. Max(Earlier(k)) \in 0 .. m
        BY <2>1, <4>1, Greatest
      <4> QED BY <4>2 DEF m
    <3>3. Max(Earlier(k)) + 1 \in Nat \ {0}
      BY <3>1, <3>2
    <3>4. rivals(k, Max(Earlier(k)) + 1, k - 1) = Rivals(k, Max(Earlier(k)) + 1, k - 1)
      BY <1>5, <3>1, <3>3
    <3> QED BY <1>6, <2>1, <3>4 DEF RefHit
  <2>2. CASE Earlier(k) = {}
    BY <1>6, <2>2 DEF RefHit
  <2> QED BY <2>1, <2>2
<1> HIDE DEF hits
<1>8. misses = Misses(n) /\ Misses(n) \subseteq 1 .. n
  BY <1>2, <1>7 DEF Misses
<1> HIDE DEF misses
<1>9. \A k \in 1 .. n : again(k) = Again(k, n)
  BY <1>3, <1>8 DEF Again
<1> HIDE DEF again
<1>10. ASSUME NEW k \in 1 .. n
       PROVE  uses(k) = Uses(k, n) /\ k \in Uses(k, n) /\ Uses(k, n) \in SUBSET (0 .. n)
  <2>1. \A j \in k .. n : j \in 1 .. n
    BY <1>2
  <2>2. uses(k) = Uses(k, n)
    BY <1>3, <1>9, <2>1 DEF Uses
  <2>3. k \in Uses(k, n)
    BY <1>2 DEF Uses, Again
  <2> QED BY <1>2, <2>1, <2>2, <2>3 DEF Uses
<1> HIDE DEF uses
<1>11. ASSUME NEW k \in 1 .. n
       PROVE  leaves(k) <=> Leaves(k, n)
  <2>1. Max(Uses(k, n)) \in 0 .. n
    BY <1>2, <1>10, Greatest
  <2>2. Max(Uses(k, n)) + 1 \in Nat \ {0} /\ n \in 0 .. n
    BY <1>2, <2>1
  <2>3. rivals(k, Max(Uses(k, n)) + 1, n) = Rivals(k, Max(Uses(k, n)) + 1, n)
    BY <1>5, <2>2
  <2> QED BY <1>9, <1>10, <2>3 DEF Leaves
<1> HIDE DEF leaves
<1>12. \A k \in 1 .. n : dirtied(k) <=> Dirtied(k, n)
  BY <1>10 DEF Dirtied
<1> HIDE DEF dirtied
<1>13. gone = Gone(n) /\ dirty = Dirt(n)
  BY <1>8, <1>11, <1>12 DEF Gone, Dirt
<1> HIDE DEF gone, dirty
<1> QED BY <1>1, <1>8, <1>13, Zenon DEF Counts, n

-----------------------------------------------------------------------------
(* The marks of test-csim                                                  *)

(* The counts of the reference for the k-th test.                          *)
Ref(k) == RefStats(call[k], TRACE_INFO[k].s, TRACE_INFO[k].E, TRACE_INFO[k].b)

(* The second simulator of a test counts what the first did.               *)
MarksInv ==
  /\ \A t \in success : t \in DOMAIN TRACE_INFO /\ points[t] = 5 * TRACE_INFO[t].weight
  /\ tool = "test-csim" =>
       /\ DOMAIN points = DOMAIN TRACE_INFO
       /\ sim = "csim" => ref_stats = Ref(i)
       /\ sim = "csim" \/ step = "load" => Readable(call[i])
       /\ step = "wait" => sim = "csim"
       /\ step = "wait" /\ phase = "args" => argv = Options(i - 1, TRACE_INFO[i], call[i])
       /\ step = "wait" /\ phase = "trace" =>
            /\ trace = call[i] /\ geom.s = TRACE_INFO[i].s
            /\ geom.E = TRACE_INFO[i].E /\ geom.b = TRACE_INFO[i].b
       /\ step \in {"wait", "load"} /\ loadSummaryOK => file.stats = Ref(i)

(* Two of the same counts match in all of them.                            *)
LEMMA FiveFields ==
  Cardinality({"hits", "misses", "evictions", "dirty_bytes", "dirty_evictions"}) = 5
<1>1. IsFiniteSet({}) /\ Cardinality({}) = 0
  BY FS_EmptySet
<1>2. IsFiniteSet({"hits"}) /\ Cardinality({"hits"}) = 1
  BY FS_Singleton
<1>3. IsFiniteSet({"hits", "misses"}) /\ Cardinality({"hits", "misses"}) = 2
  <2>1. {"hits", "misses"} = {"hits"} \cup {"misses"} /\ "misses" \notin {"hits"}
    OBVIOUS
  <2> QED BY <1>2, <2>1, OneAdded
<1>4. IsFiniteSet({"hits", "misses", "evictions"})
      /\ Cardinality({"hits", "misses", "evictions"}) = 3
  <2>1. /\ {"hits", "misses", "evictions"} = {"hits", "misses"} \cup {"evictions"}
        /\ "evictions" \notin {"hits", "misses"}
    OBVIOUS
  <2> QED BY <1>3, <2>1, OneAdded
<1>5. IsFiniteSet({"hits", "misses", "evictions", "dirty_bytes"})
      /\ Cardinality({"hits", "misses", "evictions", "dirty_bytes"}) = 4
  <2>1. /\ {"hits", "misses", "evictions", "dirty_bytes"} =
             {"hits", "misses", "evictions"} \cup {"dirty_bytes"}
        /\ "dirty_bytes" \notin {"hits", "misses", "evictions"}
    OBVIOUS
  <2> QED BY <1>4, <2>1, OneAdded
<1>6. /\ {"hits", "misses", "evictions", "dirty_bytes", "dirty_evictions"} =
           {"hits", "misses", "evictions", "dirty_bytes"} \cup {"dirty_evictions"}
      /\ "dirty_evictions" \notin {"hits", "misses", "evictions", "dirty_bytes"}
  OBVIOUS
<1> QED BY <1>5, <1>6, OneAdded

LEMMA AllMatch ==
  ASSUME NEW t, NEW s, NEW E, NEW b
  PROVE  count_matches(RefStats(t, s, E, b), RefStats(t, s, E, b)) = 5
<1> DEFINE st == RefStats(t, s, E, b)
<1>1. DOMAIN st = {"hits", "misses", "evictions", "dirty_bytes", "dirty_evictions"}
  BY DEF RefStats
<1> HIDE DEF st
<1>2. {f \in DOMAIN st : st[f] = st[f]} = DOMAIN st
  OBVIOUS
<1> QED BY <1>1, <1>2, FiveFields DEF count_matches, st

(* csim is given the sizes and the trace, in whatever order.               *)
LEMMA OptionIs ==
  ASSUME NEW opts, NEW name, NEW k, Given(opts, name) = {k}, k \in Nat
  PROVE  LastOf(opts, name) = opts[k][2]
<1>1. \A x : x \in Given(opts, name) /\ (\A j \in Given(opts, name) : j <= x) <=> x = k
  OBVIOUS
<1>2. (CHOOSE x \in Given(opts, name) : \A j \in Given(opts, name) : j <= x) = k
  BY <1>1
<1> QED BY <1>2 DEF LastOf

LEMMA FourOptions ==
  ASSUME NEW n1, NEW n2, NEW n3, NEW n4, NEW v1, NEW v2, NEW v3, NEW v4,
         n1 # n2, n1 # n3, n1 # n4, n2 # n3, n2 # n4, n3 # n4,
         NEW opts, opts = << <<n1, v1>>, <<n2, v2>>, <<n3, v3>>, <<n4, v4>> >>
  PROVE  /\ LastOf(opts, n1) = v1 /\ LastOf(opts, n2) = v2
         /\ LastOf(opts, n3) = v3 /\ LastOf(opts, n4) = v4
<1>1. /\ DOMAIN opts = 1 .. 4
      /\ opts[1] = <<n1, v1>> /\ opts[2] = <<n2, v2>>
      /\ opts[3] = <<n3, v3>> /\ opts[4] = <<n4, v4>>
  OBVIOUS
<1>2. \A x \in DOMAIN opts : x \in {1, 2, 3, 4}
  BY <1>1
<1>3. /\ opts[1][1] = n1 /\ opts[2][1] = n2 /\ opts[3][1] = n3 /\ opts[4][1] = n4
      /\ opts[1][2] = v1 /\ opts[2][2] = v2 /\ opts[3][2] = v3 /\ opts[4][2] = v4
  BY <1>1
<1>4. /\ Given(opts, n1) = {1} /\ Given(opts, n2) = {2}
      /\ Given(opts, n3) = {3} /\ Given(opts, n4) = {4}
  BY <1>1, <1>2, <1>3 DEF Given
<1> QED BY <1>3, <1>4, OptionIs

LEMMA OptionsGive ==
  ASSUME NEW k \in Nat, NEW info, NEW t
  PROVE  LET opts == Options(k, info, t)
         IN  /\ LastOf(opts, "s") = info.s /\ LastOf(opts, "E") = info.E
             /\ LastOf(opts, "b") = info.b /\ LastOf(opts, "t") = t
<1> DEFINE opts == Options(k, info, t)
           s == <<"s", info.s>>
           E == <<"E", info.E>>
           b == <<"b", info.b>>
           f == <<"t", t>>
<1>1. /\ k % 4 \in {0, 1, 2, 3}
      /\ k % 4 = 0 => opts = <<b, s, f, E>>
      /\ k % 4 = 1 => opts = <<f, E, s, b>>
      /\ k % 4 = 2 => opts = <<E, b, f, s>>
      /\ k % 4 = 3 => opts = <<s, E, b, f>>
  BY DEF Options
<1> HIDE DEF opts
<1>2. CASE opts = <<b, s, f, E>>
  BY <1>2, FourOptions DEF opts
<1>3. CASE opts = <<f, E, s, b>>
  BY <1>3, FourOptions DEF opts
<1>4. CASE opts = <<E, b, f, s>>
  BY <1>4, FourOptions DEF opts
<1>5. CASE opts = <<s, E, b, f>>
  BY <1>5, FourOptions DEF opts
<1> QED BY <1>1, <1>2, <1>3, <1>4, <1>5

-----------------------------------------------------------------------------
(* The marks, step by step                                                 *)

LEMMA SameTest ==
  ASSUME UNCHANGED <<call, i>>
  PROVE  Ref(i)' = Ref(i) /\ (Readable(call[i])' <=> Readable(call[i]))
BY DEF Ref, Readable, parse_trace_line

(* A test that has failed earns nothing,                                   *)
LEMMA TestFails ==
  ASSUME MarksInv, tool = "test-csim", NextTest(FALSE, Unset)
  PROVE  MarksInv'
<1>1. /\ UNCHANGED <<points, success>> /\ sim' = "csim-ref" /\ step' \in {"report", "unlink"}
  BY DEF NextTest
<1> QED BY <1>1 DEF MarksInv

(* and one that has been through earns five times its weight.              *)
LEMMA TestPasses ==
  ASSUME MarksInv, SInv, tool = "test-csim", step = "load", loadSummaryOK, sim = "csim",
         NextTest(TRUE, file.stats)
  PROVE  MarksInv'
<1>1. /\ success' = success \cup {i} /\ sim' = "csim-ref" /\ step' \in {"report", "unlink"}
      /\ points' = [points EXCEPT ![i] =
                      count_matches(ref_stats, file.stats) * TRACE_INFO[i].weight]
  BY DEF NextTest
<1>2. ref_stats = Ref(i) /\ file.stats = Ref(i) /\ DOMAIN points = DOMAIN TRACE_INFO
  BY DEF MarksInv
<1>3. i \in DOMAIN TRACE_INFO
  BY DEF SInv, CallerInv, TestOK
<1>4. count_matches(ref_stats, file.stats) = 5
  BY <1>2, AllMatch DEF Ref
<1>5. /\ points'[i] = 5 * TRACE_INFO[i].weight /\ DOMAIN points' = DOMAIN TRACE_INFO
      /\ \A t \in DOMAIN TRACE_INFO \ {i} : points'[t] = points[t]
  BY <1>1, <1>2, <1>3, <1>4
<1> QED BY <1>1, <1>3, <1>5 DEF MarksInv

(* csim ends with the counts of the reference in the file, or none.        *)
LEMMA CsimCounts ==
  ASSUME SInv, FileInv, CountsInv, MarksInv, CsimEnds
  PROVE  MarksInv'
<1>1. /\ UNCHANGED <<tool, call, step, sim, i, ref_stats, points, success, trace, geom>>
      /\ phase = "trace" /\ phase' = "exited" /\ (trace = FileMissing \/ pos = Len(trace))
  BY DEF CsimEnds, Finish, Simulated, AtEnd, Exit
<1>2. CASE tool # "test-csim"
  BY <1>1, <1>2 DEF MarksInv
<1>3. CASE tool = "test-csim"
  <2>1. step = "wait" /\ ~loadSummaryOK /\ sim = "csim"
    BY <1>1, <1>3 DEF SInv, CallerInv, FileInv, MarksInv
  <2>2. /\ trace = call[i] /\ Readable(trace) /\ geom.s = TRACE_INFO[i].s
        /\ geom.E = TRACE_INFO[i].E /\ geom.b = TRACE_INFO[i].b
    BY <1>1, <1>3, <2>1 DEF MarksInv
  <2>3. /\ trace # FileMissing /\ parse_error = 0 /\ stats = Counts(Len(trace))
    BY <1>1, <2>2 DEF CountsInv, Readable
  <2>4. stats = RefStats(trace, geom.s, geom.E, geom.b)
    <3>1. GoodTrace /\ DOMAIN trace = 1 .. Len(trace)
      BY <1>1, <2>2, TraceIsGood DEF SInv
    <3> QED BY <2>3, <3>1, RefIs
  <2>5. stats = Ref(i)
    BY <2>2, <2>4 DEF Ref
  <2>6. printSummary(stats)
    BY <2>3 DEF CsimEnds
  <2>7. loadSummaryOK' => file'.stats = Ref(i)
    BY <2>1, <2>5, <2>6 DEF printSummary, loadSummaryOK
  <2> QED BY <1>1, <1>3, <2>1, <2>7, SameTest DEF MarksInv
<1> QED BY <1>2, <1>3

LEMMA CsimMarks ==
  ASSUME SInv, MarksInv, CsimSteps \/ CsimKilled
  PROVE  MarksInv'
<1>1. /\ UNCHANGED <<tool, call, step, sim, i, ref_stats, points, success, file>>
  BY DEF CsimSteps, CsimKilled, toolvars
<1>2. CASE Refuse \/ StartFails \/ CsimKilled
  <2>1. phase' = "exited"
    BY <1>2 DEF Refuse, StartFails, CsimKilled, Exit
  <2> QED BY <1>1, <2>1, SameTest DEF MarksInv, loadSummaryOK
<1>3. CASE ReadLine
  <2>1. UNCHANGED <<phase, trace, geom, argv>>
    BY <1>3 DEF ReadLine
  <2> QED BY <1>1, <2>1, SameTest DEF MarksInv, loadSummaryOK
<1>4. CASE Start
  <2>1. /\ phase = "args" /\ phase' = "trace" /\ trace' = LastOf(argv, "t")
        /\ geom' = [s |-> LastOf(argv, "s"), E |-> LastOf(argv, "E"), b |-> LastOf(argv, "b")]
    BY <1>4 DEF Start
  <2>2. ASSUME tool = "test-csim", step = "wait"
        PROVE  /\ trace' = call[i] /\ geom'.s = TRACE_INFO[i].s
               /\ geom'.E = TRACE_INFO[i].E /\ geom'.b = TRACE_INFO[i].b
    <3>1. argv = Options(i - 1, TRACE_INFO[i], call[i])
      BY <2>1, <2>2 DEF MarksInv
    <3>2. i - 1 \in Nat
      <4>1. i \in 1 .. Len(TRACE_INFO) /\ Len(TRACE_INFO) \in Nat
        BY <2>2, CSimLRUAssumption DEF SInv, CallerInv, TestOK
      <4> QED BY <4>1
    <3> QED BY <2>1, <3>1, <3>2, OptionsGive
  <2> QED BY <1>1, <2>1, <2>2, SameTest DEF MarksInv, loadSummaryOK
<1> QED BY <1>2, <1>3, <1>4 DEF CsimSteps

LEMMA MarksStep ==
  ASSUME SInv, FileInv, CountsInv, MarksInv, [Next]_vars
  PROVE  MarksInv'
<1>1. CASE UNCHANGED vars
  <2>1. UNCHANGED <<tool, call, step, sim, i, ref_stats, points, success, file,
                    phase, trace, geom, argv>>
    BY <1>1 DEF vars, simvars, toolvars
  <2> QED BY <2>1, SameTest DEF MarksInv, loadSummaryOK
<1>2. CASE CsimSteps \/ CsimKilled
  BY <1>2, CsimMarks
<1>3. CASE CsimEnds
  BY <1>3, CsimCounts
<1>4. CASE Unlink
  <2>1. CASE NextTest(FALSE, Unset)
    BY <1>4, <2>1, TestFails DEF Unlink
  <2>2. CASE ~NextTest(FALSE, Unset)
    <3>1. UNCHANGED <<tool, call, sim, i, ref_stats, points, success>> /\ step' = "system"
      BY <1>4, <2>2 DEF Unlink
    <3> QED BY <1>4, <3>1, SameTest DEF MarksInv, Unlink
  <2> QED BY <2>1, <2>2
<1>5. CASE SystemCsim
  <2>1. /\ UNCHANGED <<tool, call, sim, i, ref_stats, points, success, file>>
        /\ step' = "wait" /\ phase' = "args" /\ tool = "test-csim" /\ step = "system"
        /\ sim = "csim" /\ argv' = Options(i - 1, TRACE_INFO[i], call[i])
    BY <1>5 DEF SystemCsim
  <2>2. ~loadSummaryOK'
    BY <2>1 DEF FileInv, loadSummaryOK
  <2> QED BY <2>1, <2>2, SameTest DEF MarksInv
<1>6. CASE SystemRef
  <2>1. /\ UNCHANGED <<tool, call, sim, i, ref_stats, points, success>>
        /\ step' = "load" /\ tool = "test-csim" /\ step = "system" /\ sim = "csim-ref"
        /\ Readable(call[i]) /\ printSummary(Ref(i))
    BY <1>6 DEF SystemRef, Ref
  <2>2. loadSummaryOK' => file'.stats = Ref(i)
    BY <2>1 DEF FileInv, loadSummaryOK, printSummary
  <2> QED BY <2>1, <2>2, SameTest DEF MarksInv
<1>7. CASE SystemFails
  BY <1>7, TestFails DEF SystemFails
<1>8. CASE SystemReturns
  <2>1. /\ UNCHANGED <<tool, call, sim, i, ref_stats, points, success, file>>
        /\ step' = "load" /\ tool = "test-csim" /\ step = "wait"
    BY <1>8 DEF SystemReturns
  <2> QED BY <2>1, SameTest DEF MarksInv, loadSummaryOK
<1>9. CASE Load
  <2>1. CASE ~loadSummaryOK
    BY <1>9, <2>1, TestFails DEF Load
  <2>2. CASE loadSummaryOK /\ sim = "csim"
    BY <1>9, <2>2, TestPasses DEF Load
  <2>3. CASE loadSummaryOK /\ sim # "csim"
    <3>1. /\ UNCHANGED <<tool, call, i, points, success>> /\ step = "load"
          /\ ref_stats' = file.stats /\ sim' = "csim" /\ step' = "unlink" /\ tool = "test-csim"
      BY <1>9, <2>3 DEF Load
    <3> QED BY <2>3, <3>1, SameTest DEF MarksInv
  <2> QED BY <2>1, <2>2, <2>3
<1>10. CASE StartTestCsim
  <2>1. /\ success' = {} /\ points' = [t \in DOMAIN TRACE_INFO |-> 0]
        /\ sim' = "csim-ref" /\ step' = "unlink"
    BY <1>10 DEF StartTestCsim
  <2> QED BY <2>1 DEF MarksInv
<1>11. CASE \/ StartUserCsim \/ StartTestTrans \/ UserCsimEnds
            \/ Skip \/ Generate \/ Simulate \/ Record \/ Report \/ Alarm
  <2>1. tool' # "test-csim" /\ (success' = {} \/ UNCHANGED <<success, points>>)
    BY <1>11 DEF StartUserCsim, StartTestTrans, UserCsimEnds, Skip, Generate, Simulate, Record,
                 Report, Alarm, ToolEnds
  <2> QED BY <2>1 DEF MarksInv
<1> QED BY <1>1, <1>2, <1>3, <1>4, <1>5, <1>6, <1>7, <1>8, <1>9, <1>10, <1>11 DEF Next

(* csim, in anybody's hands: after any number of accesses of a trace that  *)
(* can be read, its five counts are those that the reference has for the   *)
(* accesses so far, whatever the geometry.                                 *)
THEOREM CountsFollowTrace == Spec => []CountsInv
<1>1. Init => SInv /\ CountsInv
  BY InitIs DEF Init, SimOff, CountsInv
<1>2. SInv /\ [Next]_vars => SInv'
  BY StepKeeps
<1>3. SInv /\ CountsInv /\ [Next]_vars => CountsInv'
  BY CountsStep
<1> QED BY <1>1, <1>2, <1>3, PTL DEF Spec

(* Whatever the traces, the geometries and what fails or is left in the    *)
(* directory, a test of test-csim that runs both simulators to their end   *)
(* earns all its points: csim, line by line with time stamps and dirty     *)
(* bits, counts what the reference counts from the whole trace by the      *)
(* blocks used in between; and it is csim's own counts that are marked.    *)
THEOREM MarksAreFair == Spec => []MarkedFairly
<1>1. Init => SInv /\ FileInv /\ CountsInv /\ MarksInv
  BY InitIs DEF Init, SimOff, ToolOff, FileInv, CountsInv, MarksInv
<1>2. SInv /\ [Next]_vars => SInv'
  BY StepKeeps
<1>3. SInv /\ FileInv /\ [Next]_vars => FileInv'
  BY FileStep
<1>4. SInv /\ CountsInv /\ [Next]_vars => CountsInv'
  BY CountsStep
<1>5. SInv /\ FileInv /\ CountsInv /\ MarksInv /\ [Next]_vars => MarksInv'
  BY MarksStep
<1>6. FileInv /\ MarksInv => MarkedFairly
  BY DEF MarksInv, FullMarks, FileInv, OwnOrNone, TestCsimLoadsItsOwn, MarkedFairly
<1> QED BY <1>1, <1>2, <1>3, <1>4, <1>5, <1>6, PTL DEF Spec
=============================================================================
