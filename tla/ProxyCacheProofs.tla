-------------------------- MODULE ProxyCacheProofs --------------------------
(***************************************************************************)
(* Proofs about the proxy's cache, for any threads, URIs, addresses and    *)
(* sizes.                                                                  *)
(*                                                                         *)
(* Everything rests on the order of the list: the invariant says that the  *)
(* pointers link the live objects one after the other, and what a walk has *)
(* found out about the objects it has passed.                              *)
(***************************************************************************)
EXTENDS ProxyCacheLRU, FiniteSetTheorems, SequenceTheorems, TLAPS

(* The list L links the objects of s, in this order, in both directions.   *)
Linked(L, s) ==
  /\ L.head = IF s = <<>> THEN NULL ELSE s[1]
  /\ L.tail = IF s = <<>> THEN NULL ELSE s[Len(s)]
  /\ \A i \in 1..Len(s) :
       /\ L.obj[s[i]].next = IF i = Len(s) THEN NULL ELSE s[i + 1]
       /\ L.obj[s[i]].prev = IF i = 1 THEN NULL ELSE s[i - 1]
  /\ \A i, j \in 1..Len(s) : s[i] = s[j] => i = j

Order == OrderOf(list)

(* The live objects are linked in one list.                                *)
OrderInv ==
  /\ Order \in Seq(Addr)
  /\ Linked(list, Order)
  /\ live = Range(Order)

(* The threads in a critical section are the one that holds the mutex.     *)
MutexInv == \A t \in Thread : pc[t] \in Inside <=> mutex = t

(* What a thread knows at each of its points.                              *)
Point(t) ==
  /\ Holds(t, curr[t]) => curr[t] \in live /\ obj(t).key = key[t]
  /\ curr[t] # NULL => pc[t] \in {"search", "dup", "walk", "hit", "release"}
  /\ pc[t] # "idle" => key[t] \in Key
  /\ pc[t] \in {"idle", "lookup", "search", "hit", "release", "fetch"} =>
       buf[t] = EmptyBuf /\ sent[t] = 0
  /\ buf[t].cachable => buf[t].size = sent[t]
  /\ pc[t] \in {"dup", "evict", "walk", "add"} => ToBeCached(t)
  /\ pc[t] \in {"evict", "walk", "add"} =>
       \A a \in live : list.obj[a].key # key[t]
  /\ pc[t] = "walk" => buf[t].size + size > MAX_CACHE_SIZE
  /\ pc[t] = "add" =>
       \/ buf[t].size + size <= MAX_CACHE_SIZE
       \/ \A a \in live : list.obj[a].reference_cnt > 0

PointInv == \A t \in Thread : Point(t)

(* What the walk for an insertion or an eviction has passed.               *)
Passed(t, a) ==
  IF pc[t] = "walk" THEN list.obj[a].reference_cnt > 0
                    ELSE list.obj[a].key # key[t]

(* A walk stands on the i-th object, or at the end.                        *)
At(t, i) ==
  /\ curr[t] = IF i \in 1..Len(Order) THEN Order[i] ELSE NULL
  /\ \A j \in 1..Len(Order) : j < i => Passed(t, Order[j])

Walk(t) ==
  pc[t] \in {"search", "dup", "walk"} => \E i \in 1..(Len(Order) + 1) : At(t, i)

WalkInv == \A t \in Thread : Walk(t)

SizesInv == \A a \in live : list.obj[a].size \in 1..MAX_OBJECT_SIZE

CInv ==
  /\ TypeOK /\ OrderInv /\ MutexInv /\ PointInv /\ WalkInv /\ SizesInv
  /\ SizeIsSum /\ KeysUnique /\ RefsCountReaders /\ CachedWhole /\ CacheBounded

-----------------------------------------------------------------------------
(* Sequences of addresses, and sequences without one of their elements.    *)

LEMMA LeastElement ==
  ASSUME NEW S \in SUBSET Nat, S # {}
  PROVE  \E m \in S : \A k \in S : m <= k
<1>. DEFINE R == {ss \in Nat \X Nat : ss[1] < ss[2]}
<1>1. IsWellFoundedOn(R, Nat)
  BY NatLessThanWellFounded DEF OpToRel
<1>2. PICK m \in S : \A k \in S : ~(<<k, m>> \in R)
  <2>. HIDE DEF R
  <2>. QED
    BY <1>1, WFMin
<1>3. \A k \in S : ~(k < m)
  BY <1>2
<1>. QED
  BY <1>3

(* A set listed without repetition has as many elements as the list.       *)
LEMMA ListedSet ==
  ASSUME NEW s \in Seq(Addr), \A i, j \in 1..Len(s) : s[i] = s[j] => i = j
  PROVE  IsFiniteSet(Range(s)) /\ Cardinality(Range(s)) = Len(s)
<1>1. Len(s) \in Nat /\ DOMAIN s = 1..Len(s)
  OBVIOUS
<1>2. s \in Bijection(1..Len(s), Range(s))
  BY <1>1 DEF Bijection, Injection, Surjection, Range, IsInjective
<1>3. ExistsBijection(1..Len(s), Range(s))
  BY <1>2 DEF ExistsBijection
<1>. QED
  BY <1>1, <1>3, FS_CountingElements, FS_NatBijection

LEMMA WithoutType ==
  ASSUME NEW s \in Seq(Addr), NEW i \in 1..Len(s)
  PROVE  /\ LRU!Without(s, i) \in Seq(Addr)
         /\ Len(LRU!Without(s, i)) = Len(s) - 1
         /\ \A j \in 1..(Len(s) - 1) :
              LRU!Without(s, i)[j] = s[IF j < i THEN j ELSE j + 1]
BY DEF LRU!Without

-----------------------------------------------------------------------------
(* The list.                                                               *)

ListRec == [obj : [Addr -> Obj], head : Ptr, tail : Ptr]

(* A walk from the head meets the linked objects in their order.           *)
LEMMA OrderIs ==
  ASSUME NEW L, NEW s \in Seq(Addr), Linked(L, s), LiveIn(L) = Range(s)
  PROVE  OrderOf(L) = s
<1>. DEFINE n == Cardinality(LiveIn(L))
            Met(f) == f = [i \in 1..n |->
                             IF i = 1 THEN L.head ELSE L.obj[f[i - 1]].next]
            w == OrderOf(L)
<1>1. n = Len(s) /\ n \in Nat /\ s = [i \in 1..n |-> s[i]]
  BY ListedSet DEF Linked
<1>2. Met(s)
  <2>1. \A i \in 1..n : s[i] = IF i = 1 THEN L.head ELSE L.obj[s[i - 1]].next
    <3>. TAKE i \in 1..n
    <3>1. /\ i \in 1..Len(s) /\ s # <<>>
          /\ i # 1 => i - 1 \in 1..Len(s) /\ i - 1 # Len(s) /\ (i - 1) + 1 = i
      BY <1>1
    <3>2. L.head = s[1]
      BY <3>1 DEF Linked
    <3>3. i # 1 => L.obj[s[i - 1]].next = s[i]
      <4>1. \A j \in 1..Len(s) : j # Len(s) => L.obj[s[j]].next = s[j + 1]
        BY DEF Linked
      <4>. QED
        BY <3>1, <4>1
    <3>. QED
      BY <3>2, <3>3
  <2>. QED
    BY <1>1, <2>1
<1>3. w = CHOOSE f : Met(f)
  BY Zenon DEF OrderOf
<1>4. Met(w)
  <2>1. Met(CHOOSE f : Met(f))
    <3>. HIDE DEF Met
    <3>. QED
      BY <1>2, Zenon
  <2>. QED
    BY <1>3, <2>1, Zenon
<1>. HIDE DEF w
<1>5. \A i \in 1..n : w[i] = s[i]
  <2>. DEFINE D == {i \in 1..n : w[i] # s[i]}
  <2>1. SUFFICES ASSUME D # {} PROVE FALSE
    OBVIOUS
  <2>2. PICK i \in D : \A k \in D : i <= k
    <3>1. D \in SUBSET Nat
      BY <1>1
    <3>. HIDE DEF D
    <3>. QED
      BY <2>1, <3>1, LeastElement
  <2>3. i # 1
    <3>1. i \in 1..n /\ w[i] # s[i]
      BY <2>2
    <3>2. i = 1 => w[i] = L.head /\ s[i] = L.head
      BY <1>2, <1>4, <3>1, Zenon
    <3>. QED
      BY <3>1, <3>2
  <2>4. i - 1 \in 1..n /\ i - 1 \notin D
    <3>1. i \in 1..n
      BY <2>2
    <3>. HIDE DEF n, D
    <3>2. i - 1 \in 1..n /\ ~(i <= i - 1)
      BY <1>1, <2>3, <3>1
    <3>. QED
      BY <2>2, <3>2
  <2>5. w[i] = L.obj[w[i - 1]].next /\ s[i] = L.obj[s[i - 1]].next
    <3>1. i \in 1..n
      BY <2>2
    <3>. QED
      BY <1>2, <1>4, <2>3, <3>1, Zenon
  <2>. QED
    BY <2>2, <2>4, <2>5
<1>6. w = [i \in 1..n |-> w[i]]
  BY <1>4
<1>. QED
  BY <1>1, <1>5, <1>6 DEF w

(* What is left of an object when only its pointers change.                *)
SameObject(o, p) == o.key = p.key /\ o.size = p.size /\ o.of = p.of

SameButLinks(o, p) == SameObject(o, p) /\ o.reference_cnt = p.reference_cnt

(* An object with its pointers changed.                                    *)
WithPrev(o, q) == [o EXCEPT !.prev = q]
WithNext(o, r) == [o EXCEPT !.next = r]
WithBoth(o, r, q) == [o EXCEPT !.next = r, !.prev = q]

LEMMA PointerChanged ==
  ASSUME NEW o \in Obj, NEW q \in Ptr, NEW r \in Ptr
  PROVE  /\ WithPrev(o, q) \in Obj /\ SameButLinks(WithPrev(o, q), o)
         /\ WithPrev(o, q).prev = q /\ WithPrev(o, q).next = o.next
         /\ WithNext(o, r) \in Obj /\ SameButLinks(WithNext(o, r), o)
         /\ WithNext(o, r).prev = o.prev /\ WithNext(o, r).next = r
         /\ WithBoth(o, r, q) \in Obj /\ SameButLinks(WithBoth(o, r, q), o)
         /\ WithBoth(o, r, q).prev = q /\ WithBoth(o, r, q).next = r
<1>1. WithPrev(o, q) \in Obj /\ SameButLinks(WithPrev(o, q), o)
  BY DEF Obj, SameButLinks, SameObject, WithPrev
<1>2. WithNext(o, r) \in Obj /\ SameButLinks(WithNext(o, r), o)
  BY DEF Obj, SameButLinks, SameObject, WithNext
<1>3. WithBoth(o, r, q) \in Obj /\ SameButLinks(WithBoth(o, r, q), o)
  BY DEF Obj, SameButLinks, SameObject, WithBoth
<1>4. /\ WithPrev(o, q).prev = q /\ WithPrev(o, q).next = o.next
      /\ WithNext(o, r).prev = o.prev /\ WithNext(o, r).next = r
      /\ WithBoth(o, r, q).prev = q /\ WithBoth(o, r, q).next = r
  BY DEF Obj, WithPrev, WithNext, WithBoth
<1>. QED
  BY <1>1, <1>2, <1>3, <1>4

(* R is L with a, between p and n, taken out of the links.                 *)
Removed(R, L, a, n, p) ==
  /\ R \in ListRec
  /\ R.head = IF p = NULL THEN n ELSE L.head
  /\ R.tail = IF n = NULL THEN p ELSE L.tail
  /\ \A x \in Addr :
       /\ SameButLinks(R.obj[x], L.obj[x])
       /\ x # a => /\ R.obj[x].next = IF x = p THEN n ELSE L.obj[x].next
                  /\ R.obj[x].prev = IF x = n THEN p ELSE L.obj[x].prev

LEMMA RemoveFields ==
  ASSUME NEW L \in ListRec, NEW a \in Addr,
         L.obj[a].next # a, L.obj[a].prev # a,
         L.obj[a].next = L.obj[a].prev => L.obj[a].next = NULL
  PROVE  Removed(remove_cache_obj_from_cache(L, a), L, a,
                 L.obj[a].next, L.obj[a].prev)
<1>. DEFINE n == L.obj[a].next
            p == L.obj[a].prev
            R == remove_cache_obj_from_cache(L, a)
            New(x) == CASE x = n -> [L.obj[x] EXCEPT !.prev = p]
                        [] x = p -> [L.obj[x] EXCEPT !.next = n]
                        [] x = a -> [L.obj[x] EXCEPT !.next = NULL, !.prev = NULL]
                        [] OTHER -> L.obj[x]
            head == IF p = NULL THEN n ELSE L.head
            tail == IF n = NULL THEN p ELSE L.tail
            heap == [x \in Addr |-> New(x)]
<1>1. R = [obj |-> heap, head |-> head, tail |-> tail]
  BY Zenon DEF remove_cache_obj_from_cache
<1>2. /\ \A x \in Addr : L.obj[x] \in Obj /\ x # NULL
      /\ L.head \in Ptr /\ L.tail \in Ptr /\ NULL \in Ptr
  BY ProxyCacheAssumption DEF ListRec, Ptr
<1>3. n \in Ptr /\ p \in Ptr
  <2>1. L.obj[a] \in Obj
    BY <1>2
  <2>. QED
    BY <2>1 DEF Obj
<1>4. n # a /\ p # a /\ (n = p => n = NULL)
  OBVIOUS
<1>5. ASSUME NEW x \in Addr
      PROVE  /\ x = n => New(x) = WithPrev(L.obj[x], p)
             /\ x # n /\ x = p => New(x) = WithNext(L.obj[x], n)
             /\ x # n /\ x # p /\ x = a => New(x) = WithBoth(L.obj[x], NULL, NULL)
             /\ x # n /\ x # p /\ x # a => New(x) = L.obj[x]
  <2>1. x # NULL
    BY <1>2
  <2>2. ~(x = n /\ x = p) /\ ~(x = n /\ x = a) /\ ~(x = p /\ x = a)
    BY <1>4, <2>1
  <2>. HIDE DEF n, p
  <2>. QED
    BY <2>2 DEF WithPrev, WithNext, WithBoth
<1>. HIDE DEF n, p, New
<1>6. ASSUME NEW x \in Addr
      PROVE  /\ New(x) \in Obj /\ SameButLinks(New(x), L.obj[x])
             /\ x # a => /\ New(x).next = IF x = p THEN n ELSE L.obj[x].next
                        /\ New(x).prev = IF x = n THEN p ELSE L.obj[x].prev
  <2>. DEFINE o == L.obj[x]
  <2>1. o \in Obj /\ x # NULL
    BY <1>2
  <2>. HIDE DEF o
  <2>2. CASE x = n
    <3>1. New(x) = WithPrev(o, p)
      BY <1>5, <2>2 DEF o
    <3>2. x # p /\ x # a
      BY <1>4, <2>1, <2>2
    <3>3. /\ WithPrev(o, p) \in Obj /\ SameButLinks(WithPrev(o, p), o)
          /\ WithPrev(o, p).prev = p /\ WithPrev(o, p).next = o.next
      BY <1>3, <2>1, PointerChanged
    <3>. QED
      BY <2>2, <3>1, <3>2, <3>3 DEF o
  <2>3. CASE x # n /\ x = p
    <3>1. New(x) = WithNext(o, n)
      BY <1>5, <2>3 DEF o
    <3>2. /\ WithNext(o, n) \in Obj /\ SameButLinks(WithNext(o, n), o)
          /\ WithNext(o, n).next = n /\ WithNext(o, n).prev = o.prev
      BY <1>3, <2>1, PointerChanged
    <3>. QED
      BY <2>3, <3>1, <3>2 DEF o
  <2>4. CASE x # n /\ x # p /\ x = a
    <3>1. New(x) = WithBoth(o, NULL, NULL)
      BY <1>5, <2>4 DEF o
    <3>2. WithBoth(o, NULL, NULL) \in Obj /\ SameButLinks(WithBoth(o, NULL, NULL), o)
      BY <1>2, <2>1, PointerChanged
    <3>. QED
      BY <2>4, <3>1, <3>2 DEF o
  <2>5. CASE x # n /\ x # p /\ x # a
    <3>1. New(x) = o
      BY <1>5, <2>5 DEF o
    <3>2. SameButLinks(o, o)
      BY DEF SameButLinks, SameObject
    <3>. QED
      BY <2>1, <2>5, <3>1, <3>2 DEF o
  <2>. QED
    BY <2>2, <2>3, <2>4, <2>5
<1>7. head \in Ptr /\ tail \in Ptr
  BY <1>2, <1>3
<1>. HIDE DEF R, head, tail, heap
<1>8. R.obj = heap /\ R.head = head /\ R.tail = tail
  BY <1>1
<1>9. heap \in [Addr -> Obj] /\ \A x \in Addr : heap[x] = New(x)
  BY <1>6 DEF heap
<1>10. R \in ListRec
  BY <1>1, <1>7, <1>9 DEF ListRec
<1>11. \A x \in Addr :
         /\ SameButLinks(R.obj[x], L.obj[x])
         /\ x # a => /\ R.obj[x].next = IF x = p THEN n ELSE L.obj[x].next
                    /\ R.obj[x].prev = IF x = n THEN p ELSE L.obj[x].prev
  BY <1>6, <1>8, <1>9
<1>. QED
  BY <1>8, <1>10, <1>11, Zenon DEF Removed, R, n, p, head, tail

LEMMA InsertFields ==
  ASSUME NEW L \in ListRec, NEW a \in Addr, a # L.tail
  PROVE  LET R == insert_cache_obj_to_tail(L, a) IN
         /\ R \in ListRec
         /\ R.head = IF L.head = NULL THEN a ELSE L.head
         /\ R.tail = a
         /\ \A x \in Addr :
              /\ SameButLinks(R.obj[x], L.obj[x])
              /\ R.obj[x].next = IF x = a THEN NULL
                                 ELSE IF x = L.tail THEN a ELSE L.obj[x].next
              /\ R.obj[x].prev = IF x = a THEN L.tail ELSE L.obj[x].prev
<1>. DEFINE R == insert_cache_obj_to_tail(L, a)
            New(x) == CASE x = a -> [L.obj[x] EXCEPT !.next = NULL, !.prev = L.tail]
                        [] x = L.tail -> [L.obj[x] EXCEPT !.next = a]
                        [] OTHER -> L.obj[x]
            head == IF L.head = NULL THEN a ELSE L.head
            heap == [x \in Addr |-> New(x)]
<1>1. R = [obj |-> heap, head |-> head, tail |-> a]
  BY Zenon DEF insert_cache_obj_to_tail
<1>2. /\ \A x \in Addr : L.obj[x] \in Obj
      /\ L.head \in Ptr /\ L.tail \in Ptr /\ NULL \in Ptr /\ a \in Ptr
  BY DEF ListRec, Ptr
<1>3. \A x : /\ x = a => New(x) = WithBoth(L.obj[x], NULL, L.tail)
             /\ x # a /\ x = L.tail => New(x) = WithNext(L.obj[x], a)
             /\ x # a /\ x # L.tail => New(x) = L.obj[x]
  BY DEF WithBoth, WithNext
<1>. HIDE DEF New
<1>4. ASSUME NEW x \in Addr
      PROVE  /\ New(x) \in Obj /\ SameButLinks(New(x), L.obj[x])
             /\ New(x).next = IF x = a THEN NULL
                              ELSE IF x = L.tail THEN a ELSE L.obj[x].next
             /\ New(x).prev = IF x = a THEN L.tail ELSE L.obj[x].prev
  <2>. DEFINE o == L.obj[x]
              q == L.tail
  <2>1. o \in Obj /\ q \in Ptr
    BY <1>2
  <2>. HIDE DEF o, q
  <2>2. CASE x = a
    <3>1. New(x) = WithBoth(o, NULL, q)
      BY <1>3, <2>2 DEF o, q
    <3>2. /\ WithBoth(o, NULL, q) \in Obj /\ SameButLinks(WithBoth(o, NULL, q), o)
          /\ WithBoth(o, NULL, q).next = NULL /\ WithBoth(o, NULL, q).prev = q
      BY <1>2, <2>1, PointerChanged
    <3>. QED
      BY <2>2, <3>1, <3>2 DEF o, q
  <2>3. CASE x # a /\ x = q
    <3>1. New(x) = WithNext(o, a)
      BY <1>3, <2>3 DEF o, q
    <3>2. /\ WithNext(o, a) \in Obj /\ SameButLinks(WithNext(o, a), o)
          /\ WithNext(o, a).next = a /\ WithNext(o, a).prev = o.prev
      BY <1>2, <2>1, PointerChanged
    <3>. QED
      BY <2>3, <3>1, <3>2 DEF o, q
  <2>4. CASE x # a /\ x # q
    <3>1. New(x) = o
      BY <1>3, <2>4 DEF o, q
    <3>2. SameButLinks(o, o)
      BY DEF SameButLinks, SameObject
    <3>. QED
      BY <2>1, <2>4, <3>1, <3>2 DEF o, q
  <2>. QED
    BY <2>2, <2>3, <2>4
<1>5. head \in Ptr
  BY <1>2
<1>. HIDE DEF R, head, heap
<1>6. R.obj = heap /\ R.head = head /\ R.tail = a
  BY <1>1
<1>7. heap \in [Addr -> Obj] /\ \A x \in Addr : heap[x] = New(x)
  BY <1>4 DEF heap
<1>8. R \in ListRec
  BY <1>1, <1>2, <1>5, <1>7 DEF ListRec
<1>9. \A x \in Addr :
        /\ SameButLinks(R.obj[x], L.obj[x])
        /\ R.obj[x].next = IF x = a THEN NULL
                           ELSE IF x = L.tail THEN a ELSE L.obj[x].next
        /\ R.obj[x].prev = IF x = a THEN L.tail ELSE L.obj[x].prev
  BY <1>4, <1>6, <1>7
<1>. QED
  BY <1>6, <1>8, <1>9 DEF R, head

LEMMA LinkedIf ==
  ASSUME NEW L, NEW s,
         L.head = IF s = <<>> THEN NULL ELSE s[1],
         L.tail = IF s = <<>> THEN NULL ELSE s[Len(s)],
         \A i \in 1..Len(s) :
           /\ L.obj[s[i]].next = IF i = Len(s) THEN NULL ELSE s[i + 1]
           /\ L.obj[s[i]].prev = IF i = 1 THEN NULL ELSE s[i - 1],
         \A i, j \in 1..Len(s) : s[i] = s[j] => i = j
  PROVE  Linked(L, s)
BY Zenon DEF Linked

(* Removal takes the i-th object out of the order.                         *)
LEMMA RemoveLinked ==
  ASSUME NEW L \in ListRec, NEW s \in Seq(Addr), Linked(L, s),
         NEW i \in 1..Len(s)
  PROVE  LET R == remove_cache_obj_from_cache(L, s[i]) IN
         /\ R \in ListRec
         /\ Linked(R, LRU!Without(s, i))
         /\ \A a \in Addr : SameButLinks(R.obj[a], L.obj[a])
<1>. DEFINE a == s[i]
            p == L.obj[a].prev
            n == L.obj[a].next
            N == Len(s)
            u == LRU!Without(s, i)
            R == remove_cache_obj_from_cache(L, a)
<1>1. /\ N \in Nat /\ i \in 1..N /\ s # <<>> /\ Len(u) = N - 1
      /\ NULL \notin Addr
      /\ \A j \in 1..N : s[j] \in Addr
      /\ \A j, k \in 1..N : s[j] = s[k] => j = k
      /\ u = <<>> <=> N = 1
  <2>1. N \in Nat /\ i \in 1..N /\ s # <<>> /\ \A j \in 1..N : s[j] \in Addr
    OBVIOUS
  <2>2. u \in Seq(Addr) /\ Len(u) = N - 1
    BY WithoutType
  <2>. HIDE DEF u
  <2>3. u = <<>> <=> N = 1
    BY <2>1, <2>2
  <2>. QED
    BY <2>1, <2>2, <2>3, ProxyCacheAssumption DEF Linked
<1>2. \A j \in 1..(N - 1) : u[j] = s[IF j < i THEN j ELSE j + 1]
  BY WithoutType
<1>3. /\ L.head = s[1] /\ L.tail = s[N]
      /\ \A j \in 1..N : /\ L.obj[s[j]].next = IF j = N THEN NULL ELSE s[j + 1]
                         /\ L.obj[s[j]].prev = IF j = 1 THEN NULL ELSE s[j - 1]
  BY <1>1 DEF Linked
<1>. HIDE DEF u, N, p, n
<1>4. /\ n = IF i = N THEN NULL ELSE s[i + 1]
      /\ p = IF i = 1 THEN NULL ELSE s[i - 1]
  BY <1>1, <1>3 DEF n, p
<1>5. \A j \in 1..N : (s[j] = n <=> j = i + 1) /\ (s[j] = p <=> j = i - 1)
  <2>1. i # N => i + 1 \in 1..N
    BY <1>1
  <2>2. i # 1 => i - 1 \in 1..N
    BY <1>1
  <2>. QED
    BY <1>1, <1>4, <2>1, <2>2
<1>6. (n = NULL <=> i = N) /\ (p = NULL <=> i = 1)
  <2>1. i # N => i + 1 \in 1..N
    BY <1>1
  <2>2. i # 1 => i - 1 \in 1..N
    BY <1>1
  <2>. QED
    BY <1>1, <1>4, <2>1, <2>2
<1>7. a \in Addr /\ n # a /\ p # a /\ (n = p => n = NULL)
  <2>1. n # a /\ p # a
    BY <1>1, <1>5
  <2>2. ASSUME n = p PROVE n = NULL
    <3>1. CASE i = N
      BY <1>6, <3>1
    <3>2. CASE i # N
      <4>1. i + 1 \in 1..N /\ n = s[i + 1] /\ i + 1 # i - 1
        BY <1>1, <1>4, <3>2
      <4>2. s[i + 1] = p <=> i + 1 = i - 1
        BY <1>5, <4>1, Zenon
      <4>. QED
        BY <2>2, <4>1, <4>2
    <3>. QED
      BY <3>1, <3>2
  <2>. QED
    BY <1>1, <2>1, <2>2
<1>8. /\ R \in ListRec
      /\ R.head = IF p = NULL THEN n ELSE L.head
      /\ R.tail = IF n = NULL THEN p ELSE L.tail
      /\ \A x \in Addr :
           /\ SameButLinks(R.obj[x], L.obj[x])
           /\ x # a => /\ R.obj[x].next = IF x = p THEN n ELSE L.obj[x].next
                      /\ R.obj[x].prev = IF x = n THEN p ELSE L.obj[x].prev
  <2>. HIDE DEF a
  <2>1. Removed(R, L, a, n, p)
    BY <1>7, RemoveFields, Zenon DEF n, p
  <2>. HIDE DEF R
  <2>. QED
    BY <2>1, Zenon DEF Removed
<1>. HIDE DEF R
<1>9. Linked(R, u)
  <2>1. R.head = IF u = <<>> THEN NULL ELSE u[1]
    <3>1. CASE N = 1
      BY <1>1, <1>4, <1>8, <3>1
    <3>2. CASE N # 1 /\ i = 1
      BY <1>1, <1>2, <1>4, <1>8, <3>2
    <3>3. CASE N # 1 /\ i # 1
      <4>1. R.head = s[1]
        BY <1>3, <1>6, <1>8, <3>3
      <4>2. u # <<>> /\ 1 \in 1..(N - 1) /\ 1 < i
        BY <1>1, <3>3
      <4>. QED
        BY <1>2, <4>1, <4>2
    <3>. QED
      BY <3>1, <3>2, <3>3
  <2>2. R.tail = IF u = <<>> THEN NULL ELSE u[Len(u)]
    <3>1. CASE N = 1
      BY <1>1, <1>4, <1>8, <3>1
    <3>2. CASE N # 1 /\ i = N
      BY <1>1, <1>2, <1>4, <1>8, <3>2
    <3>3. CASE N # 1 /\ i # N
      <4>1. R.tail = s[N]
        BY <1>3, <1>6, <1>8, <3>3
      <4>2. u # <<>> /\ N - 1 \in 1..(N - 1) /\ ~(N - 1 < i) /\ (N - 1) + 1 = N
        BY <1>1, <3>3
      <4>. QED
        BY <1>1, <1>2, <4>1, <4>2
    <3>. QED
      BY <3>1, <3>2, <3>3
  <2>3. ASSUME NEW j \in 1..(N - 1)
        PROVE  /\ R.obj[u[j]].next = IF j = N - 1 THEN NULL ELSE u[j + 1]
               /\ R.obj[u[j]].prev = IF j = 1 THEN NULL ELSE u[j - 1]
    <3>. DEFINE m == IF j < i THEN j ELSE j + 1
    <3>1. m \in 1..N /\ m # i /\ u[j] = s[m] /\ s[m] \in Addr /\ s[m] # a
      BY <1>1, <1>2
    <3>2. /\ R.obj[s[m]].next = IF m = i - 1 THEN n ELSE L.obj[s[m]].next
          /\ R.obj[s[m]].prev = IF m = i + 1 THEN p ELSE L.obj[s[m]].prev
      <4>. HIDE DEF m
      <4>. QED
        BY <1>5, <1>8, <3>1
    <3>3. /\ L.obj[s[m]].next = IF m = N THEN NULL ELSE s[m + 1]
          /\ L.obj[s[m]].prev = IF m = 1 THEN NULL ELSE s[m - 1]
      <4>. HIDE DEF m
      <4>. QED
        BY <1>3, <3>1
    <3>4. R.obj[s[m]].next = IF j = N - 1 THEN NULL ELSE u[j + 1]
      <4>1. CASE j = N - 1
        BY <1>1, <1>4, <3>1, <3>2, <3>3, <4>1
      <4>2. CASE j # N - 1
        <5>1. u[j + 1] = s[IF j + 1 < i THEN j + 1 ELSE j + 2]
          BY <1>1, <1>2, <4>2
        <5>. QED
          BY <1>1, <1>4, <3>2, <3>3, <4>2, <5>1
      <4>. QED
        BY <4>1, <4>2
    <3>5. R.obj[s[m]].prev = IF j = 1 THEN NULL ELSE u[j - 1]
      <4>1. CASE j = 1
        BY <1>1, <1>4, <3>1, <3>2, <3>3, <4>1
      <4>2. CASE j # 1
        <5>1. u[j - 1] = s[IF j - 1 < i THEN j - 1 ELSE j]
          BY <1>1, <1>2, <4>2
        <5>. QED
          BY <1>1, <1>4, <3>2, <3>3, <4>2, <5>1
      <4>. QED
        BY <4>1, <4>2
    <3>. QED
      BY <3>1, <3>4, <3>5
  <2>4. ASSUME NEW j \in 1..(N - 1), NEW k \in 1..(N - 1), u[j] = u[k]
        PROVE  j = k
    <3>. DEFINE m(x) == IF x < i THEN x ELSE x + 1
    <3>1. u[j] = s[m(j)] /\ u[k] = s[m(k)]
      BY <1>2
    <3>2. m(j) \in 1..N /\ m(k) \in 1..N
      BY <1>1
    <3>3. m(j) = m(k)
      <4>. HIDE DEF m
      <4>. QED
        BY <1>1, <2>4, <3>1, <3>2, Zenon
    <3>. QED
      BY <1>1, <3>3
  <2>5. /\ \A j \in 1..Len(u) :
             /\ R.obj[u[j]].next = IF j = Len(u) THEN NULL ELSE u[j + 1]
             /\ R.obj[u[j]].prev = IF j = 1 THEN NULL ELSE u[j - 1]
        /\ \A j, k \in 1..Len(u) : u[j] = u[k] => j = k
    BY <1>1, <2>3, <2>4
  <2>. QED
    BY <2>1, <2>2, <2>5, LinkedIf, Zenon
<1>. QED
  BY <1>8, <1>9 DEF R, u

(* Insertion appends an object to the order.                               *)
LEMMA InsertLinked ==
  ASSUME NEW L \in ListRec, NEW s \in Seq(Addr), Linked(L, s),
         NEW a \in Addr, a \notin Range(s)
  PROVE  LET R == insert_cache_obj_to_tail(L, a) IN
         /\ R \in ListRec
         /\ Linked(R, Append(s, a))
         /\ \A x \in Addr : SameButLinks(R.obj[x], L.obj[x])
<1>. DEFINE u == Append(s, a)
            N == Len(s)
            R == insert_cache_obj_to_tail(L, a)
<1>1. /\ N \in Nat /\ NULL \notin Addr
      /\ \A j \in 1..N : s[j] \in Addr /\ s[j] # a
      /\ \A j, k \in 1..N : s[j] = s[k] => j = k
  BY ProxyCacheAssumption DEF Range, Linked
<1>2. /\ Len(u) = N + 1 /\ u[N + 1] = a /\ u # <<>>
      /\ \A j \in 1..N : u[j] = s[j]
  OBVIOUS
<1>3. /\ L.head = IF N = 0 THEN NULL ELSE s[1]
      /\ L.tail = IF N = 0 THEN NULL ELSE s[N]
      /\ \A j \in 1..N : /\ L.obj[s[j]].next = IF j = N THEN NULL ELSE s[j + 1]
                         /\ L.obj[s[j]].prev = IF j = 1 THEN NULL ELSE s[j - 1]
  <2>1. s = <<>> <=> N = 0
    OBVIOUS
  <2>. QED
    BY <2>1 DEF Linked
<1>. HIDE DEF u, N
<1>4. a # L.tail /\ \A j \in 1..N : s[j] = L.tail <=> j = N
  BY <1>1, <1>3
<1>5. /\ R \in ListRec
      /\ R.head = IF L.head = NULL THEN a ELSE L.head
      /\ R.tail = a
      /\ \A x \in Addr :
           /\ SameButLinks(R.obj[x], L.obj[x])
           /\ R.obj[x].next = IF x = a THEN NULL
                              ELSE IF x = L.tail THEN a ELSE L.obj[x].next
           /\ R.obj[x].prev = IF x = a THEN L.tail ELSE L.obj[x].prev
  BY <1>4, InsertFields
<1>. HIDE DEF R
<1>6. R.head = u[1] /\ R.tail = u[N + 1]
  BY <1>1, <1>2, <1>3, <1>5
<1>7. ASSUME NEW j \in 1..(N + 1)
      PROVE  /\ R.obj[u[j]].next = IF j = N + 1 THEN NULL ELSE u[j + 1]
             /\ R.obj[u[j]].prev = IF j = 1 THEN NULL ELSE u[j - 1]
  <2>1. CASE j = N + 1
    <3>1. u[j] = a /\ (j # 1 => N \in 1..N /\ u[N] = s[N] /\ j - 1 = N)
      BY <1>1, <1>2, <2>1
    <3>. QED
      BY <1>1, <1>3, <1>5, <2>1, <3>1
  <2>2. CASE j # N + 1
    <3>1. j \in 1..N /\ u[j] = s[j] /\ s[j] # a /\ s[j] \in Addr
      BY <1>1, <1>2, <2>2
    <3>2. /\ R.obj[s[j]].next = IF j = N THEN a ELSE L.obj[s[j]].next
          /\ R.obj[s[j]].prev = L.obj[s[j]].prev
      BY <1>4, <1>5, <3>1
    <3>3. u[j + 1] = (IF j = N THEN a ELSE s[j + 1]) /\ (j # 1 => u[j - 1] = s[j - 1])
      BY <1>1, <1>2, <3>1
    <3>. QED
      BY <1>3, <2>2, <3>1, <3>2, <3>3
  <2>. QED
    BY <2>1, <2>2
<1>8. \A j, k \in 1..(N + 1) : u[j] = u[k] => j = k
  BY <1>1, <1>2
<1>9. Linked(R, u)
  BY <1>1, <1>2, <1>6, <1>7, <1>8 DEF Linked
<1>. QED
  BY <1>5, <1>9 DEF R, u

-----------------------------------------------------------------------------
(* The chunks of the objects of a list.                                    *)

ChunksIn(L) ==
  {c \in LiveIn(L) \X (1..MAX_OBJECT_SIZE) : c[2] <= L.obj[c[1]].size}

(* No object has more than MAX_OBJECT_SIZE of them.                        *)
LEMMA ChunksBounded ==
  ASSUME NEW L, IsFiniteSet(LiveIn(L))
  PROVE  /\ IsFiniteSet(ChunksIn(L))
         /\ Cardinality(ChunksIn(L)) \in Nat
         /\ Cardinality(LiveIn(L)) \in Nat
         /\ Cardinality(ChunksIn(L)) <= Cardinality(LiveIn(L)) * MAX_OBJECT_SIZE
<1>. DEFINE P == LiveIn(L) \X (1..MAX_OBJECT_SIZE)
<1>1. MAX_OBJECT_SIZE \in Nat
  BY ProxyCacheAssumption
<1>2. /\ IsFiniteSet(1..MAX_OBJECT_SIZE)
      /\ Cardinality(1..MAX_OBJECT_SIZE) = MAX_OBJECT_SIZE
  BY <1>1, FS_Interval
<1>3. /\ IsFiniteSet(P)
      /\ Cardinality(P) = Cardinality(LiveIn(L)) * MAX_OBJECT_SIZE
  BY <1>2, FS_Product
<1>4. ChunksIn(L) \in SUBSET P
  BY DEF ChunksIn
<1>5. IsFiniteSet(ChunksIn(L)) /\ Cardinality(ChunksIn(L)) <= Cardinality(P)
  BY <1>3, <1>4, FS_Subset
<1>. QED
  BY <1>3, <1>5, FS_CardinalityType

(* An object more, and nothing else: R has its chunks more than L.         *)
LEMMA OneObjectMore ==
  ASSUME NEW L, NEW R, NEW a, IsFiniteSet(LiveIn(L)),
         a \notin LiveIn(L), LiveIn(R) = LiveIn(L) \cup {a},
         R.obj[a].size \in 1..MAX_OBJECT_SIZE,
         \A x \in LiveIn(L) : R.obj[x].size = L.obj[x].size
  PROVE  Cardinality(ChunksIn(R)) = Cardinality(ChunksIn(L)) + R.obj[a].size
<1>. DEFINE n == R.obj[a].size
            A == {a} \X (1..n)
<1>1. n \in Nat /\ n <= MAX_OBJECT_SIZE /\ MAX_OBJECT_SIZE \in Nat
  BY ProxyCacheAssumption
<1>2. IsFiniteSet(A) /\ Cardinality(A) = n
  <2>1. IsFiniteSet({a}) /\ Cardinality({a}) = 1
    BY FS_Singleton
  <2>2. IsFiniteSet(1..n) /\ Cardinality(1..n) = n
    <3>. HIDE DEF n
    <3>. QED
      BY <1>1, FS_Interval
  <2>3. IsFiniteSet(A) /\ Cardinality(A) = 1 * n
    <3>. DEFINE B == {a}
                C == 1..n
    <3>. HIDE DEF B, C, n
    <3>1. IsFiniteSet(B) /\ Cardinality(B) = 1
      BY <2>1 DEF B
    <3>2. IsFiniteSet(C) /\ Cardinality(C) = n
      BY <2>2 DEF C
    <3>3. IsFiniteSet(B \X C) /\ Cardinality(B \X C) = Cardinality(B) * Cardinality(C)
      BY <3>1, <3>2, FS_Product
    <3>. QED
      BY <3>1, <3>2, <3>3 DEF B, C
  <2>. QED
    BY <1>1, <2>3
<1>3. ChunksIn(R) = ChunksIn(L) \cup A
  <2>1. \A x, i : <<x, i>> \in ChunksIn(R) <=> <<x, i>> \in ChunksIn(L) \cup A
    BY <1>1 DEF ChunksIn
  <2>2. \A c \in ChunksIn(R) : c = <<c[1], c[2]>>
    BY DEF ChunksIn
  <2>3. \A c \in ChunksIn(L) \cup A : c = <<c[1], c[2]>>
    BY DEF ChunksIn
  <2>. QED
    BY <2>1, <2>2, <2>3
<1>4. ChunksIn(L) \cap A = {}
  BY DEF ChunksIn
<1>5. IsFiniteSet(ChunksIn(L)) /\ Cardinality(ChunksIn(L)) \in Nat
  BY ChunksBounded
<1>6. Cardinality(ChunksIn(R)) = Cardinality(ChunksIn(L)) + Cardinality(A) - 0
  <2>1. Cardinality(ChunksIn(L) \cap A) = 0
    BY <1>4, FS_EmptySet
  <2>. QED
    BY <1>2, <1>3, <1>5, <2>1, FS_Union
<1>. QED
  BY <1>1, <1>2, <1>5, <1>6

-----------------------------------------------------------------------------
(* What the actions do to the list.                                        *)

LEMMA OrderFacts ==
  ASSUME TypeOK, OrderInv
  PROVE  /\ list \in ListRec
         /\ Order \in Seq(Addr)
         /\ Len(Order) \in Nat
         /\ \A i \in 1..Len(Order) : Order[i] \in live /\ Order[i] \in Addr
         /\ \A a \in live : a \in Addr /\ \E i \in 1..Len(Order) : a = Order[i]
         /\ live = LiveIn(list)
         /\ IsFiniteSet(live)
         /\ Cardinality(live) = Len(Order)
<1>1. list \in ListRec /\ live = LiveIn(list)
  BY DEF TypeOK, ListRec, live, LiveIn
<1>2. IsFiniteSet(live) /\ Cardinality(live) = Len(Order)
  BY ListedSet DEF OrderInv, Linked
<1>3. \A i \in 1..Len(Order) : Order[i] \in Range(Order)
  BY DEF OrderInv, Range
<1>4. \A a \in live : \E i \in 1..Len(Order) : a = Order[i]
  BY DEF OrderInv, Range
<1>. QED
  BY <1>1, <1>2, <1>3, <1>4 DEF OrderInv, live

(* A list with the same links has the same order.                          *)
LEMMA SameLinks ==
  ASSUME NEW L \in ListRec, NEW R, NEW s \in Seq(Addr), Linked(L, s),
         R.head = L.head, R.tail = L.tail,
         \A i \in 1..Len(s) : /\ R.obj[s[i]].next = L.obj[s[i]].next
                              /\ R.obj[s[i]].prev = L.obj[s[i]].prev
  PROVE  Linked(R, s)
BY DEF Linked

(* An object is moved to the tail: the rest keeps its order.               *)
LEMMA MovedToTail ==
  ASSUME NEW L \in ListRec, NEW s \in Seq(Addr), Linked(L, s),
         NEW i \in 1..Len(s)
  PROVE  LET R == IF L.tail = s[i] THEN L
                  ELSE insert_cache_obj_to_tail(
                         remove_cache_obj_from_cache(L, s[i]), s[i])
             u == Append(LRU!Without(s, i), s[i])
         IN  /\ R \in ListRec
             /\ u \in Seq(Addr)
             /\ Linked(R, u)
             /\ Range(u) = Range(s)
             /\ \A a \in Addr :
                  /\ SameObject(R.obj[a], L.obj[a])
                  /\ R.obj[a].reference_cnt = L.obj[a].reference_cnt
<1>. DEFINE w == LRU!Without(s, i)
            u == Append(w, s[i])
<1>1. /\ w \in Seq(Addr)
      /\ Len(w) = Len(s) - 1
      /\ \A j \in 1..(Len(s) - 1) : w[j] = s[IF j < i THEN j ELSE j + 1]
      /\ Len(s) \in Nat /\ s[i] \in Addr
  BY WithoutType
<1>. HIDE DEF w
<1>2. /\ u \in Seq(Addr) /\ Len(u) = Len(s) /\ u[Len(s)] = s[i]
      /\ \A j \in 1..(Len(s) - 1) : u[j] = s[IF j < i THEN j ELSE j + 1]
  BY <1>1
<1>. HIDE DEF u
<1>3. \A j, k \in 1..Len(s) : s[j] = s[k] => j = k
  BY DEF Linked
<1>4. s[i] \notin Range(w)
  BY <1>1, <1>3 DEF Range
<1>5. Range(u) = Range(s)
  <2>1. \A j \in 1..Len(u) : \E k \in 1..Len(s) : u[j] = s[k]
    <3>. TAKE j \in 1..Len(u)
    <3>. DEFINE k == IF j = Len(s) THEN i ELSE IF j < i THEN j ELSE j + 1
    <3>1. k \in 1..Len(s)
      BY <1>1, <1>2
    <3>2. u[j] = s[k]
      BY <1>1, <1>2
    <3>. QED
      BY <3>1, <3>2
  <2>2. \A k \in 1..Len(s) : \E j \in 1..Len(u) : u[j] = s[k]
    <3>. TAKE k \in 1..Len(s)
    <3>1. CASE k < i
      BY <1>1, <1>2, <3>1
    <3>2. CASE k = i
      BY <1>1, <1>2, <3>2
    <3>3. CASE k > i
      <4>1. k - 1 \in 1..(Len(s) - 1) /\ ~(k - 1 < i) /\ (k - 1) + 1 = k
        BY <1>1, <3>3
      <4>2. u[k - 1] = s[IF k - 1 < i THEN k - 1 ELSE (k - 1) + 1]
        BY <1>2, <4>1
      <4>3. k - 1 \in 1..Len(u)
        BY <1>1, <1>2, <4>1
      <4>. QED
        BY <4>1, <4>2, <4>3
    <3>. QED
      BY <1>1, <3>1, <3>2, <3>3
  <2>3. Range(u) = {u[j] : j \in 1..Len(u)} /\ Range(s) = {s[k] : k \in 1..Len(s)}
    <3>1. DOMAIN u = 1..Len(u) /\ DOMAIN s = 1..Len(s)
      BY <1>2
    <3>. QED
      BY <3>1, Zenon DEF Range
  <2>4. Range(u) \subseteq Range(s)
    BY <2>1, <2>3, Zenon
  <2>5. Range(s) \subseteq Range(u)
    BY <2>2, <2>3, Zenon
  <2>. QED
    BY <2>4, <2>5, Zenon
<1>6. CASE L.tail = s[i]
  <2>1. i = Len(s)
    BY <1>1, <1>3, <1>6 DEF Linked
  <2>2. \A j \in 1..Len(s) : u[j] = s[j]
    BY <1>1, <1>2, <2>1
  <2>3. u = s
    BY <1>1, <1>2, <2>2, SeqEqual
  <2>. QED
    BY <1>2, <1>6, <2>3 DEF SameObject, u, w
<1>7. CASE L.tail # s[i]
  <2>. DEFINE M == remove_cache_obj_from_cache(L, s[i])
  <2>1. /\ M \in ListRec
        /\ Linked(M, w)
        /\ \A a \in Addr : SameButLinks(M.obj[a], L.obj[a])
    BY RemoveLinked, Zenon DEF w
  <2>. HIDE DEF M
  <2>. DEFINE R == insert_cache_obj_to_tail(M, s[i])
  <2>2. /\ R \in ListRec
        /\ Linked(R, u)
        /\ \A a \in Addr : SameButLinks(R.obj[a], M.obj[a])
    BY <1>1, <1>4, <2>1, InsertLinked, Zenon DEF u
  <2>3. R = IF L.tail = s[i] THEN L
            ELSE insert_cache_obj_to_tail(remove_cache_obj_from_cache(L, s[i]), s[i])
    BY <1>7, Zenon DEF M
  <2>. HIDE DEF R
  <2>4. \A a \in Addr : /\ SameObject(R.obj[a], L.obj[a])
                         /\ R.obj[a].reference_cnt = L.obj[a].reference_cnt
    BY <2>1, <2>2 DEF SameButLinks, SameObject
  <2>. QED
    BY <1>2, <1>5, <2>2, <2>3, <2>4, Zenon DEF u, w
<1>. QED
  BY <1>6, <1>7

(* What holds of the list after a step: u is its order, the size is right. *)
After(u) == /\ list' \in ListRec
            /\ u \in Seq(Addr)
            /\ Linked(list', u)
            /\ LiveIn(list') = Range(u)

LEMMA AfterOrder ==
  ASSUME NEW u, After(u)
  PROVE  OrderInv' /\ Order' = u /\ live' = Range(u)
<1>1. OrderOf(list') = u
  BY OrderIs DEF After
<1>2. Order' = u
  BY <1>1 DEF Order
<1>3. live' = LiveIn(list')
  BY DEF live, LiveIn
<1>. QED
  BY <1>2, <1>3 DEF After, OrderInv

Referenced(a, n) ==
  \A x \in Addr :
    /\ SameObject(list'.obj[x], list.obj[x])
    /\ list'.obj[x].reference_cnt =
         IF x = a THEN n ELSE list.obj[x].reference_cnt

(* A reference count changes, and nothing else.                            *)
WithCount(L, a, n) == [L EXCEPT !.obj[a].reference_cnt = n]

SameButCount(R, L, a, n) ==
  /\ R \in ListRec
  /\ R.head = L.head /\ R.tail = L.tail
  /\ \A x \in Addr :
       /\ SameObject(R.obj[x], L.obj[x])
       /\ R.obj[x].next = L.obj[x].next
       /\ R.obj[x].prev = L.obj[x].prev
       /\ R.obj[x].reference_cnt =
            IF x = a THEN n ELSE L.obj[x].reference_cnt

LEMMA CountChanged ==
  ASSUME NEW L \in ListRec, NEW a \in Addr, NEW n \in Nat
  PROVE  SameButCount(WithCount(L, a, n), L, a, n)
<1>. DEFINE R == WithCount(L, a, n)
            o == [L.obj[a] EXCEPT !.reference_cnt = n]
<1>1. L.obj \in [Addr -> Obj] /\ L.head \in Ptr /\ L.tail \in Ptr
  BY DEF ListRec
<1>2. /\ R.head = L.head /\ R.tail = L.tail
      /\ R.obj = [L.obj EXCEPT ![a] = o]
      /\ R = [obj |-> R.obj, head |-> R.head, tail |-> R.tail]
  BY DEF ListRec, WithCount
<1>3. /\ o \in Obj /\ SameObject(o, L.obj[a])
      /\ o.next = L.obj[a].next /\ o.prev = L.obj[a].prev
      /\ o.reference_cnt = n
  BY <1>1 DEF Obj, SameObject
<1>. HIDE DEF o, R
<1>4. R.obj \in [Addr -> Obj]
  BY <1>1, <1>2, <1>3
<1>5. \A x \in Addr : R.obj[x] = IF x = a THEN o ELSE L.obj[x]
  BY <1>1, <1>2
<1>. QED
  BY <1>1, <1>2, <1>3, <1>4, <1>5 DEF ListRec, SameButCount, SameObject, R

(* A hit counts a reference and moves the object to the tail.              *)
LEMMA HitList ==
  ASSUME TypeOK, OrderInv, NEW t \in Thread, SearchHit(t),
         NEW i \in 1..Len(Order), curr[t] = Order[i]
  PROVE  /\ After(Append(LRU!Without(Order, i), Order[i]))
         /\ live' = live
         /\ Referenced(curr[t], list.obj[curr[t]].reference_cnt + 1)
<1>. DEFINE a == curr[t]
            L == [list EXCEPT !.obj[a].reference_cnt = @ + 1]
            u == Append(LRU!Without(Order, i), Order[i])
<1>1. /\ list \in ListRec /\ Order \in Seq(Addr) /\ Linked(list, Order)
      /\ a \in Addr /\ a = Order[i] /\ Len(Order) \in Nat
      /\ \A j \in 1..Len(Order) : Order[j] \in Addr
      /\ live = Range(Order)
  BY OrderFacts DEF OrderInv
<1>2. /\ L \in ListRec
      /\ L.head = list.head /\ L.tail = list.tail
      /\ \A x \in Addr : /\ SameObject(L.obj[x], list.obj[x])
                          /\ L.obj[x].next = list.obj[x].next
                          /\ L.obj[x].prev = list.obj[x].prev
                          /\ L.obj[x].reference_cnt =
                               IF x = a THEN list.obj[x].reference_cnt + 1
                               ELSE list.obj[x].reference_cnt
  <2>. DEFINE n == list.obj[a].reference_cnt + 1
  <2>1. n \in Nat
    <3>1. list.obj[a] \in Obj
      BY <1>1 DEF ListRec
    <3>. QED
      BY <3>1 DEF Obj
  <2>2. L = WithCount(list, a, n)
    BY DEF WithCount
  <2>3. list \in ListRec /\ a \in Addr
    BY <1>1
  <2>. HIDE DEF L, n, a
  <2>. DEFINE W == WithCount(list, a, n)
  <2>4. SameButCount(W, list, a, n)
    BY <2>1, <2>3, CountChanged, Zenon
  <2>. HIDE DEF W
  <2>5. L = W
    BY <2>2 DEF W
  <2>. QED
    BY <2>4, <2>5 DEF SameButCount, n
<1>3. list' = IF list.tail = a THEN L
              ELSE insert_cache_obj_to_tail(remove_cache_obj_from_cache(L, a), a)
  BY Zenon DEF SearchHit
<1>. HIDE DEF a, L, u
<1>4. Linked(L, Order)
  BY <1>1, <1>2, SameLinks
<1>5. list' = IF L.tail = Order[i] THEN L
              ELSE insert_cache_obj_to_tail(
                     remove_cache_obj_from_cache(L, Order[i]), Order[i])
  BY <1>1, <1>2, <1>3
<1>6. /\ list' \in ListRec /\ u \in Seq(Addr) /\ Linked(list', u)
      /\ Range(u) = Range(Order)
      /\ \A x \in Addr :
           /\ SameObject(list'.obj[x], L.obj[x])
           /\ list'.obj[x].reference_cnt = L.obj[x].reference_cnt
  <2>. HIDE DEF Order
  <2>. QED
    BY <1>1, <1>2, <1>4, <1>5, MovedToTail DEF u
<1>7. LiveIn(list') = live
  BY <1>2, <1>6 DEF LiveIn, live, SameObject
<1>8. After(u) /\ live' = live
  BY <1>1, <1>6, <1>7 DEF After, LiveIn, live
<1>. QED
  BY <1>1, <1>2, <1>6, <1>8 DEF Referenced, SameObject, a, u

(* A release takes the reference back.                                     *)
LEMMA ReleaseList ==
  ASSUME TypeOK, OrderInv, NEW t \in Thread, Release(t), curr[t] \in live,
         list.obj[curr[t]].reference_cnt > 0
  PROVE  /\ After(Order)
         /\ live' = live
         /\ Referenced(curr[t], list.obj[curr[t]].reference_cnt - 1)
<1>. DEFINE a == curr[t]
            n == list.obj[a].reference_cnt - 1
            L == WithCount(list, a, n)
<1>1. /\ list \in ListRec /\ Order \in Seq(Addr) /\ Linked(list, Order)
      /\ a \in Addr /\ Len(Order) \in Nat
      /\ \A j \in 1..Len(Order) : Order[j] \in Addr
      /\ live = Range(Order)
  BY OrderFacts DEF OrderInv
<1>2. n \in Nat
  BY <1>1 DEF ListRec, Obj
<1>3. list' = L
  BY DEF Release, WithCount
<1>. HIDE DEF n
<1>4. /\ L \in ListRec
      /\ L.head = list.head /\ L.tail = list.tail
      /\ \A x \in Addr : /\ SameObject(L.obj[x], list.obj[x])
                          /\ L.obj[x].next = list.obj[x].next
                          /\ L.obj[x].prev = list.obj[x].prev
                          /\ L.obj[x].reference_cnt =
                               IF x = a THEN n ELSE list.obj[x].reference_cnt
  <2>1. list \in ListRec /\ a \in Addr
    BY <1>1
  <2>. HIDE DEF a
  <2>2. SameButCount(L, list, a, n)
    BY <1>2, <2>1, CountChanged, Zenon
  <2>. HIDE DEF L
  <2>. QED
    BY <2>2 DEF SameButCount
<1>. HIDE DEF a, L
<1>5. Linked(L, Order)
  BY <1>1, <1>4, SameLinks
<1>6. LiveIn(L) = live
  BY <1>4 DEF LiveIn, live, SameObject
<1>7. After(Order) /\ live' = live
  BY <1>1, <1>3, <1>4, <1>5, <1>6 DEF After, LiveIn, live
<1>. QED
  BY <1>3, <1>4, <1>7 DEF Referenced, SameObject, a, n

LEMMA ObjectReplaced ==
  ASSUME NEW L \in ListRec, NEW a \in Addr, NEW o \in Obj
  PROVE  LET R == WithObj(L, a, o) IN
         /\ R \in ListRec
         /\ R.head = L.head /\ R.tail = L.tail
         /\ \A x \in Addr : R.obj[x] = IF x = a THEN o ELSE L.obj[x]
<1>1. L.obj \in [Addr -> Obj] /\ L.head \in Ptr /\ L.tail \in Ptr
  BY DEF ListRec
<1>2. /\ WithObj(L, a, o).head = L.head /\ WithObj(L, a, o).tail = L.tail
      /\ WithObj(L, a, o).obj = [L.obj EXCEPT ![a] = o]
      /\ WithObj(L, a, o) \in ListRec
  BY <1>1 DEF WithObj, ListRec
<1>. QED
  BY <1>1, <1>2

(* An eviction takes one object out and leaves the rest as it is.          *)
LEMMA EvictList ==
  ASSUME TypeOK, OrderInv, NEW t \in Thread, EvictOne(t),
         NEW i \in 1..Len(Order), curr[t] = Order[i]
  PROVE  /\ After(LRU!Without(Order, i))
         /\ live' = live \ {curr[t]}
         /\ \A x \in live' :
              /\ SameObject(list'.obj[x], list.obj[x])
              /\ list'.obj[x].reference_cnt = list.obj[x].reference_cnt
<1>. DEFINE a == curr[t]
            L == remove_cache_obj_from_cache(list, Order[i])
            u == LRU!Without(Order, i)
<1>1. /\ list \in ListRec /\ Order \in Seq(Addr) /\ Linked(list, Order)
      /\ a \in Addr /\ a = Order[i] /\ Len(Order) \in Nat
      /\ \A j \in 1..Len(Order) : Order[j] \in Addr
      /\ \A j, k \in 1..Len(Order) : Order[j] = Order[k] => j = k
      /\ live = Range(Order)
  BY OrderFacts DEF OrderInv, Linked
<1>2. /\ L \in ListRec /\ Linked(L, u)
      /\ \A x \in Addr : SameButLinks(L.obj[x], list.obj[x])
  <2>. HIDE DEF Order
  <2>. QED
    BY <1>1, RemoveLinked, Zenon
<1>3. /\ u \in Seq(Addr) /\ Len(u) = Len(Order) - 1
      /\ \A j \in 1..(Len(Order) - 1) :
           u[j] = Order[IF j < i THEN j ELSE j + 1]
  BY <1>1, WithoutType
<1>4. list' = WithObj(L, a, Freed)
  BY <1>1 DEF EvictOne
<1>5. Freed \in Obj /\ Freed.key = NoKey
  BY DEF Freed, Obj, Ptr
<1>. HIDE DEF a, L, u
<1>6. /\ list' \in ListRec
      /\ list'.head = L.head /\ list'.tail = L.tail
      /\ \A x \in Addr : list'.obj[x] = IF x = a THEN Freed ELSE L.obj[x]
  BY <1>1, <1>2, <1>4, <1>5, ObjectReplaced
<1>7. \A j \in 1..Len(u) : u[j] # a /\ u[j] \in Addr
  BY <1>1, <1>3
<1>8. Linked(list', u)
  BY <1>2, <1>3, <1>6, <1>7, SameLinks
<1>9. LiveIn(list') = live \ {a}
  BY <1>2, <1>5, <1>6 DEF LiveIn, live, SameButLinks, SameObject
<1>10. Range(u) = live \ {a}
  <2>1. \A j \in 1..Len(u) : u[j] \in live /\ u[j] # a
    <3>1. \A j \in 1..Len(u) : \E k \in 1..Len(Order) : u[j] = Order[k]
      BY <1>1, <1>3
    <3>2. DOMAIN Order = 1..Len(Order)
      BY <1>1
    <3>. QED
      BY <1>1, <1>7, <3>1, <3>2 DEF Range
  <2>2. ASSUME NEW x \in live, x # a
        PROVE  \E j \in 1..Len(u) : u[j] = x
    <3>1. PICK k \in 1..Len(Order) : x = Order[k]
      BY <1>1, OrderFacts
    <3>2. k # i
      BY <1>1, <2>2, <3>1
    <3>3. CASE k < i
      BY <1>1, <1>3, <3>1, <3>3
    <3>4. CASE k > i
      <4>1. k - 1 \in 1..(Len(Order) - 1) /\ ~(k - 1 < i) /\ (k - 1) + 1 = k
        BY <1>1, <3>4
      <4>2. u[k - 1] = Order[IF k - 1 < i THEN k - 1 ELSE (k - 1) + 1]
        BY <1>3, <4>1
      <4>. QED
        BY <1>3, <3>1, <4>1, <4>2
    <3>. QED
      BY <1>1, <3>2, <3>3, <3>4
  <2>3. DOMAIN u = 1..Len(u)
    BY <1>3
  <2>. QED
    BY <2>1, <2>2, <2>3 DEF Range
<1>11. After(u) /\ live' = live \ {a}
  BY <1>3, <1>6, <1>8, <1>9, <1>10 DEF After, LiveIn, live
<1>12. \A x \in live' :
         /\ SameObject(list'.obj[x], list.obj[x])
         /\ list'.obj[x].reference_cnt = list.obj[x].reference_cnt
  BY <1>2, <1>6, <1>11 DEF live, SameButLinks, SameObject
<1>. QED
  BY <1>11, <1>12 DEF a, u

(* An insertion appends one object and leaves the rest as it is.           *)
LEMMA AddList ==
  ASSUME TypeOK, OrderInv, NEW t \in Thread, Add(t), key[t] \in Key
  PROVE  \E a \in Addr \ live :
           /\ After(Append(Order, a))
           /\ live' = live \cup {a}
           /\ \A x \in live :
                /\ SameObject(list'.obj[x], list.obj[x])
                /\ list'.obj[x].reference_cnt = list.obj[x].reference_cnt
           /\ list'.obj[a].key = key[t] /\ list'.obj[a].size = buf[t].size
           /\ list'.obj[a].of = sent[t] /\ list'.obj[a].reference_cnt = 0
<1>1. /\ list \in ListRec /\ Order \in Seq(Addr) /\ Linked(list, Order)
      /\ Len(Order) \in Nat
      /\ \A j \in 1..Len(Order) : Order[j] \in Addr
      /\ live = Range(Order)
  BY OrderFacts DEF OrderInv
<1>. DEFINE o == [key |-> key[t], size |-> buf[t].size, of |-> sent[t],
                  reference_cnt |-> 0, prev |-> NULL, next |-> NULL]
<1>2. PICK a \in Addr \ live :
        list' = insert_cache_obj_to_tail(WithObj(list, a, o), a)
  BY DEF Add
<1>3. /\ o \in Obj /\ o.key = key[t] /\ o.size = buf[t].size
      /\ o.of = sent[t] /\ o.reference_cnt = 0
  BY DEF TypeOK, Obj, Ptr
<1>. HIDE DEF o
<1>. DEFINE L == WithObj(list, a, o)
            u == Append(Order, a)
<1>4. /\ L \in ListRec
      /\ L.head = list.head /\ L.tail = list.tail
      /\ \A x \in Addr : L.obj[x] = IF x = a THEN o ELSE list.obj[x]
  BY <1>1, <1>3, ObjectReplaced
<1>. HIDE DEF L
<1>5. \A j \in 1..Len(Order) : Order[j] # a
  BY OrderFacts
<1>6. Linked(L, Order)
  BY <1>1, <1>4, <1>5, SameLinks
<1>7. /\ list' \in ListRec
      /\ Linked(list', u)
      /\ \A x \in Addr : SameButLinks(list'.obj[x], L.obj[x])
  <2>1. list' = insert_cache_obj_to_tail(L, a) /\ a \notin Range(Order)
    BY <1>1, <1>2 DEF L
  <2>. HIDE DEF Order
  <2>. QED
    BY <1>1, <1>4, <1>6, <2>1, InsertLinked, Zenon
<1>8. LiveIn(list') = live \cup {a}
  BY <1>3, <1>4, <1>7, ProxyCacheAssumption
  DEF LiveIn, live, SameButLinks, SameObject
<1>9. u \in Seq(Addr) /\ Range(u) = live \cup {a}
  <2>. HIDE DEF Order
  <2>1. /\ u \in Seq(Addr) /\ Len(u) = Len(Order) + 1 /\ u[Len(u)] = a
        /\ \A j \in 1..Len(Order) : u[j] = Order[j]
        /\ DOMAIN u = 1..Len(u) /\ DOMAIN Order = 1..Len(Order)
    BY <1>1
  <2>2. \A j \in 1..Len(u) : j = Len(u) \/ j \in 1..Len(Order)
    BY <1>1, <2>1
  <2>3. Len(u) \in 1..Len(u) /\ \A j \in 1..Len(Order) : j \in 1..Len(u)
    BY <1>1, <2>1
  <2>. HIDE DEF u
  <2>. QED
    BY <1>1, <2>1, <2>2, <2>3 DEF Range
<1>10. After(u) /\ live' = live \cup {a}
  BY <1>7, <1>8, <1>9 DEF After, LiveIn, live
<1>11. \A x \in live :
         /\ SameObject(list'.obj[x], list.obj[x])
         /\ list'.obj[x].reference_cnt = list.obj[x].reference_cnt
  BY <1>4, <1>7 DEF live, SameButLinks, SameObject
<1>12. /\ list'.obj[a].key = key[t] /\ list'.obj[a].size = buf[t].size
       /\ list'.obj[a].of = sent[t] /\ list'.obj[a].reference_cnt = 0
  BY <1>3, <1>4, <1>7 DEF SameButLinks, SameObject
<1>. QED
  BY <1>10, <1>11, <1>12

-----------------------------------------------------------------------------
(* Steps that leave the list as it is.                                     *)

Frame(t) ==
  \A u \in Thread \ {t} :
    /\ pc'[u] = pc[u] /\ key'[u] = key[u] /\ curr'[u] = curr[u]
    /\ buf'[u] = buf[u] /\ sent'[u] = sent[u]

KeepsHolding(t) ==
  \/ pc[t] \notin {"hit", "release"} /\ pc'[t] \notin {"hit", "release"}
  \/ /\ pc[t] \in {"hit", "release"} /\ pc'[t] \in {"hit", "release"}
     /\ curr'[t] = curr[t]

Quiet(t) == list' = list /\ size' = size /\ Frame(t) /\ KeepsHolding(t)

(* The rest of the cache's invariant.                                      *)
CacheInv ==
  /\ OrderInv /\ SizesInv /\ SizeIsSum /\ KeysUnique /\ RefsCountReaders
  /\ CachedWhole /\ CacheBounded

LEMMA QuietStep ==
  ASSUME CInv, NEW t \in Thread, Quiet(t)
  PROVE  /\ CacheInv'
         /\ Order' = Order /\ live' = live
         /\ \A u \in Thread \ {t} : Point(u)' /\ Walk(u)'
<1>1. Order' = Order /\ live' = live
  BY DEF Quiet, Order, live
<1>2. (OrderInv /\ SizesInv /\ KeysUnique /\ CachedWhole /\ CacheBounded)'
  BY <1>1 DEF CInv, OrderInv, SizesInv, KeysUnique, CachedWhole, CacheBounded, Quiet
<1>3. SizeIsSum'
  <2>1. Chunks' = Chunks
    BY <1>1 DEF Chunks, Quiet
  <2>. QED
    BY <2>1 DEF CInv, SizeIsSum, Quiet
<1>4. RefsCountReaders'
  <2>1. \A a \in Addr : {u \in Thread : Holds(u, a)}' = {u \in Thread : Holds(u, a)}
    BY DEF Holds, Quiet, Frame, KeepsHolding
  <2>. QED
    BY <1>1, <2>1 DEF CInv, RefsCountReaders, Quiet, live
<1>5. ASSUME NEW u \in Thread \ {t}
      PROVE  Point(u)' /\ Walk(u)'
  <2>1. Point(u) /\ Walk(u)
    BY DEF CInv, PointInv, WalkInv
  <2>2. Point(u)'
    BY <1>1, <2>1 DEF Point, Quiet, Frame, Holds, obj, ToBeCached
  <2>3. Walk(u)'
    BY <1>1, <2>1 DEF Walk, At, Passed, Quiet, Frame
  <2>. QED
    BY <2>2, <2>3
<1>. QED
  BY <1>1, <1>2, <1>3, <1>4, <1>5 DEF CacheInv

(* A walk begins at the first object.                                      *)
LEMMA WalkBegins ==
  ASSUME TypeOK, OrderInv, NEW t \in Thread, Order' = Order,
         curr'[t] = list.head
  PROVE  Walk(t)'
<1>1. list.head = IF 1 \in 1..Len(Order) THEN Order[1] ELSE NULL
  BY OrderFacts DEF OrderInv, Linked
<1>2. At(t, 1)'
  BY <1>1 DEF At
<1>. QED
  BY <1>2, OrderFacts DEF Walk

(* It goes from one object to the next.                                    *)
LEMMA WalkAdvances ==
  ASSUME TypeOK, OrderInv, NEW t \in Thread, Walk(t), Order' = Order,
         pc[t] \in {"search", "dup", "walk"}, curr[t] # NULL,
         curr'[t] = obj(t).next, Passed(t, curr[t]),
         list' = list, pc'[t] = pc[t], key'[t] = key[t]
  PROVE  Walk(t)'
<1>1. PICK i \in 1..(Len(Order) + 1) : At(t, i)
  BY DEF Walk
<1>2. Len(Order) \in Nat
  BY OrderFacts
<1>3. i \in 1..Len(Order) /\ curr[t] = Order[i]
  BY <1>1 DEF At
<1>4. curr'[t] = IF i = Len(Order) THEN NULL ELSE Order[i + 1]
  BY <1>3 DEF OrderInv, Linked, obj
<1>5. \A j \in 1..Len(Order) : j < i + 1 => Passed(t, Order[j])
  BY <1>1, <1>2, <1>3 DEF At
<1>6. At(t, i + 1)'
  BY <1>2, <1>3, <1>4, <1>5 DEF At, Passed
<1>. QED
  BY <1>2, <1>3, <1>6 DEF Walk

(* At its end it has passed every object.                                  *)
LEMMA WalkEnds ==
  ASSUME TypeOK, OrderInv, NEW t \in Thread, Walk(t),
         pc[t] \in {"search", "dup", "walk"}, curr[t] = NULL
  PROVE  \A a \in live : Passed(t, a)
<1>1. PICK i \in 1..(Len(Order) + 1) : At(t, i)
  BY DEF Walk
<1>2. /\ Len(Order) \in Nat /\ NULL \notin Addr
      /\ \A j \in 1..Len(Order) : Order[j] \in Addr
  BY OrderFacts, ProxyCacheAssumption
<1>3. i = Len(Order) + 1
  BY <1>1, <1>2 DEF At
<1>. QED
  BY <1>1, <1>2, <1>3, OrderFacts DEF At

(* On its way it stands on a live object.                                  *)
LEMMA WalkStands ==
  ASSUME TypeOK, OrderInv, NEW t \in Thread, Walk(t),
         pc[t] \in {"search", "dup", "walk"}, curr[t] # NULL
  PROVE  curr[t] \in live /\ \E i \in 1..Len(Order) : curr[t] = Order[i] /\ At(t, i)
<1>1. PICK i \in 1..(Len(Order) + 1) : At(t, i)
  BY DEF Walk
<1>. QED
  BY <1>1, OrderFacts DEF At

QuietAction(t) ==
  \/ \E k \in Key : Request(t, k)
  \/ Search(t) \/ SearchNext(t) \/ SearchMiss(t)
  \/ HitWrite(t) \/ HitEnd(t)
  \/ FetchFails(t) \/ Fetch(t)
  \/ StreamChunk(t) \/ StreamBroken(t) \/ StreamEnd(t) \/ NotCached(t)
  \/ Insert(t) \/ InsertNext(t) \/ InsertDuplicate(t) \/ InsertNew(t)
  \/ Evict(t) \/ EvictNext(t) \/ EvictNone(t)

(* Of the thread itself: what it is and knows next.                        *)
LEMMA QuietSelf ==
  ASSUME CInv, NEW t \in Thread, QuietAction(t)
  PROVE  TypeOK' /\ MutexInv' /\ Quiet(t) /\ Point(t)' /\ Walk(t)'
<1>. USE DEF CInv, TypeOK
<1>1. /\ MutexInv /\ OrderInv /\ Point(t) /\ Walk(t)
  BY DEF PointInv, WalkInv
<1>2. /\ NULL \notin Addr /\ NoThread \notin Thread
      /\ MAX_CACHE_SIZE \in Nat /\ MAX_OBJECT_SIZE \in Nat
      /\ MaxResponse \in Nat
  BY ProxyCacheAssumption
<1>3. list' = list => Order' = Order /\ live' = live
  BY DEF Order, live
<1>4. ASSUME NEW k \in Key, Request(t, k)
      PROVE  TypeOK' /\ MutexInv' /\ Quiet(t) /\ Point(t)' /\ Walk(t)'
  <2>1. TypeOK'
    BY <1>4 DEF Request, Goto, cacheVars, PC
  <2>2. MutexInv'
    BY <1>1, <1>4 DEF Request, Goto, cacheVars, MutexInv, Inside
  <2>3. Quiet(t)
    BY <1>4 DEF Request, Goto, cacheVars, Quiet, Frame, KeepsHolding
  <2>4. Point(t)' /\ Walk(t)'
    BY <1>1, <1>4 DEF Request, Goto, cacheVars, Point, Walk, Holds, ToBeCached
  <2>. QED
    BY <2>1, <2>2, <2>3, <2>4
<1>5. CASE Search(t)
  <2>1. TypeOK'
    BY <1>5 DEF Search, Lock, Goto, PC, Inside
  <2>2. MutexInv'
    BY <1>1, <1>2, <1>5 DEF Search, Lock, Goto, MutexInv, Inside
  <2>3. Quiet(t)
    BY <1>5 DEF Search, Lock, Goto, Quiet, Frame, KeepsHolding
  <2>4. Point(t)'
    BY <1>1, <1>5 DEF Search, Lock, Goto, Point, Holds, ToBeCached
  <2>5. Walk(t)'
    BY <1>1, <1>3, <1>5, WalkBegins DEF Search, Lock
  <2>. QED
    BY <2>1, <2>2, <2>3, <2>4, <2>5
<1>6. CASE SearchNext(t)
  <2>1. TypeOK'
    BY <1>6 DEF SearchNext, Advance, cacheVars, PC, Inside, obj, Obj, Ptr
  <2>2. MutexInv'
    BY <1>1, <1>2, <1>6 DEF SearchNext, Advance, cacheVars, MutexInv, Inside
  <2>3. Quiet(t)
    BY <1>6 DEF SearchNext, Advance, cacheVars, Quiet, Frame, KeepsHolding
  <2>4. Point(t)'
    BY <1>1, <1>2, <1>3, <1>6 DEF SearchNext, Advance, cacheVars, Point, Holds, ToBeCached
  <2>5. Walk(t)'
    <3>1. /\ pc[t] = "search" /\ pc'[t] = pc[t] /\ key'[t] = key[t]
          /\ curr[t] # NULL /\ curr'[t] = obj(t).next /\ list' = list
      BY <1>6 DEF SearchNext, Advance, cacheVars
    <3>2. Passed(t, curr[t])
      BY <1>6 DEF SearchNext, Passed, obj
    <3>. QED
      BY <1>1, <1>3, <3>1, <3>2, WalkAdvances
  <2>. QED
    BY <2>1, <2>2, <2>3, <2>4, <2>5
<1>7. CASE SearchMiss(t)
  <2>1. TypeOK'
    BY <1>7 DEF SearchMiss, Goto, PC, Inside
  <2>2. MutexInv'
    BY <1>1, <1>2, <1>7 DEF SearchMiss, Goto, MutexInv, Inside
  <2>3. Quiet(t)
    BY <1>7 DEF SearchMiss, Goto, Quiet, Frame, KeepsHolding
  <2>4. Point(t)'
    BY <1>1, <1>2, <1>3, <1>7 DEF SearchMiss, Goto, Point, Holds, ToBeCached
  <2>5. Walk(t)'
    BY <1>7 DEF SearchMiss, Goto, Walk
  <2>. QED
    BY <2>1, <2>2, <2>3, <2>4, <2>5
<1>8. CASE HitWrite(t)
  <2>1. TypeOK'
    BY <1>8 DEF HitWrite, cacheVars, PC, Inside
  <2>2. MutexInv'
    BY <1>1, <1>2, <1>8 DEF HitWrite, cacheVars, MutexInv, Inside
  <2>3. Quiet(t)
    BY <1>8 DEF HitWrite, cacheVars, Quiet, Frame, KeepsHolding
  <2>4. Point(t)'
    BY <1>1, <1>2, <1>3, <1>8 DEF HitWrite, cacheVars, Point, Holds, ToBeCached, obj
  <2>5. Walk(t)'
    BY <1>8 DEF HitWrite, cacheVars, Walk
  <2>. QED
    BY <2>1, <2>2, <2>3, <2>4, <2>5
<1>9. CASE HitEnd(t)
  <2>1. TypeOK'
    BY <1>9 DEF HitEnd, Goto, cacheVars, PC, Inside
  <2>2. MutexInv'
    BY <1>1, <1>2, <1>9 DEF HitEnd, Goto, cacheVars, MutexInv, Inside
  <2>3. Quiet(t)
    BY <1>9 DEF HitEnd, Goto, cacheVars, Quiet, Frame, KeepsHolding
  <2>4. Point(t)'
    BY <1>1, <1>2, <1>3, <1>9 DEF HitEnd, Goto, cacheVars, Point, Holds, ToBeCached, obj
  <2>5. Walk(t)'
    BY <1>9 DEF HitEnd, Goto, cacheVars, Walk
  <2>. QED
    BY <2>1, <2>2, <2>3, <2>4, <2>5
<1>10. CASE FetchFails(t)
  <2>1. TypeOK'
    <3>1. EmptyBuf \in [size : 0..MAX_OBJECT_SIZE, cachable : BOOLEAN]
      BY <1>2 DEF EmptyBuf
    <3>2. 0 \in 0..MaxResponse /\ "idle" \in PC /\ NULL \in Ptr
      BY <1>2 DEF PC, Inside, Ptr
    <3>. QED
      BY <1>10, <3>1, <3>2 DEF FetchFails, Return, Goto, cacheVars
  <2>2. MutexInv'
    BY <1>1, <1>2, <1>10 DEF FetchFails, Return, Goto, cacheVars, MutexInv, Inside
  <2>3. Quiet(t)
    BY <1>10 DEF FetchFails, Return, Goto, cacheVars, Quiet, Frame, KeepsHolding
  <2>4. Point(t)'
    BY <1>1, <1>2, <1>3, <1>10 DEF FetchFails, Return, Goto, cacheVars, Point, Holds, ToBeCached, EmptyBuf
  <2>5. Walk(t)'
    BY <1>10 DEF FetchFails, Return, Goto, cacheVars, Walk
  <2>. QED
    BY <2>1, <2>2, <2>3, <2>4, <2>5
<1>11. CASE Fetch(t)
  <2>1. TypeOK'
    BY <1>11 DEF Fetch, Goto, cacheVars, PC, Inside
  <2>2. MutexInv'
    BY <1>1, <1>2, <1>11 DEF Fetch, Goto, cacheVars, MutexInv, Inside
  <2>3. Quiet(t)
    BY <1>11 DEF Fetch, Goto, cacheVars, Quiet, Frame, KeepsHolding
  <2>4. Point(t)'
    BY <1>1, <1>2, <1>3, <1>11 DEF Fetch, Goto, cacheVars, Point, Holds, ToBeCached
  <2>5. Walk(t)'
    BY <1>11 DEF Fetch, Goto, cacheVars, Walk
  <2>. QED
    BY <2>1, <2>2, <2>3, <2>4, <2>5
<1>12. CASE StreamChunk(t)
  <2>1. TypeOK'
    <3>1. CASE buf[t].size + 1 <= MAX_OBJECT_SIZE
      BY <1>2, <1>12, <3>1 DEF StreamChunk, cacheVars
    <3>2. CASE ~(buf[t].size + 1 <= MAX_OBJECT_SIZE)
      <4>1. sent[t] + 1 \in 0..MaxResponse
        BY <1>2, <1>12 DEF StreamChunk
      <4>. DEFINE b == [buf[t] EXCEPT !.cachable = FALSE]
      <4>2. b \in [size : 0..MAX_OBJECT_SIZE, cachable : BOOLEAN]
        OBVIOUS
      <4>3. buf' = [buf EXCEPT ![t] = b] /\ sent' = [sent EXCEPT ![t] = sent[t] + 1]
        BY <1>12, <3>2 DEF StreamChunk
      <4>4. /\ UNCHANGED <<list, size, mutex, pc, key, curr, written>>
            /\ sent \in [Thread -> 0..MaxResponse]
            /\ buf \in [Thread -> [size : 0..MAX_OBJECT_SIZE, cachable : BOOLEAN]]
        BY <1>12 DEF StreamChunk, cacheVars
      <4>. HIDE DEF b
      <4>5. sent' \in [Thread -> 0..MaxResponse]
        BY <4>1, <4>3, <4>4
      <4>6. buf' \in [Thread -> [size : 0..MAX_OBJECT_SIZE, cachable : BOOLEAN]]
        BY <4>2, <4>3, <4>4
      <4>. QED
        BY <4>4, <4>5, <4>6
    <3>. QED
      BY <3>1, <3>2
  <2>2. MutexInv'
    BY <1>1, <1>2, <1>12 DEF StreamChunk, cacheVars, MutexInv, Inside
  <2>3. Quiet(t)
    BY <1>12 DEF StreamChunk, cacheVars, Quiet, Frame, KeepsHolding
  <2>4. Point(t)'
    BY <1>1, <1>2, <1>3, <1>12 DEF StreamChunk, cacheVars, Point, Holds, ToBeCached
  <2>5. Walk(t)'
    BY <1>12 DEF StreamChunk, cacheVars, Walk
  <2>. QED
    BY <2>1, <2>2, <2>3, <2>4, <2>5
<1>13. CASE StreamBroken(t)
  <2>1. TypeOK'
    BY <1>13 DEF StreamBroken, Goto, cacheVars, PC, Inside
  <2>2. MutexInv'
    BY <1>1, <1>2, <1>13 DEF StreamBroken, Goto, cacheVars, MutexInv, Inside
  <2>3. Quiet(t)
    BY <1>13 DEF StreamBroken, Goto, cacheVars, Quiet, Frame, KeepsHolding
  <2>4. Point(t)'
    BY <1>1, <1>2, <1>3, <1>13 DEF StreamBroken, Goto, cacheVars, Point, Holds, ToBeCached
  <2>5. Walk(t)'
    BY <1>13 DEF StreamBroken, Goto, cacheVars, Walk
  <2>. QED
    BY <2>1, <2>2, <2>3, <2>4, <2>5
<1>14. CASE StreamEnd(t)
  <2>1. TypeOK'
    BY <1>14 DEF StreamEnd, Goto, cacheVars, PC, Inside
  <2>2. MutexInv'
    BY <1>1, <1>2, <1>14 DEF StreamEnd, Goto, cacheVars, MutexInv, Inside
  <2>3. Quiet(t)
    BY <1>14 DEF StreamEnd, Goto, cacheVars, Quiet, Frame, KeepsHolding
  <2>4. Point(t)'
    BY <1>1, <1>2, <1>3, <1>14 DEF StreamEnd, Goto, cacheVars, Point, Holds, ToBeCached
  <2>5. Walk(t)'
    BY <1>14 DEF StreamEnd, Goto, cacheVars, Walk
  <2>. QED
    BY <2>1, <2>2, <2>3, <2>4, <2>5
<1>15. CASE NotCached(t)
  <2>1. TypeOK'
    <3>1. EmptyBuf \in [size : 0..MAX_OBJECT_SIZE, cachable : BOOLEAN]
      BY <1>2 DEF EmptyBuf
    <3>2. 0 \in 0..MaxResponse /\ "idle" \in PC /\ NULL \in Ptr
      BY <1>2 DEF PC, Inside, Ptr
    <3>. QED
      BY <1>15, <3>1, <3>2 DEF NotCached, Return, Goto, cacheVars
  <2>2. MutexInv'
    BY <1>1, <1>2, <1>15 DEF NotCached, Return, Goto, cacheVars, MutexInv, Inside
  <2>3. Quiet(t)
    BY <1>15 DEF NotCached, Return, Goto, cacheVars, Quiet, Frame, KeepsHolding
  <2>4. Point(t)'
    BY <1>1, <1>2, <1>3, <1>15 DEF NotCached, Return, Goto, cacheVars, Point, Holds, ToBeCached, EmptyBuf
  <2>5. Walk(t)'
    BY <1>15 DEF NotCached, Return, Goto, cacheVars, Walk
  <2>. QED
    BY <2>1, <2>2, <2>3, <2>4, <2>5
<1>16. CASE Insert(t)
  <2>1. TypeOK'
    BY <1>16 DEF Insert, Lock, Goto, PC, Inside
  <2>2. MutexInv'
    BY <1>1, <1>2, <1>16 DEF Insert, Lock, Goto, MutexInv, Inside
  <2>3. Quiet(t)
    BY <1>16 DEF Insert, Lock, Goto, Quiet, Frame, KeepsHolding
  <2>4. Point(t)'
    BY <1>1, <1>2, <1>3, <1>16 DEF Insert, Lock, Goto, Point, Holds, ToBeCached
  <2>5. Walk(t)'
    BY <1>1, <1>3, <1>16, WalkBegins DEF Insert, Lock, Goto
  <2>. QED
    BY <2>1, <2>2, <2>3, <2>4, <2>5
<1>17. CASE InsertNext(t)
  <2>1. TypeOK'
    BY <1>17 DEF InsertNext, Advance, cacheVars, PC, Inside, obj, Obj, Ptr
  <2>2. MutexInv'
    BY <1>1, <1>2, <1>17 DEF InsertNext, Advance, cacheVars, MutexInv, Inside
  <2>3. Quiet(t)
    BY <1>17 DEF InsertNext, Advance, cacheVars, Quiet, Frame, KeepsHolding
  <2>4. Point(t)'
    BY <1>1, <1>2, <1>3, <1>17 DEF InsertNext, Advance, cacheVars, Point, Holds, ToBeCached
  <2>5. Walk(t)'
    <3>1. /\ pc[t] = "dup" /\ pc'[t] = pc[t] /\ key'[t] = key[t]
          /\ curr[t] # NULL /\ curr'[t] = obj(t).next /\ list' = list
      BY <1>17 DEF InsertNext, Advance, cacheVars
    <3>2. Passed(t, curr[t])
      BY <1>17 DEF InsertNext, Passed, obj
    <3>. QED
      BY <1>1, <1>3, <3>1, <3>2, WalkAdvances
  <2>. QED
    BY <2>1, <2>2, <2>3, <2>4, <2>5
<1>18. CASE InsertDuplicate(t)
  <2>1. TypeOK'
    <3>1. EmptyBuf \in [size : 0..MAX_OBJECT_SIZE, cachable : BOOLEAN]
      BY <1>2 DEF EmptyBuf
    <3>2. 0 \in 0..MaxResponse /\ "idle" \in PC /\ NULL \in Ptr
      BY <1>2 DEF PC, Inside, Ptr
    <3>. QED
      BY <1>18, <3>1, <3>2 DEF InsertDuplicate, Return, Goto
  <2>2. MutexInv'
    BY <1>1, <1>2, <1>18 DEF InsertDuplicate, Return, Goto, MutexInv, Inside
  <2>3. Quiet(t)
    BY <1>18 DEF InsertDuplicate, Return, Goto, Quiet, Frame, KeepsHolding
  <2>4. Point(t)'
    BY <1>1, <1>2, <1>3, <1>18 DEF InsertDuplicate, Return, Goto, Point, Holds, ToBeCached, EmptyBuf
  <2>5. Walk(t)'
    BY <1>18 DEF InsertDuplicate, Return, Goto, Walk
  <2>. QED
    BY <2>1, <2>2, <2>3, <2>4, <2>5
<1>19. CASE InsertNew(t)
  <2>1. TypeOK'
    BY <1>19 DEF InsertNew, Goto, cacheVars, PC, Inside
  <2>2. MutexInv'
    BY <1>1, <1>2, <1>19 DEF InsertNew, Goto, cacheVars, MutexInv, Inside
  <2>3. Quiet(t)
    BY <1>19 DEF InsertNew, Goto, cacheVars, Quiet, Frame, KeepsHolding
  <2>6. \A a \in live : Passed(t, a)
    BY <1>1, <1>19, WalkEnds DEF InsertNew, Goto, cacheVars
  <2>4. Point(t)'
    BY <1>1, <1>2, <1>3, <1>19, <2>6 DEF InsertNew, Goto, cacheVars, Point, Holds, ToBeCached, Passed
  <2>5. Walk(t)'
    BY <1>19 DEF InsertNew, Goto, cacheVars, Walk
  <2>. QED
    BY <2>1, <2>2, <2>3, <2>4, <2>5
<1>20. CASE Evict(t)
  <2>1. TypeOK'
    BY <1>20 DEF Evict, Goto, cacheVars, PC, Inside, Ptr
  <2>2. MutexInv'
    BY <1>1, <1>2, <1>20 DEF Evict, Goto, cacheVars, MutexInv, Inside
  <2>3. Quiet(t)
    BY <1>20 DEF Evict, Goto, cacheVars, Quiet, Frame, KeepsHolding
  <2>4. Point(t)'
    <3>1. CASE buf[t].size + size > MAX_CACHE_SIZE
      BY <1>1, <1>3, <1>20, <3>1
      DEF Evict, Goto, cacheVars, Point, Holds, ToBeCached
    <3>2. CASE buf[t].size + size <= MAX_CACHE_SIZE
      <4>1. ~(buf[t].size + size > MAX_CACHE_SIZE)
        BY <1>2, <3>2
      <4>. QED
        BY <1>1, <1>3, <1>20, <3>2, <4>1
        DEF Evict, Goto, cacheVars, Point, Holds, ToBeCached
    <3>. QED
      BY <1>2, <3>1, <3>2
  <2>5. Walk(t)'
    <3>1. CASE buf[t].size + size > MAX_CACHE_SIZE
      BY <1>1, <1>3, <1>20, <3>1, WalkBegins DEF Evict, Goto, cacheVars
    <3>2. CASE ~(buf[t].size + size > MAX_CACHE_SIZE)
      BY <1>20, <3>2 DEF Evict, Goto, cacheVars, Walk
    <3>. QED
      BY <3>1, <3>2
  <2>. QED
    BY <2>1, <2>2, <2>3, <2>4, <2>5
<1>21. CASE EvictNext(t)
  <2>1. TypeOK'
    BY <1>21 DEF EvictNext, Advance, cacheVars, PC, Inside, obj, Obj, Ptr
  <2>2. MutexInv'
    BY <1>1, <1>2, <1>21 DEF EvictNext, Advance, cacheVars, MutexInv, Inside
  <2>3. Quiet(t)
    BY <1>21 DEF EvictNext, Advance, cacheVars, Quiet, Frame, KeepsHolding
  <2>4. Point(t)'
    BY <1>1, <1>2, <1>3, <1>21 DEF EvictNext, Advance, cacheVars, Point, Holds, ToBeCached
  <2>5. Walk(t)'
    <3>1. /\ pc[t] = "walk" /\ pc'[t] = pc[t] /\ key'[t] = key[t]
          /\ curr[t] # NULL /\ curr'[t] = obj(t).next /\ list' = list
      BY <1>21 DEF EvictNext, Advance, cacheVars
    <3>2. Passed(t, curr[t])
      BY <1>21 DEF EvictNext, Passed, obj
    <3>. QED
      BY <1>1, <1>3, <3>1, <3>2, WalkAdvances
  <2>. QED
    BY <2>1, <2>2, <2>3, <2>4, <2>5
<1>22. CASE EvictNone(t)
  <2>1. TypeOK'
    BY <1>22 DEF EvictNone, Goto, cacheVars, PC, Inside
  <2>2. MutexInv'
    BY <1>1, <1>2, <1>22 DEF EvictNone, Goto, cacheVars, MutexInv, Inside
  <2>3. Quiet(t)
    BY <1>22 DEF EvictNone, Goto, cacheVars, Quiet, Frame, KeepsHolding
  <2>6. \A a \in live : Passed(t, a)
    BY <1>1, <1>22, WalkEnds DEF EvictNone, Goto, cacheVars
  <2>4. Point(t)'
    BY <1>1, <1>2, <1>3, <1>22, <2>6 DEF EvictNone, Goto, cacheVars, Point, Holds, ToBeCached, Passed
  <2>5. Walk(t)'
    BY <1>22 DEF EvictNone, Goto, cacheVars, Walk
  <2>. QED
    BY <2>1, <2>2, <2>3, <2>4, <2>5
<1>. QED
  BY <1>4, <1>5, <1>6, <1>7, <1>8, <1>9, <1>10, <1>11, <1>12, <1>13, <1>14, <1>15, <1>16, <1>17, <1>18, <1>19, <1>20, <1>21, <1>22 DEF QuietAction

LEMMA QuietKeepsCInv ==
  ASSUME CInv, NEW t \in Thread, QuietAction(t)
  PROVE  CInv'
<1>1. TypeOK' /\ MutexInv' /\ Quiet(t) /\ Point(t)' /\ Walk(t)'
  BY QuietSelf
<1>2. CacheInv' /\ \A u \in Thread \ {t} : Point(u)' /\ Walk(u)'
  BY <1>1, QuietStep
<1>3. PointInv' /\ WalkInv'
  BY <1>1, <1>2 DEF PointInv, WalkInv
<1>. QED
  BY <1>1, <1>2, <1>3 DEF CacheInv, CInv

-----------------------------------------------------------------------------
(* Steps that change the list.                                             *)

Readers(a) == {u \in Thread : Holds(u, a)}

LEMMA ReadersFinite ==
  ASSUME NEW a
  PROVE  IsFiniteSet(Readers(a)) /\ Cardinality(Readers(a)) \in Nat
BY ProxyCacheAssumption, FS_Subset, FS_CardinalityType DEF Readers

(* With the mutex, a thread is alone in its critical section.              *)
LEMMA Alone ==
  ASSUME MutexInv, NEW t \in Thread, pc[t] \in Inside, Frame(t)
  PROVE  /\ mutex = t
         /\ \A u \in Thread \ {t} : pc[u] \notin Inside /\ pc'[u] \notin Inside
BY DEF MutexInv, Frame

LEMMA OthersPoint ==
  ASSUME CInv, NEW t \in Thread, Frame(t), NEW u \in Thread \ {t},
         pc[u] \notin Inside,
         \A a \in live : Holds(u, a) =>
            a \in live' /\ SameObject(list'.obj[a], list.obj[a])
  PROVE  Point(u)' /\ Walk(u)'
<1>1. Point(u)
  BY DEF CInv, PointInv
<1>2. Point(u)'
  BY <1>1 DEF Point, Frame, Inside, Holds, obj, SameObject, ToBeCached
<1>. QED
  BY <1>2 DEF Walk, Frame, Inside

(* Only a count, or the order, changes.                                    *)
LEMMA SameObjects ==
  ASSUME CInv, NEW u, After(u), live' = live, size' = size,
         \A x \in Addr : SameObject(list'.obj[x], list.obj[x])
  PROVE  /\ OrderInv' /\ SizesInv' /\ SizeIsSum' /\ KeysUnique'
         /\ CachedWhole' /\ CacheBounded'
<1>1. OrderInv'
  BY AfterOrder
<1>2. SizesInv' /\ KeysUnique' /\ CachedWhole' /\ CacheBounded'
  BY DEF CInv, SizesInv, KeysUnique, CachedWhole, CacheBounded, SameObject, live
<1>3. Chunks' = Chunks
  BY DEF Chunks, SameObject, live
<1>. QED
  BY <1>1, <1>2, <1>3 DEF CInv, SizeIsSum

LEMMA HitKeepsCInv ==
  ASSUME CInv, NEW t \in Thread, SearchHit(t)
  PROVE  CInv'
<1>. DEFINE a == curr[t]
<1>1. /\ TypeOK /\ OrderInv /\ MutexInv /\ Point(t) /\ Walk(t)
      /\ pc[t] = "search" /\ a # NULL /\ list.obj[a].key = key[t]
  BY DEF CInv, PointInv, WalkInv, SearchHit, obj
<1>2. PICK i \in 1..Len(Order) : a = Order[i]
  BY <1>1, WalkStands
<1>3. a \in live /\ a \in Addr
  BY <1>1, WalkStands DEF live
<1>. DEFINE u == Append(LRU!Without(Order, i), Order[i])
            n == list.obj[a].reference_cnt
<1>4. After(u) /\ live' = live /\ Referenced(a, n + 1)
  BY <1>1, <1>2, HitList
<1>. HIDE DEF u
<1>5. /\ size' = size /\ mutex' = NoThread /\ pc' = [pc EXCEPT ![t] = "hit"]
      /\ UNCHANGED <<key, curr, written, buf, sent>>
  BY DEF SearchHit, Goto
<1>6. Frame(t) /\ pc'[t] = "hit"
  BY <1>1, <1>5 DEF Frame, TypeOK
<1>7. \A x \in Addr : SameObject(list'.obj[x], list.obj[x])
  BY <1>4 DEF Referenced
<1>8. /\ OrderInv' /\ SizesInv' /\ SizeIsSum' /\ KeysUnique'
      /\ CachedWhole' /\ CacheBounded'
  BY <1>4, <1>5, <1>7, SameObjects
<1>9. TypeOK'
  BY <1>1, <1>4, <1>5 DEF TypeOK, After, ListRec, PC
<1>10. \A v \in Thread \ {t} : pc[v] \notin Inside /\ pc'[v] \notin Inside
  BY <1>1, <1>6, Alone DEF Inside
<1>11. MutexInv'
  BY <1>5, <1>6, <1>10, ProxyCacheAssumption DEF MutexInv, Inside
<1>12. PointInv' /\ WalkInv'
  <2>1. \A v \in Thread \ {t} : Point(v)' /\ Walk(v)'
    BY <1>4, <1>6, <1>7, <1>10, OthersPoint DEF live
  <2>2. Point(t)' /\ Walk(t)'
    BY <1>1, <1>3, <1>4, <1>5, <1>6, <1>7
    DEF Point, Walk, Holds, obj, SameObject, ToBeCached
  <2>. QED
    BY <2>1, <2>2 DEF PointInv, WalkInv
<1>13. RefsCountReaders'
  <2>1. ASSUME NEW x \in live
        PROVE  list'.obj[x].reference_cnt = Cardinality(Readers(x)')
    <3>1. list.obj[x].reference_cnt = Cardinality(Readers(x)) /\ x \in Addr
      BY DEF CInv, RefsCountReaders, Readers, live
    <3>2. CASE x = a
      <4>1. Readers(x)' = Readers(x) \cup {t} /\ t \notin Readers(x)
        BY <1>1, <1>5, <1>6, <3>2 DEF Readers, Holds, Frame
      <4>2. IsFiniteSet(Readers(x))
        BY ReadersFinite
      <4>3. Cardinality(Readers(x) \cup {t}) = Cardinality(Readers(x)) + 1
        BY <4>1, <4>2, FS_AddElement
      <4>4. list'.obj[x].reference_cnt = n + 1
        BY <1>4, <3>1, <3>2 DEF Referenced
      <4>. QED
        BY <3>1, <3>2, <4>1, <4>3, <4>4
    <3>3. CASE x # a
      <4>1. Readers(x)' = Readers(x)
        BY <1>1, <1>5, <1>6, <3>3 DEF Readers, Holds, Frame
      <4>. QED
        BY <1>4, <3>1, <3>3, <4>1 DEF Referenced
    <3>. QED
      BY <3>2, <3>3
  <2>. QED
    BY <1>4, <2>1 DEF RefsCountReaders, Readers
<1>. QED
  BY <1>8, <1>9, <1>11, <1>12, <1>13 DEF CInv

LEMMA ReleaseKeepsCInv ==
  ASSUME CInv, NEW t \in Thread, Release(t)
  PROVE  CInv'
<1>. DEFINE a == curr[t]
<1>1. /\ TypeOK /\ OrderInv /\ MutexInv /\ Point(t)
      /\ pc[t] = "release" /\ mutex = NoThread
  BY DEF CInv, PointInv, Release
<1>2. a \in live /\ a \in Addr
  BY <1>1 DEF Point, Holds, live
<1>. DEFINE n == list.obj[a].reference_cnt
<1>3. n = Cardinality(Readers(a)) /\ n > 0
  <2>1. n = Cardinality(Readers(a))
    BY <1>2 DEF CInv, RefsCountReaders, Readers
  <2>2. t \in Readers(a)
    BY <1>1 DEF Readers, Holds
  <2>3. Cardinality(Readers(a)) # 0
    BY <2>2, ReadersFinite, FS_EmptySet
  <2>. QED
    BY <2>1, <2>3, ReadersFinite
<1>4. After(Order) /\ live' = live /\ Referenced(a, n - 1)
  BY <1>1, <1>2, <1>3, ReleaseList
<1>5. /\ size' = size /\ mutex' = mutex /\ pc' = [pc EXCEPT ![t] = "idle"]
      /\ key' = [key EXCEPT ![t] = NoKey] /\ curr' = [curr EXCEPT ![t] = NULL]
      /\ written' = [written EXCEPT ![t] = 0]
      /\ buf' = [buf EXCEPT ![t] = EmptyBuf] /\ sent' = [sent EXCEPT ![t] = 0]
  BY DEF Release, Return, Goto
<1>6. /\ Frame(t) /\ pc'[t] = "idle" /\ curr'[t] = NULL
      /\ buf'[t] = EmptyBuf /\ sent'[t] = 0
  BY <1>1, <1>5 DEF Frame, TypeOK
<1>7. \A x \in Addr : SameObject(list'.obj[x], list.obj[x])
  BY <1>4 DEF Referenced
<1>8. /\ OrderInv' /\ SizesInv' /\ SizeIsSum' /\ KeysUnique'
      /\ CachedWhole' /\ CacheBounded'
  BY <1>4, <1>5, <1>7, SameObjects
<1>9. TypeOK'
  <2>1. EmptyBuf \in [size : 0..MAX_OBJECT_SIZE, cachable : BOOLEAN]
    BY ProxyCacheAssumption DEF EmptyBuf
  <2>2. 0 \in 0..MaxResponse /\ "idle" \in PC /\ NULL \in Ptr
    BY ProxyCacheAssumption DEF PC, Inside, Ptr
  <2>. QED
    BY <1>1, <1>4, <1>5, <2>1, <2>2 DEF TypeOK, After, ListRec
<1>10. \A v \in Thread : pc[v] \notin Inside /\ pc'[v] \notin Inside
  BY <1>1, <1>6, ProxyCacheAssumption DEF MutexInv, Frame, Inside
<1>11. MutexInv'
  BY <1>1, <1>5, <1>10, ProxyCacheAssumption DEF MutexInv
<1>12. PointInv' /\ WalkInv'
  <2>1. \A v \in Thread \ {t} : Point(v)' /\ Walk(v)'
    BY <1>4, <1>6, <1>7, <1>10, OthersPoint DEF live
  <2>2. Point(t)' /\ Walk(t)'
    BY <1>6 DEF Point, Walk, Holds, ToBeCached, EmptyBuf
  <2>. QED
    BY <2>1, <2>2 DEF PointInv, WalkInv
<1>13. RefsCountReaders'
  <2>1. ASSUME NEW x \in live
        PROVE  list'.obj[x].reference_cnt = Cardinality(Readers(x)')
    <3>1. list.obj[x].reference_cnt = Cardinality(Readers(x)) /\ x \in Addr
      BY DEF CInv, RefsCountReaders, Readers, live
    <3>2. CASE x = a
      <4>1. Readers(x)' = Readers(x) \ {t} /\ t \in Readers(x)
        BY <1>1, <1>6, <3>2 DEF Readers, Holds, Frame
      <4>2. IsFiniteSet(Readers(x))
        BY ReadersFinite
      <4>3. Cardinality(Readers(x) \ {t}) = Cardinality(Readers(x)) - 1
        BY <4>1, <4>2, FS_RemoveElement
      <4>4. list'.obj[x].reference_cnt = n - 1
        BY <1>4, <3>1, <3>2 DEF Referenced
      <4>. QED
        BY <3>1, <3>2, <4>1, <4>3, <4>4
    <3>3. CASE x # a
      <4>1. Readers(x)' = Readers(x)
        BY <1>1, <1>6, <3>3 DEF Readers, Holds, Frame
      <4>. QED
        BY <1>4, <3>1, <3>3, <4>1 DEF Referenced
    <3>. QED
      BY <3>2, <3>3
  <2>. QED
    BY <1>4, <2>1 DEF RefsCountReaders, Readers
<1>. QED
  BY <1>8, <1>9, <1>11, <1>12, <1>13 DEF CInv

LEMMA EvictKeepsCInv ==
  ASSUME CInv, NEW t \in Thread, EvictOne(t)
  PROVE  CInv'
<1>. DEFINE a == curr[t]
<1>1. /\ TypeOK /\ OrderInv /\ MutexInv /\ Point(t) /\ Walk(t)
      /\ pc[t] = "walk" /\ a # NULL /\ list.obj[a].reference_cnt = 0
  BY DEF CInv, PointInv, WalkInv, EvictOne, obj
<1>2. PICK i \in 1..Len(Order) : a = Order[i]
  BY <1>1, WalkStands
<1>3. a \in live /\ a \in Addr
  BY <1>1, WalkStands DEF live
<1>. DEFINE u == LRU!Without(Order, i)
<1>4. /\ After(u) /\ live' = live \ {a}
      /\ \A x \in live' :
           /\ SameObject(list'.obj[x], list.obj[x])
           /\ list'.obj[x].reference_cnt = list.obj[x].reference_cnt
  BY <1>1, <1>2, EvictList
<1>. HIDE DEF u
<1>5. /\ size' = size - list.obj[a].size /\ mutex' = mutex
      /\ pc' = [pc EXCEPT ![t] = "evict"] /\ curr' = [curr EXCEPT ![t] = NULL]
      /\ UNCHANGED <<key, written, buf, sent>>
  BY DEF EvictOne, Goto, obj
<1>6. Frame(t) /\ pc'[t] = "evict" /\ curr'[t] = NULL
  BY <1>1, <1>5 DEF Frame, TypeOK
<1>7. OrderInv'
  BY <1>4, AfterOrder
<1>8. SizesInv' /\ KeysUnique' /\ CachedWhole'
  BY <1>4 DEF CInv, SizesInv, KeysUnique, CachedWhole, SameObject
<1>9. size' \in Nat /\ size' <= size /\ SizeIsSum'
  <2>1. /\ LiveIn(list') = live' /\ LiveIn(list) = live
        /\ ChunksIn(list') = Chunks' /\ ChunksIn(list) = Chunks
    BY DEF LiveIn, live, ChunksIn, Chunks
  <2>2. IsFiniteSet(live')
    BY <1>1, <1>4, OrderFacts, FS_RemoveElement
  <2>3. Cardinality(Chunks') \in Nat
    BY <2>1, <2>2, ChunksBounded
  <2>4. list.obj[a].size \in 1..MAX_OBJECT_SIZE
    BY <1>3 DEF CInv, SizesInv
  <2>5. Cardinality(Chunks) = Cardinality(Chunks') + list.obj[a].size
    <3>1. a \notin live' /\ live = live' \cup {a}
      BY <1>3, <1>4
    <3>2. \A x \in live' : list.obj[x].size = list'.obj[x].size
      BY <1>4 DEF SameObject
    <3>. HIDE DEF a
    <3>. QED
      BY <2>1, <2>2, <2>4, <3>1, <3>2, OneObjectMore
  <2>6. size = Cardinality(Chunks)
    BY DEF CInv, SizeIsSum
  <2>7. size' = Cardinality(Chunks')
    BY <1>5, <2>3, <2>4, <2>5, <2>6
  <2>. QED
    BY <1>5, <2>3, <2>4, <2>5, <2>6, <2>7 DEF SizeIsSum
<1>10. TypeOK'
  <2>1. "evict" \in PC /\ NULL \in Ptr
    BY DEF PC, Inside, Ptr
  <2>. QED
    BY <1>1, <1>4, <1>5, <1>9, <2>1 DEF TypeOK, After, ListRec
<1>11. /\ mutex = t
       /\ \A v \in Thread \ {t} : pc[v] \notin Inside /\ pc'[v] \notin Inside
  BY <1>1, <1>6, Alone DEF Inside
<1>12. MutexInv'
  BY <1>5, <1>6, <1>11 DEF MutexInv, Inside
<1>13. Readers(a) = {}
  <2>1. Cardinality(Readers(a)) = 0
    BY <1>1, <1>3 DEF CInv, RefsCountReaders, Readers
  <2>. QED
    BY <2>1, ReadersFinite, FS_EmptySet
<1>14. PointInv' /\ WalkInv'
  <2>1. ASSUME NEW v \in Thread \ {t}
        PROVE  Point(v)' /\ Walk(v)'
    <3>1. \A x \in live : Holds(v, x) =>
            x \in live' /\ SameObject(list'.obj[x], list.obj[x])
      BY <1>4, <1>13 DEF Readers
    <3>. QED
      BY <1>6, <1>11, <3>1, OthersPoint
  <2>2. Point(t)'
    <3>1. \A x \in live' : list'.obj[x].key # key[t]
      BY <1>1, <1>4 DEF Point, SameObject
    <3>. QED
      BY <1>1, <1>5, <1>6, <3>1 DEF Point, Holds, ToBeCached
  <2>3. Walk(t)'
    BY <1>6 DEF Walk
  <2>. QED
    BY <2>1, <2>2, <2>3 DEF PointInv, WalkInv
<1>15. RefsCountReaders'
  <2>1. ASSUME NEW x \in live'
        PROVE  list'.obj[x].reference_cnt = Cardinality(Readers(x)')
    <3>1. x \in live /\ list.obj[x].reference_cnt = Cardinality(Readers(x))
      BY <1>4 DEF CInv, RefsCountReaders, Readers
    <3>2. Readers(x)' = Readers(x)
      BY <1>1, <1>6 DEF Readers, Holds, Frame
    <3>. QED
      BY <1>4, <3>1, <3>2
  <2>. QED
    BY <2>1 DEF RefsCountReaders, Readers
<1>16. CacheBounded'
  <2>1. Cardinality(Thread) * MAX_OBJECT_SIZE \in Nat /\ MAX_CACHE_SIZE \in Nat
    BY ProxyCacheAssumption, FS_CardinalityType
  <2>. QED
    BY <1>1, <1>9, <2>1 DEF CInv, CacheBounded, TypeOK
<1>. QED
  BY <1>7, <1>8, <1>9, <1>10, <1>12, <1>14, <1>15, <1>16 DEF CInv

(* Objects that are all in use are fewer than the threads, of which one is *)
(* not reading.                                                            *)
LEMMA AllReferenced ==
  ASSUME CInv, NEW t \in Thread, pc[t] = "add",
         \A a \in live : list.obj[a].reference_cnt > 0
  PROVE  Cardinality(live) <= Cardinality(Thread) - 1
<1>1. \A a \in live : Readers(a) # {}
  <2>1. \A a \in live : Cardinality(Readers(a)) # 0
    BY DEF CInv, RefsCountReaders, Readers
  <2>. QED
    BY <2>1, FS_EmptySet
<1>. DEFINE f == [a \in live |-> CHOOSE u \in Thread : Holds(u, a)]
<1>2. \A a \in live : f[a] \in Thread /\ Holds(f[a], a)
  BY <1>1 DEF Readers
<1>3. \A a \in live : f[a] \in Thread \ {t} /\ curr[f[a]] = a
  BY <1>2 DEF Holds
<1>4. f \in Injection(live, Thread \ {t})
  BY <1>3 DEF Injection, IsInjective
<1>5. /\ IsFiniteSet(Thread \ {t})
      /\ Cardinality(Thread \ {t}) = Cardinality(Thread) - 1
  BY ProxyCacheAssumption, FS_RemoveElement
<1>. QED
  BY <1>4, <1>5, FS_Injection

LEMMA AddKeepsCInv ==
  ASSUME CInv, NEW t \in Thread, Add(t)
  PROVE  CInv'
<1>1. /\ TypeOK /\ OrderInv /\ MutexInv /\ Point(t)
      /\ pc[t] = "add" /\ key[t] \in Key /\ ToBeCached(t)
  BY DEF CInv, PointInv, Point, Add
<1>2. PICK a \in Addr \ live :
        /\ After(Append(Order, a))
        /\ live' = live \cup {a}
        /\ \A x \in live :
             /\ SameObject(list'.obj[x], list.obj[x])
             /\ list'.obj[x].reference_cnt = list.obj[x].reference_cnt
        /\ list'.obj[a].key = key[t] /\ list'.obj[a].size = buf[t].size
        /\ list'.obj[a].of = sent[t] /\ list'.obj[a].reference_cnt = 0
  BY <1>1, AddList
<1>. DEFINE u == Append(Order, a)
            s == buf[t].size
<1>3. After(u)
  BY <1>2
<1>. HIDE DEF u
<1>4. /\ size' = size + s /\ mutex' = NoThread
      /\ pc' = [pc EXCEPT ![t] = "idle"]
      /\ key' = [key EXCEPT ![t] = NoKey] /\ curr' = [curr EXCEPT ![t] = NULL]
      /\ written' = [written EXCEPT ![t] = 0]
      /\ buf' = [buf EXCEPT ![t] = EmptyBuf] /\ sent' = [sent EXCEPT ![t] = 0]
  BY DEF Add, Return, Goto
<1>5. /\ Frame(t) /\ pc'[t] = "idle" /\ curr'[t] = NULL
      /\ buf'[t] = EmptyBuf /\ sent'[t] = 0
  BY <1>1, <1>4 DEF Frame, TypeOK
<1>6. OrderInv'
  BY <1>3, AfterOrder
<1>7. s \in 1..MAX_OBJECT_SIZE /\ s = sent[t]
  BY <1>1, ProxyCacheAssumption DEF Point, ToBeCached, TypeOK
<1>8. \A x \in live : list.obj[x].key # key[t]
  BY <1>1 DEF Point
<1>9. SizesInv' /\ KeysUnique' /\ CachedWhole'
  <2>1. SizesInv'
    BY <1>2, <1>7 DEF CInv, SizesInv, SameObject
  <2>2. KeysUnique'
    BY <1>2, <1>8 DEF CInv, KeysUnique, SameObject
  <2>3. CachedWhole'
    BY <1>2, <1>7 DEF CInv, CachedWhole, SameObject
  <2>. QED
    BY <2>1, <2>2, <2>3
<1>10. SizeIsSum' /\ size' = Cardinality(Chunks')
  <2>1. /\ LiveIn(list') = live' /\ LiveIn(list) = live
        /\ ChunksIn(list') = Chunks' /\ ChunksIn(list) = Chunks
    BY DEF LiveIn, live, ChunksIn, Chunks
  <2>2. IsFiniteSet(live)
    BY <1>1, OrderFacts
  <2>3. Cardinality(Chunks') = Cardinality(Chunks) + list'.obj[a].size
    <3>1. a \notin live /\ list'.obj[a].size \in 1..MAX_OBJECT_SIZE
      BY <1>2, <1>7
    <3>2. \A x \in live : list'.obj[x].size = list.obj[x].size
      BY <1>2 DEF SameObject
    <3>. QED
      BY <1>2, <2>1, <2>2, <3>1, <3>2, OneObjectMore
  <2>4. size = Cardinality(Chunks)
    BY DEF CInv, SizeIsSum
  <2>. QED
    BY <1>2, <1>4, <2>3, <2>4 DEF SizeIsSum
<1>11. TypeOK'
  <2>1. EmptyBuf \in [size : 0..MAX_OBJECT_SIZE, cachable : BOOLEAN]
    BY ProxyCacheAssumption DEF EmptyBuf
  <2>2. 0 \in 0..MaxResponse /\ "idle" \in PC /\ NULL \in Ptr
    BY ProxyCacheAssumption DEF PC, Inside, Ptr
  <2>3. size' \in Nat
    BY <1>1, <1>4, <1>7 DEF TypeOK
  <2>. QED
    BY <1>1, <1>3, <1>4, <2>1, <2>2, <2>3 DEF TypeOK, After, ListRec
<1>12. \A v \in Thread \ {t} : pc[v] \notin Inside /\ pc'[v] \notin Inside
  BY <1>1, <1>5, Alone DEF Inside
<1>13. MutexInv'
  BY <1>4, <1>5, <1>12, ProxyCacheAssumption DEF MutexInv, Inside
<1>14. PointInv' /\ WalkInv'
  <2>1. \A v \in Thread \ {t} : Point(v)' /\ Walk(v)'
    BY <1>2, <1>5, <1>12, OthersPoint
  <2>2. Point(t)' /\ Walk(t)'
    BY <1>5 DEF Point, Walk, Holds, ToBeCached, EmptyBuf
  <2>. QED
    BY <2>1, <2>2 DEF PointInv, WalkInv
<1>15. RefsCountReaders'
  <2>1. ASSUME NEW x \in Addr
        PROVE  Readers(x)' = Readers(x)
    BY <1>1, <1>5 DEF Readers, Holds, Frame
  <2>2. ASSUME NEW x \in live
        PROVE  list'.obj[x].reference_cnt = Cardinality(Readers(x)')
    BY <1>2, <2>1, <2>2 DEF CInv, RefsCountReaders, Readers, live
  <2>3. Readers(a) = {}
    <3>1. ASSUME NEW v \in Thread, Holds(v, a) PROVE FALSE
      <4>1. curr[v] \in live
        BY <3>1 DEF CInv, PointInv, Point, Holds
      <4>. QED
        BY <3>1, <4>1 DEF Holds
    <3>. QED
      BY <3>1 DEF Readers
  <2>4. list'.obj[a].reference_cnt = Cardinality(Readers(a)')
    BY <1>2, <2>1, <2>3, FS_EmptySet
  <2>. QED
    BY <1>2, <2>2, <2>4 DEF RefsCountReaders, Readers
<1>16. CacheBounded'
  <2>1. CASE s + size <= MAX_CACHE_SIZE
    BY <1>1, <1>4, <1>7, <2>1 DEF CacheBounded, TypeOK
  <2>2. CASE \A x \in live : list.obj[x].reference_cnt > 0
    <3>. DEFINE c == Cardinality(live)
                T == Cardinality(Thread)
    <3>1. /\ c <= T - 1 /\ c \in Nat /\ T \in Nat /\ MAX_OBJECT_SIZE \in Nat
      BY <1>1, <2>2, AllReferenced, OrderFacts, ProxyCacheAssumption,
         FS_CardinalityType
    <3>2. size <= c * MAX_OBJECT_SIZE
      <4>1. LiveIn(list) = live /\ ChunksIn(list) = Chunks /\ IsFiniteSet(live)
        BY <1>1, OrderFacts DEF LiveIn, live, ChunksIn, Chunks
      <4>. QED
        BY <4>1, ChunksBounded DEF CInv, SizeIsSum
    <3>. HIDE DEF c, T
    <3>3. size' <= c * MAX_OBJECT_SIZE + MAX_OBJECT_SIZE
      BY <1>1, <1>4, <1>7, <3>1, <3>2 DEF TypeOK
    <3>4. c * MAX_OBJECT_SIZE + MAX_OBJECT_SIZE = (c + 1) * MAX_OBJECT_SIZE
      BY <3>1
    <3>5. (c + 1) * MAX_OBJECT_SIZE <= T * MAX_OBJECT_SIZE
      BY <3>1
    <3>6. size' <= T * MAX_OBJECT_SIZE
      <4>. DEFINE p == (c + 1) * MAX_OBJECT_SIZE
                  q == T * MAX_OBJECT_SIZE
      <4>1. p \in Int /\ q \in Int /\ size' \in Int
        BY <1>11, <3>1 DEF TypeOK
      <4>2. size' <= p /\ p <= q
        BY <3>3, <3>4, <3>5
      <4>. HIDE DEF p, q
      <4>3. size' <= q
        BY <4>1, <4>2
      <4>. QED
        BY <4>3 DEF q
    <3>. QED
      BY <3>6 DEF CacheBounded, T
  <2>. QED
    BY <1>1, <2>1, <2>2 DEF Point
<1>. QED
  BY <1>6, <1>9, <1>10, <1>11, <1>13, <1>14, <1>15, <1>16 DEF CInv

-----------------------------------------------------------------------------
(* The invariant, and what follows from it.                                *)

LEMMA CInvInit == Init => CInv
<1>. SUFFICES ASSUME Init PROVE CInv
  OBVIOUS
<1>. USE DEF Init
<1>2. live = {} /\ LiveIn(list) = {}
  BY DEF live, LiveIn, Freed
<1>3. Linked(list, << >>) /\ << >> \in Seq(Addr) /\ Range(<< >>) = {}
  BY DEF Linked, Range
<1>4. Order = << >>
  BY <1>2, <1>3, OrderIs DEF Order
<1>5. OrderInv
  BY <1>2, <1>3, <1>4 DEF OrderInv
<1>6. TypeOK
  <2>1. Freed \in Obj /\ NULL \in Ptr /\ "idle" \in PC
    BY DEF Freed, Obj, Ptr, PC
  <2>2. EmptyBuf \in [size : 0..MAX_OBJECT_SIZE, cachable : BOOLEAN]
    BY ProxyCacheAssumption DEF EmptyBuf
  <2>3. 0 \in 0..MaxResponse
    BY ProxyCacheAssumption
  <2>. QED
    BY <2>1, <2>2, <2>3 DEF TypeOK
<1>7. MutexInv
  BY ProxyCacheAssumption DEF MutexInv, Inside
<1>8. PointInv /\ WalkInv
  BY DEF PointInv, Point, WalkInv, Walk, Holds, EmptyBuf
<1>9. SizesInv /\ KeysUnique /\ RefsCountReaders /\ CachedWhole
  BY <1>2 DEF SizesInv, KeysUnique, RefsCountReaders, CachedWhole
<1>10. SizeIsSum
  <2>1. Chunks = {}
    BY <1>2 DEF Chunks
  <2>. QED
    BY <2>1, FS_EmptySet DEF SizeIsSum
<1>11. CacheBounded
  BY ProxyCacheAssumption DEF CacheBounded
<1>. QED
  BY <1>5, <1>6, <1>7, <1>8, <1>9, <1>10, <1>11 DEF CInv

LEMMA CInvNext == CInv /\ [Next]_vars => CInv'
<1>1. SUFFICES ASSUME CInv, [Next]_vars PROVE CInv'
  OBVIOUS
<1>2. CASE UNCHANGED vars
  <2>1. Order' = Order /\ live' = live /\ Chunks' = Chunks
    BY <1>2 DEF vars, Order, live, Chunks
  <2>2. (TypeOK /\ OrderInv /\ MutexInv)'
    BY <1>1, <1>2, <2>1 DEF vars, CInv, TypeOK, OrderInv, MutexInv
  <2>3. (SizesInv /\ SizeIsSum /\ KeysUnique /\ CachedWhole /\ CacheBounded)'
    BY <1>1, <1>2, <2>1
    DEF vars, CInv, SizesInv, SizeIsSum, KeysUnique, CachedWhole, CacheBounded
  <2>4. RefsCountReaders'
    BY <1>1, <1>2, <2>1 DEF vars, CInv, RefsCountReaders, Holds
  <2>5. PointInv'
    BY <1>1, <1>2, <2>1 DEF vars, CInv, PointInv, Point, Holds, obj, ToBeCached
  <2>6. WalkInv'
    BY <1>1, <1>2, <2>1 DEF vars, CInv, WalkInv, Walk, At, Passed
  <2>. QED
    BY <2>2, <2>3, <2>4, <2>5, <2>6 DEF CInv
<1>3. ASSUME NEW t \in Thread, Step(t) \/ \E k \in Key : Request(t, k)
      PROVE  CInv'
  <2>1. \/ QuietAction(t) \/ SearchHit(t) \/ Release(t)
        \/ EvictOne(t) \/ Add(t)
    BY <1>3 DEF Step, QuietAction
  <2>. QED
    BY <1>1, <2>1, QuietKeepsCInv, HitKeepsCInv, ReleaseKeepsCInv,
       EvictKeepsCInv, AddKeepsCInv
<1>. QED
  BY <1>1, <1>2, <1>3 DEF Next

THEOREM CacheInvariant == Spec => []CInv
<1>1. Init => CInv
  BY CInvInit
<1>2. CInv /\ [Next]_vars => CInv'
  BY CInvNext
<1>. QED
  BY <1>1, <1>2, PTL DEF Spec

(* No variable leaves its type: the counts and the size never go below 0.  *)
THEOREM TypeCorrect == Spec => []TypeOK
<1>1. CInv => TypeOK
  BY DEF CInv
<1>. QED
  BY <1>1, CacheInvariant, PTL

(* A thread never stands on, or reads, an object that has been freed, or   *)
(* whose memory holds another object by now.                               *)
THEOREM ObjectsInUseStay == Spec => []NoUseAfterFree
<1>1. ASSUME CInv, NEW t \in Thread, curr[t] # NULL
      PROVE  curr[t] \in live
  <2>1. /\ TypeOK /\ OrderInv /\ Walk(t) /\ Point(t)
    BY <1>1 DEF CInv, PointInv, WalkInv
  <2>2. CASE pc[t] \in {"search", "dup", "walk"}
    BY <1>1, <2>1, <2>2, WalkStands
  <2>3. CASE pc[t] \in {"hit", "release"}
    BY <2>1, <2>3 DEF Point, Holds
  <2>. QED
    BY <1>1, <2>1, <2>2, <2>3 DEF Point
<1>2. ASSUME CInv, NEW t \in Thread, NEW a \in Addr, Holds(t, a)
      PROVE  list.obj[a].key = key[t]
  BY <1>2 DEF CInv, PointInv, Point, Holds, obj
<1>3. CInv => NoUseAfterFree
  BY <1>1, <1>2 DEF NoUseAfterFree
<1>. QED
  BY <1>3, CacheInvariant, PTL

(* The list is linked both ways and through live objects only, its size is *)
(* what the objects take, no URI is cached twice, and a reference count is *)
(* the number of readers.                                                  *)
THEOREM CacheStaysConsistent == Spec => []CacheConsistent
<1>1. ASSUME CInv PROVE ListSound
  <2>1. /\ Len(Order) \in Nat /\ NULL \notin Addr /\ Linked(list, Order)
        /\ \A i \in 1..Len(Order) : Order[i] \in live /\ Order[i] \in Addr
        /\ \A a \in live : \E i \in 1..Len(Order) : a = Order[i]
        /\ Order = << >> <=> Len(Order) = 0
    BY <1>1, OrderFacts, ProxyCacheAssumption DEF CInv, OrderInv
  <2>. HIDE DEF Order
  <2>2. ASSUME NEW a \in live
        PROVE  LET n == list.obj[a].next
                   p == list.obj[a].prev
               IN  /\ IF n = NULL THEN list.tail = a
                       ELSE n \in live /\ list.obj[n].prev = a
                   /\ IF p = NULL THEN list.head = a
                       ELSE p \in live /\ list.obj[p].next = a
    <3>1. PICK i \in 1..Len(Order) : a = Order[i]
      BY <2>1
    <3>2. /\ list.obj[a].next = IF i = Len(Order) THEN NULL ELSE Order[i + 1]
          /\ list.obj[a].prev = IF i = 1 THEN NULL ELSE Order[i - 1]
      BY <2>1, <3>1 DEF Linked
    <3>3. IF list.obj[a].next = NULL THEN list.tail = a
          ELSE list.obj[a].next \in live /\ list.obj[list.obj[a].next].prev = a
      <4>1. CASE i = Len(Order)
        BY <2>1, <3>1, <3>2, <4>1 DEF Linked
      <4>2. CASE i # Len(Order)
        <5>1. i + 1 \in 1..Len(Order) /\ i + 1 # 1 /\ (i + 1) - 1 = i
          BY <2>1, <4>2
        <5>2. list.obj[Order[i + 1]].prev = Order[i]
          BY <2>1, <5>1 DEF Linked
        <5>3. list.obj[a].next = Order[i + 1] /\ Order[i + 1] \in live
          BY <2>1, <3>2, <4>2, <5>1
        <5>4. Order[i + 1] # NULL
          BY <2>1, <5>1
        <5>. QED
          BY <3>1, <5>2, <5>3, <5>4
      <4>. QED
        BY <4>1, <4>2
    <3>4. IF list.obj[a].prev = NULL THEN list.head = a
          ELSE list.obj[a].prev \in live /\ list.obj[list.obj[a].prev].next = a
      <4>1. CASE i = 1
        BY <2>1, <3>1, <3>2, <4>1 DEF Linked
      <4>2. CASE i # 1
        <5>1. i - 1 \in 1..Len(Order) /\ i - 1 # Len(Order) /\ (i - 1) + 1 = i
          BY <2>1, <4>2
        <5>2. list.obj[Order[i - 1]].next = Order[i]
          BY <2>1, <5>1 DEF Linked
        <5>3. list.obj[a].prev = Order[i - 1] /\ Order[i - 1] \in live
          BY <2>1, <3>2, <4>2, <5>1
        <5>4. Order[i - 1] # NULL
          BY <2>1, <5>1
        <5>. QED
          BY <3>1, <5>2, <5>3, <5>4
      <4>. QED
        BY <4>1, <4>2
    <3>. QED
      BY <3>3, <3>4
  <2>3. \A a \in {list.head, list.tail} : a = NULL <=> live = {}
    BY <2>1 DEF Linked
  <2>. QED
    BY <2>2, <2>3 DEF ListSound
<1>2. CInv => CacheConsistent
  BY <1>1 DEF CInv, CacheConsistent
<1>. QED
  BY <1>2, CacheInvariant, PTL

(* What is cached is a whole response.                                     *)
THEOREM OnlyWholeResponses == Spec => []CachedWhole
<1>1. CInv => CachedWhole
  BY DEF CInv
<1>. QED
  BY <1>1, CacheInvariant, PTL

(* The cache stays within its limit, or within what the objects in use and *)
(* one more can take.                                                      *)
THEOREM SizeBounded == Spec => []CacheBounded
<1>1. CInv => CacheBounded
  BY DEF CInv
<1>. QED
  BY <1>1, CacheInvariant, PTL

-----------------------------------------------------------------------------
(* The cache implements LRUCache: every step maps to a step of LRUCache or *)
(* a stutter.                                                              *)

(* The abstract state.                                                     *)

Entries == EntriesOf(list)

EntryRec == [key : Key \cup {NoKey}, size : Nat, pins : Nat]

LEMMA EntriesType ==
  ASSUME TypeOK, OrderInv
  PROVE  /\ Entries = [i \in 1..Len(Order) |-> EntryOf(list.obj[Order[i]])]
         /\ Entries \in Seq(EntryRec)
         /\ Len(Entries) = Len(Order) /\ Len(Order) \in Nat
         /\ DOMAIN Entries = 1..Len(Order)
         /\ \A i \in 1..Len(Order) :
              /\ Entries[i] = EntryOf(list.obj[Order[i]])
              /\ Entries[i] \in EntryRec
<1>1. Entries = [i \in 1..Len(Order) |-> EntryOf(list.obj[Order[i]])]
  BY DEF Entries, EntriesOf, Order
<1>2. \A i \in 1..Len(Order) : EntryOf(list.obj[Order[i]]) \in EntryRec
  BY OrderFacts DEF TypeOK, Obj, EntryOf, EntryRec
<1>3. Len(Order) \in Nat
  BY OrderFacts
<1>. QED
  BY <1>1, <1>2, <1>3

Inserting == {"evict", "walk", "add"}

(* Only one thread inserts at a time.                                      *)
LEMMA NeededIs ==
  ASSUME MutexInv
  PROVE  /\ \A t \in Thread : pc[t] \in Inserting => Needed = buf[t].size
         /\ (\A t \in Thread : pc[t] \notin Inserting) => Needed = 0
<1>. DEFINE T == {t \in Thread : pc[t] \in Inserting}
<1>1. Needed = IF T = {} THEN 0 ELSE buf[CHOOSE t \in T : TRUE].size
  BY Zenon DEF Needed, Inserting
<1>2. ASSUME NEW t \in Thread, pc[t] \in Inserting
      PROVE  Needed = buf[t].size
  <2>1. T = {t}
    BY <1>2 DEF MutexInv, Inside, Inserting
  <2>. QED
    BY <1>1, <2>1
<1>3. (\A t \in Thread : pc[t] \notin Inserting) => T = {}
  OBVIOUS
<1>. QED
  BY <1>1, <1>2, <1>3

LEMMA SameCardinality == \A S : LRU!Cardinality(S) = Cardinality(S)
BY Zenon DEF LRU!Cardinality, Cardinality

(* The abstract cache takes as much memory as the concrete one.            *)
LEMMA TakenIsSize ==
  ASSUME CInv
  PROVE  Cardinality(LRU!Taken) = size
<1>. DEFINE f == [c \in LRU!Taken |-> <<Order[c[1]], c[2]>>]
<1>1. TypeOK /\ OrderInv /\ MAX_OBJECT_SIZE \in Nat
  BY ProxyCacheAssumption DEF CInv
<1>2. LRU!Taken = {c \in (1..Len(Order)) \X (1..MAX_OBJECT_SIZE) :
                     c[2] <= list.obj[Order[c[1]]].size}
  BY <1>1, EntriesType DEF LRU!Taken, Entries, EntryOf
<1>3. IsFiniteSet(LRU!Taken)
  <2>1. IsFiniteSet(1..Len(Order)) /\ IsFiniteSet(1..MAX_OBJECT_SIZE)
    BY <1>1, OrderFacts, FS_Interval
  <2>2. IsFiniteSet((1..Len(Order)) \X (1..MAX_OBJECT_SIZE))
    BY <2>1, FS_Product
  <2>. QED
    BY <1>2, <2>2, FS_Subset
<1>4. f \in Bijection(LRU!Taken, Chunks)
  <2>1. \A c \in LRU!Taken : f[c] \in Chunks
    BY <1>1, <1>2, OrderFacts DEF Chunks
  <2>2. ASSUME NEW c \in LRU!Taken, NEW d \in LRU!Taken, f[c] = f[d]
        PROVE  c = d
    <3>1. /\ c = <<c[1], c[2]>> /\ c[1] \in 1..Len(Order)
          /\ d = <<d[1], d[2]>> /\ d[1] \in 1..Len(Order)
      BY <1>2
    <3>2. Order[c[1]] = Order[d[1]] /\ c[2] = d[2]
      BY <2>2
    <3>3. \A j, k \in 1..Len(Order) : Order[j] = Order[k] => j = k
      BY <1>1 DEF OrderInv, Linked
    <3>. QED
      BY <3>1, <3>2, <3>3, Zenon
  <2>3. ASSUME NEW e \in Chunks
        PROVE  \E c \in LRU!Taken : f[c] = e
    <3>1. /\ e = <<e[1], e[2]>> /\ e[1] \in live /\ e[2] \in 1..MAX_OBJECT_SIZE
          /\ e[2] <= list.obj[e[1]].size
      BY DEF Chunks
    <3>2. PICK i \in 1..Len(Order) : e[1] = Order[i]
      BY <1>1, <3>1, OrderFacts
    <3>3. <<i, e[2]>> \in LRU!Taken
      BY <1>2, <3>1, <3>2
    <3>. QED
      BY <3>1, <3>2, <3>3
  <2>. QED
    BY <2>1, <2>2, <2>3 DEF Bijection, Injection, Surjection, IsInjective
<1>5. Cardinality(Chunks) = Cardinality(LRU!Taken)
  <2>1. ExistsBijection(LRU!Taken, Chunks)
    BY <1>4 DEF ExistsBijection
  <2>. QED
    BY <1>3, <2>1, FS_Bijection
<1>. QED
  BY <1>5 DEF CInv, SizeIsSum

-----------------------------------------------------------------------------
(* What a step does to the abstract state.                                 *)

LEMMA EntriesAfter ==
  ASSUME NEW u, After(u)
  PROVE  Entries' = [i \in 1..Len(u) |-> EntryOf(list'.obj[u[i]])]
<1>1. OrderOf(list') = u
  BY OrderIs DEF After
<1>. QED
  BY <1>1, Zenon DEF Entries, EntriesOf

LEMMA EntriesTypeAfter ==
  ASSUME NEW u, After(u)
  PROVE  /\ Entries' \in Seq(EntryRec) /\ Len(Entries') = Len(u)
         /\ \A i \in 1..Len(u) : Entries'[i] = EntryOf(list'.obj[u[i]])
<1>1. Entries' = [i \in 1..Len(u) |-> EntryOf(list'.obj[u[i]])]
  BY EntriesAfter
<1>2. \A i \in 1..Len(u) : EntryOf(list'.obj[u[i]]) \in EntryRec
  <2>1. \A i \in 1..Len(u) : list'.obj[u[i]] \in Obj
    BY DEF After, ListRec
  <2>. QED
    BY <2>1 DEF Obj, EntryOf, EntryRec
<1>3. Len(u) \in Nat
  BY DEF After
<1>. QED
  BY <1>1, <1>2, <1>3

(* The threads that insert, and what they insert, after a step.            *)
LEMMA NeededAfter ==
  ASSUME MutexInv'
  PROVE  /\ \A t \in Thread : pc'[t] \in Inserting => Needed' = buf'[t].size
         /\ (\A t \in Thread : pc'[t] \notin Inserting) => Needed' = 0
<1>. DEFINE T == {t \in Thread : pc'[t] \in Inserting}
<1>1. Needed' = IF T = {} THEN 0 ELSE buf'[CHOOSE t \in T : TRUE].size
  BY Zenon DEF Needed, Inserting
<1>2. ASSUME NEW t \in Thread, pc'[t] \in Inserting
      PROVE  Needed' = buf'[t].size
  <2>1. T = {t}
    BY <1>2 DEF MutexInv, Inside, Inserting
  <2>. QED
    BY <1>1, <2>1
<1>3. (\A t \in Thread : pc'[t] \notin Inserting) => T = {}
  OBVIOUS
<1>. QED
  BY <1>1, <1>2, <1>3

(* Nobody enters or leaves an insertion.                                   *)
SameInsertion ==
  \A u \in Thread : /\ pc'[u] \in Inserting <=> pc[u] \in Inserting
                    /\ pc[u] \in Inserting => buf'[u] = buf[u]

LEMMA NeededSame ==
  ASSUME MutexInv, MutexInv', SameInsertion
  PROVE  Needed' = Needed
<1>1. CASE \E t \in Thread : pc[t] \in Inserting
  <2>1. PICK t \in Thread : pc[t] \in Inserting
    BY <1>1
  <2>2. pc'[t] \in Inserting /\ buf'[t] = buf[t]
    BY <2>1 DEF SameInsertion
  <2>. QED
    BY <2>1, <2>2, NeededIs, NeededAfter
<1>2. CASE \A t \in Thread : pc[t] \notin Inserting
  <2>1. \A t \in Thread : pc'[t] \notin Inserting
    BY <1>2 DEF SameInsertion
  <2>. QED
    BY <1>2, <2>1, NeededIs, NeededAfter
<1>. QED
  BY <1>1, <1>2

(* The insertion under way holds the mutex; without it there is none.      *)
LEMMA NoneInserting ==
  ASSUME MutexInv, NEW t \in Thread \cup {NoThread}, mutex = t,
         t \in Thread => pc[t] \notin Inserting
  PROVE  Needed = 0
<1>1. \A u \in Thread : pc[u] \notin Inserting
  BY DEF MutexInv, Inside, Inserting
<1>. QED
  BY <1>1, NeededIs

LEMMA NoneInsertingAfter ==
  ASSUME MutexInv', mutex' = NoThread
  PROVE  Needed' = 0
<1>1. \A u \in Thread : pc'[u] \notin Inserting
  BY ProxyCacheAssumption DEF MutexInv, Inside, Inserting
<1>. QED
  BY <1>1, NeededAfter

Stutters == UNCHANGED LRU!lruVars

(* What is done without changing the list, or outside the mutex, is        *)
(* invisible, but for the beginning of an insertion.                       *)
LEMMA QuietRefines ==
  ASSUME CInv, CInv', NEW t \in Thread, QuietAction(t), ~InsertNew(t)
  PROVE  Stutters
<1>1. TypeOK /\ MutexInv /\ MutexInv'
  BY DEF CInv
<1>2. list' = list
  BY QuietSelf DEF Quiet
<1>3. SameInsertion
  <2>. USE <1>1 DEF TypeOK, SameInsertion, Inserting
  <2>1. ASSUME NEW k \in Key, Request(t, k) PROVE SameInsertion
    BY <2>1 DEF Request, Goto
  <2>2. CASE Search(t)
    BY <2>2 DEF Search, Lock, Goto
  <2>3. CASE SearchNext(t)
    BY <2>3 DEF SearchNext
  <2>4. CASE SearchMiss(t)
    BY <2>4 DEF SearchMiss, Goto
  <2>5. CASE HitWrite(t)
    BY <2>5 DEF HitWrite
  <2>6. CASE HitEnd(t)
    BY <2>6 DEF HitEnd, Goto
  <2>7. CASE FetchFails(t)
    BY <2>7 DEF FetchFails, Return, Goto
  <2>8. CASE Fetch(t)
    BY <2>8 DEF Fetch, Goto
  <2>9. CASE StreamChunk(t)
    BY <2>9 DEF StreamChunk
  <2>10. CASE StreamBroken(t)
    BY <2>10 DEF StreamBroken, Goto
  <2>11. CASE StreamEnd(t)
    BY <2>11 DEF StreamEnd, Goto
  <2>12. CASE NotCached(t)
    BY <2>12 DEF NotCached, Return, Goto
  <2>13. CASE Insert(t)
    BY <2>13 DEF Insert, Lock, Goto
  <2>14. CASE InsertNext(t)
    BY <2>14 DEF InsertNext
  <2>15. CASE InsertDuplicate(t)
    BY <2>15 DEF InsertDuplicate, Return, Goto
  <2>16. CASE Evict(t)
    BY <2>16 DEF Evict, Goto
  <2>17. CASE EvictNext(t)
    BY <2>17 DEF EvictNext
  <2>18. CASE EvictNone(t)
    BY <2>18 DEF EvictNone, Goto
  <2>. QED
    BY <2>1, <2>2, <2>3, <2>4, <2>5, <2>6, <2>7, <2>8, <2>9, <2>10, <2>11,
       <2>12, <2>13, <2>14, <2>15, <2>16, <2>17, <2>18, Zenon DEF QuietAction
<1>4. Needed' = Needed
  BY <1>1, <1>3, NeededSame
<1>. QED
  BY <1>2, <1>4 DEF Stutters, LRU!lruVars

(* The room is asked for once the key is known not to be there.            *)
LEMMA InsertNewRefines ==
  ASSUME CInv, CInv', NEW t \in Thread, InsertNew(t)
  PROVE  LRU!Next
<1>1. /\ TypeOK /\ MutexInv /\ MutexInv' /\ Point(t)
      /\ pc[t] = "dup" /\ pc'[t] = "evict" /\ list' = list /\ buf' = buf
  BY DEF CInv, PointInv, InsertNew, Goto, cacheVars, TypeOK
<1>2. mutex = t
  BY <1>1 DEF MutexInv, Inside
<1>3. Needed = 0
  BY <1>1, <1>2, NoneInserting DEF Inserting
<1>4. Needed' = buf[t].size
  BY <1>1, NeededAfter DEF Inserting
<1>5. buf[t].size \in 1..MAX_OBJECT_SIZE
  BY <1>1, ProxyCacheAssumption DEF Point, ToBeCached, TypeOK
<1>6. LRU!Begin(buf[t].size)
  BY <1>1, <1>3, <1>4 DEF LRU!Begin
<1>. QED
  BY <1>5, <1>6 DEF LRU!Next

-----------------------------------------------------------------------------
(* The visible steps.                                                      *)

LEMMA WithoutEntry ==
  ASSUME NEW e \in Seq(EntryRec), NEW i \in 1..Len(e)
  PROVE  /\ LRU!Without(e, i) \in Seq(EntryRec)
         /\ Len(LRU!Without(e, i)) = Len(e) - 1
         /\ \A j \in 1..(Len(e) - 1) :
              LRU!Without(e, i)[j] = e[IF j < i THEN j ELSE j + 1]
BY DEF LRU!Without

(* An entry depends on what an object holds, not on its links.             *)
LEMMA SameEntry ==
  ASSUME NEW o, NEW p, SameObject(o, p), o.reference_cnt = p.reference_cnt
  PROVE  EntryOf(o) = EntryOf(p)
BY DEF SameObject, EntryOf

LEMMA EntryFields ==
  \A o : EntryOf(o).key = o.key /\ EntryOf(o).pins = o.reference_cnt
BY DEF EntryOf

LEMMA HitRefines ==
  ASSUME CInv, CInv', NEW t \in Thread, SearchHit(t)
  PROVE  LRU!Next
<1>. DEFINE a == curr[t]
<1>1. /\ TypeOK /\ OrderInv /\ MutexInv /\ MutexInv' /\ Walk(t)
      /\ pc[t] = "search" /\ a # NULL /\ mutex' = NoThread
  BY DEF CInv, WalkInv, SearchHit
<1>2. PICK i \in 1..Len(Order) : a = Order[i]
  BY <1>1, WalkStands
<1>. DEFINE s == Order
            N == Len(s)
            w == LRU!Without(s, i)
            u == Append(w, s[i])
<1>3. /\ After(u)
      /\ Referenced(a, list.obj[a].reference_cnt + 1)
  BY <1>1, <1>2, HitList
<1>4. /\ s \in Seq(Addr) /\ N \in Nat
      /\ \A j \in 1..N : s[j] \in Addr /\ list.obj[s[j]] \in Obj
      /\ \A j, k \in 1..N : s[j] = s[k] => j = k
  <2>1. \A x \in Addr : list.obj[x] \in Obj
    BY <1>1 DEF TypeOK
  <2>. QED
    BY <1>1, <2>1, OrderFacts DEF OrderInv, Linked
<1>. HIDE DEF s
<1>5. /\ w \in Seq(Addr) /\ Len(w) = N - 1
      /\ \A j \in 1..(N - 1) : w[j] = s[IF j < i THEN j ELSE j + 1]
  BY <1>2, <1>4, WithoutType DEF s
<1>6. /\ Len(u) = N /\ u[N] = s[i]
      /\ \A j \in 1..(N - 1) : u[j] = s[IF j < i THEN j ELSE j + 1]
  <2>. HIDE DEF w
  <2>. QED
    BY <1>2, <1>4, <1>5 DEF s
<1>. HIDE DEF w, u
<1>7. /\ Entries' \in Seq(EntryRec) /\ Len(Entries') = N
      /\ \A j \in 1..N : Entries'[j] = EntryOf(list'.obj[u[j]])
  BY <1>3, <1>6, EntriesTypeAfter
<1>8. /\ Entries \in Seq(EntryRec) /\ Len(Entries) = N
      /\ \A j \in 1..N : Entries[j] = EntryOf(list.obj[s[j]])
  BY <1>1, EntriesType DEF s
<1>. DEFINE e == Entries
            v == LRU!Without(e, i)
            x == [e[i] EXCEPT !.pins = @ + 1]
            y == Append(v, x)
<1>. HIDE DEF e
<1>9. /\ v \in Seq(EntryRec) /\ Len(v) = N - 1
      /\ \A j \in 1..(N - 1) : v[j] = e[IF j < i THEN j ELSE j + 1]
  BY <1>2, <1>8, WithoutEntry DEF e, s
<1>. HIDE DEF v
<1>10. /\ Len(y) = N /\ y \in Seq(EntryRec)
       /\ \A j \in 1..N : y[j] = IF j = N THEN x ELSE v[j]
  <2>1. e[i] \in EntryRec
    <3>1. e \in Seq(EntryRec) /\ i \in 1..Len(e)
      BY <1>2, <1>8 DEF e, s
    <3>. QED
      BY <3>1
  <2>2. x \in EntryRec
    BY <2>1 DEF EntryRec
  <2>. HIDE DEF x
  <2>. QED
    BY <1>4, <1>9, <2>2
<1>. HIDE DEF y
<1>11. ASSUME NEW j \in 1..N
       PROVE  EntryOf(list'.obj[u[j]]) = IF j = N THEN x ELSE v[j]
  <2>1. CASE j = N
    <3>1. u[j] = a
      BY <1>2, <1>6, <2>1 DEF s
    <3>2. /\ SameObject(list'.obj[a], list.obj[a])
          /\ list'.obj[a].reference_cnt = list.obj[a].reference_cnt + 1
      BY <1>2, <1>3, <1>4 DEF Referenced, s
    <3>3. x = [EntryOf(list.obj[a]) EXCEPT !.pins = @ + 1]
      BY <1>2, <1>8 DEF e, s
    <3>. QED
      BY <2>1, <3>1, <3>2, <3>3 DEF SameObject, EntryOf
  <2>2. CASE j # N
    <3>. DEFINE m == IF j < i THEN j ELSE j + 1
    <3>1. j \in 1..(N - 1) /\ m \in 1..N /\ m # i
      BY <1>2, <1>4, <2>2 DEF s
    <3>2. u[j] = s[m] /\ v[j] = e[m]
      BY <1>6, <1>9, <3>1
    <3>. HIDE DEF m
    <3>3. s[m] # a /\ s[m] \in Addr
      BY <1>2, <1>4, <3>1 DEF s
    <3>4. EntryOf(list'.obj[s[m]]) = EntryOf(list.obj[s[m]])
      <4>1. /\ SameObject(list'.obj[s[m]], list.obj[s[m]])
            /\ list'.obj[s[m]].reference_cnt = list.obj[s[m]].reference_cnt
        BY <1>3, <3>3 DEF Referenced
      <4>. QED
        BY <4>1, SameEntry
    <3>. QED
      BY <1>8, <2>2, <3>1, <3>2, <3>4 DEF e
  <2>. QED
    BY <2>1, <2>2
<1>. HIDE DEF x
<1>12. Entries' = y
  <2>1. \A j \in 1..N : Entries'[j] = y[j]
    BY <1>7, <1>10, <1>11
  <2>. QED
    BY <1>7, <1>10, <2>1, SeqEqual
<1>13. Needed = 0 /\ Needed' = 0
  <2>1. mutex = t
    BY <1>1 DEF MutexInv, Inside
  <2>. QED
    BY <1>1, <2>1, NoneInserting, NoneInsertingAfter DEF Inserting
<1>14. LRU!Hit(i)
  BY <1>12, <1>13, Zenon DEF LRU!Hit, Entries, e, x, y, v
<1>15. i \in LRU!Index
  BY <1>2, <1>8 DEF LRU!Index, Entries, s
<1>. QED
  BY <1>14, <1>15 DEF LRU!Next

LEMMA ReleaseRefines ==
  ASSUME CInv, CInv', NEW t \in Thread, Release(t)
  PROVE  LRU!Next
<1>. DEFINE a == curr[t]
            s == Order
            N == Len(s)
            n == list.obj[a].reference_cnt
<1>1. /\ TypeOK /\ OrderInv /\ MutexInv /\ MutexInv' /\ Point(t)
      /\ pc[t] = "release" /\ mutex = NoThread /\ mutex' = NoThread
  BY DEF CInv, PointInv, Release
<1>2. a \in live /\ a \in Addr
  BY <1>1 DEF Point, Holds, live
<1>3. n > 0 /\ n \in Nat
  <2>1. n = Cardinality(Readers(a))
    BY <1>2 DEF CInv, RefsCountReaders, Readers
  <2>2. t \in Readers(a)
    BY <1>1 DEF Readers, Holds
  <2>3. IsFiniteSet(Readers(a))
    BY ReadersFinite
  <2>. QED
    BY <2>1, <2>2, <2>3, FS_EmptySet, FS_CardinalityType
<1>4. After(s) /\ Referenced(a, n - 1)
  BY <1>1, <1>2, <1>3, ReleaseList
<1>5. PICK i \in 1..N : a = s[i]
  BY <1>1, <1>2, OrderFacts
<1>6. /\ s \in Seq(Addr) /\ N \in Nat
      /\ \A j \in 1..N : s[j] \in Addr
      /\ \A j, k \in 1..N : s[j] = s[k] => j = k
  BY <1>1, OrderFacts DEF OrderInv, Linked
<1>7. /\ Entries \in Seq(EntryRec) /\ Len(Entries) = N
      /\ \A j \in 1..N : Entries[j] = EntryOf(list.obj[s[j]])
  BY <1>1, EntriesType
<1>. HIDE DEF s
<1>8. /\ Entries' \in Seq(EntryRec) /\ Len(Entries') = N
      /\ \A j \in 1..N : Entries'[j] = EntryOf(list'.obj[s[j]])
  BY <1>4, EntriesTypeAfter
<1>. DEFINE e == Entries
            x == [e[i] EXCEPT !.pins = @ - 1]
            y == [e EXCEPT ![i] = x]
<1>. HIDE DEF e
<1>9. e[i] \in EntryRec /\ e[i] = EntryOf(list.obj[a]) /\ e[i].pins = n
  BY <1>5, <1>7 DEF e, EntryOf
<1>10. x \in EntryRec
  BY <1>3, <1>9 DEF EntryRec
<1>11. /\ x.key = e[i].key /\ x.size = e[i].size /\ x.pins = n - 1
       /\ x = [key |-> x.key, size |-> x.size, pins |-> x.pins]
  BY <1>9 DEF EntryRec
<1>. HIDE DEF x
<1>12. /\ y \in Seq(EntryRec) /\ Len(y) = N
       /\ \A j \in 1..N : y[j] = IF j = i THEN x ELSE e[j]
  BY <1>7, <1>10 DEF e
<1>. HIDE DEF y
<1>13. ASSUME NEW j \in 1..N
       PROVE  Entries'[j] = y[j]
  <2>1. CASE j = i
    <3>1. /\ SameObject(list'.obj[a], list.obj[a])
          /\ list'.obj[a].reference_cnt = n - 1
      BY <1>2, <1>4 DEF Referenced
    <3>2. Entries'[j] = EntryOf(list'.obj[a])
      BY <1>5, <1>8, <2>1
    <3>. QED
      BY <1>9, <1>11, <1>12, <2>1, <3>1, <3>2 DEF SameObject, EntryOf
  <2>2. CASE j # i
    <3>1. s[j] # a /\ s[j] \in Addr
      BY <1>5, <1>6, <2>2
    <3>2. /\ SameObject(list'.obj[s[j]], list.obj[s[j]])
          /\ list'.obj[s[j]].reference_cnt = list.obj[s[j]].reference_cnt
      BY <1>4, <3>1 DEF Referenced
    <3>3. EntryOf(list'.obj[s[j]]) = EntryOf(list.obj[s[j]])
      BY <3>2, SameEntry
    <3>. QED
      BY <1>7, <1>8, <1>12, <2>2, <3>3 DEF e
  <2>. QED
    BY <2>1, <2>2
<1>14. Entries' = y
  BY <1>8, <1>12, <1>13, SeqEqual
<1>15. Needed = 0 /\ Needed' = 0
  BY <1>1, NoneInserting, NoneInsertingAfter, ProxyCacheAssumption
<1>16. i \in LRU!Index /\ LRU!Pinned(i)
  BY <1>3, <1>5, <1>7, <1>9 DEF LRU!Index, LRU!Pinned, Entries, e
<1>17. LRU!Unpin(i)
  BY <1>14, <1>15, <1>16, Zenon DEF LRU!Unpin, Entries, e, x, y
<1>. QED
  BY <1>16, <1>17 DEF LRU!Next

LEMMA EvictRefines ==
  ASSUME CInv, CInv', NEW t \in Thread, EvictOne(t)
  PROVE  LRU!Next
<1>. DEFINE a == curr[t]
            s == Order
            N == Len(s)
<1>1. /\ TypeOK /\ OrderInv /\ MutexInv /\ MutexInv' /\ Walk(t) /\ Point(t)
      /\ pc[t] = "walk" /\ pc'[t] = "evict" /\ buf' = buf
      /\ a # NULL /\ list.obj[a].reference_cnt = 0
  BY DEF CInv, PointInv, WalkInv, EvictOne, Goto, TypeOK, obj
<1>2. PICK i \in 1..(N + 1) : At(t, i)
  BY <1>1 DEF Walk
<1>3. i \in 1..N /\ a = s[i]
  BY <1>1, <1>2 DEF At
<1>4. \A j \in 1..N : j < i => list.obj[s[j]].reference_cnt > 0
  BY <1>1, <1>2 DEF At, Passed
<1>. DEFINE w == LRU!Without(s, i)
<1>5. /\ After(w)
      /\ live' = live \ {a}
      /\ \A x \in live' :
           /\ SameObject(list'.obj[x], list.obj[x])
           /\ list'.obj[x].reference_cnt = list.obj[x].reference_cnt
  BY <1>1, <1>3, EvictList
<1>6. live' = Range(w)
  BY <1>5, AfterOrder
<1>7. s \in Seq(Addr) /\ N \in Nat
  BY <1>1, OrderFacts
<1>8. /\ w \in Seq(Addr) /\ Len(w) = N - 1
      /\ \A j \in 1..(N - 1) : w[j] = s[IF j < i THEN j ELSE j + 1]
  BY <1>3, <1>7, WithoutType
<1>9. /\ Entries \in Seq(EntryRec) /\ Len(Entries) = N
      /\ \A j \in 1..N : Entries[j] = EntryOf(list.obj[s[j]])
  BY <1>1, EntriesType
<1>. HIDE DEF s, w
<1>10. /\ Entries' \in Seq(EntryRec) /\ Len(Entries') = N - 1
       /\ \A j \in 1..(N - 1) : Entries'[j] = EntryOf(list'.obj[w[j]])
  BY <1>5, <1>8, EntriesTypeAfter
<1>. DEFINE e == Entries
            v == LRU!Without(e, i)
<1>. HIDE DEF e
<1>11. /\ v \in Seq(EntryRec) /\ Len(v) = N - 1
       /\ \A j \in 1..(N - 1) : v[j] = e[IF j < i THEN j ELSE j + 1]
  BY <1>3, <1>9, WithoutEntry DEF e
<1>. HIDE DEF v
<1>12. ASSUME NEW j \in 1..(N - 1)
       PROVE  Entries'[j] = v[j]
  <2>. DEFINE m == IF j < i THEN j ELSE j + 1
  <2>1. m \in 1..N
    BY <1>7
  <2>2. w[j] = s[m] /\ v[j] = e[m]
    BY <1>8, <1>11
  <2>3. w[j] \in live'
    <3>1. j \in DOMAIN w
      BY <1>8
    <3>. QED
      BY <1>6, <3>1 DEF Range
  <2>. HIDE DEF m
  <2>4. /\ SameObject(list'.obj[w[j]], list.obj[w[j]])
        /\ list'.obj[w[j]].reference_cnt = list.obj[w[j]].reference_cnt
    BY <1>5, <2>3
  <2>5. EntryOf(list'.obj[w[j]]) = EntryOf(list.obj[w[j]])
    BY <2>4, SameEntry
  <2>. QED
    BY <1>9, <1>10, <2>1, <2>2, <2>5 DEF e
<1>13. Entries' = v
  BY <1>10, <1>11, <1>12, SeqEqual
<1>14. Needed = buf[t].size /\ Needed' = buf[t].size
  BY <1>1, NeededIs, NeededAfter DEF Inserting
<1>15. buf[t].size \in Nat /\ buf[t].size > 0
  BY <1>1, ProxyCacheAssumption DEF Point, ToBeCached, TypeOK
<1>16. Needed > 0 /\ ~LRU!Fits
  <2>1. buf[t].size + size > MAX_CACHE_SIZE
    BY <1>1 DEF Point
  <2>2. Cardinality(LRU!Taken) = size
    BY TakenIsSize
  <2>3. size \in Nat /\ MAX_CACHE_SIZE \in Nat
    BY <1>1, ProxyCacheAssumption DEF TypeOK
  <2>4. LRU!Fits <=> Needed + Cardinality(LRU!Taken) <= MAX_CACHE_SIZE
    BY SameCardinality, Zenon DEF LRU!Fits
  <2>. QED
    BY <1>14, <1>15, <2>1, <2>2, <2>3, <2>4
<1>17. i \in LRU!Index /\ ~LRU!Pinned(i)
  <2>1. Entries[i] = EntryOf(list.obj[a])
    BY <1>3, <1>9, Zenon
  <2>2. EntryOf(list.obj[a]).pins = 0
    BY <1>1 DEF EntryOf
  <2>3. ~(Entries[i].pins > 0)
    BY <2>1, <2>2
  <2>4. i \in DOMAIN Entries
    BY <1>3, <1>9
  <2>. QED
    BY <2>3, <2>4, Zenon DEF LRU!Index, LRU!Pinned, Entries
<1>18. \A j \in LRU!Index : j < i => LRU!Pinned(j)
  <2>1. \A j \in 1..N : j < i => Entries[j].pins > 0
    BY <1>4, <1>9, EntryFields
  <2>2. DOMAIN Entries = 1..N
    BY <1>9
  <2>. QED
    BY <2>1, <2>2, Zenon DEF LRU!Index, LRU!Pinned, Entries
<1>19. LRU!EvictLRU(i)
  BY <1>13, <1>14, <1>16, <1>17, <1>18, Zenon DEF LRU!EvictLRU, Entries, e, v
<1>. QED
  BY <1>17, <1>19, Zenon DEF LRU!Next

LEMMA AddRefines ==
  ASSUME CInv, CInv', NEW t \in Thread, Add(t)
  PROVE  LRU!Next
<1>. DEFINE s == Order
            N == Len(s)
            k == key[t]
            b == buf[t].size
<1>1. /\ TypeOK /\ OrderInv /\ MutexInv /\ MutexInv' /\ Point(t)
      /\ pc[t] = "add" /\ k \in Key /\ mutex' = NoThread
      /\ \A x \in live : list.obj[x].key # k
  BY DEF CInv, PointInv, Point, Add
<1>2. PICK a \in Addr \ live :
        /\ After(Append(s, a))
        /\ live' = live \cup {a}
        /\ \A x \in live :
             /\ SameObject(list'.obj[x], list.obj[x])
             /\ list'.obj[x].reference_cnt = list.obj[x].reference_cnt
        /\ list'.obj[a].key = k /\ list'.obj[a].size = b
        /\ list'.obj[a].of = sent[t] /\ list'.obj[a].reference_cnt = 0
  BY <1>1, AddList
<1>. DEFINE u == Append(s, a)
<1>3. /\ s \in Seq(Addr) /\ N \in Nat
      /\ \A j \in 1..N : s[j] \in live
  BY <1>1, OrderFacts
<1>4. /\ Entries \in Seq(EntryRec) /\ Len(Entries) = N
      /\ \A j \in 1..N : Entries[j] = EntryOf(list.obj[s[j]])
  BY <1>1, EntriesType
<1>. HIDE DEF s
<1>5. /\ Len(u) = N + 1 /\ u[N + 1] = a
      /\ \A j \in 1..N : u[j] = s[j]
  BY <1>3
<1>. HIDE DEF u
<1>6. /\ Entries' \in Seq(EntryRec) /\ Len(Entries') = N + 1
      /\ \A j \in 1..(N + 1) : Entries'[j] = EntryOf(list'.obj[u[j]])
  <2>1. After(u)
    BY <1>2 DEF u
  <2>. QED
    BY <1>5, <2>1, EntriesTypeAfter
<1>7. Needed = b /\ Needed' = 0
  BY <1>1, NeededIs, NoneInsertingAfter DEF Inserting
<1>8. b \in Nat /\ b > 0
  BY <1>1, ProxyCacheAssumption DEF Point, ToBeCached, TypeOK
<1>. HIDE DEF k, b
<1>. DEFINE e == Entries
            x == [key |-> k, size |-> Needed, pins |-> 0]
            y == Append(e, x)
<1>. HIDE DEF e
<1>9. x \in EntryRec /\ x = EntryOf(list'.obj[a])
  BY <1>1, <1>2, <1>7, <1>8 DEF EntryRec, EntryOf
<1>. HIDE DEF x
<1>10. /\ y \in Seq(EntryRec) /\ Len(y) = N + 1 /\ y[N + 1] = x
       /\ \A j \in 1..N : y[j] = e[j]
  BY <1>3, <1>4, <1>9 DEF e
<1>. HIDE DEF y
<1>11. ASSUME NEW j \in 1..(N + 1)
       PROVE  Entries'[j] = y[j]
  <2>1. CASE j = N + 1
    BY <1>5, <1>6, <1>9, <1>10, <2>1
  <2>2. CASE j # N + 1
    <3>1. j \in 1..N /\ s[j] \in live
      BY <1>3, <2>2
    <3>2. /\ SameObject(list'.obj[s[j]], list.obj[s[j]])
          /\ list'.obj[s[j]].reference_cnt = list.obj[s[j]].reference_cnt
      BY <1>2, <3>1
    <3>3. EntryOf(list'.obj[s[j]]) = EntryOf(list.obj[s[j]])
      BY <3>2, SameEntry
    <3>. QED
      BY <1>4, <1>5, <1>6, <1>10, <3>1, <3>3 DEF e
  <2>. QED
    BY <2>1, <2>2
<1>12. Entries' = y
  BY <1>6, <1>10, <1>11, SeqEqual
<1>13. DOMAIN Entries = 1..N
  BY <1>4
<1>14. ~LRU!Cached(k)
  <2>1. \A j \in 1..N : Entries[j].key # k
    BY <1>1, <1>3, <1>4, EntryFields
  <2>. QED
    BY <1>13, <2>1, Zenon DEF LRU!Cached, LRU!Index, Entries
<1>15. LRU!Fits \/ \A j \in LRU!Index : LRU!Pinned(j)
  <2>1. CASE b + size <= MAX_CACHE_SIZE
    <3>1. Cardinality(LRU!Taken) = size
      BY TakenIsSize
    <3>2. LRU!Fits <=> Needed + Cardinality(LRU!Taken) <= MAX_CACHE_SIZE
      BY SameCardinality, Zenon DEF LRU!Fits
    <3>. QED
      BY <1>7, <2>1, <3>1, <3>2
  <2>2. CASE \A c \in live : list.obj[c].reference_cnt > 0
    <3>1. \A j \in 1..N : Entries[j].pins > 0
      BY <1>3, <1>4, <2>2, EntryFields
    <3>. QED
      BY <1>13, <3>1, Zenon DEF LRU!Pinned, LRU!Index, Entries
  <2>. QED
    BY <1>1, <2>1, <2>2 DEF Point, b
<1>16. LRU!Finish(k)
  BY <1>7, <1>8, <1>12, <1>14, <1>15, Zenon DEF LRU!Finish, Entries, e, x, y
<1>. QED
  BY <1>1, <1>16, Zenon DEF LRU!Next

-----------------------------------------------------------------------------

LEMMA InitRefines == Init => LRU!Init
<1>. SUFFICES ASSUME Init PROVE LRU!Init
  OBVIOUS
<1>1. CInv
  BY CInvInit
<1>2. TypeOK /\ OrderInv /\ MutexInv
  BY <1>1 DEF CInv
<1>3. live = {}
  BY DEF Init, live, Freed
<1>4. Len(Order) = 0
  <2>1. \A i \in 1..Len(Order) : FALSE
    BY <1>2, <1>3, OrderFacts
  <2>2. Len(Order) \in Nat
    BY <1>2, OrderFacts
  <2>. QED
    BY <2>1, <2>2
<1>5. Entries = <<>>
  BY <1>2, <1>4, EntriesType
<1>6. Needed = 0
  <2>1. mutex = NoThread
    BY DEF Init
  <2>. QED
    BY <1>2, <2>1, NoneInserting, ProxyCacheAssumption
<1>. QED
  BY <1>5, <1>6, Zenon DEF LRU!Init, Entries

LEMMA StepRefines ==
  CInv /\ CInv' /\ [Next]_vars => [LRU!Next]_LRU!lruVars
<1>1. SUFFICES ASSUME CInv, CInv', [Next]_vars PROVE LRU!Next \/ Stutters
  BY DEF Stutters
<1>2. CASE UNCHANGED vars
  BY <1>2 DEF vars, Stutters, LRU!lruVars, Needed
<1>3. ASSUME NEW t \in Thread, Step(t) \/ \E k \in Key : Request(t, k)
      PROVE  LRU!Next \/ Stutters
  <2>1. \/ QuietAction(t) \/ SearchHit(t) \/ Release(t)
        \/ EvictOne(t) \/ Add(t)
    BY <1>3 DEF Step, QuietAction
  <2>. QED
    BY <1>1, <2>1, QuietRefines, InsertNewRefines, HitRefines, ReleaseRefines,
       EvictRefines, AddRefines
<1>. QED
  BY <1>1, <1>2, <1>3 DEF Next

(* The list of the code, walked from its head, is a least-recently-used    *)
(* cache with pinned entries: search_cache_obj, free_cache_obj and         *)
(* insert_cache_obj_to_cache do to it what LRUCache allows, in every       *)
(* interleaving.                                                           *)
THEOREM CacheIsLRU == Spec => ImplementsLRU
<1>1. Init => LRU!Init
  BY InitRefines
<1>2. CInv /\ CInv' /\ [Next]_vars => [LRU!Next]_LRU!lruVars
  BY StepRefines
<1>. QED
  BY <1>1, <1>2, CacheInvariant, PTL DEF Spec, ImplementsLRU, LRU!Spec
=============================================================================
