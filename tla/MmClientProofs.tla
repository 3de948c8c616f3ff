--------------------------- MODULE MmClientProofs ---------------------------
(***************************************************************************)
(* A program that uses the allocator, for any ids, sizes and limits: the   *)
(* driver's checks never fail, the heap is consistent, and no block is     *)
(* lost.                                                                   *)
(*                                                                         *)
(* Two hypotheses are needed, and the code is wrong without either:        *)
(* BalancedTraces, as mm_init does not reset the mini list, and            *)
(* RequestsFit, as malloc adds the header to a size without a check.       *)
(***************************************************************************)
EXTENDS MmClient, MmProofs

USE DEF wsize, dsize, min_block_size, new_mini_block_size, NULL

-----------------------------------------------------------------------------
(* The ranges of the driver.                                               *)

(* The payloads of all ids.                                                *)
Payloads(bl) == {bl[i] : i \in Index} \ {0}

(* The links of the ranges go up and down in the order of the addresses,   *)
(* and each has its counterpart.                                           *)
Chained(at, P) ==
  \A l \in P :
     /\ at[l].next # 0 => at[l].next \in P /\ l < at[l].next /\ at[at[l].next].prev = l
     /\ at[l].prev # 0 => at[l].prev \in P /\ at[l].prev < l /\ at[at[l].prev].next = l

(* The record of a range.                                                  *)
RangeRecord == [hi : Int, index : Index, prev : Addr, next : Addr]

(* The ranges are those of the payloads.                                   *)
RangesAre(rs, bl, sz) ==
  /\ DOMAIN rs.at = Payloads(bl)
  /\ \A l \in Payloads(bl) : rs.at[l] \in RangeRecord
  /\ \A i \in Index : bl[i] # 0 => rs.at[bl[i]].hi = bl[i] + sz[i] - 1
  /\ Chained(rs.at, Payloads(bl))

(* No two ids have the same payload.                                       *)
Distinct(bl) == \A i, j \in Index : bl[i] = bl[j] => bl[i] = 0 \/ i = j

(* NULL is an address as well, and all addresses are numbers.              *)
LEMMA NoneNull == 0 \in Addr /\ \A l \in Addr : l \in Nat
BY AddrIs

(* An id loses its payload and the others keep theirs.                     *)
LEMMA Dropped ==
  ASSUME NEW bl \in [Index -> Addr], Distinct(bl), NEW index \in Index,
         NEW bl0, bl0 = [bl EXCEPT ![index] = 0]
  PROVE  /\ bl0 \in [Index -> Addr] /\ Distinct(bl0) /\ bl0[index] = 0
         /\ Payloads(bl0) = Payloads(bl) \ {bl[index]}
         /\ \A i \in Index : bl0[i] # 0 => i # index /\ bl0[i] = bl[i]
<1>1. \A i \in Index : bl0[i] = IF i = index THEN 0 ELSE bl[i] OBVIOUS
<1>2. bl0 \in [Index -> Addr] BY NoneNull
<1>3. Distinct(bl0) BY <1>1 DEF Distinct
<1>4. Payloads(bl0) \subseteq Payloads(bl) \ {bl[index]} BY <1>1 DEF Payloads, Distinct
<1>5. Payloads(bl) \ {bl[index]} \subseteq Payloads(bl0) BY <1>1 DEF Payloads
<1> QED BY <1>1, <1>2, <1>3, <1>4, <1>5

(* The blocks after one has been given to an id that had none.             *)
Adopting(bl, bl2, index, bp) ==
  /\ bl2 \in [Index -> Addr] /\ Distinct(bl2) /\ bl2[index] = bp
  /\ Payloads(bl2) = Payloads(bl) \cup {bp}
  /\ \A i \in Index : i # index => bl2[i] = bl[i]

(* An id gets a payload that no other has.                                 *)
LEMMA Adopted ==
  ASSUME NEW bl \in [Index -> Addr], Distinct(bl), NEW index \in Index, bl[index] = 0,
         NEW bp \in Addr, bp # 0, bp \notin Payloads(bl),
         NEW bl2, bl2 = [bl EXCEPT ![index] = bp]
  PROVE  Adopting(bl, bl2, index, bp)
<1>1. \A i \in Index : bl2[i] = IF i = index THEN bp ELSE bl[i] OBVIOUS
<1>2. bl2 \in [Index -> Addr] OBVIOUS
<1>3. Distinct(bl2) BY <1>1 DEF Distinct, Payloads
<1>4. Payloads(bl2) \subseteq Payloads(bl) \cup {bp} BY <1>1 DEF Payloads
<1>5. Payloads(bl) \cup {bp} \subseteq Payloads(bl2)
  <2>1. bp \in Payloads(bl2) BY <1>1 DEF Payloads
  <2>2. ASSUME NEW l \in Payloads(bl) PROVE l \in Payloads(bl2)
    <3>1. PICK i \in Index : l = bl[i] /\ l # 0 BY DEF Payloads
    <3>2. i # index BY <3>1
    <3> QED BY <3>1, <3>2, <1>1 DEF Payloads
  <2> QED BY <2>1, <2>2
<1> QED BY <1>1, <1>2, <1>3, <1>4, <1>5 DEF Adopting

(* Taking a range out keeps the links of the others.                       *)
LEMMA RemoveRange ==
  ASSUME NEW bl \in [Index -> Addr], Distinct(bl), NEW sz, NEW rs, RangesAre(rs, bl, sz),
         NEW index \in Index, NEW bl0, bl0 = [bl EXCEPT ![index] = 0],
         NEW sz0, \A i \in Index : i # index => sz0[i] = sz[i],
         NEW rs0, rs0 = remove_range(rs, bl[index])
  PROVE  RangesAre(rs0, bl0, sz0)
<1> DEFINE P == Payloads(bl)
           lo == bl[index]
           Q == P \ {lo}
           at == rs.at
           r == at[lo]
           at0 == rs0.at
<1>1. /\ bl0 \in [Index -> Addr] /\ bl0[index] = 0 /\ Payloads(bl0) = Q
      /\ \A i \in Index : bl0[i] # 0 => i # index /\ bl0[i] = bl[i]
  <2>1. /\ bl0 \in [Index -> Addr] /\ bl0[index] = 0 /\ Payloads(bl0) = Payloads(bl) \ {bl[index]}
        /\ \A i \in Index : bl0[i] # 0 => i # index /\ bl0[i] = bl[i]
    <3>1. /\ bl \in [Index -> Addr] /\ Distinct(bl) /\ index \in Index
          /\ bl0 = [bl EXCEPT ![index] = 0]
      OBVIOUS
    <3> QED BY ONLY <3>1, Dropped
  <2> QED BY <2>1
<1>2. /\ DOMAIN at = P /\ \A l \in P : at[l] \in RangeRecord
      /\ \A i \in Index : bl[i] # 0 => at[bl[i]].hi = bl[i] + sz[i] - 1
      /\ Chained(at, P) /\ 0 \notin P /\ P \subseteq Nat
  BY NoneNull DEF RangesAre, Payloads
<1>3. CASE lo \notin P
  <2>1. rs0 = rs BY <1>2, <1>3 DEF remove_range
  <2>2. Q = P BY <1>3
  <2> QED BY <1>1, <1>2, <2>1, <2>2 DEF RangesAre
<1>4. CASE lo \in P
  <2> DEFINE t == [l \in Q |->
                       [at[l] EXCEPT !.next = IF l = r.prev THEN r.next ELSE @,
                                     !.prev = IF l = r.next THEN r.prev ELSE @]]
  <2>1. at0 = t BY <1>2, <1>4 DEF remove_range
  <2>2. \A l \in Q : at[l] \in RangeRecord BY <1>2
  <2>3. r \in RangeRecord BY <1>2, <1>4
  <2>4. DOMAIN t = Q OBVIOUS
  <2>5. \A l \in Q : /\ t[l] \in RangeRecord /\ t[l].hi = at[l].hi
                     /\ t[l].next = IF l = r.prev THEN r.next ELSE at[l].next
                     /\ t[l].prev = IF l = r.next THEN r.prev ELSE at[l].prev
    BY <2>2, <2>3 DEF RangeRecord
  <2> HIDE DEF t, at0, at, Q, P, lo, r
  <2>6. \A l \in P :
           /\ at[l].next # 0 => at[l].next \in P /\ l < at[l].next /\ at[at[l].next].prev = l
           /\ at[l].prev # 0 => at[l].prev \in P /\ at[l].prev < l /\ at[at[l].prev].next = l
    BY <1>2 DEF Chained
  <2>7. /\ r.next # 0 => r.next \in P /\ lo < r.next /\ at[r.next].prev = lo
        /\ r.prev # 0 => r.prev \in P /\ r.prev < lo /\ at[r.prev].next = lo
    BY <2>6, <1>4 DEF r
  <2>8. lo \in Nat /\ (r.next # 0 => r.next \in Q) /\ (r.prev # 0 => r.prev \in Q)
        /\ Q \subseteq P /\ Q \subseteq Nat /\ 0 \notin Q
    BY <1>2, <1>4, <2>7 DEF Q
  <2>9. Chained(t, Q)
    <3> SUFFICES ASSUME NEW l \in Q
                 PROVE  /\ t[l].next # 0 => t[l].next \in Q /\ l < t[l].next /\ t[t[l].next].prev = l
                        /\ t[l].prev # 0 => t[l].prev \in Q /\ t[l].prev < l /\ t[t[l].prev].next = l
      BY DEF Chained
    <3>0. l \in P /\ l # lo /\ l \in Nat /\ l # 0 BY <2>8 DEF Q
    <3>1. ASSUME t[l].next # 0
          PROVE  t[l].next \in Q /\ l < t[l].next /\ t[t[l].next].prev = l
      <4>1. CASE l = r.prev
        <5>1. t[l].next = r.next BY <4>1, <2>5
        <5>2. r.next \in Q /\ r.next \in Nat /\ lo < r.next /\ l < lo BY <5>1, <3>1, <4>1, <3>0, <2>7, <2>8
        <5>3. t[r.next].prev = r.prev BY <5>2, <2>5
        <5> QED BY <5>1, <5>2, <5>3, <4>1, <3>0, <2>8
      <4>2. CASE l # r.prev
        <5>1. t[l].next = at[l].next BY <4>2, <2>5
        <5> DEFINE k == at[l].next
        <5>2. k \in P /\ l < k /\ at[k].prev = l BY <5>1, <3>0, <3>1, <2>6
        <5>3. k # lo BY <5>2, <4>2 DEF r
        <5>4. k # r.next BY <5>2, <3>0, <2>7
        <5>5. k \in Q BY <5>2, <5>3 DEF Q
        <5>6. t[k].prev = at[k].prev BY <5>4, <5>5, <2>5
        <5> QED BY <5>1, <5>2, <5>5, <5>6
      <4> QED BY <4>1, <4>2
    <3>2. ASSUME t[l].prev # 0
          PROVE  t[l].prev \in Q /\ t[l].prev < l /\ t[t[l].prev].next = l
      <4>1. CASE l = r.next
        <5>1. t[l].prev = r.prev BY <4>1, <2>5
        <5>2. r.prev \in Q /\ r.prev \in Nat /\ r.prev < lo /\ lo < l BY <5>1, <3>2, <4>1, <3>0, <2>7, <2>8
        <5>3. t[r.prev].next = r.next BY <5>2, <2>5
        <5> QED BY <5>1, <5>2, <5>3, <4>1, <3>0, <2>8
      <4>2. CASE l # r.next
        <5>1. t[l].prev = at[l].prev BY <4>2, <2>5
        <5> DEFINE k == at[l].prev
        <5>2. k \in P /\ k < l /\ at[k].next = l BY <5>1, <3>0, <3>2, <2>6
        <5>3. k # lo BY <5>2, <4>2 DEF r
        <5>4. k # r.prev
          <6>1. k # 0 BY <5>1, <3>2
          <6> QED BY <6>1, <5>2, <3>0, <2>7
        <5>5. k \in Q BY <5>2, <5>3 DEF Q
        <5>6. t[k].next = at[k].next BY <5>4, <5>5, <2>5
        <5> QED BY <5>1, <5>2, <5>5, <5>6
      <4> QED BY <4>1, <4>2
    <3> QED BY <3>1, <3>2
  <2>10. \A i \in Index : bl0[i] # 0 => t[bl0[i]].hi = bl0[i] + sz0[i] - 1
    <3> SUFFICES ASSUME NEW i \in Index, bl0[i] # 0 PROVE t[bl0[i]].hi = bl0[i] + sz0[i] - 1
      OBVIOUS
    <3>1. i # index /\ bl0[i] = bl[i] /\ sz0[i] = sz[i] BY <1>1
    <3>2. bl0[i] \in Q BY <1>1 DEF Payloads
    <3>3. at[bl[i]].hi = bl[i] + sz[i] - 1 BY <3>1, <1>2
    <3> QED BY <3>1, <3>2, <3>3, <2>5
  <2> QED BY <1>1, <2>1, <2>4, <2>5, <2>9, <2>10 DEF RangesAre, at0
<1> QED BY <1>3, <1>4

-----------------------------------------------------------------------------
(* A range is added.                                                       *)

(* The nearest range below an address that is not in the tree.             *)
LEMMA NearestIs ==
  ASSUME NEW P \in SUBSET Nat, 0 \notin P, NEW lo \in Nat, lo \notin P,
         NEW rs, DOMAIN rs.at = P, NEW p, p = tree_find_nearest(rs, lo)
  PROVE  \/ p = 0 /\ \A l \in P : l > lo
         \/ p \in P /\ p < lo /\ \A k \in P : k < lo => k <= p
<1>1. CASE \A l \in P : l > lo BY <1>1 DEF tree_find_nearest
<1>2. CASE ~ \A l \in P : l > lo
  <2> DEFINE S == {d \in Nat : d <= lo /\ lo - d \in P}
             Near(l) == l <= lo /\ \A k \in P : k <= lo => k <= l
  <2>0. PICK l \in P : ~(l > lo) BY <1>2
  <2>1. l \in P /\ l <= lo
    <3>1. l \in Nat OBVIOUS
    <3> QED BY <2>0, <3>1
  <2>2. lo - l \in S BY <2>1
  <2>3. S \in SUBSET Nat /\ S # {} BY <2>2
  <2>4. PICK d \in S : \A k \in S : d <= k BY <2>3, LeastNat
  <2>5. lo - d \in P /\ Near(lo - d)
    <3>1. d \in Nat /\ d <= lo /\ lo - d \in P BY <2>4
    <3>2. ASSUME NEW k \in P, k <= lo PROVE k <= lo - d
      <4>1. lo - k \in S BY <3>2
      <4>2. d <= lo - k BY <4>1, <2>4
      <4> QED BY <4>2, <3>1
    <3> QED BY <3>1, <3>2
  <2>6. p = CHOOSE c \in P : Near(c) BY <1>2 DEF tree_find_nearest
  <2>7. p \in P /\ Near(p) BY <2>5, <2>6
  <2>8. p # lo BY <2>7
  <2> QED BY <2>7, <2>8
<1> QED BY <1>1, <1>2

(* Adding a range, between the nearest below and what follows it, keeps    *)
(* the links of the others.                                                *)
LEMMA AddRange ==
  ASSUME NEW bl \in [Index -> Addr], Distinct(bl), NEW sz, NEW rs, RangesAre(rs, bl, sz),
         NEW index \in Index, bl[index] = 0, NEW lo \in Addr, lo # 0, lo \notin Payloads(bl),
         NEW bl2, bl2 = [bl EXCEPT ![index] = lo], NEW size \in Nat,
         NEW sz2, \A i \in Index : sz2[i] = IF i = index THEN size ELSE sz[i],
         NEW rs2, rs2 = add_range(rs, lo, size, index)
  PROVE  RangesAre(rs2, bl2, sz2)
<1> DEFINE P == Payloads(bl)
           Q == P \cup {lo}
           at == rs.at
           p == tree_find_nearest(rs, lo)
           n == next_range(rs, p)
           new == [hi |-> lo + size - 1, index |-> index, prev |-> p, next |-> n]
           at2 == rs2.at
           t == [l \in Q |->
                     IF l = lo THEN new
                     ELSE [at[l] EXCEPT !.next = IF l = p THEN lo ELSE @,
                                        !.prev = IF l = n THEN lo ELSE @]]
<1>1. /\ bl2 \in [Index -> Addr] /\ bl2[index] = lo /\ Payloads(bl2) = Q
      /\ \A i \in Index : i # index => bl2[i] = bl[i]
  <2>1. /\ bl2 \in [Index -> Addr] /\ bl2[index] = lo /\ Payloads(bl2) = Payloads(bl) \cup {lo}
        /\ \A i \in Index : i # index => bl2[i] = bl[i]
    <3>1. /\ bl \in [Index -> Addr] /\ Distinct(bl) /\ index \in Index /\ bl[index] = 0
          /\ lo \in Addr /\ lo # 0 /\ lo \notin Payloads(bl)
          /\ bl2 = [bl EXCEPT ![index] = lo]
      OBVIOUS
    <3>2. Adopting(bl, bl2, index, lo) BY ONLY <3>1, Adopted
    <3> QED BY <3>2 DEF Adopting
  <2> QED BY <2>1
<1>2. /\ DOMAIN at = P /\ \A l \in P : at[l] \in RangeRecord
      /\ \A i \in Index : bl[i] # 0 => at[bl[i]].hi = bl[i] + sz[i] - 1
      /\ Chained(at, P) /\ 0 \notin P /\ P \in SUBSET Nat /\ P \subseteq Addr
  BY NoneNull DEF RangesAre, Payloads
<1>3. lo \in Nat /\ lo \in Addr /\ lo # 0 /\ lo \notin P BY NoneNull
<1>4. at2 = t BY <1>2 DEF add_range
<1>5. DOMAIN t = Q OBVIOUS
<1> HIDE DEF at2
<1>6. \/ p = 0 /\ \A l \in P : l > lo
      \/ p \in P /\ p < lo /\ \A k \in P : k < lo => k <= p
  <2> HIDE DEF P
  <2> QED BY <1>2, <1>3, NearestIs
<1>7. n = IF p # 0 THEN at[p].next ELSE 0 BY DEF next_range
<1> HIDE DEF p, n
<1>8. \A l \in P :
         /\ at[l].next # 0 => at[l].next \in P /\ l < at[l].next /\ at[at[l].next].prev = l
         /\ at[l].prev # 0 => at[l].prev \in P /\ at[l].prev < l /\ at[at[l].prev].next = l
  BY <1>2 DEF Chained
<1>9. n # 0 => p # 0 /\ n \in P /\ lo < n /\ at[n].prev = p /\ at[p].next = n
  <2> SUFFICES ASSUME n # 0 PROVE p # 0 /\ n \in P /\ lo < n /\ at[n].prev = p /\ at[p].next = n
    OBVIOUS
  <2>1. p # 0 /\ n = at[p].next BY <1>7
  <2>2. p \in P /\ p < lo /\ \A k \in P : k < lo => k <= p BY <2>1, <1>6
  <2>3. n \in P /\ p < n /\ at[n].prev = p BY <2>1, <2>2, <1>8
  <2>4. n \in Nat /\ p \in Nat /\ n # lo BY <2>2, <2>3, <1>2, <1>3
  <2>5. ~(n < lo) BY <2>2, <2>3, <2>4
  <2> QED BY <2>1, <2>3, <2>4, <2>5, <1>3
<1>10. p # 0 => p \in P /\ p < lo BY <1>6
<1>11. p \in Addr /\ n \in Addr BY <1>2, <1>9, <1>10, NoneNull
<1>12. t[lo] \in RangeRecord /\ t[lo].hi = lo + size - 1 /\ t[lo].prev = p /\ t[lo].next = n
  <2>1. t[lo] = new OBVIOUS
  <2>2. new \in RangeRecord BY <1>3, <1>11 DEF RangeRecord
  <2> QED BY <2>1, <2>2
<1>13. \A l \in P : /\ t[l] \in RangeRecord /\ t[l].hi = at[l].hi
                    /\ t[l].next = IF l = p THEN lo ELSE at[l].next
                    /\ t[l].prev = IF l = n THEN lo ELSE at[l].prev
  <2> TAKE l \in P
  <2>1. l \in Q /\ l # lo BY <1>3
  <2>2. t[l] = [at[l] EXCEPT !.next = IF l = p THEN lo ELSE @,
                             !.prev = IF l = n THEN lo ELSE @]
    BY <2>1
  <2>3. at[l] \in RangeRecord BY <1>2
  <2> HIDE DEF t
  <2> QED BY <2>2, <2>3, <1>3 DEF RangeRecord
<1> HIDE DEF t, at, Q, P, new
<1>14. \A l \in Q : l = lo \/ l \in P BY DEF Q
<1>15. lo \in Q /\ P \subseteq Q BY DEF Q
<1>16. Chained(t, Q)
  <2> SUFFICES ASSUME NEW l \in Q
               PROVE  /\ t[l].next # 0 => t[l].next \in Q /\ l < t[l].next /\ t[t[l].next].prev = l
                      /\ t[l].prev # 0 => t[l].prev \in Q /\ t[l].prev < l /\ t[t[l].prev].next = l
    BY DEF Chained
  <2>1. CASE l = lo
    <3>1. n # 0 => t[n].prev = lo /\ n \in Q /\ lo < n BY <1>9, <1>13, <1>15
    <3>2. p # 0 => t[p].next = lo /\ p \in Q /\ p < lo BY <1>10, <1>13, <1>15
    <3> QED BY <2>1, <3>1, <3>2, <1>12
  <2>2. CASE l # lo
    <3>0. l \in P /\ l \in Nat /\ l # 0 BY <2>2, <1>2, <1>14
    <3>1. ASSUME t[l].next # 0
          PROVE  t[l].next \in Q /\ l < t[l].next /\ t[t[l].next].prev = l
      <4>1. CASE l = p
        <5>1. t[l].next = lo BY <4>1, <3>0, <1>13
        <5> QED BY <5>1, <4>1, <3>0, <1>10, <1>12, <1>15
      <4>2. CASE l # p
        <5> DEFINE k == at[l].next
        <5>1. t[l].next = k BY <4>2, <3>0, <1>13
        <5>2. k # 0 BY <5>1, <3>1
        <5>3. k \in P /\ l < k /\ at[k].prev = l BY <5>2, <3>0, <1>8
        <5> HIDE DEF k
        <5>4. k # n BY <5>2, <5>3, <4>2, <1>9
        <5>5. t[k].prev = l BY <5>3, <5>4, <1>13
        <5> QED BY <5>1, <5>3, <5>5, <1>15
      <4> QED BY <4>1, <4>2
    <3>2. ASSUME t[l].prev # 0
          PROVE  t[l].prev \in Q /\ t[l].prev < l /\ t[t[l].prev].next = l
      <4>1. CASE l = n
        <5>1. t[l].prev = lo BY <4>1, <3>0, <1>13
        <5> QED BY <5>1, <4>1, <3>0, <1>9, <1>12, <1>15
      <4>2. CASE l # n
        <5> DEFINE k == at[l].prev
        <5>1. t[l].prev = k BY <4>2, <3>0, <1>13
        <5>2. k # 0 BY <5>1, <3>2
        <5>3. k \in P /\ k < l /\ at[k].next = l BY <5>2, <3>0, <1>8
        <5> HIDE DEF k
        <5>4. k # p
          <6> SUFFICES ASSUME k = p PROVE FALSE OBVIOUS
          <6>1. n = l BY <5>2, <5>3, <1>7
          <6> QED BY <6>1, <4>2
        <5>5. t[k].next = l BY <5>3, <5>4, <1>13
        <5> QED BY <5>1, <5>3, <5>5, <1>15
      <4> QED BY <4>1, <4>2
    <3> QED BY <3>1, <3>2
  <2> QED BY <2>1, <2>2
<1>17. \A i \in Index : bl2[i] # 0 => t[bl2[i]].hi = bl2[i] + sz2[i] - 1
  <2> SUFFICES ASSUME NEW i \in Index, bl2[i] # 0 PROVE t[bl2[i]].hi = bl2[i] + sz2[i] - 1
    OBVIOUS
  <2>1. CASE i = index BY <2>1, <1>1, <1>12
  <2>2. CASE i # index
    <3>1. bl2[i] = bl[i] /\ sz2[i] = sz[i] BY <2>2, <1>1
    <3>2. bl[i] \in P BY <3>1 DEF P, Payloads
    <3>3. at[bl[i]].hi = bl[i] + sz[i] - 1 BY <3>1, <1>2
    <3> QED BY <3>1, <3>2, <3>3, <1>13
  <2> QED BY <2>1, <2>2
<1>18. \A l \in Q : t[l] \in RangeRecord BY <1>12, <1>13, <1>14
<1> QED BY <1>1, <1>4, <1>5, <1>16, <1>17, <1>18 DEF RangesAre, at2

-----------------------------------------------------------------------------
(* What the program holds.                                                 *)

(* The blocks of the payloads.                                             *)
HeldOf(bl) == {payload_to_header(l) : l \in Payloads(bl)}

(* Every payload has room for what was asked, and its data.                *)
Filling(h, bl, sz) ==
  \A i \in Index : bl[i] # 0 =>
     /\ sz[i] + 8 <= get_size(h, payload_to_header(bl[i]))
     /\ \A a \in PayloadWords(bl[i], sz[i]) : h.mem[a] = Data(i)

(* What the client has written down agrees with itself.                    *)
Ledger(bl, sz, rs) ==
  /\ bl \in [Index -> Addr] /\ sz \in [Index -> 0 .. SizeMod - 1]
  /\ Distinct(bl) /\ RangesAre(rs, bl, sz)
  /\ \A i \in Index : bl[i] = 0 => sz[i] = 0

(* The program and its heap: its books agree, the heap is usable and has   *)
(* exactly the payloads that are written down allocated, and the data are  *)
(* in them.                                                                *)
Client(h, bl, sz, rs) == Ledger(bl, sz, rs) /\ Usable(h, HeldOf(bl)) /\ Filling(h, bl, sz)

(* The header of a payload.                                                *)
LEMMA HeaderOf ==
  ASSUME NEW bl \in [Index -> Addr], NEW i \in Index, bl[i] # 0
  PROVE  /\ payload_to_header(bl[i]) \in HeldOf(bl) /\ bl[i] \in Payloads(bl)
         /\ bl[i] \in Nat /\ payload_to_header(bl[i]) = bl[i] - 8
BY NoneNull DEF HeldOf, Payloads, payload_to_header

(* Where a block is held, the heap is in use.                              *)
LEMMA UsableIs ==
  ASSUME NEW h, NEW H, Usable(h, H), NEW x \in H
  PROVE  InUse(h, H) /\ h.heap_start # 0
BY DEF Usable

(* A heap in use can be used.                                              *)
LEMMA UsedIs ==
  ASSUME NEW h, NEW H, InUse(h, H)
  PROVE  Usable(h, H)
BY InUseIs DEF Usable

(* Blocks that are kept keep their data.                                   *)
LEMMA FillingKept ==
  ASSUME NEW h, NEW w, NEW bl \in [Index -> Addr], NEW sz \in [Index -> 0 .. SizeMod - 1],
         Filling(h, bl, sz), NEW H, InUse(h, H), HeldOf(bl) \subseteq H, Kept(h, w, HeldOf(bl))
  PROVE  Filling(w, bl, sz)
<1> SUFFICES ASSUME NEW i \in Index, bl[i] # 0
             PROVE  /\ sz[i] + 8 <= get_size(w, payload_to_header(bl[i]))
                    /\ \A a \in PayloadWords(bl[i], sz[i]) : w.mem[a] = Data(i)
  BY DEF Filling
<1> DEFINE x == payload_to_header(bl[i])
<1>1. x \in HeldOf(bl) /\ bl[i] \in Nat /\ x = bl[i] - 8 BY HeaderOf
<1>2. sz[i] + 8 <= get_size(h, x) /\ \A a \in PayloadWords(bl[i], sz[i]) : h.mem[a] = Data(i)
  BY DEF Filling
<1> HIDE DEF x
<1>3. x \in Nat /\ find_next(h, x) = x + get_size(h, x) /\ get_size(h, x) \in Nat
  BY <1>1, InUseHeld
<1>4. /\ get_size(w, x) = get_size(h, x)
      /\ \A a \in Addr : x < a /\ a < find_next(h, x) => w.mem[a] = h.mem[a]
  BY <1>1 DEF Kept
<1>5. ASSUME NEW a \in PayloadWords(bl[i], sz[i]) PROVE w.mem[a] = Data(i)
  <2>1. a \in Addr /\ a \in bl[i] .. bl[i] + sz[i] - 1 BY DEF PayloadWords
  <2>2. sz[i] \in Nat /\ a \in Nat BY <2>1, AddrIs, MmAssumption
  <2>3. x < a /\ a < find_next(h, x) BY <2>1, <2>2, <1>1, <1>2, <1>3
  <2> QED BY <2>1, <2>3, <1>2, <1>4
<1> QED BY <1>2, <1>4, <1>5 DEF x

(* What is written down once the id has given its payload up.              *)
Dropping(bl, bl0, sz0, rs0, index) ==
  /\ Ledger(bl0, sz0, rs0) /\ bl0[index] = 0
  /\ HeldOf(bl0) = HeldOf(bl) \ {payload_to_header(bl[index])}

(* The books after an id has given its payload up.                         *)
LEMMA Drop ==
  ASSUME NEW bl, NEW sz, NEW rs, Ledger(bl, sz, rs), NEW index \in Index,
         NEW bl0, bl0 = [bl EXCEPT ![index] = 0], NEW sz0, sz0 = [sz EXCEPT ![index] = 0],
         NEW rs0, rs0 = remove_range(rs, bl[index])
  PROVE  Dropping(bl, bl0, sz0, rs0, index)
<1>1. /\ bl \in [Index -> Addr] /\ sz \in [Index -> 0 .. SizeMod - 1]
      /\ Distinct(bl) /\ RangesAre(rs, bl, sz)
      /\ \A i \in Index : bl[i] = 0 => sz[i] = 0
  BY DEF Ledger
<1>2. /\ bl0 \in [Index -> Addr] /\ Distinct(bl0) /\ bl0[index] = 0
      /\ Payloads(bl0) = Payloads(bl) \ {bl[index]}
      /\ \A i \in Index : bl0[i] # 0 => i # index /\ bl0[i] = bl[i]
  BY <1>1, Dropped
<1>3. \A i \in Index : i # index => sz0[i] = sz[i] /\ bl0[i] = bl[i] BY <1>1
<1>4. sz0 \in [Index -> 0 .. SizeMod - 1]
  <2>1. 0 \in 0 .. SizeMod - 1 BY MmAssumption
  <2> QED BY <2>1, <1>1
<1>5. sz0[index] = 0 BY <1>1
<1>6. RangesAre(rs0, bl0, sz0)
  <2>1. \A i \in Index : i # index => sz0[i] = sz[i] BY <1>3
  <2>2. index \in Index /\ bl0 = [bl EXCEPT ![index] = 0] /\ rs0 = remove_range(rs, bl[index]) OBVIOUS
  <2> QED BY ONLY <2>1, <2>2, <1>1, RemoveRange
<1>7. \A i \in Index : bl0[i] = 0 => sz0[i] = 0
  <2> TAKE i \in Index
  <2>1. CASE i = index BY <2>1, <1>5
  <2>2. CASE i # index BY <2>2, <1>1, <1>3
  <2> QED BY <2>1, <2>2
<1>8. HeldOf(bl0) = HeldOf(bl) \ {payload_to_header(bl[index])}
  <2>1. \A l \in Payloads(bl) : l \in Nat BY <1>1, NoneNull DEF Payloads
  <2>2. bl[index] \in Nat BY <1>1, NoneNull
  <2>3. \A l \in Payloads(bl) : payload_to_header(l) = payload_to_header(bl[index]) => l = bl[index]
    BY <2>1, <2>2 DEF payload_to_header
  <2>4. HeldOf(bl0) \subseteq HeldOf(bl) \ {payload_to_header(bl[index])}
    BY <2>3, <1>2 DEF HeldOf
  <2>5. HeldOf(bl) \ {payload_to_header(bl[index])} \subseteq HeldOf(bl0)
    BY <1>2 DEF HeldOf
  <2> QED BY <2>4, <2>5
<1> QED BY <1>1, <1>2, <1>4, <1>6, <1>7, <1>8 DEF Ledger, Dropping

(* The payloads of the other ids still have their data.                    *)
LEMMA DropFilling ==
  ASSUME NEW bl, NEW sz, NEW rs, Ledger(bl, sz, rs), NEW index \in Index,
         NEW bl0, bl0 = [bl EXCEPT ![index] = 0], NEW sz0, sz0 = [sz EXCEPT ![index] = 0],
         NEW h, Filling(h, bl, sz)
  PROVE  Filling(h, bl0, sz0)
<1> SUFFICES ASSUME NEW i \in Index, bl0[i] # 0
             PROVE  /\ sz0[i] + 8 <= get_size(h, payload_to_header(bl0[i]))
                    /\ \A a \in PayloadWords(bl0[i], sz0[i]) : h.mem[a] = Data(i)
  BY DEF Filling
<1>1. bl \in [Index -> Addr] /\ sz \in [Index -> 0 .. SizeMod - 1] BY DEF Ledger
<1>2. i # index BY <1>1
<1>3. bl0[i] = bl[i] /\ sz0[i] = sz[i] /\ bl[i] # 0 BY <1>1, <1>2
<1> QED BY <1>3 DEF Filling

-----------------------------------------------------------------------------
(* A new payload is accepted and recorded.                                 *)

(* The range after the nearest one below is above.                         *)
LEMMA NextAbove ==
  ASSUME NEW bl \in [Index -> Addr], NEW sz, NEW rs, RangesAre(rs, bl, sz),
         NEW lo \in Nat, lo \notin Payloads(bl),
         NEW p, p = tree_find_nearest(rs, lo), NEW n, n = next_range(rs, p)
  PROVE  /\ p # 0 => p \in Payloads(bl) /\ p < lo
         /\ n # 0 => n \in Payloads(bl) /\ lo < n
<1> DEFINE P == Payloads(bl)
<1>1. DOMAIN rs.at = P /\ Chained(rs.at, P) /\ 0 \notin P /\ P \in SUBSET Nat /\ lo \notin P
  BY NoneNull DEF RangesAre, Payloads
<1> HIDE DEF P
<1>2. \/ p = 0 /\ \A l \in P : l > lo
      \/ p \in P /\ p < lo /\ \A k \in P : k < lo => k <= p
  BY <1>1, NearestIs
<1>3. n = IF p # 0 THEN rs.at[p].next ELSE 0 BY DEF next_range
<1>4. ASSUME n # 0 PROVE n \in P /\ lo < n
  <2>1. p # 0 /\ n = rs.at[p].next BY <1>3, <1>4
  <2>2. p \in P /\ p < lo /\ \A k \in P : k < lo => k <= p BY <2>1, <1>2
  <2>3. n \in P /\ p < n BY <2>1, <2>2, <1>1, <1>4 DEF Chained
  <2>4. n \in Nat /\ p \in Nat /\ n # lo BY <2>2, <2>3, <1>1
  <2>5. ~(n < lo) BY <2>2, <2>3, <2>4
  <2> QED BY <2>3, <2>4, <2>5
<1>5. p # 0 => p \in P /\ p < lo BY <1>2
<1> QED BY <1>4, <1>5 DEF P

(* A new block is where the driver wants it.                               *)
LEMMA Accepts ==
  ASSUME NEW bl, NEW sz, NEW rs, Ledger(bl, sz, rs), NEW h, Filling(h, bl, sz),
         NEW x, x \notin HeldOf(bl), InUse(h, HeldOf(bl) \cup {x}),
         NEW bp \in Nat, bp = x + 8, NEW size \in Nat, size + 8 <= get_size(h, x)
  PROVE  add_range_accepts(h, rs, bp, size)
<1> DEFINE H == HeldOf(bl) \cup {x}
           P == Payloads(bl)
           p == tree_find_nearest(rs, bp)
           n == next_range(rs, p)
<1>1. /\ bl \in [Index -> Addr] /\ sz \in [Index -> 0 .. SizeMod - 1] /\ RangesAre(rs, bl, sz)
  BY DEF Ledger
<1>2. InUse(h, H) /\ x \in H OBVIOUS
<1> HIDE DEF H
<1>3. /\ x \in Nat /\ x % 16 = 8 /\ find_next(h, x) = x + get_size(h, x)
      /\ get_size(h, x) \in Nat /\ find_next(h, x) <= h.brk - 8 /\ h.brk \in Nat
  BY <1>2, InUseHeld
<1>4. bp % 16 = 0 /\ bp <= h.brk - 1 /\ bp + size - 1 <= h.brk - 1
  BY <1>3
<1>5. \A l \in P : /\ l \in Nat /\ payload_to_header(l) = l - 8 /\ l - 8 \in HeldOf(bl)
                   /\ \E i \in Index : bl[i] # 0 /\ l = bl[i]
  <2> TAKE l \in P
  <2>1. PICK i \in Index : bl[i] # 0 /\ l = bl[i] BY DEF Payloads
  <2>2. payload_to_header(bl[i]) \in HeldOf(bl) /\ bl[i] \in Nat /\ payload_to_header(bl[i]) = bl[i] - 8
    BY <2>1, <1>1, HeaderOf
  <2> QED BY <2>1, <2>2
<1>6. bp \notin P
  <2> SUFFICES ASSUME bp \in P PROVE FALSE OBVIOUS
  <2>1. bp - 8 \in HeldOf(bl) BY <1>5
  <2>2. bp - 8 = x BY <1>3
  <2> QED BY <2>1, <2>2
<1>7. /\ p # 0 => p \in P /\ p < bp
      /\ n # 0 => n \in P /\ bp < n
  BY <1>1, <1>6, NextAbove
<1> HIDE DEF p, n, P
<1>8. ASSUME p # 0 PROVE bp > rs.at[p].hi
  <2>1. p \in P /\ p < bp /\ p \in Nat BY <1>5, <1>7, <1>8
  <2>2. PICK i \in Index : bl[i] # 0 /\ p = bl[i] BY <2>1, <1>5
  <2>3. rs.at[p].hi = p + sz[i] - 1 BY <2>2, <1>1 DEF RangesAre
  <2> DEFINE y == payload_to_header(p)
  <2>4. y = p - 8 /\ y \in H /\ sz[i] + 8 <= get_size(h, y)
    BY <2>1, <2>2, <1>5 DEF H, Filling
  <2> HIDE DEF y
  <2>5. y \in Nat /\ find_next(h, y) = y + get_size(h, y) /\ get_size(h, y) \in Nat
    BY <2>4, <1>2, InUseHeld
  <2>6. y < x BY <2>1, <2>4, <2>5, <1>3
  <2>7. find_next(h, y) <= x BY <2>4, <2>6, <1>2, InUseApart
  <2>8. sz[i] \in Nat BY <1>1, MmAssumption
  <2> QED BY <2>1, <2>3, <2>4, <2>5, <2>7, <2>8, <1>3
<1>9. ASSUME n # 0 PROVE bp + size - 1 < n
  <2>1. n \in P /\ bp < n BY <1>7, <1>9
  <2>2. n \in Nat /\ n - 8 \in H BY <2>1, <1>5 DEF H
  <2> DEFINE y == n - 8
  <2>3. y \in H /\ x < y /\ n = y + 8 BY <2>1, <2>2, <1>3
  <2> HIDE DEF y
  <2>4. y \in Nat BY <2>3, <1>2, InUseHeld
  <2>5. find_next(h, x) <= y BY <2>3, <1>2, InUseApart
  <2> QED BY <2>3, <2>4, <2>5, <1>3
<1> QED BY <1>4, <1>8, <1>9 DEF add_range_accepts, p, n

(* An id that has no payload is given one.                                 *)
LEMMA Adopt ==
  ASSUME NEW bl, NEW sz, NEW rs, Ledger(bl, sz, rs), NEW index \in Index, bl[index] = 0,
         NEW h, Filling(h, bl, sz), NEW x, x \notin HeldOf(bl), InUse(h, HeldOf(bl) \cup {x}),
         NEW bp \in Nat, bp = x + 8, NEW size \in 0 .. SizeMod - 1, size + 8 <= get_size(h, x),
         NEW w, w = randomize_block(h, bp, size, index),
         NEW bl2, bl2 = [bl EXCEPT ![index] = bp], NEW sz2, sz2 = [sz EXCEPT ![index] = size],
         NEW rs2, rs2 = add_range(rs, bp, size, index)
  PROVE  Client(w, bl2, sz2, rs2) /\ add_range_accepts(h, rs, bp, size)
<1> DEFINE H == HeldOf(bl) \cup {x}
           P == Payloads(bl)
           word == Data(index)
<1>1. /\ bl \in [Index -> Addr] /\ sz \in [Index -> 0 .. SizeMod - 1]
      /\ Distinct(bl) /\ RangesAre(rs, bl, sz)
      /\ \A i \in Index : bl[i] = 0 => sz[i] = 0
  BY DEF Ledger
<1>2. InUse(h, H) /\ x \in H /\ HeldOf(bl) \subseteq H /\ H \ {x} = HeldOf(bl) OBVIOUS
<1> HIDE DEF H
<1>3. /\ x \in Nat /\ x + 8 \in Addr /\ find_next(h, x) = x + get_size(h, x)
      /\ get_size(h, x) \in Nat
  BY <1>2, InUseHeld
<1>4. bp \in Addr /\ bp # 0 /\ size \in Nat /\ word \in Nat
  <2>1. index \in Nat BY ClientAssumption
  <2> QED BY <2>1, <1>3, MmAssumption DEF Data
<1>5. add_range_accepts(h, rs, bp, size) BY <1>4, Accepts
<1>6. bp \notin P
  <2> SUFFICES ASSUME bp \in P PROVE FALSE OBVIOUS
  <2>1. payload_to_header(bp) \in HeldOf(bl) BY DEF HeldOf
  <2>2. payload_to_header(bp) = x BY <1>3 DEF payload_to_header
  <2> QED BY <2>1, <2>2
<1>7. w = memset(h, bp, word, size) BY DEF randomize_block
<1> HIDE DEF P, word
<1>8. /\ Filled(h, w, x)
      /\ \A a \in Addr : a \in bp .. bp + size - 1 => w.mem[a] = word
  BY <1>2, <1>4, <1>7, Memset
<1>9. InUse(w, H) /\ Kept(h, w, HeldOf(bl)) /\ SameSizes(h, w, H)
  BY <1>2, <1>8, FillInUse
<1>10. Filling(w, bl, sz) BY <1>1, <1>2, <1>9, FillingKept
<1>11. /\ bl2 \in [Index -> Addr] /\ Distinct(bl2) /\ bl2[index] = bp
       /\ Payloads(bl2) = P \cup {bp}
       /\ \A i \in Index : i # index => bl2[i] = bl[i]
  <2>1. index \in Index /\ bl[index] = 0 /\ bl2 = [bl EXCEPT ![index] = bp] /\ bp \notin Payloads(bl)
    BY <1>6 DEF P
  <2>2. Adopting(bl, bl2, index, bp) BY ONLY <2>1, <1>1, <1>4, Adopted
  <2> QED BY <2>2 DEF Adopting, P
<1>12. \A i \in Index : sz2[i] = IF i = index THEN size ELSE sz[i] BY <1>1
<1>13. sz2 \in [Index -> 0 .. SizeMod - 1] BY <1>1
<1>14. RangesAre(rs2, bl2, sz2)
  <2>1. index \in Index /\ bl[index] = 0 /\ bl2 = [bl EXCEPT ![index] = bp] /\ bp \notin Payloads(bl)
        /\ rs2 = add_range(rs, bp, size, index)
    BY <1>6 DEF P
  <2> QED BY ONLY <2>1, <1>1, <1>4, <1>12, AddRange
<1>15. HeldOf(bl2) = H
  <2>1. payload_to_header(bp) = x BY <1>3 DEF payload_to_header
  <2> QED BY <2>1, <1>11 DEF HeldOf, H, P
<1>16. Filling(w, bl2, sz2)
  <2> SUFFICES ASSUME NEW i \in Index, bl2[i] # 0
               PROVE  /\ sz2[i] + 8 <= get_size(w, payload_to_header(bl2[i]))
                      /\ \A a \in PayloadWords(bl2[i], sz2[i]) : w.mem[a] = Data(i)
    BY DEF Filling
  <2>1. CASE i = index
    <3>1. payload_to_header(bp) = x BY <1>3 DEF payload_to_header
    <3>2. get_size(w, x) = get_size(h, x) BY <1>2, <1>9 DEF SameSizes
    <3>3. bl2[i] = bp /\ sz2[i] = size BY <2>1, <1>11, <1>12
    <3>4. \A a \in PayloadWords(bp, size) : w.mem[a] = Data(i)
      BY <2>1, <1>8 DEF PayloadWords, word
    <3> QED BY <3>1, <3>2, <3>3, <3>4
  <2>2. CASE i # index
    <3>1. bl2[i] = bl[i] /\ sz2[i] = sz[i] /\ bl[i] # 0 BY <2>2, <1>11, <1>12
    <3> QED BY <3>1, <1>10 DEF Filling
  <2> QED BY <2>1, <2>2
<1>17. \A i \in Index : bl2[i] = 0 => sz2[i] = 0
  <2> TAKE i \in Index
  <2>1. CASE i = index BY <2>1, <1>4, <1>11
  <2>2. CASE i # index BY <2>2, <1>1, <1>11, <1>12
  <2> QED BY <2>1, <2>2
<1>18. Usable(w, HeldOf(bl2)) BY <1>9, <1>15, UsedIs
<1> QED BY <1>5, <1>11, <1>13, <1>14, <1>16, <1>17, <1>18 DEF Client, Ledger

-----------------------------------------------------------------------------
(* malloc and calloc.                                                      *)

(* No request is so large that its size with the header wraps around.      *)
RequestsFit ==
  \A s \in Sizes \cup {n * t : n \in Counts, t \in Sizes} : s < SizeMod => s <= SizeMod - wsize - dsize

(* The inductive invariant.                                                *)
Inv == Client(heap, blocks, block_sizes, ranges) /\ allCheck

(* Blocks that are kept keep their data, in a heap that may not be         *)
(* initialized yet.                                                        *)
LEMMA KeptFilling ==
  ASSUME NEW h, NEW w, NEW bl \in [Index -> Addr], NEW sz \in [Index -> 0 .. SizeMod - 1],
         Filling(h, bl, sz), NEW H, Usable(h, H), HeldOf(bl) \subseteq H, Kept(h, w, HeldOf(bl))
  PROVE  Filling(w, bl, sz)
<1>1. CASE h.heap_start # 0
  <2>1. InUse(h, H) BY <1>1 DEF Usable
  <2> QED BY <2>1, FillingKept
<1>2. CASE h.heap_start = 0
  <2>1. HeldOf(bl) = {} BY <1>2, InUseIs DEF Usable
  <2>2. \A i \in Index : bl[i] = 0 BY <2>1, HeaderOf
  <2> QED BY <2>2 DEF Filling
<1> QED BY <1>1, <1>2

(* A call that keeps all blocks keeps the data of the program.             *)
LEMMA Calm ==
  ASSUME NEW bl, NEW sz, NEW rs, NEW h, NEW w, Client(h, bl, sz, rs),
         InUse(w, HeldOf(bl)), Kept(h, w, HeldOf(bl))
  PROVE  Client(w, bl, sz, rs)
<1>1. Usable(w, HeldOf(bl)) BY UsedIs
<1>2. /\ Ledger(bl, sz, rs) /\ bl \in [Index -> Addr] /\ sz \in [Index -> 0 .. SizeMod - 1]
      /\ Filling(h, bl, sz) /\ Usable(h, HeldOf(bl))
  BY DEF Client, Ledger
<1>3. Filling(w, bl, sz) BY <1>2, KeptFilling
<1> QED BY <1>1, <1>2, <1>3 DEF Client

(* malloc and calloc for an id that has no payload.                        *)
LEMMA Serve ==
  ASSUME Inv, NEW index \in Index, blocks[index] = 0, NEW size \in 0 .. SizeMod - 1,
         NEW r, Served(heap, r, size, HeldOf(blocks)), NEW checked, r.bp # 0 => checked,
         Returned(r, size, index, ranges, checked)
  PROVE  Inv'
<1> DEFINE H == HeldOf(blocks)
<1>1. /\ Client(heap, blocks, block_sizes, ranges) /\ allCheck = allCheck /\ allCheck
      /\ Ledger(blocks, block_sizes, ranges)
      /\ blocks \in [Index -> Addr] /\ block_sizes \in [Index -> 0 .. SizeMod - 1]
      /\ Filling(heap, blocks, block_sizes) /\ Usable(heap, H)
  BY DEF Inv, Client, Ledger
<1> HIDE DEF H
<1>2. CASE r.bp = 0
  <2>1. heap' = r.heap /\ UNCHANGED <<blocks, block_sizes, ranges, allCheck>>
    BY <1>2 DEF Returned, NoBlock
  <2>2. InUse(r.heap, H) /\ Kept(heap, r.heap, H) BY <1>2 DEF Served, H
  <2>3. Client(r.heap, blocks, block_sizes, ranges) BY <1>1, <2>2, Calm DEF H
  <2> QED BY <1>1, <2>1, <2>3 DEF Inv
<1>3. CASE r.bp # 0
  <2> DEFINE x == payload_to_header(r.bp)
             bp == r.bp
             h == r.heap
  <2>1. /\ heap' = randomize_block(h, bp, size, index)
        /\ blocks' = [blocks EXCEPT ![index] = bp]
        /\ block_sizes' = [block_sizes EXCEPT ![index] = size]
        /\ allCheck' = (allCheck /\ checked /\ add_range_accepts(h, ranges, bp, size))
        /\ ranges' = add_range(ranges, bp, size, index)
    BY <1>3 DEF Returned, Keep
  <2>2. r.heap.brk >= 16 + chunksize /\ Granted(heap, r, size + 8, H) BY <1>3 DEF Served, H
  <2>3. size \in Nat BY MmAssumption
  <2>4. /\ r.bp \in Nat /\ InUse(r.heap, H \cup {x}) /\ x \notin H /\ Kept(heap, r.heap, H)
        /\ get_size(r.heap, x) >= size + 8
    <3> HIDE DEF bp, h
    <3>1. x = payload_to_header(r.bp) OBVIOUS
    <3> HIDE DEF x
    <3> QED BY ONLY <2>2, <2>3, <3>1, GrantedIs
  <2>5. bp = x + 8 BY <2>4 DEF payload_to_header
  <2> HIDE DEF x, bp, h
  <2>6. bp \in Nat /\ InUse(h, H \cup {x}) /\ x \notin H /\ Kept(heap, h, H)
        /\ size + 8 <= get_size(h, x)
    <3>1. x \in H \cup {x} OBVIOUS
    <3>2. get_size(r.heap, x) \in Nat BY <2>4, <3>1, InUseHeld
    <3> QED BY <2>3, <2>4, <3>2 DEF bp, h
  <2>7. Filling(h, blocks, block_sizes) BY <1>1, <2>6, KeptFilling DEF H
  <2>8. Client(heap', blocks', block_sizes', ranges') /\ add_range_accepts(h, ranges, bp, size)
    BY <1>1, <2>1, <2>5, <2>6, <2>7, Adopt DEF H
  <2> QED BY <1>1, <1>3, <2>1, <2>8 DEF Inv
<1> QED BY <1>2, <1>3

(* What malloc and calloc return is a record.                              *)
LEMMA MallocRecord ==
  ASSUME NEW h, NEW size
  PROVE  malloc(h, size) = [heap |-> malloc(h, size).heap, bp |-> malloc(h, size).bp]
<1> DEFINE w == IF h.heap_start = 0 THEN mm_init(h) ELSE h
           asize == adjusted_size(size)
           IsPair(r) == r = [heap |-> r.heap, bp |-> r.bp]
<1>1. \A u, v, s : IsPair(place(u, v, s)) BY DEF place
<1>2. \A g, s : IsPair(place_grown(g, s)) BY <1>1 DEF place_grown
<1>3. \A u, v, s : IsPair(place_fit(u, v, s)) BY <1>1, <1>2 DEF place_fit
<1>4. \A u, v : IsPair(reuse_mini(u, v)) BY DEF reuse_mini
<1>5. \A u, s : IsPair(malloc_block(u, s)) BY <1>3, <1>4 DEF malloc_block
<1>6. malloc(h, size) = IF size = 0 THEN [heap |-> w, bp |-> 0] ELSE malloc_block(w, asize)
  BY DEF malloc
<1> HIDE DEF w, asize
<1>7. CASE size = 0 BY <1>6, <1>7
<1>8. CASE size # 0
  <2>1. malloc(h, size) = malloc_block(w, asize) BY <1>6, <1>8
  <2> QED BY <2>1, <1>5
<1> QED BY <1>7, <1>8

(* What a trace asks for can be had.                                       *)
LEMMA SizeFits ==
  ASSUME RequestsFit, NEW s \in Sizes
  PROVE  Fits(s) /\ s \in Nat /\ s \in 0 .. SizeMod - 1
<1>1. s \in 0 .. SizeMod - 1 BY ClientAssumption
<1>2. s \in Nat /\ s < SizeMod BY <1>1, MmAssumption
<1>3. s <= SizeMod - 8 - 2 * 8 BY <1>2 DEF RequestsFit
<1> QED BY <1>1, <1>2, <1>3 DEF Fits

(* malloc keeps the invariant.                                             *)
LEMMA Mallocs ==
  ASSUME Inv, RequestsFit, NEW index \in Index, NEW size \in Sizes, Malloc(index, size)
  PROVE  Inv'
<1> DEFINE r == malloc(heap, size)
           yes == TRUE
<1>1. Fits(size) /\ size \in 0 .. SizeMod - 1 BY SizeFits
<1>2. Usable(heap, HeldOf(blocks)) BY DEF Inv, Client
<1>3. Served(heap, r, size, HeldOf(blocks)) BY <1>1, <1>2, MallocIs
<1>4. blocks[index] = 0 /\ Returned(r, size, index, ranges, yes) BY DEF Malloc
<1>5. r.bp # 0 => yes OBVIOUS
<1> HIDE DEF r, yes
<1> QED BY <1>1, <1>3, <1>4, <1>5, Serve

(* The check of calloc: the product has not wrapped around.                *)
LEMMA NoWrap ==
  ASSUME NEW n \in Nat, n # 0, NEW s \in Nat, NEW m \in Nat, m # 0,
         NEW a, a = (n * s) % m, a \div n = s
  PROVE  a = n * s
<1> DEFINE p == n * s
<1>1. p \in Nat OBVIOUS
<1>2. a \in Nat /\ a <= p
  <2> HIDE DEF p
  <2>1. \A q \in Nat : q % m \in Nat /\ q % m <= q OBVIOUS
  <2> QED BY <1>1, <2>1 DEF p
<1>3. n * (a \div n) <= a BY <1>2
<1> QED BY <1>1, <1>2, <1>3

(* calloc keeps the invariant, and its block is clear.                     *)
LEMMA Callocs ==
  ASSUME Inv, RequestsFit, NEW index \in Index, NEW n \in Counts, NEW s \in Sizes,
         Calloc(index, n, s)
  PROVE  Inv'
<1> DEFINE a == (n * s) % SizeMod
           r == calloc(heap, n, s)
           m == malloc(heap, a)
           H == HeldOf(blocks)
<1>1. n \in Nat /\ s \in Nat /\ SizeMod \in Nat /\ SizeMod # 0 /\ s \in 0 .. SizeMod - 1
  BY ClientAssumption, MmAssumption
<1>2. blocks[index] = 0 /\ Returned(r, n * s, index, ranges, Cleared(r, n * s))
  BY DEF Calloc, ReturnedClear
<1>3. Client(heap, blocks, block_sizes, ranges) /\ allCheck /\ Usable(heap, H) BY DEF Inv, Client
<1>4. CASE n = 0 \/ a \div n # s
  <2>1. r = [heap |-> heap, bp |-> 0] BY <1>4 DEF calloc
  <2>2. heap' = heap /\ UNCHANGED <<blocks, block_sizes, ranges, allCheck>>
    BY <1>2, <2>1 DEF Returned, NoBlock
  <2> QED BY <2>2, <1>3 DEF Inv
<1>5. CASE ~(n = 0 \/ a \div n # s)
  <2>1. a = n * s
    <3>1. n # 0 /\ a \div n = s BY <1>5
    <3> HIDE DEF a
    <3>2. a = (n * s) % SizeMod BY DEF a
    <3> QED BY ONLY <1>1, <3>1, <3>2, NoWrap
  <2>2. a \in 0 .. SizeMod - 1
    <3>1. n * s \in Nat BY <1>1
    <3> DEFINE q == n * s
    <3> HIDE DEF q
    <3>2. q \in Nat /\ a = q % SizeMod BY <3>1 DEF q
    <3> HIDE DEF a
    <3> QED BY <3>2, <1>1
  <2>3. Fits(a)
    <3>1. a \in Nat /\ a < SizeMod BY <2>2, <1>1
    <3>2. n * s \in {k * t : k \in Counts, t \in Sizes} OBVIOUS
    <3>3. a \in Sizes \cup {k * t : k \in Counts, t \in Sizes} BY <3>2, <2>1
    <3> HIDE DEF a
    <3>4. a <= SizeMod - 8 - 2 * 8 BY <3>1, <3>3 DEF RequestsFit
    <3> QED BY <3>1, <3>4 DEF Fits
  <2>4. r = clear(m, a) BY <1>5 DEF calloc
  <2>5. Returned(r, a, index, ranges, Cleared(r, a)) BY <1>2, <2>1
  <2>6. m = [heap |-> m.heap, bp |-> m.bp] BY MallocRecord
  <2> HIDE DEF a, r
  <2>7. Served(heap, m, a, H) BY <1>3, <2>3, MallocIs
  <2> HIDE DEF m
  <2>8. CASE m.bp = 0
    <3>1. r = m BY <2>4, <2>8 DEF clear
    <3>2. Served(heap, r, a, HeldOf(blocks)) BY <3>1, <2>7 DEF H
    <3> DEFINE c == Cleared(r, a)
    <3>3. r.bp # 0 => c BY <3>1, <2>8
    <3>4. Returned(r, a, index, ranges, c) BY <2>5
    <3> HIDE DEF c
    <3> QED BY <1>2, <2>2, <3>2, <3>3, <3>4, Serve
  <2>9. CASE m.bp # 0
    <3> DEFINE z == 0
               w == memset(m.heap, m.bp, z, a)
               x == payload_to_header(m.bp)
               h == m.heap
               bp == m.bp
    <3> HIDE DEF H
    <3>1. r.bp = m.bp /\ r.heap = w
      <4>1. r = [m EXCEPT !.heap = memset(m.heap, m.bp, 0, a)] BY <2>4, <2>9 DEF clear
      <4> HIDE DEF w
      <4>2. r = [m EXCEPT !.heap = w] BY <4>1 DEF w
      <4> QED BY <4>2, <2>6
    <3>2. m.heap.brk >= 16 + chunksize /\ Granted(heap, m, a + 8, H) BY <2>7, <2>9 DEF Served
    <3>3. a \in Nat BY <2>3 DEF Fits
    <3>4. /\ m.bp \in Nat /\ InUse(m.heap, H \cup {x}) /\ x \notin H /\ Kept(heap, m.heap, H)
          /\ get_size(m.heap, x) >= a + 8
      <4>1. x = payload_to_header(m.bp) OBVIOUS
      <4> HIDE DEF x
      <4> QED BY ONLY <3>2, <3>3, <4>1, GrantedIs
    <3>5. bp = x + 8 /\ x = bp - 8 BY <3>4 DEF payload_to_header
    <3>6. z \in Nat /\ w = memset(h, bp, z, a) OBVIOUS
    <3> DEFINE G == H \cup {x}
    <3>7. InUse(h, G) /\ x \in G BY <3>4
    <3>8. G \ {x} = H BY <3>4
    <3>77. G = H \cup {x} OBVIOUS
    <3> HIDE DEF G, w, x, h, bp, z
    <3>9. get_size(h, x) \in Nat BY <3>7, InUseHeld
    <3>10. a + 8 <= get_size(h, x) BY <3>3, <3>4, <3>9 DEF h
    <3>11. /\ Filled(h, w, x)
           /\ \A d \in Addr : d \in bp .. bp + a - 1 => w.mem[d] = z
      BY <3>3, <3>5, <3>6, <3>7, <3>10, Memset
    <3>12. /\ InUse(w, G) /\ Kept(h, w, H) /\ get_size(w, x) = get_size(h, x)
      <4>1. InUse(w, G) /\ Kept(h, w, G \ {x}) /\ SameSizes(h, w, G)
        BY ONLY <3>7, <3>11, FillInUse
      <4> QED BY <4>1, <3>7, <3>8 DEF SameSizes
    <3>13. Kept(heap, w, H)
      <4>1. Kept(heap, h, H) BY <3>4 DEF h
      <4> QED BY <4>1, <3>12, KeptTrans
    <3>14. Cleared(r, a)
      BY <3>1, <3>11 DEF Cleared, PayloadWords, bp, z
    <3>15. Served(heap, r, a, H)
      <4>1. PICK B : Good(w, B) /\ HeldIn(w, B) = G BY <3>12 DEF InUse
      <4>2. payload_to_header(r.bp) = x BY <3>1 DEF x
      <4>3. get_size(w, x) >= a + 8 BY <3>3, <3>9, <3>10, <3>12
      <4>4. r.bp \in Nat /\ r.bp # 0 BY <3>1, <3>4, <2>9
      <4>5. Granted(heap, r, a + 8, H)
        BY <3>1, <3>4, <3>13, <3>77, <4>1, <4>2, <4>3, <4>4 DEF Granted
      <4>6. r.heap.brk >= 16 + chunksize BY <3>1, <3>12 DEF InUse
      <4> QED BY <4>4, <4>5, <4>6 DEF Served
    <3> DEFINE c == Cleared(r, a)
    <3>16. r.bp # 0 => c BY <3>14
    <3>17. Returned(r, a, index, ranges, c) BY <2>5
    <3>18. Served(heap, r, a, HeldOf(blocks)) BY <3>15 DEF H
    <3> HIDE DEF c
    <3> QED BY <1>2, <2>2, <3>16, <3>17, <3>18, Serve
  <2> QED BY <2>8, <2>9
<1> QED BY <1>4, <1>5

-----------------------------------------------------------------------------
(* free, and the move of realloc.                                          *)

(* The data are there when they are looked at.                             *)
LEMMA Intact ==
  ASSUME Inv, NEW index \in Index
  PROVE  check_index(heap, blocks[index], block_sizes[index], index)
<1>1. /\ blocks \in [Index -> Addr] /\ Filling(heap, blocks, block_sizes)
      /\ \A i \in Index : blocks[i] = 0 => block_sizes[i] = 0
  BY DEF Inv, Client, Ledger
<1>2. CASE blocks[index] # 0 BY <1>1, <1>2 DEF Filling, check_index
<1>3. CASE blocks[index] = 0
  <2>1. PayloadWords(0, 0) = {} BY AddrIs DEF PayloadWords
  <2> QED BY <1>1, <1>3, <2>1 DEF check_index
<1> QED BY <1>2, <1>3

(* An id gives its block back.                                             *)
LEMMA Forgets ==
  ASSUME Inv, NEW index \in Index, NEW w, w = free(heap, blocks[index]),
         NEW checked, checked, Forget(w, index, checked)
  PROVE  Inv'
<1> DEFINE H == HeldOf(blocks)
           bl0 == [blocks EXCEPT ![index] = 0]
           sz0 == [block_sizes EXCEPT ![index] = 0]
           rs0 == remove_range(ranges, blocks[index])
           p == payload_to_header(blocks[index])
<1>1. /\ Client(heap, blocks, block_sizes, ranges) /\ allCheck = allCheck /\ allCheck
      /\ Ledger(blocks, block_sizes, ranges)
      /\ blocks \in [Index -> Addr] /\ block_sizes \in [Index -> 0 .. SizeMod - 1]
      /\ Filling(heap, blocks, block_sizes) /\ Usable(heap, H)
  BY DEF Inv, Client, Ledger
<1>2. heap' = w /\ blocks' = bl0 /\ block_sizes' = sz0 /\ ranges' = rs0
      /\ allCheck' = (allCheck /\ checked)
  BY DEF Forget
<1>3. /\ Ledger(bl0, sz0, rs0) /\ HeldOf(bl0) = H \ {p}
      /\ Filling(heap, bl0, sz0)
  <2> HIDE DEF bl0, sz0, rs0, p
  <2>1. bl0 = [blocks EXCEPT ![index] = 0] /\ sz0 = [block_sizes EXCEPT ![index] = 0]
        /\ rs0 = remove_range(ranges, blocks[index]) /\ index \in Index
    BY DEF bl0, sz0, rs0
  <2>2. Dropping(blocks, bl0, sz0, rs0, index) BY ONLY <1>1, <2>1, Drop
  <2>3. Filling(heap, bl0, sz0) BY ONLY <1>1, <2>1, DropFilling
  <2> QED BY <2>2, <2>3 DEF p, Dropping
<1> HIDE DEF bl0, sz0, rs0, H
<1>4. bl0 \in [Index -> Addr] /\ sz0 \in [Index -> 0 .. SizeMod - 1] BY <1>3 DEF Ledger
<1>5. Usable(w, HeldOf(bl0)) /\ Filling(w, bl0, sz0)
  <2>1. CASE blocks[index] = 0
    <3>1. w = heap BY <2>1 DEF free
    <3>2. p \notin H
      <4> SUFFICES ASSUME p \in H PROVE FALSE OBVIOUS
      <4>1. p \in Nat BY <1>1, UsableIs, InUseHeld
      <4>2. p = 0 - 8 BY <2>1 DEF payload_to_header
      <4> QED BY <4>1, <4>2
    <3> HIDE DEF p
    <3>3. HeldOf(bl0) = H BY <3>2, <1>3
    <3> QED BY <3>1, <3>3, <1>1, <1>3
  <2>2. CASE blocks[index] # 0
    <3>1. p \in H /\ blocks[index] = p + 8
      <4>1. p \in HeldOf(blocks) /\ blocks[index] \in Nat /\ p = blocks[index] - 8
        BY <2>2, <1>1, HeaderOf
      <4> QED BY <4>1 DEF H
    <3>2. InUse(heap, H) BY <3>1, <1>1, UsableIs
    <3> HIDE DEF p
    <3>3. InUse(w, H \ {p}) /\ Kept(heap, w, H \ {p}) BY <3>1, <3>2, FreeIs
    <3>4. Usable(w, HeldOf(bl0)) BY <3>3, <1>3, UsedIs
    <3>5. Filling(w, bl0, sz0)
      <4>1. Kept(heap, w, HeldOf(bl0)) /\ HeldOf(bl0) \subseteq H BY <3>3, <1>3
      <4> QED BY <4>1, <1>1, <1>3, <1>4, KeptFilling
    <3> QED BY <3>4, <3>5
  <2> QED BY <2>1, <2>2
<1> QED BY <1>1, <1>2, <1>3, <1>5 DEF Inv, Client

(* free keeps the invariant, and the data are still there when it is       *)
(* called.                                                                 *)
LEMMA Frees ==
  ASSUME Inv, NEW index \in Index, Free(index)
  PROVE  Inv'
<1> DEFINE c == check_index(heap, blocks[index], block_sizes[index], index)
           w == free(heap, blocks[index])
<1>1. c BY Intact
<1>2. Forget(w, index, c) BY DEF Free
<1>3. w = free(heap, blocks[index]) OBVIOUS
<1> HIDE DEF c, w
<1> QED BY <1>1, <1>2, <1>3, Forgets

(* A heap in which the block at p has been moved to x.                     *)
MovedTo(g, w, H, p, ptr, x, bp, size) ==
  /\ InUse(w, (H \cup {x}) \ {p}) /\ Kept(g, w, H \ {p})
  /\ size + 8 <= get_size(w, x)
  /\ \A a \in Addr : a \in bp .. bp + size - 1 /\ a < x + get_size(g, p) =>
        a - bp + ptr \in Addr /\ w.mem[a] = g.mem[a - bp + ptr]

(* What a block moved by realloc has: the data that were in the old one.   *)
LEMMA MoveIs ==
  ASSUME NEW g, NEW H, InUse(g, H), NEW p \in H, NEW ptr, ptr = p + 8,
         NEW h, NEW x, x \notin H, InUse(h, H \cup {x}), Kept(g, h, H),
         NEW bp, bp = x + 8, NEW size \in Nat, size + 8 <= get_size(h, x),
         NEW c, c = copy_old(h, ptr, bp, size), NEW w, w = free(c, ptr)
  PROVE  MovedTo(g, w, H, p, ptr, x, bp, size)
<1> DEFINE G == H \cup {x}
<1>1. InUse(h, G) /\ p \in G /\ x \in G /\ x # p /\ G \ {x} = H OBVIOUS
<1>2. H \ {p} \subseteq H /\ H \ {p} \subseteq G \ {p} /\ x \in G \ {p} OBVIOUS
<1> HIDE DEF G
<1>3. /\ Filled(h, c, x)
      /\ \A a \in Addr : a \in bp .. bp + size - 1 /\ a < x + get_size(h, p) =>
                c.mem[a] = h.mem[a - bp + ptr]
  BY <1>1, CopyOld
<1>4. InUse(c, G) /\ Kept(h, c, G \ {x}) /\ SameSizes(h, c, G) BY <1>1, <1>3, FillInUse
<1>5. InUse(w, G \ {p}) /\ Kept(c, w, G \ {p}) BY <1>1, <1>4, FreeIs
<1>6. Kept(g, w, H \ {p})
  <2>1. Kept(h, c, H) BY <1>1, <1>4
  <2>2. Kept(g, c, H) BY <2>1, KeptTrans
  <2> QED BY <2>2, <1>2, <1>5, KeptTrans
<1>7. /\ x \in Nat /\ x % 16 = 8 /\ find_next(h, x) = x + get_size(h, x) /\ get_size(h, x) \in Nat
  BY <1>1, InUseHeld
<1>8. /\ p \in Nat /\ p % 16 = 8 /\ find_next(g, p) = p + get_size(g, p) /\ get_size(g, p) \in Nat
      /\ find_next(g, p) <= g.brk - 8 /\ g.brk \in Nat /\ g.brk <= MaxHeap
  BY InUseHeld
<1>9. /\ get_size(w, x) = get_size(h, x)
      /\ \A a \in Addr : x < a /\ a < find_next(h, x) => w.mem[a] = c.mem[a]
  BY <1>1, <1>2, <1>4, <1>5 DEF Kept, SameSizes
<1>10. /\ get_size(h, p) = get_size(g, p)
       /\ \A a \in Addr : p < a /\ a < find_next(g, p) => h.mem[a] = g.mem[a]
  BY DEF Kept
<1>11. ASSUME NEW a \in Addr, a \in bp .. bp + size - 1, a < x + get_size(g, p)
       PROVE  a - bp + ptr \in Addr /\ w.mem[a] = g.mem[a - bp + ptr]
  <2> DEFINE b == a - bp + ptr
  <2>1. a \in Nat /\ a % 8 = 0 BY AddrIs
  <2>2. b = a - x + p BY <2>1, <1>7, <1>8
  <2>3. b \in Nat /\ p < b /\ b < p + get_size(g, p) BY <2>1, <2>2, <1>7, <1>8, <1>11
  <2>4. b % 8 = 0
    <3>1. x % 8 = 0 /\ p % 8 = 0 BY <1>7, <1>8
    <3>2. (a - x + p) % 8 = 0 BY <2>1, <3>1, <1>7, <1>8
    <3> QED BY <2>2, <3>2
  <2> HIDE DEF b
  <2>5. b \in Addr
    <3>1. b <= MaxHeap BY <2>3, <1>8, MmAssumption
    <3> QED BY <3>1, <2>3, <2>4, AddrIs
  <2>6. h.mem[b] = g.mem[b] BY <2>3, <2>5, <1>8, <1>10
  <2>7. c.mem[a] = h.mem[b] BY <1>3, <1>10, <1>11 DEF b
  <2>8. x < a /\ a < find_next(h, x) BY <2>1, <1>7, <1>11
  <2>9. w.mem[a] = c.mem[a] BY <2>8, <1>9
  <2> QED BY <2>5, <2>6, <2>7, <2>9 DEF b
<1>12. size + 8 <= get_size(w, x) BY <1>9
<1> QED BY <1>5, <1>6, <1>11, <1>12 DEF G, MovedTo

-----------------------------------------------------------------------------
(* realloc.                                                                *)

(* What realloc returns for a size that is not 0: NULL, and the heap is    *)
(* good for all that were held; or a block that has the data of the old    *)
(* one, which is no longer held.                                           *)
Renewed(g, r, ptr, size, H, H0) ==
  \/ r.bp = 0 /\ InUse(r.heap, H) /\ Kept(g, r.heap, H)
  \/ /\ r.bp # 0 /\ r.bp \in Nat
     /\ LET x == payload_to_header(r.bp)
        IN /\ InUse(r.heap, H0 \cup {x}) /\ x \notin H0 /\ Kept(g, r.heap, H0)
           /\ size + 8 <= get_size(r.heap, x)
           /\ ptr # 0 => \A a \in Addr :
                 a \in r.bp .. r.bp + size - 1 /\ a < x + get_size(g, payload_to_header(ptr)) =>
                    a - r.bp + ptr \in Addr /\ r.heap.mem[a] = g.mem[a - r.bp + ptr]

(* realloc for a size that is not 0 is one of the two.                     *)
LEMMA ReallocIs ==
  ASSUME NEW g, NEW H, Usable(g, H), NEW size, Fits(size), size # 0,
         NEW ptr, ptr # 0 => payload_to_header(ptr) \in H /\ ptr = payload_to_header(ptr) + 8,
         NEW H0, H0 = IF ptr = 0 THEN H ELSE H \ {payload_to_header(ptr)},
         NEW r, r = realloc(g, ptr, size)
  PROVE  Renewed(g, r, ptr, size, H, H0)
<1> DEFINE m == malloc(g, size)
           x == payload_to_header(m.bp)
           p == payload_to_header(ptr)
<1>1. Served(g, m, size, H) BY MallocIs
<1>2. m = [heap |-> m.heap, bp |-> m.bp] BY MallocRecord
<1>3. r = IF ptr = 0 THEN m ELSE move(m, ptr, size) BY DEF realloc
<1> HIDE DEF m
<1>4. size \in Nat BY DEF Fits
<1>5. CASE m.bp = 0
  <2>1. r.bp = 0 /\ r.heap = m.heap BY <1>2, <1>3, <1>5 DEF move
  <2>2. InUse(m.heap, H) /\ Kept(g, m.heap, H) BY <1>1, <1>5 DEF Served
  <2> QED BY <2>1, <2>2 DEF Renewed
<1>6. CASE m.bp # 0
  <2>1. /\ m.bp \in Nat /\ InUse(m.heap, H \cup {x}) /\ x \notin H /\ Kept(g, m.heap, H)
        /\ get_size(m.heap, x) >= size + 8
    <3>1. m.heap.brk >= 16 + chunksize /\ Granted(g, m, size + 8, H) BY <1>1, <1>6 DEF Served
    <3>2. x = payload_to_header(m.bp) OBVIOUS
    <3> HIDE DEF x
    <3> QED BY ONLY <1>4, <3>1, <3>2, GrantedIs
  <2>2. m.bp = x + 8 BY <2>1 DEF payload_to_header
  <2>3. get_size(m.heap, x) \in Nat
    <3>1. x \in H \cup {x} OBVIOUS
    <3> HIDE DEF x
    <3> QED BY <2>1, <3>1, InUseHeld
  <2>4. size + 8 <= get_size(m.heap, x) BY <2>1, <2>3, <1>4
  <2>5. CASE ptr = 0
    <3>1. r = m /\ H0 = H BY <2>5, <1>3
    <3> QED BY <3>1, <2>1, <2>4, <2>5, <1>6 DEF Renewed
  <2>6. CASE ptr # 0
    <3> DEFINE h == m.heap
               bp == m.bp
               c == copy_old(h, ptr, bp, size)
               w == free(c, ptr)
    <3>1. r.bp = bp /\ r.heap = w
      <4>1. r = [m EXCEPT !.heap = free(copy_old(m.heap, ptr, m.bp, size), ptr)]
        BY <1>3, <1>6, <2>6 DEF move
      <4>2. r = [m EXCEPT !.heap = w] BY <4>1
      <4> HIDE DEF w
      <4> QED BY <4>2, <1>2
    <3>2. p \in H /\ ptr = p + 8 /\ H0 = H \ {p} BY <2>6
    <3>3. c = copy_old(h, ptr, bp, size) /\ w = free(c, ptr) OBVIOUS
    <3>4. InUse(h, H \cup {x}) /\ x \notin H /\ Kept(g, h, H) /\ bp = x + 8 /\ size + 8 <= get_size(h, x)
      BY <2>1, <2>2, <2>4
    <3>5. InUse(g, H) BY <3>2, UsableIs
    <3> HIDE DEF h, bp, c, w, x, p
    <3>0. MovedTo(g, w, H, p, ptr, x, bp, size)
      BY ONLY <1>4, <3>2, <3>3, <3>4, <3>5, MoveIs
    <3>6. /\ InUse(w, (H \cup {x}) \ {p}) /\ Kept(g, w, H \ {p})
          /\ size + 8 <= get_size(w, x)
          /\ \A a \in Addr : a \in bp .. bp + size - 1 /\ a < x + get_size(g, p) =>
               a - bp + ptr \in Addr /\ w.mem[a] = g.mem[a - bp + ptr]
      BY <3>0 DEF MovedTo
    <3>7. (H \cup {x}) \ {p} = H0 \cup {x} /\ x \notin H0 BY <3>2, <3>4
    <3>8. InUse(w, H0 \cup {x}) /\ Kept(g, w, H0) BY <3>2, <3>6, <3>7
    <3>9. payload_to_header(r.bp) = x BY <3>1 DEF x, bp
    <3>10. r.bp # 0 /\ r.bp \in Nat BY <3>1, <1>6, <2>1 DEF bp
    <3> QED BY <3>1, <3>6, <3>7, <3>8, <3>9, <3>10 DEF Renewed, p
  <2> QED BY <2>5, <2>6
<1> QED BY <1>5, <1>6

(* An id gets a payload of another size.                                   *)
LEMMA Reallocs ==
  ASSUME Inv, RequestsFit, NEW index \in Index, NEW size \in Sizes, Realloc(index, size)
  PROVE  Inv'
<1> DEFINE ptr == blocks[index]
           r == realloc(heap, ptr, size)
           before == check_index(heap, ptr, block_sizes[index], index)
           H == HeldOf(blocks)
           H0 == IF ptr = 0 THEN H ELSE H \ {payload_to_header(ptr)}
           bl0 == [blocks EXCEPT ![index] = 0]
           sz0 == [block_sizes EXCEPT ![index] = 0]
           rs0 == remove_range(ranges, ptr)
           n == IF size < block_sizes[index] THEN size ELSE block_sizes[index]
<1>1. before BY Intact
<1>2. ReturnedMoved(r, size, index, before) BY DEF Realloc
<1>3. CASE size = 0
  <2>1. r.heap = free(heap, ptr) BY <1>3 DEF realloc
  <2>2. Forget(free(heap, ptr), index, before) BY <1>2, <1>3, <2>1 DEF ReturnedMoved
  <2> DEFINE w == free(heap, ptr)
  <2>3. w = free(heap, blocks[index]) /\ Forget(w, index, before) BY <2>2
  <2> HIDE DEF w, before
  <2> QED BY <1>1, <2>3, Forgets
<1>4. CASE size # 0
  <2>1. Returned(r, size, index, rs0, before /\ Moved(r, size, index))
    BY <1>2, <1>4 DEF ReturnedMoved
  <2>2. Fits(size) /\ size \in Nat /\ size \in 0 .. SizeMod - 1 BY SizeFits
  <2>3. /\ Client(heap, blocks, block_sizes, ranges) /\ allCheck = allCheck /\ allCheck
        /\ Ledger(blocks, block_sizes, ranges)
        /\ blocks \in [Index -> Addr] /\ block_sizes \in [Index -> 0 .. SizeMod - 1]
        /\ Filling(heap, blocks, block_sizes) /\ Usable(heap, H)
        /\ (ptr = 0 => block_sizes[index] = 0)
    BY DEF Inv, Client, Ledger
  <2>4. ptr # 0 => /\ payload_to_header(ptr) \in H /\ ptr = payload_to_header(ptr) + 8
                   /\ ptr \in Nat
    <3> SUFFICES ASSUME ptr # 0
                 PROVE  payload_to_header(ptr) \in H /\ ptr = payload_to_header(ptr) + 8 /\ ptr \in Nat
      OBVIOUS
    <3>1. payload_to_header(blocks[index]) \in HeldOf(blocks) /\ blocks[index] \in Nat
          /\ payload_to_header(blocks[index]) = blocks[index] - 8
      BY <2>3, HeaderOf
    <3> QED BY <3>1
  <2>5. bl0 = [blocks EXCEPT ![index] = 0] /\ sz0 = [block_sizes EXCEPT ![index] = 0]
        /\ rs0 = remove_range(ranges, blocks[index]) /\ index \in Index
        /\ r = realloc(heap, ptr, size)
        /\ H0 = IF ptr = 0 THEN H ELSE H \ {payload_to_header(ptr)}
    OBVIOUS
  <2> HIDE DEF bl0, sz0, rs0, r, before, n
  <2>6. Dropping(blocks, bl0, sz0, rs0, index) BY ONLY <2>3, <2>5, Drop
  <2>7. Filling(heap, bl0, sz0) BY ONLY <2>3, <2>5, DropFilling
  <2>8. Ledger(bl0, sz0, rs0) /\ bl0[index] = 0 /\ HeldOf(bl0) = H0
    <3>1. ptr = 0 => payload_to_header(ptr) \notin H
      <4> SUFFICES ASSUME ptr = 0, payload_to_header(ptr) \in H PROVE FALSE OBVIOUS
      <4> DEFINE q == payload_to_header(ptr)
      <4>1. q \in H /\ q = 0 - 8 BY DEF payload_to_header
      <4> HIDE DEF q, H, ptr
      <4>2. q \in Nat BY <4>1, <2>3, UsableIs, InUseHeld
      <4> QED BY <4>1, <4>2
    <3>2. HeldOf(bl0) = H \ {payload_to_header(ptr)} BY <2>6 DEF Dropping
    <3> QED BY <2>6, <3>1, <3>2 DEF Dropping
  <2>9. bl0 \in [Index -> Addr] /\ sz0 \in [Index -> 0 .. SizeMod - 1] BY <2>8 DEF Ledger
  <2> HIDE DEF H, H0, ptr
  <2>10. Renewed(heap, r, ptr, size, H, H0)
    BY ONLY <1>4, <2>2, <2>3, <2>4, <2>5, ReallocIs
  <2>11. CASE r.bp = 0
    <3>1. heap' = r.heap /\ UNCHANGED <<blocks, block_sizes, ranges, allCheck>>
      BY <2>1, <2>11 DEF Returned, NoBlock
    <3>2. InUse(r.heap, H) /\ Kept(heap, r.heap, H) BY <2>10, <2>11 DEF Renewed
    <3>3. Client(r.heap, blocks, block_sizes, ranges) BY <2>3, <3>2, Calm DEF H
    <3> QED BY <2>3, <3>1, <3>3 DEF Inv
  <2>12. CASE r.bp # 0
    <3> DEFINE x == payload_to_header(r.bp)
               bp == r.bp
               h == r.heap
               moved == Moved(r, size, index)
    <3>1. /\ heap' = randomize_block(h, bp, size, index)
          /\ blocks' = [blocks EXCEPT ![index] = bp]
          /\ block_sizes' = [block_sizes EXCEPT ![index] = size]
          /\ allCheck' = (allCheck /\ (before /\ moved) /\ add_range_accepts(h, rs0, bp, size))
          /\ ranges' = add_range(rs0, bp, size, index)
      BY <2>1, <2>12 DEF Returned, Keep
    <3>2. /\ bp \in Nat /\ InUse(h, H0 \cup {x}) /\ x \notin H0 /\ Kept(heap, h, H0)
          /\ size + 8 <= get_size(h, x)
          /\ ptr # 0 => \A a \in Addr :
                 a \in bp .. bp + size - 1 /\ a < x + get_size(heap, payload_to_header(ptr)) =>
                    a - bp + ptr \in Addr /\ h.mem[a] = heap.mem[a - bp + ptr]
      BY <2>10, <2>12 DEF Renewed
    <3>3. bp = x + 8 BY <3>2 DEF payload_to_header
    <3>4. x \in Nat
      <4>1. x \in H0 \cup {x} OBVIOUS
      <4> HIDE DEF x, h
      <4> QED BY <4>1, <3>2, InUseHeld
    <3>5. moved
      <4> SUFFICES ASSUME NEW a \in PayloadWords(bp, n) PROVE h.mem[a] = Data(index)
        BY DEF Moved, check_index, n
      <4>1. a \in Addr /\ a \in bp .. bp + n - 1 /\ a \in Nat BY AddrIs DEF PayloadWords
      <4>2. block_sizes[index] \in Nat BY <2>3, MmAssumption
      <4>3. n \in Nat /\ n <= size /\ n <= block_sizes[index] BY <2>2, <4>2 DEF n
      <4>4. ptr # 0 /\ ptr \in Nat
        <5>1. n # 0 BY <4>1, <4>3, <3>2
        <5>2. block_sizes[index] # 0 BY <5>1, <4>2, <4>3
        <5> QED BY <5>2, <2>3, <2>4
      <4> DEFINE p == payload_to_header(ptr)
      <4>5. /\ block_sizes[index] + 8 <= get_size(heap, p)
            /\ \A b \in PayloadWords(ptr, block_sizes[index]) : heap.mem[b] = Data(index)
        BY <2>3, <4>4 DEF Filling, ptr
      <4>6. p \in H /\ p \in Nat /\ get_size(heap, p) \in Nat
        <5>1. p \in H BY <2>4, <4>4
        <5> HIDE DEF p
        <5> QED BY <5>1, <2>3, UsableIs, InUseHeld
      <4> HIDE DEF p, x, bp, h
      <4>7. a \in bp .. bp + size - 1 /\ a < x + get_size(heap, p)
        BY <4>1, <4>2, <4>3, <4>5, <4>6, <3>2, <3>3, <3>4, <2>2
      <4>8. a - bp + ptr \in Addr /\ h.mem[a] = heap.mem[a - bp + ptr]
        BY <4>1, <4>4, <4>7, <3>2 DEF p
      <4>9. a - bp + ptr \in ptr .. ptr + block_sizes[index] - 1
        BY <4>1, <4>2, <4>3, <4>4, <3>2
      <4>10. a - bp + ptr \in PayloadWords(ptr, block_sizes[index])
        BY <4>8, <4>9 DEF PayloadWords
      <4> QED BY <4>5, <4>8, <4>10
    <3>6. [bl0 EXCEPT ![index] = bp] = [blocks EXCEPT ![index] = bp]
          /\ [sz0 EXCEPT ![index] = size] = [block_sizes EXCEPT ![index] = size]
      BY <2>3, <2>5
    <3> HIDE DEF x, bp, h, moved
    <3>7. Filling(h, bl0, sz0)
      <4>1. HeldOf(bl0) = H0 /\ H0 \subseteq H BY <2>8 DEF H0
      <4>2. Kept(heap, h, HeldOf(bl0)) /\ HeldOf(bl0) \subseteq H BY <4>1, <3>2
      <4> QED BY <4>2, <2>3, <2>7, <2>9, KeptFilling
    <3>8. /\ blocks' = [bl0 EXCEPT ![index] = bp] /\ block_sizes' = [sz0 EXCEPT ![index] = size]
          /\ heap' = randomize_block(h, bp, size, index)
          /\ ranges' = add_range(rs0, bp, size, index)
      BY <3>1, <3>6
    <3>9. InUse(h, HeldOf(bl0) \cup {x}) /\ x \notin HeldOf(bl0) /\ bp \in Nat
          /\ size + 8 <= get_size(h, x)
      BY <2>8, <3>2
    <3>10. Client(heap', blocks', block_sizes', ranges') /\ add_range_accepts(h, rs0, bp, size)
      BY <2>2, <2>8, <3>3, <3>7, <3>8, <3>9, Adopt
    <3> QED BY <1>1, <2>3, <3>1, <3>5, <3>10 DEF Inv
  <2> QED BY <2>11, <2>12
<1> QED BY <1>3, <1>4

-----------------------------------------------------------------------------
(* The invariant.                                                          *)

(* A client that has no payload yet.                                       *)
LEMMA Clean ==
  ASSUME NEW bl, bl = [i \in Index |-> NULL], NEW sz, sz = [i \in Index |-> 0]
  PROVE  Ledger(bl, sz, NoRanges) /\ HeldOf(bl) = {} /\ \A h : Filling(h, bl, sz)
<1>1. 0 \in Addr /\ 0 \in 0 .. SizeMod - 1 BY AddrIs, MmAssumption
<1>2. bl \in [Index -> Addr] /\ sz \in [Index -> 0 .. SizeMod - 1] BY <1>1
<1>3. Payloads(bl) = {} BY DEF Payloads
<1>4. HeldOf(bl) = {} BY <1>3 DEF HeldOf
<1>5. Distinct(bl) BY DEF Distinct
<1>6. RangesAre(NoRanges, bl, sz)
  <2>1. NoRanges.at = <<>> BY DEF NoRanges
  <2>2. DOMAIN NoRanges.at = {} BY <2>1
  <2> QED BY <1>3, <2>2 DEF RangesAre, Chained
<1> QED BY <1>2, <1>4, <1>5, <1>6 DEF Ledger, Filling

(* A program begins with nothing.                                          *)
LEMMA InitIs == Init => Inv
<1> SUFFICES ASSUME Init PROVE Inv OBVIOUS
<1>1. /\ blocks = [i \in Index |-> NULL] /\ block_sizes = [i \in Index |-> 0]
      /\ ranges = NoRanges /\ allCheck
  BY DEF Init
<1>2. heap = [mem |-> [a \in Addr |-> 0], brk |-> 0, heap_start |-> 0,
              free_roots |-> [i \in Roots |-> 0], mini_free_root |-> 0]
  BY DEF Init, Roots
<1>3. Fresh(heap)
  <2>1. 0 \in Addr BY AddrIs
  <2> QED BY <1>2, <2>1 DEF Fresh, Heap
<1>4. Usable(heap, {}) BY <1>2, <1>3 DEF Usable
<1> QED BY <1>1, <1>4, Clean DEF Inv, Client

(* Another trace, after one that has freed all that it has allocated.      *)
LEMMA NewTraces ==
  ASSUME Inv, BalancedTraces, NewTrace
  PROVE  Inv'
<1> DEFINE g == mem_reset_brk(heap)
<1>1. blocks = [i \in Index |-> blocks[i]] /\ Usable(heap, HeldOf(blocks)) /\ allCheck
  BY DEF Inv, Client, Ledger
<1>2. /\ \A i \in Index : blocks[i] = 0
      /\ heap' = mm_init(g)
      /\ blocks' = [i \in Index |-> NULL] /\ block_sizes' = [i \in Index |-> 0]
      /\ ranges' = NoRanges /\ allCheck' = allCheck
  BY DEF NewTrace
<1>3. Usable(heap, {})
  <2>1. Payloads(blocks) = {} BY <1>2 DEF Payloads
  <2> QED BY <1>1, <2>1 DEF HeldOf
<1>4. Fresh(g)
  <2>1. CASE heap.heap_start = 0
    <3>1. heap \in Heap /\ heap.brk = 0 /\ heap.mini_free_root = 0
      BY <2>1, <1>3 DEF Usable, Fresh
    <3>2. 0 \in Addr BY AddrIs
    <3> QED BY <3>1, <3>2 DEF Fresh, mem_reset_brk, Heap
  <2>2. CASE heap.heap_start # 0
    <3>1. InUse(heap, {}) BY <2>2, <1>3 DEF Usable
    <3> QED BY <3>1, Reset
  <2> QED BY <2>1, <2>2
<1> HIDE DEF g
<1>5. InUse(heap', {}) BY <1>2, <1>4, MmInit
<1>6. Usable(heap', {}) BY <1>5, UsedIs
<1>7. /\ Ledger(blocks', block_sizes', NoRanges) /\ HeldOf(blocks') = {}
      /\ \A h : Filling(h, blocks', block_sizes')
  BY <1>2, Clean
<1>8. Client(heap', blocks', block_sizes', ranges') BY <1>2, <1>6, <1>7 DEF Client
<1> QED BY <1>1, <1>2, <1>8 DEF Inv

(* Each step of the program keeps the invariant.                           *)
LEMMA InvKept ==
  ASSUME BalancedTraces, RequestsFit, Inv, [Next]_vars
  PROVE  Inv'
<1>1. CASE \E i \in Index : Free(i) BY <1>1, Frees
<1>2. CASE \E i \in Index, s \in Sizes : Malloc(i, s) \/ Realloc(i, s)
  <2> PICK i \in Index, s \in Sizes : Malloc(i, s) \/ Realloc(i, s) BY <1>2
  <2>1. CASE Malloc(i, s) BY <2>1, Mallocs
  <2>2. CASE Realloc(i, s) BY <2>2, Reallocs
  <2> QED BY <2>1, <2>2
<1>3. CASE \E i \in Index, n \in Counts, s \in Sizes : Calloc(i, n, s) BY <1>3, Callocs
<1>4. CASE NewTrace BY <1>4, NewTraces
<1>5. CASE UNCHANGED vars
  BY <1>5 DEF vars, Inv, Client
<1> QED BY <1>1, <1>2, <1>3, <1>4, <1>5 DEF Next

(* Whatever a program does with the allocator, and however often a driver  *)
(* starts anew after all has been freed, the heap is good, exactly the     *)
(* blocks of the program are allocated in it, and their data are in them.  *)
THEOREM Invariant ==
  ASSUME BalancedTraces, RequestsFit
  PROVE  Spec => []Inv
<1>1. Init => Inv BY InitIs
<1>2. Inv /\ [Next]_vars => Inv' BY InvKept
<1> QED BY <1>1, <1>2, PTL DEF Spec

(* No check of eval_mm_valid ever fails: payloads are aligned, inside the  *)
(* heap and apart, and keep their data through all calls; realloc copies   *)
(* them and calloc clears its block.                                       *)
THEOREM DriverAcceptsAlways ==
  ASSUME BalancedTraces, RequestsFit
  PROVE  Spec => []DriverAccepts
<1>1. Inv => DriverAccepts BY DEF Inv, DriverAccepts
<1> QED BY <1>1, Invariant, PTL

-----------------------------------------------------------------------------
(* The blocks, found by following the sizes.                               *)

(* Going from block to block by the sizes of the headers.                  *)
From(f, h, D) ==
  f = [b \in D |-> IF get_size(h, b) = 0 \/ find_next(h, b) \notin D THEN {}
                   ELSE {b} \cup f[find_next(h, b)]]

(* Such a walk over the blocks has a result.                               *)
LEMMA FromExists ==
  ASSUME NEW h, NEW D
  PROVE  \E f : From(f, h, D)
<1> DEFINE stop == {b \in D : get_size(h, b) = 0 \/ find_next(h, b) \notin D}
           nx == [b \in D |-> IF b \in stop THEN b ELSE find_next(h, b)]
<1>1. nx \in [D -> D] /\ stop \in SUBSET D OBVIOUS
<1>2. \A b \in D : /\ b \in stop <=> get_size(h, b) = 0 \/ find_next(h, b) \notin D
                   /\ b \notin stop => nx[b] = find_next(h, b) /\ find_next(h, b) \in D
  OBVIOUS
<1> HIDE DEF stop, nx
<1>3. PICK R : Reached(R, D, nx, stop) BY <1>1, Reach
<1>4. \A p \in D : /\ p \notin stop => R[p] = {p} \cup R[nx[p]]
                   /\ p \in stop => R[p] = {p}
  BY <1>3 DEF Reached
<1> DEFINE f == [b \in D |-> R[b] \ stop]
<1>5. \A b \in D : f[b] = IF get_size(h, b) = 0 \/ find_next(h, b) \notin D THEN {}
                          ELSE {b} \cup f[find_next(h, b)]
  <2> TAKE b \in D
  <2>1. CASE b \in stop
    <3>1. f[b] = {} BY <2>1, <1>4
    <3> QED BY <2>1, <3>1, <1>2
  <2>2. CASE b \notin stop
    <3>1. f[b] = ({b} \cup R[nx[b]]) \ stop BY <2>2, <1>4
    <3>2. f[find_next(h, b)] = R[nx[b]] \ stop BY <2>2, <1>2
    <3>3. f[b] = {b} \cup f[find_next(h, b)] BY <2>2, <3>1, <3>2
    <3> HIDE DEF f
    <3> QED BY <2>2, <3>3, <1>2
  <2> QED BY <2>1, <2>2
<1>6. f = [b \in D |-> f[b]] OBVIOUS
<1> HIDE DEF f
<1>7. From(f, h, D) BY <1>5, <1>6 DEF From
<1> QED BY <1>7

(* From a block on one meets the blocks that lie above it.                 *)
LEMMA FromIs ==
  ASSUME NEW h, NEW B, Tiled(h, B), NEW D, \A a : a \in D <=> a \in Addr /\ a < h.brk,
         NEW f, From(f, h, D)
  PROVE  f[8] = B
<1>0. Shape(h, B) BY DEF Tiled
<1>1. \A b \in D : f[b] = IF get_size(h, b) = 0 \/ find_next(h, b) \notin D THEN {}
                          ELSE {b} \cup f[find_next(h, b)]
  BY DEF From
<1>2. End(h) \in D /\ End(h) \in Nat /\ h.brk \in Nat /\ End(h) = h.brk - 8
  BY <1>0, EndIs, AddrIs
<1>3. \A b \in B : /\ b \in D /\ b \in Nat /\ get_size(h, b) # 0 /\ find_next(h, b) \in D
                   /\ b < find_next(h, b) /\ find_next(h, b) \in B \cup {End(h)}
                   /\ find_next(h, b) \in Nat /\ find_next(h, b) <= End(h) /\ b >= 8
  <2> TAKE b \in B
  <2>1. /\ b \in Addr /\ b \in Nat /\ b >= 8 /\ get_size(h, b) >= 16 /\ get_size(h, b) \in Nat
        /\ find_next(h, b) \in Addr /\ find_next(h, b) \in Nat
        /\ b + 16 <= find_next(h, b) /\ find_next(h, b) <= End(h)
        /\ find_next(h, b) \in B \cup {End(h)}
    BY <1>0, BlockIs
  <2> QED BY <2>1, <1>2
<1>4. f[End(h)] = {}
  <2>1. get_size(h, End(h)) = 0 BY EndHeader
  <2> QED BY <2>1, <1>1, <1>2
<1> DEFINE On(b) == {c \in B : c >= b}
           S == {b \in B : f[b] # On(b)}
<1>5. S = {}
  <2> SUFFICES ASSUME S # {} PROVE FALSE OBVIOUS
  <2>1. PICK m \in S : \A c \in S : ~(m < c)
    <3>1. MaxHeap \in Nat /\ Addr \subseteq Nat /\ \A a \in Addr : a <= MaxHeap
      BY AddrIs, MmAssumption
    <3> DEFINE r == [a \in Addr |-> a]
    <3>2. r \in [Addr -> 0 .. MaxHeap] BY <3>1
    <3>3. S \in SUBSET Addr BY <1>3, <1>0, BlockIs
    <3>4. \A a \in Addr : r[a] = a OBVIOUS
    <3> HIDE DEF S, r
    <3>5. \E m \in S : \A c \in S : ~(r[m] < r[c]) BY <3>1, <3>2, <3>3, LeastRank
    <3> QED BY <3>3, <3>4, <3>5
  <2> DEFINE n == find_next(h, m)
  <2>2. m \in B /\ f[m] # On(m) OBVIOUS
  <2>3. n \in D /\ m < n /\ n \in B \cup {End(h)} /\ get_size(h, m) # 0 /\ m \in D
        /\ m \in Nat /\ n \in Nat /\ m \in B
    BY <1>3, <2>2
  <2>4. f[m] = {m} \cup f[n] BY <2>3, <1>1
  <2>5. f[n] = On(n)
    <3>1. CASE n \in B
      <4>1. n \notin S BY <2>1, <2>3
      <4> QED BY <3>1, <4>1
    <3>2. CASE n = End(h)
      <4>1. On(n) = {}
        <5> SUFFICES ASSUME NEW c \in B, c >= n PROVE FALSE OBVIOUS
        <5>1. c < find_next(h, c) /\ find_next(h, c) <= End(h) /\ c \in Nat
              /\ find_next(h, c) \in Nat
          BY <1>3
        <5> QED BY <5>1, <3>2, <1>2
      <4> QED BY <3>2, <4>1, <1>4
    <3> QED BY <2>3, <3>1, <3>2
  <2> HIDE DEF S
  <2>6. On(m) = {m} \cup On(n)
    <3>1. ASSUME NEW c \in B, c >= m, c # m PROVE c >= n
      <4>1. c \in Nat /\ m < c BY <3>1, <2>3, <1>3
      <4>2. n <= c BY <4>1, <2>3, <1>0, NoneInside
      <4> QED BY <4>1, <4>2, <2>3
    <3>2. ASSUME NEW c \in B, c >= n PROVE c >= m
      <4>1. c \in Nat BY <1>3
      <4> QED BY <4>1, <3>2, <2>3
    <3>3. m >= m BY <2>3
    <3> HIDE DEF n
    <3>4. \A c : c \in On(m) <=> c \in {m} \cup On(n) BY <3>1, <3>2, <3>3, <2>3
    <3> QED BY <3>4
  <2> HIDE DEF On, n
  <2> QED BY <2>2, <2>4, <2>5, <2>6
<1>6. CASE 8 \in B
  <2>1. f[8] = On(8) BY <1>5, <1>6
  <2>2. On(8) = B BY <1>3
  <2> QED BY <2>1, <2>2
<1>7. CASE 8 = End(h)
  <2>1. B = {}
    <3> SUFFICES ASSUME NEW c \in B PROVE FALSE OBVIOUS
    <3>1. c < find_next(h, c) /\ find_next(h, c) <= End(h) /\ c \in Nat
          /\ find_next(h, c) \in Nat /\ c >= 8
      BY <1>3
    <3> QED BY <3>1, <1>7
  <2> QED BY <2>1, <1>4, <1>7
<1>8. 8 \in B \cup {End(h)} BY <1>0 DEF Shape
<1> QED BY <1>6, <1>7, <1>8

(* The blocks that the headers lead to are those of the invariant.         *)
LEMMA BlocksIs ==
  ASSUME NEW B, Good(heap, B)
  PROVE  /\ Blocks = B /\ FreeBlocks = FreeIn(heap, B) /\ heap.heap_start = 8
         /\ Blocks \ FreeBlocks = HeldIn(heap, B)
<1>1. Tiled(heap, B) BY DEF Good
<1>2. heap.heap_start = 8 BY <1>1 DEF Tiled, Shape
<1>3. Blocks = B
  <2> DEFINE IsFrom(f) ==
               f = [b \in InHeap |->
                      IF get_size(heap, b) = 0 \/ find_next(heap, b) \notin InHeap THEN {}
                      ELSE {b} \cup f[find_next(heap, b)]]
             from == CHOOSE f : IsFrom(f)
  <2>1. Blocks = IF heap.heap_start = NULL THEN {} ELSE from[heap.heap_start]
    BY Zenon DEF Blocks
  <2>2. \E f : IsFrom(f)
    <3>1. PICK f : From(f, heap, InHeap) BY FromExists
    <3>2. IsFrom(f) BY <3>1 DEF From
    <3> QED BY <3>2
  <2>3. IsFrom(from) BY <2>2
  <2>4. From(from, heap, InHeap) BY <2>3 DEF From
  <2>5. \A a : a \in InHeap <=> a \in Addr /\ a < heap.brk BY DEF InHeap
  <2> HIDE DEF from
  <2>6. from[8] = B BY <1>1, <2>4, <2>5, FromIs
  <2> QED BY <1>2, <2>1, <2>6
<1>4. FreeBlocks = FreeIn(heap, B) BY <1>3 DEF FreeBlocks, FreeIn
<1>5. Blocks \ FreeBlocks = HeldIn(heap, B) BY <1>3 DEF FreeBlocks, HeldIn
<1> QED BY <1>2, <1>3, <1>4, <1>5

-----------------------------------------------------------------------------
(* The lists, found by following the links.                                *)

(* What a list leads to: a set that its first block is in, that the links  *)
(* do not leave, and in which every block but the first follows another    *)
(* one of it.                                                              *)
LEMMA ListIs ==
  ASSUME NEW n \in Nat, NEW r \in [Addr -> 0 .. n], NEW first, NEW C, C \subseteq FreeBlocks,
         FreeBlocks \subseteq Addr,
         first \in FreeBlocks => first \in C,
         \A b \in C : LET next == find_free_block_next(heap, b)
                      IN next \in FreeBlocks => next \in C,
         \A b \in C : b = first \/ \E c \in C : find_free_block_next(heap, c) = b /\ r[c] < r[b]
  PROVE  ListFrom(first) = C
<1>1. ASSUME NEW b \in ListFrom(first) PROVE b \in C
  <2>1. C \in SUBSET FreeBlocks OBVIOUS
  <2> QED BY <2>1 DEF ListFrom
<1>2. ASSUME NEW b \in C, NEW S \in SUBSET FreeBlocks,
             first \in FreeBlocks => first \in S,
             \A c \in S : LET next == find_free_block_next(heap, c)
                          IN next \in FreeBlocks => next \in S
      PROVE  b \in S
  <2> SUFFICES ASSUME b \notin S PROVE FALSE OBVIOUS
  <2> DEFINE T == C \ S
  <2>1. T \in SUBSET Addr /\ T # {} OBVIOUS
  <2>2. PICK m \in T : \A c \in T : ~(r[c] < r[m])
    <3> HIDE DEF T
    <3> QED BY <2>1, LeastRank
  <2>3. m \in C /\ m \in FreeBlocks /\ m \notin S OBVIOUS
  <2>4. m # first BY <1>2, <2>3
  <2>5. PICK c \in C : find_free_block_next(heap, c) = m /\ r[c] < r[m] BY <2>3, <2>4
  <2>6. c \in S BY <2>2, <2>5
  <2> QED BY <1>2, <2>3, <2>5, <2>6
<1>3. C \subseteq ListFrom(first) BY <1>2 DEF ListFrom
<1> QED BY <1>1, <1>3

(* The list of a class has the blocks of the class.                        *)
LEMMA ClassList ==
  ASSUME NEW B, Good(heap, B), NEW i \in 0 .. NUM_ROOTS - 1
  PROVE  ListFrom(heap.free_roots[i]) =
            {b \in FreeBlocks : ~IsMini(b) /\ search_root_index(get_size(heap, b)) = i}
<1> DEFINE F == FreeIn(heap, B)
           first == heap.free_roots[i]
           C == {b \in F : get_size(heap, b) # 16 /\ class(heap, b) = i}
<1>1. FreeBlocks = F /\ Tiled(heap, B) /\ Shape(heap, B) BY BlocksIs DEF Good, Tiled
<1>2. F \subseteq Addr /\ \A b \in F : b # 0
  BY <1>1, BlockIs DEF FreeIn
<1>3. PICK n, r : Ranked(heap, F, r, n) BY DEF Good, Lists
<1>4. n \in Nat /\ r \in [Addr -> 0 .. n] /\ FreeLists(heap, F, r) /\ i \in Roots
  BY <1>3 DEF Ranked, Roots
<1>5. \A b : b \in C <=> b \in Others(heap, F) /\ class(heap, b) = i BY DEF Others
<1> HIDE DEF F, C
<1>6. first # 0 => first \in C BY <1>4, <1>5 DEF FreeLists
<1>7. \A b \in C : find_free_block_next(heap, b) # 0 => find_free_block_next(heap, b) \in C
  BY <1>4, <1>5 DEF FreeLists
<1>8. \A b \in C : b = first \/ \E c \in C : find_free_block_next(heap, c) = b /\ r[c] < r[b]
  <2> SUFFICES ASSUME NEW b \in C, b # first
               PROVE  \E c \in C : find_free_block_next(heap, c) = b /\ r[c] < r[b]
    OBVIOUS
  <2>1. b \in Others(heap, F) /\ class(heap, b) = i BY <1>5
  <2> DEFINE c == find_free_block_prev(heap, b)
  <2>2. c \in Others(heap, F) /\ find_free_block_next(heap, c) = b BY <1>4, <2>1 DEF FreeLists
  <2>3. b # 0 BY <1>2, <2>1 DEF Others
  <2> HIDE DEF c
  <2>4. class(heap, b) = class(heap, c) /\ r[c] < r[b] BY <1>4, <2>2, <2>3 DEF FreeLists
  <2>5. c \in C BY <1>5, <2>1, <2>2, <2>4
  <2> QED BY <2>2, <2>4, <2>5
<1>9. C \subseteq FreeBlocks /\ FreeBlocks \subseteq Addr BY <1>1, <1>2 DEF C
<1>10. first \in FreeBlocks => first \in C BY <1>1, <1>2, <1>6
<1>11. \A b \in C : LET next == find_free_block_next(heap, b)
                    IN next \in FreeBlocks => next \in C
  BY <1>1, <1>2, <1>7
<1> HIDE DEF first
<1>12. ListFrom(first) = C BY ONLY <1>4, <1>8, <1>9, <1>10, <1>11, ListIs
<1>13. C = {b \in FreeBlocks : ~IsMini(b) /\ search_root_index(get_size(heap, b)) = i}
  BY <1>1 DEF C, IsMini, class
<1> QED BY <1>12, <1>13 DEF first

(* The mini list has the mini blocks that are free.                        *)
LEMMA MiniListIs ==
  ASSUME NEW B, Good(heap, B)
  PROVE  ListFrom(heap.mini_free_root) = {b \in FreeBlocks : IsMini(b)}
<1> DEFINE F == FreeIn(heap, B)
           first == heap.mini_free_root
           C == Minis(heap, F)
<1>1. FreeBlocks = F /\ Tiled(heap, B) /\ Shape(heap, B) BY BlocksIs DEF Good, Tiled
<1>2. F \subseteq Addr /\ \A b \in F : b # 0
  BY <1>1, BlockIs DEF FreeIn
<1>3. PICK n, r : Ranked(heap, F, r, n) BY DEF Good, Lists
<1>4. n \in Nat /\ r \in [Addr -> 0 .. n] /\ MiniList(heap, F, r) BY <1>3 DEF Ranked
<1> HIDE DEF F
<1>5. C \subseteq F BY DEF Minis
<1> HIDE DEF C
<1>6. first = 0 \/ first \in C BY <1>4 DEF MiniList, C
<1>7. \A b \in C : \/ find_free_block_next(heap, b) = 0
                   \/ find_free_block_next(heap, b) \in C
  BY <1>4 DEF MiniList, C
<1>8. \A b \in C : b = first \/ \E c \in C : find_free_block_next(heap, c) = b /\ r[c] < r[b]
  <2> SUFFICES ASSUME NEW b \in C, b # first
               PROVE  \E c \in C : find_free_block_next(heap, c) = b /\ r[c] < r[b]
    OBVIOUS
  <2>1. PICK c \in C : find_free_block_next(heap, c) = b BY <1>4 DEF MiniList, C
  <2>2. b # 0 BY <1>2, <1>5
  <2>3. r[c] < r[b] BY <1>4, <2>1, <2>2 DEF MiniList, C
  <2> QED BY <2>1, <2>3
<1>9. C \subseteq FreeBlocks /\ FreeBlocks \subseteq Addr BY <1>1, <1>2, <1>5
<1>10. first \in FreeBlocks => first \in C BY <1>1, <1>2, <1>6
<1>11. \A b \in C : LET next == find_free_block_next(heap, b)
                    IN next \in FreeBlocks => next \in C
  BY <1>1, <1>2, <1>7
<1> HIDE DEF first
<1>12. ListFrom(first) = C BY ONLY <1>4, <1>8, <1>9, <1>10, <1>11, ListIs
<1>13. C = {b \in FreeBlocks : IsMini(b)} BY <1>1 DEF C, Minis, IsMini
<1> QED BY <1>12, <1>13 DEF first

(* The lists of a good heap.                                               *)
LEMMA GoodLists ==
  ASSUME NEW B, Good(heap, B)
  PROVE  FreeListsExact
<1> DEFINE F == FreeIn(heap, B)
           nx(b) == find_free_block_next(heap, b)
<1>1. FreeBlocks = F /\ Tiled(heap, B) BY BlocksIs DEF Good
<1>2. PICK n, r : Ranked(heap, F, r, n) BY DEF Good, Lists
<1>3. FreeLists(heap, F, r) /\ MiniList(heap, F, r) BY <1>2 DEF Ranked
<1> HIDE DEF F
<1>4. \A b \in F : /\ IsMini(b) => b \in Minis(heap, F)
                   /\ ~IsMini(b) => b \in Others(heap, F)
  BY DEF IsMini, Minis, Others
<1>5. Minis(heap, F) \subseteq F /\ Others(heap, F) \subseteq F BY DEF Minis, Others
<1>6. \A b \in F : nx(b) \in F \cup {0}
  <2> TAKE b \in F
  <2>1. CASE IsMini(b) BY <2>1, <1>3, <1>4, <1>5 DEF MiniList
  <2>2. CASE ~IsMini(b) BY <2>2, <1>3, <1>4, <1>5 DEF FreeLists
  <2> QED BY <2>1, <2>2
<1>7. \A i \in 0 .. NUM_ROOTS - 1 :
         /\ heap.free_roots[i] \in F \cup {0}
         /\ heap.free_roots[i] # 0 => find_free_block_prev(heap, heap.free_roots[i]) = 0
         /\ ListFrom(heap.free_roots[i]) =
               {b \in F : ~IsMini(b) /\ search_root_index(get_size(heap, b)) = i}
  <2> TAKE i \in 0 .. NUM_ROOTS - 1
  <2>1. ListFrom(heap.free_roots[i]) =
               {b \in FreeBlocks : ~IsMini(b) /\ search_root_index(get_size(heap, b)) = i}
    BY ClassList
  <2>2. heap.free_roots[i] # 0 => /\ heap.free_roots[i] \in F
                                  /\ find_free_block_prev(heap, heap.free_roots[i]) = 0
    BY <1>3, <1>5 DEF FreeLists, Roots
  <2> QED BY <1>1, <2>1, <2>2
<1>8. \A b \in F : ~IsMini(b) /\ nx(b) # 0 => find_free_block_prev(heap, nx(b)) = b
  BY <1>3, <1>4 DEF FreeLists
<1>9. heap.mini_free_root \in F \cup {0} BY <1>3, <1>5 DEF MiniList
<1>10. ListFrom(heap.mini_free_root) = {b \in F : IsMini(b)} BY <1>1, MiniListIs
<1>11. \A b, c \in F : IsMini(b) /\ IsMini(c) /\ nx(b) # 0 =>
          nx(b) # heap.mini_free_root /\ (nx(b) = nx(c) => b = c)
  <2> SUFFICES ASSUME NEW b \in F, NEW c \in F, IsMini(b), IsMini(c), nx(b) # 0
               PROVE  nx(b) # heap.mini_free_root /\ (nx(b) = nx(c) => b = c)
    OBVIOUS
  <2>1. b \in Minis(heap, F) /\ c \in Minis(heap, F) BY <1>4
  <2> QED BY <2>1, <1>3 DEF MiniList
<1> QED BY <1>1, <1>6, <1>7, <1>8, <1>9, <1>10, <1>11 DEF FreeListsExact

(* The tiling of a good heap.                                              *)
LEMMA GoodTiles ==
  ASSUME NEW B, Good(heap, B)
  PROVE  HeapTiled
<1>1. /\ Blocks = B /\ FreeBlocks = FreeIn(heap, B) /\ heap.heap_start = 8
      /\ Tiled(heap, B) /\ Apart(heap, B, 0) /\ Whole(heap, B, 0) /\ Shape(heap, B)
      /\ Flags(heap, B) /\ Epilogue = End(heap)
  BY BlocksIs DEF Good, Tiled, Epilogue, End
<1>2. ASSUME NEW b \in B
      PROVE  LET c == find_next(heap, b)
             IN /\ c \in B \cup {Epilogue}
                /\ get_prev_alloc(heap, c) = get_alloc(heap, b)
                /\ get_prev_mini(heap, c) = IsMini(b)
                /\ get_alloc(heap, b) \/ get_alloc(heap, c)
  <2>1. find_next(heap, b) \in B \cup {End(heap)} /\ find_next(heap, b) # 0 /\ b # 0
    <3>1. find_next(heap, b) \in Nat /\ b \in Nat /\ b >= 8 /\ b + 16 <= find_next(heap, b)
          /\ find_next(heap, b) \in B \cup {End(heap)}
      BY <1>1, BlockIs
    <3> QED BY <3>1
  <2>2. get_prev_alloc(heap, find_next(heap, b)) = get_alloc(heap, b)
        /\ get_prev_mini(heap, find_next(heap, b)) = (get_size(heap, b) = 16)
    BY <1>1 DEF Flags
  <2>3. get_alloc(heap, b) \/ get_alloc(heap, find_next(heap, b)) BY <1>1, <2>1 DEF Apart
  <2> QED BY <1>1, <2>1, <2>2, <2>3 DEF IsMini
<1>3. ASSUME NEW b \in FreeIn(heap, B), ~IsMini(b)
      PROVE  heap.mem[header_to_footer(heap, b)] = heap.mem[b]
  <2>1. b \in B /\ ~get_alloc(heap, b) /\ get_size(heap, b) # 16
    BY <1>3 DEF FreeIn, IsMini
  <2>2. b # 0 BY <1>1, <2>1, BlockIs
  <2> QED BY <1>1, <2>1, <2>2 DEF Whole
<1>4. get_prev_alloc(heap, heap.heap_start) BY <1>1 DEF Flags
<1>5. \E pm, pa \in BOOLEAN : heap.mem[Epilogue] = pack(0, pm, pa, TRUE)
  <2> DEFINE e == End(heap)
  <2>1. e \in Addr /\ heap \in Heap BY <1>1, EndIs DEF Shape
  <2>2. get_prev_mini(heap, e) \in BOOLEAN /\ get_prev_alloc(heap, e) \in BOOLEAN
    BY <2>1, HeaderIs
  <2>3. heap.mem[e] = pack(0, get_prev_mini(heap, e), get_prev_alloc(heap, e), TRUE)
    BY <1>1 DEF Flags
  <2> HIDE DEF e
  <2>4. \E pm, pa \in BOOLEAN : heap.mem[e] = pack(0, pm, pa, TRUE) BY <2>2, <2>3
  <2> QED BY <1>1, <2>4 DEF e
<1> QED BY <1>1, <1>2, <1>3, <1>4, <1>5 DEF HeapTiled

-----------------------------------------------------------------------------
(* The properties.                                                         *)

(* Before the first call there are no blocks, and no list has any.         *)
LEMMA NothingYet ==
  ASSUME heap.heap_start = 0, Usable(heap, {})
  PROVE  /\ Blocks = {} /\ FreeBlocks = {} /\ HeapTiled /\ FreeListsExact
<1>1. Blocks = {} BY Zenon DEF Blocks
<1>2. FreeBlocks = {} BY <1>1 DEF FreeBlocks
<1>3. heap.free_roots = [i \in Roots |-> 0] /\ heap.mini_free_root = 0
  <2>1. ~InUse(heap, {}) BY InUseIs
  <2> QED BY <2>1 DEF Usable, Fresh
<1>4. \A first : ListFrom(first) = {} BY <1>2 DEF ListFrom
<1>5. HeapTiled BY DEF HeapTiled
<1>6. FreeListsExact BY <1>2, <1>3, <1>4 DEF FreeListsExact, Roots
<1> QED BY <1>1, <1>2, <1>5, <1>6

(* A good heap is consistent as HeapConsistent states it of the code's own *)
(* links and sizes.                                                        *)
LEMMA Consistent == Inv => HeapConsistent
<1> SUFFICES ASSUME Inv PROVE HeapConsistent OBVIOUS
<1>1. Usable(heap, HeldOf(blocks)) BY DEF Inv, Client
<1>2. CASE heap.heap_start = 0
  <2>1. Usable(heap, {}) BY <1>1, <1>2, InUseIs DEF Usable
  <2> QED BY <1>2, <2>1, NothingYet DEF HeapConsistent
<1>3. CASE heap.heap_start # 0
  <2>1. PICK B : Good(heap, B) BY <1>1, <1>3 DEF Usable, InUse
  <2> QED BY <2>1, GoodTiles, GoodLists DEF HeapConsistent
<1> QED BY <1>2, <1>3

(* The allocated blocks are those of the program.                          *)
LEMMA Held == Inv => BlocksAreHeld
<1> SUFFICES ASSUME Inv PROVE BlocksAreHeld OBVIOUS
<1> DEFINE H == HeldOf(blocks)
<1>1. /\ Usable(heap, H) /\ blocks \in [Index -> Addr]
      /\ block_sizes \in [Index -> 0 .. SizeMod - 1] /\ Filling(heap, blocks, block_sizes)
  BY DEF Inv, Client, Ledger
<1>2. {header_to_payload(b) : b \in H} = Payloads(blocks)
  <2>1. Payloads(blocks) \subseteq Nat BY <1>1, NoneNull DEF Payloads
  <2>2. \A l \in Payloads(blocks) : header_to_payload(payload_to_header(l)) = l
    BY <2>1 DEF header_to_payload, payload_to_header
  <2>3. H = {payload_to_header(l) : l \in Payloads(blocks)} BY DEF HeldOf
  <2> HIDE DEF H
  <2> QED BY <2>2, <2>3
<1>3. Blocks \ FreeBlocks = H
  <2>1. CASE heap.heap_start = 0
    <3>1. H = {} BY <1>1, <2>1, InUseIs DEF Usable
    <3>2. Usable(heap, {}) BY <1>1, <3>1
    <3> QED BY <2>1, <3>1, <3>2, NothingYet
  <2>2. CASE heap.heap_start # 0
    <3>1. PICK B : Good(heap, B) /\ HeldIn(heap, B) = H BY <1>1, <2>2 DEF Usable, InUse
    <3> QED BY <3>1, BlocksIs
  <2> QED BY <2>1, <2>2
<1>4. ASSUME NEW i \in Index, blocks[i] # 0
      PROVE  block_sizes[i] <= get_payload_size(heap, payload_to_header(blocks[i]))
  <2> DEFINE x == payload_to_header(blocks[i])
  <2>1. x \in H BY <1>1, <1>4, HeaderOf
  <2>2. block_sizes[i] + 8 <= get_size(heap, x) BY <1>1, <1>4 DEF Filling
  <2>3. block_sizes[i] \in Nat BY <1>1, MmAssumption
  <2> HIDE DEF x, H
  <2>4. get_size(heap, x) \in Nat /\ get_alloc(heap, x) BY <1>1, <2>1, UsableIs, InUseHeld
  <2>5. get_payload_size(heap, x) = get_size(heap, x) - 8 BY <2>4 DEF get_payload_size
  <2> QED BY <2>2, <2>3, <2>4, <2>5 DEF x
<1>5. {header_to_payload(b) : b \in Blocks \ FreeBlocks} = {blocks[i] : i \in Index} \ {NULL}
  BY <1>2, <1>3 DEF Payloads
<1> QED BY <1>4, <1>5 DEF BlocksAreHeld

(* Growth is needed where it happens, because malloc_block has it so.      *)
LEMMA Needed ==
  ASSUME RequestsFit, Inv
  PROVE  GrowthIsNeeded
<1>1. Usable(heap, HeldOf(blocks)) BY DEF Inv, Client
<1> SUFFICES ASSUME heap.heap_start # 0, NEW s \in Sizes \ {0}
             PROVE  LET r == malloc(heap, s)
                        asize == adjusted_size(s)
                    IN /\ r.bp = NULL \/ r.heap.brk > heap.brk =>
                             ~ \E b \in FreeBlocks : get_size(heap, b) >= asize
                       /\ r.bp = NULL => heap.brk + max(asize, chunksize) > MaxHeap
  BY DEF GrowthIsNeeded
<1> DEFINE r == malloc(heap, s)
           asize == adjusted_size(s)
<1>2. r = malloc_block(heap, asize) BY DEF malloc
<1>3. asize \in Nat /\ asize % 16 = 0 /\ asize >= 16 /\ asize < SizeMod
  BY SizeFits, AdjustedSize
<1>4. PICK B : Good(heap, B) BY <1>1 DEF Usable, InUse
<1> HIDE DEF r, asize
<1>5. Obtained(heap, B, r, asize) BY <1>2, <1>3, <1>4, MallocBlock
<1>6. heap.brk \in Nat
  BY <1>4, EndIs, AddrIs DEF Good, Tiled
<1>7. FreeBlocks = FreeIn(heap, B) /\ \A b \in FreeIn(heap, B) : get_size(heap, b) \in Nat
  BY <1>4, BlocksIs, BlockIs DEF Good, Tiled, FreeIn
<1>8. ASSUME r.bp = 0 \/ r.heap.brk > heap.brk
      PROVE  ~ \E b \in FreeBlocks : get_size(heap, b) >= asize
  <2>1. r.bp = 0 \/ r.heap.brk # heap.brk BY <1>6, <1>8
  <2>2. \A b \in FreeIn(heap, B) : get_size(heap, b) < asize BY <1>5, <2>1 DEF Obtained
  <2> QED BY <1>3, <1>7, <2>2
<1>9. r.bp = 0 => heap.brk + max(asize, chunksize) > MaxHeap BY <1>5 DEF Obtained
<1> QED BY <1>8, <1>9 DEF r, asize

(* After every call the blocks tile the heap, with flags and footers       *)
(* right, no two free blocks are neighbours, and each list has exactly the *)
(* free blocks of its class.                                               *)
THEOREM HeapConsistentAlways ==
  ASSUME BalancedTraces, RequestsFit
  PROVE  Spec => []HeapConsistent
<1> QED BY Consistent, Invariant, PTL

(* No block is lost or handed out twice, and each has room for what was    *)
(* asked.                                                                  *)
THEOREM BlocksAreHeldAlways ==
  ASSUME BalancedTraces, RequestsFit
  PROVE  Spec => []BlocksAreHeld
<1> QED BY Held, Invariant, PTL

(* The heap grows, and a request fails, only if no free block is large     *)
(* enough, and fails only at the limit.                                    *)
THEOREM GrowthIsNeededAlways ==
  ASSUME BalancedTraces, RequestsFit
  PROVE  Spec => []GrowthIsNeeded
<1>1. Inv => GrowthIsNeeded BY Needed
<1> QED BY <1>1, Invariant, PTL

(* Every variable keeps its type.                                          *)
THEOREM TypeCorrect ==
  ASSUME BalancedTraces, RequestsFit
  PROVE  Spec => []TypeOK
<1> DEFINE Bool == allCheck \in BOOLEAN
<1>1. Init => Bool BY DEF Init
<1>2. Bool /\ [Next]_vars => Bool'
  <2> SUFFICES ASSUME Bool, [Next]_vars PROVE Bool' OBVIOUS
  <2>1. ASSUME NEW h, NEW bp, NEW size, NEW i, NEW rs, NEW checked, Keep(h, bp, size, i, rs, checked)
        PROVE  Bool'
    BY <2>1 DEF Keep
  <2>2. ASSUME NEW h, NEW i, NEW checked, Forget(h, i, checked)
        PROVE  Bool'
    BY <2>2 DEF Forget
  <2>3. ASSUME NEW r, NEW size, NEW i, NEW rs, NEW checked, Returned(r, size, i, rs, checked)
        PROVE  Bool'
    <3>1. CASE NoBlock(r.heap) BY <3>1 DEF NoBlock
    <3> QED BY <2>1, <2>3, <3>1 DEF Returned
  <2>4. CASE vars' = vars BY <2>4 DEF vars
  <2>5. CASE NewTrace BY <2>5 DEF NewTrace
  <2>6. ASSUME NEW i \in Index, Free(i) PROVE Bool'
    BY <2>2, <2>6 DEF Free
  <2>7. ASSUME NEW i \in Index, NEW s \in Sizes, Malloc(i, s) PROVE Bool'
    BY <2>3, <2>7 DEF Malloc
  <2>8. ASSUME NEW i \in Index, NEW s \in Sizes, Realloc(i, s) PROVE Bool'
    BY <2>2, <2>3, <2>8 DEF Realloc, ReturnedMoved
  <2>9. ASSUME NEW i \in Index, NEW n \in Counts, NEW s \in Sizes, Calloc(i, n, s) PROVE Bool'
    BY <2>3, <2>9 DEF Calloc, ReturnedClear
  <2> QED BY <2>4, <2>5, <2>6, <2>7, <2>8, <2>9 DEF Next
<1>3. Inv /\ Bool => TypeOK
  <2> SUFFICES ASSUME Inv, Bool PROVE TypeOK OBVIOUS
  <2>1. /\ Usable(heap, HeldOf(blocks)) /\ blocks \in [Index -> Addr]
        /\ block_sizes \in [Index -> 0 .. SizeMod - 1]
    BY DEF Inv, Client, Ledger
  <2>2. heap \in Heap
    <3>1. CASE heap.heap_start = 0 BY <2>1, <3>1, InUseIs DEF Usable, Fresh
    <3>2. CASE heap.heap_start # 0 BY <2>1, <3>2, InUseIs DEF Usable
    <3> QED BY <3>1, <3>2
  <2> QED BY <2>1, <2>2 DEF TypeOK, Heap, Roots
<1> QED BY <1>1, <1>2, <1>3, Invariant, PTL DEF Spec

=============================================================================
