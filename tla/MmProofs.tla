------------------------------ MODULE MmProofs ------------------------------
(***************************************************************************)
(* The allocator, for any sizes of the heap, of its chunks and of its      *)
(* lists: every operation of Mm keeps the heap good.                       *)
(*                                                                         *)
(* Good says that some set of blocks tiles the heap and that the lists     *)
(* have exactly the free ones. Between the steps of an operation the heap  *)
(* is not good: a block that was taken out of its list, or is not in one   *)
(* yet, is loose. Each function is shown to lead from a good heap to a     *)
(* heap with one loose block, or back, and to keep the contents of the     *)
(* blocks that are held.                                                   *)
(***************************************************************************)
EXTENDS Mm, WellFoundedInduction, TLAPS

USE DEF wsize, dsize, min_block_size, new_mini_block_size, NULL

-----------------------------------------------------------------------------
(* Addresses, words and headers.                                           *)

(* The indices of the segregated lists.                                    *)
Roots == 0 .. NUM_ROOTS - 1

(* The type of a heap.                                                     *)
Heap == [mem : [Addr -> Nat], brk : Addr, heap_start : Addr,
         free_roots : [Roots -> Addr], mini_free_root : Addr]

(* An address is a multiple of eight up to the limit of the heap.          *)
LEMMA AddrIs ==
  /\ Addr \subseteq Nat /\ 0 \in Addr
  /\ \A a : a \in Addr <=> a \in Nat /\ a % 8 = 0 /\ a <= MaxHeap
<1>1. MaxHeap \in Nat /\ MaxHeap % 8 = 0 BY MmAssumption
<1>2. MaxHeap \div 8 \in Nat /\ 8 * (MaxHeap \div 8) = MaxHeap BY <1>1
<1>3. ASSUME NEW a \in Addr PROVE a \in Nat /\ a % 8 = 0 /\ a <= MaxHeap
  <2>1. PICK i \in 0 .. MaxHeap \div 8 : a = 8 * i BY DEF Addr
  <2> QED BY <2>1, <1>1, <1>2
<1>4. ASSUME NEW a \in Nat, a % 8 = 0, a <= MaxHeap PROVE a \in Addr
  <2>1. a = 8 * (a \div 8) /\ a \div 8 \in 0 .. MaxHeap \div 8 BY <1>1, <1>2, <1>4
  <2> QED BY <2>1 DEF Addr
<1>5. 0 \in Addr BY <1>4, <1>1
<1> QED BY <1>3, <1>4, <1>5

(* A word read as a header.                                                *)
LEMMA WordIs ==
  ASSUME NEW w \in Nat
  PROVE  /\ extract_size(w) \in Nat /\ extract_size(w) % 16 = 0
         /\ extract_alloc(w) \in BOOLEAN /\ extract_prev_alloc(w) \in BOOLEAN
         /\ extract_prev_mini(w) \in BOOLEAN
BY DEF extract_size, extract_alloc, extract_prev_alloc, extract_prev_mini

(* The flags are the low bits of a word and do not reach the size.         *)
LEMMA Digits ==
  ASSUME NEW size \in Nat, size % 16 = 0, NEW c \in 0 .. 7
  PROVE  /\ (size + c) % 16 = c
         /\ (size + c) % 2 = c % 2
         /\ ((size + c) \div 2) % 2 = (c \div 2) % 2
         /\ ((size + c) \div 4) % 2 = (c \div 4) % 2
OBVIOUS

(* What a header says is read back.                                        *)
LEMMA PackIs ==
  ASSUME NEW size \in Nat, size % 16 = 0,
         NEW pm \in BOOLEAN, NEW pa \in BOOLEAN, NEW al \in BOOLEAN
  PROVE  /\ pack(size, pm, pa, al) \in Nat
         /\ extract_size(pack(size, pm, pa, al)) = size
         /\ extract_alloc(pack(size, pm, pa, al)) = al
         /\ extract_prev_alloc(pack(size, pm, pa, al)) = pa
         /\ extract_prev_mini(pack(size, pm, pa, al)) = pm
<1> DEFINE c == 4 * Bit(pm) + 2 * Bit(pa) + Bit(al)
<1>1. Bit(pm) \in 0 .. 1 /\ Bit(pa) \in 0 .. 1 /\ Bit(al) \in 0 .. 1
  BY DEF Bit
<1>2. (Bit(pm) = 1 <=> pm) /\ (Bit(pa) = 1 <=> pa) /\ (Bit(al) = 1 <=> al)
  BY DEF Bit
<1>3. c \in 0 .. 7 /\ c % 2 = Bit(al) /\ (c \div 2) % 2 = Bit(pa) /\ (c \div 4) % 2 = Bit(pm)
  BY <1>1
<1>4. pack(size, pm, pa, al) = size + c
  BY <1>1 DEF pack
<1> HIDE DEF c
<1>5. extract_size(pack(size, pm, pa, al)) = size /\ pack(size, pm, pa, al) \in Nat
  <2>1. (size + c) % 16 = c
    BY <1>3, Digits
  <2>2. (size + c) - c = size /\ size + c \in Nat
    BY <1>3
  <2> QED BY <2>1, <2>2, <1>4 DEF extract_size
<1>6. extract_alloc(pack(size, pm, pa, al)) <=> al
  BY <1>2, <1>3, <1>4, Digits DEF extract_alloc
<1>7. extract_prev_alloc(pack(size, pm, pa, al)) <=> pa
  BY <1>2, <1>3, <1>4, Digits DEF extract_prev_alloc
<1>8. extract_prev_mini(pack(size, pm, pa, al)) <=> pm
  BY <1>2, <1>3, <1>4, Digits DEF extract_prev_mini
<1>9. \A x : extract_alloc(x) \in BOOLEAN /\ extract_prev_alloc(x) \in BOOLEAN /\ extract_prev_mini(x) \in BOOLEAN
  BY DEF extract_alloc, extract_prev_alloc, extract_prev_mini
<1> QED BY <1>5, <1>6, <1>7, <1>8, <1>9

(* What a header says is of the right type.                                *)
LEMMA HeaderIs ==
  ASSUME NEW h \in Heap, NEW b \in Addr
  PROVE  /\ get_size(h, b) \in Nat /\ get_size(h, b) % 16 = 0
         /\ get_alloc(h, b) \in BOOLEAN /\ get_prev_alloc(h, b) \in BOOLEAN
         /\ get_prev_mini(h, b) \in BOOLEAN
         /\ find_next(h, b) = b + get_size(h, b) /\ find_next(h, b) \in Nat
<1>1. h.mem[b] \in Nat BY DEF Heap
<1> QED BY <1>1, WordIs, AddrIs DEF get_size, get_alloc, get_prev_alloc, get_prev_mini, find_next

(* Headers with the same word say the same.                                *)
LEMMA SameHeader ==
  ASSUME NEW h, NEW w, NEW b, w.mem[b] = h.mem[b]
  PROVE  /\ get_size(w, b) = get_size(h, b) /\ get_alloc(w, b) = get_alloc(h, b)
         /\ get_prev_alloc(w, b) = get_prev_alloc(h, b)
         /\ get_prev_mini(w, b) = get_prev_mini(h, b)
         /\ find_next(w, b) = find_next(h, b)
BY DEF get_size, get_alloc, get_prev_alloc, get_prev_mini, find_next

(* A header in which a word has been packed says what was packed.          *)
LEMMA PackedHeader ==
  ASSUME NEW h, NEW b, NEW size \in Nat, size % 16 = 0,
         NEW pm \in BOOLEAN, NEW pa \in BOOLEAN, NEW al \in BOOLEAN,
         h.mem[b] = pack(size, pm, pa, al)
  PROVE  /\ get_size(h, b) = size /\ get_alloc(h, b) = al
         /\ get_prev_alloc(h, b) = pa /\ get_prev_mini(h, b) = pm
         /\ find_next(h, b) = b + size
BY PackIs DEF get_size, get_alloc, get_prev_alloc, get_prev_mini, find_next

(* The globals of the allocator are as before.                             *)
SameRoots(h, w) ==
  w.heap_start = h.heap_start /\ w.free_roots = h.free_roots
  /\ w.mini_free_root = h.mini_free_root

(* A store changes one word of a heap.                                     *)
LEMMA StoreIs ==
  ASSUME NEW h \in Heap, NEW x \in Addr, NEW v \in Nat
  PROVE  /\ Store(h, x, v) \in Heap /\ SameRoots(h, Store(h, x, v))
         /\ Store(h, x, v).brk = h.brk
         /\ \A a \in Addr : Store(h, x, v).mem[a] = IF a = x THEN v ELSE h.mem[a]
BY DEF Store, Heap, SameRoots

(* All that write_block does to the memory.                                *)
Written(h, w, b, n, size, pm, pa, al) ==
  /\ w \in Heap /\ w.brk = h.brk /\ SameRoots(h, w)
  /\ w.mem[b] = pack(size, pm, pa, al)
  /\ w.mem[n] = pack(get_size(h, n), size = 16, al, get_alloc(h, n))
  /\ ~al /\ size # 16 => w.mem[n - 8] = pack(size, pm, pa, al)
  /\ \A a \in Addr : a # b /\ a # n /\ (a = n - 8 => al \/ size = 16)
       => w.mem[a] = h.mem[a]

(* write_block writes the header, the footer of a free block that is not   *)
(* mini, and the flags of the header that follows.                         *)
LEMMA WriteBlock ==
  ASSUME NEW h \in Heap, NEW b \in Addr, NEW size \in Nat, size % 16 = 0, size >= 16,
         NEW n \in Addr, n = b + size,
         NEW pm \in BOOLEAN, NEW pa \in BOOLEAN, NEW al \in BOOLEAN,
         NEW w, w = write_block(h, b, size, pm, pa, al)
  PROVE  Written(h, w, b, n, size, pm, pa, al)
<1> DEFINE p == pack(size, pm, pa, al)
           t == write_tags(h, b, size, p)
<1>1. p \in Nat /\ extract_size(p) = size /\ extract_alloc(p) = al
  BY PackIs
<1>2. b \in Nat /\ n \in Nat /\ n \in Addr /\ n - 8 \in Addr /\ n - 8 # n /\ n # b
  <2>1. b \in Nat /\ n \in Nat /\ n % 8 = 0 /\ n <= MaxHeap /\ MaxHeap \in Nat
    BY AddrIs, MmAssumption
  <2>2. n - 8 \in Nat /\ (n - 8) % 8 = 0 /\ n - 8 <= MaxHeap
    BY <2>1
  <2> QED BY <2>1, <2>2, AddrIs
<1> HIDE DEF p, t
<1>3. /\ t \in Heap /\ t.brk = h.brk /\ SameRoots(h, t)
      /\ t.mem[b] = p
      /\ t.mem[n] = h.mem[n]
      /\ ~al /\ size # 16 => t.mem[n - 8] = p
      /\ \A a \in Addr : a # b /\ (a = n - 8 => al \/ size = 16) => t.mem[a] = h.mem[a]
  <2> DEFINE s == Store(h, b, p)
  <2>0. t = IF al \/ size = 16 THEN s ELSE write_footer(s, b, p)
    BY <1>1 DEF t, p, write_tags
  <2> HIDE DEF p
  <2>1. s \in Heap /\ SameRoots(h, s) /\ s.brk = h.brk /\ \A a \in Addr : s.mem[a] = IF a = b THEN p ELSE h.mem[a]
    BY <1>1, StoreIs
  <2>2. CASE al \/ size = 16
    <3>1. t = s BY <2>2, <2>0
    <3> QED BY <3>1, <2>1, <2>2, <1>2
  <2>3. CASE ~al /\ size # 16
    <3>1. header_to_footer(s, b) = n - 8
      <4>1. get_size(s, b) = size BY <2>1, <1>1 DEF get_size
      <4> QED BY <4>1, <1>2 DEF header_to_footer, header_to_payload
    <3>2. t = Store(s, n - 8, p)
      BY <2>3, <2>0, <3>1 DEF write_footer
    <3> HIDE DEF s
    <3> DEFINE f == n - 8
    <3>5. f \in Addr /\ t = Store(s, f, p)
      BY <3>2, <1>2
    <3> HIDE DEF f
    <3>3. /\ t \in Heap /\ SameRoots(s, t) /\ t.brk = s.brk
          /\ \A a \in Addr : t.mem[a] = IF a = f THEN p ELSE s.mem[a]
      <4>1. /\ Store(s, f, p) \in Heap /\ SameRoots(s, Store(s, f, p))
            /\ Store(s, f, p).brk = s.brk
            /\ \A a \in Addr : Store(s, f, p).mem[a] = IF a = f THEN p ELSE s.mem[a]
        BY <2>1, <3>5, <1>1, StoreIs
      <4> QED BY <4>1, <3>5
    <3>4. n - 8 # b BY <2>3, <1>2
    <3> QED BY <2>1, <2>3, <3>3, <3>4, <1>2 DEF SameRoots, f
  <2> QED BY <2>2, <2>3
<1>4. w = mark_next(t, b, size, al)
  BY DEF write_block, t, p
<1>5. find_next(t, b) = n
  BY <1>3, <1>1 DEF find_next, get_size
<1>6. get_size(t, n) = get_size(h, n) /\ get_alloc(t, n) = get_alloc(h, n)
  BY <1>3, SameHeader
<1> DEFINE mini == size = 16
           q == pack(get_size(h, n), mini, al, get_alloc(h, n))
<1>7. w = Store(t, n, q)
  <2> QED BY <1>4, <1>5, <1>6 DEF mark_next, write_prev_flags
<1>8. q \in Nat
  <2>1. mini \in BOOLEAN /\ n \in Addr OBVIOUS
  <2> HIDE DEF mini
  <2> QED BY <2>1, HeaderIs, PackIs
<1>9. /\ w \in Heap /\ SameRoots(t, w) /\ w.brk = t.brk
      /\ \A a \in Addr : w.mem[a] = IF a = n THEN q ELSE t.mem[a]
  <2>1. t \in Heap /\ q \in Nat BY <1>3, <1>8
  <2> HIDE DEF q
  <2>2. /\ Store(t, n, q) \in Heap /\ SameRoots(t, Store(t, n, q))
        /\ Store(t, n, q).brk = t.brk
        /\ \A a \in Addr : Store(t, n, q).mem[a] = IF a = n THEN q ELSE t.mem[a]
    BY <2>1, StoreIs
  <2> QED BY <2>2, <1>7
<1> HIDE DEF q
<1>10. /\ w \in Heap /\ w.brk = h.brk /\ SameRoots(h, w)
  BY <1>3, <1>9 DEF SameRoots
<1>11. w.mem[b] = p /\ (~al /\ size # 16 => w.mem[n - 8] = p)
  BY <1>9, <1>3, <1>2
<1>12. \A a \in Addr : a # b /\ a # n /\ (a = n - 8 => al \/ size = 16) => w.mem[a] = h.mem[a]
  BY <1>9, <1>3, <1>2
<1>13. w.mem[n] = q
  BY <1>9
<1> QED BY <1>10, <1>11, <1>12, <1>13 DEF p, q, Written

-----------------------------------------------------------------------------
(* Blocks that tile the heap.                                              *)

(* The epilogue.                                                           *)
End(h) == h.brk - wsize

(* The headers of B are those of blocks that lie end to end from the first *)
(* address to the epilogue: no block begins inside another, and where one  *)
(* begins another ends.                                                    *)
Shape(h, B) ==
  /\ h \in Heap /\ h.heap_start = 8 /\ h.brk % 16 = 0 /\ h.brk >= 16
  /\ \A b \in B : b \in Addr /\ b % 16 = 8 /\ get_size(h, b) >= 16
  /\ \A b \in B : find_next(h, b) <= End(h) /\ find_next(h, b) \in B \cup {End(h)}
  /\ \A b, c \in B : b < c => find_next(h, b) <= c
  /\ \A c \in B \cup {End(h)} : c = 8 \/ \E b \in B : find_next(h, b) = c
  /\ 8 \in B \cup {End(h)}

(* Each header says of the block before whether it is allocated and mini;  *)
(* the block before the first counts as allocated.                         *)
Flags(h, B) ==
  /\ \A b \in B : /\ get_prev_alloc(h, find_next(h, b)) = get_alloc(h, b)
                  /\ get_prev_mini(h, find_next(h, b)) = (get_size(h, b) = 16)
  /\ get_prev_alloc(h, 8)
  /\ h.mem[End(h)] = pack(0, get_prev_mini(h, End(h)), get_prev_alloc(h, End(h)), TRUE)

(* What coalescing reads in the footer of a free block is its size.        *)
Feet(h, B) ==
  \A b \in B : ~get_alloc(h, b) /\ get_size(h, b) # 16 =>
                 extract_size(h.mem[header_to_footer(h, b)]) = get_size(h, b)

(* The blocks of B tile the heap. Nothing is said of the lists here, and   *)
(* nothing of neighbours that are both free.                               *)
Tiled(h, B) == Shape(h, B) /\ Flags(h, B) /\ Feet(h, B)

(* Where the epilogue is.                                                  *)
LEMMA EndIs ==
  ASSUME NEW h, NEW B, Shape(h, B)
  PROVE  /\ End(h) \in Nat /\ End(h) \in Addr /\ End(h) % 16 = 8 /\ End(h) >= 8
         /\ End(h) = h.brk - 8 /\ h.brk \in Addr
<1>1. h.brk \in Addr BY DEF Shape, Heap
<1>2. h.brk \in Nat /\ h.brk % 16 = 0 /\ h.brk >= 16 /\ h.brk <= MaxHeap /\ MaxHeap \in Nat
  BY <1>1, AddrIs, MmAssumption DEF Shape
<1>3. End(h) \in Nat /\ End(h) % 16 = 8 /\ End(h) >= 8 /\ End(h) % 8 = 0 /\ End(h) <= MaxHeap
  BY <1>2 DEF End
<1> QED BY <1>1, <1>3, AddrIs DEF End

(* What holds of each block: its header is an address, its links lie       *)
(* inside it, and it ends at or before the epilogue.                       *)
LEMMA BlockIs ==
  ASSUME NEW h, NEW B, Shape(h, B), NEW b \in B
  PROVE  /\ b \in Addr /\ b \in Nat /\ b % 16 = 8 /\ b >= 8
         /\ get_size(h, b) \in Nat /\ get_size(h, b) % 16 = 0 /\ get_size(h, b) >= 16
         /\ find_next(h, b) = b + get_size(h, b)
         /\ find_next(h, b) \in Addr /\ find_next(h, b) \in Nat
         /\ find_next(h, b) % 16 = 8 /\ b + 16 <= find_next(h, b) /\ find_next(h, b) <= End(h)
         /\ find_next(h, b) \in B \cup {End(h)}
         /\ b + 8 \in Addr /\ b + 16 \in Addr
         /\ get_alloc(h, b) \in BOOLEAN /\ get_prev_alloc(h, b) \in BOOLEAN
         /\ get_prev_mini(h, b) \in BOOLEAN
<1>1. b \in Addr /\ b % 16 = 8 /\ get_size(h, b) >= 16 /\ h \in Heap /\ find_next(h, b) <= End(h)
      /\ find_next(h, b) \in B \cup {End(h)}
  BY DEF Shape
<1>2. b \in Nat /\ b >= 8 BY <1>1, AddrIs
<1>3. /\ get_size(h, b) \in Nat /\ get_size(h, b) % 16 = 0 /\ find_next(h, b) = b + get_size(h, b)
      /\ find_next(h, b) \in Nat
      /\ get_alloc(h, b) \in BOOLEAN /\ get_prev_alloc(h, b) \in BOOLEAN
      /\ get_prev_mini(h, b) \in BOOLEAN
  BY <1>1, HeaderIs
<1>4. End(h) \in Nat /\ End(h) <= MaxHeap /\ MaxHeap \in Nat /\ End(h) \in Addr
  BY EndIs, AddrIs, MmAssumption
<1>5. find_next(h, b) \in Addr
  BY <1>1, <1>4 DEF Shape
<1> HIDE DEF wsize, dsize, min_block_size, new_mini_block_size, NULL
<1> DEFINE s == get_size(h, b)
           n == find_next(h, b)
<1>6. n = b + s /\ s \in Nat /\ s % 16 = 0 /\ n <= End(h) /\ s >= 16 BY <1>1, <1>3
<1> HIDE DEF s, n
<1>7. n % 16 = 8 /\ b + 16 <= n /\ b + 8 \in Nat /\ b + 16 \in Nat
      /\ (b + 8) % 8 = 0 /\ (b + 16) % 8 = 0 /\ b + 16 <= MaxHeap /\ b + 8 <= MaxHeap
  BY <1>1, <1>2, <1>4, <1>6
<1>8. b + 8 \in Addr /\ b + 16 \in Addr
  BY <1>7, AddrIs
<1> QED BY <1>1, <1>2, <1>3, <1>5, <1>7, <1>8 DEF s, n

(* No block begins or ends inside another.                                 *)
LEMMA NoneInside ==
  ASSUME NEW h, NEW B, Shape(h, B), NEW b \in B, NEW c \in B \cup {End(h)},
         b < c
  PROVE  find_next(h, b) <= c
BY BlockIs DEF Shape

(* One block at most ends where a block begins.                            *)
LEMMA OneBefore ==
  ASSUME NEW h, NEW B, Shape(h, B), NEW b \in B, NEW c \in B, find_next(h, b) = find_next(h, c)
  PROVE  b = c
<1>1. b \in Nat /\ c \in Nat /\ b + 16 <= find_next(h, b) /\ c + 16 <= find_next(h, c)
      /\ find_next(h, b) \in Nat
  BY BlockIs
<1>2. ~(b < c) /\ ~(c < b) BY <1>1, NoneInside
<1> QED BY <1>1, <1>2

(* An address lies in one block at most.                                   *)
LEMMA SameInside ==
  ASSUME NEW h, NEW B, Shape(h, B), NEW b \in B, NEW c \in B, NEW a \in Int,
         b <= a, a < find_next(h, b), c <= a, a < find_next(h, c)
  PROVE  b = c
<1>1. b \in Nat /\ c \in Nat /\ find_next(h, b) \in Nat /\ find_next(h, c) \in Nat
  BY BlockIs
<1>2. ~(b < c) /\ ~(c < b) BY <1>1, NoneInside
<1> QED BY <1>1, <1>2

(* The epilogue has no size, is allocated and is no block.                 *)
LEMMA EndHeader ==
  ASSUME NEW h, NEW B, Tiled(h, B)
  PROVE  get_size(h, End(h)) = 0 /\ get_alloc(h, End(h)) /\ End(h) \notin B
<1>1. End(h) \in Addr /\ h \in Heap BY EndIs DEF Tiled, Shape
<1>2. get_prev_mini(h, End(h)) \in BOOLEAN /\ get_prev_alloc(h, End(h)) \in BOOLEAN
  BY <1>1, HeaderIs
<1>3. get_size(h, End(h)) = 0 /\ get_alloc(h, End(h)) = TRUE
  <2>1. h.mem[End(h)] = pack(0, get_prev_mini(h, End(h)), get_prev_alloc(h, End(h)), TRUE)
    BY DEF Tiled, Flags
  <2>2. 0 \in Nat /\ 0 % 16 = 0 /\ TRUE \in BOOLEAN
    OBVIOUS
  <2> QED BY <2>1, <2>2, <1>2, PackedHeader
<1>4. End(h) \notin B
  BY <1>3, BlockIs DEF Tiled
<1> QED BY <1>3, <1>4

(* A footer is the last word of its block.                                 *)
LEMMA FootIs ==
  ASSUME NEW h, NEW B, Shape(h, B), NEW b \in B
  PROVE  /\ header_to_footer(h, b) = find_next(h, b) - 8
         /\ header_to_footer(h, b) \in Addr /\ header_to_footer(h, b) \in Nat
         /\ header_to_footer(h, b) % 16 = 0
         /\ b < header_to_footer(h, b) /\ header_to_footer(h, b) < find_next(h, b)
<1> DEFINE n == find_next(h, b)
           s == get_size(h, b)
           f == header_to_footer(h, b)
<1>1. n = b + s /\ n \in Nat /\ b \in Nat /\ s \in Nat /\ n % 16 = 8 /\ b + 16 <= n /\ n \in Addr
  BY BlockIs
<1>2. f = n - 8
  <2>1. f = ((b + 8) + s) - 16 BY <1>1 DEF header_to_footer, header_to_payload
  <2> QED BY <2>1, <1>1
<1> HIDE DEF n, f, s
<1>3. f \in Nat /\ f % 16 = 0 /\ b < f /\ f < n /\ f % 8 = 0
  BY <1>1, <1>2
<1>4. f <= MaxHeap
  BY <1>1, <1>3, AddrIs, MmAssumption
<1> QED BY <1>2, <1>3, <1>4, AddrIs DEF n, f

-----------------------------------------------------------------------------
(* A stretch of the heap becomes one block.                                *)

(* What is in the blocks of S is as before.                                *)
Kept(h, w, S) ==
  \A c \in S : /\ get_size(w, c) = get_size(h, c) /\ get_alloc(w, c) = get_alloc(h, c)
               /\ find_next(w, c) = find_next(h, c)
               /\ \A a \in Addr : c < a /\ a < find_next(h, c) => w.mem[a] = h.mem[a]

(* What becomes of a heap when one block from b to n takes the place of    *)
(* all that were there, and the blocks B2 are left.                        *)
Retiled(h, w, b, n, al, B2) ==
  /\ Tiled(w, B2) /\ w.brk = h.brk /\ SameRoots(h, w) /\ End(w) = End(h)
  /\ b \in B2 /\ n \in B2 \cup {End(h)}
  /\ get_size(w, b) = n - b /\ get_alloc(w, b) = al /\ find_next(w, b) = n
  /\ get_prev_alloc(w, b) = get_prev_alloc(h, b)
  /\ Kept(h, w, B2 \ {b})
  /\ \A c \in B2 \ {b, n} : w.mem[c] = h.mem[c]
  /\ ~al /\ n - b # 16 => w.mem[header_to_footer(w, b)] = w.mem[b]

(* One block from b up to n, where another begins, takes the place of all  *)
(* that are there.                                                         *)
LEMMA Retile ==
  ASSUME NEW h, NEW B, Tiled(h, B), NEW b \in B, NEW n \in B \cup {End(h)}, b < n,
         NEW al \in BOOLEAN, NEW w,
         w = write_block(h, b, n - b, get_prev_mini(h, b), get_prev_alloc(h, b), al),
         NEW B2, B2 = {c \in B : c <= b \/ n <= c}
  PROVE  Retiled(h, w, b, n, al, B2)
<1>1. Shape(h, B) /\ Flags(h, B) /\ Feet(h, B) /\ h \in Heap
  BY DEF Tiled, Shape
<1>2. /\ b \in Addr /\ b \in Nat /\ b % 16 = 8 /\ b >= 8
      /\ get_prev_alloc(h, b) \in BOOLEAN /\ get_prev_mini(h, b) \in BOOLEAN
      /\ find_next(h, b) \in B \cup {End(h)} /\ b < find_next(h, b) /\ find_next(h, b) \in Nat
  BY <1>1, BlockIs
<1>3. /\ End(h) \in Nat /\ End(h) \in Addr /\ End(h) % 16 = 8 /\ End(h) >= 8
      /\ \A c \in B : c < End(h)
  BY <1>1, EndIs, BlockIs
<1>4. n \in Addr /\ n \in Nat /\ n % 16 = 8 /\ n <= End(h)
  BY <1>1, <1>3, BlockIs
<1>5. get_alloc(h, n) \in BOOLEAN /\ get_size(h, n) \in Nat /\ get_size(h, n) % 16 = 0
  BY <1>1, <1>4, HeaderIs
<1> DEFINE size == n - b
           p == pack(size, get_prev_mini(h, b), get_prev_alloc(h, b), al)
           mini == (size = 16)
           q == pack(get_size(h, n), mini, al, get_alloc(h, n))
<1>6. size \in Nat /\ size % 16 = 0 /\ size >= 16 /\ n = b + size
  BY <1>2, <1>4
<1>7. w = write_block(h, b, size, get_prev_mini(h, b), get_prev_alloc(h, b), al)
  OBVIOUS
<1> HIDE DEF size
<1>8. /\ w \in Heap /\ w.brk = h.brk /\ SameRoots(h, w)
      /\ w.mem[b] = p /\ w.mem[n] = q
      /\ ~al /\ size # 16 => w.mem[n - 8] = p
      /\ \A a \in Addr : a # b /\ a # n /\ (a = n - 8 => al \/ size = 16)
            => w.mem[a] = h.mem[a]
  <2> DEFINE pm == get_prev_mini(h, b)
             pa == get_prev_alloc(h, b)
  <2>1. pm \in BOOLEAN /\ pa \in BOOLEAN BY <1>2
  <2>2. w = write_block(h, b, size, pm, pa, al) BY <1>7
  <2> HIDE DEF pm, pa
  <2>3. Written(h, w, b, n, size, pm, pa, al)
    <3>1. h \in Heap /\ b \in Addr /\ n \in Addr BY <1>1, <1>2, <1>4
    <3>2. size \in Nat /\ size % 16 = 0 /\ size >= 16 /\ n = b + size BY <1>6
    <3> QED BY <2>1, <2>2, <3>1, <3>2, WriteBlock
  <2> QED BY <2>3 DEF pm, pa, Written
<1>9. /\ get_size(w, b) = size /\ get_alloc(w, b) = al /\ find_next(w, b) = n
      /\ get_prev_alloc(w, b) = get_prev_alloc(h, b) /\ get_prev_mini(w, b) = get_prev_mini(h, b)
  <2> DEFINE pm == get_prev_mini(h, b)
             pa == get_prev_alloc(h, b)
  <2>1. pm \in BOOLEAN /\ pa \in BOOLEAN BY <1>2
  <2>2. w.mem[b] = pack(size, pm, pa, al) BY <1>8
  <2> HIDE DEF pm, pa
  <2>3. /\ get_size(w, b) = size /\ get_alloc(w, b) = al /\ find_next(w, b) = b + size
        /\ get_prev_alloc(w, b) = pa /\ get_prev_mini(w, b) = pm
    BY <2>1, <2>2, <1>6, PackedHeader
  <2> QED BY <2>3, <1>6 DEF pm, pa
<1>10. /\ get_size(w, n) = get_size(h, n) /\ get_alloc(w, n) = get_alloc(h, n)
       /\ find_next(w, n) = find_next(h, n)
       /\ get_prev_alloc(w, n) = al /\ get_prev_mini(w, n) = mini
  <2>1. mini \in BOOLEAN OBVIOUS
  <2> HIDE DEF mini
  <2>2. find_next(h, n) = n + get_size(h, n) BY <1>1, <1>4, HeaderIs
  <2> QED BY <2>1, <2>2, <1>5, <1>8, PackedHeader
<1> HIDE DEF p, q
<1>11. End(w) = End(h) BY <1>8 DEF End
<1>12. ASSUME NEW a \in Addr, a % 16 = 8, a # b, a # n PROVE w.mem[a] = h.mem[a]
  <2>1. a # n - 8 BY <1>12, <1>4, AddrIs
  <2> QED BY <2>1, <1>12, <1>8
<1>13. ASSUME NEW c \in B2, c # b
       PROVE  /\ c \in B /\ c \in Addr /\ c \in Nat /\ c % 16 = 8
              /\ get_size(w, c) = get_size(h, c) /\ get_alloc(w, c) = get_alloc(h, c)
              /\ find_next(w, c) = find_next(h, c)
              /\ find_next(h, c) \in B2 \cup {End(h)} /\ find_next(h, c) # n
              /\ c < b => find_next(h, c) <= b
  <2>1. c \in B /\ (c < b \/ n <= c) /\ c \in Addr /\ c \in Nat /\ c % 16 = 8
    <3>1. c \in B /\ (c <= b \/ n <= c) OBVIOUS
    <3>2. c \in Addr /\ c \in Nat /\ c % 16 = 8 BY <3>1, <1>1, BlockIs
    <3> QED BY <3>1, <3>2, <1>13, <1>2
  <2>2. get_size(w, c) = get_size(h, c) /\ get_alloc(w, c) = get_alloc(h, c)
        /\ find_next(w, c) = find_next(h, c)
    BY <2>1, <1>10, <1>12, <1>13, SameHeader
  <2>3. find_next(h, c) \in B \cup {End(h)} /\ find_next(h, c) \in Nat /\ c < find_next(h, c)
    BY <2>1, <1>1, BlockIs
  <2>4. c < b => find_next(h, c) <= b
    BY <2>1, <1>1, NoneInside
  <2>5. find_next(h, c) \in B2 \cup {End(h)} /\ find_next(h, c) # n
    BY <2>1, <2>3, <2>4, <1>2, <1>3, <1>4
  <2> QED BY <2>1, <2>2, <2>3, <2>4, <2>5
<1>14. b \in B2 /\ n \in B2 \cup {End(h)} BY <1>2, <1>4
<1>15. Shape(w, B2)
  <2>1. w \in Heap /\ w.heap_start = 8 /\ w.brk % 16 = 0 /\ w.brk >= 16
    BY <1>1, <1>8 DEF Shape, SameRoots
  <2>2. \A c \in B2 : c \in Addr /\ c % 16 = 8 /\ get_size(w, c) >= 16
    BY <1>1, <1>2, <1>6, <1>9, <1>13, BlockIs
  <2>3. \A c \in B2 : find_next(w, c) <= End(w) /\ find_next(w, c) \in B2 \cup {End(w)}
    BY <1>1, <1>4, <1>9, <1>11, <1>13, <1>14, BlockIs
  <2>4. ASSUME NEW c \in B2, NEW d \in B2, c < d PROVE find_next(w, c) <= d
    BY <2>4, <1>1, <1>2, <1>9, <1>13, NoneInside
  <2>5. ASSUME NEW c \in B2 \cup {End(w)}, c # 8 PROVE \E d \in B2 : find_next(w, d) = c
    <3>1. c \in B \cup {End(h)} /\ c \in Nat /\ (c <= b \/ n <= c)
      BY <1>1, <1>3, <1>4, <1>11, BlockIs
    <3>2. PICK d \in B : find_next(h, d) = c
      BY <3>1, <2>5, <1>1 DEF Shape
    <3>3. CASE d \in B2 /\ d # b
      BY <3>2, <3>3, <1>13
    <3>4. CASE d = b \/ d \notin B2
      <4>1. b <= d /\ d < n /\ d \in Nat
        BY <3>4, <1>1, <1>2, <1>4, BlockIs
      <4>2. find_next(h, d) <= n /\ d < find_next(h, d)
        BY <4>1, <1>1, NoneInside, BlockIs
      <4>3. c = n BY <4>1, <4>2, <3>1, <3>2, <1>2, <1>4
      <4> QED BY <4>3, <1>9, <1>14
    <3> QED BY <3>3, <3>4
  <2>6. 8 \in B2 \cup {End(w)}
    <3>1. 8 \in B \/ 8 = End(h) BY <1>1 DEF Shape
    <3> QED BY <3>1, <1>2, <1>11
  <2> QED BY <2>1, <2>2, <2>3, <2>4, <2>5, <2>6 DEF Shape
<1>16. Flags(w, B2)
  <2>1. ASSUME NEW c \in B2
        PROVE  /\ get_prev_alloc(w, find_next(w, c)) = get_alloc(w, c)
               /\ get_prev_mini(w, find_next(w, c)) = (get_size(w, c) = 16)
    <3>1. CASE c = b BY <3>1, <1>9, <1>10
    <3>2. CASE c # b
      <4> DEFINE d == find_next(h, c)
      <4>1. d # n /\ d \in B \cup {End(h)} /\ d \in Addr /\ d % 16 = 8
        BY <3>2, <1>1, <1>13, BlockIs
      <4>2. get_prev_alloc(h, d) = get_alloc(h, c) /\ get_prev_mini(h, d) = (get_size(h, c) = 16)
        BY <3>2, <1>1, <1>13 DEF Flags
      <4> HIDE DEF d
      <4>3. get_prev_alloc(w, d) = get_prev_alloc(h, d) /\ get_prev_mini(w, d) = get_prev_mini(h, d)
        <5>1. CASE d = b
          <6> QED BY <5>1, <1>9
        <5>2. CASE d # b BY <5>2, <4>1, <1>12, SameHeader
        <5> QED BY <5>1, <5>2
      <4>4. find_next(w, c) = d BY <3>2, <1>13 DEF d
      <4> QED BY <4>2, <4>3, <4>4, <3>2, <1>13
    <3> QED BY <3>1, <3>2
  <2>2. get_prev_alloc(w, 8)
    <3>1. get_prev_alloc(h, 8) /\ 8 \in Addr
      <4>1. 8 \in B \cup {End(h)} BY <1>1 DEF Shape
      <4> QED BY <4>1, <1>1, <1>3, BlockIs DEF Flags
    <3>2. 8 # n BY <1>2, <1>4
    <3>3. 8 \in Nat /\ 8 % 16 = 8 OBVIOUS
    <3>4. CASE b = 8 BY <3>1, <3>4, <1>9
    <3>5. CASE b # 8 BY <3>1, <3>2, <3>3, <3>5, <1>12, SameHeader
    <3> QED BY <3>4, <3>5
  <2>3. w.mem[End(w)] = pack(0, get_prev_mini(w, End(w)), get_prev_alloc(w, End(w)), TRUE)
    <3>1. h.mem[End(h)] = pack(0, get_prev_mini(h, End(h)), get_prev_alloc(h, End(h)), TRUE)
      BY <1>1 DEF Flags
    <3>2. CASE End(h) = n
      <4>1. get_size(h, n) = 0 /\ get_alloc(h, n) = TRUE
        BY <3>2, <1>5, EndHeader
      <4>2. w.mem[n] = pack(0, mini, al, TRUE) BY <4>1, <1>8 DEF q
      <4> QED BY <4>2, <3>2, <1>10, <1>11
    <3>3. CASE End(h) # n
      <4>1. End(h) # b BY <1>2, <1>3
      <4>2. w.mem[End(h)] = h.mem[End(h)] BY <4>1, <3>3, <1>3, <1>12
      <4>3. get_prev_alloc(w, End(h)) = get_prev_alloc(h, End(h))
            /\ get_prev_mini(w, End(h)) = get_prev_mini(h, End(h))
        BY <4>2, SameHeader
      <4> QED BY <4>2, <4>3, <3>1, <1>11
    <3> QED BY <3>2, <3>3
  <2> QED BY <2>1, <2>2, <2>3 DEF Flags
<1>17. ASSUME NEW c \in B2, c # b, NEW a \in Addr, c < a, a < find_next(h, c)
       PROVE  w.mem[a] = h.mem[a]
  <2>1. c \in B /\ c \in Nat /\ find_next(h, c) # n /\ find_next(h, c) \in Nat
        /\ find_next(h, c) % 16 = 8 /\ (c < b => find_next(h, c) <= b)
        /\ find_next(h, c) <= End(h) /\ a \in Nat /\ a % 8 = 0
    BY <1>1, <1>13, <1>17, BlockIs, AddrIs
  <2>2. a # b BY <2>1, <1>2, <1>17, <1>4
  <2>3. a # n /\ a # n - 8
    <3>1. c < n => find_next(h, c) < n
      <4> SUFFICES ASSUME c < n PROVE find_next(h, c) < n OBVIOUS
      <4>1. find_next(h, c) <= n BY <2>1, <1>1, NoneInside
      <4> QED BY <4>1, <2>1, <1>4
    <3>2. CASE c < n
      <4>1. find_next(h, c) <= n - 8 BY <3>1, <3>2, <2>1, <1>4
      <4> QED BY <4>1, <2>1, <1>4, <1>17
    <3>3. CASE ~(c < n) BY <3>3, <2>1, <1>4, <1>17
    <3> QED BY <3>2, <3>3
  <2> QED BY <2>2, <2>3, <1>8
<1>18. ~al /\ size # 16 => w.mem[header_to_footer(w, b)] = w.mem[b]
  <2>1. header_to_footer(w, b) = find_next(w, b) - 8
    BY <1>14, <1>15, FootIs
  <2> QED BY <2>1, <1>8, <1>9
<1>19. Feet(w, B2)
  <2> SUFFICES ASSUME NEW c \in B2, ~get_alloc(w, c), get_size(w, c) # 16
               PROVE  extract_size(w.mem[header_to_footer(w, c)]) = get_size(w, c)
    BY DEF Feet
  <2>1. CASE c = b
    BY <2>1, <1>9, <1>18 DEF get_size
  <2>2. CASE c # b
    <3>1. c \in B /\ ~get_alloc(h, c) /\ get_size(h, c) # 16
          /\ header_to_footer(w, c) = header_to_footer(h, c)
      BY <2>2, <1>13 DEF header_to_footer
    <3>2. extract_size(h.mem[header_to_footer(h, c)]) = get_size(h, c)
      BY <3>1, <1>1 DEF Feet
    <3>3. w.mem[header_to_footer(h, c)] = h.mem[header_to_footer(h, c)]
      BY <3>1, <2>2, <1>1, <1>17, FootIs
    <3> QED BY <3>1, <3>2, <3>3, <2>2, <1>13
  <2> QED BY <2>1, <2>2
<1>20. Kept(h, w, B2 \ {b})
  BY <1>13, <1>17 DEF Kept
<1>21. \A c \in B2 \ {b, n} : w.mem[c] = h.mem[c]
  BY <1>12, <1>13
<1>22. get_size(w, b) = n - b /\ (~al /\ n - b # 16 => w.mem[header_to_footer(w, b)] = w.mem[b])
  BY <1>9, <1>18 DEF size
<1> QED BY <1>8, <1>9, <1>11, <1>14, <1>15, <1>16, <1>19, <1>20, <1>21, <1>22 DEF Tiled, Retiled

-----------------------------------------------------------------------------
(* The lists.                                                              *)

(* The free blocks.                                                        *)
FreeIn(h, B) == {b \in B : ~get_alloc(h, b)}

(* The allocated blocks.                                                   *)
HeldIn(h, B) == {b \in B : get_alloc(h, b)}

(* The list that a block belongs in by its size.                           *)
class(h, b) == search_root_index(get_size(h, b))

(* The mini blocks of F.                                                   *)
Minis(h, F) == {b \in F : get_size(h, b) = 16}

(* The blocks of F that are not mini.                                      *)
Others(h, F) == {b \in F : get_size(h, b) # 16}

(* The mini list has the mini blocks of F: it starts at one of them or is  *)
(* empty, each leads to another, of a higher rank, or is the last, and     *)
(* each is the first or is led to, by one only.                            *)
MiniList(h, F, r) ==
  /\ h.mini_free_root = NULL \/ h.mini_free_root \in Minis(h, F)
  /\ \A b \in Minis(h, F) :
        /\ \/ find_free_block_next(h, b) = NULL
           \/ /\ find_free_block_next(h, b) \in Minis(h, F)
              /\ r[b] < r[find_free_block_next(h, b)]
              /\ find_free_block_next(h, b) # h.mini_free_root
        /\ b = h.mini_free_root \/ \E c \in Minis(h, F) : find_free_block_next(h, c) = b
  /\ \A b, c \in Minis(h, F) :
        find_free_block_next(h, b) = find_free_block_next(h, c) =>
           find_free_block_next(h, b) = NULL \/ b = c

(* The segregated lists have the other blocks of F, each the list of its   *)
(* class: next and prev are the inverses of each other, and next goes to a *)
(* higher rank.                                                            *)
FreeLists(h, F, r) ==
  /\ \A i \in Roots : h.free_roots[i] # NULL =>
        /\ h.free_roots[i] \in Others(h, F) /\ class(h, h.free_roots[i]) = i
        /\ find_free_block_prev(h, h.free_roots[i]) = NULL
  /\ \A b \in Others(h, F) : find_free_block_next(h, b) # NULL =>
        /\ find_free_block_next(h, b) \in Others(h, F)
        /\ class(h, find_free_block_next(h, b)) = class(h, b)
        /\ find_free_block_prev(h, find_free_block_next(h, b)) = b
        /\ r[b] < r[find_free_block_next(h, b)]
  /\ \A b \in Others(h, F) :
        \/ find_free_block_prev(h, b) = NULL /\ h.free_roots[class(h, b)] = b
        \/ /\ find_free_block_prev(h, b) \in Others(h, F)
           /\ find_free_block_next(h, find_free_block_prev(h, b)) = b

(* The links of F with a rank that grows along them, so that no list comes *)
(* back to a block. No function of the code computes it.                   *)
Ranked(h, F, r, n) == n \in Nat /\ r \in [Addr -> 0 .. n] /\ MiniList(h, F, r) /\ FreeLists(h, F, r)

(* The lists have exactly the blocks of F.                                 *)
Lists(h, F) == \E n, r : Ranked(h, F, r, n)

(* Nothing has been written but links of blocks of F, or the roots.        *)
LinksOnly(h, w, F) ==
  /\ w \in Heap /\ w.brk = h.brk /\ w.heap_start = h.heap_start
  /\ \A a \in Addr : w.mem[a] = h.mem[a] \/
        \E b \in F : a = b + 8 \/ (a = b + 16 /\ get_size(h, b) # 16)

(* The headers, and the footers that free blocks have, are as before.      *)
SameTiles(h, w, B) ==
  /\ \A c \in B \cup {End(h)} : w.mem[c] = h.mem[c]
  /\ \A c \in B : ~get_alloc(h, c) /\ get_size(h, c) # 16 =>
        w.mem[header_to_footer(h, c)] = h.mem[header_to_footer(h, c)]

(* Blocks tile the heap as long as their headers and footers stay.         *)
LEMMA SameTiled ==
  ASSUME NEW h, NEW B, Tiled(h, B), NEW w, w \in Heap, w.brk = h.brk,
         w.heap_start = h.heap_start, SameTiles(h, w, B)
  PROVE  /\ Tiled(w, B) /\ End(w) = End(h)
         /\ \A c \in B \cup {End(h)} :
               /\ get_size(w, c) = get_size(h, c) /\ get_alloc(w, c) = get_alloc(h, c)
               /\ get_prev_alloc(w, c) = get_prev_alloc(h, c)
               /\ get_prev_mini(w, c) = get_prev_mini(h, c)
               /\ find_next(w, c) = find_next(h, c)
               /\ header_to_footer(w, c) = header_to_footer(h, c)
         /\ FreeIn(w, B) = FreeIn(h, B) /\ HeldIn(w, B) = HeldIn(h, B)
<1>1. Shape(h, B) /\ Flags(h, B) /\ Feet(h, B) /\ h \in Heap
  BY DEF Tiled, Shape
<1>2. End(w) = End(h) BY DEF End
<1>3. ASSUME NEW c \in B \cup {End(h)}
      PROVE  /\ get_size(w, c) = get_size(h, c) /\ get_alloc(w, c) = get_alloc(h, c)
             /\ get_prev_alloc(w, c) = get_prev_alloc(h, c)
             /\ get_prev_mini(w, c) = get_prev_mini(h, c)
             /\ find_next(w, c) = find_next(h, c)
             /\ header_to_footer(w, c) = header_to_footer(h, c)
  <2>1. w.mem[c] = h.mem[c] BY DEF SameTiles
  <2> QED BY <2>1, SameHeader DEF header_to_footer
<1>4. Shape(w, B)
  BY <1>1, <1>2, <1>3 DEF Shape
<1>5. Flags(w, B)
  <2>1. ASSUME NEW c \in B
        PROVE  /\ get_prev_alloc(w, find_next(w, c)) = get_alloc(w, c)
               /\ get_prev_mini(w, find_next(w, c)) = (get_size(w, c) = 16)
    <3>1. find_next(h, c) \in B \cup {End(h)} BY <1>1, BlockIs
    <3> QED BY <3>1, <1>1, <1>3 DEF Flags
  <2>2. get_prev_alloc(w, 8)
    <3>1. 8 \in B \cup {End(h)} BY <1>1 DEF Shape
    <3> QED BY <3>1, <1>1, <1>3 DEF Flags
  <2>3. w.mem[End(w)] = pack(0, get_prev_mini(w, End(w)), get_prev_alloc(w, End(w)), TRUE)
    <3>1. w.mem[End(h)] = h.mem[End(h)] BY DEF SameTiles
    <3> QED BY <3>1, <1>1, <1>2, <1>3 DEF Flags
  <2> QED BY <2>1, <2>2, <2>3 DEF Flags
<1>6. Feet(w, B)
  BY <1>1, <1>3 DEF Feet, SameTiles
<1>7. FreeIn(w, B) = FreeIn(h, B) /\ HeldIn(w, B) = HeldIn(h, B)
  BY <1>3 DEF FreeIn, HeldIn
<1> QED BY <1>2, <1>3, <1>4, <1>5, <1>6, <1>7 DEF Tiled

(* A write to a link writes no header and no footer, and nothing inside a  *)
(* block whose links are left alone.                                       *)
LEMMA LinksKeep ==
  ASSUME NEW h, NEW B, Tiled(h, B), NEW F, F \subseteq B, NEW w, LinksOnly(h, w, F)
  PROVE  /\ SameTiles(h, w, B)
         /\ Kept(h, w, B \ F)
<1>1. Shape(h, B) BY DEF Tiled
<1>2. ASSUME NEW c \in B \cup {End(h)} PROVE w.mem[c] = h.mem[c]
  <2>1. c \in Addr /\ c \in Nat /\ c % 16 = 8 BY <1>1, BlockIs, EndIs
  <2>2. SUFFICES ASSUME NEW b \in F, c = b + 8 \/ (c = b + 16 /\ get_size(h, b) # 16) PROVE FALSE
    BY <2>1 DEF LinksOnly
  <2>3. b \in B /\ b \in Nat /\ b % 16 = 8 /\ get_size(h, b) \in Nat /\ get_size(h, b) % 16 = 0
        /\ get_size(h, b) >= 16 /\ find_next(h, b) = b + get_size(h, b)
    BY <1>1, BlockIs
  <2>4. c = b + 16 /\ get_size(h, b) # 16 BY <2>1, <2>2, <2>3
  <2>5. find_next(h, b) <= c BY <2>3, <2>4, <1>1, NoneInside
  <2> QED BY <2>3, <2>4, <2>5
<1>3. ASSUME NEW c \in B, get_size(h, c) # 16
      PROVE  w.mem[header_to_footer(h, c)] = h.mem[header_to_footer(h, c)]
  <2> DEFINE f == header_to_footer(h, c)
  <2>1. f \in Addr /\ f \in Nat /\ f % 16 = 0 /\ c < f /\ f < find_next(h, c) /\ f = find_next(h, c) - 8
    BY <1>1, FootIs
  <2>2. SUFFICES ASSUME NEW b \in F, f = b + 8 \/ (f = b + 16 /\ get_size(h, b) # 16) PROVE FALSE
    BY <2>1 DEF LinksOnly
  <2> HIDE DEF f
  <2>3. b \in B /\ b \in Nat /\ b % 16 = 8 /\ b + 16 <= find_next(h, b) /\ find_next(h, b) \in Nat
        /\ c \in Nat /\ find_next(h, c) = c + get_size(h, c) /\ get_size(h, c) \in Nat
    BY <1>1, BlockIs
  <2>4. f = b + 8 BY <2>1, <2>2, <2>3
  <2>5. b = c BY <2>1, <2>3, <2>4, <1>1, SameInside
  <2> QED BY <2>1, <2>3, <2>4, <2>5, <1>3
<1>4. ASSUME NEW c \in B \ F, NEW a \in Addr, c < a, a < find_next(h, c)
      PROVE  w.mem[a] = h.mem[a]
  <2>1. SUFFICES ASSUME NEW b \in F, a = b + 8 \/ (a = b + 16 /\ get_size(h, b) # 16) PROVE FALSE
    BY DEF LinksOnly
  <2>2. b \in B /\ b \in Nat /\ get_size(h, b) \in Nat /\ get_size(h, b) % 16 = 0
        /\ get_size(h, b) >= 16 /\ find_next(h, b) = b + get_size(h, b)
        /\ a \in Nat /\ c \in Nat
    BY <1>1, BlockIs, AddrIs
  <2>3. b <= a /\ a < find_next(h, b) BY <2>1, <2>2
  <2>4. b = c BY <2>2, <2>3, <1>1, <1>4, SameInside
  <2> QED BY <2>4
<1>5. SameTiles(h, w, B) BY <1>2, <1>3 DEF SameTiles
<1>6. ASSUME NEW c \in B \ F
      PROVE  get_size(w, c) = get_size(h, c) /\ get_alloc(w, c) = get_alloc(h, c)
             /\ find_next(w, c) = find_next(h, c)
  BY <1>2, SameHeader
<1>7. Kept(h, w, B \ F) BY <1>4, <1>6 DEF Kept
<1> QED BY <1>5, <1>7

-----------------------------------------------------------------------------
(* Least elements, classes, and what the lists depend on.                  *)

(* A set of numbers has a least one.                                       *)
LEMMA LeastNat ==
  ASSUME NEW S \in SUBSET Nat, S # {}
  PROVE  \E m \in S : \A k \in S : m <= k
<1> DEFINE R == {ss \in Nat \X Nat : ss[1] < ss[2]}
<1>1. IsWellFoundedOn(R, Nat)
  BY NatLessThanWellFounded DEF OpToRel
<1>2. PICK m \in S : \A k \in S : ~(<<k, m>> \in R)
  <2> HIDE DEF R
  <2> QED BY <1>1, WFMin
<1>3. \A k \in S : ~(k < m)
  BY <1>2
<1> QED BY <1>3

(* Of the elements of S one has the least rank, and one the greatest.      *)
LEMMA LeastRank ==
  ASSUME NEW D, NEW n \in Nat, NEW r \in [D -> 0 .. n], NEW S \in SUBSET D, S # {}
  PROVE  /\ \E m \in S : \A c \in S : ~(r[c] < r[m])
         /\ \E m \in S : \A c \in S : ~(r[m] < r[c])
<1>1. \E m \in S : \A c \in S : ~(r[c] < r[m])
  <2> DEFINE T == {r[c] : c \in S}
  <2>1. T \in SUBSET Nat /\ T # {} OBVIOUS
  <2> HIDE DEF T
  <2>2. PICK k \in T : \A j \in T : k <= j BY <2>1, LeastNat
  <2>3. PICK m \in S : k = r[m] BY <2>2 DEF T
  <2>4. \A c \in S : r[c] \in T /\ r[c] \in Nat BY DEF T
  <2> QED BY <2>2, <2>3, <2>4
<1>2. \E m \in S : \A c \in S : ~(r[m] < r[c])
  <2> DEFINE T == {n - r[c] : c \in S}
  <2>1. T \in SUBSET Nat /\ T # {} OBVIOUS
  <2> HIDE DEF T
  <2>2. PICK k \in T : \A j \in T : k <= j BY <2>1, LeastNat
  <2>3. PICK m \in S : k = n - r[m] BY <2>2 DEF T
  <2>4. \A c \in S : n - r[c] \in T /\ r[c] \in Nat BY DEF T
  <2> QED BY <2>2, <2>3, <2>4
<1> QED BY <1>1, <1>2

(* Every size is in exactly one class, the first that it fits.             *)
LEMMA ClassIs ==
  ASSUME NEW size \in Nat
  PROVE  /\ search_root_index(size) \in Roots
         /\ in_class(size, search_root_index(size))
         /\ \A j \in 0 .. search_root_index(size) - 1 : ~in_class(size, j)
<1>1. NUM_ROOTS \in Nat \ {0} BY MmAssumption
<1> DEFINE S == {i \in Roots : in_class(size, i)}
<1>2. S \in SUBSET Nat /\ S # {}
  <2>1. in_class(size, NUM_ROOTS - 1) BY DEF in_class
  <2> QED BY <1>1, <2>1 DEF Roots
<1> HIDE DEF S
<1>3. PICK m \in S : \A k \in S : m <= k BY <1>2, LeastNat
<1>4. m \in Roots /\ in_class(size, m) /\ \A j \in 0 .. m - 1 : ~in_class(size, j)
  <2>1. m \in Roots /\ in_class(size, m) BY DEF S
  <2>2. ASSUME NEW j \in 0 .. m - 1, in_class(size, j) PROVE FALSE
    <3>1. j \in Roots /\ ~(m <= j) BY <2>1, <1>1 DEF Roots
    <3> QED BY <3>1, <2>2, <1>3 DEF S
  <2> QED BY <2>1, <2>2
<1>5. \E i \in Roots : in_class(size, i) /\ \A j \in 0 .. i - 1 : ~in_class(size, j)
  BY <1>4
<1> QED BY <1>5 DEF search_root_index, Roots

(* What the links of the free blocks are: three addresses apart.           *)
LEMMA Far ==
  ASSUME NEW h, NEW B, Tiled(h, B), NEW b \in B, NEW c \in B
  PROVE  /\ b \in Addr /\ b \in Nat /\ b # 0 /\ b + 8 \in Addr /\ b + 16 \in Addr
         /\ b + 8 # c /\ b + 8 # c + 16 /\ b + 16 # c + 8
         /\ (b + 8 = c + 8 => b = c) /\ (b + 16 = c + 16 => b = c)
         /\ (get_size(h, b) # 16 => b + 16 # c)
         /\ b + 8 # 0 /\ b + 16 # 0
         /\ get_size(h, b) \in Nat
<1>1. /\ b \in Addr /\ b \in Nat /\ b % 16 = 8 /\ b >= 8 /\ b + 8 \in Addr /\ b + 16 \in Addr
      /\ c \in Nat /\ c % 16 = 8 /\ get_size(h, b) \in Nat
  BY BlockIs DEF Tiled
<1>2. get_size(h, b) # 16 => b + 16 # c
  <2> SUFFICES ASSUME get_size(h, b) # 16, b + 16 = c PROVE FALSE OBVIOUS
  <2>1. /\ get_size(h, b) >= 16 /\ get_size(h, b) % 16 = 0 /\ get_size(h, b) \in Nat
        /\ find_next(h, b) = b + get_size(h, b)
    BY BlockIs DEF Tiled
  <2>2. find_next(h, b) <= c BY <1>1, <2>1, NoneInside DEF Tiled
  <2> QED BY <2>1, <2>2, <1>1
<1> QED BY <1>1, <1>2

(* The lists depend on the sizes of their blocks, the links and the roots. *)
LEMMA FreeListsFrame ==
  ASSUME NEW h, NEW F, NEW r, FreeLists(h, F, r), NEW w, NEW F2,
         w.free_roots = h.free_roots, Others(w, F2) = Others(h, F),
         \A b \in Others(h, F) : /\ get_size(w, b) = get_size(h, b)
                                 /\ w.mem[b + 8] = h.mem[b + 8]
                                 /\ w.mem[b + 16] = h.mem[b + 16]
  PROVE  FreeLists(w, F2, r)
<1>1. \A b \in Others(h, F) : /\ class(w, b) = class(h, b)
                              /\ find_free_block_next(w, b) = find_free_block_next(h, b)
                              /\ find_free_block_prev(w, b) = find_free_block_prev(h, b)
  BY DEF class, find_free_block_next, find_free_block_prev
<1> QED BY <1>1 DEF FreeLists

(* So does the mini list.                                                  *)
LEMMA MiniListFrame ==
  ASSUME NEW h, NEW F, NEW r, MiniList(h, F, r), NEW w, NEW F2,
         w.mini_free_root = h.mini_free_root, Minis(w, F2) = Minis(h, F),
         \A b \in Minis(h, F) : w.mem[b + 8] = h.mem[b + 8]
  PROVE  MiniList(w, F2, r)
<1>1. \A b \in Minis(h, F) : find_free_block_next(w, b) = find_free_block_next(h, b)
  BY DEF find_free_block_next
<1> QED BY <1>1 DEF MiniList

(* Both kinds of lists stay as they are if nothing they are made of        *)
(* changes.                                                                *)
LEMMA ListsFrame ==
  ASSUME NEW h, NEW F, NEW r, NEW n, Ranked(h, F, r, n), NEW w,
         w.free_roots = h.free_roots, w.mini_free_root = h.mini_free_root,
         \A b \in F : /\ get_size(w, b) = get_size(h, b) /\ w.mem[b + 8] = h.mem[b + 8]
                      /\ get_size(h, b) # 16 => w.mem[b + 16] = h.mem[b + 16]
  PROVE  Ranked(w, F, r, n)
<1>1. Others(w, F) = Others(h, F) /\ Minis(w, F) = Minis(h, F) BY DEF Others, Minis
<1>2. \A b \in Others(h, F) : b \in F /\ get_size(h, b) # 16 BY DEF Others
<1>3. \A b \in Minis(h, F) : b \in F BY DEF Minis
<1>4. FreeLists(w, F, r) BY <1>1, <1>2, FreeListsFrame DEF Ranked
<1>5. MiniList(w, F, r) BY <1>1, <1>3, MiniListFrame DEF Ranked
<1> QED BY <1>4, <1>5 DEF Ranked

(* Kept blocks keep their links.                                           *)
LEMMA ListsKept ==
  ASSUME NEW h, NEW B, Tiled(h, B), NEW F, F \subseteq B, Lists(h, F), NEW w,
         SameRoots(h, w), Kept(h, w, F)
  PROVE  Lists(w, F)
<1>1. PICK n, r : Ranked(h, F, r, n) BY DEF Lists
<1>2. ASSUME NEW b \in F
      PROVE  /\ get_size(w, b) = get_size(h, b) /\ w.mem[b + 8] = h.mem[b + 8]
             /\ get_size(h, b) # 16 => w.mem[b + 16] = h.mem[b + 16]
  <2>1. /\ b \in Nat /\ b + 8 \in Addr /\ b + 16 \in Addr /\ find_next(h, b) = b + get_size(h, b)
        /\ get_size(h, b) \in Nat /\ get_size(h, b) % 16 = 0 /\ get_size(h, b) >= 16
    BY BlockIs DEF Tiled
  <2>2. /\ get_size(w, b) = get_size(h, b)
        /\ \A a \in Addr : b < a /\ a < find_next(h, b) => w.mem[a] = h.mem[a]
    BY DEF Kept
  <2> HIDE DEF wsize, dsize, min_block_size, new_mini_block_size, NULL
  <2> DEFINE x == b + 8
             y == b + 16
  <2>3. x \in Addr /\ b < x /\ x < find_next(h, b)
    BY <2>1
  <2>4. get_size(h, b) # 16 => y \in Addr /\ b < y /\ y < find_next(h, b)
    BY <2>1
  <2> HIDE DEF x, y
  <2>5. w.mem[x] = h.mem[x] /\ (get_size(h, b) # 16 => w.mem[y] = h.mem[y])
    BY <2>2, <2>3, <2>4
  <2> QED BY <2>2, <2>5 DEF x, y
<1>3. Ranked(w, F, r, n) BY <1>1, <1>2, ListsFrame DEF SameRoots
<1> QED BY <1>3 DEF Lists

-----------------------------------------------------------------------------
(* A block leaves a segregated list.                                       *)

(* A store of a link, with all that it leaves alone.                       *)
Linked(h, w, x, v) ==
  /\ w \in Heap /\ w.brk = h.brk /\ w.heap_start = h.heap_start
  /\ w.free_roots = h.free_roots /\ w.mini_free_root = h.mini_free_root
  /\ \A a \in Addr : w.mem[a] = IF a = x THEN v ELSE h.mem[a]

(* A link is written and nothing else.                                     *)
LEMMA LinkIs ==
  ASSUME NEW h \in Heap, NEW x \in Addr, NEW v \in Addr
  PROVE  Linked(h, Store(h, x, v), x, v)
<1>1. v \in Nat BY AddrIs
<1>2. /\ Store(h, x, v) \in Heap /\ SameRoots(h, Store(h, x, v))
      /\ Store(h, x, v).brk = h.brk
      /\ \A a \in Addr : Store(h, x, v).mem[a] = IF a = x THEN v ELSE h.mem[a]
  BY <1>1, StoreIs
<1> QED BY <1>2 DEF SameRoots, Linked

(* All that taking a block out of its segregated list does to the memory.  *)
LEMMA Unlink ==
  ASSUME NEW h \in Heap, NEW b \in Addr, b + 8 \in Addr, b + 16 \in Addr,
         NEW p \in Addr, NEW n \in Addr, p # 0 => p + 8 \in Addr, n # 0 => n + 16 \in Addr,
         NEW w, w = unlink_free(h, b, p, n)
  PROVE  /\ w \in Heap /\ w.brk = h.brk /\ w.heap_start = h.heap_start
         /\ w.mini_free_root = h.mini_free_root
         /\ w.free_roots = IF p # 0 THEN h.free_roots
                           ELSE [h.free_roots EXCEPT ![class(h, b)] = n]
         /\ \A a \in Addr :
               w.mem[a] = IF a = b + 8 \/ a = b + 16 THEN 0
                          ELSE IF n # 0 /\ a = n + 16 THEN p
                          ELSE IF p # 0 /\ a = p + 8 THEN n ELSE h.mem[a]
<1> DEFINE h1 == set_next_of(h, p, n, get_size(h, b))
           h2 == set_prev_of(h1, n, p)
           h3 == link_free_block_next(h2, b, 0)
           b8 == b + 8
           b16 == b + 16
<1>1. w = link_free_block_prev(h3, b, 0) BY DEF unlink_free
<1>2. 0 \in Addr BY AddrIs
<1>3. /\ h1 \in Heap /\ h1.brk = h.brk /\ h1.heap_start = h.heap_start
      /\ h1.mini_free_root = h.mini_free_root
      /\ h1.free_roots = IF p # 0 THEN h.free_roots
                         ELSE [h.free_roots EXCEPT ![class(h, b)] = n]
      /\ \A a \in Addr : h1.mem[a] = IF p # 0 /\ a = p + 8 THEN n ELSE h.mem[a]
  <2>1. CASE p # 0
    <3> DEFINE x == p + 8
    <3>1. x \in Addr /\ h1 = Store(h, x, n)
      BY <2>1 DEF set_next_of, link_free_block_next
    <3> HIDE DEF x, h1
    <3>2. Linked(h, h1, x, n)
      BY <3>1, LinkIs
    <3> QED BY <2>1, <3>2 DEF x, Linked
  <2>2. CASE p = 0
    <3>1. h1 = [h EXCEPT !.free_roots[class(h, b)] = n]
      BY <2>2 DEF set_next_of, class
    <3> HIDE DEF h1
    <3> QED BY <2>2, <3>1 DEF Heap
  <2> QED BY <2>1, <2>2
<1> HIDE DEF h1
<1>4. /\ h2 \in Heap /\ h2.brk = h.brk /\ h2.heap_start = h.heap_start
      /\ h2.mini_free_root = h.mini_free_root /\ h2.free_roots = h1.free_roots
      /\ \A a \in Addr : h2.mem[a] = IF n # 0 /\ a = n + 16 THEN p ELSE h1.mem[a]
  <2>1. CASE n # 0
    <3> DEFINE x == n + 16
    <3>1. x \in Addr /\ h2 = Store(h1, x, p)
      BY <2>1 DEF set_prev_of, link_free_block_prev
    <3> HIDE DEF x, h2
    <3>2. Linked(h1, h2, x, p)
      BY <3>1, <1>3, LinkIs
    <3> QED BY <2>1, <3>2, <1>3 DEF x, Linked
  <2>2. CASE n = 0
    <3>1. h2 = h1 BY <2>2 DEF set_prev_of
    <3> QED BY <2>2, <3>1, <1>3
  <2> QED BY <2>1, <2>2
<1> HIDE DEF h2
<1>5. h3 = Store(h2, b8, 0) /\ b8 \in Addr /\ b16 \in Addr
  BY DEF link_free_block_next
<1>6. w = Store(h3, b16, 0)
  BY <1>1 DEF link_free_block_prev
<1> HIDE DEF h3, b8, b16
<1>7. Linked(h2, h3, b8, 0)
  BY <1>5, <1>4, <1>2, LinkIs
<1>8. Linked(h3, w, b16, 0)
  <2>1. h3 \in Heap BY <1>7 DEF Linked
  <2> QED BY <2>1, <1>5, <1>6, <1>2, LinkIs
<1>9. \A a \in Addr :
         w.mem[a] = IF a = b8 \/ a = b16 THEN 0
                    ELSE IF n # 0 /\ a = n + 16 THEN p
                    ELSE IF p # 0 /\ a = p + 8 THEN n ELSE h.mem[a]
  BY <1>3, <1>4, <1>7, <1>8 DEF Linked
<1> QED BY <1>3, <1>4, <1>7, <1>8, <1>9 DEF b8, b16, Linked

(* A block that is taken out of its segregated list leaves the others as   *)
(* they were.                                                              *)
LEMMA RemoveOther ==
  ASSUME NEW h, NEW B, Tiled(h, B), NEW F, F \subseteq B, NEW r, NEW m, Ranked(h, F, r, m),
         NEW b \in F, get_size(h, b) # 16, NEW w, w = remove_free_block(h, b)
  PROVE  LinksOnly(h, w, F) /\ Ranked(w, F \ {b}, r, m)
<1> DEFINE p == find_free_block_prev(h, b)
           n == find_free_block_next(h, b)
           O == Others(h, F)
<1>1. h \in Heap BY DEF Tiled, Shape
<1>2. FreeLists(h, F, r) /\ MiniList(h, F, r) /\ m \in Nat /\ r \in [Addr -> 0 .. m] BY DEF Ranked
<1>3. b \in O BY DEF Others
<1>4. p = 0 \/ (p \in O /\ find_free_block_next(h, p) = b)
  BY <1>2, <1>3 DEF FreeLists
<1>5. n = 0 \/ (n \in O /\ class(h, n) = class(h, b) /\ find_free_block_prev(h, n) = b)
  BY <1>2, <1>3 DEF FreeLists
<1>6. O \subseteq F /\ O \subseteq B /\ 0 \in Addr BY AddrIs DEF Others
<1>7. \A c \in O : c # 0 /\ c \in Addr /\ c \in Nat /\ get_size(h, c) # 16
                   /\ c + 8 \in Addr /\ c + 16 \in Addr
  BY <1>6, Far DEF Others
<1>8. w = unlink_free(h, b, p, n) BY DEF remove_free_block
<1>9. class(h, b) \in Roots
  BY <1>1, <1>3, <1>7, HeaderIs, ClassIs DEF class
<1>10. p # 0 => class(h, p) = class(h, b)
  BY <1>2, <1>3, <1>4, <1>7 DEF FreeLists
<1> HIDE DEF p, n
<1>11. /\ w \in Heap /\ w.brk = h.brk /\ w.heap_start = h.heap_start
       /\ w.mini_free_root = h.mini_free_root
       /\ w.free_roots = IF p # 0 THEN h.free_roots
                         ELSE [h.free_roots EXCEPT ![class(h, b)] = n]
       /\ \A a \in Addr :
             w.mem[a] = IF a = b + 8 \/ a = b + 16 THEN 0
                        ELSE IF n # 0 /\ a = n + 16 THEN p
                        ELSE IF p # 0 /\ a = p + 8 THEN n ELSE h.mem[a]
  <2>1. p \in Addr /\ n \in Addr /\ b \in Addr BY <1>3, <1>4, <1>5, <1>6, <1>7
  <2>2. /\ p # 0 => p + 8 \in Addr
        /\ n # 0 => n + 16 \in Addr
        /\ b + 8 \in Addr /\ b + 16 \in Addr
    BY <1>3, <1>4, <1>5, <1>7
  <2> QED BY <2>1, <2>2, <1>1, <1>8, Unlink
<1>12. LinksOnly(h, w, F)
  <2>1. ASSUME NEW a \in Addr, w.mem[a] # h.mem[a]
        PROVE  \E c \in F : a = c + 8 \/ (a = c + 16 /\ get_size(h, c) # 16)
    <3>1. \/ a = b + 8 \/ a = b + 16
          \/ n # 0 /\ a = n + 16
          \/ p # 0 /\ a = p + 8
      BY <2>1, <1>11
    <3> QED BY <3>1, <1>3, <1>4, <1>5, <1>6, <1>7
  <2> QED BY <2>1, <1>11 DEF LinksOnly
<1>13. ASSUME NEW c \in F
       PROVE  /\ get_size(w, c) = get_size(h, c)
              /\ find_free_block_next(w, c) = IF c = b THEN 0 ELSE IF p # 0 /\ c = p THEN n
                                              ELSE find_free_block_next(h, c)
              /\ get_size(h, c) # 16 =>
                    find_free_block_prev(w, c) = IF c = b THEN 0 ELSE IF n # 0 /\ c = n THEN p
                                                 ELSE find_free_block_prev(h, c)
  <2>1. c \in B /\ b \in B /\ (p # 0 => p \in B) /\ (n # 0 => n \in B)
    BY <1>3, <1>4, <1>5, <1>6
  <2>2. w.mem[c] = h.mem[c]
    <3>1. SameTiles(h, w, B) BY <1>12, LinksKeep
    <3> QED BY <3>1, <2>1 DEF SameTiles
  <2>3. get_size(w, c) = get_size(h, c) BY <2>2, SameHeader
  <2>4. w.mem[c + 8] = IF c = b THEN 0 ELSE IF p # 0 /\ c = p THEN n ELSE h.mem[c + 8]
    <3>1. /\ c + 8 \in Addr /\ c + 8 # b + 16 /\ (c + 8 = b + 8 <=> c = b)
          /\ n # 0 => c + 8 # n + 16
          /\ p # 0 => (c + 8 = p + 8 <=> c = p)
      BY <2>1, Far
    <3> QED BY <3>1, <1>11
  <2>5. get_size(h, c) # 16 => w.mem[c + 16] = IF c = b THEN 0 ELSE IF n # 0 /\ c = n THEN p ELSE h.mem[c + 16]
    <3>1. /\ c + 16 \in Addr /\ c + 16 # b + 8 /\ (c + 16 = b + 16 <=> c = b)
          /\ n # 0 => (c + 16 = n + 16 <=> c = n)
          /\ p # 0 => c + 16 # p + 8
      BY <2>1, Far
    <3> QED BY <3>1, <1>11
  <2> QED BY <2>3, <2>4, <2>5 DEF find_free_block_next, find_free_block_prev
<1> DEFINE F2 == F \ {b}
<1>14. Others(w, F2) = O \ {b} /\ Minis(w, F2) = Minis(h, F)
  BY <1>13, <1>3, <1>7 DEF Others, Minis
<1>15. \A c \in O : class(w, c) = class(h, c) BY <1>13, <1>6 DEF class
<1>16. p # b /\ n # b
  <2>1. n # 0 => r[b] < r[n] BY <1>2, <1>3 DEF FreeLists, n
  <2>2. p # 0 => r[p] < r[b] BY <1>2, <1>4, <1>3, <1>7 DEF FreeLists
  <2>3. r[b] \in Nat BY <1>2, <1>3, <1>7
  <2> QED BY <2>1, <2>2, <2>3, <1>3, <1>7
<1>17. \A i \in Roots : w.free_roots[i] = IF p = 0 /\ i = class(h, b) THEN n ELSE h.free_roots[i]
  BY <1>11, <1>1 DEF Heap
<1>18. FreeLists(w, F2, r)
  <2>1. ASSUME NEW i \in Roots, w.free_roots[i] # 0
        PROVE  /\ w.free_roots[i] \in O \ {b} /\ class(w, w.free_roots[i]) = i
               /\ find_free_block_prev(w, w.free_roots[i]) = 0
    <3>1. CASE p = 0 /\ i = class(h, b)
      <4>1. w.free_roots[i] = n /\ n # 0 BY <3>1, <2>1, <1>17
      <4> QED BY <4>1, <3>1, <1>5, <1>13, <1>15, <1>16, <1>6, <1>7
    <3>2. CASE ~(p = 0 /\ i = class(h, b))
      <4> DEFINE f == h.free_roots[i]
      <4>1. w.free_roots[i] = f BY <3>2, <1>17
      <4>2. f \in O /\ class(h, f) = i /\ find_free_block_prev(h, f) = 0
        BY <4>1, <2>1, <1>2 DEF FreeLists
      <4> HIDE DEF f
      <4>3. f # b
        BY <4>2, <3>2 DEF p
      <4>4. n # 0 => f # n
        BY <4>2, <1>5, <1>3, <1>7
      <4> QED BY <4>1, <4>2, <4>3, <4>4, <1>13, <1>15, <1>6, <1>7
    <3> QED BY <3>1, <3>2
  <2>2. ASSUME NEW c \in O \ {b}, find_free_block_next(w, c) # 0
        PROVE  /\ find_free_block_next(w, c) \in O \ {b}
               /\ class(w, find_free_block_next(w, c)) = class(w, c)
               /\ find_free_block_prev(w, find_free_block_next(w, c)) = c
               /\ r[c] < r[find_free_block_next(w, c)]
    <3>1. CASE p # 0 /\ c = p
      <4>1. find_free_block_next(w, c) = n /\ n # 0 BY <3>1, <2>2, <1>13, <1>6
      <4>2. r[p] < r[b] /\ r[b] < r[n]
        BY <3>1, <4>1, <1>2, <1>3, <1>4, <1>7 DEF FreeLists, n
      <4>3. r[p] < r[n]
        <5>1. r[p] \in Nat /\ r[b] \in Nat /\ r[n] \in Nat BY <1>2, <1>3, <1>4, <1>5, <3>1, <4>1, <1>7
        <5> QED BY <4>2, <5>1
      <4> QED BY <4>1, <4>3, <3>1, <1>5, <1>10, <1>13, <1>15, <1>16, <1>6, <1>7
    <3>2. CASE ~(p # 0 /\ c = p)
      <4> DEFINE d == find_free_block_next(h, c)
      <4>1. find_free_block_next(w, c) = d /\ d # 0 BY <3>2, <2>2, <1>13, <1>6
      <4>2. d \in O /\ class(h, d) = class(h, c) /\ find_free_block_prev(h, d) = c /\ r[c] < r[d]
        BY <4>1, <2>2, <1>2 DEF FreeLists
      <4> HIDE DEF d
      <4>3. d # b BY <4>2, <3>2, <2>2, <1>6, <1>7 DEF p
      <4>4. n # 0 => d # n BY <4>2, <2>2, <1>5
      <4> QED BY <4>1, <4>2, <4>3, <4>4, <1>13, <1>15, <1>6, <1>7
    <3> QED BY <3>1, <3>2
  <2>3. ASSUME NEW c \in O \ {b}
        PROVE  \/ find_free_block_prev(w, c) = 0 /\ w.free_roots[class(w, c)] = c
               \/ /\ find_free_block_prev(w, c) \in O \ {b}
                  /\ find_free_block_next(w, find_free_block_prev(w, c)) = c
    <3>1. CASE n # 0 /\ c = n
      <4>1. find_free_block_prev(w, c) = p BY <3>1, <1>13, <1>6, <1>7
      <4>2. CASE p = 0
        BY <4>1, <4>2, <3>1, <1>5, <1>9, <1>15, <1>17
      <4>3. CASE p # 0
        BY <4>1, <4>3, <3>1, <1>4, <1>13, <1>16, <1>6
      <4> QED BY <4>2, <4>3
    <3>2. CASE ~(n # 0 /\ c = n)
      <4> DEFINE d == find_free_block_prev(h, c)
      <4>1. find_free_block_prev(w, c) = d BY <3>2, <1>13, <1>6, <1>7
      <4>2. \/ d = 0 /\ h.free_roots[class(h, c)] = c
            \/ d \in O /\ find_free_block_next(h, d) = c
        BY <1>2 DEF FreeLists
      <4>3. class(h, c) \in Roots
        BY <1>1, <1>7, HeaderIs, ClassIs DEF class
      <4> HIDE DEF d
      <4>4. CASE d = 0 /\ h.free_roots[class(h, c)] = c
        <5>1. ~(p = 0 /\ class(h, c) = class(h, b))
          <6> SUFFICES ASSUME p = 0, class(h, c) = class(h, b) PROVE FALSE OBVIOUS
          <6>1. h.free_roots[class(h, b)] = b
            BY <1>2, <1>3, <1>7 DEF FreeLists, p
          <6> QED BY <6>1, <4>4
        <5> QED BY <5>1, <4>1, <4>3, <4>4, <1>15, <1>17
      <4>5. CASE d \in O /\ find_free_block_next(h, d) = c
        <5>1. d # b BY <4>5, <3>2, <1>7 DEF n
        <5>2. ~(p # 0 /\ d = p) BY <4>5, <1>4
        <5> QED BY <5>1, <5>2, <4>1, <4>5, <1>13, <1>6
      <4> QED BY <4>2, <4>4, <4>5
    <3> QED BY <3>1, <3>2
  <2> HIDE DEF O, F2
  <2> QED BY <2>1, <2>2, <2>3, <1>14 DEF FreeLists
<1>19. MiniList(w, F2, r)
  <2>1. \A c \in Minis(h, F) : w.mem[c + 8] = h.mem[c + 8]
    <3> TAKE c \in Minis(h, F)
    <3>1. c \in F /\ c # b /\ ~(p # 0 /\ c = p) BY <1>3, <1>4, <1>7 DEF Minis
    <3> QED BY <3>1, <1>13 DEF find_free_block_next
  <2> QED BY <2>1, <1>2, <1>11, <1>14, MiniListFrame
<1> QED BY <1>2, <1>12, <1>18, <1>19 DEF Ranked

-----------------------------------------------------------------------------
(* A block leaves the mini list.                                           *)

(* The elements met from p on until one that ends the walk.                *)
Reached(R, D, nx, stop) ==
  /\ R \in [D -> SUBSET D]
  /\ \A p \in D : /\ p \notin stop => R[p] = {p} \cup R[nx[p]]
                  /\ p \in stop => R[p] = {p}

(* The elements met from each point on can be given for any links.         *)
LEMMA Reach ==
  ASSUME NEW D, NEW nx \in [D -> D], NEW stop \in SUBSET D
  PROVE  \E R : Reached(R, D, nx, stop)
<1> DEFINE Closed(S) == \A d \in S \ stop : nx[d] \in S
           R == [p \in D |-> {q \in D : \A S \in SUBSET D : p \in S /\ Closed(S) => q \in S}]
<1>1. R \in [D -> SUBSET D]
  OBVIOUS
<1>2. ASSUME NEW p \in D, p \notin stop PROVE R[p] = {p} \cup R[nx[p]]
  <2>1. ASSUME NEW q \in R[nx[p]] PROVE q \in R[p]
    BY <1>2, <2>1
  <2>2. p \in R[p] OBVIOUS
  <2>3. ASSUME NEW q \in R[p], q \notin {p} \cup R[nx[p]] PROVE FALSE
    <3>1. PICK S \in SUBSET D : nx[p] \in S /\ Closed(S) /\ q \notin S
      BY <2>3, <1>2
    <3>2. Closed(S \cup {p}) BY <3>1, <1>2
    <3> QED BY <3>1, <3>2, <2>3
  <2> HIDE DEF R
  <2> QED BY <2>1, <2>2, <2>3
<1>3. ASSUME NEW p \in D, p \in stop PROVE R[p] = {p}
  <2>1. Closed({p}) BY <1>3
  <2>2. p \in R[p] OBVIOUS
  <2>3. ASSUME NEW q \in R[p], q # p PROVE FALSE
    <3>1. {p} \in SUBSET D /\ p \in {p} /\ q \notin {p} BY <2>3
    <3> QED BY <2>1, <2>3, <3>1
  <2> HIDE DEF R
  <2> QED BY <2>2, <2>3
<1> HIDE DEF R
<1> QED BY <1>1, <1>2, <1>3 DEF Reached

(* A walk has a result, even where it goes round for ever.                 *)
Walked(f, D, nx, stop, out) == f = [p \in D |-> IF p \in stop THEN out[p] ELSE f[nx[p]]]

(* A walk has a result, even where it goes round for ever.                 *)
LEMMA Walk ==
  ASSUME NEW D, NEW nx \in [D -> D], NEW stop \in SUBSET D, NEW out
  PROVE  \E f : Walked(f, D, nx, stop, out)
<1>0. PICK R : Reached(R, D, nx, stop) BY Reach
<1>1. /\ R \in [D -> SUBSET D]
      /\ \A p \in D : /\ p \notin stop => R[p] = {p} \cup R[nx[p]]
                      /\ p \in stop => R[p] = {p}
  BY <1>0 DEF Reached
<1> DEFINE e(S) == CHOOSE s : s \in S
           f == [p \in D |-> IF R[p] \cap stop = {} THEN 0 ELSE out[e(R[p] \cap stop)]]
<1>2. ASSUME NEW p \in D, p \in stop PROVE f[p] = out[p]
  <2>1. R[p] \cap stop = {p} BY <1>1, <1>2
  <2>2. e({p}) = p OBVIOUS
  <2> QED BY <2>1, <2>2
<1>3. ASSUME NEW p \in D, p \notin stop PROVE f[p] = f[nx[p]]
  <2>1. R[p] \cap stop = R[nx[p]] \cap stop /\ nx[p] \in D BY <1>1, <1>3
  <2> HIDE DEF e
  <2> QED BY <2>1
<1>4. f = [p \in D |-> f[p]] OBVIOUS
<1> HIDE DEF f
<1>5. f = [p \in D |-> IF p \in stop THEN out[p] ELSE f[nx[p]]] BY <1>2, <1>3, <1>4
<1> QED BY <1>5 DEF Walked

(* What mini_before finds.                                                 *)
LEMMA BeforeIs ==
  ASSUME NEW h, NEW block, h.mini_free_root # block, h.mini_free_root # 0
  PROVE  \E f : /\ mini_before(h, block) = f[h.mini_free_root]
                /\ \A c \in Addr :
                      f[c] = IF find_free_block_next(h, c) = block THEN c
                             ELSE IF find_free_block_next(h, c) \in Addr \ {0}
                                  THEN f[find_free_block_next(h, c)] ELSE -1
<1> DEFINE IsBefore(f) ==
             f = [curr \in Addr |->
                    IF find_free_block_next(h, curr) = block THEN curr
                    ELSE IF find_free_block_next(h, curr) \in Addr \ {NULL}
                         THEN f[find_free_block_next(h, curr)] ELSE -1]
           before == CHOOSE f : IsBefore(f)
<1>1. mini_before(h, block) = before[h.mini_free_root]
  BY Zenon DEF mini_before
<1>2. \E f : IsBefore(f)
  <2> DEFINE stop == {c \in Addr : \/ find_free_block_next(h, c) = block
                                   \/ find_free_block_next(h, c) \notin Addr \ {0}}
             nx == [c \in Addr |-> IF c \in stop THEN c ELSE find_free_block_next(h, c)]
             out == [c \in Addr |-> IF find_free_block_next(h, c) = block THEN c ELSE -1]
  <2>1. nx \in [Addr -> Addr] /\ stop \in SUBSET Addr OBVIOUS
  <2>2. \A c \in Addr : /\ c \in stop <=> \/ find_free_block_next(h, c) = block
                                          \/ find_free_block_next(h, c) \notin Addr \ {0}
                        /\ c \notin stop => nx[c] = find_free_block_next(h, c)
                        /\ out[c] = IF find_free_block_next(h, c) = block THEN c ELSE -1
    OBVIOUS
  <2> HIDE DEF stop, nx, out
  <2>7. PICK f : Walked(f, Addr, nx, stop, out)
    BY <2>1, Walk
  <2>3. f = [p \in Addr |-> IF p \in stop THEN out[p] ELSE f[nx[p]]]
    BY <2>7 DEF Walked
  <2>4. \A c \in Addr :
           (IF c \in stop THEN out[c] ELSE f[nx[c]]) =
              IF find_free_block_next(h, c) = block THEN c
              ELSE IF find_free_block_next(h, c) \in Addr \ {NULL}
                   THEN f[find_free_block_next(h, c)] ELSE -1
    BY <2>2
  <2> DEFINE u == [p \in Addr |-> IF p \in stop THEN out[p] ELSE f[nx[p]]]
             v == [c \in Addr |->
                     IF find_free_block_next(h, c) = block THEN c
                     ELSE IF find_free_block_next(h, c) \in Addr \ {NULL}
                          THEN f[find_free_block_next(h, c)] ELSE -1]
  <2>5. u = v BY <2>4
  <2>6. f = v BY <2>3, <2>5
  <2> QED BY <2>6
<1>3. IsBefore(before)
  <2> HIDE DEF IsBefore
  <2> QED BY <1>2, Zenon
<1> HIDE DEF before
<1>4. \A c \in Addr :
         before[c] = IF find_free_block_next(h, c) = block THEN c
                     ELSE IF find_free_block_next(h, c) \in Addr \ {0}
                          THEN before[find_free_block_next(h, c)] ELSE -1
  BY <1>3
<1> QED BY <1>1, <1>4

(* The first block of a list that is not empty.                            *)
LEMMA MiniRoot ==
  ASSUME NEW h, NEW F, NEW m \in Nat, NEW r \in [Addr -> 0 .. m], MiniList(h, F, r),
         Minis(h, F) \subseteq Addr \ {0}, Minis(h, F) # {}
  PROVE  h.mini_free_root \in Minis(h, F)
<1>1. PICK c \in Minis(h, F) : \A d \in Minis(h, F) : ~(r[d] < r[c]) BY LeastRank
<1>2. c = h.mini_free_root \/ \E d \in Minis(h, F) : find_free_block_next(h, d) = c
  BY DEF MiniList
<1>3. ASSUME NEW d \in Minis(h, F), find_free_block_next(h, d) = c PROVE FALSE
  <2>1. c # 0 => r[d] < r[c] BY <1>3 DEF MiniList
  <2>2. c = 0 => h.mini_free_root = 0 \/ h.mini_free_root \in Minis(h, F) BY DEF MiniList
  <2> QED BY <2>1, <1>1
<1> QED BY <1>2, <1>3

(* It finds the block that has the link.                                   *)
LEMMA MiniBefore ==
  ASSUME NEW h, NEW B, Tiled(h, B), NEW F, F \subseteq B, NEW r, NEW m, Ranked(h, F, r, m),
         NEW b \in Minis(h, F)
  PROVE  \/ mini_before(h, b) = 0 /\ h.mini_free_root = b
         \/ /\ mini_before(h, b) \in Minis(h, F) /\ h.mini_free_root # b
            /\ find_free_block_next(h, mini_before(h, b)) = b
<1> DEFINE M == Minis(h, F)
           nx(c) == find_free_block_next(h, c)
<1>1. MiniList(h, F, r) /\ m \in Nat /\ r \in [Addr -> 0 .. m] BY DEF Ranked
<1>2. \A c \in M : c \in Addr /\ c # 0 BY Far DEF Minis
<1>3. CASE h.mini_free_root = b
  <2>1. mini_before(h, b) = 0 BY <1>3 DEF mini_before
  <2> QED BY <2>1, <1>3
<1>4. CASE h.mini_free_root # b
  <2>1. PICK p \in M : nx(p) = b BY <1>1, <1>4 DEF MiniList
  <2>2. h.mini_free_root \in M /\ h.mini_free_root # 0 BY <1>1, <1>2, MiniRoot
  <2>3. PICK f : /\ mini_before(h, b) = f[h.mini_free_root]
                 /\ \A c \in Addr : f[c] = IF nx(c) = b THEN c
                                           ELSE IF nx(c) \in Addr \ {0} THEN f[nx(c)] ELSE -1
    BY <1>4, <2>2, BeforeIs
  <2> DEFINE S == {c \in M : f[c] = p /\ r[c] < r[b]}
  <2>4. p \in S
    <3>1. f[p] = p BY <2>1, <2>3, <1>2
    <3>2. r[p] < r[b] BY <2>1, <1>1, <1>2 DEF MiniList
    <3> QED BY <3>1, <3>2
  <2>5. S \in SUBSET Addr /\ S # {} BY <2>4, <1>2
  <2> HIDE DEF S
  <2>6. PICK c \in S : \A d \in S : ~(r[d] < r[c]) BY <2>5, <1>1, LeastRank
  <2>7. c \in M /\ f[c] = p /\ r[c] < r[b] BY <2>6 DEF S
  <2>8. c = h.mini_free_root
    <3> SUFFICES ASSUME c # h.mini_free_root PROVE FALSE OBVIOUS
    <3>1. PICK d \in M : nx(d) = c BY <2>7, <1>1 DEF MiniList
    <3>2. r[d] < r[c] BY <3>1, <2>7, <1>1, <1>2 DEF MiniList
    <3>3. r[d] \in Nat /\ r[c] \in Nat /\ r[b] \in Nat BY <1>1, <1>2, <2>7
    <3>4. c # b BY <2>7, <3>3
    <3>5. f[d] = f[c] BY <2>3, <3>1, <3>4, <2>7, <1>2
    <3>6. d \in S BY <3>1, <3>2, <3>3, <3>5, <2>7 DEF S
    <3> QED BY <2>6, <3>2, <3>6
  <2> QED BY <2>1, <2>3, <2>7, <2>8, <1>4
<1> QED BY <1>3, <1>4

(* Taking a block out of the mini list: its successor takes its place in   *)
(* the link that led to it, and its own link is cleared.                   *)
LEMMA UnlinkMini ==
  ASSUME NEW h \in Heap, NEW b \in Addr, b + 8 \in Addr, NEW p \in Addr, p # 0 => p + 8 \in Addr,
         find_free_block_next(h, b) \in Addr, p # b, NEW w, w = unlink_mini(h, b, p)
  PROVE  /\ w \in Heap /\ w.brk = h.brk /\ w.heap_start = h.heap_start
         /\ w.free_roots = h.free_roots
         /\ w.mini_free_root = IF p # 0 THEN h.mini_free_root ELSE find_free_block_next(h, b)
         /\ \A a \in Addr :
               w.mem[a] = IF a = b + 8 THEN 0
                          ELSE IF p # 0 /\ a = p + 8 THEN find_free_block_next(h, b)
                          ELSE h.mem[a]
<1> DEFINE n == find_free_block_next(h, b)
           h1 == IF p # 0 THEN link_free_block_next(h, p, n) ELSE [h EXCEPT !.mini_free_root = n]
           b8 == b + 8
<1>1. p # -1 BY AddrIs
<1>2. w = Store(h1, b8, 0) BY <1>1 DEF unlink_mini, link_free_block_next
<1>3. 0 \in Addr /\ n \in Addr /\ b8 \in Addr BY AddrIs
<1> HIDE DEF n, b8
<1>4. /\ h1 \in Heap /\ h1.brk = h.brk /\ h1.heap_start = h.heap_start
      /\ h1.free_roots = h.free_roots
      /\ h1.mini_free_root = IF p # 0 THEN h.mini_free_root ELSE n
      /\ \A a \in Addr : h1.mem[a] = IF p # 0 /\ a = p + 8 THEN n ELSE h.mem[a]
  <2>1. CASE p # 0
    <3> DEFINE x == p + 8
    <3>1. x \in Addr /\ h1 = Store(h, x, n)
      BY <2>1 DEF link_free_block_next
    <3> HIDE DEF x, h1
    <3>2. Linked(h, h1, x, n) BY <3>1, <1>3, LinkIs
    <3> QED BY <2>1, <3>2 DEF x, Linked
  <2>2. CASE p = 0
    <3>1. h1 = [h EXCEPT !.mini_free_root = n] BY <2>2
    <3> HIDE DEF h1
    <3> QED BY <2>2, <3>1, <1>3 DEF Heap
  <2> QED BY <2>1, <2>2
<1> HIDE DEF h1
<1>5. Linked(h1, w, b8, 0)
  BY <1>2, <1>3, <1>4, LinkIs
<1>6. \A a \in Addr : w.mem[a] = IF a = b8 THEN 0 ELSE IF p # 0 /\ a = p + 8 THEN n ELSE h.mem[a]
  BY <1>4, <1>5 DEF Linked
<1> QED BY <1>4, <1>5, <1>6 DEF Linked, n, b8

(* What is left of the mini list without a block is the mini list of the   *)
(* others.                                                                 *)
LEMMA RemoveMini ==
  ASSUME NEW h, NEW B, Tiled(h, B), NEW F, F \subseteq B, NEW r, NEW m, Ranked(h, F, r, m),
         NEW b \in Minis(h, F), NEW p,
         \/ p = 0 /\ h.mini_free_root = b
         \/ p \in Minis(h, F) /\ h.mini_free_root # b /\ find_free_block_next(h, p) = b,
         NEW w, w = unlink_mini(h, b, p)
  PROVE  LinksOnly(h, w, F) /\ Ranked(w, F \ {b}, r, m)
<1> DEFINE M == Minis(h, F)
           n == find_free_block_next(h, b)
<1>1. h \in Heap BY DEF Tiled, Shape
<1>2. FreeLists(h, F, r) /\ MiniList(h, F, r) /\ m \in Nat /\ r \in [Addr -> 0 .. m] BY DEF Ranked
<1>3. M \subseteq F /\ M \subseteq B /\ 0 \in Addr BY AddrIs DEF Minis
<1>4. \A c \in M : c # 0 /\ c \in Addr /\ c \in Nat /\ get_size(h, c) = 16
                   /\ c + 8 \in Addr /\ c + 16 \in Addr /\ r[c] \in Nat
  BY <1>2, <1>3, Far DEF Minis
<1>5. n = 0 \/ (n \in M /\ r[b] < r[n] /\ n # h.mini_free_root)
  BY <1>2 DEF MiniList
<1>6. p # 0 => r[p] < r[b]
  BY <1>2, <1>4 DEF MiniList
<1>7. p # b /\ n # b /\ p \in Addr /\ n \in Addr
  BY <1>3, <1>4, <1>5, <1>6
<1> HIDE DEF n
<1>8. /\ w \in Heap /\ w.brk = h.brk /\ w.heap_start = h.heap_start
      /\ w.free_roots = h.free_roots
      /\ w.mini_free_root = IF p # 0 THEN h.mini_free_root ELSE n
      /\ \A a \in Addr :
            w.mem[a] = IF a = b + 8 THEN 0 ELSE IF p # 0 /\ a = p + 8 THEN n ELSE h.mem[a]
  <2>1. /\ w \in Heap /\ w.brk = h.brk /\ w.heap_start = h.heap_start
        /\ w.free_roots = h.free_roots
        /\ w.mini_free_root = IF p # 0 THEN h.mini_free_root ELSE find_free_block_next(h, b)
        /\ \A a \in Addr :
              w.mem[a] = IF a = b + 8 THEN 0
                         ELSE IF p # 0 /\ a = p + 8 THEN find_free_block_next(h, b)
                         ELSE h.mem[a]
    <3>1. p # 0 => p + 8 \in Addr BY <1>4
    <3>2. find_free_block_next(h, b) \in Addr BY <1>7 DEF n
    <3> QED BY <1>1, <1>4, <1>7, <3>1, <3>2, UnlinkMini
  <2> QED BY <2>1 DEF n
<1>9. LinksOnly(h, w, F)
  <2>1. ASSUME NEW a \in Addr, w.mem[a] # h.mem[a] PROVE \E c \in F : a = c + 8
    <3>1. a = b + 8 \/ (p # 0 /\ a = p + 8) BY <2>1, <1>8
    <3> QED BY <3>1, <1>3
  <2> QED BY <2>1, <1>8 DEF LinksOnly
<1>10. ASSUME NEW c \in F
       PROVE  /\ get_size(w, c) = get_size(h, c)
              /\ find_free_block_next(w, c) = IF c = b THEN 0 ELSE IF p # 0 /\ c = p THEN n
                                              ELSE find_free_block_next(h, c)
              /\ w.mem[c + 16] = h.mem[c + 16] \/ get_size(h, c) = 16
  <2>1. c \in B /\ b \in B /\ (p # 0 => p \in B)
    BY <1>3
  <2>2. w.mem[c] = h.mem[c]
    <3>1. SameTiles(h, w, B) BY <1>9, LinksKeep
    <3> QED BY <3>1, <2>1 DEF SameTiles
  <2>3. get_size(w, c) = get_size(h, c) BY <2>2, SameHeader
  <2>4. w.mem[c + 8] = IF c = b THEN 0 ELSE IF p # 0 /\ c = p THEN n ELSE h.mem[c + 8]
    <3>1. /\ c + 8 \in Addr /\ (c + 8 = b + 8 <=> c = b)
          /\ p # 0 => (c + 8 = p + 8 <=> c = p)
      BY <2>1, Far
    <3> QED BY <3>1, <1>8
  <2>5. w.mem[c + 16] = h.mem[c + 16]
    <3>1. c + 16 \in Addr /\ c + 16 # b + 8 /\ (p # 0 => c + 16 # p + 8)
      BY <2>1, Far
    <3> QED BY <3>1, <1>8
  <2> QED BY <2>3, <2>4, <2>5 DEF find_free_block_next
<1> DEFINE F2 == F \ {b}
<1>11. Others(w, F2) = Others(h, F) /\ Minis(w, F2) = M \ {b}
  BY <1>10, <1>4 DEF Others, Minis
<1>12. FreeLists(w, F2, r)
  <2>1. ASSUME NEW c \in Others(h, F)
        PROVE  /\ get_size(w, c) = get_size(h, c)
               /\ w.mem[c + 8] = h.mem[c + 8] /\ w.mem[c + 16] = h.mem[c + 16]
    <3>1. c \in F /\ get_size(h, c) # 16 BY DEF Others
    <3>2. c # b /\ ~(p # 0 /\ c = p) BY <3>1, <1>4
    <3> QED BY <3>1, <3>2, <1>10 DEF find_free_block_next
  <2> QED BY <2>1, <1>2, <1>8, <1>11, FreeListsFrame
<1>13. MiniList(w, F2, r)
  <2> DEFINE nx(c) == find_free_block_next(h, c)
             nw(c) == find_free_block_next(w, c)
             root == w.mini_free_root
  <2>0. \A c \in M \ {b} : nw(c) = IF p # 0 /\ c = p THEN n ELSE nx(c) BY <1>10, <1>3
  <2>1. root = 0 \/ root \in M \ {b}
    BY <1>2, <1>5, <1>7, <1>8 DEF MiniList
  <2>2. ASSUME NEW c \in M \ {b}
        PROVE  \/ nw(c) = 0
               \/ nw(c) \in M \ {b} /\ r[c] < r[nw(c)] /\ nw(c) # root
    <3>1. CASE p # 0 /\ c = p
      <4>1. nw(c) = n BY <3>1, <2>0
      <4>2. n = 0 \/ r[p] < r[n] BY <3>1, <1>4, <1>5, <1>6
      <4> QED BY <4>1, <4>2, <3>1, <1>5, <1>7, <1>8
    <3>2. CASE ~(p # 0 /\ c = p)
      <4>1. nw(c) = nx(c) BY <3>2, <2>0
      <4>2. nx(c) = 0 \/ (nx(c) \in M /\ r[c] < r[nx(c)] /\ nx(c) # h.mini_free_root)
        BY <1>2 DEF MiniList
      <4>3. nx(c) # b
        BY <3>2, <1>2, <1>4, <4>2 DEF MiniList
      <4>4. p = 0 => nx(c) # n \/ n = 0
        BY <1>2, <1>4 DEF MiniList, n
      <4> QED BY <4>1, <4>2, <4>3, <4>4, <1>8, <1>5
    <3> QED BY <3>1, <3>2
  <2>3. ASSUME NEW c \in M \ {b}
        PROVE  c = root \/ \E d \in M \ {b} : nw(d) = c
    <3>1. CASE c = n
      BY <3>1, <1>7, <1>8, <2>0
    <3>2. CASE c # n
      <4>1. c = h.mini_free_root \/ \E d \in M : nx(d) = c BY <1>2 DEF MiniList
      <4>2. CASE c = h.mini_free_root
        <5>1. p # 0 BY <4>2, <1>4
        <5> QED BY <4>2, <5>1, <1>8
      <4>3. CASE \E d \in M : nx(d) = c
        <5>1. PICK d \in M : nx(d) = c BY <4>3
        <5>2. d # b BY <5>1, <3>2 DEF n
        <5>3. ~(p # 0 /\ d = p) BY <5>1
        <5>4. nw(d) = c BY <5>1, <5>2, <5>3, <2>0
        <5> QED BY <5>2, <5>4
      <4> QED BY <4>1, <4>2, <4>3
    <3> QED BY <3>1, <3>2
  <2>4. ASSUME NEW c \in M \ {b}, NEW d \in M \ {b}, nw(c) = nw(d)
        PROVE  nw(c) = 0 \/ c = d
    <3>1. \A x \in M, y \in M : nx(x) = nx(y) => nx(x) = 0 \/ x = y
      BY <1>2 DEF MiniList
    <3>2. \A x \in M \ {b} : n # 0 => nx(x) # n BY <3>1 DEF n
    <3> QED BY <3>1, <3>2, <2>0, <2>4
  <2> HIDE DEF M, F2
  <2> QED BY <2>1, <2>2, <2>3, <2>4, <1>11 DEF MiniList
<1> QED BY <1>2, <1>9, <1>12, <1>13 DEF Ranked

(* A block that is taken out of its list leaves the others as they were.   *)
LEMMA RemoveFree ==
  ASSUME NEW h, NEW B, Tiled(h, B), NEW F, F \subseteq B, Lists(h, F),
         NEW b \in F, NEW w, w = remove_free_block(h, b)
  PROVE  LinksOnly(h, w, F) /\ Lists(w, F \ {b})
<1>1. PICK m, r : Ranked(h, F, r, m) BY DEF Lists
<1>2. CASE get_size(h, b) = 16
  <2> DEFINE p == mini_before(h, b)
  <2>1. b \in Minis(h, F) BY <1>2 DEF Minis
  <2>2. w = unlink_mini(h, b, p) BY <1>2 DEF remove_free_block, remove_mini_block
  <2>3. \/ p = 0 /\ h.mini_free_root = b
        \/ p \in Minis(h, F) /\ h.mini_free_root # b /\ find_free_block_next(h, p) = b
    BY <1>1, <2>1, MiniBefore
  <2> HIDE DEF p
  <2>4. LinksOnly(h, w, F) /\ Ranked(w, F \ {b}, r, m) BY <1>1, <2>1, <2>2, <2>3, RemoveMini
  <2> QED BY <2>4 DEF Lists
<1>3. CASE get_size(h, b) # 16
  <2>1. LinksOnly(h, w, F) /\ Ranked(w, F \ {b}, r, m) BY <1>1, <1>3, RemoveOther
  <2> QED BY <2>1 DEF Lists
<1> QED BY <1>2, <1>3

-----------------------------------------------------------------------------
(* A block is inserted.                                                    *)

(* Popping the first mini block is unlinking it.                           *)
LEMMA PopIs ==
  ASSUME NEW h
  PROVE  pop_mini_block(h) = unlink_mini(h, h.mini_free_root, 0)
BY DEF pop_mini_block, unlink_mini

(* The first mini block is taken off the list; the others stay in it.      *)
LEMMA PopMini ==
  ASSUME NEW h, NEW B, Tiled(h, B), NEW F, F \subseteq B, Lists(h, F),
         h.mini_free_root # 0, NEW w, w = pop_mini_block(h)
  PROVE  /\ h.mini_free_root \in F /\ get_size(h, h.mini_free_root) = 16
         /\ LinksOnly(h, w, F) /\ Lists(w, F \ {h.mini_free_root})
<1> DEFINE b == h.mini_free_root
           p == 0
<1>1. PICK m, r : Ranked(h, F, r, m) BY DEF Lists
<1>2. b \in Minis(h, F) BY <1>1 DEF Ranked, MiniList
<1>3. w = unlink_mini(h, b, p) BY PopIs
<1>4. p = 0 /\ h.mini_free_root = b OBVIOUS
<1> HIDE DEF b, p
<1>5. LinksOnly(h, w, F) /\ Ranked(w, F \ {b}, r, m)
  BY <1>1, <1>2, <1>3, <1>4, RemoveMini
<1> QED BY <1>2, <1>5 DEF Lists, b, Minis

(* The rank after a block has been put in front.                           *)
InFront(r, b) == [a \in Addr |-> IF a = b THEN 0 ELSE r[a] + 1]

(* A block put in front comes before all others, whose order stays.        *)
LEMMA InFrontIs ==
  ASSUME NEW m \in Nat, NEW r \in [Addr -> 0 .. m], NEW b
  PROVE  /\ InFront(r, b) \in [Addr -> 0 .. m + 1]
         /\ \A a \in Addr : a # b =>
               /\ b \in Addr => InFront(r, b)[b] < InFront(r, b)[a]
               /\ \A c \in Addr : c # b /\ r[a] < r[c] => InFront(r, b)[a] < InFront(r, b)[c]
BY DEF InFront

(* A mini block put in front of the mini list is in it, with the others.   *)
LEMMA InsertMini ==
  ASSUME NEW h, NEW B, Tiled(h, B), NEW F, F \subseteq B, NEW r, NEW m, Ranked(h, F, r, m),
         NEW b \in B \ F, get_size(h, b) = 16, NEW w, w = insert_mini_block(h, b)
  PROVE  LinksOnly(h, w, F \cup {b}) /\ Ranked(w, F \cup {b}, InFront(r, b), m + 1)
<1> DEFINE M == Minis(h, F)
           F2 == F \cup {b}
           r2 == InFront(r, b)
           x == b + 8
           o == h.mini_free_root
<1>1. h \in Heap BY DEF Tiled, Shape
<1>2. FreeLists(h, F, r) /\ MiniList(h, F, r) /\ m \in Nat /\ r \in [Addr -> 0 .. m] BY DEF Ranked
<1>3. M \subseteq F /\ M \subseteq B /\ b \notin M BY DEF Minis
<1>4. \A c \in M \cup {b} : c # 0 /\ c \in Addr /\ c + 8 \in Addr
  BY <1>3, Far
<1>5. o = 0 \/ o \in M BY <1>2 DEF MiniList
<1>6. o \in Addr /\ x \in Addr BY <1>4, <1>5, AddrIs
<1>7. w = [Store(h, x, o) EXCEPT !.mini_free_root = b]
  BY DEF insert_mini_block, link_free_block_next
<1> HIDE DEF x, o
<1>8. /\ w \in Heap /\ w.brk = h.brk /\ w.heap_start = h.heap_start
      /\ w.free_roots = h.free_roots /\ w.mini_free_root = b
      /\ \A a \in Addr : w.mem[a] = IF a = x THEN o ELSE h.mem[a]
  <2> DEFINE s == Store(h, x, o)
  <2>1. Linked(h, s, x, o) BY <1>1, <1>6, LinkIs
  <2> HIDE DEF s
  <2> QED BY <2>1, <1>4, <1>7 DEF Linked, Heap, s
<1>9. LinksOnly(h, w, F2)
  BY <1>8 DEF LinksOnly, x
<1>10. ASSUME NEW c \in F2
       PROVE  /\ get_size(w, c) = get_size(h, c)
              /\ find_free_block_next(w, c) = IF c = b THEN o ELSE find_free_block_next(h, c)
              /\ w.mem[c + 16] = h.mem[c + 16]
  <2>1. c \in B /\ b \in B OBVIOUS
  <2>2. w.mem[c] = h.mem[c]
    <3>1. SameTiles(h, w, B) BY <1>9, LinksKeep
    <3> QED BY <3>1, <2>1 DEF SameTiles
  <2>3. get_size(w, c) = get_size(h, c) BY <2>2, SameHeader
  <2>4. w.mem[c + 8] = IF c = b THEN o ELSE h.mem[c + 8]
    <3>1. c + 8 \in Addr /\ (c + 8 = b + 8 <=> c = b) BY <2>1, Far
    <3> QED BY <3>1, <1>8 DEF x
  <2>5. w.mem[c + 16] = h.mem[c + 16]
    <3>1. c + 16 \in Addr /\ c + 16 # b + 8 BY <2>1, Far
    <3> QED BY <3>1, <1>8 DEF x
  <2> QED BY <2>3, <2>4, <2>5 DEF find_free_block_next
<1>11. Others(w, F2) = Others(h, F) /\ Minis(w, F2) = M \cup {b}
  BY <1>10 DEF Others, Minis
<1>12. /\ r2 \in [Addr -> 0 .. m + 1]
       /\ \A a \in Addr : a # b =>
               /\ b \in Addr => r2[b] < r2[a]
               /\ \A c \in Addr : c # b /\ r[a] < r[c] => r2[a] < r2[c]
  BY <1>2, InFrontIs
<1> HIDE DEF r2
<1>13. FreeLists(w, F2, r2)
  <2>1. FreeLists(h, F, r2)
    <3>1. \A c \in Others(h, F) : c # b /\ c \in Addr BY Far DEF Others
    <3> QED BY <3>1, <1>2, <1>12 DEF FreeLists
  <2>2. ASSUME NEW c \in Others(h, F)
        PROVE  /\ get_size(w, c) = get_size(h, c)
               /\ w.mem[c + 8] = h.mem[c + 8] /\ w.mem[c + 16] = h.mem[c + 16]
    <3>1. c \in F2 /\ c # b BY DEF Others
    <3> QED BY <3>1, <1>10 DEF find_free_block_next
  <2> QED BY <2>1, <2>2, <1>8, <1>11, FreeListsFrame
<1>14. MiniList(w, F2, r2)
  <2> DEFINE nx(c) == find_free_block_next(h, c)
             nw(c) == find_free_block_next(w, c)
  <2>0. /\ nw(b) = o /\ \A c \in M : nw(c) = nx(c) BY <1>10, <1>3
  <2>1. ASSUME NEW c \in M \cup {b}
        PROVE  \/ nw(c) = 0
               \/ nw(c) \in M \cup {b} /\ r2[c] < r2[nw(c)] /\ nw(c) # w.mini_free_root
    <3>1. CASE c = b
      BY <3>1, <2>0, <1>3, <1>4, <1>5, <1>8, <1>12
    <3>2. CASE c # b
      <4>1. nw(c) = nx(c) /\ c \in M BY <3>2, <2>0
      <4>2. nx(c) = 0 \/ (nx(c) \in M /\ r[c] < r[nx(c)]) BY <4>1, <1>2 DEF MiniList
      <4> QED BY <4>1, <4>2, <3>2, <1>3, <1>4, <1>8, <1>12
    <3> QED BY <3>1, <3>2
  <2>2. ASSUME NEW c \in M \cup {b}
        PROVE  c = w.mini_free_root \/ \E d \in M \cup {b} : nw(d) = c
    <3>1. CASE c = b BY <3>1, <1>8
    <3>2. CASE c # b
      <4>1. c = o \/ \E d \in M : nx(d) = c BY <3>2, <1>2 DEF MiniList, o
      <4> QED BY <4>1, <2>0
    <3> QED BY <3>1, <3>2
  <2>3. ASSUME NEW c \in M \cup {b}, NEW d \in M \cup {b}, nw(c) = nw(d)
        PROVE  nw(c) = 0 \/ c = d
    <3>1. \A e \in M : nx(e) # 0 => nx(e) # o BY <1>2 DEF MiniList, o
    <3>2. \A e \in M, f \in M : nx(e) = nx(f) => nx(e) = 0 \/ e = f BY <1>2 DEF MiniList
    <3> QED BY <3>1, <3>2, <2>0, <2>3
  <2> HIDE DEF M, F2
  <2> QED BY <2>1, <2>2, <2>3, <1>8, <1>11 DEF MiniList
<1>15. m + 1 \in Nat BY <1>2
<1> QED BY <1>9, <1>12, <1>13, <1>14, <1>15 DEF Ranked, r2

(* A block put in front of the list of its class is in it, with the        *)
(* others.                                                                 *)
LEMMA InsertOther ==
  ASSUME NEW h, NEW B, Tiled(h, B), NEW F, F \subseteq B, NEW r, NEW m, Ranked(h, F, r, m),
         NEW b \in B \ F, get_size(h, b) # 16, NEW w, w = insert_first(h, b, class(h, b))
  PROVE  LinksOnly(h, w, F \cup {b}) /\ Ranked(w, F \cup {b}, InFront(r, b), m + 1)
<1> DEFINE O == Others(h, F)
           F2 == F \cup {b}
           r2 == InFront(r, b)
           k == class(h, b)
           o == h.free_roots[k]
           x == b + 8
           y == b + 16
           z == o + 16
<1>1. h \in Heap BY DEF Tiled, Shape
<1>2. FreeLists(h, F, r) /\ MiniList(h, F, r) /\ m \in Nat /\ r \in [Addr -> 0 .. m] BY DEF Ranked
<1>3. O \subseteq F /\ O \subseteq B /\ b \notin O BY DEF Others
<1>4. \A c \in O \cup {b} : c # 0 /\ c \in Addr /\ c + 8 \in Addr /\ c + 16 \in Addr
                            /\ get_size(h, c) # 16 /\ class(h, c) \in Roots
  <2> TAKE c \in O \cup {b}
  <2>1. c \in B /\ get_size(h, c) # 16 BY <1>3 DEF Others
  <2>2. c # 0 /\ c \in Addr /\ c + 8 \in Addr /\ c + 16 \in Addr BY <2>1, Far
  <2>3. class(h, c) \in Roots BY <2>2, <1>1, HeaderIs, ClassIs DEF class
  <2> QED BY <2>1, <2>2, <2>3
<1>5. k \in Roots BY <1>4
<1>6. o = 0 \/ (o \in O /\ class(h, o) = k /\ find_free_block_prev(h, o) = 0)
  BY <1>2, <1>5 DEF FreeLists
<1> HIDE DEF k
<1>7. o \in Addr /\ x \in Addr /\ y \in Addr /\ 0 \in Addr /\ b \in Addr /\ (o # 0 => z \in Addr)
  BY <1>4, <1>6, AddrIs
<1>8. o # b BY <1>3, <1>4, <1>6
<1>9. /\ w \in Heap /\ w.brk = h.brk /\ w.heap_start = h.heap_start
      /\ w.free_roots = [h.free_roots EXCEPT ![k] = b] /\ w.mini_free_root = h.mini_free_root
      /\ \A a \in Addr : w.mem[a] = IF o # 0 /\ a = z THEN b
                                    ELSE IF a = y THEN 0 ELSE IF a = x THEN o ELSE h.mem[a]
  <2> DEFINE h1 == Store(h, x, o)
             h2 == Store(h1, y, 0)
             h3 == IF o # 0 THEN Store(h2, z, b) ELSE h2
  <2>1. w = [h3 EXCEPT !.free_roots[k] = b]
    BY DEF insert_first, set_prev_of, link_free_block_prev, link_free_block_next, k
  <2> HIDE DEF x, y, z, o
  <2>2. Linked(h, h1, x, o) BY <1>1, <1>7, LinkIs
  <2> HIDE DEF h1
  <2>3. Linked(h1, h2, y, 0) BY <2>2, <1>7, LinkIs DEF Linked
  <2> HIDE DEF h2
  <2>4. o # 0 => Linked(h2, Store(h2, z, b), z, b) BY <2>3, <1>7, LinkIs DEF Linked
  <2>5. /\ h3 \in Heap /\ h3.brk = h.brk /\ h3.heap_start = h.heap_start
        /\ h3.free_roots = h.free_roots /\ h3.mini_free_root = h.mini_free_root
        /\ \A a \in Addr : h3.mem[a] = IF o # 0 /\ a = z THEN b
                                       ELSE IF a = y THEN 0 ELSE IF a = x THEN o ELSE h.mem[a]
    BY <2>2, <2>3, <2>4 DEF Linked
  <2> HIDE DEF h3
  <2> QED BY <2>1, <2>5, <1>5, <1>7 DEF Heap
<1>10. LinksOnly(h, w, F2)
  <2>1. ASSUME NEW a \in Addr, w.mem[a] # h.mem[a]
        PROVE  \E c \in F2 : a = c + 8 \/ (a = c + 16 /\ get_size(h, c) # 16)
    BY <2>1, <1>3, <1>4, <1>6, <1>9
  <2> QED BY <2>1, <1>9 DEF LinksOnly
<1>11. ASSUME NEW c \in F2
       PROVE  /\ get_size(w, c) = get_size(h, c)
              /\ find_free_block_next(w, c) = IF c = b THEN o ELSE find_free_block_next(h, c)
              /\ get_size(h, c) # 16 =>
                    find_free_block_prev(w, c) = IF o # 0 /\ c = o THEN b ELSE IF c = b THEN 0
                                                 ELSE find_free_block_prev(h, c)
  <2>1. c \in B /\ b \in B /\ (o # 0 => o \in B) BY <1>3, <1>6
  <2>2. w.mem[c] = h.mem[c]
    <3>1. SameTiles(h, w, B) BY <1>10, LinksKeep
    <3> QED BY <3>1, <2>1 DEF SameTiles
  <2>3. get_size(w, c) = get_size(h, c) BY <2>2, SameHeader
  <2>4. w.mem[c + 8] = IF c = b THEN o ELSE h.mem[c + 8]
    <3>1. /\ c + 8 \in Addr /\ (c + 8 = b + 8 <=> c = b) /\ c + 8 # b + 16
          /\ o # 0 => c + 8 # o + 16
      BY <2>1, Far
    <3> QED BY <3>1, <1>9
  <2>5. w.mem[c + 16] = IF o # 0 /\ c = o THEN b ELSE IF c = b THEN 0 ELSE h.mem[c + 16]
    <3>1. /\ c + 16 \in Addr /\ c + 16 # b + 8 /\ (c + 16 = b + 16 <=> c = b)
          /\ o # 0 => (c + 16 = o + 16 <=> c = o)
      BY <2>1, Far
    <3> QED BY <3>1, <1>9
  <2> QED BY <2>3, <2>4, <2>5 DEF find_free_block_next, find_free_block_prev
<1>12. Others(w, F2) = O \cup {b} /\ Minis(w, F2) = Minis(h, F)
  BY <1>11 DEF Others, Minis
<1>13. \A c \in O \cup {b} : class(w, c) = class(h, c) BY <1>11, <1>3 DEF class
<1>14. /\ r2 \in [Addr -> 0 .. m + 1]
       /\ \A a \in Addr : a # b =>
               /\ b \in Addr => r2[b] < r2[a]
               /\ \A c \in Addr : c # b /\ r[a] < r[c] => r2[a] < r2[c]
  BY <1>2, InFrontIs
<1>15. \A i \in Roots : w.free_roots[i] = IF i = k THEN b ELSE h.free_roots[i]
  BY <1>1, <1>9 DEF Heap
<1> HIDE DEF r2, o
<1>16. FreeLists(w, F2, r2)
  <2>1. ASSUME NEW i \in Roots, w.free_roots[i] # 0
        PROVE  /\ w.free_roots[i] \in O \cup {b} /\ class(w, w.free_roots[i]) = i
               /\ find_free_block_prev(w, w.free_roots[i]) = 0
    <3>1. CASE i = k
      BY <3>1, <1>15, <1>13, <1>11, <1>8 DEF k
    <3>2. CASE i # k
      <4> DEFINE f == h.free_roots[i]
      <4>1. w.free_roots[i] = f BY <3>2, <1>15
      <4>2. f \in O /\ class(h, f) = i /\ find_free_block_prev(h, f) = 0
        BY <4>1, <2>1, <1>2 DEF FreeLists
      <4> HIDE DEF f
      <4>3. f # o \/ o = 0 BY <4>2, <3>2, <1>6
      <4> QED BY <4>1, <4>2, <4>3, <1>3, <1>4, <1>11, <1>13
    <3> QED BY <3>1, <3>2
  <2>2. ASSUME NEW c \in O \cup {b}, find_free_block_next(w, c) # 0
        PROVE  /\ find_free_block_next(w, c) \in O \cup {b}
               /\ class(w, find_free_block_next(w, c)) = class(w, c)
               /\ find_free_block_prev(w, find_free_block_next(w, c)) = c
               /\ r2[c] < r2[find_free_block_next(w, c)]
    <3>1. CASE c = b
      <4>1. find_free_block_next(w, c) = o /\ o # 0 BY <3>1, <2>2, <1>11
      <4>2. o \in O /\ class(h, o) = class(h, b) BY <4>1, <1>6 DEF k
      <4>3. find_free_block_prev(w, o) = b BY <4>1, <4>2, <1>3, <1>4, <1>11
      <4> QED BY <4>1, <4>2, <4>3, <3>1, <1>4, <1>8, <1>13, <1>14
    <3>2. CASE c # b
      <4> DEFINE d == find_free_block_next(h, c)
      <4>1. c \in O BY <3>2
      <4>2. find_free_block_next(w, c) = d /\ d # 0 BY <4>1, <3>2, <2>2, <1>3, <1>11
      <4>3. d \in O /\ class(h, d) = class(h, c) /\ find_free_block_prev(h, d) = c /\ r[c] < r[d]
        BY <4>1, <4>2, <1>2 DEF FreeLists
      <4> HIDE DEF d
      <4>4. d # b BY <4>3, <1>3
      <4>5. o # 0 => d # o BY <4>1, <4>3, <1>4, <1>6
      <4> QED BY <4>1, <4>2, <4>3, <4>4, <4>5, <3>2, <1>3, <1>4, <1>11, <1>13, <1>14
    <3> QED BY <3>1, <3>2
  <2>3. ASSUME NEW c \in O \cup {b}
        PROVE  \/ find_free_block_prev(w, c) = 0 /\ w.free_roots[class(w, c)] = c
               \/ /\ find_free_block_prev(w, c) \in O \cup {b}
                  /\ find_free_block_next(w, find_free_block_prev(w, c)) = c
    <3>1. CASE c = b
      BY <3>1, <1>5, <1>8, <1>11, <1>13, <1>15 DEF k
    <3>2. CASE c # b /\ o # 0 /\ c = o
      BY <3>2, <1>3, <1>4, <1>11
    <3>3. CASE c # b /\ ~(o # 0 /\ c = o)
      <4> DEFINE d == find_free_block_prev(h, c)
      <4>1. c \in O BY <3>3
      <4>2. find_free_block_prev(w, c) = d BY <4>1, <3>3, <1>3, <1>4, <1>11
      <4>3. \/ d = 0 /\ h.free_roots[class(h, c)] = c
            \/ d \in O /\ find_free_block_next(h, d) = c
        BY <4>1, <1>2 DEF FreeLists
      <4> HIDE DEF d
      <4>4. CASE d = 0 /\ h.free_roots[class(h, c)] = c
        <5>1. class(h, c) # k BY <4>4, <3>3, <4>1, <1>4 DEF o
        <5> QED BY <5>1, <4>1, <4>2, <4>4, <1>4, <1>13, <1>15
      <4>5. CASE d \in O /\ find_free_block_next(h, d) = c
        <5>1. d # b BY <4>5, <1>3
        <5> QED BY <5>1, <4>2, <4>5, <1>3, <1>11
      <4> QED BY <4>3, <4>4, <4>5
    <3> QED BY <3>1, <3>2, <3>3
  <2> HIDE DEF O, F2
  <2> QED BY <2>1, <2>2, <2>3, <1>12 DEF FreeLists
<1>17. MiniList(w, F2, r2)
  <2>1. MiniList(h, F, r2)
    <3>1. \A c \in Minis(h, F) : c # b /\ c \in Addr BY Far DEF Minis
    <3> QED BY <3>1, <1>2, <1>14 DEF MiniList
  <2>2. \A c \in Minis(h, F) : w.mem[c + 8] = h.mem[c + 8]
    <3> TAKE c \in Minis(h, F)
    <3>1. c \in F2 /\ c # b BY DEF Minis
    <3> QED BY <3>1, <1>11 DEF find_free_block_next
  <2> QED BY <2>1, <2>2, <1>9, <1>12, MiniListFrame
<1>18. m + 1 \in Nat BY <1>2
<1> QED BY <1>10, <1>14, <1>16, <1>17, <1>18 DEF Ranked, r2

(* A block that is put in its list leaves the others as they were.         *)
LEMMA InsertFree ==
  ASSUME NEW h, NEW B, Tiled(h, B), NEW F, F \subseteq B, Lists(h, F),
         NEW b \in B \ F, NEW w, w = insert_free_block(h, b)
  PROVE  LinksOnly(h, w, F \cup {b}) /\ Lists(w, F \cup {b})
<1>1. PICK m, r : Ranked(h, F, r, m) BY DEF Lists
<1> DEFINE r2 == InFront(r, b)
           m2 == m + 1
<1>2. CASE get_size(h, b) = 16
  <2>1. w = insert_mini_block(h, b) BY <1>2 DEF insert_free_block
  <2>2. LinksOnly(h, w, F \cup {b}) /\ Ranked(w, F \cup {b}, r2, m2) BY <1>1, <1>2, <2>1, InsertMini
  <2> HIDE DEF r2, m2
  <2> QED BY <2>2 DEF Lists
<1>3. CASE get_size(h, b) # 16
  <2>1. w = insert_first(h, b, class(h, b)) BY <1>3 DEF insert_free_block, class
  <2>2. LinksOnly(h, w, F \cup {b}) /\ Ranked(w, F \cup {b}, r2, m2) BY <1>1, <1>3, <2>1, InsertOther
  <2> HIDE DEF r2, m2
  <2> QED BY <2>2 DEF Lists
<1> QED BY <1>2, <1>3

-----------------------------------------------------------------------------
(* The search for a block.                                                 *)

(* What first_fit finds.                                                   *)
LEMMA FitIs ==
  ASSUME NEW h, NEW first, first # 0, NEW asize
  PROVE  \E f : /\ first_fit(h, first, asize) = f[first]
                /\ \A c \in Addr :
                      f[c] = IF asize <= get_size(h, c) THEN c
                             ELSE IF find_free_block_next(h, c) \in Addr \ {0}
                                  THEN f[find_free_block_next(h, c)] ELSE 0
<1> DEFINE IsFit(f) ==
             f = [block \in Addr |->
                    IF asize <= get_size(h, block) THEN block
                    ELSE IF find_free_block_next(h, block) \in Addr \ {NULL}
                         THEN f[find_free_block_next(h, block)] ELSE NULL]
           fit == CHOOSE f : IsFit(f)
<1>1. first_fit(h, first, asize) = fit[first]
  BY Zenon DEF first_fit
<1>2. \E f : IsFit(f)
  <2> DEFINE fits(c) == asize <= get_size(h, c)
  <2> HIDE DEF fits
  <2> DEFINE stop == {c \in Addr : fits(c) \/ find_free_block_next(h, c) \notin Addr \ {0}}
             nx == [c \in Addr |-> IF c \in stop THEN c ELSE find_free_block_next(h, c)]
             out == [c \in Addr |-> IF fits(c) THEN c ELSE 0]
  <2>1. nx \in [Addr -> Addr] /\ stop \in SUBSET Addr OBVIOUS
  <2>2. \A c \in Addr : /\ c \in stop <=> fits(c) \/ find_free_block_next(h, c) \notin Addr \ {0}
                        /\ c \notin stop => nx[c] = find_free_block_next(h, c)
                        /\ out[c] = IF fits(c) THEN c ELSE 0
    OBVIOUS
  <2> HIDE DEF stop, nx, out
  <2>3. PICK f : Walked(f, Addr, nx, stop, out)
    BY <2>1, Walk
  <2>4. f = [p \in Addr |-> IF p \in stop THEN out[p] ELSE f[nx[p]]]
    BY <2>3 DEF Walked
  <2>5. \A c \in Addr :
           (IF c \in stop THEN out[c] ELSE f[nx[c]]) =
              IF fits(c) THEN c
              ELSE IF find_free_block_next(h, c) \in Addr \ {NULL}
                   THEN f[find_free_block_next(h, c)] ELSE NULL
    BY <2>2
  <2> DEFINE u == [p \in Addr |-> IF p \in stop THEN out[p] ELSE f[nx[p]]]
             v == [c \in Addr |->
                     IF fits(c) THEN c
                     ELSE IF find_free_block_next(h, c) \in Addr \ {NULL}
                          THEN f[find_free_block_next(h, c)] ELSE NULL]
  <2>6. u = v BY <2>5
  <2>7. f = v BY <2>4, <2>6
  <2> QED BY <2>7 DEF fits
<1>3. IsFit(fit)
  <2> HIDE DEF IsFit
  <2> QED BY <1>2, Zenon
<1> HIDE DEF fit
<1>4. \A c \in Addr :
         fit[c] = IF asize <= get_size(h, c) THEN c
                  ELSE IF find_free_block_next(h, c) \in Addr \ {0}
                       THEN fit[find_free_block_next(h, c)] ELSE 0
  BY <1>3
<1> QED BY <1>1, <1>4

(* The search of one list.                                                 *)
LEMMA FirstFit ==
  ASSUME NEW h, NEW B, Tiled(h, B), NEW F, F \subseteq B, NEW r, NEW m, Ranked(h, F, r, m),
         NEW i \in Roots, NEW asize \in Nat,
         NEW x, x = first_fit(h, h.free_roots[i], asize)
  PROVE  /\ x = 0 => \A b \in Others(h, F) : class(h, b) = i => get_size(h, b) < asize
         /\ x # 0 => x \in Others(h, F) /\ class(h, x) = i /\ get_size(h, x) >= asize
<1> DEFINE O == Others(h, F)
           C == {b \in O : class(h, b) = i}
           nx(c) == find_free_block_next(h, c)
           o == h.free_roots[i]
<1>1. FreeLists(h, F, r) /\ m \in Nat /\ r \in [Addr -> 0 .. m] BY DEF Ranked
<1>2. \A c \in O : c \in Addr /\ c # 0 /\ get_size(h, c) \in Nat BY Far DEF Others
<1>3. o = 0 \/ o \in C BY <1>1 DEF FreeLists
<1>4. \A c \in C : nx(c) = 0 \/ (nx(c) \in C /\ r[c] < r[nx(c)]) BY <1>1 DEF FreeLists
<1>5. \A c \in C : c = o \/ \E d \in C : nx(d) = c /\ r[d] < r[c]
  <2> TAKE c \in C
  <2> DEFINE d == find_free_block_prev(h, c)
  <2>1. c = o \/ (d \in O /\ nx(d) = c) BY <1>1 DEF FreeLists
  <2> SUFFICES ASSUME d \in O, nx(d) = c PROVE d \in C /\ r[d] < r[c] BY <2>1
  <2>2. c # 0 BY <1>2
  <2> QED BY <2>2, <1>1 DEF FreeLists
<1>6. C \subseteq Addr /\ \A c \in C : r[c] \in Nat BY <1>1, <1>2
<1>7. CASE o = 0
  <2>1. x = 0 BY <1>7 DEF first_fit
  <2>2. C = {}
    <3> SUFFICES ASSUME C # {} PROVE FALSE OBVIOUS
    <3> HIDE DEF C
    <3>1. PICK c \in C : \A d \in C : ~(r[d] < r[c]) BY <1>1, <1>6, LeastRank
    <3> QED BY <3>1, <1>2, <1>5, <1>7 DEF C
  <2> QED BY <2>1, <2>2
<1>8. CASE o # 0
  <2>0. o \in C BY <1>3, <1>8
  <2>1. PICK f : /\ x = f[o]
                 /\ \A c \in Addr : f[c] = IF asize <= get_size(h, c) THEN c
                                           ELSE IF nx(c) \in Addr \ {0} THEN f[nx(c)] ELSE 0
    BY <1>8, FitIs
  <2>2. \A c \in C : f[c] = IF asize <= get_size(h, c) THEN c
                            ELSE IF nx(c) # 0 THEN f[nx(c)] ELSE 0
    BY <2>1, <1>2, <1>4
  <2>3. ASSUME NEW c \in C, f[c] # 0 PROVE f[c] \in C /\ asize <= get_size(h, f[c])
    <3> DEFINE S == {d \in C : f[d] # 0 /\ ~(f[d] \in C /\ asize <= get_size(h, f[d]))}
    <3> SUFFICES ASSUME S # {} PROVE FALSE BY <2>3
    <3>1. S \subseteq Addr BY <1>6
    <3> HIDE DEF S
    <3>2. PICK d \in S : \A e \in S : ~(r[d] < r[e]) BY <3>1, <1>1, LeastRank
    <3>3. d \in C /\ f[d] # 0 /\ ~(f[d] \in C /\ asize <= get_size(h, f[d])) BY <3>2 DEF S
    <3> HIDE DEF C
    <3>4. ~(asize <= get_size(h, d)) BY <3>3, <2>2
    <3>5. nx(d) # 0 /\ f[d] = f[nx(d)] BY <3>3, <3>4, <2>2
    <3>6. nx(d) \in C /\ r[d] < r[nx(d)] BY <3>3, <3>5, <1>4
    <3>7. nx(d) \in S BY <3>3, <3>5, <3>6 DEF S
    <3> QED BY <3>2, <3>6, <3>7
  <2>4. ASSUME x = 0, NEW c \in C PROVE f[c] = 0
    <3> DEFINE S == {d \in C : f[d] # 0}
    <3> SUFFICES ASSUME S # {} PROVE FALSE OBVIOUS
    <3>1. S \subseteq Addr BY <1>6
    <3> HIDE DEF S
    <3>2. PICK d \in S : \A e \in S : ~(r[e] < r[d]) BY <3>1, <1>1, LeastRank
    <3>3. d \in C /\ f[d] # 0 BY <3>2 DEF S
    <3>4. d # o BY <3>3, <2>1, <2>4
    <3>5. PICK e \in C : nx(e) = d /\ r[e] < r[d] BY <3>3, <3>4, <1>5
    <3>6. d # 0 /\ e # 0 BY <3>3, <3>5, <1>2
    <3> HIDE DEF C
    <3>7. f[e] # 0
      <4>1. f[e] = IF asize <= get_size(h, e) THEN e ELSE IF nx(e) # 0 THEN f[nx(e)] ELSE 0
        BY <2>2
      <4> QED BY <4>1, <3>3, <3>5, <3>6
    <3> QED BY <3>2, <3>5, <3>7 DEF S
  <2>5. ASSUME x = 0, NEW c \in C PROVE get_size(h, c) < asize
    <3>1. f[c] = 0 /\ c # 0 BY <2>4, <2>5, <1>2
    <3>2. ~(asize <= get_size(h, c)) BY <3>1, <2>2
    <3>3. get_size(h, c) \in Nat BY <1>2
    <3> QED BY <3>2, <3>3
  <2>6. x # 0 => x \in C /\ get_size(h, x) >= asize
    <3>1. x # 0 => x \in C /\ asize <= get_size(h, x) BY <2>0, <2>1, <2>3
    <3>2. x # 0 => get_size(h, x) \in Nat BY <3>1, <1>2
    <3> QED BY <3>1, <3>2
  <2> QED BY <2>5, <2>6
<1> QED BY <1>7, <1>8

(* A class has no larger sizes than the next one.                          *)
LEMMA ClassGrows ==
  ASSUME NEW s \in Nat, NEW t \in Nat, s <= t
  PROVE  search_root_index(s) <= search_root_index(t)
<1> DEFINE i == search_root_index(t)
           j == search_root_index(s)
<1>1. i \in Roots /\ in_class(t, i) /\ j \in Roots /\ \A k \in 0 .. j - 1 : ~in_class(s, k)
  BY ClassIs
<1> HIDE DEF i, j
<1>2. i \in Nat /\ j \in Nat /\ 2 ^ i \in Nat /\ NUM_ROOTS \in Nat BY <1>1, MmAssumption DEF Roots
<1>3. in_class(s, i)
  <2> DEFINE p == 2 ^ i
  <2>1. p \in Nat BY <1>2
  <2>2. i = NUM_ROOTS - 1 \/ max(t, 32) <= 32 * p BY <1>1 DEF in_class
  <2> HIDE DEF p
  <2>3. i = NUM_ROOTS - 1 \/ max(s, 32) <= 32 * p
    BY <2>1, <2>2 DEF max
  <2> QED BY <2>3 DEF in_class, p
<1>4. i \notin 0 .. j - 1 BY <1>1, <1>3
<1> QED BY <1>2, <1>4 DEF i, j

(* The search of all lists: a block that is large enough, if there is one. *)
LEMMA FindFit ==
  ASSUME NEW h, NEW B, Tiled(h, B), NEW F, F \subseteq B, Lists(h, F), NEW asize \in Nat,
         NEW x, x = find_fit(h, asize)
  PROVE  /\ x = 0 => \A b \in Others(h, F) : get_size(h, b) < asize
         /\ x # 0 => x \in F /\ get_size(h, x) >= asize
<1>1. PICK m, r : Ranked(h, F, r, m) BY DEF Lists
<1> DEFINE k == search_root_index(asize)
           fit(i) == first_fit(h, h.free_roots[i], asize)
           fitting == {i \in k .. NUM_ROOTS - 1 : fit(i) # NULL}
           index == CHOOSE i \in fitting : \A j \in fitting : i <= j
<1>2. x = IF fitting = {} THEN NULL ELSE fit(index)
  BY DEF find_fit
<1>3. k \in Roots BY ClassIs
<1>4. NUM_ROOTS \in Nat BY MmAssumption
<1>5. fitting \subseteq Roots /\ fitting \subseteq Nat BY <1>3, <1>4 DEF Roots
<1>6. \A i \in Roots :
         /\ fit(i) = 0 => \A b \in Others(h, F) : class(h, b) = i => get_size(h, b) < asize
         /\ fit(i) # 0 => fit(i) \in Others(h, F) /\ get_size(h, fit(i)) >= asize
  BY <1>1, FirstFit
<1> HIDE DEF k, fit
<1>7. CASE fitting = {}
  <2>1. x = 0 BY <1>2, <1>7
  <2>2. \A i \in Roots : k <= i => fit(i) = 0 BY <1>7, <1>3, <1>4 DEF Roots
  <2>3. ASSUME NEW b \in Others(h, F) PROVE get_size(h, b) < asize
    <3> SUFFICES ASSUME ~(get_size(h, b) < asize) PROVE FALSE OBVIOUS
    <3>1. b \in B BY DEF Others
    <3>2. get_size(h, b) \in Nat BY <3>1, Far
    <3>3. class(h, b) \in Roots BY <3>2, ClassIs DEF class
    <3>4. asize <= get_size(h, b) BY <3>2
    <3>5. k <= class(h, b) BY <3>2, <3>4, ClassGrows DEF k, class
    <3>6. fit(class(h, b)) = 0 BY <2>2, <3>3, <3>5
    <3> QED BY <3>3, <3>6, <1>6
  <2> QED BY <2>1, <2>3
<1>8. CASE fitting # {}
  <2> HIDE DEF fitting
  <2>1. \E i \in fitting : \A j \in fitting : i <= j BY <1>5, <1>8, LeastNat
  <2>2. index \in fitting BY <2>1
  <2> HIDE DEF index
  <2>3. index \in Roots /\ fit(index) # 0 /\ x = fit(index)
    BY <2>2, <1>2, <1>5, <1>8 DEF fitting
  <2>4. x \in Others(h, F) /\ get_size(h, x) >= asize BY <2>3, <1>6
  <2> QED BY <2>3, <2>4 DEF Others
<1> QED BY <1>7, <1>8

-----------------------------------------------------------------------------
(* A good heap, and the neighbours of a block.                             *)

(* No two free blocks are neighbours, but for x.                           *)
Apart(h, B, x) ==
  \A b \in B : b # x /\ find_next(h, b) # x => get_alloc(h, b) \/ get_alloc(h, find_next(h, b))

(* The footer of a free block is its header, but for y.                    *)
Whole(h, B, y) ==
  \A b \in B : ~get_alloc(h, b) /\ get_size(h, b) # 16 /\ b # y =>
                  h.mem[header_to_footer(h, b)] = h.mem[b]

(* The inductive invariant of the heap: blocks tile it, no two free ones   *)
(* are neighbours, the footers are right and the lists have exactly the    *)
(* free blocks. Each half needs the other: coalescing finds the block      *)
(* before by the flags and the footer and removes it from a list where it  *)
(* must be, and what the lists hand out must be a block.                   *)
Good(h, B) ==
  Tiled(h, B) /\ Apart(h, B, 0) /\ Whole(h, B, 0) /\ Lists(h, FreeIn(h, B))

(* Two heaps with the same blocks.                                         *)
Alike(h, w, B) ==
  /\ w.brk = h.brk /\ End(w) = End(h) /\ SameTiles(h, w, B)
  /\ \A c \in B \cup {End(h)} :
        /\ get_size(w, c) = get_size(h, c) /\ get_alloc(w, c) = get_alloc(h, c)
        /\ get_prev_alloc(w, c) = get_prev_alloc(h, c)
        /\ get_prev_mini(w, c) = get_prev_mini(h, c)
        /\ find_next(w, c) = find_next(h, c)
        /\ header_to_footer(w, c) = header_to_footer(h, c)
  /\ FreeIn(w, B) = FreeIn(h, B) /\ HeldIn(w, B) = HeldIn(h, B)

(* Writing links leaves the blocks as they are.                            *)
LEMMA LinksAlike ==
  ASSUME NEW h, NEW B, Tiled(h, B), NEW F, F \subseteq B, NEW w, LinksOnly(h, w, F)
  PROVE  Tiled(w, B) /\ Alike(h, w, B) /\ Kept(h, w, B \ F)
<1>1. SameTiles(h, w, B) /\ Kept(h, w, B \ F) BY LinksKeep
<1>2. w \in Heap /\ w.brk = h.brk /\ w.heap_start = h.heap_start BY DEF LinksOnly
<1>3. /\ Tiled(w, B) /\ End(w) = End(h)
      /\ \A c \in B \cup {End(h)} :
            /\ get_size(w, c) = get_size(h, c) /\ get_alloc(w, c) = get_alloc(h, c)
            /\ get_prev_alloc(w, c) = get_prev_alloc(h, c)
            /\ get_prev_mini(w, c) = get_prev_mini(h, c)
            /\ find_next(w, c) = find_next(h, c)
            /\ header_to_footer(w, c) = header_to_footer(h, c)
      /\ FreeIn(w, B) = FreeIn(h, B) /\ HeldIn(w, B) = HeldIn(h, B)
  BY <1>1, <1>2, SameTiled
<1> QED BY <1>1, <1>2, <1>3 DEF Alike

(* Heaps with the same blocks as a third one have the same blocks.         *)
LEMMA AlikeTrans ==
  ASSUME NEW h, NEW v, NEW w, NEW B, Alike(h, v, B), Alike(v, w, B)
  PROVE  Alike(h, w, B)
BY DEF Alike, SameTiles

(* What two steps keep is kept by both together.                           *)
LEMMA KeptTrans ==
  ASSUME NEW h, NEW v, NEW w, NEW S, NEW T, NEW U, Kept(h, v, S), Kept(v, w, T),
         U \subseteq S, U \subseteq T
  PROVE  Kept(h, w, U)
BY DEF Kept

(* Whether free blocks are apart and have their footers depends on the     *)
(* blocks.                                                                 *)
LEMMA AlikeApart ==
  ASSUME NEW h, NEW w, NEW B, Tiled(h, B), Alike(h, w, B), NEW x, NEW y
  PROVE  /\ Apart(h, B, x) => Apart(w, B, x)
         /\ Whole(h, B, y) => Whole(w, B, y)
<1>1. \A b \in B : find_next(h, b) \in B \cup {End(h)} BY DEF Tiled, Shape
<1>2. Apart(h, B, x) => Apart(w, B, x) BY <1>1 DEF Apart, Alike
<1>3. Whole(h, B, y) => Whole(w, B, y) BY DEF Whole, Alike, SameTiles
<1> QED BY <1>2, <1>3

(* The block before, if it is free.                                        *)
LEMMA PrevIs ==
  ASSUME NEW h, NEW B, Tiled(h, B), NEW x \in B,
         NEW p, p = IF get_prev_alloc(h, x) THEN NULL ELSE find_prev(h, x)
  PROVE  \/ p = 0 /\ \A b \in B : find_next(h, b) = x => get_alloc(h, b)
         \/ p \in B /\ ~get_alloc(h, p) /\ find_next(h, p) = x
<1>1. Shape(h, B) /\ Flags(h, B) /\ Feet(h, B) BY DEF Tiled
<1>2. CASE get_prev_alloc(h, x)
  BY <1>1, <1>2 DEF Flags
<1>3. CASE ~get_prev_alloc(h, x)
  <2>1. x # 8 BY <1>1, <1>3 DEF Flags
  <2>2. PICK b \in B : find_next(h, b) = x BY <2>1, <1>1 DEF Shape
  <2>3. get_alloc(h, b) = get_prev_alloc(h, x) /\ get_prev_mini(h, x) = (get_size(h, b) = 16)
    BY <1>1, <2>2 DEF Flags
  <2>4. ~get_alloc(h, b) BY <2>3, <1>3
  <2>5. p = find_prev(h, x) BY <1>3
  <2>6. /\ b \in Nat /\ x \in Nat /\ x = b + get_size(h, b) /\ get_size(h, b) \in Nat
        /\ get_size(h, b) >= 16 /\ b + 16 <= End(h) /\ End(h) \in Nat /\ h.brk \in Nat /\ End(h) = h.brk - 8
    BY <1>1, <2>2, BlockIs, EndIs, AddrIs
  <2>7. CASE get_size(h, b) = 16
    <3>1. get_prev_mini(h, x) BY <2>3, <2>7
    <3>2. x - 16 = b BY <2>6, <2>7
    <3>3. is_in_heap_boundary(h, b)
      BY <2>6 DEF is_in_heap_boundary
    <3>4. find_prev(h, x) = b BY <3>1, <3>2, <3>3, <1>3 DEF find_prev
    <3> QED BY <3>4, <2>2, <2>4, <2>5
  <2>8. CASE get_size(h, b) # 16
    <3>1. ~get_prev_mini(h, x) BY <2>3, <2>8
    <3>2. header_to_footer(h, b) = x - 8 BY <1>1, <2>2, FootIs
    <3>3. extract_size(h.mem[x - 8]) = get_size(h, b)
      BY <3>2, <2>4, <2>8, <1>1 DEF Feet
    <3>4. footer_to_header(h, x - 8) = b
      BY <3>3, <2>6 DEF footer_to_header
    <3>5. get_size(h, b) # 0 BY <2>6
    <3>6. find_prev(h, x) = b BY <3>1, <3>3, <3>4, <3>5, <1>3 DEF find_prev
    <3> QED BY <3>6, <2>2, <2>4, <2>5
  <2> QED BY <2>7, <2>8
<1> QED BY <1>2, <1>3

(* The block after, if it is free.                                         *)
LEMMA NextIs ==
  ASSUME NEW h, NEW B, Tiled(h, B), NEW x \in B, NEW n, n = find_next(h, x),
         NEW q, q = IF get_size(h, n) = 0 \/ get_alloc(h, n) THEN NULL ELSE n
  PROVE  \/ q = 0 /\ get_alloc(h, n)
         \/ q = n /\ n \in B /\ ~get_alloc(h, n)
<1>1. Shape(h, B) BY DEF Tiled
<1>2. n \in B \/ n = End(h) BY <1>1 DEF Shape
<1>3. n \in B => get_size(h, n) # 0
  <2>1. n \in B => get_size(h, n) >= 16 /\ get_size(h, n) \in Nat BY <1>1, BlockIs
  <2> QED BY <2>1
<1>4. get_alloc(h, End(h)) BY EndHeader
<1> QED BY <1>2, <1>3, <1>4

(* remove_if_any takes a block out of its list, or does nothing.           *)
LEMMA RemoveAny ==
  ASSUME NEW h, NEW B, Tiled(h, B), NEW F, F \subseteq B, Lists(h, F),
         NEW b, b = 0 \/ b \in F, NEW w, w = remove_if_any(h, b)
  PROVE  Tiled(w, B) /\ Alike(h, w, B) /\ Kept(h, w, B \ F) /\ Lists(w, F \ {b})
<1>1. 0 \notin B
  <2>1. \A c \in B : c # 0 BY Far
  <2> QED BY <2>1
<1>2. CASE b = 0
  <2>1. w = h BY <1>2 DEF remove_if_any
  <2>2. F \ {b} = F BY <1>1, <1>2
  <2> QED BY <2>1, <2>2 DEF Alike, SameTiles, Kept
<1>3. CASE b # 0
  <2>1. w = remove_free_block(h, b) /\ b \in F BY <1>3 DEF remove_if_any
  <2>2. LinksOnly(h, w, F) /\ Lists(w, F \ {b}) BY <2>1, RemoveFree
  <2> QED BY <2>2, LinksAlike
<1> QED BY <1>2, <1>3

-----------------------------------------------------------------------------
(* Coalescing.                                                             *)

(* A heap in which x is a free block that is in no list yet.               *)
Loose(h, B, x) ==
  /\ Tiled(h, B) /\ x \in B /\ ~get_alloc(h, x) /\ Lists(h, FreeIn(h, B) \ {x})

(* A free block and the free blocks on both sides of it become one.        *)
LEMMA Coalesce ==
  ASSUME NEW h, NEW B, NEW x, Loose(h, B, x), Apart(h, B, x), Whole(h, B, find_next(h, x)),
         NEW c, c = coalesce_block(h, x)
  PROVE  \E B2 : /\ Loose(c.heap, B2, c.block) /\ Apart(c.heap, B2, 0) /\ Whole(c.heap, B2, 0)
                 /\ HeldIn(c.heap, B2) = HeldIn(h, B) /\ Kept(h, c.heap, HeldIn(h, B))
                 /\ c.heap.brk = h.brk /\ get_size(c.heap, c.block) >= get_size(h, x)
<1> DEFINE n == find_next(h, x)
           p == IF get_prev_alloc(h, x) THEN NULL ELSE find_prev(h, x)
           q == IF get_size(h, n) = 0 \/ get_alloc(h, n) THEN NULL ELSE n
           F == FreeIn(h, B) \ {x}
           h1 == remove_if_any(h, p)
           h2 == remove_if_any(h1, q)
           start == IF p = NULL THEN x ELSE p
           size == size_or_0(h, p) + get_size(h, x) + size_or_0(h, q)
           w == rewrite_block(h2, start, size, FALSE)
           e == IF q = NULL THEN n ELSE find_next(h, q)
<1>1. c = [heap |-> w, block |-> start]
  BY DEF coalesce_block, coalesce_with, merge
<1>2. /\ Tiled(h, B) /\ x \in B /\ ~get_alloc(h, x) /\ Lists(h, F)
      /\ Shape(h, B)
  BY DEF Loose, Tiled
<1>3. /\ x \in Nat /\ x # 0 /\ n \in Nat /\ n = x + get_size(h, x) /\ get_size(h, x) \in Nat
      /\ get_size(h, x) >= 16 /\ n \in B \cup {End(h)} /\ x < n
  BY <1>2, BlockIs, Far
<1>4. \/ p = 0 /\ \A b \in B : find_next(h, b) = x => get_alloc(h, b)
      \/ p \in B /\ ~get_alloc(h, p) /\ find_next(h, p) = x
  BY <1>2, PrevIs
<1>5. \/ q = 0 /\ get_alloc(h, n)
      \/ q = n /\ n \in B /\ ~get_alloc(h, n)
  BY <1>2, NextIs
<1> HIDE DEF p, q, h1, h2, w, F, n
<1>6. p # 0 => /\ p \in B /\ ~get_alloc(h, p) /\ p \in Nat /\ p < x /\ x = p + get_size(h, p)
               /\ get_size(h, p) \in Nat
  <2> SUFFICES ASSUME p # 0 PROVE p \in B /\ ~get_alloc(h, p) /\ p \in Nat /\ p < x /\ x = p + get_size(h, p)
               /\ get_size(h, p) \in Nat
    OBVIOUS
  <2>1. p \in B /\ ~get_alloc(h, p) /\ find_next(h, p) = x BY <1>4
  <2>2. p \in Nat /\ p + 16 <= x /\ x = p + get_size(h, p) /\ get_size(h, p) \in Nat
    BY <2>1, <1>2, BlockIs
  <2> QED BY <2>1, <2>2, <1>3
<1>7. q # 0 => /\ q = n /\ n \in B /\ ~get_alloc(h, n) /\ n < e /\ e = n + get_size(h, n)
               /\ get_size(h, n) \in Nat /\ e \in Nat /\ e \in B \cup {End(h)}
  <2> SUFFICES ASSUME q # 0 PROVE q = n /\ n \in B /\ ~get_alloc(h, n) /\ n < e /\ e = n + get_size(h, n)
               /\ get_size(h, n) \in Nat /\ e \in Nat /\ e \in B \cup {End(h)}
    OBVIOUS
  <2>1. q = n /\ n \in B /\ ~get_alloc(h, n) /\ e = find_next(h, n) BY <1>5
  <2>2. find_next(h, n) = n + get_size(h, n) /\ get_size(h, n) \in Nat /\ n + 16 <= find_next(h, n)
        /\ find_next(h, n) \in Nat /\ find_next(h, n) \in B \cup {End(h)}
    BY <2>1, <1>2, BlockIs
  <2> QED BY <2>1, <2>2, <1>3
<1>8. q = 0 => e = n /\ get_alloc(h, n)
  <2>1. q = 0 => e = n OBVIOUS
  <2>2. \A b \in B : b # 0 BY <1>2, Far
  <2> QED BY <2>1, <2>2, <1>5
<1>9. /\ start \in B /\ start \in Nat /\ start <= x /\ ~get_alloc(h, start)
      /\ p = 0 => start = x
      /\ p # 0 => start = p
  BY <1>2, <1>3, <1>6
<1>10. e \in Nat /\ e \in B \cup {End(h)} /\ n <= e /\ start < e
  BY <1>3, <1>7, <1>8, <1>9
<1>11. size = e - start /\ e - start >= get_size(h, x)
  BY <1>3, <1>6, <1>7, <1>8, <1>9 DEF size_or_0
<1> HIDE DEF size, start, e
<1>12. F \subseteq B /\ x \notin F /\ p \in {0} \cup F /\ q \in {0} \cup F /\ (p # q \/ p = 0)
       /\ 0 \notin B
  <2>1. F \subseteq B /\ x \notin F BY DEF F, FreeIn
  <2>2. p # 0 => p \in F BY <1>3, <1>6 DEF F, FreeIn
  <2>3. q # 0 => q \in F BY <1>3, <1>7 DEF F, FreeIn
  <2>4. p # 0 /\ q # 0 => p # q BY <1>3, <1>6, <1>7
  <2>5. \A b \in B : b # 0 BY <1>2, Far
  <2> QED BY <2>1, <2>2, <2>3, <2>4, <2>5
<1>13. /\ Tiled(h1, B) /\ Alike(h, h1, B) /\ Kept(h, h1, B \ F) /\ Lists(h1, F \ {p})
  BY <1>2, <1>12, RemoveAny DEF h1
<1> DEFINE F1 == F \ {p}
<1>14. /\ Tiled(h2, B) /\ Alike(h1, h2, B) /\ Kept(h1, h2, B \ F1) /\ Lists(h2, F1 \ {q})
  <2>1. F1 \subseteq B /\ Lists(h1, F1) /\ (q = 0 \/ q \in F1) BY <1>12, <1>13
  <2> HIDE DEF F1
  <2> QED BY <1>13, <2>1, RemoveAny DEF h2
<1>15. Alike(h, h2, B) /\ Kept(h, h2, B \ F)
  BY <1>13, <1>14, AlikeTrans, KeptTrans
<1> DEFINE B2 == {b \in B : b <= start \/ e <= b}
<1>16. /\ Tiled(w, B2) /\ w.brk = h2.brk /\ SameRoots(h2, w) /\ End(w) = End(h2)
       /\ start \in B2 /\ e \in B2 \cup {End(h2)}
       /\ get_size(w, start) = e - start /\ get_alloc(w, start) = FALSE /\ find_next(w, start) = e
       /\ Kept(h2, w, B2 \ {start})
       /\ \A d \in B2 \ {start, e} : w.mem[d] = h2.mem[d]
       /\ e - start # 16 => w.mem[header_to_footer(w, start)] = w.mem[start]
  <2> DEFINE al == FALSE
  <2>1. End(h2) = End(h) BY <1>15 DEF Alike
  <2>2. e \in B \cup {End(h2)} /\ start \in B BY <2>1, <1>9, <1>10
  <2>3. w = write_block(h2, start, e - start, get_prev_mini(h2, start), get_prev_alloc(h2, start), al)
    BY <1>11 DEF w, rewrite_block
  <2>4. al \in BOOLEAN /\ ~al OBVIOUS
  <2> HIDE DEF al
  <2>5. start < e /\ B2 = {b \in B : b <= start \/ e <= b} BY <1>10
  <2> HIDE DEF B2
  <2>6. Retiled(h2, w, start, e, al, B2)
    BY <1>14, <2>2, <2>3, <2>4, <2>5, Retile
  <2> QED BY <2>4, <2>6 DEF al, Retiled
<1>17. B2 \ {start} = B \ {x, p, q}
  <2>1. ASSUME NEW b \in B, ~(b <= start), ~(e <= b) PROVE b = x \/ b = q
    <3>1. b \in Nat /\ start < b /\ b < e BY <2>1, <1>2, <1>9, <1>10, BlockIs
    <3>2. x <= b
      <4>1. CASE p = 0 BY <4>1, <3>1, <1>3, <1>9
      <4>2. CASE p # 0
        <5>1. p < b /\ find_next(h, p) = x BY <4>2, <3>1, <1>4, <1>9, <1>12
        <5> QED BY <5>1, <4>2, <1>2, <1>6, NoneInside
      <4> QED BY <4>1, <4>2
    <3>3. CASE b = x BY <3>3
    <3>4. CASE b # x
      <4>1. n <= b
        <5>1. x < b BY <3>1, <3>2, <3>4, <1>3
        <5> QED BY <5>1, <1>2, NoneInside DEF n
      <4>2. q # 0 BY <4>1, <3>1, <1>3, <1>8
      <4>3. b = n
        <5> SUFFICES ASSUME b # n PROVE FALSE OBVIOUS
        <5>1. n < b BY <4>1, <3>1, <1>3
        <5>2. find_next(h, n) <= b BY <5>1, <4>2, <1>2, <1>7, NoneInside
        <5>3. find_next(h, n) = e BY <4>2, <1>7 DEF e
        <5> QED BY <5>2, <5>3, <3>1, <1>10
      <4> QED BY <4>2, <4>3, <1>7
    <3> QED BY <3>3, <3>4
  <2>2. x \in B2 => x = start
    BY <1>3, <1>9, <1>10
  <2>3. q \in B2 => FALSE
    BY <1>3, <1>7, <1>9, <1>10, <1>12
  <2>4. p \in B2 => p = start
    BY <1>9, <1>12
  <2>5. start = x \/ start = p BY <1>9
  <2> QED BY <2>1, <2>2, <2>3, <2>4, <2>5
<1> HIDE DEF B2
<1> DEFINE R == B \ {x, p, q}
<1>18. \A b \in B : /\ get_size(h2, b) = get_size(h, b) /\ get_alloc(h2, b) = get_alloc(h, b)
                    /\ find_next(h2, b) = find_next(h, b)
                    /\ header_to_footer(h2, b) = header_to_footer(h, b)
                    /\ h2.mem[b] = h.mem[b]
                    /\ ~get_alloc(h, b) /\ get_size(h, b) # 16 =>
                          h2.mem[header_to_footer(h, b)] = h.mem[header_to_footer(h, b)]
  BY <1>15 DEF Alike, SameTiles
<1>19. Kept(h2, w, R) BY <1>16, <1>17
<1>20. \A b \in R : /\ get_size(w, b) = get_size(h, b) /\ get_alloc(w, b) = get_alloc(h, b)
                    /\ find_next(w, b) = find_next(h, b)
  BY <1>18, <1>19 DEF Kept
<1>21. FreeIn(w, B2) \ {start} = F \ {p, q} /\ HeldIn(w, B2) = HeldIn(h, B) /\ B2 = R \cup {start}
  <2>1. B2 = R \cup {start} BY <1>16, <1>17
  <2>2. \A b \in {x, p, q} : b \in B => ~get_alloc(h, b) BY <1>2, <1>6, <1>7, <1>12
  <2>3. start \notin R BY <1>9
  <2>4. HeldIn(w, B2) = HeldIn(h, B)
    BY <2>1, <2>2, <1>16, <1>20 DEF HeldIn
  <2>5. FreeIn(w, B2) \ {start} = F \ {p, q}
    BY <2>1, <2>3, <1>20 DEF FreeIn, F
  <2> QED BY <2>1, <2>4, <2>5
<1>22. Lists(w, FreeIn(w, B2) \ {start})
  <2> DEFINE G == F \ {p, q}
  <2>1. G \subseteq B /\ G \subseteq R /\ G = F1 \ {q} BY <1>12
  <2>2. Lists(h2, G) BY <2>1, <1>14
  <2>3. Kept(h2, w, G) BY <2>1, <1>19 DEF Kept
  <2> HIDE DEF G
  <2>4. Lists(w, G) BY <2>1, <2>2, <2>3, <1>14, <1>16, ListsKept
  <2> QED BY <2>4, <1>21 DEF G
<1>23. Kept(h, w, HeldIn(h, B))
  <2>1. HeldIn(h, B) \subseteq B \ F /\ HeldIn(h, B) \subseteq R
    BY <1>2, <1>6, <1>7, <1>12 DEF HeldIn, FreeIn, F
  <2> QED BY <2>1, <1>15, <1>19, KeptTrans
<1>24. get_alloc(w, e)
  <2>1. get_alloc(h, e)
    <3>1. CASE q = 0 BY <3>1, <1>8
    <3>2. CASE q # 0
      <4>1. n \in B /\ ~get_alloc(h, n) /\ find_next(h, n) = e /\ n # x /\ e # x
        BY <3>2, <1>3, <1>7 DEF e
      <4> QED BY <4>1 DEF Apart
    <3> QED BY <3>1, <3>2
  <2>2. CASE e = End(h2) BY <2>2, <1>16, EndHeader
  <2>3. CASE e # End(h2)
    <3>1. e \in B2 /\ e # start BY <2>3, <1>9, <1>10, <1>16
    <3>2. e \in R BY <3>1, <1>17
    <3> QED BY <3>2, <2>1, <1>20
  <2> QED BY <2>2, <2>3
<1>25. Apart(w, B2, 0)
  <2> SUFFICES ASSUME NEW b \in B2, ~get_alloc(w, b) PROVE get_alloc(w, find_next(w, b))
    BY DEF Apart
  <2>1. CASE b = start BY <2>1, <1>16, <1>24
  <2>2. CASE b # start
    <3>1. b \in R BY <2>2, <1>17
    <3> DEFINE d == find_next(h, b)
    <3>2. find_next(w, b) = d /\ ~get_alloc(h, b) /\ b \in B /\ b # x BY <3>1, <1>20
    <3>3. d \in B2 \cup {End(w)}
      <4>1. find_next(w, b) \in B2 \cup {End(w)} BY <1>16 DEF Tiled, Shape
      <4> QED BY <4>1, <3>2
    <3> HIDE DEF d
    <3>4. d # x \/ p # 0 BY <3>2, <1>4, <1>12 DEF d
    <3>5. d # start
      <4> SUFFICES ASSUME d = start PROVE FALSE OBVIOUS
      <4>1. p # 0 /\ start = p /\ p # x BY <3>4, <1>3, <1>6, <1>9
      <4>2. d # x /\ ~get_alloc(h, d) BY <4>1, <1>9
      <4> QED BY <4>2, <3>2 DEF Apart, d
    <3>6. CASE d = End(w) BY <3>6, <3>2, <1>16, EndHeader
    <3>7. CASE d \in B2
      <4>1. d \in R /\ d # x BY <3>5, <3>7, <1>17
      <4>2. get_alloc(h, d) BY <4>1, <3>2 DEF Apart, d
      <4> QED BY <4>1, <4>2, <3>2, <1>20
    <3> QED BY <3>3, <3>6, <3>7
  <2> QED BY <2>1, <2>2
<1>26. Whole(w, B2, 0)
  <2> SUFFICES ASSUME NEW b \in B2, ~get_alloc(w, b), get_size(w, b) # 16
               PROVE w.mem[header_to_footer(w, b)] = w.mem[b]
    BY DEF Whole
  <2>1. CASE b = start BY <2>1, <1>16
  <2>2. CASE b # start
    <3>1. b \in R BY <2>2, <1>17
    <3>2. b \in B /\ ~get_alloc(h, b) /\ get_size(h, b) # 16 BY <3>1, <1>20
    <3>3. b # e BY <1>24
    <3>4. w.mem[b] = h.mem[b] BY <3>2, <3>3, <2>2, <1>16, <1>18
    <3> DEFINE f == header_to_footer(h, b)
    <3>5. header_to_footer(w, b) = f BY <3>1, <1>20 DEF header_to_footer
    <3>6. f \in Addr /\ b < f /\ f < find_next(h, b) BY <3>2, <1>2, FootIs
    <3>7. w.mem[f] = h2.mem[f]
      <4>1. find_next(h2, b) = find_next(h, b) BY <3>2, <1>18
      <4> HIDE DEF f
      <4> QED BY <4>1, <3>1, <3>6, <1>19 DEF Kept
    <3>8. h2.mem[f] = h.mem[f] BY <3>2, <1>18
    <3>9. h.mem[f] = h.mem[b]
      <4>1. b # n
        <5>1. n \in B => get_alloc(h, n) \/ n = q BY <1>5
        <5> QED BY <5>1, <3>1, <3>2
      <4> QED BY <4>1, <3>2 DEF Whole, n
    <3> QED BY <3>4, <3>5, <3>7, <3>8, <3>9
  <2> QED BY <2>1, <2>2
<1>27. Loose(w, B2, start) BY <1>16, <1>22 DEF Loose
<1>28. w.brk = h.brk BY <1>15, <1>16 DEF Alike
<1>29. get_size(w, start) >= get_size(h, x) BY <1>11, <1>16
<1>30. c.heap = w /\ c.block = start BY <1>1
<1> QED BY <1>21, <1>23, <1>25, <1>26, <1>27, <1>28, <1>29, <1>30

-----------------------------------------------------------------------------
(* A block is given back.                                                  *)

(* A free block in no list, with no free neighbour, makes the heap good    *)
(* again once it is inserted.                                              *)
LEMMA Settle ==
  ASSUME NEW h, NEW B, NEW x, Loose(h, B, x), Apart(h, B, 0), Whole(h, B, 0),
         NEW w, w = insert_free_block(h, x)
  PROVE  Good(w, B) /\ Alike(h, w, B) /\ Kept(h, w, HeldIn(h, B))
<1> DEFINE F == FreeIn(h, B) \ {x}
           G == F \cup {x}
<1>1. Tiled(h, B) /\ x \in B /\ ~get_alloc(h, x) /\ Lists(h, F) BY DEF Loose
<1>2. F \subseteq B /\ x \in B \ F /\ G \subseteq B /\ G = FreeIn(h, B) BY <1>1 DEF FreeIn
<1> HIDE DEF F
<1>3. LinksOnly(h, w, G) /\ Lists(w, G) BY <1>1, <1>2, InsertFree
<1> HIDE DEF G
<1>4. Tiled(w, B) /\ Alike(h, w, B) /\ Kept(h, w, B \ G) BY <1>1, <1>2, <1>3, LinksAlike
<1>5. FreeIn(w, B) = G BY <1>2, <1>4 DEF Alike
<1>6. Apart(w, B, 0) /\ Whole(w, B, 0) BY <1>1, <1>4, AlikeApart
<1>7. HeldIn(h, B) \subseteq B \ G BY <1>2 DEF HeldIn, FreeIn
<1>8. Kept(h, w, HeldIn(h, B)) BY <1>4, <1>7 DEF Kept
<1> QED BY <1>3, <1>4, <1>5, <1>6, <1>8 DEF Good

(* A free block joins its free neighbours and gets into a list.            *)
Joined(h, w, x, H) ==
  \E B : /\ Good(w.heap, B) /\ HeldIn(w.heap, B) = H /\ Kept(h, w.heap, H) /\ w.heap.brk = h.brk
         /\ w.block \in FreeIn(w.heap, B) /\ get_size(w.heap, w.block) >= get_size(h, x)

(* Coalescing and then inserting makes the heap good.                      *)
LEMMA Join ==
  ASSUME NEW h, NEW B, NEW x, Loose(h, B, x), Apart(h, B, x), Whole(h, B, find_next(h, x)),
         NEW w, w = insert_coalesced(coalesce_block(h, x))
  PROVE  Joined(h, w, x, HeldIn(h, B))
<1> DEFINE c == coalesce_block(h, x)
           H == HeldIn(h, B)
           k == insert_free_block(c.heap, c.block)
<1>1. PICK B2 : /\ Loose(c.heap, B2, c.block) /\ Apart(c.heap, B2, 0) /\ Whole(c.heap, B2, 0)
                /\ HeldIn(c.heap, B2) = H /\ Kept(h, c.heap, H)
                /\ c.heap.brk = h.brk /\ get_size(c.heap, c.block) >= get_size(h, x)
  BY Coalesce
<1>2. w.heap = k /\ w.block = c.block BY DEF insert_coalesced
<1> HIDE DEF c
<1>3. Good(k, B2) /\ Alike(c.heap, k, B2) /\ Kept(c.heap, k, HeldIn(c.heap, B2))
  BY <1>1, Settle
<1> HIDE DEF k, H
<1>4. HeldIn(k, B2) = H BY <1>1, <1>3 DEF Alike
<1>5. Kept(h, k, H) BY <1>1, <1>3, KeptTrans
<1>6. c.block \in B2 /\ ~get_alloc(c.heap, c.block) BY <1>1 DEF Loose
<1>7. k.brk = c.heap.brk /\ get_size(k, c.block) = get_size(c.heap, c.block)
      /\ ~get_alloc(k, c.block)
  BY <1>3, <1>6 DEF Alike
<1>8. c.block \in FreeIn(k, B2) BY <1>6, <1>7 DEF FreeIn
<1> QED BY <1>1, <1>2, <1>3, <1>4, <1>5, <1>7, <1>8 DEF Joined, H

(* A block is marked, its size staying as it is.                           *)
LEMMA Mark ==
  ASSUME NEW h, NEW B, Tiled(h, B), NEW x \in B, NEW al \in BOOLEAN,
         NEW w, w = rewrite_block(h, x, get_size(h, x), al)
  PROVE  Retiled(h, w, x, find_next(h, x), al, B)
<1> DEFINE n == find_next(h, x)
<1>1. Shape(h, B) BY DEF Tiled
<1>2. /\ x \in Nat /\ n \in Nat /\ n = x + get_size(h, x) /\ x + 16 <= n /\ get_size(h, x) \in Nat
      /\ n \in B \cup {End(h)}
  BY <1>1, BlockIs
<1> HIDE DEF n
<1>3. get_size(h, x) = n - x /\ x < n BY <1>2
<1>4. w = write_block(h, x, n - x, get_prev_mini(h, x), get_prev_alloc(h, x), al)
  BY <1>3 DEF rewrite_block
<1>5. B = {c \in B : c <= x \/ n <= c}
  <2> SUFFICES ASSUME NEW c \in B, ~(c <= x) PROVE n <= c OBVIOUS
  <2>1. c \in Nat BY <1>1, BlockIs
  <2>2. x < c BY <2>1, <1>2
  <2> QED BY <2>2, <1>1, NoneInside DEF n
<1>6. Retiled(h, w, x, n, al, B) BY <1>2, <1>3, <1>4, <1>5, Retile
<1> QED BY <1>6 DEF n

(* What marking a block leaves alone.                                      *)
Marked(h, w, B, x) ==
  /\ \A b \in B \ {x} : /\ get_size(w, b) = get_size(h, b) /\ get_alloc(w, b) = get_alloc(h, b)
                        /\ find_next(w, b) = find_next(h, b)
                        /\ header_to_footer(w, b) = header_to_footer(h, b)
                        /\ w.mem[header_to_footer(h, b)] = h.mem[header_to_footer(h, b)]
                        /\ b # find_next(h, x) => w.mem[b] = h.mem[b]
  /\ \A b \in B : find_next(w, b) = find_next(h, b)
  /\ get_alloc(w, End(h)) /\ get_alloc(h, End(h)) /\ End(w) = End(h)
  /\ FreeIn(w, B) \ {x} = FreeIn(h, B) \ {x} /\ HeldIn(w, B) \ {x} = HeldIn(h, B) \ {x}
  /\ Lists(h, FreeIn(h, B) \ {x}) => Lists(w, FreeIn(h, B) \ {x})

(* Marking a block leaves the other blocks, and the lists of the others,   *)
(* as they are.                                                            *)
LEMMA MarkKeeps ==
  ASSUME NEW h, NEW B, Tiled(h, B), NEW x \in B, NEW al \in BOOLEAN,
         NEW w, Retiled(h, w, x, find_next(h, x), al, B)
  PROVE  Marked(h, w, B, x)
<1>0. Shape(h, B) BY DEF Tiled
<1>1. ASSUME NEW b \in B \ {x}
      PROVE  /\ get_size(w, b) = get_size(h, b) /\ get_alloc(w, b) = get_alloc(h, b)
             /\ find_next(w, b) = find_next(h, b)
             /\ header_to_footer(w, b) = header_to_footer(h, b)
             /\ w.mem[header_to_footer(h, b)] = h.mem[header_to_footer(h, b)]
             /\ b # find_next(h, x) => w.mem[b] = h.mem[b]
  <2>1. Kept(h, w, B \ {x}) BY DEF Retiled
  <2>2. /\ get_size(w, b) = get_size(h, b) /\ get_alloc(w, b) = get_alloc(h, b)
        /\ find_next(w, b) = find_next(h, b)
        /\ \A a \in Addr : b < a /\ a < find_next(h, b) => w.mem[a] = h.mem[a]
    BY <2>1 DEF Kept
  <2>3. header_to_footer(w, b) = header_to_footer(h, b) BY <2>2 DEF header_to_footer
  <2>4. w.mem[header_to_footer(h, b)] = h.mem[header_to_footer(h, b)]
    <3> DEFINE f == header_to_footer(h, b)
    <3>1. f \in Addr /\ b < f /\ f < find_next(h, b) BY <1>0, FootIs
    <3> HIDE DEF f
    <3>2. w.mem[f] = h.mem[f] BY <2>2, <3>1
    <3> QED BY <3>2 DEF f
  <2>5. b # find_next(h, x) => w.mem[b] = h.mem[b] BY DEF Retiled
  <2> QED BY <2>2, <2>3, <2>4, <2>5
<1>2. \A b \in B : find_next(w, b) = find_next(h, b)
  <2> TAKE b \in B
  <2>1. CASE b = x BY <2>1 DEF Retiled
  <2>2. CASE b # x BY <2>2, <1>1
  <2> QED BY <2>1, <2>2
<1>3. get_alloc(w, End(h)) /\ get_alloc(h, End(h)) /\ End(w) = End(h)
  <2>1. Tiled(w, B) /\ End(w) = End(h) BY DEF Retiled
  <2>2. get_alloc(w, End(w)) /\ get_alloc(h, End(h)) BY <2>1, EndHeader
  <2> QED BY <2>1, <2>2
<1>4. FreeIn(w, B) \ {x} = FreeIn(h, B) \ {x} /\ HeldIn(w, B) \ {x} = HeldIn(h, B) \ {x}
  BY <1>1 DEF FreeIn, HeldIn
<1>5. Lists(h, FreeIn(h, B) \ {x}) => Lists(w, FreeIn(h, B) \ {x})
  <2> DEFINE G == FreeIn(h, B) \ {x}
  <2>1. G \subseteq B /\ G \subseteq B \ {x} BY DEF FreeIn
  <2>2. SameRoots(h, w) /\ Kept(h, w, B \ {x}) BY DEF Retiled
  <2> HIDE DEF G
  <2>3. Kept(h, w, G) BY <2>1, <2>2 DEF Kept
  <2>4. Lists(h, G) => Lists(w, G) BY <2>1, <2>2, <2>3, ListsKept
  <2> QED BY <2>4 DEF G
<1> QED BY <1>1, <1>2, <1>3, <1>4, <1>5 DEF Marked

(* A block that is given back: the others are kept, and the heap is good.  *)
LEMMA FreeBlock ==
  ASSUME NEW h, NEW B, Good(h, B), NEW x \in HeldIn(h, B), NEW w, w = free_block(h, x)
  PROVE  \E B2 : /\ Good(w, B2) /\ HeldIn(w, B2) = HeldIn(h, B) \ {x}
                 /\ Kept(h, w, HeldIn(h, B) \ {x}) /\ w.brk = h.brk
<1> DEFINE n == find_next(h, x)
           h1 == rewrite_block(h, x, get_size(h, x), FALSE)
           j == insert_coalesced(coalesce_block(h1, x))
           al == FALSE
           H == HeldIn(h, B) \ {x}
<1>1. Tiled(h, B) /\ x \in B /\ get_alloc(h, x) /\ Apart(h, B, 0) /\ Whole(h, B, 0)
      /\ Lists(h, FreeIn(h, B)) /\ Shape(h, B)
  BY DEF Good, HeldIn, Tiled
<1>2. w = j.heap BY DEF free_block
<1> HIDE DEF j
<1>3. al \in BOOLEAN /\ ~al /\ h1 = rewrite_block(h, x, get_size(h, x), al) OBVIOUS
<1> HIDE DEF al, h1
<1>4. Retiled(h, h1, x, n, al, B) BY <1>1, <1>3, Mark
<1>5. /\ \A b \in B \ {x} : /\ get_size(h1, b) = get_size(h, b) /\ get_alloc(h1, b) = get_alloc(h, b)
                            /\ find_next(h1, b) = find_next(h, b)
                            /\ header_to_footer(h1, b) = header_to_footer(h, b)
                            /\ h1.mem[header_to_footer(h, b)] = h.mem[header_to_footer(h, b)]
                            /\ b # n => h1.mem[b] = h.mem[b]
      /\ \A b \in B : find_next(h1, b) = find_next(h, b)
      /\ get_alloc(h1, End(h)) /\ get_alloc(h, End(h)) /\ End(h1) = End(h)
      /\ FreeIn(h1, B) \ {x} = FreeIn(h, B) \ {x} /\ HeldIn(h1, B) \ {x} = HeldIn(h, B) \ {x}
      /\ Lists(h, FreeIn(h, B) \ {x}) => Lists(h1, FreeIn(h, B) \ {x})
  <2>1. Marked(h, h1, B, x) BY <1>1, <1>3, <1>4, MarkKeeps
  <2> QED BY <2>1 DEF Marked
<1>6. /\ Tiled(h1, B) /\ h1.brk = h.brk /\ ~get_alloc(h1, x) /\ find_next(h1, x) = n
      /\ get_size(h1, x) = n - x
      /\ n - x # 16 => h1.mem[header_to_footer(h1, x)] = h1.mem[x]
      /\ Kept(h, h1, B \ {x})
  BY <1>3, <1>4 DEF Retiled
<1> HIDE DEF n
<1>7. Loose(h1, B, x)
  <2>1. FreeIn(h, B) \ {x} = FreeIn(h, B) BY <1>1 DEF FreeIn
  <2> QED BY <2>1, <1>1, <1>5, <1>6 DEF Loose
<1>8. HeldIn(h1, B) = H
  <2>1. x \notin HeldIn(h1, B) BY <1>6 DEF HeldIn
  <2> QED BY <2>1, <1>5
<1>9. Apart(h1, B, x)
  <2> SUFFICES ASSUME NEW b \in B, b # x, find_next(h1, b) # x, ~get_alloc(h1, b)
               PROVE  get_alloc(h1, find_next(h1, b))
    BY DEF Apart
  <2> DEFINE d == find_next(h, b)
  <2>1. find_next(h1, b) = d /\ d # x /\ ~get_alloc(h, b) BY <1>5
  <2>2. d \in B \cup {End(h)} BY <1>1, BlockIs
  <2>3. b # 0 /\ d # 0
    <3>1. \A c \in B : c # 0 BY <1>1, Far
    <3>2. End(h) # 0 BY <1>1, EndIs
    <3> QED BY <3>1, <3>2, <2>2
  <2>4. get_alloc(h, d) BY <2>1, <2>3, <1>1 DEF Apart
  <2> HIDE DEF d
  <2> QED BY <2>1, <2>2, <2>4, <1>5
<1>10. Whole(h1, B, find_next(h1, x))
  <2> SUFFICES ASSUME NEW b \in B, ~get_alloc(h1, b), get_size(h1, b) # 16, b # n
               PROVE  h1.mem[header_to_footer(h1, b)] = h1.mem[b]
    BY <1>6 DEF Whole
  <2>1. CASE b = x BY <2>1, <1>6
  <2>2. CASE b # x
    <3>1. b # 0 BY <1>1, Far
    <3>2. ~get_alloc(h, b) /\ get_size(h, b) # 16 BY <2>2, <1>5
    <3>3. h.mem[header_to_footer(h, b)] = h.mem[b] BY <3>1, <3>2, <1>1 DEF Whole
    <3> QED BY <3>3, <2>2, <1>5
  <2> QED BY <2>1, <2>2
<1>11. Joined(h1, j, x, H)
  <2>1. Joined(h1, j, x, HeldIn(h1, B)) BY <1>7, <1>9, <1>10, Join DEF j
  <2> QED BY <2>1, <1>8
<1>12. Kept(h, h1, H)
  <2>1. H \subseteq B \ {x} BY DEF HeldIn
  <2> QED BY <2>1, <1>6 DEF Kept
<1> HIDE DEF H
<1>13. \E B2 : /\ Good(w, B2) /\ HeldIn(w, B2) = H /\ Kept(h, w, H) /\ w.brk = h.brk
  <2>1. PICK B2 : /\ Good(w, B2) /\ HeldIn(w, B2) = H /\ Kept(h1, w, H) /\ w.brk = h1.brk
    BY <1>2, <1>11 DEF Joined
  <2>2. Kept(h, w, H) BY <2>1, <1>12, KeptTrans
  <2> QED BY <2>1, <2>2, <1>6
<1> QED BY <1>13 DEF H

-----------------------------------------------------------------------------
(* The heap grows.                                                         *)

(* A multiple of sixteen is not rounded.                                   *)
LEMMA RoundIs ==
  ASSUME NEW s \in Nat, s % 16 = 0, s < SizeMod
  PROVE  round_up(s, 16) = s
<1>1. SizeMod \in Nat /\ SizeMod % 16 = 0 BY MmAssumption
<1>2. s + 15 < SizeMod BY <1>1
<1>3. s + 16 - 1 = s + 15 /\ (s + 15) % SizeMod = s + 15 BY <1>1, <1>2
<1>4. (s + 15) \div 16 = s \div 16 /\ 16 * (s \div 16) = s OBVIOUS
<1> QED BY <1>3, <1>4 DEF round_up

(* The heap after the break has been moved by s and the new bytes are a    *)
(* block, x, with the epilogue behind it at n.                             *)
Stretched(h, w, x, n, s) ==
  /\ w \in Heap /\ w.brk = h.brk + s /\ SameRoots(h, w)
  /\ w.mem[x] = pack(s, get_prev_mini(h, x), get_prev_alloc(h, x), FALSE)
  /\ w.mem[n] = pack(0, s = 16, FALSE, TRUE)
  /\ s # 16 => w.mem[n - 8] = w.mem[x]
  /\ \A a \in Addr : a < x => w.mem[a] = h.mem[a]

(* new_block and close_heap: the old epilogue is the header of a free      *)
(* block and a new one is behind it.                                       *)
LEMMA Stretch ==
  ASSUME NEW h, NEW B, Tiled(h, B), NEW s \in Nat, s % 16 = 0, s >= 16, h.brk + s <= MaxHeap,
         NEW x, x = End(h), NEW n, n = x + s,
         NEW w, w = close_heap(new_block(h, x, s), x)
  PROVE  Stretched(h, w, x, n, s)
<1> DEFINE hs == mem_sbrk(h, s)
           pm == get_prev_mini(h, x)
           pa == get_prev_alloc(h, x)
           al == FALSE
           w1 == rewrite_block(hs, x, s, FALSE)
           p == pack(s, pm, pa, al)
           mini == (s = 16)
           q == pack(0, mini, FALSE, TRUE)
<1>1. h \in Heap /\ Shape(h, B) BY DEF Tiled, Shape
<1>2. x \in Nat /\ x \in Addr /\ x % 16 = 8 /\ x >= 8 /\ x = h.brk - 8 /\ h.brk \in Addr
      /\ h.brk \in Nat /\ h.brk % 16 = 0
  BY <1>1, EndIs, AddrIs DEF Shape
<1>3. MaxHeap \in Nat /\ MaxHeap % 8 = 0 BY MmAssumption
<1>4. h.brk + s \in Addr /\ n \in Addr /\ n \in Nat /\ n - 8 \in Nat /\ n = h.brk + s - 8
      /\ x < n /\ (s # 16 => x < n - 8)
  <2>1. (h.brk + s) % 8 = 0 /\ h.brk + s \in Nat /\ n \in Nat /\ n % 8 = 0 /\ n <= MaxHeap
        /\ n = h.brk + s - 8 /\ x < n /\ (s # 16 => x < n - 8) /\ n - 8 \in Nat
    BY <1>2, <1>3
  <2> QED BY <2>1, AddrIs
<1>5. hs \in Heap /\ hs.brk = h.brk + s /\ SameRoots(h, hs) /\ hs.mem = h.mem
  BY <1>1, <1>4 DEF mem_sbrk, Heap, SameRoots
<1>6. /\ get_prev_mini(hs, x) = pm /\ get_prev_alloc(hs, x) = pa /\ pm \in BOOLEAN /\ pa \in BOOLEAN
  BY <1>1, <1>2, <1>5, HeaderIs, SameHeader
<1>7. w1 = write_block(hs, x, s, pm, pa, al)
  BY <1>6 DEF rewrite_block
<1>8. al \in BOOLEAN /\ ~al OBVIOUS
<1> HIDE DEF hs, pm, pa, al, w1
<1>9. /\ w1 \in Heap /\ w1.brk = hs.brk /\ SameRoots(hs, w1)
      /\ w1.mem[x] = pack(s, pm, pa, al)
      /\ ~al /\ s # 16 => w1.mem[n - 8] = pack(s, pm, pa, al)
      /\ \A a \in Addr : a # x /\ a # n /\ (a = n - 8 => al \/ s = 16) => w1.mem[a] = hs.mem[a]
  <2>1. hs \in Heap /\ x \in Addr /\ n \in Addr BY <1>2, <1>4, <1>5
  <2>2. pm \in BOOLEAN /\ pa \in BOOLEAN /\ al \in BOOLEAN BY <1>6, <1>8
  <2>3. Written(hs, w1, x, n, s, pm, pa, al) BY <2>1, <2>2, <1>7, WriteBlock
  <2> QED BY <2>3 DEF Written
<1>10. get_size(w1, x) = s /\ find_next(w1, x) = n
  <2>1. get_size(w1, x) = s /\ find_next(w1, x) = x + s
    BY <1>6, <1>8, <1>9, PackedHeader
  <2> QED BY <2>1
<1>11. w = Store(w1, n, q)
  <2>1. w = close_heap(w1, x) BY DEF new_block, w1, hs
  <2>2. new_mini_block_size = 16 OBVIOUS
  <2> HIDE DEF new_mini_block_size
  <2>3. w = write_epilogue(w1, find_next(w1, x), get_size(w1, x) = new_mini_block_size, FALSE)
    BY <2>1 DEF close_heap
  <2>4. w = write_epilogue(w1, n, s = new_mini_block_size, FALSE) BY <2>3, <1>10
  <2>5. w = write_epilogue(w1, n, s = 16, FALSE) BY <2>2, <2>4
  <2> QED BY <2>5 DEF write_epilogue
<1>12. q \in Nat
  <2>1. mini \in BOOLEAN /\ 0 \in Nat /\ 0 % 16 = 0 OBVIOUS
  <2> HIDE DEF mini
  <2> QED BY <2>1, PackIs
<1> HIDE DEF q, p
<1>13. /\ Store(w1, n, q) \in Heap /\ SameRoots(w1, Store(w1, n, q))
       /\ Store(w1, n, q).brk = w1.brk
       /\ \A a \in Addr : Store(w1, n, q).mem[a] = IF a = n THEN q ELSE w1.mem[a]
  <2>1. w1 \in Heap /\ n \in Addr BY <1>4, <1>9
  <2> QED BY <2>1, <1>12, StoreIs
<1>14. /\ w \in Heap /\ SameRoots(w1, w) /\ w.brk = w1.brk
       /\ \A a \in Addr : w.mem[a] = IF a = n THEN q ELSE w1.mem[a]
  BY <1>11, <1>13
<1>15. w \in Heap /\ w.brk = h.brk + s /\ SameRoots(h, w)
  BY <1>5, <1>9, <1>14 DEF SameRoots
<1>16. w.mem[x] = p /\ w.mem[n] = q
  BY <1>2, <1>4, <1>9, <1>14 DEF p
<1>17. s # 16 => w.mem[n - 8] = p
  <2>1. n - 8 \in Addr /\ n - 8 # n
    <3>2. n \in Nat /\ n % 8 = 0 /\ n <= MaxHeap BY <1>4, AddrIs
    <3>1. (n - 8) % 8 = 0 /\ n - 8 <= MaxHeap /\ n - 8 # n BY <3>2, <1>3
    <3> QED BY <3>1, <1>4, AddrIs
  <2> QED BY <2>1, <1>8, <1>9, <1>14 DEF p
<1>18. \A a \in Addr : a < x => w.mem[a] = h.mem[a]
  <2> TAKE a \in Addr
  <2>1. a \in Nat BY AddrIs
  <2>3. x \in Nat /\ n \in Nat /\ x < n /\ (s # 16 => x < n - 8) BY <1>2, <1>4
  <2>2. a < x => a # x /\ a # n /\ (a = n - 8 => s = 16) BY <2>1, <2>3
  <2> QED BY <2>2, <1>5, <1>9, <1>14
<1> QED BY <1>15, <1>16, <1>17, <1>18 DEF Stretched, p, q, pm, pa, al

(* What an epilogue says of the block before it.                           *)
LEMMA EndSays ==
  ASSUME NEW h, NEW b, NEW pm \in BOOLEAN, NEW pa \in BOOLEAN, h.mem[b] = pack(0, pm, pa, TRUE)
  PROVE  get_prev_alloc(h, b) = pa /\ get_prev_mini(h, b) = pm
<1> DEFINE z == 0
           al == TRUE
<1>1. z \in Nat /\ z % 16 = 0 /\ al \in BOOLEAN /\ h.mem[b] = pack(z, pm, pa, al) OBVIOUS
<1> HIDE DEF z, al
<1>2. /\ get_size(h, b) = z /\ get_alloc(h, b) = al
      /\ get_prev_alloc(h, b) = pa /\ get_prev_mini(h, b) = pm
      /\ find_next(h, b) = b + z
  BY <1>1, PackedHeader
<1> QED BY <1>2

(* The blocks are as before and one more, which is free and in no list     *)
(* yet.                                                                    *)
LEMMA StretchIs ==
  ASSUME NEW h, NEW B, Good(h, B), NEW s \in Nat, s % 16 = 0, s >= 16, h.brk + s <= MaxHeap,
         NEW x, x = End(h), NEW n, n = x + s,
         NEW w, Stretched(h, w, x, n, s), NEW B2, B2 = B \cup {x}
  PROVE  /\ Loose(w, B2, x) /\ Apart(w, B2, x) /\ Whole(w, B2, find_next(w, x))
         /\ HeldIn(w, B2) = HeldIn(h, B) /\ Kept(h, w, HeldIn(h, B))
         /\ get_size(w, x) = s /\ w.brk = h.brk + s
<1>1. Tiled(h, B) /\ Shape(h, B) /\ Flags(h, B) /\ Feet(h, B) /\ h \in Heap
      /\ Apart(h, B, 0) /\ Whole(h, B, 0) /\ Lists(h, FreeIn(h, B))
  BY DEF Good, Tiled, Shape
<1>2. x \in Nat /\ x \in Addr /\ x % 16 = 8 /\ x >= 8 /\ x = h.brk - 8 /\ h.brk \in Addr
      /\ h.brk \in Nat /\ h.brk % 16 = 0 /\ h.heap_start = 8
  BY <1>1, EndIs, AddrIs DEF Shape
<1>3. n \in Nat /\ x < n /\ n = w.brk - 8 /\ End(w) = n /\ w.brk = h.brk + s /\ n \in Addr
  <2>1. w.brk = h.brk + s BY DEF Stretched
  <2>2. n \in Nat /\ x < n /\ n = w.brk - 8 /\ End(w) = n BY <2>1, <1>2 DEF End
  <2>3. n % 8 = 0 /\ n <= MaxHeap /\ MaxHeap \in Nat BY <2>1, <2>2, <1>2, MmAssumption
  <2> QED BY <2>1, <2>2, <2>3, AddrIs
<1>4. /\ get_size(w, x) = s /\ get_alloc(w, x) = FALSE /\ find_next(w, x) = n
      /\ get_prev_alloc(w, x) = get_prev_alloc(h, x) /\ get_prev_mini(w, x) = get_prev_mini(h, x)
  <2> DEFINE pm == get_prev_mini(h, x)
             pa == get_prev_alloc(h, x)
             al == FALSE
  <2>1. pm \in BOOLEAN /\ pa \in BOOLEAN /\ al \in BOOLEAN BY <1>1, <1>2, HeaderIs
  <2>2. w.mem[x] = pack(s, pm, pa, al) /\ ~al BY DEF Stretched
  <2> HIDE DEF pm, pa, al
  <2>3. get_size(w, x) = s /\ get_alloc(w, x) = al /\ get_prev_alloc(w, x) = pa
        /\ get_prev_mini(w, x) = pm /\ find_next(w, x) = x + s
    BY <2>1, <2>2, PackedHeader
  <2> QED BY <2>3 DEF pm, pa, al
<1>5. /\ get_prev_alloc(w, n) = FALSE /\ get_prev_mini(w, n) = (s = 16)
      /\ w.mem[n] = pack(0, get_prev_mini(w, n), get_prev_alloc(w, n), TRUE)
  <2> DEFINE mini == (s = 16)
             no == FALSE
  <2>1. mini \in BOOLEAN /\ no \in BOOLEAN OBVIOUS
  <2>2. w.mem[n] = pack(0, mini, no, TRUE) BY DEF Stretched
  <2> HIDE DEF mini, no
  <2>3. get_prev_alloc(w, n) = no /\ get_prev_mini(w, n) = mini
    BY <2>1, <2>2, EndSays
  <2>4. w.mem[n] = pack(0, get_prev_mini(w, n), get_prev_alloc(w, n), TRUE) BY <2>2, <2>3
  <2> QED BY <2>3, <2>4 DEF mini, no
<1>6. ASSUME NEW b \in B
      PROVE  /\ b \in Nat /\ b < x /\ b # x /\ b # 0 /\ find_next(h, b) <= x /\ find_next(h, b) \in B \cup {x}
             /\ get_size(w, b) = get_size(h, b) /\ get_alloc(w, b) = get_alloc(h, b)
             /\ get_prev_alloc(w, b) = get_prev_alloc(h, b)
             /\ get_prev_mini(w, b) = get_prev_mini(h, b)
             /\ find_next(w, b) = find_next(h, b)
             /\ header_to_footer(w, b) = header_to_footer(h, b)
             /\ w.mem[header_to_footer(h, b)] = h.mem[header_to_footer(h, b)]
             /\ w.mem[b] = h.mem[b]
             /\ \A a \in Addr : b < a /\ a < find_next(h, b) => w.mem[a] = h.mem[a]
  <2>1. /\ b \in Nat /\ b \in Addr /\ b + 16 <= find_next(h, b) /\ find_next(h, b) <= x
        /\ find_next(h, b) \in B \cup {x} /\ find_next(h, b) \in Nat
    BY <1>1, BlockIs
  <2>2. b < x BY <2>1, <1>2
  <2>3. w.mem[b] = h.mem[b] BY <2>1, <2>2 DEF Stretched
  <2>4. /\ get_size(w, b) = get_size(h, b) /\ get_alloc(w, b) = get_alloc(h, b)
        /\ get_prev_alloc(w, b) = get_prev_alloc(h, b)
        /\ get_prev_mini(w, b) = get_prev_mini(h, b)
        /\ find_next(w, b) = find_next(h, b)
    BY <2>3, SameHeader
  <2>5. header_to_footer(w, b) = header_to_footer(h, b) BY <2>4 DEF header_to_footer
  <2>6. w.mem[header_to_footer(h, b)] = h.mem[header_to_footer(h, b)]
    <3> DEFINE f == header_to_footer(h, b)
    <3>1. f \in Addr /\ f \in Nat /\ f < find_next(h, b) BY <1>1, FootIs
    <3> HIDE DEF f
    <3>2. f < x BY <3>1, <2>1, <1>2
    <3>3. w.mem[f] = h.mem[f] BY <3>1, <3>2 DEF Stretched
    <3> QED BY <3>3 DEF f
  <2>7. \A a \in Addr : b < a /\ a < find_next(h, b) => w.mem[a] = h.mem[a]
    <3> TAKE a \in Addr
    <3>1. a < find_next(h, b) => a < x BY <2>1, <1>2, AddrIs
    <3> QED BY <3>1 DEF Stretched
  <2>8. b # 0 /\ b # x BY <2>2, <1>1, <1>2, <2>1, Far
  <2> QED BY <2>1, <2>2, <2>3, <2>4, <2>5, <2>6, <2>7, <2>8
<1>7. Shape(w, B2)
  <2>1. w \in Heap /\ w.heap_start = 8 /\ w.brk % 16 = 0 /\ w.brk >= 16
    <3>1. w \in Heap /\ w.heap_start = 8 BY <1>2 DEF Stretched, SameRoots
    <3>2. w.brk % 16 = 0 /\ w.brk >= 16 BY <1>2, <1>3
    <3> QED BY <3>1, <3>2
  <2>2. \A c \in B2 : c \in Addr /\ c % 16 = 8 /\ get_size(w, c) >= 16
    BY <1>1, <1>2, <1>4, <1>6, BlockIs
  <2>3. ASSUME NEW c \in B2
        PROVE find_next(w, c) <= End(w) /\ find_next(w, c) \in B2 \cup {End(w)}
    <3>1. CASE c = x BY <3>1, <1>3, <1>4
    <3>2. CASE c \in B
      <4>1. find_next(w, c) <= x /\ find_next(w, c) \in B \cup {x} /\ find_next(w, c) \in Nat
        <5>1. find_next(h, c) \in Nat BY <3>2, <1>1, BlockIs
        <5> QED BY <5>1, <3>2, <1>6
      <4> QED BY <4>1, <1>2, <1>3
    <3> QED BY <3>1, <3>2
  <2>4. ASSUME NEW c \in B2, NEW d \in B2, c < d PROVE find_next(w, c) <= d
    <3>1. c \in B
      <4> SUFFICES ASSUME c = x PROVE FALSE OBVIOUS
      <4>1. \A y \in B : y \in Nat /\ y <= x
        <5> TAKE y \in B
        <5>1. y \in Nat /\ y < x BY <1>6
        <5> QED BY <5>1, <1>2
      <4>2. d \in Nat /\ d <= x
        <5>1. CASE d = x BY <5>1, <1>2
        <5>2. CASE d \in B BY <5>2, <4>1
        <5> QED BY <5>1, <5>2
      <4> QED BY <4>2, <2>4, <1>2
    <3>2. d \in B \cup {End(h)} OBVIOUS
    <3>3. find_next(h, c) <= d BY <3>1, <3>2, <2>4, <1>1, NoneInside
    <3> QED BY <3>1, <3>3, <1>6
  <2>5. ASSUME NEW c \in B2 \cup {End(w)}, c # 8 PROVE \E d \in B2 : find_next(w, d) = c
    <3>1. CASE c = End(w) BY <3>1, <1>3, <1>4
    <3>2. CASE c \in B2
      <4>1. c \in B \cup {End(h)} BY <3>2
      <4>2. PICK d \in B : find_next(h, d) = c BY <4>1, <2>5, <1>1 DEF Shape
      <4> QED BY <4>2, <1>6
    <3> QED BY <3>1, <3>2
  <2>6. 8 \in B2 BY <1>1 DEF Shape
  <2> QED BY <2>1, <2>2, <2>3, <2>4, <2>5, <2>6 DEF Shape
<1>8. Flags(w, B2)
  <2>1. ASSUME NEW c \in B2
        PROVE  /\ get_prev_alloc(w, find_next(w, c)) = get_alloc(w, c)
               /\ get_prev_mini(w, find_next(w, c)) = (get_size(w, c) = 16)
    <3>1. CASE c = x BY <3>1, <1>4, <1>5
    <3>2. CASE c \in B
      <4> DEFINE d == find_next(h, c)
      <4>1. d \in B \cup {x} /\ find_next(w, c) = d BY <3>2, <1>6
      <4>2. get_prev_alloc(h, d) = get_alloc(h, c) /\ get_prev_mini(h, d) = (get_size(h, c) = 16)
        BY <3>2, <1>1 DEF Flags
      <4> HIDE DEF d
      <4>3. get_prev_alloc(w, d) = get_prev_alloc(h, d) /\ get_prev_mini(w, d) = get_prev_mini(h, d)
        BY <4>1, <1>4, <1>6
      <4> QED BY <4>1, <4>2, <4>3, <3>2, <1>6
    <3> QED BY <3>1, <3>2
  <2>2. get_prev_alloc(w, 8)
    <3>1. 8 \in B \cup {x} /\ get_prev_alloc(h, 8) BY <1>1 DEF Shape, Flags
    <3>2. CASE 8 = x BY <3>1, <3>2, <1>4
    <3>3. CASE 8 # x
      <4>1. 8 \in B BY <3>1, <3>3
      <4> QED BY <4>1, <3>1, <1>6
    <3> QED BY <3>2, <3>3
  <2> QED BY <2>1, <2>2, <1>3, <1>5 DEF Flags
<1>9. s # 16 => w.mem[header_to_footer(w, x)] = w.mem[x]
  <2>1. header_to_footer(w, x) = n - 8
    <3>1. x \in B2 OBVIOUS
    <3>2. header_to_footer(w, x) = find_next(w, x) - 8 BY <3>1, <1>7, FootIs
    <3> QED BY <3>2, <1>4
  <2> QED BY <2>1 DEF Stretched
<1>10. Feet(w, B2)
  <2> SUFFICES ASSUME NEW c \in B2, ~get_alloc(w, c), get_size(w, c) # 16
               PROVE  extract_size(w.mem[header_to_footer(w, c)]) = get_size(w, c)
    BY DEF Feet
  <2>1. CASE c = x BY <2>1, <1>4, <1>9 DEF get_size
  <2>2. CASE c \in B BY <2>2, <1>1, <1>6 DEF Feet
  <2> QED BY <2>1, <2>2
<1>11. FreeIn(w, B2) = FreeIn(h, B) \cup {x} /\ HeldIn(w, B2) = HeldIn(h, B) /\ x \notin B
  <2>1. x \notin B BY <1>6
  <2> QED BY <2>1, <1>4, <1>6 DEF FreeIn, HeldIn
<1>12. Kept(h, w, B) BY <1>6 DEF Kept
<1>13. Lists(w, FreeIn(w, B2) \ {x})
  <2> DEFINE G == FreeIn(h, B)
  <2>1. G \subseteq B /\ FreeIn(w, B2) \ {x} = G BY <1>11 DEF FreeIn
  <2>2. SameRoots(h, w) BY DEF Stretched
  <2> HIDE DEF G
  <2>3. Kept(h, w, G) BY <2>1, <1>12 DEF Kept
  <2>4. Lists(h, G) BY <1>1 DEF G
  <2> QED BY <2>1, <2>2, <2>3, <2>4, <1>1, ListsKept
<1>14. Kept(h, w, HeldIn(h, B)) BY <1>12 DEF Kept, HeldIn
<1>15. Loose(w, B2, x) BY <1>4, <1>7, <1>8, <1>10, <1>13 DEF Loose, Tiled
<1>16. Apart(w, B2, x)
  <2> SUFFICES ASSUME NEW b \in B2, b # x, find_next(w, b) # x
               PROVE  get_alloc(w, b) \/ get_alloc(w, find_next(w, b))
    BY DEF Apart
  <2> DEFINE d == find_next(h, b)
  <2>1. b \in B /\ find_next(w, b) = d /\ d \in B BY <1>6
  <2>2. b # 0 /\ d # 0 BY <2>1, <1>6
  <2>3. get_alloc(h, b) \/ get_alloc(h, d) BY <2>1, <2>2, <1>1 DEF Apart
  <2> HIDE DEF d
  <2> QED BY <2>1, <2>3, <1>6
<1>17. Whole(w, B2, find_next(w, x))
  <2> SUFFICES ASSUME NEW b \in B2, ~get_alloc(w, b), get_size(w, b) # 16
               PROVE  w.mem[header_to_footer(w, b)] = w.mem[b]
    BY DEF Whole
  <2>1. CASE b = x BY <2>1, <1>4, <1>9
  <2>2. CASE b # x
    <3>1. b \in B /\ b # 0 BY <2>2, <1>6
    <3> QED BY <3>1, <1>1, <1>6 DEF Whole
  <2> QED BY <2>1, <2>2
<1> QED BY <1>3, <1>4, <1>11, <1>14, <1>15, <1>16, <1>17

(* What extend_heap leaves: the heap as it was, or a free block that is    *)
(* large enough.                                                           *)
Extended(h, r, s, H) ==
  \/ h.brk + s > MaxHeap /\ r.heap = h /\ r.block = 0
  \/ /\ h.brk + s <= MaxHeap /\ r.heap.brk = h.brk + s /\ r.block # 0
     /\ \E B : /\ Good(r.heap, B) /\ HeldIn(r.heap, B) = H /\ Kept(h, r.heap, H)
               /\ r.block \in FreeIn(r.heap, B) /\ get_size(r.heap, r.block) >= s

(* extend_heap grows the heap by what was asked, or leaves it as it was at *)
(* the limit.                                                              *)
LEMMA ExtendHeap ==
  ASSUME NEW h, NEW B, Good(h, B), NEW s \in Nat, s % 16 = 0, s >= 16, s < SizeMod,
         NEW r, r = extend_heap(h, s)
  PROVE  Extended(h, r, s, HeldIn(h, B))
<1> DEFINE x == payload_to_header(h.brk)
           n == x + s
           w == close_heap(new_block(h, x, s), x)
           j == insert_coalesced(coalesce_block(w, x))
           H == HeldIn(h, B)
<1>1. Tiled(h, B) /\ Shape(h, B) BY DEF Good, Tiled
<1>2. round_up(s, 16) = s BY RoundIs
<1>3. r = IF mem_sbrk_fails(h, s) THEN [heap |-> h, block |-> 0] ELSE j
  BY <1>2 DEF extend_heap
<1>4. x = End(h) BY DEF payload_to_header, End
<1>5. h.brk \in Nat /\ MaxHeap \in Nat /\ SizeMod \in Nat /\ MaxHeap < SizeMod \div 2
  BY <1>1, MmAssumption, AddrIs DEF Shape, Heap
<1>6. mem_sbrk_fails(h, s) <=> h.brk + s > MaxHeap
  BY <1>5 DEF mem_sbrk_fails
<1> HIDE DEF x, j, H, w
<1>7. CASE h.brk + s > MaxHeap
  BY <1>3, <1>6, <1>7 DEF Extended
<1>8. CASE ~(h.brk + s > MaxHeap)
  <2>1. r = j /\ h.brk + s <= MaxHeap BY <1>3, <1>5, <1>6, <1>8
  <2>2. Stretched(h, w, x, n, s) BY <2>1, <1>1, <1>4, Stretch DEF w
  <2> DEFINE B2 == B \cup {x}
  <2> HIDE DEF B2, n
  <2>3. /\ Loose(w, B2, x) /\ Apart(w, B2, x) /\ Whole(w, B2, find_next(w, x))
        /\ HeldIn(w, B2) = HeldIn(h, B) /\ Kept(h, w, HeldIn(h, B))
        /\ get_size(w, x) = s /\ w.brk = h.brk + s
    <3>1. n = x + s /\ B2 = B \cup {x} BY DEF n, B2
    <3> QED BY <3>1, <2>1, <2>2, <1>4, StretchIs
  <2>4. Joined(w, j, x, H)
    <3>1. Joined(w, j, x, HeldIn(w, B2)) BY <2>3, Join DEF j
    <3> QED BY <3>1, <2>3 DEF H
  <2>5. PICK B3 : /\ Good(j.heap, B3) /\ HeldIn(j.heap, B3) = H /\ Kept(w, j.heap, H)
                  /\ j.heap.brk = w.brk
                  /\ j.block \in FreeIn(j.heap, B3) /\ get_size(j.heap, j.block) >= get_size(w, x)
    BY <2>4 DEF Joined
  <2>6. Kept(h, j.heap, H)
    <3>1. Kept(h, w, H) BY <2>3 DEF H
    <3> QED BY <3>1, <2>5, KeptTrans
  <2>7. j.block # 0
    <3>1. j.block \in B3 /\ Tiled(j.heap, B3) BY <2>5 DEF FreeIn, Good
    <3> QED BY <3>1, Far
  <2>8. j.heap.brk = h.brk + s /\ get_size(j.heap, j.block) >= s BY <2>3, <2>5
  <2> QED BY <2>1, <2>5, <2>6, <2>7, <2>8 DEF Extended, H
<1>9. Extended(h, r, s, H) BY <1>7, <1>8 DEF H
<1> QED BY <1>9 DEF H

-----------------------------------------------------------------------------
(* A block is cut in two.                                                  *)

(* The heap after the block at x has been cut at m: what is written, and   *)
(* that nothing else is.                                                   *)
CutAt(h, w, x, m, n) ==
  /\ w \in Heap /\ w.brk = h.brk /\ SameRoots(h, w)
  /\ w.mem[x] = pack(m - x, get_prev_mini(h, x), get_prev_alloc(h, x), TRUE)
  /\ w.mem[m] = pack(n - m, m - x = 16, TRUE, FALSE)
  /\ w.mem[n] = pack(get_size(h, n), n - m = 16, FALSE, get_alloc(h, n))
  /\ n - m # 16 => w.mem[n - 8] = w.mem[m]
  /\ \A a \in Addr : a # x /\ a # m /\ a # n /\ (a = n - 8 => n - m = 16)
        => w.mem[a] = h.mem[a]

(* Where a block from x to n may be cut.                                   *)
Between(x, m, n) ==
  /\ m \in Addr /\ m \in Nat /\ m % 16 = 8 /\ x < m /\ m < n /\ m + 16 <= n
  /\ x + 16 <= m /\ n \in Nat /\ n \in Addr

(* The two write_blocks of a split.                                        *)
LEMMA Cut ==
  ASSUME NEW h, NEW B, Tiled(h, B), NEW x \in B, NEW n, n = find_next(h, x),
         NEW asize \in Nat, asize % 16 = 0, asize >= 16, asize < get_size(h, x),
         NEW m, m = x + asize, NEW rest, rest = get_size(h, x) - asize,
         NEW mini, mini = (asize = 16), NEW yes, yes = TRUE, NEW no, no = FALSE,
         NEW w, w = write_block(rewrite_block(h, x, asize, yes), m, rest, mini, yes, no)
  PROVE  CutAt(h, w, x, m, n) /\ Between(x, m, n)
<1> DEFINE h1 == rewrite_block(h, x, asize, yes)
           pm == get_prev_mini(h, x)
           pa == get_prev_alloc(h, x)
<1>1. h \in Heap /\ Shape(h, B) BY DEF Tiled, Shape
<1>2. /\ x \in Nat /\ x \in Addr /\ x % 16 = 8 /\ n \in Nat /\ n \in Addr /\ n = x + get_size(h, x)
      /\ get_size(h, x) \in Nat /\ get_size(h, x) % 16 = 0 /\ n % 16 = 8
      /\ pm \in BOOLEAN /\ pa \in BOOLEAN
  BY <1>1, BlockIs
<1>3. /\ m \in Nat /\ m % 16 = 8 /\ x < m /\ m < n /\ m + 16 <= n /\ x + 16 <= m
      /\ rest \in Nat /\ rest % 16 = 0 /\ rest >= 16 /\ n = m + rest /\ m % 8 = 0
      /\ m - x = asize /\ n - m = rest
  BY <1>2
<1>4. m \in Addr
  <2>1. m <= MaxHeap BY <1>2, <1>3, AddrIs, MmAssumption
  <2> QED BY <2>1, <1>3, AddrIs
<1>5. mini \in BOOLEAN /\ yes \in BOOLEAN /\ no \in BOOLEAN /\ yes /\ ~no OBVIOUS
<1>6. h1 = write_block(h, x, asize, pm, pa, yes) BY DEF rewrite_block
<1>7. w = write_block(h1, m, rest, mini, yes, no) OBVIOUS
<1> HIDE DEF h1, pm, pa
<1>8. Written(h, h1, x, m, asize, pm, pa, yes)
  <2>1. h \in Heap /\ x \in Addr /\ m \in Addr /\ pm \in BOOLEAN /\ pa \in BOOLEAN
    BY <1>1, <1>2, <1>4
  <2>2. asize \in Nat /\ asize % 16 = 0 /\ asize >= 16 /\ m = x + asize OBVIOUS
  <2> QED BY ONLY <2>1, <2>2, <1>5, <1>6, WriteBlock
<1>9. Written(h1, w, m, n, rest, mini, yes, no)
  <2>1. h1 \in Heap BY <1>8 DEF Written
  <2>2. rest \in Nat /\ rest % 16 = 0 /\ rest >= 16 /\ n = m + rest /\ m \in Addr /\ n \in Addr
    BY <1>2, <1>3, <1>4
  <2> QED BY ONLY <2>1, <2>2, <1>5, <1>7, WriteBlock
<1>10. w \in Heap /\ w.brk = h.brk /\ SameRoots(h, w)
  BY <1>8, <1>9 DEF Written, SameRoots
<1>11. n # x /\ n # m /\ x # m /\ n - 8 # x /\ n - 8 # m /\ n - 8 # n /\ m - 8 # n
       /\ (x = n - 8 => FALSE)
  BY <1>2, <1>3
<1>12. h1.mem[n] = h.mem[n]
  BY <1>2, <1>5, <1>8, <1>11 DEF Written
<1>13. w.mem[x] = pack(asize, pm, pa, yes)
  <2>1. h1.mem[x] = pack(asize, pm, pa, yes) BY <1>8 DEF Written
  <2>2. w.mem[x] = h1.mem[x] BY <1>2, <1>9, <1>11 DEF Written
  <2> QED BY <2>1, <2>2
<1>14. w.mem[m] = pack(rest, mini, yes, no) BY <1>9 DEF Written
<1>15. w.mem[n] = pack(get_size(h, n), rest = 16, no, get_alloc(h, n))
  <2>1. get_size(h1, n) = get_size(h, n) /\ get_alloc(h1, n) = get_alloc(h, n)
    BY <1>12, SameHeader
  <2> QED BY <2>1, <1>9 DEF Written
<1>16. rest # 16 => w.mem[n - 8] = w.mem[m] BY <1>5, <1>9, <1>14 DEF Written
<1>17. \A a \in Addr : a # x /\ a # m /\ a # n /\ (a = n - 8 => rest = 16) => w.mem[a] = h.mem[a]
  BY ONLY <1>5, <1>8, <1>9, <1>11 DEF Written
<1> QED BY <1>2, <1>3, <1>4, <1>10, <1>13, <1>14, <1>15, <1>16, <1>17 DEF CutAt, Between, pm, pa

(* What is left when a block has been cut: the front allocated, the rest   *)
(* free and in no list.                                                    *)
Parted(h, w, B, B2, x, m) ==
  /\ Loose(w, B2, m) /\ Apart(w, B2, 0) /\ Whole(w, B2, 0)
  /\ HeldIn(w, B2) = HeldIn(h, B) /\ Kept(h, w, HeldIn(h, B) \ {x})
  /\ get_size(w, x) = m - x /\ w.brk = h.brk

(* After a cut there are two blocks where there was one, and the second is *)
(* free and in no list.                                                    *)
LEMMA CutIs ==
  ASSUME NEW h, NEW B, Tiled(h, B), NEW x \in B, get_alloc(h, x), NEW n, n = find_next(h, x),
         get_alloc(h, n), Apart(h, B, 0), Whole(h, B, 0), Lists(h, FreeIn(h, B)),
         NEW m, NEW w, CutAt(h, w, x, m, n), Between(x, m, n),
         NEW B2, B2 = B \cup {m}
  PROVE  Parted(h, w, B, B2, x, m)
<1>0. /\ m \in Addr /\ m \in Nat /\ m % 16 = 8 /\ x < m /\ m < n /\ m + 16 <= n
      /\ x + 16 <= m /\ n \in Nat /\ n \in Addr
  BY DEF Between
<1> USE <1>0
<1>1. Shape(h, B) /\ Flags(h, B) /\ Feet(h, B) /\ h \in Heap
  BY DEF Tiled, Shape
<1>2. x \in Nat /\ x \in Addr /\ x % 16 = 8 /\ x >= 8 /\ n % 16 = 8 /\ n \in B \cup {End(h)} /\ n <= End(h)
      /\ End(h) \in Nat /\ x # 0
      /\ get_prev_mini(h, x) \in BOOLEAN /\ get_prev_alloc(h, x) \in BOOLEAN
  BY <1>1, BlockIs, EndIs
<1>3. m \notin B /\ m # End(h) /\ m # n /\ m # x /\ n # x
  <2>1. m \notin B
    <3> SUFFICES ASSUME m \in B PROVE FALSE OBVIOUS
    <3>1. n <= m BY <1>1, NoneInside
    <3> QED BY <3>1
  <2> QED BY <2>1, <1>2
<1>4. (m - x) \in Nat /\ (m - x) % 16 = 0 /\ m - x >= 16 /\ (n - m) \in Nat /\ (n - m) % 16 = 0
      /\ n - m >= 16 /\ x + (m - x) = m /\ m + (n - m) = n
  BY <1>2
<1> DEFINE s == m - x
           rest == n - m
<1>5. /\ get_size(w, x) = m - x /\ get_alloc(w, x) = TRUE /\ find_next(w, x) = m
      /\ get_prev_alloc(w, x) = get_prev_alloc(h, x) /\ get_prev_mini(w, x) = get_prev_mini(h, x)
  <2> DEFINE pm == get_prev_mini(h, x)
             pa == get_prev_alloc(h, x)
             yes == TRUE
  <2>1. pm \in BOOLEAN /\ pa \in BOOLEAN /\ yes \in BOOLEAN /\ s \in Nat /\ s % 16 = 0 /\ x + s = m
    BY <1>2, <1>4
  <2>2. w.mem[x] = pack(s, pm, pa, yes) BY DEF CutAt
  <2> HIDE DEF pm, pa, yes, s
  <2>1a. s \in Nat /\ s % 16 = 0 BY <2>1
  <2>1b. pm \in BOOLEAN /\ pa \in BOOLEAN /\ yes \in BOOLEAN BY <2>1
  <2>3. get_size(w, x) = s /\ get_alloc(w, x) = yes /\ get_prev_alloc(w, x) = pa
        /\ get_prev_mini(w, x) = pm /\ find_next(w, x) = x + s
    BY ONLY <2>1a, <2>1b, <2>2, PackedHeader
  <2> QED BY <2>1, <2>3 DEF pm, pa, yes, s
<1>6. /\ get_size(w, m) = n - m /\ get_alloc(w, m) = FALSE /\ find_next(w, m) = n
      /\ get_prev_alloc(w, m) = TRUE /\ get_prev_mini(w, m) = (m - x = 16)
  <2> DEFINE pm == m - x = 16
             no == FALSE
             yes == TRUE
  <2>1. pm \in BOOLEAN /\ no \in BOOLEAN /\ yes \in BOOLEAN /\ rest \in Nat /\ rest % 16 = 0 /\ m + rest = n
    BY <1>4
  <2>2. w.mem[m] = pack(rest, pm, yes, no) BY DEF CutAt
  <2> HIDE DEF pm, no, yes, rest
  <2>3. rest \in Nat /\ rest % 16 = 0 BY <2>1
  <2>4. pm \in BOOLEAN /\ yes \in BOOLEAN /\ no \in BOOLEAN BY <2>1
  <2>5. get_size(w, m) = rest /\ get_alloc(w, m) = no /\ get_prev_alloc(w, m) = yes
        /\ get_prev_mini(w, m) = pm /\ find_next(w, m) = m + rest
    BY ONLY <2>2, <2>3, <2>4, PackedHeader
  <2> QED BY <2>1, <2>5 DEF pm, no, yes, rest
<1>7. /\ get_size(w, n) = get_size(h, n) /\ get_alloc(w, n) = get_alloc(h, n) /\ find_next(w, n) = find_next(h, n)
      /\ get_prev_alloc(w, n) = FALSE /\ get_prev_mini(w, n) = (n - m = 16)
  <2> DEFINE z == get_size(h, n)
             pm == n - m = 16
             al == get_alloc(h, n)
             no == FALSE
  <2>1. z \in Nat /\ z % 16 = 0 /\ pm \in BOOLEAN /\ al \in BOOLEAN /\ no \in BOOLEAN /\ find_next(h, n) = n + z
    BY <1>1, HeaderIs
  <2>2. w.mem[n] = pack(z, pm, no, al) BY DEF CutAt
  <2> HIDE DEF z, pm, al, no
  <2>3. z \in Nat /\ z % 16 = 0 BY <2>1
  <2>4. pm \in BOOLEAN /\ al \in BOOLEAN /\ no \in BOOLEAN BY <2>1
  <2>5. get_size(w, n) = z /\ get_alloc(w, n) = al /\ get_prev_alloc(w, n) = no
        /\ get_prev_mini(w, n) = pm /\ find_next(w, n) = n + z
    BY ONLY <2>2, <2>3, <2>4, PackedHeader
  <2> QED BY <2>1, <2>5 DEF z, pm, al, no
<1> HIDE DEF s, rest
<1>8. ASSUME NEW a \in Addr, a % 16 = 8, a # x, a # m, a # n PROVE w.mem[a] = h.mem[a]
  <2>1. a # n - 8 BY <1>8, <1>2
  <2> QED BY <2>1, <1>8 DEF CutAt
<1>9. w \in Heap /\ End(w) = End(h) /\ w.brk = h.brk /\ SameRoots(h, w) BY DEF CutAt, End
<1>10. ASSUME NEW b \in B, b # x
       PROVE  /\ b \in Nat /\ b \in Addr /\ b % 16 = 8 /\ b # 0 /\ b # m
              /\ find_next(h, b) # n /\ find_next(h, b) # m
              /\ find_next(h, b) \in B \cup {End(h)} /\ b < find_next(h, b)
              /\ get_size(w, b) = get_size(h, b) /\ get_alloc(w, b) = get_alloc(h, b)
              /\ find_next(w, b) = find_next(h, b)
  <2>1. /\ b \in Nat /\ b \in Addr /\ b % 16 = 8 /\ find_next(h, b) \in B \cup {End(h)}
        /\ b + 16 <= find_next(h, b) /\ find_next(h, b) \in Nat
    BY <1>1, BlockIs
  <2>2. b # 0 /\ b # m BY <2>1, <1>3
  <2>3. find_next(h, b) # n BY <1>1, <1>10, OneBefore
  <2>4. find_next(h, b) # m BY <2>1, <1>3
  <2>5. get_size(w, b) = get_size(h, b) /\ get_alloc(w, b) = get_alloc(h, b)
        /\ find_next(w, b) = find_next(h, b)
    <3>1. CASE b = n BY <3>1, <1>7
    <3>2. CASE b # n
      <4>1. w.mem[b] = h.mem[b] BY <2>1, <2>2, <3>2, <1>8, <1>10
      <4> QED BY <4>1, SameHeader
    <3> QED BY <3>1, <3>2
  <2>6. b < find_next(h, b) BY <2>1
  <2> QED BY <2>1, <2>2, <2>3, <2>4, <2>5, <2>6
<1>11. ASSUME NEW b \in B, b # x, NEW a \in Addr, b < a, a < find_next(h, b)
       PROVE  w.mem[a] = h.mem[a]
  <2>1. b \in Nat /\ a \in Nat /\ find_next(h, b) \in Nat BY <1>1, <1>11, BlockIs, AddrIs
  <2>2. a < x \/ n <= a
    <3> SUFFICES ASSUME x <= a, a < n PROVE FALSE BY <2>1, <1>2
    <3>1. b = x BY <2>1, <1>1, <1>11, SameInside
    <3> QED BY <3>1, <1>11
  <2>3. a # n
    <3> SUFFICES ASSUME a = n PROVE FALSE OBVIOUS
    <3>1. b < n BY <1>11
    <3>2. find_next(h, b) <= n BY <3>1, <1>1, <1>2, NoneInside
    <3> QED BY <3>2, <2>1, <1>11
  <2>4. a # x /\ a # m /\ a # n - 8 BY <2>1, <2>2, <1>2
  <2> QED BY <2>3, <2>4 DEF CutAt
<1>12. ASSUME NEW b \in B, b # x
       PROVE  /\ header_to_footer(w, b) = header_to_footer(h, b)
              /\ w.mem[header_to_footer(h, b)] = h.mem[header_to_footer(h, b)]
  <2>1. header_to_footer(w, b) = header_to_footer(h, b) BY <1>10, <1>12 DEF header_to_footer
  <2> DEFINE f == header_to_footer(h, b)
  <2>2. f \in Addr /\ b < f /\ f < find_next(h, b) BY <1>1, FootIs
  <2> HIDE DEF f
  <2>3. w.mem[f] = h.mem[f] BY <2>2, <1>11, <1>12
  <2> QED BY <2>1, <2>3 DEF f
<1>13. Shape(w, B2)
  <2>1. w \in Heap /\ w.heap_start = 8 /\ w.brk % 16 = 0 /\ w.brk >= 16
    BY <1>1, <1>9 DEF Shape, SameRoots
  <2>2. \A c \in B2 : c \in Addr /\ c % 16 = 8 /\ get_size(w, c) >= 16
    <3> TAKE c \in B2
    <3>1. CASE c = x BY <3>1, <1>2, <1>4, <1>5
    <3>2. CASE c = m BY <3>2, <1>4, <1>6
    <3>3. CASE c # x /\ c \in B
      <4>1. get_size(h, c) >= 16 BY <3>3, <1>1, BlockIs
      <4> QED BY <4>1, <3>3, <1>10
    <3> QED BY <3>1, <3>2, <3>3
  <2>3. ASSUME NEW c \in B2
        PROVE find_next(w, c) <= End(w) /\ find_next(w, c) \in B2 \cup {End(w)}
    <3>1. CASE c = x BY <3>1, <1>2, <1>5, <1>9
    <3>2. CASE c = m BY <3>2, <1>2, <1>6, <1>9
    <3>3. CASE c # x /\ c \in B
      <4>1. find_next(h, c) <= End(h) BY <3>3, <1>1, BlockIs
      <4> QED BY <4>1, <3>3, <1>9, <1>10
    <3> QED BY <3>1, <3>2, <3>3
  <2>4. ASSUME NEW c \in B2, NEW d \in B2, c < d PROVE find_next(w, c) <= d
    <3>1. CASE c = m
      <4>1. d \in B /\ d \in Nat BY <3>1, <2>4, <1>1, BlockIs
      <4>2. x < d BY <4>1, <3>1, <2>4, <1>2
      <4>3. n <= d BY <4>1, <4>2, <1>1, NoneInside
      <4> QED BY <4>3, <3>1, <1>6
    <3>2. CASE c = x
      <4>1. CASE d = m BY <3>2, <4>1, <1>5
      <4>2. CASE d \in B
        <5>1. n <= d /\ d \in Nat BY <3>2, <4>2, <2>4, <1>1, NoneInside, BlockIs
        <5> QED BY <5>1, <3>2, <1>5
      <4> QED BY <4>1, <4>2
    <3>3. CASE c \in B /\ c # x
      <4>1. CASE d \in B BY <3>3, <4>1, <2>4, <1>1, <1>10, NoneInside
      <4>2. CASE d = m
        <5>1. c \in Nat /\ find_next(h, c) \in Nat BY <3>3, <1>1, BlockIs
        <5>2. c < x
          <6> SUFFICES ASSUME ~(c < x) PROVE FALSE OBVIOUS
          <6>1. x < c BY <5>1, <3>3, <1>2
          <6>2. n <= c BY <6>1, <3>3, <1>1, NoneInside
          <6> QED BY <6>2, <5>1, <4>2, <2>4
        <5>3. find_next(h, c) <= x BY <5>2, <3>3, <1>1, NoneInside
        <5>4. find_next(h, c) <= m BY <5>1, <5>3, <1>2
        <5> QED BY <5>4, <4>2, <3>3, <1>10
      <4> QED BY <4>1, <4>2
    <3> QED BY <3>1, <3>2, <3>3
  <2>5. ASSUME NEW c \in B2 \cup {End(w)}, c # 8 PROVE \E d \in B2 : find_next(w, d) = c
    <3>1. CASE c = m BY <3>1, <1>5
    <3>2. CASE c = n BY <3>2, <1>6
    <3>3. CASE c # m /\ c # n
      <4>1. c \in B \cup {End(h)} BY <3>3, <1>9
      <4>2. PICK d \in B : find_next(h, d) = c BY <4>1, <2>5, <1>1 DEF Shape
      <4> QED BY <4>2, <3>3, <1>10
    <3> QED BY <3>1, <3>2, <3>3
  <2>6. 8 \in B2 \cup {End(w)} BY <1>1, <1>9 DEF Shape
  <2> QED BY <2>1, <2>2, <2>3, <2>4, <2>5, <2>6 DEF Shape
<1>14. Flags(w, B2)
  <2>0. ASSUME NEW d \in B \cup {End(h)}, d # x, d # n
        PROVE  /\ get_prev_alloc(w, d) = get_prev_alloc(h, d)
               /\ get_prev_mini(w, d) = get_prev_mini(h, d) /\ w.mem[d] = h.mem[d]
    <3>1. d \in Addr /\ d % 16 = 8 /\ d # m
      <4>1. CASE d \in B BY <4>1, <2>0, <1>10
      <4>2. CASE d = End(h) BY <4>2, <1>1, <1>3, EndIs
      <4> QED BY <4>1, <4>2
    <3>2. w.mem[d] = h.mem[d] BY <3>1, <2>0, <1>8
    <3> QED BY <3>2, SameHeader
  <2>1. ASSUME NEW c \in B2
        PROVE  /\ get_prev_alloc(w, find_next(w, c)) = get_alloc(w, c)
               /\ get_prev_mini(w, find_next(w, c)) = (get_size(w, c) = 16)
    <3>1. CASE c = x BY <3>1, <1>5, <1>6
    <3>2. CASE c = m BY <3>2, <1>6, <1>7
    <3>3. CASE c # x /\ c \in B
      <4> DEFINE d == find_next(h, c)
      <4>1. d \in B \cup {End(h)} /\ find_next(w, c) = d /\ d # n BY <3>3, <1>10
      <4>2. get_prev_alloc(h, d) = get_alloc(h, c) /\ get_prev_mini(h, d) = (get_size(h, c) = 16)
        BY <3>3, <1>1 DEF Flags
      <4> HIDE DEF d
      <4>3. get_prev_alloc(w, d) = get_prev_alloc(h, d) /\ get_prev_mini(w, d) = get_prev_mini(h, d)
        <5>1. CASE d = x BY <5>1, <1>5
        <5>2. CASE d # x BY <5>2, <4>1, <2>0
        <5> QED BY <5>1, <5>2
      <4> QED BY <4>1, <4>2, <4>3, <3>3, <1>10
    <3> QED BY <3>1, <3>2, <3>3
  <2>2. get_prev_alloc(w, 8)
    <3>1. 8 \in B \cup {End(h)} /\ get_prev_alloc(h, 8) BY <1>1 DEF Shape, Flags
    <3>2. CASE 8 = x BY <3>1, <3>2, <1>5
    <3>3. CASE 8 # x
      <4>1. 8 # n BY <1>2
      <4> QED BY <4>1, <3>1, <3>3, <2>0
    <3> QED BY <3>2, <3>3
  <2>3. w.mem[End(w)] = pack(0, get_prev_mini(w, End(w)), get_prev_alloc(w, End(w)), TRUE)
    <3>1. CASE End(h) = n
      <4>1. get_size(h, n) = 0 BY <3>1, EndHeader
      <4>2. get_alloc(h, n) = TRUE
        <5>1. get_alloc(h, n) \in BOOLEAN BY <1>1, HeaderIs
        <5> QED BY <5>1
      <4>3. w.mem[n] = pack(0, n - m = 16, FALSE, TRUE) BY <4>1, <4>2 DEF CutAt
      <4>4. w.mem[n] = pack(0, get_prev_mini(w, n), get_prev_alloc(w, n), TRUE) BY <4>3, <1>7
      <4> QED BY <4>4, <3>1, <1>9
    <3>2. CASE End(h) # n
      <4>1. End(h) # x BY <1>2
      <4>2. h.mem[End(h)] = pack(0, get_prev_mini(h, End(h)), get_prev_alloc(h, End(h)), TRUE)
        BY <1>1 DEF Flags
      <4>3. /\ get_prev_alloc(w, End(h)) = get_prev_alloc(h, End(h))
            /\ get_prev_mini(w, End(h)) = get_prev_mini(h, End(h)) /\ w.mem[End(h)] = h.mem[End(h)]
        BY <4>1, <3>2, <2>0
      <4> QED BY <4>2, <4>3, <1>9
    <3> QED BY <3>1, <3>2
  <2> QED BY <2>1, <2>2, <2>3 DEF Flags
<1>15. n - m # 16 => w.mem[header_to_footer(w, m)] = w.mem[m]
  <2>1. m \in B2 OBVIOUS
  <2>2. header_to_footer(w, m) = find_next(w, m) - 8 BY <2>1, <1>13, FootIs
  <2> QED BY <2>2, <1>6 DEF CutAt
<1>16. Feet(w, B2)
  <2> SUFFICES ASSUME NEW c \in B2, ~get_alloc(w, c), get_size(w, c) # 16
               PROVE  extract_size(w.mem[header_to_footer(w, c)]) = get_size(w, c)
    BY DEF Feet
  <2>1. CASE c = m BY <2>1, <1>6, <1>15 DEF get_size
  <2>2. CASE c # m
    <3>1. c \in B /\ c # x BY <2>2, <1>5
    <3> QED BY <3>1, <1>1, <1>10, <1>12 DEF Feet
  <2> QED BY <2>1, <2>2
<1>17. FreeIn(w, B2) \ {m} = FreeIn(h, B) /\ HeldIn(w, B2) = HeldIn(h, B)
  <2>1. \A b \in B : get_alloc(w, b) <=> get_alloc(h, b)
    <3> TAKE b \in B
    <3>1. CASE b = x BY <3>1, <1>5
    <3>2. CASE b # x BY <3>2, <1>10
    <3> QED BY <3>1, <3>2
  <2> QED BY <2>1, <1>3, <1>6 DEF FreeIn, HeldIn
<1>18. Kept(h, w, B \ {x}) BY <1>10, <1>11 DEF Kept
<1>19. Lists(w, FreeIn(w, B2) \ {m})
  <2> DEFINE G == FreeIn(h, B)
  <2>1. G \subseteq B /\ G \subseteq B \ {x} BY DEF FreeIn
  <2> HIDE DEF G
  <2>2. Kept(h, w, G) BY <2>1, <1>18 DEF Kept
  <2>3. Lists(h, G) BY DEF G
  <2>4. Lists(w, G) BY <2>1, <2>2, <2>3, <1>9, ListsKept
  <2> QED BY <2>4, <1>17 DEF G
<1>20. Kept(h, w, HeldIn(h, B) \ {x}) BY <1>18 DEF Kept, HeldIn
<1>21. Loose(w, B2, m) BY <1>6, <1>13, <1>14, <1>16, <1>19 DEF Loose, Tiled
<1>22. Apart(w, B2, 0)
  <2> SUFFICES ASSUME NEW b \in B2, ~get_alloc(w, b)
               PROVE  get_alloc(w, find_next(w, b))
    BY DEF Apart
  <2>1. CASE b = m BY <2>1, <1>6, <1>7
  <2>2. CASE b # m
    <3>1. b \in B /\ b # x BY <2>2, <1>5
    <3> DEFINE d == find_next(h, b)
    <3>2. find_next(w, b) = d /\ d \in B \cup {End(h)} /\ d # n /\ b # 0 /\ ~get_alloc(h, b)
      BY <3>1, <1>10
    <3>3. d # 0
      <4>1. \A c \in B : c # 0 BY <1>10, <1>2
      <4>2. End(h) # 0 BY <1>1, EndIs
      <4> QED BY <4>1, <4>2, <3>2
    <3>4. get_alloc(h, d) BY <3>1, <3>2, <3>3 DEF Apart
    <3> HIDE DEF d
    <3>5. CASE d \in B
      <4>1. CASE d = x BY <4>1, <3>2, <1>5
      <4>2. CASE d # x BY <4>2, <3>2, <3>4, <3>5, <1>10
      <4> QED BY <4>1, <4>2
    <3>6. CASE d = End(h)
      <4>1. Tiled(w, B2) BY <1>21 DEF Loose
      <4>2. get_alloc(w, End(w)) BY <4>1, EndHeader
      <4> QED BY <4>2, <3>2, <3>6, <1>9
    <3> QED BY <3>2, <3>5, <3>6
  <2> QED BY <2>1, <2>2
<1>23. Whole(w, B2, 0)
  <2> SUFFICES ASSUME NEW b \in B2, ~get_alloc(w, b), get_size(w, b) # 16
               PROVE  w.mem[header_to_footer(w, b)] = w.mem[b]
    BY DEF Whole
  <2>1. CASE b = m BY <2>1, <1>6, <1>15
  <2>2. CASE b # m
    <3>1. b \in B /\ b # x BY <2>2, <1>5
    <3>2. b # n /\ b # 0 /\ ~get_alloc(h, b) /\ get_size(h, b) # 16
      <4>1. b # 0 /\ ~get_alloc(h, b) /\ get_size(h, b) # 16 BY <3>1, <1>10
      <4> QED BY <4>1
    <3>3. w.mem[b] = h.mem[b] BY <3>1, <3>2, <1>8, <1>10
    <3>4. h.mem[header_to_footer(h, b)] = h.mem[b] BY <3>1, <3>2 DEF Whole
    <3> QED BY <3>1, <3>3, <3>4, <1>12
  <2> QED BY <2>1, <2>2
<1> QED BY <1>5, <1>9, <1>17, <1>20, <1>21, <1>22, <1>23 DEF Parted

-----------------------------------------------------------------------------
(* A block is given away.                                                  *)

(* A heap in which x, which is in no list any more, has been marked as     *)
(* allocated.                                                              *)
Taken(h, w, B, x) ==
  /\ Good(w, B) /\ x \in B /\ HeldIn(w, B) = HeldIn(h, B) \cup {x} /\ x \notin HeldIn(h, B)
  /\ Kept(h, w, HeldIn(h, B)) /\ w.brk = h.brk
  /\ get_size(w, x) = get_size(h, x) /\ get_alloc(w, x)
  /\ find_next(w, x) = find_next(h, x) /\ get_alloc(w, find_next(w, x))

(* Marking a free block that is in no list as allocated makes the heap     *)
(* good: its header, not the lists, decides that it is held.               *)
LEMMA Take ==
  ASSUME NEW h, NEW B, NEW x, Loose(h, B, x), Apart(h, B, 0), Whole(h, B, 0),
         NEW w, w = rewrite_block(h, x, get_size(h, x), TRUE)
  PROVE  Taken(h, w, B, x)
<1> DEFINE n == find_next(h, x)
           al == TRUE
           H == HeldIn(h, B)
<1> HIDE DEF H
<1>1. Tiled(h, B) /\ x \in B /\ ~get_alloc(h, x) /\ Lists(h, FreeIn(h, B) \ {x}) /\ Shape(h, B)
  BY DEF Loose, Tiled
<1>2. al \in BOOLEAN /\ al /\ w = rewrite_block(h, x, get_size(h, x), al) OBVIOUS
<1> HIDE DEF al
<1>3. Retiled(h, w, x, n, al, B) BY <1>1, <1>2, Mark
<1>4. /\ \A b \in B \ {x} : /\ get_size(w, b) = get_size(h, b) /\ get_alloc(w, b) = get_alloc(h, b)
                            /\ find_next(w, b) = find_next(h, b)
                            /\ header_to_footer(w, b) = header_to_footer(h, b)
                            /\ w.mem[header_to_footer(h, b)] = h.mem[header_to_footer(h, b)]
                            /\ b # n => w.mem[b] = h.mem[b]
      /\ \A b \in B : find_next(w, b) = find_next(h, b)
      /\ get_alloc(w, End(h)) /\ get_alloc(h, End(h)) /\ End(w) = End(h)
      /\ FreeIn(w, B) \ {x} = FreeIn(h, B) \ {x} /\ HeldIn(w, B) \ {x} = HeldIn(h, B) \ {x}
      /\ Lists(h, FreeIn(h, B) \ {x}) => Lists(w, FreeIn(h, B) \ {x})
  <2>1. Marked(h, w, B, x) BY ONLY <1>1, <1>2, <1>3, MarkKeeps
  <2> QED BY <2>1 DEF Marked
<1>5. /\ Tiled(w, B) /\ w.brk = h.brk /\ get_alloc(w, x) /\ find_next(w, x) = n
      /\ get_size(w, x) = n - x /\ Kept(h, w, B \ {x})
  BY <1>2, <1>3 DEF Retiled
<1>6. /\ n \in B \cup {End(h)} /\ n = x + get_size(h, x) /\ get_size(h, x) \in Nat /\ x \in Nat
      /\ n # x /\ n # 0 /\ x # 0
  BY <1>1, BlockIs
<1> HIDE DEF n
<1>7. get_size(w, x) = get_size(h, x)
  <2>1. n - x = get_size(h, x) BY <1>6
  <2> QED BY <2>1, <1>5
<1>8. FreeIn(w, B) = FreeIn(h, B) \ {x}
  <2>1. x \notin FreeIn(w, B) BY <1>5 DEF FreeIn
  <2> QED BY <2>1, <1>4
<1>9. x \notin H /\ HeldIn(w, B) = H \cup {x}
  <2>1. x \notin H /\ x \in HeldIn(w, B) BY <1>1, <1>5 DEF HeldIn, H
  <2> QED BY <2>1, <1>4 DEF H
<1>10. Lists(w, FreeIn(w, B)) BY <1>1, <1>4, <1>8
<1>11. Kept(h, w, H) BY <1>5, <1>9 DEF Kept, HeldIn, H
<1>12. Apart(w, B, 0)
  <2> SUFFICES ASSUME NEW b \in B, ~get_alloc(w, b) PROVE get_alloc(w, find_next(w, b))
    BY DEF Apart
  <2> DEFINE d == find_next(h, b)
  <2>1. b # x BY <1>5
  <2>2. find_next(w, b) = d /\ ~get_alloc(h, b) BY <2>1, <1>4
  <2>3. d \in B \cup {End(h)} BY <1>1, BlockIs
  <2>4. b # 0 /\ d # 0
    <3>1. \A c \in B : c # 0 BY <1>1, Far
    <3>2. End(h) # 0 BY <1>1, EndIs
    <3> QED BY <3>1, <3>2, <2>3
  <2>5. get_alloc(h, d) BY <2>2, <2>4 DEF Apart
  <2> HIDE DEF d
  <2> QED BY <2>2, <2>3, <2>5, <1>1, <1>4
<1>13. get_alloc(w, n)
  <2>1. get_alloc(h, n) BY <1>1, <1>6 DEF Apart, n
  <2> QED BY <2>1, <1>4, <1>6
<1>14. Whole(w, B, 0)
  <2> SUFFICES ASSUME NEW b \in B, ~get_alloc(w, b), get_size(w, b) # 16
               PROVE  w.mem[header_to_footer(w, b)] = w.mem[b]
    BY DEF Whole
  <2>1. b # x /\ b # n BY <1>5, <1>13
  <2>2. b # 0 BY <1>1, Far
  <2>3. ~get_alloc(h, b) /\ get_size(h, b) # 16 BY <2>1, <1>4
  <2>4. h.mem[header_to_footer(h, b)] = h.mem[b] BY <2>2, <2>3 DEF Whole
  <2> QED BY <2>1, <2>4, <1>4
<1>15. Good(w, B) BY <1>5, <1>10, <1>12, <1>14 DEF Good
<1> QED BY <1>1, <1>5, <1>7, <1>9, <1>11, <1>13, <1>15 DEF Taken, n, H

(* A block given away: those that were held are as before, and it is large *)
(* enough.                                                                 *)
Given(h, w, x, asize, H) ==
  \E B : /\ Good(w, B) /\ HeldIn(w, B) = H \cup {x} /\ x \notin H /\ Kept(h, w, H) /\ w.brk = h.brk
         /\ get_size(w, x) >= asize

(* What is too much of a block becomes a free block.                       *)
LEMMA Split ==
  ASSUME NEW h, NEW B, Good(h, B), NEW x \in HeldIn(h, B), get_alloc(h, find_next(h, x)),
         NEW asize \in Nat, asize % 16 = 0, asize >= 16, asize <= get_size(h, x),
         NEW w, w = split_block(h, x, asize)
  PROVE  Given(h, w, x, asize, HeldIn(h, B) \ {x})
<1> DEFINE n == find_next(h, x)
           H == HeldIn(h, B) \ {x}
           m == x + asize
           rest == get_size(h, x) - asize
           mini == asize = 16
           yes == TRUE
           no == FALSE
           v == write_block(rewrite_block(h, x, asize, yes), m, rest, mini, yes, no)
           B2 == B \cup {m}
<1>1. Tiled(h, B) /\ x \in B /\ get_alloc(h, x) /\ Apart(h, B, 0) /\ Whole(h, B, 0)
      /\ Lists(h, FreeIn(h, B)) /\ Shape(h, B)
  BY DEF Good, HeldIn, Tiled
<1>2. get_size(h, x) \in Nat /\ get_size(h, x) % 16 = 0 BY <1>1, BlockIs
<1>3. CASE rest < 16
  <2>1. w = h BY <1>3 DEF split_block
  <2>2. HeldIn(h, B) = H \cup {x} /\ x \notin H OBVIOUS
  <2>3. Kept(h, h, H) BY DEF Kept
  <2> HIDE DEF H
  <2> QED BY <2>1, <2>2, <2>3 DEF Given, H
<1>4. CASE ~(rest < 16)
  <2>0. asize \in Nat /\ asize % 16 = 0 /\ asize >= 16 OBVIOUS
  <2>1. asize < get_size(h, x) BY <1>2, <1>4
  <2>2. w = insert_free_block(v, m) BY <1>4 DEF split_block, write_rest
  <2> HIDE DEF n, H, v, B2
  <2>3. m = x + asize /\ rest = get_size(h, x) - asize OBVIOUS
  <2>4. v = write_block(rewrite_block(h, x, asize, yes), m, rest, mini, yes, no) BY DEF v
  <2>44. mini = (asize = 16) /\ yes = TRUE /\ no = FALSE
    OBVIOUS
  <2> HIDE DEF m, rest, mini, yes, no
  <2>5. n = find_next(h, x) BY DEF n
  <2>6. CutAt(h, v, x, m, n) /\ Between(x, m, n)
    BY ONLY <1>1, <2>0, <2>1, <2>3, <2>4, <2>44, <2>5, Cut
  <2>7. /\ Loose(v, B2, m) /\ Apart(v, B2, 0) /\ Whole(v, B2, 0)
        /\ HeldIn(v, B2) = HeldIn(h, B) /\ Kept(h, v, HeldIn(h, B) \ {x})
        /\ get_size(v, x) = m - x /\ v.brk = h.brk
    <3>1. B2 = B \cup {m} BY DEF B2
    <3>2. get_alloc(h, n) BY <2>5
    <3>3. Parted(h, v, B, B2, x, m) BY ONLY <1>1, <2>5, <2>6, <3>1, <3>2, CutIs
    <3> QED BY <3>3 DEF Parted
  <2>8. Good(w, B2) /\ Alike(v, w, B2) /\ Kept(v, w, HeldIn(v, B2)) BY <2>2, <2>7, Settle
  <2>9. HeldIn(w, B2) = H \cup {x} /\ x \notin H
    <3>1. HeldIn(w, B2) = HeldIn(v, B2) BY <2>8 DEF Alike
    <3> QED BY <3>1, <2>7 DEF H
  <2>10. Kept(h, w, H)
    <3>1. H \subseteq HeldIn(v, B2) BY <2>7 DEF H
    <3>2. Kept(h, v, H) BY <2>7 DEF H
    <3>3. Kept(v, w, HeldIn(v, B2)) BY <2>8
    <3> QED BY <3>1, <3>2, <3>3, KeptTrans
  <2>11. get_size(w, x) >= asize
    <3>1. x \in B2 BY <1>1 DEF B2
    <3>2. get_size(w, x) = get_size(v, x) BY <3>1, <2>8 DEF Alike
    <3>3. x \in Nat BY <1>1, BlockIs
    <3> QED BY <3>2, <3>3, <2>3, <2>7
  <2>12. w.brk = h.brk BY <2>7, <2>8 DEF Alike
  <2> QED BY <2>8, <2>9, <2>10, <2>11, <2>12 DEF Given, H
<1> QED BY <1>3, <1>4

(* A free block in no list is given away.                                  *)
LEMMA Allocate ==
  ASSUME NEW h, NEW B, NEW x, Loose(h, B, x), Apart(h, B, 0), Whole(h, B, 0),
         NEW asize \in Nat, asize % 16 = 0, asize >= 16, asize <= get_size(h, x),
         NEW w, w = allocate(h, x, asize)
  PROVE  Given(h, w, x, asize, HeldIn(h, B))
<1> DEFINE v == rewrite_block(h, x, get_size(h, x), TRUE)
           H == HeldIn(h, B)
<1>1. w = split_block(v, x, asize) BY DEF allocate
<1>2. Taken(h, v, B, x) BY Take
<1> HIDE DEF v, H
<1>3. /\ Good(v, B) /\ x \in B /\ HeldIn(v, B) = H \cup {x} /\ x \notin H
      /\ Kept(h, v, H) /\ v.brk = h.brk /\ get_size(v, x) = get_size(h, x)
      /\ get_alloc(v, find_next(v, x))
  BY <1>2 DEF Taken, H
<1>4. x \in HeldIn(v, B) /\ asize <= get_size(v, x) BY <1>3
<1>5. Given(v, w, x, asize, HeldIn(v, B) \ {x}) BY <1>1, <1>3, <1>4, Split
<1>6. HeldIn(v, B) \ {x} = H BY <1>3
<1>7. PICK B2 : /\ Good(w, B2) /\ HeldIn(w, B2) = H \cup {x} /\ x \notin H /\ Kept(v, w, H)
                /\ w.brk = v.brk /\ get_size(w, x) >= asize
  BY <1>5, <1>6 DEF Given
<1>8. Kept(h, w, H) BY <1>3, <1>7, KeptTrans
<1> QED BY <1>3, <1>7, <1>8 DEF Given, H

(* A free block that a list has is given away.                             *)
LEMMA Place ==
  ASSUME NEW h, NEW B, Good(h, B), NEW x \in FreeIn(h, B),
         NEW asize \in Nat, asize % 16 = 0, asize >= 16, asize <= get_size(h, x),
         NEW r, r = place(h, x, asize)
  PROVE  r.bp = x + 8 /\ Given(h, r.heap, x, asize, HeldIn(h, B))
<1> DEFINE F == FreeIn(h, B)
           H == HeldIn(h, B)
           v == remove_free_block(h, x)
           w == allocate(v, x, asize)
<1>1. r.bp = x + 8 /\ r.heap = w BY DEF place, header_to_payload
<1> HIDE DEF w
<1>2. Tiled(h, B) /\ x \in B /\ ~get_alloc(h, x) /\ Apart(h, B, 0) /\ Whole(h, B, 0)
      /\ Lists(h, F) /\ F \subseteq B /\ x \in F
  BY DEF Good, FreeIn
<1> HIDE DEF F, v
<1>3. LinksOnly(h, v, F) /\ Lists(v, F \ {x}) BY <1>2, RemoveFree DEF v
<1>4. Tiled(v, B) /\ Alike(h, v, B) /\ Kept(h, v, B \ F) BY <1>2, <1>3, LinksAlike
<1>5. Apart(v, B, 0) /\ Whole(v, B, 0) BY <1>2, <1>4, AlikeApart
<1>6. FreeIn(v, B) = F /\ HeldIn(v, B) = H /\ get_size(v, x) = get_size(h, x) /\ ~get_alloc(v, x)
      /\ v.brk = h.brk
  BY <1>2, <1>4 DEF Alike, F
<1>7. Loose(v, B, x) BY <1>2, <1>3, <1>4, <1>6 DEF Loose
<1>8. asize <= get_size(v, x) BY <1>6
<1>9. Given(v, w, x, asize, HeldIn(v, B)) BY <1>5, <1>7, <1>8, Allocate DEF w
<1>10. Kept(h, v, H)
  <2>1. H \subseteq B \ F BY DEF HeldIn, F, FreeIn
  <2> QED BY <2>1, <1>4 DEF Kept
<1> HIDE DEF H
<1>11. PICK B2 : /\ Good(w, B2) /\ HeldIn(w, B2) = H \cup {x} /\ x \notin H /\ Kept(v, w, H)
                 /\ w.brk = v.brk /\ get_size(w, x) >= asize
  BY <1>6, <1>9 DEF Given
<1>12. Kept(h, w, H) BY <1>10, <1>11, KeptTrans
<1> QED BY <1>1, <1>6, <1>11, <1>12 DEF Given, H

(* The first block of the mini list is given away.                         *)
LEMMA ReuseMini ==
  ASSUME NEW h, NEW B, Good(h, B), h.mini_free_root # 0,
         NEW r, r = reuse_mini(h, h.mini_free_root)
  PROVE  r.bp = h.mini_free_root + 8 /\ Given(h, r.heap, h.mini_free_root, 16, HeldIn(h, B))
<1> DEFINE F == FreeIn(h, B)
           H == HeldIn(h, B)
           x == h.mini_free_root
           v == pop_mini_block(h)
           w == rewrite_block(v, x, 16, TRUE)
<1>1. r.bp = x + 8 /\ r.heap = w BY DEF reuse_mini, header_to_payload
<1> HIDE DEF w
<1>2. Tiled(h, B) /\ Apart(h, B, 0) /\ Whole(h, B, 0) /\ Lists(h, F) /\ F \subseteq B
  BY DEF Good, FreeIn
<1> HIDE DEF F, v
<1>3. x \in F /\ get_size(h, x) = 16 /\ LinksOnly(h, v, F) /\ Lists(v, F \ {x})
  BY <1>2, PopMini DEF v
<1>4. Tiled(v, B) /\ Alike(h, v, B) /\ Kept(h, v, B \ F) BY <1>2, <1>3, LinksAlike
<1>5. Apart(v, B, 0) /\ Whole(v, B, 0) BY <1>2, <1>4, AlikeApart
<1> HIDE DEF x
<1>6. FreeIn(v, B) = F /\ HeldIn(v, B) = H /\ get_size(v, x) = 16 /\ ~get_alloc(v, x)
      /\ v.brk = h.brk /\ x \in B
  BY <1>2, <1>3, <1>4 DEF Alike, F, FreeIn
<1>7. Loose(v, B, x) BY <1>2, <1>3, <1>4, <1>6 DEF Loose
<1>8. w = rewrite_block(v, x, get_size(v, x), TRUE) BY <1>6 DEF w
<1>9. Taken(v, w, B, x) BY <1>5, <1>7, <1>8, Take
<1>10. Kept(h, v, H)
  <2>1. H \subseteq B \ F BY DEF HeldIn, F, FreeIn
  <2> QED BY <2>1, <1>4 DEF Kept
<1> HIDE DEF H
<1>11. /\ Good(w, B) /\ HeldIn(w, B) = H \cup {x} /\ x \notin H /\ Kept(v, w, H)
       /\ w.brk = v.brk /\ get_size(w, x) = 16
  BY <1>6, <1>9 DEF Taken
<1>12. Kept(h, w, H) BY <1>10, <1>11, KeptTrans
<1>13. Given(h, w, x, 16, H)
  <2>1. get_size(w, x) >= 16 BY <1>11
  <2>2. w.brk = h.brk BY <1>6, <1>11
  <2> QED BY <2>1, <2>2, <1>11, <1>12 DEF Given
<1> QED BY <1>1, <1>13 DEF H, x

-----------------------------------------------------------------------------
(* malloc_block.                                                           *)

(* The block of a payload that has been handed out: those that were held   *)
(* are as before, and it is large enough.                                  *)
Granted(h, r, asize, H) ==
  /\ r.bp \in Nat
  /\ LET x == payload_to_header(r.bp)
     IN \E B : /\ Good(r.heap, B) /\ HeldIn(r.heap, B) = H \cup {x} /\ x \notin H
               /\ Kept(h, r.heap, H) /\ get_size(r.heap, x) >= asize

(* What malloc_block leaves: the heap as it was, if it cannot grow, or a   *)
(* block for the caller. It grows only if no free block is large enough.   *)
Obtained(h, B, r, asize) ==
  /\ r.bp = 0 \/ r.heap.brk # h.brk => \A b \in FreeIn(h, B) : get_size(h, b) < asize
  /\ \/ r.bp = 0 /\ r.heap = h /\ h.brk + max(asize, chunksize) > MaxHeap
     \/ r.bp # 0 /\ h.brk <= r.heap.brk /\ Granted(h, r, asize, HeldIn(h, B))

(* A block that was given away is granted as the payload behind its        *)
(* header.                                                                 *)
LEMMA GivenIs ==
  ASSUME NEW h, NEW r, NEW x \in Nat, NEW asize, NEW H, r.bp = x + 8, Given(h, r.heap, x, asize, H)
  PROVE  r.bp # 0 /\ r.heap.brk = h.brk /\ Granted(h, r, asize, H)
<1>1. payload_to_header(r.bp) = x BY DEF payload_to_header
<1>2. r.bp \in Nat OBVIOUS
<1> QED BY <1>1, <1>2 DEF Given, Granted

(* No free block is large enough where the search has found none.          *)
LEMMA NoFit ==
  ASSUME NEW h, NEW B, Good(h, B), NEW asize \in Nat, asize >= 16, find_fit(h, asize) = 0,
         asize = 16 => h.mini_free_root = 0
  PROVE  \A b \in FreeIn(h, B) : get_size(h, b) < asize
<1> DEFINE F == FreeIn(h, B)
<1>1. Tiled(h, B) /\ Lists(h, F) /\ F \subseteq B BY DEF Good, FreeIn
<1> HIDE DEF F
<1>2. \A b \in Others(h, F) : get_size(h, b) < asize BY <1>1, FindFit
<1>3. asize = 16 => Minis(h, F) = {}
  <2> SUFFICES ASSUME asize = 16, Minis(h, F) # {} PROVE FALSE OBVIOUS
  <2>1. PICK n, r : Ranked(h, F, r, n) BY <1>1 DEF Lists
  <2>2. n \in Nat /\ r \in [Addr -> 0 .. n] /\ MiniList(h, F, r) BY <2>1 DEF Ranked
  <2>3. Minis(h, F) \subseteq Addr \ {0} BY <1>1, Far DEF Minis
  <2>4. h.mini_free_root \in Minis(h, F) BY <2>2, <2>3, MiniRoot
  <2> QED BY <2>3, <2>4
<1>4. \A b \in F : get_size(h, b) < asize
  <2> TAKE b \in F
  <2>1. CASE get_size(h, b) = 16
    <3>1. asize # 16 BY <2>1, <1>3 DEF Minis
    <3> QED BY <3>1, <2>1
  <2>2. CASE get_size(h, b) # 16 BY <2>2, <1>2 DEF Others
  <2> QED BY <2>1, <2>2
<1> QED BY <1>4 DEF F

(* A block is taken from the heap that has grown.                          *)
LEMMA PlaceGrown ==
  ASSUME NEW h, NEW B, Good(h, B), NEW asize \in Nat, asize % 16 = 0, asize >= 16, asize < SizeMod,
         \A b \in FreeIn(h, B) : get_size(h, b) < asize,
         NEW r, r = place_grown(extend_heap(h, max(asize, chunksize)), asize)
  PROVE  Obtained(h, B, r, asize)
<1> DEFINE s == max(asize, chunksize)
           g == extend_heap(h, s)
           H == HeldIn(h, B)
<1>1. s \in Nat /\ s % 16 = 0 /\ s >= 16 /\ s < SizeMod /\ s >= asize
  <2>1. chunksize < SizeMod BY MmAssumption
  <2> QED BY <2>1, MmAssumption DEF max
<1>2. r = place_grown(g, asize) OBVIOUS
<1> HIDE DEF s
<1>3. Extended(h, g, s, H) BY <1>1, ExtendHeap
<1> HIDE DEF g, H
<1>4. CASE h.brk + s > MaxHeap /\ g.heap = h /\ g.block = 0
  <2>1. r.bp = 0 /\ r.heap = h BY <1>2, <1>4 DEF place_grown
  <2> QED BY <2>1, <1>4 DEF Obtained, s
<1>5. CASE /\ h.brk + s <= MaxHeap /\ g.heap.brk = h.brk + s /\ g.block # 0
           /\ \E B2 : /\ Good(g.heap, B2) /\ HeldIn(g.heap, B2) = H /\ Kept(h, g.heap, H)
                      /\ g.block \in FreeIn(g.heap, B2) /\ get_size(g.heap, g.block) >= s
  <2>1. PICK B2 : /\ Good(g.heap, B2) /\ HeldIn(g.heap, B2) = H /\ Kept(h, g.heap, H)
                  /\ g.block \in FreeIn(g.heap, B2) /\ get_size(g.heap, g.block) >= s
    BY <1>5
  <2> DEFINE v == g.heap
             x == g.block
  <2>2. r = place(v, x, asize) BY <1>2, <1>5 DEF place_grown
  <2> HIDE DEF v, x
  <2>3. Good(v, B2) /\ HeldIn(v, B2) = H /\ Kept(h, v, H) /\ x \in FreeIn(v, B2) /\ v.brk = h.brk + s
        /\ get_size(v, x) >= s
    BY <2>1, <1>5 DEF v, x
  <2>4. x \in Nat /\ get_size(v, x) \in Nat
    <3>1. Shape(v, B2) /\ x \in B2 BY <2>3 DEF Good, Tiled, FreeIn
    <3> QED BY <3>1, BlockIs
  <2>5. asize <= get_size(v, x) BY <2>3, <2>4, <1>1
  <2>6. r.bp = x + 8 /\ Given(v, r.heap, x, asize, H)
    <3>1. r.bp = x + 8 /\ Given(v, r.heap, x, asize, HeldIn(v, B2)) BY <2>2, <2>3, <2>5, Place
    <3> QED BY <3>1, <2>3
  <2>7. r.bp # 0 /\ r.heap.brk = v.brk /\ Granted(v, r, asize, H) BY <2>4, <2>6, GivenIs
  <2>8. Granted(h, r, asize, H)
    <3> DEFINE y == payload_to_header(r.bp)
    <3>1. PICK B3 : /\ Good(r.heap, B3) /\ HeldIn(r.heap, B3) = H \cup {y} /\ y \notin H
                    /\ Kept(v, r.heap, H) /\ get_size(r.heap, y) >= asize
      BY <2>7 DEF Granted
    <3>2. Kept(h, r.heap, H) BY <3>1, <2>3, KeptTrans
    <3>3. r.bp \in Nat BY <2>7 DEF Granted
    <3> QED BY <3>1, <3>2, <3>3 DEF Granted
  <2>9. h.brk <= r.heap.brk
    <3>1. h.brk \in Nat
      <4>1. Shape(h, B) BY DEF Good, Tiled
      <4> QED BY <4>1, EndIs, AddrIs
    <3> QED BY <3>1, <2>3, <2>7, <1>1
  <2> QED BY <2>7, <2>8, <2>9 DEF Obtained, H
<1> QED BY <1>3, <1>4, <1>5 DEF Extended

(* malloc_block grants a block, or leaves the heap as it was, and it grows *)
(* the heap or fails only where it must.                                   *)
LEMMA MallocBlock ==
  ASSUME NEW h, NEW B, Good(h, B), NEW asize \in Nat, asize % 16 = 0, asize >= 16, asize < SizeMod,
         NEW r, r = malloc_block(h, asize)
  PROVE  Obtained(h, B, r, asize)
<1> DEFINE fit == find_fit(h, asize)
           H == HeldIn(h, B)
<1>0. Tiled(h, B) /\ Shape(h, B) /\ Lists(h, FreeIn(h, B)) /\ FreeIn(h, B) \subseteq B
  BY DEF Good, Tiled, FreeIn
<1>1. h.brk \in Nat BY <1>0, EndIs, AddrIs
<1>2. CASE asize = 16 /\ h.mini_free_root # 0
  <2> DEFINE x == h.mini_free_root
  <2>1. r = reuse_mini(h, x) BY <1>2 DEF malloc_block
  <2>2. r.bp = x + 8 /\ Given(h, r.heap, x, 16, H) BY <2>1, <1>2, ReuseMini
  <2>3. x \in Nat BY <1>0, AddrIs DEF Shape, Heap
  <2> HIDE DEF x, H
  <2>4. Given(h, r.heap, x, asize, H) BY <1>2, <2>2
  <2>5. r.bp # 0 /\ r.heap.brk = h.brk /\ Granted(h, r, asize, H) BY <2>2, <2>3, <2>4, GivenIs
  <2> QED BY <2>5, <1>1 DEF Obtained, H
<1>3. CASE ~(asize = 16 /\ h.mini_free_root # 0)
  <2>1. r = place_fit(h, fit, asize) BY <1>3 DEF malloc_block
  <2>2. CASE fit = 0
    <3>1. r = place_grown(extend_heap(h, max(asize, chunksize)), asize)
      BY <2>1, <2>2 DEF place_fit
    <3>2. \A b \in FreeIn(h, B) : get_size(h, b) < asize BY <2>2, <1>3, NoFit
    <3> QED BY <3>1, <3>2, PlaceGrown
  <2>3. CASE fit # 0
    <3>1. r = place(h, fit, asize) BY <2>1, <2>3 DEF place_fit
    <3> HIDE DEF fit, H
    <3>2. fit \in FreeIn(h, B) /\ get_size(h, fit) >= asize BY <1>0, <2>3, FindFit DEF fit
    <3>3. fit \in Nat /\ get_size(h, fit) \in Nat BY <1>0, <3>2, BlockIs
    <3>4. asize <= get_size(h, fit) BY <3>2, <3>3
    <3>5. r.bp = fit + 8 /\ Given(h, r.heap, fit, asize, H) BY <3>1, <3>2, <3>4, Place DEF H
    <3>6. r.bp # 0 /\ r.heap.brk = h.brk /\ Granted(h, r, asize, H) BY <3>3, <3>5, GivenIs
    <3> QED BY <3>6, <1>1 DEF Obtained, H
  <2> QED BY <2>2, <2>3
<1> QED BY <1>2, <1>3

-----------------------------------------------------------------------------
(* mm_init and malloc.                                                     *)

(* The sizes for which the size of a block is found without a wrap-around. *)
Fits(size) == size \in Nat /\ size <= SizeMod - wsize - dsize

(* The block for a request has room for it and its header. The hypothesis  *)
(* is needed: beyond, the sum wraps around.                                *)
LEMMA AdjustedSize ==
  ASSUME NEW size, Fits(size)
  PROVE  /\ adjusted_size(size) \in Nat /\ adjusted_size(size) % 16 = 0
         /\ adjusted_size(size) >= 16 /\ adjusted_size(size) < SizeMod
         /\ adjusted_size(size) >= size + 8
<1> DEFINE q == (size + 23) \div 16
           t == 16 * q
<1>1. size \in Nat /\ size + 23 < SizeMod /\ size + 8 < SizeMod /\ SizeMod \in Nat /\ size + 8 \in Nat
  BY MmAssumption DEF Fits
<1>2. (size + 8) % SizeMod = size + 8
  <2> DEFINE u == size + 8
  <2>1. u \in Nat /\ u < SizeMod BY <1>1
  <2> HIDE DEF u
  <2>2. u % SizeMod = u BY <2>1, <1>1
  <2> QED BY <2>2 DEF u
<1>3. (size + 8 + 16 - 1) % SizeMod = size + 23
  <2> DEFINE u == size + 23
  <2>1. u \in Nat /\ u < SizeMod /\ size + 8 + 16 - 1 = u BY <1>1
  <2> HIDE DEF u
  <2>2. u % SizeMod = u BY <2>1, <1>1
  <2>3. (size + 8 + 16 - 1) % SizeMod = u BY <2>1, <2>2
  <2> QED BY <2>3 DEF u
<1>4. round_up((size + 8) % SizeMod, 16) = t
  <2>1. round_up(size + 8, 16) = 16 * (((size + 8 + 16 - 1) % SizeMod) \div 16) BY DEF round_up
  <2>2. round_up(size + 8, 16) = 16 * ((size + 23) \div 16) BY <2>1, <1>3
  <2> QED BY <2>2, <1>2
<1>5. adjusted_size(size) = max(t, 16) BY <1>4 DEF adjusted_size
<1>6. t \in Nat /\ t % 16 = 0 /\ t < SizeMod /\ t >= size + 8
  <2>1. q \in Nat /\ 16 * q <= size + 23 /\ size + 23 < 16 * q + 16 BY <1>1
  <2> QED BY <2>1, <1>1
<1> HIDE DEF t
<1>7. 16 < SizeMod BY MmAssumption
<1> QED BY <1>1, <1>5, <1>6, <1>7 DEF max

(* A heap as the allocator meets it for the first time.                    *)
Fresh(h) ==
  h \in Heap /\ h.brk = 0 /\ h.mini_free_root = 0

(* The heap before its first block.                                        *)
LEMMA StartHeap ==
  ASSUME NEW h, Fresh(h), NEW w, w = start_heap(no_roots(h), h.brk)
  PROVE  Good(w, {}) /\ w.brk = 16
<1> DEFINE v == mem_sbrk(no_roots(h), 16)
           word == pack(0, FALSE, TRUE, TRUE)
           u == Store(v, 0, word)
           w1 == Store(u, 8, word)
<1>1. 0 \in Addr /\ 8 \in Addr /\ 16 \in Addr BY AddrIs, MmAssumption
<1>2. w = [w1 EXCEPT !.heap_start = 8]
  BY DEF start_heap, write_epilogue, Fresh
<1>3. v \in Heap /\ v.brk = 16 /\ v.mini_free_root = 0 /\ v.free_roots = [i \in Roots |-> 0]
  <2> DEFINE z == [i \in Roots |-> 0]
             g == no_roots(h)
  <2>1. z \in [Roots -> Addr] BY <1>1
  <2>2. g = [h EXCEPT !.free_roots = z] BY DEF no_roots, Roots
  <2> HIDE DEF z, g
  <2>3. g \in Heap /\ g.brk = 0 /\ g.mini_free_root = 0 /\ g.free_roots = z
    BY <2>1, <2>2 DEF Fresh, Heap
  <2>4. v = [g EXCEPT !.brk = 16] BY <2>3 DEF mem_sbrk, g
  <2>5. v \in Heap /\ v.brk = 16 /\ v.mini_free_root = 0 /\ v.free_roots = z
    BY <2>3, <2>4, <1>1 DEF Heap
  <2> QED BY <2>5 DEF z
<1>4. word \in Nat BY DEF word, pack, Bit
<1> HIDE DEF v, u, w1
<1>5. u \in Heap /\ SameRoots(v, u) /\ u.brk = 16
  <2> DEFINE z == 0
  <2>1. z \in Addr /\ u = Store(v, z, word) BY <1>1 DEF u
  <2> HIDE DEF word, u, z
  <2>2. SameRoots(v, u) /\ u \in Heap /\ u.brk = v.brk BY <2>1, <1>3, <1>4, StoreIs
  <2> QED BY <2>2, <1>3
<1>6. w1 \in Heap /\ SameRoots(u, w1) /\ w1.brk = 16 /\ w1.mem[8] = word
  <2> DEFINE z == 8
  <2>1. z \in Addr /\ w1 = Store(u, z, word) BY <1>1 DEF w1
  <2> HIDE DEF word, w1, z
  <2>2. SameRoots(u, w1) /\ w1 \in Heap /\ w1.brk = u.brk /\ w1.mem[z] = word
    BY <2>1, <1>4, <1>5, StoreIs
  <2> QED BY <2>2, <1>5 DEF z
<1>7. /\ w \in Heap /\ w.brk = 16 /\ w.heap_start = 8 /\ w.mem[8] = word /\ w.mini_free_root = 0
      /\ w.free_roots = [i \in Roots |-> 0]
  BY <1>1, <1>2, <1>3, <1>5, <1>6 DEF Heap, SameRoots
<1>8. End(w) = 8 BY <1>7 DEF End
<1>9. Shape(w, {}) BY <1>7, <1>8 DEF Shape
<1>10. get_prev_alloc(w, 8) = TRUE /\ get_prev_mini(w, 8) = FALSE
  <2> DEFINE pm == FALSE
             pa == TRUE
             b == 8
  <2>1. pm \in BOOLEAN /\ pa \in BOOLEAN /\ w.mem[b] = pack(0, pm, pa, TRUE) BY <1>7
  <2> HIDE DEF pm, pa, b
  <2>2. get_prev_alloc(w, b) = pa /\ get_prev_mini(w, b) = pm BY <2>1, EndSays
  <2> QED BY <2>2 DEF pm, pa, b
<1>11. Flags(w, {}) BY <1>7, <1>8, <1>10 DEF Flags
<1>12. Feet(w, {}) BY DEF Feet
<1>13. Apart(w, {}, 0) /\ Whole(w, {}, 0) BY DEF Apart, Whole
<1>14. Lists(w, FreeIn(w, {}))
  <2> DEFINE r == [a \in Addr |-> 0]
             n == 0
  <2>0. FreeIn(w, {}) = {} BY DEF FreeIn
  <2>1. Minis(w, {}) = {} /\ Others(w, {}) = {} BY DEF Minis, Others
  <2>2. n \in Nat /\ r \in [Addr -> 0 .. n] OBVIOUS
  <2> HIDE DEF r, n
  <2>3. MiniList(w, {}, r) BY <1>7, <2>1 DEF MiniList
  <2>4. FreeLists(w, {}, r) BY <1>7, <2>1 DEF FreeLists
  <2>5. Ranked(w, {}, r, n) BY <2>2, <2>3, <2>4 DEF Ranked
  <2> QED BY <2>0, <2>5 DEF Lists
<1> QED BY <1>7, <1>9, <1>11, <1>12, <1>13, <1>14 DEF Good, Tiled

(* A heap that can be used: its allocated blocks are H, and it has had its *)
(* first chunk.                                                            *)
InUse(h, H) == h.brk >= 16 + chunksize /\ \E B : Good(h, B) /\ HeldIn(h, B) = H

(* mm_init makes a good heap of a fresh one.                               *)
LEMMA MmInit ==
  ASSUME NEW h, Fresh(h), NEW w, w = mm_init(h)
  PROVE  InUse(w, {})
<1> DEFINE v == start_heap(no_roots(h), h.brk)
           g == extend_heap(v, chunksize)
           H == HeldIn(v, {})
<1>1. ~mem_sbrk_fails(h, 16)
  <2>1. h.brk = 0 BY DEF Fresh
  <2> QED BY <2>1, MmAssumption DEF mem_sbrk_fails
<1>2. w = g.heap
  <2>1. mem_sbrk_fails(h, 2 * 8) = mem_sbrk_fails(h, 16) OBVIOUS
  <2> QED BY <1>1, <2>1 DEF mm_init
<1>3. Good(v, {}) /\ v.brk = 16 BY StartHeap
<1> HIDE DEF v
<1>4. chunksize \in Nat /\ chunksize % 16 = 0 /\ chunksize >= 16 /\ chunksize < SizeMod
  BY MmAssumption
<1>5. Extended(v, g, chunksize, H) BY <1>3, <1>4, ExtendHeap
<1>6. H = {} BY DEF HeldIn
<1> HIDE DEF g, H
<1>7. ~(v.brk + chunksize > MaxHeap) BY <1>3, MmAssumption
<1>8. /\ g.heap.brk = v.brk + chunksize
      /\ \E B : Good(g.heap, B) /\ HeldIn(g.heap, B) = H
  BY <1>5, <1>7 DEF Extended
<1> QED BY <1>2, <1>3, <1>4, <1>6, <1>8 DEF InUse

(* A heap all of whose blocks have been given back is one block: the mini  *)
(* list is empty, and the heap is as good as fresh once the break is reset. *)
LEMMA Reset ==
  ASSUME NEW h, InUse(h, {})
  PROVE  Fresh(mem_reset_brk(h))
<1>1. PICK B : Good(h, B) /\ HeldIn(h, B) = {} BY DEF InUse
<1>2. Tiled(h, B) /\ Shape(h, B) /\ Apart(h, B, 0) /\ Lists(h, FreeIn(h, B)) /\ h \in Heap
  BY <1>1 DEF Good, Tiled, Shape
<1>3. \A b \in B : ~get_alloc(h, b) BY <1>1 DEF HeldIn
<1>4. \A b \in B : b # 0 /\ find_next(h, b) = End(h)
  <2> TAKE b \in B
  <2>1. b # 0 /\ find_next(h, b) # 0 /\ find_next(h, b) \in B \cup {End(h)}
    BY <1>2, BlockIs
  <2>2. get_alloc(h, find_next(h, b)) BY <2>1, <1>2, <1>3 DEF Apart
  <2> QED BY <2>1, <2>2, <1>3
<1>5. \A b \in B : b = 8 /\ get_size(h, b) # 16
  <2> TAKE b \in B
  <2>1. b = 8
    <3> SUFFICES ASSUME b # 8 PROVE FALSE OBVIOUS
    <3>1. PICK c \in B : find_next(h, c) = b BY <1>2 DEF Shape
    <3>2. End(h) \notin B BY <1>2, EndHeader
    <3> QED BY <3>1, <3>2, <1>4
  <2>2. End(h) >= 8 + chunksize /\ End(h) \in Nat
    <3>1. End(h) = h.brk - 8 /\ End(h) \in Nat /\ h.brk \in Nat BY <1>2, EndIs, AddrIs
    <3> QED BY <3>1, MmAssumption DEF InUse
  <2>3. End(h) = 8 + get_size(h, b) /\ get_size(h, b) \in Nat BY <2>1, <1>2, <1>4, BlockIs
  <2> QED BY <2>1, <2>2, <2>3, MmAssumption
<1>6. h.mini_free_root = 0
  <2>1. PICK n, r : Ranked(h, FreeIn(h, B), r, n) BY <1>2 DEF Lists
  <2>2. Minis(h, FreeIn(h, B)) = {} BY <1>5 DEF Minis, FreeIn
  <2> QED BY <2>1, <2>2 DEF Ranked, MiniList
<1> QED BY <1>2, <1>6, AddrIs DEF Fresh, mem_reset_brk, Heap

(* What a caller of malloc is left with. H are the blocks held before.     *)
Served(h, r, size, H) ==
  \/ r.bp = 0 /\ InUse(r.heap, H) /\ Kept(h, r.heap, H)
  \/ /\ r.bp # 0 /\ r.heap.brk >= 16 + chunksize
     /\ Granted(h, r, size + 8, H)

(* A heap that malloc may be called for: in use, or not initialized yet.   *)
Usable(h, H) ==
  \/ h.heap_start = 0 /\ Fresh(h) /\ H = {} /\ h.free_roots = [i \in Roots |-> 0]
  \/ h.heap_start # 0 /\ InUse(h, H)

(* A heap in use has been initialized.                                     *)
LEMMA InUseIs ==
  ASSUME NEW h, NEW H, InUse(h, H)
  PROVE  h.heap_start = 8 /\ h \in Heap
BY DEF InUse, Good, Tiled, Shape

(* The heap that malloc starts from.                                       *)
LEMMA Ready ==
  ASSUME NEW h, NEW H, Usable(h, H), NEW w, w = IF h.heap_start = 0 THEN mm_init(h) ELSE h
  PROVE  InUse(w, H) /\ Kept(h, w, H)
<1>1. CASE h.heap_start = 0
  <2>1. H = {} /\ InUse(w, {}) BY <1>1, MmInit DEF Usable
  <2> QED BY <2>1 DEF Kept
<1>2. CASE h.heap_start # 0 BY <1>2 DEF Usable, Kept
<1> QED BY <1>1, <1>2

(* malloc, which initializes the heap where that has not been done.        *)
LEMMA MallocIs ==
  ASSUME NEW h, NEW H, Usable(h, H), NEW size, Fits(size), NEW r, r = malloc(h, size)
  PROVE  Served(h, r, size, H)
<1> DEFINE w == IF h.heap_start = 0 THEN mm_init(h) ELSE h
           asize == adjusted_size(size)
<1>1. InUse(w, H) /\ Kept(h, w, H) BY Ready
<1>2. r = IF size = 0 THEN [heap |-> w, bp |-> 0] ELSE malloc_block(w, asize) BY DEF malloc
<1> HIDE DEF w
<1>3. CASE size = 0 BY <1>1, <1>2, <1>3 DEF Served
<1>4. CASE size # 0
  <2>1. r = malloc_block(w, asize) BY <1>2, <1>4
  <2>2. asize \in Nat /\ asize % 16 = 0 /\ asize >= 16 /\ asize < SizeMod /\ asize >= size + 8
    BY AdjustedSize
  <2> HIDE DEF asize
  <2>3. PICK B : Good(w, B) /\ HeldIn(w, B) = H BY <1>1 DEF InUse
  <2>4. Obtained(w, B, r, asize) BY <2>1, <2>2, <2>3, MallocBlock
  <2>5. CASE r.bp = 0 /\ r.heap = w BY <2>5, <1>1 DEF Served
  <2>6. CASE r.bp # 0 /\ w.brk <= r.heap.brk /\ Granted(w, r, asize, H)
    <3> DEFINE x == payload_to_header(r.bp)
    <3>1. PICK B2 : /\ Good(r.heap, B2) /\ HeldIn(r.heap, B2) = H \cup {x} /\ x \notin H
                    /\ Kept(w, r.heap, H) /\ get_size(r.heap, x) >= asize
      BY <2>6 DEF Granted
    <3>2. Kept(h, r.heap, H) BY <3>1, <1>1, KeptTrans
    <3>3. get_size(r.heap, x) >= size + 8
      <4>1. x \in B2 /\ Shape(r.heap, B2) BY <3>1 DEF HeldIn, Good, Tiled
      <4>2. get_size(r.heap, x) \in Nat BY <4>1, BlockIs
      <4> QED BY <4>2, <3>1, <2>2 DEF Fits
    <3>4. r.heap.brk >= 16 + chunksize
      <4>1. Shape(r.heap, B2) /\ Shape(w, B) BY <3>1, <2>3 DEF Good, Tiled
      <4>2. r.heap.brk \in Nat /\ w.brk \in Nat BY <4>1, EndIs, AddrIs
      <4>3. w.brk >= 16 + chunksize BY <1>1 DEF InUse
      <4> QED BY <4>2, <4>3, <2>6, MmAssumption
    <3>5. Granted(h, r, size + 8, H)
      <4>1. r.bp \in Nat BY <2>6 DEF Granted
      <4> QED BY <4>1, <3>1, <3>2, <3>3 DEF Granted
    <3> QED BY <3>4, <3>5, <2>6 DEF Served
  <2> QED BY <2>4, <2>3, <2>5, <2>6 DEF Obtained
<1> QED BY <1>3, <1>4

-----------------------------------------------------------------------------
(* free, and the data of the blocks.                                       *)

(* The heap after words inside the block at x have been written.           *)
Filled(h, w, x) ==
  /\ w \in Heap /\ w.brk = h.brk /\ SameRoots(h, w)
  /\ \A a \in Addr : a <= x \/ find_next(h, x) <= a => w.mem[a] = h.mem[a]

(* Writing inside a block that is held leaves the heap as it is.           *)
LEMMA Fill ==
  ASSUME NEW h, NEW B, Good(h, B), NEW x \in HeldIn(h, B), NEW w, Filled(h, w, x)
  PROVE  Good(w, B) /\ Alike(h, w, B) /\ Kept(h, w, B \ {x})
<1>1. Tiled(h, B) /\ Shape(h, B) /\ x \in B /\ get_alloc(h, x) /\ Apart(h, B, 0) /\ Whole(h, B, 0)
      /\ Lists(h, FreeIn(h, B))
  BY DEF Good, Tiled, HeldIn
<1>2. x \in Nat /\ find_next(h, x) \in Nat BY <1>1, BlockIs
<1>3. ASSUME NEW c \in B \cup {End(h)} PROVE c \in Addr /\ w.mem[c] = h.mem[c]
  <2>1. c \in Nat /\ c \in Addr
    <3>1. CASE c \in B BY <3>1, <1>1, BlockIs
    <3>2. CASE c = End(h) BY <3>2, <1>1, EndIs
    <3> QED BY <3>1, <3>2
  <2>2. c <= x \/ find_next(h, x) <= c
    <3>1. CASE c <= x BY <3>1
    <3>2. CASE x < c BY <3>2, <1>1, NoneInside
    <3> QED BY <3>1, <3>2, <2>1, <1>2
  <2> QED BY <2>1, <2>2 DEF Filled
<1>4. ASSUME NEW c \in B, c # x, NEW a \in Addr, c < a, a < find_next(h, c)
      PROVE  w.mem[a] = h.mem[a]
  <2>1. c \in Nat /\ a \in Nat /\ find_next(h, c) \in Nat BY <1>1, BlockIs, AddrIs
  <2>2. a <= x \/ find_next(h, x) <= a
    <3> SUFFICES ASSUME x < a, a < find_next(h, x) PROVE FALSE BY <2>1, <1>2
    <3>1. x <= a /\ c <= a BY <2>1, <1>2, <1>4
    <3>2. c = x BY <3>1, <2>1, <1>1, <1>4, SameInside
    <3> QED BY <3>2, <1>4
  <2> QED BY <2>2 DEF Filled
<1>5. SameTiles(h, w, B)
  <2>1. ASSUME NEW c \in B, ~get_alloc(h, c)
        PROVE  w.mem[header_to_footer(h, c)] = h.mem[header_to_footer(h, c)]
    <3> DEFINE f == header_to_footer(h, c)
    <3>1. f \in Addr /\ c < f /\ f < find_next(h, c) BY <1>1, FootIs
    <3>2. c # x BY <2>1, <1>1
    <3> HIDE DEF f
    <3>3. w.mem[f] = h.mem[f] BY <3>1, <3>2, <1>4
    <3> QED BY <3>3 DEF f
  <2> QED BY <2>1, <1>3 DEF SameTiles
<1>6. w \in Heap /\ w.brk = h.brk /\ w.heap_start = h.heap_start /\ SameRoots(h, w)
  BY DEF Filled, SameRoots
<1>7. Tiled(w, B) /\ Alike(h, w, B)
  <2>1. /\ Tiled(w, B) /\ End(w) = End(h)
        /\ \A c \in B \cup {End(h)} :
               /\ get_size(w, c) = get_size(h, c) /\ get_alloc(w, c) = get_alloc(h, c)
               /\ get_prev_alloc(w, c) = get_prev_alloc(h, c)
               /\ get_prev_mini(w, c) = get_prev_mini(h, c)
               /\ find_next(w, c) = find_next(h, c)
               /\ header_to_footer(w, c) = header_to_footer(h, c)
         /\ FreeIn(w, B) = FreeIn(h, B) /\ HeldIn(w, B) = HeldIn(h, B)
    BY <1>1, <1>5, <1>6, SameTiled
  <2> QED BY <2>1, <1>5, <1>6 DEF Alike
<1>8. Apart(w, B, 0) /\ Whole(w, B, 0) BY <1>1, <1>7, AlikeApart
<1>9. Kept(h, w, B \ {x}) BY <1>4, <1>7 DEF Kept, Alike
<1>10. Lists(w, FreeIn(w, B))
  <2> DEFINE F == FreeIn(h, B)
  <2>1. F \subseteq B /\ F \subseteq B \ {x} BY <1>1 DEF FreeIn
  <2> HIDE DEF F
  <2>2. Kept(h, w, F) BY <2>1, <1>9 DEF Kept
  <2>3. Lists(h, F) BY <1>1 DEF F
  <2>4. Lists(w, F) BY <2>1, <2>2, <2>3, <1>1, <1>6, ListsKept
  <2> QED BY <2>4, <1>7 DEF F, Alike
<1> QED BY <1>7, <1>8, <1>9, <1>10 DEF Good

(* A block that is held lies in the heap, with its payload.                *)
LEMMA InUseHeld ==
  ASSUME NEW h, NEW H, InUse(h, H), NEW x \in H
  PROVE  /\ x \in Addr /\ x \in Nat /\ x % 16 = 8 /\ x + 8 \in Addr /\ x # 0
         /\ get_size(h, x) \in Nat /\ get_size(h, x) % 16 = 0 /\ get_size(h, x) >= 16
         /\ find_next(h, x) = x + get_size(h, x) /\ find_next(h, x) <= h.brk - 8
         /\ get_alloc(h, x) /\ h.brk \in Nat /\ h.brk <= MaxHeap
<1>1. PICK B : Good(h, B) /\ HeldIn(h, B) = H BY DEF InUse
<1>2. x \in B /\ get_alloc(h, x) /\ Shape(h, B) BY <1>1 DEF HeldIn, Good, Tiled
<1>3. h.brk \in Nat /\ h.brk <= MaxHeap /\ End(h) = h.brk - 8 BY <1>2, EndIs, AddrIs
<1> QED BY <1>2, <1>3, BlockIs

(* Two blocks that are held do not overlap.                                *)
LEMMA InUseApart ==
  ASSUME NEW h, NEW H, InUse(h, H), NEW x \in H, NEW y \in H, x < y
  PROVE  find_next(h, x) <= y
<1>1. PICK B : Good(h, B) /\ HeldIn(h, B) = H BY DEF InUse
<1>2. x \in B /\ y \in B /\ Shape(h, B) BY <1>1 DEF HeldIn, Good, Tiled
<1> QED BY <1>2, NoneInside

(* The blocks of S have the sizes that they had.                           *)
SameSizes(h, w, S) ==
  \A c \in S : get_size(w, c) = get_size(h, c) /\ find_next(w, c) = find_next(h, c)

(* Writing inside a block that is held keeps all others and all sizes.     *)
LEMMA FillInUse ==
  ASSUME NEW h, NEW H, InUse(h, H), NEW x \in H, NEW w, Filled(h, w, x)
  PROVE  InUse(w, H) /\ Kept(h, w, H \ {x}) /\ SameSizes(h, w, H)
<1>1. PICK B : Good(h, B) /\ HeldIn(h, B) = H BY DEF InUse
<1>2. Good(w, B) /\ Alike(h, w, B) /\ Kept(h, w, B \ {x}) BY <1>1, Fill
<1>3. H \subseteq B BY <1>1 DEF HeldIn
<1>4. HeldIn(w, B) = H /\ w.brk = h.brk BY <1>1, <1>2 DEF Alike
<1>5. Kept(h, w, H \ {x}) BY <1>2, <1>3 DEF Kept
<1>6. InUse(w, H) BY <1>2, <1>4 DEF InUse
<1>7. SameSizes(h, w, H) BY <1>2, <1>3 DEF Alike, SameSizes
<1> QED BY <1>5, <1>6, <1>7

(* The block of a payload that has been granted joins those that are held. *)
LEMMA GrantedIs ==
  ASSUME NEW h, NEW r, NEW size \in Nat, NEW H, NEW x, x = payload_to_header(r.bp),
         r.heap.brk >= 16 + chunksize, Granted(h, r, size + 8, H)
  PROVE  /\ r.bp \in Nat /\ InUse(r.heap, H \cup {x}) /\ x \notin H /\ Kept(h, r.heap, H)
         /\ get_size(r.heap, x) >= size + 8
<1>1. PICK B : /\ Good(r.heap, B) /\ HeldIn(r.heap, B) = H \cup {x} /\ x \notin H
               /\ Kept(h, r.heap, H) /\ get_size(r.heap, x) >= size + 8
  BY DEF Granted
<1>2. r.bp \in Nat BY DEF Granted
<1> QED BY <1>1, <1>2 DEF InUse

(* free gives a block back; the data of the others stay.                   *)
LEMMA FreeIs ==
  ASSUME NEW h, NEW H, InUse(h, H), NEW x \in H, NEW bp, bp = x + 8, NEW w, w = free(h, bp)
  PROVE  InUse(w, H \ {x}) /\ Kept(h, w, H \ {x})
<1>1. PICK B : Good(h, B) /\ HeldIn(h, B) = H BY DEF InUse
<1>2. x \in Nat BY InUseHeld
<1>3. w = free_block(h, x) BY <1>2 DEF free, payload_to_header
<1>4. PICK B2 : /\ Good(w, B2) /\ HeldIn(w, B2) = H \ {x}
                /\ Kept(h, w, H \ {x}) /\ w.brk = h.brk
  BY <1>1, <1>3, FreeBlock
<1> QED BY <1>4 DEF InUse

(* The words of a payload are overwritten.                                 *)
LEMMA Memset ==
  ASSUME NEW h, NEW H, InUse(h, H), NEW x \in H, NEW bp, bp = x + 8,
         NEW n \in Nat, n + 8 <= get_size(h, x), NEW word \in Nat, NEW w, w = memset(h, bp, word, n)
  PROVE  /\ Filled(h, w, x)
         /\ \A a \in Addr : a \in bp .. bp + n - 1 => w.mem[a] = word
<1>1. /\ x \in Nat /\ find_next(h, x) = x + get_size(h, x) /\ get_size(h, x) \in Nat
  BY InUseHeld
<1>2. h \in Heap BY InUseIs
<1> DEFINE g == [a \in Addr |-> IF a \in bp .. bp + n - 1 THEN word ELSE h.mem[a]]
<1>3. g \in [Addr -> Nat] BY <1>2 DEF Heap
<1>4. w = [h EXCEPT !.mem = g] BY DEF memset
<1>5. \A a \in Addr : a <= x \/ find_next(h, x) <= a => g[a] = h.mem[a]
  <2> TAKE a \in Addr
  <2>1. a \in Nat BY AddrIs
  <2> QED BY <2>1, <1>1
<1>6. \A a \in Addr : a \in bp .. bp + n - 1 => g[a] = word OBVIOUS
<1> HIDE DEF g
<1>7. w \in Heap /\ w.brk = h.brk /\ SameRoots(h, w) /\ w.mem = g
  BY <1>2, <1>3, <1>4 DEF Heap, SameRoots
<1> QED BY <1>5, <1>6, <1>7 DEF Filled

(* The data of one payload are copied to another.                          *)
LEMMA CopyOld ==
  ASSUME NEW h, NEW H, InUse(h, H), NEW p \in H, NEW x \in H, NEW ptr, ptr = p + 8,
         NEW bp, bp = x + 8, NEW size \in Nat, size + 8 <= get_size(h, x),
         NEW w, w = copy_old(h, ptr, bp, size)
  PROVE  /\ Filled(h, w, x)
         /\ \A a \in Addr : a \in bp .. bp + size - 1 /\ a < x + get_size(h, p) =>
                w.mem[a] = h.mem[a - bp + ptr]
<1> DEFINE n == IF size < get_size(h, p) - 8 THEN size ELSE get_size(h, p) - 8
           g == [a \in Addr |-> IF a \in bp .. bp + n - 1 THEN h.mem[a - bp + ptr] ELSE h.mem[a]]
<1>1. /\ x \in Nat /\ find_next(h, x) = x + get_size(h, x) /\ get_size(h, x) \in Nat
      /\ x % 16 = 8
  BY InUseHeld
<1>2. /\ p \in Nat /\ find_next(h, p) = p + get_size(h, p) /\ get_size(h, p) \in Nat
      /\ get_size(h, p) >= 16 /\ get_alloc(h, p) /\ p % 16 = 8 /\ find_next(h, p) <= h.brk - 8
      /\ h.brk \in Nat /\ h.brk <= MaxHeap
  BY InUseHeld
<1>3. h \in Heap BY InUseIs
<1>4. n \in Nat /\ n <= size /\ n <= get_size(h, p) - 8 /\ (n = size \/ n = get_size(h, p) - 8)
  BY <1>2
<1>5. w = [h EXCEPT !.mem = g]
  <2>1. payload_to_header(ptr) = p BY <1>2 DEF payload_to_header
  <2>2. get_payload_size(h, p) = get_size(h, p) - 8 BY <1>2 DEF get_payload_size
  <2>3. copy_old(h, ptr, bp, size) = memcpy(h, bp, ptr, n) BY <2>1, <2>2 DEF copy_old
  <2> QED BY <2>3 DEF memcpy
<1> HIDE DEF n
<1>6. g \in [Addr -> Nat]
  <2>1. ASSUME NEW a \in Addr, a \in bp .. bp + n - 1 PROVE a - bp + ptr \in Addr
    <3>1. a \in Nat /\ a % 8 = 0 BY AddrIs
    <3>2. a - bp + ptr \in Nat /\ a - bp + ptr <= MaxHeap
      BY <2>1, <3>1, <1>1, <1>2, <1>4, MmAssumption
    <3>3. (a - bp + ptr) % 8 = 0
      <4>1. a - bp + ptr = a - x + p BY <3>1, <1>1, <1>2
      <4>2. x % 8 = 0 /\ p % 8 = 0 BY <1>1, <1>2
      <4>3. (a - x + p) % 8 = 0 BY <3>1, <4>2, <1>1, <1>2
      <4> QED BY <4>1, <4>3
    <3> DEFINE c == a - bp + ptr
    <3>4. c \in Nat /\ c <= MaxHeap /\ c % 8 = 0 BY <3>2, <3>3
    <3> HIDE DEF c
    <3>5. c \in Addr BY <3>4, AddrIs
    <3> QED BY <3>5 DEF c
  <2> QED BY <2>1, <1>3 DEF Heap
<1>7. \A a \in Addr : a <= x \/ find_next(h, x) <= a => g[a] = h.mem[a]
  <2> TAKE a \in Addr
  <2>1. a \in Nat BY AddrIs
  <2> QED BY <2>1, <1>1, <1>4
<1>8. \A a \in Addr : a \in bp .. bp + size - 1 /\ a < x + get_size(h, p) => g[a] = h.mem[a - bp + ptr]
  <2> TAKE a \in Addr
  <2>1. a \in Nat BY AddrIs
  <2>2. a \in bp .. bp + size - 1 /\ a < x + get_size(h, p) => a \in bp .. bp + n - 1
    BY <2>1, <1>1, <1>2, <1>4
  <2> QED BY <2>2
<1> HIDE DEF g
<1>9. w \in Heap /\ w.brk = h.brk /\ SameRoots(h, w) /\ w.mem = g
  BY <1>3, <1>5, <1>6 DEF Heap, SameRoots
<1> QED BY <1>7, <1>8, <1>9 DEF Filled

=============================================================================
