------------------------------ MODULE SparseMem ------------------------------
(***************************************************************************)
(* The sparse emulation of malloc/memlib.c: a page of the simulated heap   *)
(* gets a block when it is first touched, found by a hash table of chains, *)
(* and each byte of a block has a bit that says whether it was written.    *)
(*                                                                         *)
(* Addresses are counted from SPARSE_HEAP_START; a word is a sequence of   *)
(* WORD bytes, the low-order one first.                                    *)
(***************************************************************************)
EXTENDS Naturals, SequencesExt

CONSTANTS
  Byte,
  Unwritten,
  WORD,                (* sizeof(uint64_t)                                  *)
  MaxHeap,             (* MAX_SPARSE_HEAP                                   *)
  SPARSE_PAGE_SIZE,
  num_pages,           (* the blocks there are                              *)
  num_buckets,
  Junk                 (* what is in memory beside a block's bytes          *)

ASSUME SparseMemAssumption ==
  /\ WORD \in Nat \ {0} /\ SPARSE_PAGE_SIZE \in Nat /\ SPARSE_PAGE_SIZE >= WORD
  /\ num_pages \in Nat /\ num_buckets \in Nat \ {0} /\ MaxHeap \in Nat
  /\ Junk \notin Byte

VARIABLES
  mem_brk,
  page_table,          (* for each bucket its chain of blocks, newest first *)
  block,               (* the blocks, in the order they are handed out      *)
  num_free_pages,
  checkUB,
  status,              (* "run", "abort" or "exit"                          *)
  call,                (* the last call: its name and arguments             *)
  result               (* what it has returned                              *)

(* get_mem and its callers pass these on from one to the next.             *)
Sim == [table |-> page_table, block |-> block, free |-> num_free_pages, status |-> status]

memVars == <<mem_brk, page_table, block, num_free_pages, checkUB, status, call, result>>

Call(op, at, from, n, val) == [op |-> op, at |-> at, from |-> from, n |-> n, val |-> val]

Block == 1..num_pages
Offset == 0..(SPARSE_PAGE_SIZE - 1)

(* mem_init, and the mem_reset_brk that every user of the heap begins      *)
(* with: the mapping is zero.                                              *)
MemInit ==
  /\ mem_brk = 0
  /\ page_table = [b \in 0..(num_buckets - 1) |-> <<>>]
  /\ block = [k \in Block |-> [id |-> 0, initSet |-> {}, bytes |-> [o \in Offset |-> 0]]]
  /\ num_free_pages = num_pages
  /\ checkUB = TRUE
  /\ status = "run"
  /\ call = Call("reset", 0, 0, 0, <<>>)
  /\ result = <<>>

page_id(addr) == addr \div SPARSE_PAGE_SIZE
page_start(id) == id * SPARSE_PAGE_SIZE
Within(addr) == addr - page_start(page_id(addr))

(* The bytes of the access that are in its first page.                     *)
Touched(addr, size) == {o \in Offset : Within(addr) <= o /\ o < Within(addr) + size}

-----------------------------------------------------------------------------
(* get_mem                                                                 *)

(* The block of a page, 0 if it has none.                                  *)
Lookup(s, id) ==
  LET chain == s.table[id % num_buckets]
      i == SelectInSeq(chain, LAMBDA k : s.block[k].id = id)
  IN IF i = 0 THEN 0 ELSE chain[i]

(* Mutated form: a block that is handed out again keeps its bits.          *)
Allocated_BitsKept(s, id) ==
  LET k == num_pages - s.free + 1
      b == id % num_buckets
  IN [s EXCEPT !.free = @ - 1, !.block[k].id = id, !.table[b] = <<k>> \o @]

(* The next block becomes the page's: none of its bytes is written.        *)
Allocated(s, id) ==
  LET k == num_pages - s.free + 1
      b == id % num_buckets
  IN [s EXCEPT !.free = @ - 1, !.block[k].id = id, !.block[k].initSet = {},
               !.table[b] = <<k>> \o @]

(* s after get_mem: a status other than "run" is the end of the program.   *)
get_mem(s, addr, size, isWrite) ==
  LET id == page_id(addr)
      a == IF Lookup(s, id) = 0 THEN Allocated(s, id) ELSE s
      k == Lookup(a, id)
  IN IF s.status # "run" THEN s
     ELSE IF Lookup(s, id) = 0 /\ s.free = 0 THEN [s EXCEPT !.status = "exit"]
     ELSE IF isWrite THEN [a EXCEPT !.block[k].initSet = @ \cup Touched(addr, size)]
     ELSE IF checkUB /\ ~(Touched(addr, size) \subseteq a.block[k].initSet)
     THEN [a EXCEPT !.status = "abort"]
     ELSE a

(* The word at the place of addr in its block, beyond the block's end too. *)
Load(s, addr) ==
  [i \in 1..WORD |->
     LET o == Within(addr) + i - 1
     IN IF o \in Offset THEN s.block[Lookup(s, page_id(addr))].bytes[o] ELSE Junk]

Store(s, addr, v) ==
  LET k == Lookup(s, page_id(addr))
  IN [s EXCEPT !.block[k].bytes =
        [o \in Offset |-> IF o \in Touched(addr, Len(v)) THEN v[o - Within(addr) + 1] ELSE @[o]]]

-----------------------------------------------------------------------------
(* The accesses                                                            *)

(* The word's n low-order bytes; and w with h above its n low-order bytes, *)
(* where w is zero.                                                        *)
Masked(w, n) == [i \in 1..WORD |-> IF i <= n THEN w[i] ELSE 0]
Above(w, h, n) ==
  [i \in 1..WORD |-> IF i <= n THEN w[i] ELSE IF w[i] = 0 THEN h[i - n] ELSE Junk]

Crosses(addr, len) == page_id(addr) # page_id(addr + len - 1)

(* The bytes from addr to the end of its page.                             *)
llen(addr) == SPARSE_PAGE_SIZE - Within(addr)

(* Mutated form: what is above the first page's bytes stays in the word.   *)
mem_read_NotMasked(s, addr, len) ==
  LET s1 == get_mem(s, addr, len, FALSE)
      n == llen(addr)
      s2 == IF Crosses(addr, len) THEN get_mem(s1, addr + n, len - n, FALSE) ELSE s1
  IN [s |-> s2,
      data |-> IF s2.status # "run" THEN <<>>
               ELSE IF Crosses(addr, len)
               THEN Masked(Above(Load(s2, addr), Load(s2, addr + n), n), len)
               ELSE Masked(Load(s2, addr), len)]

(* A read inside the heap: s after it, and the word it gives.              *)
mem_read(s, addr, len) ==
  LET s1 == get_mem(s, addr, len, FALSE)
      n == llen(addr)
      s2 == IF Crosses(addr, len) THEN get_mem(s1, addr + n, len - n, FALSE) ELSE s1
  IN [s |-> s2,
      data |-> IF s2.status # "run" THEN <<>>
               ELSE IF Crosses(addr, len)
               THEN Masked(Above(Masked(Load(s2, addr), n), Load(s2, addr + n), n), len)
               ELSE Masked(Load(s2, addr), len)]

mem_write(s, addr, val) ==
  LET s1 == get_mem(s, addr, Len(val), TRUE)
      n == llen(addr)
      s2 == get_mem(Store(s1, addr, SubSeq(val, 1, n)), addr + n, Len(val) - n, TRUE)
  IN IF s1.status # "run" THEN s1
     ELSE IF n >= Len(val) THEN Store(s1, addr, val)
     ELSE IF s2.status # "run" THEN s2
     ELSE Store(s2, addr + n, SubSeq(val, n + 1, Len(val)))

(* Where the words of num_bytes bytes begin, and how long each is.         *)
Words(num_bytes) ==
  [i \in 1..((num_bytes + WORD - 1) \div WORD) |->
     LET at == (i - 1) * WORD
     IN [at |-> at, len |-> IF num_bytes - at < WORD THEN num_bytes - at ELSE WORD]]

mem_memcpy(s, dst, src, num_bytes) ==
  FoldLeft(LAMBDA t, w :
             IF t.status # "run" THEN t
             ELSE LET r == mem_read(t, src + w.at, w.len)
                  IN IF r.s.status # "run" THEN r.s
                     ELSE mem_write(r.s, dst + w.at, SubSeq(r.data, 1, w.len)),
           s, Words(num_bytes))

mem_memset(s, dst, c, num_bytes) ==
  FoldLeft(LAMBDA t, w :
             IF t.status # "run" THEN t
             ELSE mem_write(t, dst + w.at, [i \in 1..w.len |-> c]),
           s, Words(num_bytes))

-----------------------------------------------------------------------------
(* The calls.  An access is one inside the heap: any other is made to the  *)
(* program's own memory, and none of a correct client's is.                *)

Becomes(c, s, r) ==
  /\ call' = c
  /\ page_table' = s.table
  /\ block' = s.block
  /\ num_free_pages' = s.free
  /\ status' = s.status
  /\ result' = r
  /\ UNCHANGED <<mem_brk, checkUB>>

Read(addr, len) ==
  /\ addr + len <= mem_brk
  /\ \E r \in {mem_read(Sim, addr, len)} :
       Becomes(Call("read", addr, addr, len, <<>>), r.s, r.data)

Write(addr, val) ==
  /\ addr + Len(val) <= mem_brk
  /\ \E s \in {mem_write(Sim, addr, val)} :
       Becomes(Call("write", addr, addr, Len(val), val), s, <<>>)

Memcpy(dst, src, n) ==
  /\ dst + n <= mem_brk /\ src + n <= mem_brk
  /\ dst + n <= src \/ src + n <= dst
  /\ \E s \in {mem_memcpy(Sim, dst, src, n)} :
       Becomes(Call("memcpy", dst, src, n, <<>>), s, <<>>)

Memset(dst, c, n) ==
  /\ dst + n <= mem_brk
  /\ \E s \in {mem_memset(Sim, dst, c, n)} :
       Becomes(Call("memset", dst, dst, n, c), s, <<>>)

mem_sbrk(incr) ==
  /\ call' = Call("sbrk", 0, 0, incr, <<>>)
  /\ IF mem_brk + incr > MaxHeap
     THEN result' = <<"ENOMEM">> /\ UNCHANGED mem_brk
     ELSE result' = <<mem_brk>> /\ mem_brk' = mem_brk + incr
  /\ UNCHANGED <<page_table, block, num_free_pages, checkUB, status>>

(* The blocks are handed out again, with what was in them.                 *)
mem_reset_brk ==
  /\ call' = Call("reset", 0, 0, 0, <<>>)
  /\ page_table' = [b \in DOMAIN page_table |-> <<>>]
  /\ num_free_pages' = num_pages
  /\ mem_brk' = 0
  /\ result' = <<>>
  /\ UNCHANGED <<block, checkUB, status>>

setUBCheck(val) ==
  /\ call' = Call("setUBCheck", 0, 0, 0, val)
  /\ checkUB' = val
  /\ result' = <<>>
  /\ UNCHANGED <<mem_brk, page_table, block, num_free_pages, status>>

-----------------------------------------------------------------------------
(* The heap as its users see it.                                           *)
mem ==
  [i \in 1..mem_brk |->
     LET k == Lookup(Sim, page_id(i - 1))
     IN IF k # 0 /\ Within(i - 1) \in block[k].initSet
        THEN block[k].bytes[Within(i - 1)]
        ELSE Unwritten]

Flat == INSTANCE FlatMem

(* The emulation is a flat heap: hashing pages to blocks, handing blocks   *)
(* out again after a reset, reads and writes across two pages, and the     *)
(* bits that tell written bytes neither mix up nor lose a byte, and a read *)
(* of an unwritten byte is caught whenever the check is on.                *)
ImplementsFlatMem == Flat!Spec
=============================================================================
