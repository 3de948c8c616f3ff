------------------------------ MODULE MmClient ------------------------------
(***************************************************************************)
(* A program that uses the allocator of Mm and checks it as eval_mm_valid  *)
(* of malloc/mdriver.c does: it records the range of every payload, fills  *)
(* each with data of its own and looks at the data before it frees or      *)
(* moves it. Unlike the driver it also calls calloc, and it goes on after  *)
(* a NULL, as any program may.                                             *)
(***************************************************************************)
EXTENDS Mm

CONSTANTS Index,            \* the ids of a trace, positive numbers
          Sizes,            \* the request sizes
          Counts,           \* the first arguments of calloc
          BalancedTraces    \* TRUE if a trace frees all that it allocates

ASSUME ClientAssumption ==
    /\ Index \subseteq Nat \ {0}
    /\ Sizes \subseteq 0 .. SizeMod - 1
    /\ Counts \subseteq 0 .. SizeMod - 1
    /\ BalancedTraces \in BOOLEAN

VARIABLES heap,
          blocks,        \* trace->blocks
          block_sizes,   \* trace->block_sizes
          ranges,        \* the range set: a tree and a list of the payloads
          allCheck       \* no check has failed

vars == <<heap, blocks, block_sizes, ranges, allCheck>>

-----------------------------------------------------------------------------
(***************************************************************************)
(* The checks of the driver.                                               *)
(***************************************************************************)

\* The data of an id: a word that read as a header is a free block.
Data(index) == 2 * index * dsize

PayloadWords(lo, size) == {a \in Addr : a \in lo .. lo + size - 1}

randomize_block(h, lo, size, index) == memset(h, lo, Data(index), size)

check_index(h, lo, size, index) ==
    \A a \in PayloadWords(lo, size) : h.mem[a] = Data(index)

\* ranges->list and the records of the ranges, by the address that is their key
\* in the tree. The tree is a dictionary here; prev and next are addresses.
NoRanges == [list |-> NULL, at |-> <<>>]

\* tree_find_nearest: the range at lo or the nearest below it.
tree_find_nearest(rs, lo) ==
    IF \A l \in DOMAIN rs.at : l > lo THEN NULL
    ELSE CHOOSE l \in DOMAIN rs.at : l <= lo /\ \A k \in DOMAIN rs.at : k <= lo => k <= l

\* What follows a new range in the list is what followed its predecessor:
\* nothing if it has none.
next_range(rs, prev) == IF prev # NULL THEN rs.at[prev].next ELSE NULL

\* The payload is aligned, in the heap and apart from its neighbours.
add_range_accepts(h, rs, lo, size) ==
    LET hi == lo + size - 1
        prev == tree_find_nearest(rs, lo)
        next == next_range(rs, prev)
    IN /\ lo % dsize = 0
       /\ lo <= h.brk - 1 /\ hi <= h.brk - 1
       /\ prev # NULL => lo > rs.at[prev].hi
       /\ next # NULL => hi < next

add_range(rs, lo, size, index) ==
    LET prev == tree_find_nearest(rs, lo)
        next == next_range(rs, prev)
        new == [hi |-> lo + size - 1, index |-> index, prev |-> prev, next |-> next]
    IN [list |-> IF prev # NULL THEN rs.list ELSE lo,
        at |-> [l \in DOMAIN rs.at \cup {lo} |->
                  IF l = lo THEN new
                  ELSE [rs.at[l] EXCEPT !.next = IF l = prev THEN lo ELSE @,
                                        !.prev = IF l = next THEN lo ELSE @]]]

remove_range(rs, lo) ==
    IF lo \notin DOMAIN rs.at THEN rs
    ELSE LET r == rs.at[lo]
         IN [list |-> IF r.prev # NULL THEN rs.list ELSE r.next,
             at |-> [l \in DOMAIN rs.at \ {lo} |->
                       [rs.at[l] EXCEPT !.next = IF l = r.prev THEN r.next ELSE @,
                                        !.prev = IF l = r.next THEN r.prev ELSE @]]]

-----------------------------------------------------------------------------

Init ==
    /\ heap = [mem |-> [a \in Addr |-> 0], brk |-> 0, heap_start |-> NULL,
               free_roots |-> [i \in 0 .. NUM_ROOTS - 1 |-> NULL],
               mini_free_root |-> NULL]
    /\ blocks = [i \in Index |-> NULL]
    /\ block_sizes = [i \in Index |-> 0]
    /\ ranges = NoRanges
    /\ allCheck = TRUE

\* The block that a call has returned for an id, which rs no longer has, is
\* checked, recorded and filled.
Keep(h, bp, size, index, rs, checked) ==
    /\ heap' = randomize_block(h, bp, size, index)
    /\ blocks' = [blocks EXCEPT ![index] = bp]
    /\ block_sizes' = [block_sizes EXCEPT ![index] = size]
    /\ allCheck' = (allCheck /\ checked /\ add_range_accepts(h, rs, bp, size))
    /\ ranges' = add_range(rs, bp, size, index)

\* An id without a block may be used again.
Forget(h, index, checked) ==
    /\ heap' = h
    /\ blocks' = [blocks EXCEPT ![index] = NULL]
    /\ block_sizes' = [block_sizes EXCEPT ![index] = 0]
    /\ ranges' = remove_range(ranges, blocks[index])
    /\ allCheck' = (allCheck /\ checked)

NoBlock(h) ==
    /\ heap' = h
    /\ UNCHANGED <<blocks, block_sizes, ranges, allCheck>>

Returned(r, size, index, rs, checked) ==
    IF r.bp = NULL THEN NoBlock(r.heap) ELSE Keep(r.heap, r.bp, size, index, rs, checked)

Malloc(index, size) ==
    /\ blocks[index] = NULL
    /\ Returned(malloc(heap, size), size, index, ranges, TRUE)

Cleared(r, size) == \A a \in PayloadWords(r.bp, size) : r.heap.mem[a] = 0

ReturnedClear(r, size, index) == Returned(r, size, index, ranges, Cleared(r, size))

Calloc(index, elements, size) ==
    /\ blocks[index] = NULL
    /\ ReturnedClear(calloc(heap, elements, size), elements * size, index)

\* As much of the old data as both blocks hold.
Moved(r, size, index) ==
    check_index(r.heap, r.bp, IF size < block_sizes[index] THEN size ELSE block_sizes[index],
                index)

ReturnedMoved(r, size, index, before) ==
    IF size = 0 THEN Forget(r.heap, index, before)
    ELSE Returned(r, size, index, remove_range(ranges, blocks[index]),
                  before /\ Moved(r, size, index))

\* The data of the old block are there before, and after as far as both go. A
\* NULL for a size that is not 0 leaves the old block.
Realloc(index, size) ==
    ReturnedMoved(realloc(heap, blocks[index], size), size, index,
                  check_index(heap, blocks[index], block_sizes[index], index))

Free(index) ==
    /\ blocks[index] # NULL
    /\ Forget(free(heap, blocks[index]), index,
              check_index(heap, blocks[index], block_sizes[index], index))

\* Another run of eval_mm_valid: the break is reset, the trace and the ranges
\* start anew and the allocator is initialized again.
NewTrace ==
    /\ BalancedTraces => \A i \in Index : blocks[i] = NULL
    /\ heap' = mm_init(mem_reset_brk(heap))
    /\ blocks' = [i \in Index |-> NULL]
    /\ block_sizes' = [i \in Index |-> 0]
    /\ ranges' = NoRanges
    /\ UNCHANGED allCheck

Next ==
    \/ \E i \in Index : Free(i)
    \/ \E i \in Index, s \in Sizes : Malloc(i, s) \/ Realloc(i, s)
    \/ \E i \in Index, n \in Counts, s \in Sizes : Calloc(i, n, s)
    \/ NewTrace

Spec == Init /\ [][Next]_vars

-----------------------------------------------------------------------------
(***************************************************************************)
(* The blocks of the heap, from the first header to the epilogue, and the  *)
(* lists as sequences of their blocks.                                     *)
(***************************************************************************)

InHeap == {a \in Addr : a < heap.brk}
Epilogue == heap.brk - wsize

\* The blocks met by following the sizes.
Blocks ==
    LET from[b \in InHeap] ==
            IF get_size(heap, b) = 0 \/ find_next(heap, b) \notin InHeap THEN {}
            ELSE {b} \cup from[find_next(heap, b)]
    IN IF heap.heap_start = NULL THEN {} ELSE from[heap.heap_start]

FreeBlocks == {b \in Blocks : ~get_alloc(heap, b)}
IsMini(b) == get_size(heap, b) = new_mini_block_size

\* The blocks that a list has from first on, itself among them: those that are in
\* every set that has first and whatever follows one of its own.
ListFrom(first) ==
    {b \in FreeBlocks :
        \A S \in SUBSET FreeBlocks :
            (/\ first \in FreeBlocks => first \in S
             /\ \A c \in S : LET next == find_free_block_next(heap, c)
                             IN next \in FreeBlocks => next \in S)
            => b \in S}

-----------------------------------------------------------------------------

\* Type invariant.
TypeOK ==
    /\ heap.mem \in [Addr -> Nat]
    /\ heap.brk \in Addr \cup {0}
    /\ heap.heap_start \in Addr /\ heap.mini_free_root \in Addr
    /\ heap.free_roots \in [0 .. NUM_ROOTS - 1 -> Addr]
    /\ blocks \in [Index -> Addr]
    /\ block_sizes \in [Index -> 0 .. SizeMod - 1]
    /\ allCheck \in BOOLEAN

\* Every check of the driver succeeds: each payload is aligned, inside the heap
\* and apart from its neighbours, its data are still there when it is freed or
\* moved, realloc has copied them, and calloc has cleared its block.
DriverAccepts == allCheck

\* The sizes in the headers lead from the first block to the epilogue exactly;
\* each header knows whether the block before it is allocated and mini, which
\* is all that coalescing has to go by; a free block that is not mini has the
\* same word at its end; and no two free blocks are neighbours.
HeapTiled ==
    heap.heap_start # NULL =>
        /\ \A b \in Blocks :
                 LET c == find_next(heap, b)
                 IN /\ c \in Blocks \cup {Epilogue}
                    /\ get_prev_alloc(heap, c) = get_alloc(heap, b)
                    /\ get_prev_mini(heap, c) = IsMini(b)
                    /\ get_alloc(heap, b) \/ get_alloc(heap, c)
        /\ \A b \in FreeBlocks :
                 ~IsMini(b) => heap.mem[header_to_footer(heap, b)] = heap.mem[b]
        /\ get_prev_alloc(heap, heap.heap_start)
        /\ \E pm, pa \in BOOLEAN : heap.mem[Epilogue] = pack(0, pm, pa, TRUE)

\* Each segregated list holds exactly the free blocks of its class, doubly
\* linked, and the mini list the free mini blocks: nothing free is lost, nothing
\* that is handed out is still in a list, and no list comes back to a block.
FreeListsExact ==
    LET Next_(b) == find_free_block_next(heap, b)
        Ends(b) == b \in FreeBlocks \cup {NULL}
    IN /\ \A b \in FreeBlocks : Ends(Next_(b))
       /\ \A i \in 0 .. NUM_ROOTS - 1 :
             LET first == heap.free_roots[i]
             IN /\ Ends(first)
                /\ first # NULL => find_free_block_prev(heap, first) = NULL
                /\ ListFrom(first) =
                      {b \in FreeBlocks : ~IsMini(b) /\ search_root_index(get_size(heap, b)) = i}
       /\ \A b \in FreeBlocks :
             ~IsMini(b) /\ Next_(b) # NULL => find_free_block_prev(heap, Next_(b)) = b
       /\ Ends(heap.mini_free_root)
       /\ ListFrom(heap.mini_free_root) = {b \in FreeBlocks : IsMini(b)}
       /\ \A b, c \in FreeBlocks :
             IsMini(b) /\ IsMini(c) /\ Next_(b) # NULL =>
                Next_(b) # heap.mini_free_root /\ (Next_(b) = Next_(c) => b = c)

\* The two halves of it depend on each other: the flags tell coalescing which
\* blocks to take out of the lists, and the lists tell malloc which blocks of
\* the heap it may change.
HeapConsistent == HeapTiled /\ FreeListsExact

\* The allocated blocks are those that the client holds, each with room for
\* what was asked: splitting, coalescing and realloc lose no block.
BlocksAreHeld ==
    /\ {header_to_payload(b) : b \in Blocks \ FreeBlocks} =
            {blocks[i] : i \in Index} \ {NULL}
    /\ \A i \in Index : blocks[i] # NULL =>
          block_sizes[i] <= get_payload_size(heap, payload_to_header(blocks[i]))

\* A request makes the heap grow, or fails, only when no free block is large
\* enough for it; and it fails only when growing would pass the limit.
GrowthIsNeeded ==
    LET needed(r, asize) ==
            /\ r.bp = NULL \/ r.heap.brk > heap.brk =>
                  ~ \E b \in FreeBlocks : get_size(heap, b) >= asize
            /\ r.bp = NULL => heap.brk + max(asize, chunksize) > MaxHeap
    IN heap.heap_start # NULL =>
          \A s \in Sizes \ {0} : needed(malloc(heap, s), adjusted_size(s))

\* The list of the ranges has every payload that is held. The driver relies on
\* it when it looks at the data of all blocks, and when it looks for an overlap
\* with the payload that follows.
RangesListed ==
    LET list[lo \in Addr] == IF lo = NULL THEN {} ELSE {lo} \cup list[ranges.at[lo].next]
    IN list[ranges.list] = {blocks[i] : i \in Index} \ {NULL}

=============================================================================
