--------------------------------- MODULE Mm ---------------------------------
(***************************************************************************)
(* malloc/mm.c over the simulated heap of malloc/memlib.c: the allocator   *)
(* as operators on a heap record                                           *)
(*   mem             the words of the heap, by byte address (multiples of  *)
(*                   wsize from mem_heap_lo, which is address 0)           *)
(*   brk             mem_brk                                               *)
(*   heap_start, free_roots, mini_free_root   the globals of mm.c          *)
(* A block is the address of its header. Its word, footer and pointers are *)
(* in mem with everything else, so that a function of mm.c that looks at   *)
(* the wrong place reads what is there.                                    *)
(***************************************************************************)
EXTENDS Integers

CONSTANTS NUM_ROOTS,   \* number of segregated lists
          chunksize,   \* bytes the heap grows by at least
          MaxHeap,     \* mem_max_addr
          SizeMod      \* a size_t is a number below SizeMod

ASSUME MmAssumption ==
    /\ NUM_ROOTS \in Nat \ {0}
    /\ \A i \in 0 .. NUM_ROOTS : 2 ^ i \in Nat
    /\ chunksize \in Nat /\ chunksize >= 32 /\ chunksize % 16 = 0
    /\ MaxHeap \in Nat /\ MaxHeap % 8 = 0 /\ MaxHeap >= 16 + chunksize
    /\ SizeMod \in Nat /\ SizeMod % 16 = 0 /\ MaxHeap < SizeMod \div 2

wsize == 8
dsize == 2 * wsize
min_block_size == 2 * dsize
new_mini_block_size == 2 * wsize
NULL == 0

\* The addresses a word of the heap may have. The word at MaxHeap does not
\* belong to the heap; only a function that has lost its way looks at it.
Addr == {wsize * i : i \in 0 .. MaxHeap \div wsize}

max(x, y) == IF x > y THEN x ELSE y

\* round_up in the arithmetic of size_t.
round_up(size, n) == n * (((size + n - 1) % SizeMod) \div n)

Bit(b) == IF b THEN 1 ELSE 0

pack(size, prev_mini, prev_alloc, alloc) ==
    size + 4 * Bit(prev_mini) + 2 * Bit(prev_alloc) + Bit(alloc)

extract_size(word) == word - (word % 16)
extract_alloc(word) == word % 2 = 1
extract_prev_alloc(word) == (word \div 2) % 2 = 1
extract_prev_mini(word) == (word \div 4) % 2 = 1

get_size(h, block) == extract_size(h.mem[block])
get_alloc(h, block) == extract_alloc(h.mem[block])
get_prev_alloc(h, block) == extract_prev_alloc(h.mem[block])
get_prev_mini(h, block) == extract_prev_mini(h.mem[block])

payload_to_header(bp) == bp - wsize
header_to_payload(block) == block + wsize
header_to_footer(h, block) == header_to_payload(block) + get_size(h, block) - dsize
footer_to_header(h, footer) == footer + wsize - extract_size(h.mem[footer])

get_payload_size(h, block) ==
    get_size(h, block) - (IF get_alloc(h, block) THEN wsize ELSE dsize)

find_next(h, block) == block + get_size(h, block)

Store(h, addr, word) == [h EXCEPT !.mem[addr] = word]

write_epilogue(h, block, prev_mini, prev_alloc) ==
    Store(h, block, pack(0, prev_mini, prev_alloc, TRUE))

write_footer(h, block, word) == Store(h, header_to_footer(h, block), word)

\* The header, and the footer of a free block that is not mini.
write_tags(h, block, size, word) ==
    IF extract_alloc(word) \/ size = new_mini_block_size THEN Store(h, block, word)
    ELSE write_footer(Store(h, block, word), block, word)

\* The flags in a header about the block before it.
write_prev_flags(h, block, prev_mini, prev_alloc) ==
    Store(h, block, pack(get_size(h, block), prev_mini, prev_alloc, get_alloc(h, block)))

\* Mutated form: the flag about a mini block is not maintained.
mark_next_NoMiniFlag(h, block, size, alloc) ==
    write_prev_flags(h, find_next(h, block), get_prev_mini(h, find_next(h, block)), alloc)

\* The next block's header is told of this block.
mark_next(h, block, size, alloc) ==
    write_prev_flags(h, find_next(h, block), size = new_mini_block_size, alloc)

write_block(h, block, size, prev_mini, prev_alloc, alloc) ==
    mark_next(write_tags(h, block, size, pack(size, prev_mini, prev_alloc, alloc)),
              block, size, alloc)

\* write_block with the flags about the block before kept.
rewrite_block(h, block, size, alloc) ==
    write_block(h, block, size, get_prev_mini(h, block), get_prev_alloc(h, block), alloc)

\* mem_heap_hi is the last byte below brk.
is_in_heap_boundary(h, addr) == addr <= h.brk - 1

find_prev(h, block) ==
    IF get_prev_alloc(h, block) THEN NULL
    ELSE IF get_prev_mini(h, block)
         THEN LET prev == block - new_mini_block_size
              IN IF is_in_heap_boundary(h, prev) THEN prev ELSE NULL
         ELSE LET footer == block - wsize
              IN IF extract_size(h.mem[footer]) = 0 THEN NULL
                 ELSE footer_to_header(h, footer)

-----------------------------------------------------------------------------
(***************************************************************************)
(* The segregated lists, doubly linked, and the mini list, singly linked.  *)
(* The links are the first words of a free block's payload.                *)
(***************************************************************************)

find_free_block_next(h, block) == h.mem[block + wsize]
find_free_block_prev(h, block) == h.mem[block + dsize]
link_free_block_next(h, block, next) == Store(h, block + wsize, next)
link_free_block_prev(h, block, prev) == Store(h, block + dsize, prev)

\* The largest size of a class doubles from class to class; the last has none.
in_class(size, i) ==
    i = NUM_ROOTS - 1 \/ max(size, min_block_size) <= min_block_size * 2 ^ i

\* The first class that size is in.
search_root_index(size) ==
    CHOOSE i \in 0 .. NUM_ROOTS - 1 :
        in_class(size, i) /\ \A j \in 0 .. i - 1 : ~in_class(size, j)

insert_mini_block(h, block) ==
    [link_free_block_next(h, block, h.mini_free_root) EXCEPT !.mini_free_root = block]

\* The back link, which the end of a list does not have.
set_prev_of(h, next, prev) == IF next # NULL THEN link_free_block_prev(h, next, prev) ELSE h

insert_first(h, block, index) ==
    [set_prev_of(link_free_block_prev(
                    link_free_block_next(h, block, h.free_roots[index]), block, NULL),
                 h.free_roots[index], block) EXCEPT !.free_roots[index] = block]

insert_free_block(h, block) ==
    IF get_size(h, block) = new_mini_block_size THEN insert_mini_block(h, block)
    ELSE insert_first(h, block, search_root_index(get_size(h, block)))

\* The block before this one in the mini list: NULL if it is the first, -1 if it
\* is not in the list. What is no address ends a list as NULL does.
mini_before(h, block) ==
    LET before[curr \in Addr] ==
            IF find_free_block_next(h, curr) = block THEN curr
            ELSE IF find_free_block_next(h, curr) \in Addr \ {NULL}
                 THEN before[find_free_block_next(h, curr)]
                 ELSE -1
    IN IF h.mini_free_root = block THEN NULL
       ELSE IF h.mini_free_root = NULL THEN -1
       ELSE before[h.mini_free_root]

unlink_mini(h, block, prev) ==
    IF prev = -1 THEN h
    ELSE link_free_block_next(
            IF prev # NULL
            THEN link_free_block_next(h, prev, find_free_block_next(h, block))
            ELSE [h EXCEPT !.mini_free_root = find_free_block_next(h, block)],
            block, NULL)

remove_mini_block(h, block) == unlink_mini(h, block, mini_before(h, block))

\* The first mini block, which the caller has found to be there, is taken off.
pop_mini_block(h) ==
    LET block == h.mini_free_root
    IN link_free_block_next([h EXCEPT !.mini_free_root = find_free_block_next(h, block)],
                            block, NULL)

set_next_of(h, prev, next, size) ==
    IF prev # NULL THEN link_free_block_next(h, prev, next)
    ELSE [h EXCEPT !.free_roots[search_root_index(size)] = next]

unlink_free(h, block, prev, next) ==
    link_free_block_prev(
        link_free_block_next(
            set_prev_of(set_next_of(h, prev, next, get_size(h, block)), next, prev),
            block, NULL),
        block, NULL)

remove_free_block(h, block) ==
    IF get_size(h, block) = new_mini_block_size THEN remove_mini_block(h, block)
    ELSE unlink_free(h, block, find_free_block_prev(h, block), find_free_block_next(h, block))

\* The first block of a list that is large enough, or NULL.
first_fit(h, first, asize) ==
    LET fit[block \in Addr] ==
            IF asize <= get_size(h, block) THEN block
            ELSE IF find_free_block_next(h, block) \in Addr \ {NULL}
                 THEN fit[find_free_block_next(h, block)]
                 ELSE NULL
    IN IF first = NULL THEN NULL ELSE fit[first]

\* Mutated form: larger classes are not searched.
find_fit_OneClass(h, asize) == first_fit(h, h.free_roots[search_root_index(asize)], asize)

\* First fit in the class of asize, then in the larger ones.
find_fit(h, asize) ==
    LET fitting == {i \in search_root_index(asize) .. NUM_ROOTS - 1 :
                       first_fit(h, h.free_roots[i], asize) # NULL}
        index == CHOOSE i \in fitting : \A j \in fitting : i <= j
    IN IF fitting = {} THEN NULL ELSE first_fit(h, h.free_roots[index], asize)

-----------------------------------------------------------------------------
(***************************************************************************)
(* Coalescing, growing and splitting. A function that returns a block      *)
(* gives a record of the heap it leaves and the block.                     *)
(***************************************************************************)

size_or_0(h, block) == IF block = NULL THEN 0 ELSE get_size(h, block)
remove_if_any(h, block) == IF block = NULL THEN h ELSE remove_free_block(h, block)

\* The blocks from start on, which are free and in no list, become one.
merge(h, start, size) == [heap |-> rewrite_block(h, start, size, FALSE), block |-> start]

\* The four cases at once: prev and next are NULL if they are not free.
\* The code dies on a prev of NULL where prev_alloc is 0, which only a heap that
\* is corrupt already has (MmProofs, PrevIs); here it is as if none were before.
coalesce_with(h, block, prev, next) ==
    merge(remove_if_any(remove_if_any(h, prev), next),
          IF prev = NULL THEN block ELSE prev,
          size_or_0(h, prev) + get_size(h, block) + size_or_0(h, next))

coalesce_block(h, block) ==
    LET next == find_next(h, block)
    IN coalesce_with(h, block, IF get_prev_alloc(h, block) THEN NULL ELSE find_prev(h, block),
                     IF get_size(h, next) = 0 \/ get_alloc(h, next) THEN NULL ELSE next)

insert_coalesced(c) == [heap |-> insert_free_block(c.heap, c.block), block |-> c.block]

\* sbrk never fails for any other reason; a size too large for intptr_t, and so
\* negative there, is refused as well.
mem_sbrk_fails(h, incr) == incr >= SizeMod \div 2 \/ h.brk + incr > MaxHeap
mem_sbrk(h, incr) == [h EXCEPT !.brk = h.brk + incr]

\* The pages are mapped anew, and zero.
mem_reset_brk(h) == [h EXCEPT !.brk = 0, !.mem = [a \in Addr |-> 0]]

\* The old epilogue becomes the header of the new block.
new_block(h, block, size) == rewrite_block(mem_sbrk(h, size), block, size, FALSE)

close_heap(h, block) ==
    write_epilogue(h, find_next(h, block), get_size(h, block) = new_mini_block_size, FALSE)

extend_heap(h, bytes) ==
    LET size == round_up(bytes, dsize)
        block == payload_to_header(h.brk)
    IN IF mem_sbrk_fails(h, size) THEN [heap |-> h, block |-> NULL]
       ELSE insert_coalesced(coalesce_block(close_heap(new_block(h, block, size), block), block))

write_rest(h, next, rest, prev_mini) ==
    insert_free_block(write_block(h, next, rest, prev_mini, TRUE, FALSE), next)

split_block(h, block, asize) ==
    LET rest == get_size(h, block) - asize
    IN IF rest < new_mini_block_size THEN h
       ELSE write_rest(rewrite_block(h, block, asize, TRUE), block + asize, rest,
                       asize = new_mini_block_size)

-----------------------------------------------------------------------------
(***************************************************************************)
(* The entry points. mini_free_root is not among the globals that mm_init  *)
(* resets.                                                                 *)
(***************************************************************************)

start_heap(h, start) ==
    [write_epilogue(write_epilogue(mem_sbrk(h, 2 * wsize), start, FALSE, TRUE),
                    start + wsize, FALSE, TRUE) EXCEPT !.heap_start = start + wsize]

no_roots(h) == [h EXCEPT !.free_roots = [i \in 0 .. NUM_ROOTS - 1 |-> NULL]]

mm_init(h) ==
    IF mem_sbrk_fails(h, 2 * wsize) THEN no_roots(h)
    ELSE extend_heap(start_heap(no_roots(h), h.brk), chunksize).heap

\* The size of the block for a request.
adjusted_size(size) ==
    max(round_up((size + wsize) % SizeMod, dsize), new_mini_block_size)

\* Marks a block and gives back what is too much.
allocate(h, block, asize) ==
    split_block(rewrite_block(h, block, get_size(h, block), TRUE), block, asize)

place(h, block, asize) ==
    [heap |-> allocate(remove_free_block(h, block), block, asize),
     bp |-> header_to_payload(block)]

reuse_mini(h, block) ==
    [heap |-> rewrite_block(pop_mini_block(h), block, new_mini_block_size, TRUE),
     bp |-> header_to_payload(block)]

place_grown(grown, asize) ==
    IF grown.block = NULL THEN [heap |-> grown.heap, bp |-> NULL]
    ELSE place(grown.heap, grown.block, asize)

place_fit(h, fit, asize) ==
    IF fit # NULL THEN place(h, fit, asize)
    ELSE place_grown(extend_heap(h, max(asize, chunksize)), asize)

malloc_block(h, asize) ==
    IF asize = new_mini_block_size /\ h.mini_free_root # NULL
    THEN reuse_mini(h, h.mini_free_root)
    ELSE place_fit(h, find_fit(h, asize), asize)

\* The first call finds room for the first chunk (MmAssumption).
malloc(hp, size) ==
    LET h == IF hp.heap_start = NULL THEN mm_init(hp) ELSE hp
    IN IF size = 0 THEN [heap |-> h, bp |-> NULL] ELSE malloc_block(h, adjusted_size(size))

free_block(h, block) ==
    insert_coalesced(coalesce_block(rewrite_block(h, block, get_size(h, block), FALSE), block)).heap

free(h, bp) == IF bp = NULL THEN h ELSE free_block(h, payload_to_header(bp))

\* A word is copied or cleared when any of its bytes is.
memcpy(h, dst, src, n) ==
    [h EXCEPT !.mem = [a \in Addr |-> IF a \in dst .. dst + n - 1
                                      THEN h.mem[a - dst + src] ELSE h.mem[a]]]
memset(h, dst, word, n) ==
    [h EXCEPT !.mem = [a \in Addr |-> IF a \in dst .. dst + n - 1
                                      THEN word ELSE h.mem[a]]]

copy_old(h, ptr, bp, size) ==
    LET copysize == get_payload_size(h, payload_to_header(ptr))
    IN memcpy(h, bp, ptr, IF size < copysize THEN size ELSE copysize)

\* Mutated form: the old block is freed before its data are copied.
move_FreesFirst(new, ptr, size) ==
    [new EXCEPT !.heap = IF new.bp = NULL THEN new.heap
                         ELSE copy_old(free(new.heap, ptr), ptr, new.bp, size)]

\* Mutated form: the old block is not freed.
move_Leaks(new, ptr, size) ==
    [new EXCEPT !.heap = IF new.bp = NULL THEN new.heap
                         ELSE copy_old(new.heap, ptr, new.bp, size)]

\* To the block that malloc has found, if any.
move(new, ptr, size) ==
    [new EXCEPT !.heap = IF new.bp = NULL THEN new.heap
                         ELSE free(copy_old(new.heap, ptr, new.bp, size), ptr)]

realloc(h, ptr, size) ==
    IF size = 0 THEN [heap |-> free(h, ptr), bp |-> NULL]
    ELSE IF ptr = NULL THEN malloc(h, size)
    ELSE move(malloc(h, size), ptr, size)

clear(new, size) ==
    IF new.bp = NULL THEN new ELSE [new EXCEPT !.heap = memset(new.heap, new.bp, 0, size)]

calloc(h, elements, size) ==
    LET asize == (elements * size) % SizeMod
    IN IF elements = 0 \/ asize \div elements # size THEN [heap |-> h, bp |-> NULL]
       ELSE clear(malloc(h, asize), asize)

=============================================================================
