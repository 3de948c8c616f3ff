# A TLA+ development of High-Performance-Systems-in-C

The repository holds four C programs with no code in common but the CS:APP
support library: a job-control **shell**, a caching web **proxy**, a **malloc**
with its simulated heap and test driver, and a **cache** directory with a cache
simulator and a matrix transpose. Three of them come with test programs that are
programs in their own right: a driver that synchronizes with the shell, a
web server behind the proxy, a tester that compares simulators. This directory
models them in TLA+, checks the models with TLC on small instances and proves some
of the results with TLAPS for instances of every size. `PROJECT.json` lists the
components, the runs, the mutants of the properties, the lines each definition
stands for, the findings, the hazards and the theorems.

## 1. Inventory

| component | state | operations | hard behaviour | what makes it correct |
|---|---|---|---|---|
| shell job list (`tsh_helper.c`) | table of 64 jobs, `nextjid` | add, delete, set state, look up by pid, id or foreground | called by `eval` and by signal handlers | one foreground job, ids and pids unique, `nextjid` unused |
| shell loop and handlers (`tsh.c`) | signal mask, locals of `eval`, job list, children | external command, `bg`, `fg`, `quit`; SIGCHLD, SIGINT, SIGTSTP handlers; `cleanup` | a signal at any point; SIGCHLD does not queue; children die and stop by themselves; wait by `sigsuspend` | list agrees with the kernel, no lost wake-up, every zombie reaped, the wait ends |
| command-line parser (`parseline`) | quote and redirection states | one pass over a line | sequences of quotes, redirections, `&`; a full `argv` | every line is accepted or refused, tokens are what was typed |
| trace driver and wrappers (`runtrace.c`, `wrapper.c`) | three pairs of datagram sockets between driver, shell and jobs; the wrapper's table of handlers | wait, signal, next and signal commands; wrapped `waitpid`, `kill`, `sigaction`, `job_get_pid`, `job_set_state` | several processes that wait for each other; time-outs; a signal within a call that is held up | no deadlock, the prompt read is the right one, a wrapper does not change what it wraps, nothing is left behind |
| proxy cache (`cache.c`) | doubly linked list in the heap, size, mutex, reference counts | search, insert, evict, release | objects are read outside the mutex; eviction meanwhile; double misses | no freed object is read, LRU order, size and counts exact, whole responses only |
| proxy server (`proxy.c`) | listening loop, a thread per connection, two descriptors each; buffers of `serve` | accept, create, serve, close; read, rewrite, forward, relay | connection numbers are reused, anything can fail, the loop races its threads; partial reads; clients that go | a descriptor has one holder and is closed; the request is well formed; the answer belongs to it |
| Tiny (`tiny.c`) | one connection at a time, a CGI child | accept, parse, static and dynamic content | clients that go, a child that is waited for | every client is answered |
| buffered I/O (`csapp.c`) | `rio` buffers | `rio_readlineb`, `rio_readnb`, `rio_writen` | lines and reads that cross the buffer's end, resets | bytes are neither lost nor repeated |
| HTTP parser, `pxy`, `tests` | | | | a binary and test code: not modelled |
| allocator (`mm.c`) | blocks with boundary tags, segregated free lists, mini list | malloc, free, realloc, calloc, coalesce, split, extend | long sequences of calls, boundaries of size classes, flags about the previous block | blocks tile the heap, payloads disjoint, free lists hold exactly the free blocks |
| simulated heap (`memlib.c`) | break, limits; in sparse mode a hash table of pages and a bit per byte | `mem_sbrk`, reset, read, write, copy, fill | words across pages, pages used again after a reset | it is a flat memory, reads of unwritten bytes are caught |
| allocator driver (`mdriver.c`), splay tree (`stree.c`) | set of payload ranges | add, remove, check | rotations, removal in the middle | ranges disjoint, the tree is a map |
| cache simulator (`csim.c`) | sets of lines with time stamps, counts | arguments, load, store | eviction of the right line, dirty bytes | counts are those of an LRU cache |
| transpose (`trans.c`) | matrices, temporary block | blocked loops | diagonal blocks that pass through `tmp` | B is the transpose of A, within the cycles of the full score |
| cache lab tests (`test-csim.c`, `test-trans.c`, `tracegen-ct.c`) | the file `.csim_results` | run a simulator, load its results, compare | a call that fails half-way leaves an old file | the results loaded are those of the program just run |

**How they interact.** The shell is one process: its handlers share the job
list with `eval`, which protects it by blocking the three signals, and the
kernel connects it to its children by signals, `kill` and `waitpid`. Under test it is
linked with the wrappers and driven by `runtrace` over sockets. The proxy's
main thread hands a descriptor to each new thread through a heap cell; the
threads share the cache under its mutex, and beyond the mutex by reference
counts; each talks to a client and to a server, here Tiny, over connections. The driver
calls the allocator, and the allocator `mem_sbrk`. `test-csim` and `test-trans`
run simulators and read the file these write. The four programs do not interact with
each other.

The behaviours that are hard to test are listed one by one in `PROJECT.json`
under `hazards`, at their lines, with the properties that watch them.

## 2. Modules and plan

| part | modules | abstract specification | proofs |
|---|---|---|---|
| shell | `JobList`, `Tsh`, `MCTsh`; `Parseline` | `JobControl` | `TshProofs` |
| shell under test | `RunTrace`, `SigWrap`, `MCRunTrace` | | `RunTraceProofs` |
| proxy cache | `ProxyCache`, `ProxyCacheLRU`, `MCProxyCache` | `LRUCache` | `ProxyCacheProofs` |
| proxy descriptors | `ProxyConn`, `MCProxyConn` | | `ProxyConnProofs` |
| proxy and Tiny | `Rio`, `Tiny`, `ProxyServe`, `Http`, `MCHttp` | | `HttpProofs` |
| allocator | `Mm`, `MmClient`, `MCMmClient` | | `MmProofs`, `MmClientProofs` |
| heap and tree under it | `SparseMem`, `STree`, `MCMallocLib` | `FlatMem`, `KeyMap` | |
| cache lab | `CSim`, `CSimLRU`, `Trans`, `CacheLab`, `MCCacheLab` | `SetLRU`, `CacheRef` | `CacheLabProofs` |

What is left: a step of `SparseMem` maps to a step of `FlatMem`.

Modules meant for proofs have constants with named assumptions, one action per
operation, invariants with named parts, and no recursive operator.

## 3. The shell

`JobList` holds the operations of `tsh_helper.c` on the table as operators on a
function from ids to `[pid, state]` (a free slot is `UNDEF`). `Tsh` has the whole
program:

* `pc` is the point of the read/eval loop, and stands for the signal mask too:
  `Blocked(pc)` is true where `eval` has SIGCHLD, SIGINT and SIGTSTP blocked.
  Code that runs with them blocked is one step as long as it does not look at
  the kernel; every point at which a signal can arrive, or the state of a child
  matters, separates two steps.
* `pend` is the set of pending signals of the process, a set because they do
  not queue. A pending signal that is not blocked is delivered before the shell
  goes on (`MainReady`); later delivery is the behaviour of a signal generated later.
* `hdl = "chld"` while `sigchld_handler` loops over `waitpid`, one turn of the
  loop a step, children changing state between the turns. The other two handlers
  make one look-up and one `kill` with everything blocked: one step.
* `proc` is the kernel's view of each child: forked, in its own process group,
  running its program, stopped (reported by `waitpid` or not; with a SIGINT
  pending or not) or zombie. Pids are used again after they are reaped.
* Signals of the terminal come at any time (`Key`); children exit and stop by
  themselves, or are killed by others, at any time.

`JobControl` is the abstract specification: each child is unlisted, foreground,
background or stopped, with at most one in the foreground, and no command
is begun while one is. The job list with all its look-ups implements it
(`ImplementsJobControl`).

| run | shows | instance |
|---|---|---|
| `tsh_safety` | six invariants of `Tsh` in every interleaving, and that a job stays listed until it is reaped (`ListedUntilReaped`) | 3 pids, 2 slots |
| `tsh_fair` | `Tsh` implements `JobControl`; zombies are reaped; the wait ends; Ctrl-C and Ctrl-Z end it | 2 pids, 3 slots |
| `tsh_abort` | finding: with the table full, a stop aborts the shell | 2 pids, 1 slot |

**Bounds.** The only bounds are the pids and the table size; there is no
bound on the commands, keys, stops and exits, since pids are used again. Three pids with two
slots are enough for a full table, for a slot above a free one and a job that is not
listed, and for two children that die under one signal.

**Fairness.** `FairSpec` assumes that the shell's own code runs, that a pending
signal is delivered and its handler runs to its end, which the scheduler and the
kernel guarantee, and that the user at some time stops typing Ctrl-C and Ctrl-Z: with
a signal always pending, a process never leaves its handlers. Children owe
nothing: the liveness properties start from a child that has died or stopped, or
from a signal that will end it.

**Proofs** (`TshProofs`). `TypeOK`, `AtMostOneFG`, `ListedIsChild`,
`NextjidFresh` and `NoLostWakeup` are proved for every set of pids and every
table size. None is inductive alone: `eval` relies on facts about where it is,
such as that the child it has just forked is not in the list and not reaped while
the signals are blocked, that no job is in the foreground unless the loop is in
its wait, and that `sigsuspend` is entered with a foreground job. `EvalInv`
states these, and `IInv` is the conjunction that every step preserves. The
lemmas before it are about the table (`job_from_pid` finds the job of a pid,
deleting a job leaves `nextjid` one past the largest, and so on); the search loops are written with the least element of a
set, so that they need no recursion.

`NoZombieForgotten` and `StoppedIsListed` relate the list to the kernel and need a second
invariant, `KernelInv`: whatever `waitpid` could report has a signal pending or a
handler at work, and a stop that has been reported is in the list unless
`bg` or `fg` is about to undo it. Its proof uses `IInv`.

`TshProofs` also proves `ImplementsJobControl` and the action property `ListedUntilReaped`: whatever a step does to the list
(a deletion, a job added, the list freed by `cleanup`), a job that leaves it has been reaped, or no handler is installed or at work
that could miss it. `add_job` takes a slot that is not in use, by `NextjidFresh`; a change of state keeps every slot; the handler deletes the job
of the child that it has just reaped, which by `ListedIsChild` is in no other slot.

For `ImplementsJobControl`: by `ListedIsChild` a child is in at most
one slot, so that the first slot `job_from_pid` finds is the only one, and each change of the table
(a job added, deleted, or given another state) is one step of `JobControl` for one child, while every other
step leaves all as it is. That a command begins only when nothing is in the foreground is the conjunct
of `EvalInv` about the wait.

Liveness is model-checked only. The assumption is `JobListAssumption`: `MAXJOBS` is a positive number and `NoPid` is no pid.

**The parser.** `Parseline` is the loop of `main` that takes lines from the
standard input (a line that is too long makes two, one that is not ended is dropped) and
`parseline`, a turn of its loop a step. Lines are sequences of the symbols that the code tells
apart. `ParsedAsTyped` compares each result with what the line says, told without a parser:
a way to cut the line into words, quoted texts and redirections, found by trying all.
It is checked in the run `runtrace` (section 8), on every line of up to five
symbols and some longer ones, with room for two arguments and eight symbols.
`Tsh` takes any parsed command and does not depend on it.

**Left out.** The text of messages, `jobs`, redirection (its failure is
an exit of the child), `malloc` failures, other signals (SIGQUIT exits), and what becomes of the children
after the shell has ended.

## 4. The proxy

`ProxyCache` is `cache.c` at the level of its pointers. `list.obj` is the heap, a
record for each address `malloc` may hand out; an object not in use is `Freed`
and its address may be handed out again. `list.head`, `list.tail`, `size` and `mutex` are the fields of `cache`.
A thread's `pc` says where in `serve` or in a
function of the cache it is, `curr` is the pointer of the walk (and then the
object found); each turn of a loop under the mutex is a step, so that the walks are
taken node by node and no recursion is needed. `written`, `buf` and `sent` are the
locals of `serve`. Sizes are in chunks of `MAXLINE` bytes.
The field `of`, which the code does not have, records the length of the response
that the bytes were copied from: an object is whole when `size = of`.

`LRUCache` is what the cache promises: a sequence of entries, least recently used
first, with pins; `ProxyCacheLRU` maps the list, followed from its head, to it.

`ProxyConn` is the other half of the proxy: the accept loop, the creation of
threads, the cell that carries the descriptor, `open_clientfd` address by
address, and every close. The kernel may give out a closed number again at once.
The two modules meet in `ServeAlone` and `OpenClientfd` (hit and miss); they
share no variable, since the cache uses no descriptor and the descriptors
do not depend on what is cached.

| run | shows | instance |
|---|---|---|
| `proxy_cache_safety` | no freed object is read; list sound both ways, size exact, keys unique and counts equal to readers (`CacheConsistent`); no response cut at the object's limit is cached; implements `LRUCache` | 3 threads, 3 URIs, capacity 3, objects up to 2 |
| `proxy_cache_eviction` | every critical section ends; the limit is overshot only by the objects in use | 2 threads, 3 URIs, capacity 2, objects up to 2 |
| `proxy_conn` | one holder for every descriptor and no leak (`DescriptorsAccounted`); connections are closed | 2 threads, 4 descriptors, 2 addresses |

**Bounds.** In `proxy_cache_safety` `MaxResponse` bounds the length of a response to one
chunk more than an object may have, so that one that fits, one that just fits and one that does not all occur.
`CachedWhole` compares with what was relayed so far, and catches this cut only; that a response which a failed read or write cuts off
stays out of the cache is `CachedIsComplete` (section 7).
With three URIs and capacity three a third object evicts one or two
others, and with two threads one can hold an object while the other evicts. Three
addresses suffice as keys are unique; they are reused. With four descriptors and
two threads `accept` and `socket` run out of them, and `pthread_create` of threads.

**Fairness.** Each thread that can take a step takes one. For reads and writes
this says that the peer goes on or goes away; the code has no time-outs, so it
depends on that. Nothing is assumed of the mutex: `SectionEnds` is about its holder.

**Proofs of the cache** (`ProxyCacheProofs`). `TypeOK`, `NoUseAfterFree`, `CacheConsistent`, `CachedWhole` and
`CacheBounded` are proved for any threads, URIs, addresses and sizes, from `ProxyCacheAssumption` alone (a finite set of
threads, values outside each other's sets, limits that are numbers). The properties speak of what can be
reached along the pointers; their proof is about the *order* of the list, the sequence `OrderOf(list)` of the addresses met
from its head. The inductive invariant `CInv` adds to the properties

* `OrderInv`: that sequence has no address twice, `next` and `prev` link it in both directions, and the live objects
  are those in it. Every change of the list removes one element of the sequence or appends one; the pointer
  surgery at the head, at the tail and in the middle is the bulk of the proof.
* `MutexInv`: who is in a critical section holds the mutex, so that no other thread changes the list.
* `PointInv`: what a thread knows at each of its points: the object it reads is live and has its key; the one that it adds
  is not cached yet; there is room for it, or all that is cached is being read.
* `WalkInv`: what a walk has found out of the objects it has passed: a search that their keys differ, an eviction that they
  are all in use. Without it the end of a walk would say nothing of the list.
* `SizesInv`: objects are neither empty nor larger than the limit, so that `size`, which is unsigned, does not go below 0.

`NoUseAfterFree` then follows from the counts: an object that is read has a reference, and eviction frees none that has.
`OrderOf` is a recursive function; that it does give the linked list is proved from the least
position at which two such sequences could differ.

`ProxyCacheProofs` also proves `ImplementsLRU`: every step of every thread is a step of `LRUCache` or changes nothing
in it. A hit that moves an object to the tail is the move of one entry; that the object evicted is the least recently used one that
is not pinned is what `WalkInv` says of those before it, and that something is evicted only when
there is no room is in `PointInv`. The abstract cache knows of the insertion under way by its size (`Needed`), of which
there is at most one by `MutexInv`. `SectionEnds` is about fairness and stays with TLC.

**Proofs of the descriptors** (`ProxyConnProofs`). `TypeOK` and `DescriptorsAccounted` are proved for any numbers of
descriptors, threads and addresses, from `ProxyConnAssumption` alone. The
properties speak of the set of a descriptor's holders; the invariant `CInv`
says the same of the four places that can hold one: what each point of the code
holds (`PointInv`), that nothing is in two places (`HeldOnce`), and that the open
descriptors are those held and those lost (`OpenIsKnown`). `HeldOnce` is what makes a `close`
safe: without it the number closed could be another's. That connections are
closed in the end is checked by TLC only.

**Left out.** In these two modules parsing and headers, which are local to a thread (section 7);
failures of `malloc`; the bytes of a response (only which part of it is kept).

## 5. The allocator

`Mm` is `mm.c` function by function, on a record with the words of the heap, the
break and the three globals. Addresses and sizes are bytes, a word has the value it
has in the code: a header is the size plus the bits for allocated, previous
allocated and previous mini, a link is an address. Footers and links lie where the code puts them, so that
they overlap the data of a payload, and a function that looks at a wrong or old
place reads what is there. The list walks are recursive functions on addresses. Sizes are computed
modulo `SizeMod`, as `size_t` is. `memlib.c` contributes the break and its limit.

`MmClient` is a program with a few ids. Its actions are the calls, each one step as the
code is sequential; after each it does what `eval_mm_valid` does: it records the range,
fills the payload with the data of the id, and checks the data before the
block is freed or moved. The ranges are in the driver's own structure, a list beside a tree; the
tree is a dictionary. `NewTrace` resets the break and
initializes again. It goes on after a `NULL`, which the driver does not.
`BalancedTraces` says that a trace frees all it allocates, as every
trace in `malloc/traces` does.

| run | shows | instance |
|---|---|---|
| `mm_valid` | what the driver checks (`DriverAccepts`); boundary tags, flags and lists exact (`HeapConsistent`); no block lost; growth and failure only when needed | 3 ids, requests of 0, 8, 24, 25 bytes, heap of 128 bytes grown by 48 |
| `mm_reinit` | finding: `mm_init` keeps the mini list of the heap before | the same, traces not balanced |

**Bounds.** The requests are the largest for a mini block, the largest for the
smallest other block and one more. With `NUM_ROOTS = 3` the classes are up to 32,
up to 64 and above, and the heap, which grows from 48 to 96 bytes of blocks and then
fails, has blocks of each class. Three ids let two free mini blocks be apart,
so that the list of them is searched beyond its first.
The counts of `calloc` include one whose product wraps.

`HeapTiled` and `FreeListsExact`, together `HeapConsistent`, and `BlocksAreHeld` describe the whole
heap; `DriverAccepts` is what the driver would have reported.

**Proofs** (`MmProofs`, `MmClientProofs`). `DriverAccepts`, `HeapConsistent`, `BlocksAreHeld` and `GrowthIsNeeded` are
proved for any ids, request sizes, heap limit, chunk size and number of lists. `MmProofs` is about the functions
of `mm.c`. The invariant of a heap between two calls is `Good(h, B)` for some set `B` of addresses, of four parts:

* `Tiled`: the headers of `B` are those of blocks that lie end to end from the first address to the epilogue, each header says of
  the block before it whether it is allocated and mini, and what coalescing reads in the footer of a free block is its size.
  It is local to a block and its neighbours, where `HeapTiled` follows the sizes from the first block on.
* `Apart`: no two free blocks are neighbours. `Whole`: a footer is the same word as its header.
* `Lists`: the mini list has the free mini blocks, the list of a class the other free blocks of it. That no list comes back
  to a block is said by a rank that grows along the links, whose existence every insertion and removal keeps.

`PrevIs` also shows that `coalesce_block` never finds NULL where a flag says that the block before is free. The code would die there,
on a heap that is corrupt already; `coalesce_with` goes on as if no block were before.

Neither half holds alone: coalescing finds the block before by flags and footer, and then takes it out of a list in
which it must be; what a list hands out must be a block. Inside a call the heap is not good: one block is free and in no list
(`Loose`), or its neighbour is free as well. A lemma for each function goes from one of these states to the next: `RemoveFree`,
`InsertFree`, `Coalesce` (the four cases at once), `Join`, `ExtendHeap`, `CutIs`, `Take`, `FindFit` and so on, up to `MallocBlock`, `FreeBlock` and `CopyOld`.
Each also says that the blocks that are held keep their size and every word in them (`Kept`), which is why data survive.
The walks `mini_before` and `first_fit` are recursive functions on the addresses, and are shown to have a value even on links that
go round (`Walk`); on a good heap the value is found by the least or the greatest rank.

`MmClientProofs` has the invariant of the program, `Inv`: its books agree with each other (`Ledger`, with the links between ranges that
`RemoveRange` and `AddRange` keep), the allocated blocks of the good heap are exactly those of the payloads
(`Usable`), each has room for what was asked and has its data (`Filling`), and no check has failed. `BlocksIs` and `ListIs` then
show that what one meets by following the sizes and the links is `B` and its free blocks, so that the
properties, which speak of the code's own words, follow.

Two hypotheses stand in the theorems, and each is there because the code needs it. `BalancedTraces`: `mm_init` does not reset the
mini list (`mm_reinit` shows what happens), and a heap all of whose blocks are free has none in it. `RequestsFit`: a request and its header do not pass the end
of `size_t` (the last item of section 9). `mm_valid` is an instance in which both hold. `MmAssumption` asks for chunks of at least 32
bytes, a multiple of 16 (4096 in the code), and a heap with room for the first chunk and of less than half of the `size_t`s; smaller
chunks would let the first block be a mini block, which the reset of the break would leave in the mini list.

**Left out.** `mm_checkheap` and the printing of the heap, which change nothing.
`mm_checkheap` returns false for every heap: it reads the epilogue at the last
byte instead of the last word and wants headers, not payloads, to be aligned;
the driver calls it only in its expensive mode. Requests within 24 of `SIZE_MAX`, whose
rounding wraps around, are in `Mm` and not among the requests of the runs.

## 6. The simulated heap and the splay tree

`SparseMem` is the sparse emulation of `memlib.c`, used for traces with huge
requests: `get_mem` finds the block of a page in a hash table of chains, or hands out
a new one; a read or write of a word that crosses two pages is put
together from both, and `mem_memcpy` and `mem_memset` go word by word, with a rest. A
word is a sequence of bytes, and where the code reads beyond a block what it gets
is `Junk`, that no result may contain. A bit per byte says what was written;
with the check on, reading anything else ends the program. `FlatMem` is the
promise: one row of bytes that grows at its end. The mapping `mem` of a state to
such a row is at the end of `SparseMem`.

`STree` is `stree.c` with its left, right and parent pointers; a node is named by
its key. The splay, the loop over zig, zig-zig and zig-zag steps, is a recursive
operator on trees, and every operation of the tree is a step. `KeyMap` is the promise: a map
with look-up by key and by the largest key that is not larger.

| run | shows | instance |
|---|---|---|
| `malloc_lib` | `SparseMem` implements `FlatMem`; `STree` implements `KeyMap` | words of 2 bytes, pages of 2, heap of 5, 2 blocks, 2 buckets; 5 keys, 2 records |

**Bounds.** An address can begin at either byte of a page, so that a word lies in one or
across two. The heap has three pages and two blocks, so that the blocks run out; a chain can have two
blocks; after a reset blocks are used again for other pages. With five keys the tree
has every shape of five nodes, and hence each case of a splay, to a depth of four, and
of a removal. The two structures share nothing: an execution uses one of them. The
last call and its result are variables that the specifications refer to, not state of the
structures, and TLC identifies states that differ in them only (`MCView`).

**Left out.** The protection of the pages of the dense heap, which the kernel
enforces; statistics; printing.

## 7. The chain from a client through the proxy to Tiny

`Rio` has the connections and the reader and writer of `csapp.c`. A
connection is two pipes with a bounded buffer; each can be ended, and a
connection closed with data unread, or written to after the reader has gone, is reset.
`rio_read` refills the buffer with the bytes that have arrived, `rio_readlineb` and
`rio_readnb` loop over it a turn at a time, and `rio_writen` writes as much as there is room
for: where a read or write ends depends on who is faster.
A line end is one byte of the model, other bytes are values.

`Tiny` is the server, with its one connection at a time, its error pages, static files and
the child it forks for CGI and waits for. `ProxyServe` is `serve` of the proxy: the request
line, the loop over the headers with the ones it keeps and the ones it replaces,
`whole_request` with its limit `MAXBUF`, the forwarding, the loop over the response with the `cachable` flag,
and the look-up and insertion in a cache that, unlike `ProxyCache`, is only what it holds. `Http` composes them with
clients: some go through the proxy, others talk to Tiny directly, and the impatient ones may
close or abort their connection at any time, even with half a request sent.

| run | shows | instance |
|---|---|---|
| `http` | what the proxy forwards is well formed; what it caches is complete; an answer belongs to the request; whoever stays is answered | two clients of the proxy, one impatient, one client of Tiny; eight sets of requests; lines of 4 bytes, `rio` buffers of 6, pipes of 8, objects of 6 |

**Bounds.** The buffers are smaller than requests and responses, and of sizes that are not multiples
of each other, so that each loop runs several times and a line or a response ends at, before and behind the end of
a buffer. The requests have no headers, the client's own Connection and Host headers,
a header that is cut at `MAXLINE`, one that Tiny refuses, more than `MAXBUF`, a bad method,
scheme or host, and URIs for a static file, an empty one, a directory, a missing one, CGI that runs
and CGI that may not. Two clients ask for one URI, so that one is answered from what the
other has made the proxy cache.

**Fairness.** Tiny, each thread of the proxy, and each client that stays take a step if they
can: they are processes and threads that the kernel schedules. An impatient client owes nothing. With that,
`EveryClientAnswered` says that everyone who stays gets to the end of the response, unless a request
without an empty line has reached Tiny; when that happens Tiny waits for ever (section 9).

**Proofs** (`HttpProofs`). `CachedIsComplete` and `AnswersItsRequest` are proved for any clients, requests, files, and sizes of lines,
`rio` buffers, sockets, requests and objects. Both are about streams of bytes that several loops hand
to one another, and the invariant `HInv` follows the bytes of a response from Tiny to the client and into the cache:

* as long as a thread relays (`RelayInv`), what Tiny has sent on its connection is, in this order, what the client has read or has in its pipe
  (`Told`), what the thread is about to write (`Out`), and what it has read ahead or has in its own pipe (`Coming`: the bytes the caller
  already has, the `rio` buffer, the pipe). The same holds with the copy for the cache in the place of the first two, as long as
  it is cachable. When the thread has seen the end, Tiny has done with the connection (`Finished`), so the
  copy is all there will ever be.
* before a thread connects, nothing has moved on any of its connections (`FreshInv`), and it cannot be in Tiny's backlog
  or be served; a connection is served once (`ServedInv`). Without this a second response could be put behind the first.
* what is cached for a URI was sent, whole, to a thread that asked for that URI (`CacheInv`): a hit is an answer too (`AnswerInv`).
* a client of Tiny itself has got the beginning of what was sent to it (`DirectInv`).

A reader or a writer that has gone breaks the equation for that reader, never for the cache: `gone` is part of each.
The assumptions are those of the modules: buffers that are not empty, lines longer than two bytes, a mode only for files
that have a content, and contents that are sequences of bytes.

`ForwardedWellFormed` is proved too. It is about ordinary requests: the client does not go, its lines fit into `MAXLINE` and end with
a newline, the name of a header stands only at the beginning of a line (a byte of the model is a whole name, and one inside a value
would be counted as a header), and what the proxy makes of the request fits into `MAXBUF`. Outside of these it fails: see section 9.
The invariant is `FInv`, and `HeadersInv` of it says for the thread of a client

* while it listens (`Listening`): what it has of a line, what its `rio` buffer holds, what is in the pipe and what the client has not sent (`Unread`)
  are the request without its first `k` bytes, for some `k` at which a line begins; nobody has closed the connection, so that no read ends early or fails;
* what it has kept of those `k` bytes (`KeptOK`): a Host line or none, and full lines without any of the four names, and not more of them than `k`
  bytes, so that nothing is left out for want of room;
* once it has forwarded: the forwarded request is well formed.

A turn of `rio_readlineb` keeps the first (`LineRead`); that a line it returns is a line of the request needs that a newline comes before the buffer is full
(`NextLine`). The code compares and copies `buf` as a string: that it is the line just read, although the line before was longer and is still behind it, is
`StringRead`. `WholeIsWellFormed` puts the kept lines between the proxy's own, and counts.
`RequestsAssumption` says that `Parsed` is defined for the URIs that are parsed, `ProxyServeAssumption` that a path is neither one of the four names nor a newline.

`EveryClientAnswered`, which needs fairness, is checked by TLC only.

**Left out.** The text of headers and pages; the parser, of which the repository has
only a binary: `Parsed` stands for what it makes of a URI, and is marked external. Eviction is in
`ProxyCache`, descriptors and failures of `accept`, `socket` and `pthread_create` in `ProxyConn`.

## 8. The shell under test, and the cache lab

`RunTrace` is `runtrace.c`, line by line of a trace, with the shell that it
starts, the wrappers of `wrapper.c` in it and the test programs of the traces. The three pairs
of sockets are six bounded queues. The shell is a stack of at most two frames: `eval`
(or the prompt, or the wait for a line) and a handler that interrupted it; a frame that is inside a wrapped call may be waiting for
`runtrace`. `waitpid` is held up before or after the real call, `kill`,
`job_get_pid` and `job_set_state` before, as the option of the trace says. The interleavings
inside a fork are in `Tsh`; here a job starts in one step. A test program may also end by its own
`alarm` (`JobAlarm`): `JOB_TIMEOUT`, 10 seconds, is longer than the driver's, so that this too counts as an untimely time-out.

`SigWrap` is the part of `wrapper.c` that stands between the program and `sigaction`: a
handler of its own, a table of the program's, the check that each leaves `errno` alone.

| run | shows | instance |
|---|---|---|
| `runtrace` | a trace that is left alone runs to its end; after `NEXT` the shell has done with the line; no datagram of a wrapper is lost or left over; no signal goes to a reaped process; `runtrace` ends and cleans up; the `sigaction` wrapper is not noticed; `ParsedAsTyped` (section 3) | seventeen traces, queues of 3, one untimely time-out, one signal by the user; 2 signals, 3 calls of `sigaction`, 3 arrivals |

**Bounds.** The commands are those of the traces of the repository, numbered in
`MCRunTrace`, and some more that use the wrappers of `job_get_pid` and of `waitpid` (before).
One untimely time-out, of the driver or of a test program, and one signal are enough to end a run at any of its points, and a signal to come while a
time-out is dealt with. Trace 8 is left out: with `waitpid_before` the driver's last alarm can strike
while the shell is stopped in its last `waitpid`. The wrapper and the parser do not depend on
the driver: they are explored after a run that ends because its directory exists.

**Proofs** (`RunTraceProofs`). Of `RunTrace`, `SyncPaired`, `NextMeansIdle` and the action property `ForwardedToChild` are
proved for every set of traces, with any room in the sockets and any number of time-outs and interrupts; the room and
the bounds are in the guards, and the proof does not look at them. None of the three is inductive. The invariant `RInv` adds:

* the shape of the state (`Shape`), that main is the lower frame and a handler the upper one, and that only a call at the
  place the trace chose waits for a datagram (`FrameOK`), without which a handler could go on past a wrapper that waits;
* that nothing is under way before the shell is up (`Early`);
* an equation (`Counted`) for `NextMeansIdle`: the prompts in the socket, the first one once it has been read, the lines `NEXT`, one
  for a shell that is not waiting for a line, and the lines it has not read add up to one more than the lines sent. With as many
  `NEXT` as lines, nothing is left for the prompts, the unread lines and the shell that does not wait;
* that there is a foreground job only while main waits for it or is about to (`NoFg`): every other place of main follows
  a wait that found none, and no handler puts a job into the foreground;
* for `ForwardedToChild`, that a job on the list has not been reaped, but between the `waitpid` and the `delete_job` of the
  handler of `SIGCHLD` (`ChildInv`). The handlers of `SIGINT` and `SIGTSTP` block that one, so they never look at the list
  then. The same part says that `clean` ends the shell whenever it ends a job: otherwise it could take a job from under a
  shell that goes on.

There is one lemma for each action. `JobQuiet`, `MainGoes`, `HandlerGoes`, `HandlerReturns`, `RtGoesOn` and `RtEnding` say what
the invariant needs of a whole class of steps, and the counts rest on two lemmas about sending and receiving a datagram
(`CountAppend`, `CountTail`). `Busy`, in `TimeOut`, is an `ENABLED`: the proofs treat it as any formula, so they hold whenever
the alarm strikes. `TraceCompletes` depends on the given traces, and that `RunEndsClean` comes about on fairness: both stay with TLC.

`CleansUp` is the safety half of `RunEndsClean`: at the exit `CleanedUp` is true. Its invariant `CleanInv` follows `needed` (the directory is
there only while it is set, and it is set until the `clean` that removes the directory), and, after the end of the shell,
the jobs: no one starts one (`NoneRevived`), main has blocked the signals that could begin the clean anew, and so each job
that is alive when `clean` kills was on the list that `ps` made.

`WrapperUnnoticed` is proved for any signals and handlers, however many calls are made and however deep
signals nest. The invariant `WInv` says where the signals are blocked: exactly while the top frame is in the part of
`sigaction` between the two changes of the mask, or in the wrapper's look-up (`MaskInv`); that the table and
the kernel agree with what the program asked for except in the step between the kernel's change and the table's (`TableInv`), when the signals are blocked, so
that no handler sees it; and that the `errno` of an interrupted frame is held by the lowest frame above it
that has saved it (`ErrnoInv`). The stack is a sequence of any length, and the proof is about its top. It assumes that a handler is not one of `SIG_DFL` and
`SIG_IGN`, nor the wrapper's own.

**Fairness.** `runtrace`, the shell and the jobs each take a step if they can, and a time-out comes when nobody else can
move: processes are scheduled, and `select` and `alarm` keep time. The untimely time-out and
the user's signal are never forced.

### The cache lab

`CSim` is a run of the simulator, from the options to its exit status, on
lines of a trace that may be unreadable; the time stamps, the search for a line to replace, and the dirty
bytes are as in the code. `SetLRU` is the cache it simulates, sets of blocks in the order of their use, and
`CSimLRU` says how a run of `csim` implements it. `CacheRef` counts the same from the trace alone, as the reference simulator would, and is
what `csim-ref`, a binary, is in the model. `Trans` gives the moves of each registered transpose in order.
`CacheLab` has `test-csim`, `test-trans` and a user run these programs, with the file `.csim_results`
between them and each call that can fail failing.

| run | shows | instance |
|---|---|---|
| `cachelab` | tests whose simulators ran earn all points, from results of their own (`MarkedFairly`); the transposes transpose and stay within `tmp`; 32 by 32 within the full score; `csim` implements `SetLRU` (`ImplementsSetLRU`) | all traces of five accesses that begin with a store, faulty lines, six command lines; matrices of 1, 3 and 16 columns, and 32 by 32 as in the code |

**Bounds.** Traces of five accesses to four addresses in a cache of two sets of two lines (and in smaller ones)
fill a set, hit in it, and evict clean and dirty blocks. `Large`, 1024 in the code, is 16: two whole
blocks each way, as there all blocks are whole. The clamps of the blocked loops at the edge of a matrix (`trans.c:133`) are never at work in the code,
whose `transpose_submit` calls these functions for 32 and 1024 only; nothing here is claimed of them. 32 by 32 is the size of the code, and its
trace is run through the cache of `driver.py`, whose limit for the full score is `36000` cycles.

**Proofs** (`CacheLabProofs`). `CSimIsSetLRU` is that `csim` implements `SetLRU` for any geometry, trace and tests,
whoever runs it. The refinement mapping makes the list of a set from the time stamps, by the number of lines that are
not older (`Recency`). The invariant has, for each set, a sequence of its valid lines with falling time stamps
(`Ordered`), none later than the counter of the cache, and no tag in two lines (`SetOK`). `RecencyIs` equates the two; then:

* `HitSet`: a hit gives its line the latest time, which moves it to the front of the sequence, and of the list.
* `MissSet`: a set has an empty line just when its list is shorter than `E`; else one line alone is the oldest, it is the last
  of the list, and it is the victim, whose valid and dirty bits give the counts of an eviction.
* `AccessStep`, `TouchStep`: the other sets keep their lists, since their time stamps do not change.

A run of `csim` begins with a reset and its end is another; `CsimStep`, `CommandStep`, `EndStep` and `IdleStep` go
through every step of `csim` and of its callers.

`MarksAreFair` is `MarkedFairly` for all tables of tests, geometries and traces. It has two parts. `LoadsItsOwn` is about the
file (`TestCsimLoadsItsOwn`): its invariant `FileInv` has no whole file there
from the `unlink` to the end of the simulator, so that a whole file at the load is of that simulator. The other is
that csim's counts are those of `csim-ref` (`FullMarks`). `csim` goes from line to line and
looks at no more than the lines of one set; `CacheRef` looks at the whole trace, and a block is in its cache if fewer than
`E` other blocks of the set were used since its last use. `CountsFollowTrace` (`CountsInv`) relates them after every prefix
of a trace:

* `Stamped`: the time stamp of a line is the last use of its block. `LeastRecent`: a block that was used and is in no line
  was last used before those of all lines of its set, which are full. `MarkedDirty`: a line is dirty if and only if its block was stored to
  since the last miss of it. The five counts are those of the reference for the prefix (`Counts`). `LeastRecent` lives on `Stamped`: the
  victim has the oldest time stamp, thus the block that leaves was last used before all that stay.
* `FewRivals`, `ManyRivals`, `RefHitIs`: from these, a block is in a line just when fewer than `E` others came since, so
  that `csim` hits where the reference does. `LeavesIs`: what is evicted is what the reference says
  leaves, with the same dirtiness.
* `HitCounts`, `MissCounts` say how the reference's counts grow with one access, `HitStatsAre` and `MissStatsAre`
  how those of `csim` do, and `Touched` that they do alike. `RefIs`: at the end of the trace they are `Ref`.

`MarksInv` carries this through `test-csim`: the reference's results are kept while `csim` runs, on the same trace with
the same geometry although its options come in another order (`OptionsGive`, one `getopt` loop for any order),
and equal results have all their points (`AllMatch`). TLC checked `CountsInv` and `MarksInv` in the instance of the run first.

Assumed of the constants (`CSimLRUAssumption`): the geometries leave bits for the tag and `s` is less than the
width of an `int` by two or more, since for others the shifts of the code are undefined; a trace is a sequence, and its
readable lines have addresses from `Addresses`; powers of two are positive, and those of sums are products, which the provers
cannot see.

## 9. Disagreements that have no run

These were met while modelling. The first seven are statements defined in the modules; TLC violates each
with the constants of the component's run and the statement as its `INVARIANT`
(`CtrlCReachesFg` as a `PROPERTY`; `MmClient` and `RunTrace` as in `mm_valid` and `runtrace`).

* `ListedStoppedIsStopped` (`Tsh`): a stop that is handled between the state set by `bg` or `fg` and the SIGCONT
  (`tsh.c:306`) leaves a running job listed as stopped, and `fg` returns at once.
* `CtrlCReachesFg` (`Tsh`): before the child has called `setpgid` and `execve`, a Ctrl-C for it is lost (`tsh.c:361`).
* `ShellNeverAborts` (`Tsh`) with two pids and two slots: `bg` on a job that ends when the mask is open (`tsh.c:318`).
* `RedirectionsNamed` (`Parseline`): `a < > f` is accepted, with no input file; `tsh_helper.h:107` has
  a file behind each redirection. Also, a last argument that only begins with `&`, or is quoted, is dropped
  and makes a background job.
* `RangesListed` (`MmClient`): the driver's list of ranges (`mdriver.c:772`) loses ranges, so that the driver does not look at
  the data of all blocks, nor for an overlap with the payload that follows, where it means to.
* `NoStrays` (`RunTrace`): a signal that ends `runtrace` before the shell has called `setsid`, or between the
  list that `ps` gives and the kills, leaves processes behind (`runtrace.c:369`).
* `TestTransLoadsItsOwn` (`CacheLab`): `test-trans` removes `.csim_results` only after a success, and
  `printSummary` fails silently; it may then report the counts of an earlier program.

The others were read from the code:

* `add_job` refuses a job when the largest id is in use, even if smaller ones are free (`tsh_helper.c:361`).
* `evict_obj_in_cache` gives up when all objects are in use, and the new object is added without room (`cache.c:58`);
  `CacheBounded` says by how much.
* A client that goes in the middle of its headers, a request cut at `MAXBUF`, or a header line
  cut at `MAXLINE` makes the proxy forward a request without its empty line, for which Tiny
  waits; it has no time-out.
* Tiny does not ignore SIGPIPE and ends when a client has gone.
* A response that Tiny breaks off because `fork`, `open` or `mmap` fails looks complete to the proxy, which caches it.
* `mem_deinit` in sparse mode unmaps `heap`, which is `SPARSE_HEAP_START`, and not what was mapped.
* `csim` shifts by the width of the word when `s + b = 64` and an `int` by `s` (`csim.c:172`), and takes a number with a sign.
* `malloc` within 24 of `SIZE_MAX` wraps around and returns a mini block (`mm.c:1049`).

## 10. Type invariants and what is checked by whom

`TypeOK` of `Tsh`, `ProxyCache`, `ProxyConn` and `MmClient` is proved; those of `RunTrace` and `CacheLab` say what the
variables hold, and are true in the instances of their runs.

| | checked and proved | checked only |
|---|---|---|
| shell | `AtMostOneFG`, `ListedIsChild`, `NextjidFresh`, `NoLostWakeup`, `NoZombieForgotten`, `StoppedIsListed`, `ListedUntilReaped`, `ImplementsJobControl` | liveness |
| under test | `SyncPaired`, `NextMeansIdle`, `ForwardedToChild`, `WrapperUnnoticed`, `CleanedUp` at the exit | `TraceCompletes`, that `RunEndsClean` comes, `ParsedAsTyped` |
| proxy cache | `NoUseAfterFree`, `CacheConsistent`, `CachedWhole`, `CacheBounded`, `ImplementsLRU` | `SectionEnds` |
| descriptors | `DescriptorsAccounted` | liveness |
| proxy and Tiny | `CachedIsComplete`, `AnswersItsRequest`, `ForwardedWellFormed` | liveness |
| cache lab | `ImplementsSetLRU`, `MarkedFairly` | `FunctionsTranspose`, `Trans32FullScore` |
| allocator | `DriverAccepts`, `HeapConsistent`, `BlocksAreHeld`, `GrowthIsNeeded` | |
| heap and tree under it | | all |

Liveness needs fairness and `ENABLED`, which the provers do not have. `STree` has recursive operators
over trees, and the transposes of `Trans` loop over matrices of any size; what such a definition computes needs an induction
that the provers cannot instantiate.
Where a recursive function stands in the way, a proof has to find another form of it: `OrderOf` and the walks of `Mm` are
unfolded one step at a time, at a least position or rank at which they could be wrong, and `Counts` says without
recursion, of each prefix of a trace, what the loop of `csim` adds up. `Parseline` compares
a loop with a search over all ways to cut a line. No theorem assumes another than the named assumptions on the constants, but for
`BalancedTraces` and `RequestsFit` in those of `MmClientProofs`.

Every property of a passing run has a mutated form of the code in `PROJECT.json` that violates it. The mutated forms
stand in the modules before the definition they are a variant of.

## 11. Not modelled

* The HTTP parser of the proxy: the repository has its header and an object file.
* `pxy`, the proxy's Python test harness; `driver.py`, `sdriver` and the other scripts, which run programs and compare
  text.
* The naive allocator, `fcyc.c`, `clock.c`: an example and measurement. In `mdriver.c` and `tracefile.c` timing, scoring
  and the reading of traces.
* Test programs of the shell that only print or use files, with the traces that need them.
* The rest of `csapp.c`: `Signal`, the `sio` functions and the look-ups of addresses are single steps of their callers.
* `mm_checkheap` and everything that prints.
