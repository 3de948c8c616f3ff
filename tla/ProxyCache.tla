----------------------------- MODULE ProxyCache -----------------------------
(***************************************************************************)
(* The web object cache of proxy/cache.c and the threads of proxy/proxy.c  *)
(* that use it.  The cache is a doubly linked list in the heap, least      *)
(* recently used object first, behind one mutex; a thread that has found   *)
(* an object reads it after it has released the mutex, and the object's    *)
(* reference count is all that keeps it from being freed meanwhile.        *)
(*                                                                         *)
(* A step is one turn of a loop of cache.c, or one chunk read or written.  *)
(* A request is the part of serve from the look-up on: what comes before   *)
(* (parsing, headers, error responses) is local to the thread.             *)
(***************************************************************************)
EXTENDS Integers, FiniteSets

CONSTANTS
  Thread,           (* the threads, each serving one request at a time      *)
  Key,              (* the URIs                                             *)
  Addr,             (* the addresses malloc hands out for objects           *)
  NULL, NoThread, NoKey,
  MAX_CACHE_SIZE,   (* sizes are counted in chunks of MAXLINE bytes         *)
  MAX_OBJECT_SIZE,
  MaxResponse       (* bound: the chunks of the longest response            *)

ASSUME ProxyCacheAssumption ==
  /\ IsFiniteSet(Thread)
  /\ NULL \notin Addr
  /\ NoThread \notin Thread
  /\ NoKey \notin Key
  /\ MAX_CACHE_SIZE \in Nat
  /\ MAX_OBJECT_SIZE \in Nat
  /\ MAX_OBJECT_SIZE <= MAX_CACHE_SIZE
  /\ MaxResponse \in Nat

VARIABLES
  list,     (* the objects in the heap, and the head and tail of the list   *)
  size,     (* cache.size                                                   *)
  mutex,    (* the thread that holds cache.mutex                            *)
  pc,       (* where each thread is                                         *)
  key,      (* the URI each thread is asked for                             *)
  curr,     (* the pointer of each thread's walk, or the object it found    *)
  written,  (* hit: the chunks of the object written to the client          *)
  buf,      (* miss: what web_obj_buffer holds, and whether it is cachable  *)
  sent      (* miss: the chunks of the response written to the client; the  *)
            (* code does not count them                                     *)

cacheVars == <<list, size, mutex>>
vars == <<list, size, mutex, pc, key, curr, written, buf, sent>>

Ptr == Addr \cup {NULL}

(* An object of the heap.  of is the length of the response its bytes were *)
(* copied from (no field of the code).                                     *)
Obj == [key : Key \cup {NoKey}, size : Nat, of : Nat, reference_cnt : Nat,
        prev : Ptr, next : Ptr]

Freed == [key |-> NoKey, size |-> 0, of |-> 0, reference_cnt |-> 0,
          prev |-> NULL, next |-> NULL]

(* The points of the code a thread can be at, those of the critical        *)
(* sections first.                                                         *)
Inside == {"search", "dup", "evict", "walk", "add"}
PC == Inside \cup {"idle", "lookup", "hit", "release", "fetch", "stream", "done"}

live == {a \in Addr : list.obj[a].key # NoKey}

obj(t) == list.obj[curr[t]]

-----------------------------------------------------------------------------
(* The list operations.  L is a list: objects, head and tail.              *)

remove_cache_obj_from_cache(L, a) ==
  LET n == L.obj[a].next
      p == L.obj[a].prev
  IN  [obj  |-> [x \in Addr |->
                   CASE x = n -> [L.obj[x] EXCEPT !.prev = p]
                     [] x = p -> [L.obj[x] EXCEPT !.next = n]
                     [] x = a -> [L.obj[x] EXCEPT !.next = NULL, !.prev = NULL]
                     [] OTHER -> L.obj[x]],
       head |-> IF p = NULL THEN n ELSE L.head,
       tail |-> IF n = NULL THEN p ELSE L.tail]

insert_cache_obj_to_tail(L, a) ==
  [obj  |-> [x \in Addr |->
               CASE x = a -> [L.obj[x] EXCEPT !.next = NULL, !.prev = L.tail]
                 [] x = L.tail -> [L.obj[x] EXCEPT !.next = a]
                 [] OTHER -> L.obj[x]],
   head |-> IF L.head = NULL THEN a ELSE L.head,
   tail |-> a]

WithObj(L, a, o) == [L EXCEPT !.obj[a] = o]

-----------------------------------------------------------------------------
EmptyBuf == [size |-> 0, cachable |-> TRUE]

Init ==
  /\ list = [obj |-> [a \in Addr |-> Freed], head |-> NULL, tail |-> NULL]
  /\ size = 0
  /\ mutex = NoThread
  /\ pc = [t \in Thread |-> "idle"]
  /\ key = [t \in Thread |-> NoKey]
  /\ curr = [t \in Thread |-> NULL]
  /\ written = [t \in Thread |-> 0]
  /\ buf = [t \in Thread |-> EmptyBuf]
  /\ sent = [t \in Thread |-> 0]

Goto(t, l) == pc' = [pc EXCEPT ![t] = l]

(* The end of serve: the locals are gone.                                  *)
Return(t) ==
  /\ Goto(t, "idle")
  /\ key' = [key EXCEPT ![t] = NoKey]
  /\ curr' = [curr EXCEPT ![t] = NULL]
  /\ written' = [written EXCEPT ![t] = 0]
  /\ buf' = [buf EXCEPT ![t] = EmptyBuf]
  /\ sent' = [sent EXCEPT ![t] = 0]

(* pthread_mutex_lock, then curr = cache.head.                             *)
Lock(t, l) ==
  /\ mutex = NoThread
  /\ mutex' = t
  /\ curr' = [curr EXCEPT ![t] = list.head]
  /\ Goto(t, l)

Advance(t) == curr' = [curr EXCEPT ![t] = obj(t).next]

(* A request for k has been read and parsed.                               *)
Request(t, k) ==
  /\ pc[t] = "idle"
  /\ key' = [key EXCEPT ![t] = k]
  /\ Goto(t, "lookup")
  /\ UNCHANGED <<cacheVars, curr, written, buf, sent>>

-----------------------------------------------------------------------------
(* search_cache_obj                                                        *)

Search(t) ==
  /\ pc[t] = "lookup"
  /\ Lock(t, "search")
  /\ UNCHANGED <<list, size, key, written, buf, sent>>

SearchNext(t) ==
  /\ pc[t] = "search"
  /\ curr[t] # NULL
  /\ obj(t).key # key[t]
  /\ Advance(t)
  /\ UNCHANGED <<cacheVars, pc, key, written, buf, sent>>

(* Mutated form: the reference is not counted.                             *)
SearchHit_NoReference(t) ==
  /\ pc[t] = "search"
  /\ curr[t] # NULL
  /\ obj(t).key = key[t]
  /\ LET a == curr[t] IN
       list' = IF list.tail = a THEN list
               ELSE insert_cache_obj_to_tail(
                      remove_cache_obj_from_cache(list, a), a)
  /\ mutex' = NoThread
  /\ Goto(t, "hit")
  /\ UNCHANGED <<size, key, curr, written, buf, sent>>

(* Mutated form: the object stays where it is.                             *)
SearchHit_NotMoved(t) ==
  /\ pc[t] = "search"
  /\ curr[t] # NULL
  /\ obj(t).key = key[t]
  /\ list' = [list EXCEPT !.obj[curr[t]].reference_cnt = @ + 1]
  /\ mutex' = NoThread
  /\ Goto(t, "hit")
  /\ UNCHANGED <<size, key, curr, written, buf, sent>>

SearchHit(t) ==
  /\ pc[t] = "search"
  /\ curr[t] # NULL
  /\ obj(t).key = key[t]
  /\ LET a == curr[t]
         L == [list EXCEPT !.obj[a].reference_cnt = @ + 1]
     IN  list' = IF list.tail = a THEN L
                 ELSE insert_cache_obj_to_tail(
                        remove_cache_obj_from_cache(L, a), a)
  /\ mutex' = NoThread
  /\ Goto(t, "hit")
  /\ UNCHANGED <<size, key, curr, written, buf, sent>>

SearchMiss(t) ==
  /\ pc[t] = "search"
  /\ curr[t] = NULL
  /\ mutex' = NoThread
  /\ Goto(t, "fetch")
  /\ UNCHANGED <<list, size, key, curr, written, buf, sent>>

-----------------------------------------------------------------------------
(* serve on a hit: the object is written to the client, then released.     *)

HitWrite(t) ==
  /\ pc[t] = "hit"
  /\ written[t] < obj(t).size
  /\ written' = [written EXCEPT ![t] = @ + 1]
  /\ UNCHANGED <<cacheVars, pc, key, curr, buf, sent>>

(* All is written, or the client has gone.                                 *)
HitEnd(t) ==
  /\ pc[t] = "hit"
  /\ Goto(t, "release")
  /\ UNCHANGED <<cacheVars, key, curr, written, buf, sent>>

(* free_cache_obj                                                          *)
Release(t) ==
  /\ pc[t] = "release"
  /\ mutex = NoThread
  /\ list' = [list EXCEPT !.obj[curr[t]].reference_cnt = @ - 1]
  /\ Return(t)
  /\ UNCHANGED <<size, mutex>>

-----------------------------------------------------------------------------
(* serve on a miss: the response is passed on to the client and kept while *)
(* it fits.                                                                *)

(* The connection to the server fails, or the request cannot be sent.      *)
FetchFails(t) ==
  /\ pc[t] = "fetch"
  /\ Return(t)
  /\ UNCHANGED cacheVars

Fetch(t) ==
  /\ pc[t] = "fetch"
  /\ Goto(t, "stream")
  /\ UNCHANGED <<cacheVars, key, curr, written, buf, sent>>

(* Mutated form: a response that does not fit stays cachable.              *)
StreamChunk_Truncates(t) ==
  /\ pc[t] = "stream"
  /\ sent[t] < MaxResponse
  /\ sent' = [sent EXCEPT ![t] = @ + 1]
  /\ buf' = [buf EXCEPT ![t].size = IF @ < MAX_OBJECT_SIZE THEN @ + 1 ELSE @]
  /\ UNCHANGED <<cacheVars, pc, key, curr, written>>

StreamChunk(t) ==
  /\ pc[t] = "stream"
  /\ sent[t] < MaxResponse
  /\ sent' = [sent EXCEPT ![t] = @ + 1]
  /\ buf' = IF buf[t].size + 1 <= MAX_OBJECT_SIZE
              THEN [buf EXCEPT ![t].size = @ + 1]
              ELSE [buf EXCEPT ![t].cachable = FALSE]
  /\ UNCHANGED <<cacheVars, pc, key, curr, written>>

(* The client has gone; or the read fails, and -1, taken for a size, makes *)
(* the write to the client fail.                                           *)
StreamBroken(t) ==
  /\ pc[t] = "stream"
  /\ buf' = [buf EXCEPT ![t].cachable = FALSE]
  /\ Goto(t, "done")
  /\ UNCHANGED <<cacheVars, key, curr, written, sent>>

(* The server closes the connection: the end of the response, as far as    *)
(* the proxy can tell.                                                     *)
StreamEnd(t) ==
  /\ pc[t] = "stream"
  /\ Goto(t, "done")
  /\ UNCHANGED <<cacheVars, key, curr, written, buf, sent>>

ToBeCached(t) == buf[t].cachable /\ buf[t].size > 0

NotCached(t) ==
  /\ pc[t] = "done"
  /\ ~ToBeCached(t)
  /\ Return(t)
  /\ UNCHANGED cacheVars

-----------------------------------------------------------------------------
(* insert_cache_obj_to_cache: not twice the same key, make room, append.   *)
(* The object is never larger than MAX_OBJECT_SIZE here.                   *)

Insert(t) ==
  /\ pc[t] = "done"
  /\ ToBeCached(t)
  /\ Lock(t, "dup")
  /\ UNCHANGED <<list, size, key, written, buf, sent>>

InsertNext(t) ==
  /\ pc[t] = "dup"
  /\ curr[t] # NULL
  /\ obj(t).key # key[t]
  /\ Advance(t)
  /\ UNCHANGED <<cacheVars, pc, key, written, buf, sent>>

InsertDuplicate(t) ==
  /\ pc[t] = "dup"
  /\ curr[t] # NULL
  /\ obj(t).key = key[t]
  /\ mutex' = NoThread
  /\ Return(t)
  /\ UNCHANGED <<list, size>>

InsertNew(t) ==
  /\ pc[t] = "dup"
  /\ curr[t] = NULL
  /\ Goto(t, "evict")
  /\ UNCHANGED <<cacheVars, key, curr, written, buf, sent>>

(* evict_obj_in_cache: while there is no room, the first object that is    *)
(* not in use is removed and freed; if all are in use there is no more to  *)
(* do.                                                                     *)
Evict(t) ==
  /\ pc[t] = "evict"
  /\ IF buf[t].size + size > MAX_CACHE_SIZE
       THEN /\ curr' = [curr EXCEPT ![t] = list.head]
            /\ Goto(t, "walk")
       ELSE /\ Goto(t, "add")
            /\ UNCHANGED curr
  /\ UNCHANGED <<cacheVars, key, written, buf, sent>>

(* Mutated form: only the head of the list is looked at.                   *)
EvictNext_HeadOnly(t) ==
  /\ pc[t] = "walk"
  /\ curr[t] # NULL
  /\ obj(t).reference_cnt > 0
  /\ Goto(t, "add")
  /\ UNCHANGED <<cacheVars, key, curr, written, buf, sent>>

EvictNext(t) ==
  /\ pc[t] = "walk"
  /\ curr[t] # NULL
  /\ obj(t).reference_cnt > 0
  /\ Advance(t)
  /\ UNCHANGED <<cacheVars, pc, key, written, buf, sent>>

(* Mutated form: the size is not given back.                               *)
EvictOne_KeepsSize(t) ==
  /\ pc[t] = "walk"
  /\ curr[t] # NULL
  /\ obj(t).reference_cnt = 0
  /\ list' = WithObj(remove_cache_obj_from_cache(list, curr[t]), curr[t], Freed)
  /\ curr' = [curr EXCEPT ![t] = NULL]
  /\ Goto(t, "evict")
  /\ UNCHANGED <<size, mutex, key, written, buf, sent>>

EvictOne(t) ==
  /\ pc[t] = "walk"
  /\ curr[t] # NULL
  /\ obj(t).reference_cnt = 0
  /\ size' = size - obj(t).size
  /\ list' = WithObj(remove_cache_obj_from_cache(list, curr[t]), curr[t], Freed)
  /\ curr' = [curr EXCEPT ![t] = NULL]
  /\ Goto(t, "evict")
  /\ UNCHANGED <<mutex, key, written, buf, sent>>

(* Mutated form: there is no break.                                        *)
EvictNone_NoBreak(t) ==
  /\ pc[t] = "walk"
  /\ curr[t] = NULL
  /\ Goto(t, "evict")
  /\ UNCHANGED <<cacheVars, key, curr, written, buf, sent>>

EvictNone(t) ==
  /\ pc[t] = "walk"
  /\ curr[t] = NULL
  /\ Goto(t, "add")
  /\ UNCHANGED <<cacheVars, key, curr, written, buf, sent>>

Add(t) ==
  /\ pc[t] = "add"
  /\ \E a \in Addr \ live :
       list' = insert_cache_obj_to_tail(
                 WithObj(list, a, [key |-> key[t], size |-> buf[t].size,
                                   of |-> sent[t], reference_cnt |-> 0,
                                   prev |-> NULL, next |-> NULL]), a)
  /\ size' = size + buf[t].size
  /\ mutex' = NoThread
  /\ Return(t)

-----------------------------------------------------------------------------

(* A step of a thread in the code, and the arrival of a request.           *)
Step(t) ==
  \/ Search(t) \/ SearchNext(t) \/ SearchHit(t) \/ SearchMiss(t)
  \/ HitWrite(t) \/ HitEnd(t) \/ Release(t)
  \/ FetchFails(t) \/ Fetch(t)
  \/ StreamChunk(t) \/ StreamBroken(t) \/ StreamEnd(t) \/ NotCached(t)
  \/ Insert(t) \/ InsertNext(t) \/ InsertDuplicate(t) \/ InsertNew(t)
  \/ Evict(t) \/ EvictNext(t) \/ EvictOne(t) \/ EvictNone(t)
  \/ Add(t)

Next ==
  \E t \in Thread : Step(t) \/ \E k \in Key : Request(t, k)

Spec == Init /\ [][Next]_vars

(* Every thread that can take a step takes one: the scheduler runs it, its *)
(* reads and writes return (when the peer goes away, with an error).       *)
(* Requests need not come.                                                 *)
FairSpec == Spec /\ \A t \in Thread : WF_vars(Step(t))

-----------------------------------------------------------------------------
(* Properties.                                                             *)

(* Every variable keeps its type: in particular no pointer leaves the heap *)
(* and neither a reference count nor cache.size wraps below 0.             *)
TypeOK ==
  /\ list \in [obj : [Addr -> Obj], head : Ptr, tail : Ptr]
  /\ size \in Nat
  /\ mutex \in Thread \cup {NoThread}
  /\ pc \in [Thread -> PC]
  /\ key \in [Thread -> Key \cup {NoKey}]
  /\ curr \in [Thread -> Ptr]
  /\ written \in [Thread -> Nat]
  /\ buf \in [Thread -> [size : 0..MAX_OBJECT_SIZE, cachable : BOOLEAN]]
  /\ sent \in [Thread -> 0..MaxResponse]

Holds(t, a) == pc[t] \in {"hit", "release"} /\ curr[t] = a

(* The object a thread reads outside the mutex is in the heap, and the one *)
(* it asked for: nobody evicts it, and its memory is not given out again   *)
(* for another object, until the thread has released it.  Nor does a walk  *)
(* of the list ever stand on a freed object.                               *)
NoUseAfterFree ==
  \A t \in Thread :
    /\ curr[t] # NULL => curr[t] \in live
    /\ \A a \in Addr : Holds(t, a) => list.obj[a].key = key[t]

(* The count of an object is the number of threads that read it, so that   *)
(* one that nobody reads can be evicted.                                   *)
RefsCountReaders ==
  \A a \in live :
    list.obj[a].reference_cnt = Cardinality({t \in Thread : Holds(t, a)})

(* The list runs the same way in both directions, and through live objects *)
(* only, after any sequence of moves, insertions and evictions.            *)
ListSound ==
  /\ \A a \in live :
       LET n == list.obj[a].next
           p == list.obj[a].prev
       IN  /\ IF n = NULL THEN list.tail = a
              ELSE n \in live /\ list.obj[n].prev = a
           /\ IF p = NULL THEN list.head = a
              ELSE p \in live /\ list.obj[p].next = a
  /\ \A a \in {list.head, list.tail} : a = NULL <=> live = {}

(* cache.size is the memory the cached objects take, counted chunk by      *)
(* chunk.                                                                  *)
Chunks ==
  {c \in live \X (1..MAX_OBJECT_SIZE) : c[2] <= list.obj[c[1]].size}

SizeIsSum == size = Cardinality(Chunks)

(* No two objects of the same URI, however many threads missed on it at    *)
(* the same time.                                                          *)
KeysUnique ==
  \A a, b \in live : list.obj[a].key = list.obj[b].key => a = b

(* The structure of the cache and the numbers kept beside it agree.        *)
CacheConsistent == ListSound /\ SizeIsSum /\ KeysUnique /\ RefsCountReaders

(* A cached object is a whole response: nothing was cut off at its end.    *)
CachedWhole == \A a \in live : list.obj[a].size = list.obj[a].of

(* The cache outgrows its limit only while objects in use stand in the way *)
(* of eviction, of which there are never more than threads.                *)
CacheBounded ==
  \/ size <= MAX_CACHE_SIZE
  \/ size <= Cardinality(Thread) * MAX_OBJECT_SIZE

(* Every critical section ends: the walks reach the end of the list, and   *)
(* the eviction loop ends even if there is nothing to evict.               *)
SectionEnds == \A t \in Thread : (mutex = t) ~> (mutex # t)

=============================================================================
