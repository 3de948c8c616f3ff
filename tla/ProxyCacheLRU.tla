--------------------------- MODULE ProxyCacheLRU ---------------------------
(***************************************************************************)
(* The cache of the proxy implements LRUCache: its entries are the objects *)
(* met on the way from the head of the list to the tail.                   *)
(***************************************************************************)
EXTENDS ProxyCache, Sequences

LiveIn(L) == {a \in Addr : L.obj[a].key # NoKey}

(* The objects met on the way from the head of a list.                     *)
OrderOf(L) ==
  LET met[i \in 1..Cardinality(LiveIn(L))] ==
        IF i = 1 THEN L.head ELSE L.obj[met[i - 1]].next
  IN  met

EntryOf(o) == [key |-> o.key, size |-> o.size, pins |-> o.reference_cnt]

EntriesOf(L) ==
  LET s == OrderOf(L)
  IN  [i \in 1..Len(s) |-> EntryOf(L.obj[s[i]])]

(* The size asked of the eviction and not yet added.                       *)
Needed ==
  LET T == {t \in Thread : pc[t] \in {"evict", "walk", "add"}}
  IN  IF T = {} THEN 0 ELSE buf[CHOOSE t \in T : TRUE].size

LRU == INSTANCE LRUCache
  WITH Capacity <- MAX_CACHE_SIZE, MaxObject <- MAX_OBJECT_SIZE,
       entries <- EntriesOf(list), need <- Needed

(* A hit pins the object and makes it the most recently used, and an       *)
(* insertion evicts the least recently used objects that are not in use,   *)
(* as few as make room, whatever the threads do meanwhile.                 *)
ImplementsLRU == LRU!Spec
=============================================================================
