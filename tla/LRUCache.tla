------------------------------ MODULE LRUCache ------------------------------
(***************************************************************************)
(* What the proxy's cache promises: a least-recently-used cache with       *)
(* pinned entries.  entries is the content, least recently used first;     *)
(* need is the size of the insertion under way, 0 if there is none.        *)
(***************************************************************************)
EXTENDS Naturals, Sequences, FiniteSets

CONSTANTS Key, Capacity, MaxObject

VARIABLES entries, need

lruVars == <<entries, need>>

Entry == [key : Key, size : 1..MaxObject, pins : Nat]

Index == DOMAIN entries
Pinned(i) == entries[i].pins > 0
Cached(k) == \E i \in Index : entries[i].key = k

(* The sequence s without its i-th element.                                *)
Without(s, i) ==
  [j \in 1..(Len(s) - 1) |-> s[IF j < i THEN j ELSE j + 1]]

(* The memory taken by the entries, unit by unit.                          *)
Taken ==
  LET e == entries
  IN  {c \in (DOMAIN e) \X (1..MaxObject) : c[2] <= e[c[1]].size}

Fits == need + Cardinality(Taken) <= Capacity

Init == entries = <<>> /\ need = 0

(* A hit pins the entry and makes it the most recently used.               *)
Hit(i) ==
  /\ need = 0
  /\ LET e == entries
     IN  entries' = Append(Without(e, i), [e[i] EXCEPT !.pins = @ + 1])
  /\ UNCHANGED need

Unpin(i) ==
  /\ need = 0
  /\ Pinned(i)
  /\ entries' = [entries EXCEPT ![i].pins = @ - 1]
  /\ UNCHANGED need

(* An insertion begins only for a key that is not there.                   *)
Begin(s) ==
  /\ need = 0
  /\ need' = s
  /\ UNCHANGED entries

(* While it does not fit, the least recently used entry that is not pinned *)
(* goes, and no other.                                                     *)
EvictLRU(i) ==
  /\ need > 0 /\ ~Fits
  /\ ~Pinned(i)
  /\ \A j \in Index : j < i => Pinned(j)
  /\ entries' = Without(entries, i)
  /\ UNCHANGED need

(* It is added when it fits, or nothing more can go.                       *)
Finish(k) ==
  /\ need > 0
  /\ ~Cached(k)
  /\ Fits \/ \A i \in Index : Pinned(i)
  /\ entries' = Append(entries, [key |-> k, size |-> need, pins |-> 0])
  /\ need' = 0

Next ==
  \/ \E i \in Index : Hit(i) \/ Unpin(i) \/ EvictLRU(i)
  \/ \E s \in 1..MaxObject : Begin(s)
  \/ \E k \in Key : Finish(k)

Spec == Init /\ [][Next]_lruVars
=============================================================================
