------------------------------- MODULE SetLRU -------------------------------
(***************************************************************************)
(* What the cache simulator promises: each set is a list of blocks, the    *)
(* last used first, of which at most E are kept; a store makes a block     *)
(* dirty, and a dirty block that is dropped is written back.               *)
(***************************************************************************)
EXTENDS Integers, Sequences, SequencesExt

CONSTANTS Geometries, Addresses

VARIABLES geom, recent, stats

absvars == <<geom, recent, stats>>

Zero == [hits |-> 0, misses |-> 0, evictions |-> 0, dirty_bytes |-> 0,
         dirty_evictions |-> 0]

Block(tag, dirty) == [tag |-> tag, dirty |-> dirty]

Reset ==
  /\ geom' \in Geometries
  /\ recent' = [set \in 0 .. 2^geom'.s - 1 |-> <<>>]
  /\ stats' = Zero

Hit(set, k, store) ==
  LET old == recent[set][k]
  IN  /\ recent' = [recent EXCEPT ![set] =
                      <<Block(old.tag, old.dirty \/ store)>> \o RemoveAt(@, k)]
      /\ stats' = [stats EXCEPT !.hits = @ + 1,
                      !.dirty_bytes = IF store /\ ~old.dirty THEN @ + 2^geom.b ELSE @]

Miss(set, tag, store) ==
  LET full == Len(recent[set]) = geom.E
      written == IF full /\ Last(recent[set]).dirty THEN 2^geom.b ELSE 0
      kept == IF full THEN Front(recent[set]) ELSE recent[set]
  IN  /\ recent' = [recent EXCEPT ![set] = <<Block(tag, store)>> \o kept]
      /\ stats' = [stats EXCEPT !.misses = @ + 1,
                      !.evictions = IF full THEN @ + 1 ELSE @,
                      !.dirty_evictions = @ + written,
                      !.dirty_bytes = (@ - written) + (IF store THEN 2^geom.b ELSE 0)]

Access(address, store) ==
  LET set == (address \div 2^geom.b) % 2^geom.s
      tag == address \div 2^(geom.s + geom.b)
  IN  /\ \/ \E k \in DOMAIN recent[set] : recent[set][k].tag = tag /\ Hit(set, k, store)
         \/ /\ \A k \in DOMAIN recent[set] : recent[set][k].tag # tag
            /\ Miss(set, tag, store)
      /\ UNCHANGED geom

AbsInit ==
  /\ geom \in Geometries
  /\ recent = [set \in 0 .. 2^geom.s - 1 |-> <<>>]
  /\ stats = Zero

AbsNext == Reset \/ \E address \in Addresses, store \in BOOLEAN : Access(address, store)

AbsSpec == AbsInit /\ [][AbsNext]_absvars

=============================================================================
