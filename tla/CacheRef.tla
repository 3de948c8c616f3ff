------------------------------ MODULE CacheRef ------------------------------
(***************************************************************************)
(* What a set-associative, write-back cache with LRU replacement counts    *)
(* over a trace, told without a cache: an access hits if its block was     *)
(* used before and fewer than E other blocks of its set were used since.   *)
(* It stands for csim-ref, of which the repository has only the binary.    *)
(* A trace here is a sequence of [op, address].                            *)
(***************************************************************************)
EXTENDS Naturals, Sequences, FiniteSets, FiniteSetsExt

RefStats(trace, s, E, b) ==
  LET (* SubSeq, so that TLC evaluates the blocks once.                      *)
      block == SubSeq([i \in DOMAIN trace |-> trace[i].address \div 2^b], 1, Len(trace))
      SameSet(i, j) == block[i] % 2^s = block[j] % 2^s
      (* The other blocks of the set of i that the accesses first..last use *)
      Rivals(i, first, last) ==
        {block[k] : k \in {j \in first .. last : SameSet(i, j) /\ block[j] # block[i]}}
      Before(i) == {j \in 1 .. i - 1 : block[j] = block[i]}
      Hits(i) == /\ Before(i) # {}
                 /\ Cardinality(Rivals(i, Max(Before(i)) + 1, i - 1)) < E
      misses == {i \in DOMAIN trace : ~Hits(i)}
      (* A miss i brings a block in; Stay(i) are its uses until it leaves.  *)
      Again(i) == {j \in misses : j > i /\ block[j] = block[i]}
      Uses(i) == {j \in i .. Len(trace) :
                    block[j] = block[i] /\ \A k \in Again(i) : j < k}
      Leaves(i) == \/ Again(i) # {}
                   \/ Cardinality(Rivals(i, Max(Uses(i)) + 1, Len(trace))) >= E
      Dirty(i) == \E j \in Uses(i) : trace[j].op = "S"
      gone == {i \in misses : Leaves(i)}
      dirty == {i \in misses : Dirty(i)}
  IN  [hits |-> Len(trace) - Cardinality(misses),
       misses |-> Cardinality(misses),
       evictions |-> Cardinality(gone),
       dirty_bytes |-> 2^b * Cardinality(dirty \ gone),
       dirty_evictions |-> 2^b * Cardinality(dirty \cap gone)]

=============================================================================
