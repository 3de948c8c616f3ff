------------------------------ MODULE CSimLRU ------------------------------
(***************************************************************************)
(* The simulator csim of CacheLab as the cache of SetLRU: the lines of a   *)
(* set, in the order of their time stamps, are the list of its blocks.     *)
(***************************************************************************)
EXTENDS CacheLab

CONSTANTS
  Addresses,   (* those of the lines of a trace that can be read            *)
  IntBits      (* the width of an int, 32 in the code                       *)

(* The command lines that a user or test-csim gives to csim.               *)
AllOptions ==
  CommandLines
    \cup {Options(k - 1, TRACE_INFO[k], t) : k \in DOMAIN TRACE_INFO, t \in TraceFiles}

(* The caches that leave bits of an address for the tag, and whose sets    *)
(* can be counted in an int, the type of the 1 that is shifted by s.  The  *)
(* check of csim lets others through: for them the code shifts by the      *)
(* width of a type or by more, or overflows, which C does not define.      *)
Geometries ==
  {g \in [s : 0 .. IntBits - 2, E : Nat \ {0}, b : 0 .. AddrBits] : g.s + g.b < AddrBits}

(* The conjuncts about powers are true of any width; the provers know none.*)
ASSUME CSimLRUAssumption ==
  /\ AddrBits > 0 /\ IntBits \in Nat /\ IntBits > 1
  /\ \A n \in 0 .. AddrBits : 2^n \in Nat \ {0}
  /\ \A m, n \in 0 .. AddrBits : m + n <= AddrBits => 2^(m + n) = 2^n * 2^m
  /\ Addresses \subseteq Nat
  /\ Len(TRACE_INFO) \in Nat \ {0} /\ DOMAIN TRACE_INFO = 1 .. Len(TRACE_INFO)
  /\ \A options \in AllOptions : Outcome(options) = "run" =>
       LET t == LastOf(options, "t")
       IN  /\ [s |-> LastOf(options, "s"), E |-> LastOf(options, "E"),
               b |-> LastOf(options, "b")] \in Geometries
           /\ t # FileMissing =>
                /\ Len(t) \in Nat /\ DOMAIN t = 1 .. Len(t)
                /\ \A k \in 1 .. Len(t) : parse_trace_line(t[k]) => t[k].address \in Addresses

(* The lists of SetLRU: the valid lines of a set, the last used first.     *)
Used(set) == {j \in DOMAIN set : set[j].valid = 1}

Entry(line) == [tag |-> line.tag, dirty |-> line.dirty = 1]

Recency(set) ==
  LET Rank(j) == Cardinality({k \in Used(set) : set[k].lru_counter >= set[j].lru_counter})
  IN  [r \in 1 .. Cardinality(Used(set)) |-> Entry(set[CHOOSE k \in Used(set) : Rank(k) = r])]

(* There is a cache from init_cache to the end of the process.             *)
Running == lines # <<>>

Recent ==
  IF Running THEN [set \in DOMAIN lines |-> Recency(lines[set])]
             ELSE [set \in 0 .. 2^geom.s - 1 |-> <<>>]

Abstract == INSTANCE SetLRU WITH recent <- Recent

(* csim implements the lists of SetLRU: a run of it is a reset and then    *)
(* one access for each line of the trace that can be read.                 *)
ImplementsSetLRU == Abstract!AbsSpec
=============================================================================
