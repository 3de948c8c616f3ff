----------------------------- MODULE MCMallocLib -----------------------------
(***************************************************************************)
(* The two structures the allocator's driver stands on.  They share        *)
(* nothing, so an execution uses one of them: the sparse memory or the     *)
(* tree.  The state kept of a structure leaves out its last call, which    *)
(* only its specification refers to.                                       *)
(***************************************************************************)
EXTENDS SparseMem, STree

VARIABLE uses   (* "memory" or "tree"                                       *)

(* Words with and without bytes to mask, copies and fills with and without *)
(* a word that is not whole.                                               *)
MemNext ==
  /\ status = "run"
  /\ \/ \E n \in {3, MaxHeap} : mem_sbrk(n)
     \/ mem_reset_brk
     \/ \E b \in BOOLEAN : setUBCheck(b)
     \/ \E a \in 0..MaxHeap, n \in 1..WORD : Read(a, n)
     \/ \E a \in 0..MaxHeap, v \in {<<1, 0>>, <<1>>} : Write(a, v)
     \/ \E d, s \in 0..MaxHeap, n \in {1, WORD + 1} : Memcpy(d, s, n)
     \/ \E d \in 0..MaxHeap, n \in {1, WORD + 1} : Memset(d, 1, n)

MCInit == uses \in {"memory", "tree"} /\ MemInit /\ TreeInit

MCNext ==
  /\ UNCHANGED uses
  /\ \/ uses = "memory" /\ MemNext /\ UNCHANGED treeVars
     \/ uses = "tree" /\ TreeNext /\ UNCHANGED memVars

MCView == <<uses, mem_brk, page_table, block, num_free_pages, checkUB, status, tree, record>>

MCSpec == MCInit /\ [][MCNext]_<<uses, memVars, treeVars>>
===============================================================================
