------------------------------- MODULE FlatMem -------------------------------
(***************************************************************************)
(* What the simulated heap of malloc/memlib.c promises: a row of bytes     *)
(* that grows at its end, each of them unwritten until it is written.      *)
(* With the check on, reading an unwritten byte ends the program, and only *)
(* that; with the check off it gives any value.  The emulation may run out *)
(* of blocks for its pages.                                                *)
(***************************************************************************)
EXTENDS Naturals, Sequences

CONSTANTS
  Byte,         (* the values of a byte; 0 is one                           *)
  Unwritten,    (* not a byte                                               *)
  WORD,         (* the bytes of a result                                    *)
  MaxHeap       (* the most bytes of the heap                               *)

VARIABLES
  mem,          (* the bytes; the first address is 0                        *)
  checkUB,
  status,       (* "run", "abort" or "exit"                                 *)
  call,         (* the last call: its name and arguments                    *)
  result        (* what it has returned                                     *)

vars == <<mem, checkUB, status, call, result>>

Init == mem = <<>> /\ checkUB = TRUE /\ status = "run"

(* The n bytes of m at a, and m with v there.                              *)
Bytes(m, a, n) == SubSeq(m, a + 1, a + n)
Put(m, a, v) ==
  [i \in DOMAIN m |-> IF i \in (a + 1)..(a + Len(v)) THEN v[i - a] ELSE m[i]]

AllWritten(v) == \A i \in DOMAIN v : v[i] # Unwritten

(* w may be read where v is.                                               *)
Reads(v, w) == \A i \in DOMAIN v : w[i] \in Byte /\ v[i] \in {w[i], Unwritten}

(* A step from the bytes m to m1, for the call c, which reads the bytes v. *)
Done(m, m1, c, v) ==
  /\ status' = "run"
  /\ c.op # "setUBCheck" => UNCHANGED checkUB
  /\ CASE c.op = "sbrk" ->
            IF Len(m) + c.n <= MaxHeap
            THEN m1 = m \o [i \in 1..c.n |-> Unwritten] /\ result' = <<Len(m)>>
            ELSE m1 = m /\ result' = <<"ENOMEM">>
       [] c.op = "reset" -> m1 = <<>>
       [] c.op = "setUBCheck" -> m1 = m /\ checkUB' = c.val
       [] c.op = "write" -> m1 = Put(m, c.at, c.val)
       [] c.op = "memset" -> m1 = Put(m, c.at, [i \in 1..c.n |-> c.val])
       [] c.op = "read" ->
            /\ m1 = m
            /\ Len(result') = WORD
            /\ Reads(v, result')
            /\ \A i \in (c.n + 1)..WORD : result'[i] = 0
       [] c.op = "memcpy" ->
            \E w \in {Bytes(m1, c.at, c.n)} : Reads(v, w) /\ m1 = Put(m, c.at, w)

(* The bytes that the call c reads.                                        *)
Source(m, c) ==
  CASE c.op = "read" -> Bytes(m, c.at, c.n)
    [] c.op = "memcpy" -> Bytes(m, c.from, c.n)
    [] OTHER -> <<>>

Next ==
  /\ status = "run"
  /\ \E m \in {mem}, m1 \in {mem'} : \E v \in {Source(m, call')} :
       IF status' = "run"
       THEN (checkUB => AllWritten(v)) /\ Done(m, m1, call', v)
       ELSE status' = "abort" => checkUB /\ ~AllWritten(v)

Spec == Init /\ [][Next]_vars
=============================================================================
