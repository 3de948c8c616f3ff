------------------------------- MODULE KeyMap --------------------------------
(***************************************************************************)
(* What the tree of malloc/stree.c promises: at most one record for a key, *)
(* found by its key or as the one with the largest key that is no larger   *)
(* than a given one.                                                       *)
(***************************************************************************)
EXTENDS Integers, FiniteSetsExt

CONSTANTS
  Key,          (* integers                                                 *)
  NULL          (* not a record                                             *)

VARIABLES
  map,          (* a function from the keys that are present to the records *)
  call,         (* the last call: its name, key and record                  *)
  result        (* what it has returned                                     *)

vars == <<map, call, result>>

Init == map = [k \in {} |-> NULL]

At(m, K) == IF K = {} THEN NULL ELSE m[Max(K)]

(* A step from the map m, for the call c.                                  *)
Done(m, c) ==
  LET Present == DOMAIN m
  IN CASE c.op = "insert" ->
            /\ result' = (c.key \notin Present)
            /\ map' = IF c.key \in Present THEN m
                      ELSE [k \in Present \cup {c.key} |-> IF k = c.key THEN c.record ELSE m[k]]
       [] c.op = "remove" ->
            /\ result' = At(m, Present \cap {c.key})
            /\ map' = [k \in Present \ {c.key} |-> m[k]]
       [] c.op = "find" -> result' = At(m, Present \cap {c.key}) /\ map' = m
       [] c.op = "find_nearest" -> result' = At(m, {k \in Present : k <= c.key}) /\ map' = m
       [] c.op = "free" ->
            (* Every record is given to free_fun, and once.                *)
            /\ \E m1 \in {result'} :
                 /\ Cardinality(DOMAIN m1) = Cardinality(Present)
                 /\ \A r \in {m[k] : k \in Present} :
                      Cardinality({i \in DOMAIN m1 : m1[i] = r})
                        = Cardinality({k \in Present : m[k] = r})
            /\ map' = [k \in {} |-> NULL]

Next == \E m \in {map} : Done(m, call')

Spec == Init /\ [][Next]_vars
=============================================================================
