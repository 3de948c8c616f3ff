-------------------------------- MODULE STree --------------------------------
(***************************************************************************)
(* The splay tree of malloc/stree.c, in which the driver keeps the payload *)
(* ranges of an allocator under test.                                      *)
(*                                                                         *)
(* A node is named by its key: the tree never has two nodes of one key.    *)
(* The rotations keep the order of the code's assignments, that matters    *)
(* where a child is missing.                                               *)
(***************************************************************************)
EXTENDS Integers, Sequences

CONSTANTS
  Key,
  Record,
  NULL

ASSUME STreeAssumption == Key \subseteq Int /\ NULL \notin Key /\ NULL \notin Record

VARIABLES
  tree,         (* root, and left, right and parent of every node           *)
  record,       (* of every node, NULL where there is no node               *)
  request,      (* the last call: its name, key and record                  *)
  answer        (* what it has returned                                     *)

treeVars == <<tree, record, request, answer>>

TreeCall(op, key, r) == [op |-> op, key |-> key, record |-> r]

NoKids == [k \in Key |-> NULL]
tree_new == [root |-> NULL, left |-> NoKids, right |-> NoKids, parent |-> NoKids]

TreeInit ==
  /\ tree = tree_new
  /\ record = [k \in Key |-> NULL]
  /\ request = TreeCall("free", NULL, NULL)
  /\ answer = <<>>

-----------------------------------------------------------------------------
(* The helpers: each gives the tree after it                               *)

(* v takes u's place below u's parent, whose own place u keeps.            *)
InPlaceOf(t, u, v) ==
  LET p == t.parent[u]
  IN IF p = NULL THEN [t EXCEPT !.root = v]
     ELSE IF u = t.left[p] THEN [t EXCEPT !.left[p] = v]
     ELSE [t EXCEPT !.right[p] = v]

HasParent(t, v, p) == IF v = NULL THEN t ELSE [t EXCEPT !.parent[v] = p]

left_rotate(t, x) ==
  LET y == t.right[x]
      a == IF y = NULL THEN t
           ELSE HasParent(HasParent([t EXCEPT !.right[x] = t.left[y]], t.left[y], x),
                          y, t.parent[x])
      b == InPlaceOf(a, x, y)
  IN [b EXCEPT !.left = IF y = NULL THEN @ ELSE [@ EXCEPT ![y] = x], !.parent[x] = y]

right_rotate(t, x) ==
  LET y == t.left[x]
      a == IF y = NULL THEN t
           ELSE HasParent(HasParent([t EXCEPT !.left[x] = t.right[y]], t.right[y], x),
                          y, t.parent[x])
      b == InPlaceOf(a, x, y)
  IN [b EXCEPT !.right = IF y = NULL THEN @ ELSE [@ EXCEPT ![y] = x], !.parent[x] = y]

RECURSIVE splay(_, _)
splay(t, x) ==
  LET p == t.parent[x]
      g == t.parent[p]
      right_right(s) == right_rotate(right_rotate(s, g), p)
      left_left(s) == left_rotate(left_rotate(s, g), p)
  IN IF p = NULL THEN t
     ELSE splay(IF g = NULL
                THEN IF t.left[p] = x THEN right_rotate(t, p) ELSE left_rotate(t, p)
                ELSE IF t.left[p] = x /\ t.left[g] = p THEN right_right(t)
                ELSE IF t.right[p] = x /\ t.right[g] = p THEN left_left(t)
                ELSE IF t.left[p] = x /\ t.right[g] = p
                THEN LET s == right_rotate(t, p) IN left_rotate(s, s.parent[x])
                ELSE LET s == left_rotate(t, p) IN right_rotate(s, s.parent[x]),
                x)

replace(t, u, v) == HasParent(InPlaceOf(t, u, v), v, t.parent[u])

(* Mutated form: the subtree's root for its least node.                    *)
subtree_minimum_Root(t, u) == u

RECURSIVE subtree_minimum(_, _)
subtree_minimum(t, u) == IF t.left[u] = NULL THEN u ELSE subtree_minimum(t, t.left[u])

(* The nodes that the search for a key visits, from z down: a key that is  *)
(* found is the last of them.                                              *)
RECURSIVE Path(_, _, _)
Path(t, z, key) ==
  IF z = NULL THEN <<>>
  ELSE IF z = key THEN <<z>>
  ELSE <<z>> \o Path(t, IF key > z THEN t.right[z] ELSE t.left[z], key)

Found(path, key) == path # <<>> /\ path[Len(path)] = key

-----------------------------------------------------------------------------
(* The operations                                                          *)

tree_insert(key, r) ==
  /\ request' = TreeCall("insert", key, r)
  /\ \E path \in {Path(tree, tree.root, key)} :
       IF Found(path, key)
       THEN answer' = FALSE /\ UNCHANGED <<tree, record>>
       ELSE LET p == IF path = <<>> THEN NULL ELSE path[Len(path)]
                leaf == [tree EXCEPT !.parent[key] = p,
                                     !.left[key] = NULL, !.right[key] = NULL]
                t == IF p = NULL THEN [leaf EXCEPT !.root = key]
                     ELSE IF p < key THEN [leaf EXCEPT !.right[p] = key]
                     ELSE [leaf EXCEPT !.left[p] = key]
            IN /\ tree' = splay(t, key)
               /\ record' = [record EXCEPT ![key] = r]
               /\ answer' = TRUE

tree_find(key) ==
  /\ request' = TreeCall("find", key, NULL)
  /\ answer' = IF Found(Path(tree, tree.root, key), key) THEN record[key] ELSE NULL
  /\ UNCHANGED <<tree, record>>

(* n is the largest of the keys on the path that are below the given one.  *)
tree_find_nearest(key) ==
  /\ request' = TreeCall("find_nearest", key, NULL)
  /\ \E path \in {Path(tree, tree.root, key)} :
       LET below == {path[i] : i \in DOMAIN path} \cap {k \in Key : k < key}
       IN answer' = IF Found(path, key) THEN record[key]
                    ELSE IF below = {} THEN NULL
                    ELSE record[CHOOSE n \in below : \A k \in below : k <= n]
  /\ UNCHANGED <<tree, record>>

(* The splayed tree t without its root z.                                  *)
Without(t, z) ==
  IF t.left[z] = NULL THEN replace(t, z, t.right[z])
  ELSE IF t.right[z] = NULL THEN replace(t, z, t.left[z])
  ELSE LET y == subtree_minimum(t, t.right[z])
           up == replace(t, y, t.right[y])
           a == IF t.parent[y] = z THEN t
                ELSE [up EXCEPT !.right[y] = up.right[z], !.parent[up.right[z]] = y]
           b == replace(a, z, y)
       IN [b EXCEPT !.left[y] = b.left[z], !.parent[b.left[z]] = y]

tree_remove(key) ==
  /\ request' = TreeCall("remove", key, NULL)
  /\ IF Found(Path(tree, tree.root, key), key)
     THEN /\ \E t \in {Without(splay(tree, key), key)} :
               tree' = [t EXCEPT !.left[key] = NULL, !.right[key] = NULL, !.parent[key] = NULL]
          /\ record' = [record EXCEPT ![key] = NULL]
          /\ answer' = record[key]
     ELSE answer' = NULL /\ UNCHANGED <<tree, record>>

(* The records of a subtree in the order in which they are freed.          *)
RECURSIVE free_subtree(_)
free_subtree(x) ==
  IF x = NULL THEN <<>>
  ELSE free_subtree(tree.left[x]) \o free_subtree(tree.right[x]) \o <<record[x]>>

(* The tree is freed, and the driver goes on with a new one.               *)
tree_free ==
  /\ request' = TreeCall("free", NULL, NULL)
  /\ answer' = free_subtree(tree.root)
  /\ tree' = tree_new
  /\ record' = [k \in Key |-> NULL]

TreeNext ==
  \/ \E k \in Key, r \in Record : tree_insert(k, r)
  \/ \E k \in Key : tree_find(k) \/ tree_find_nearest(k) \/ tree_remove(k)
  \/ tree_free

-----------------------------------------------------------------------------
(* The nodes that were allocated and not freed.                            *)
map == [k \in {k \in Key : record[k] # NULL} |-> record[k]]

Abstract == INSTANCE KeyMap WITH call <- request, result <- answer

(* The tree is a map from keys to records: rotating, splicing a node out   *)
(* of the middle and the parent pointers that both rely on lose no node    *)
(* and misplace none, so every later search, and the freeing of the tree,  *)
(* meets each record that was inserted and not removed.                    *)
ImplementsKeyMap == Abstract!Spec
=============================================================================
