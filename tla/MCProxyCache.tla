---------------------------- MODULE MCProxyCache ----------------------------
(* ProxyCache for TLC.                                                     *)
EXTENDS ProxyCacheLRU, TLC

CONSTANTS t1, t2, t3, k1, k2, k3, a1, a2, a3

Symmetric ==
  Permutations(Thread) \cup Permutations(Key) \cup Permutations(Addr)
=============================================================================
