---------------------------- MODULE MCProxyConn ----------------------------
(* ProxyConn for TLC.                                                      *)
EXTENDS ProxyConn

CONSTANTS t1, t2, f1, f2, f3, f4

=============================================================================
