------------------------------- MODULE MCTsh -------------------------------
(* Values for the constants of Tsh.                                        *)
EXTENDS Tsh, TLC

CONSTANTS p1, p2, p3

TwoPids == {p1, p2}
ThreePids == {p1, p2, p3}

(* The kernel hands out pids in no order the shell relies on.              *)
PidSymmetry == Permutations(Pid)
=============================================================================
