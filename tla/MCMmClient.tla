----------------------------- MODULE MCMmClient -----------------------------
(* Instances of MmClient for TLC. *)
EXTENDS MmClient

ids == 1 .. 3
requests == {0, 8, 24, 25}
counts == {0, 3, 512}

=============================================================================
