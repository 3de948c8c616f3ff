----------------------------- MODULE MCCacheLab -----------------------------
(* CSimLRU with small traces for csim, and the sizes of the code for the   *)
(* transposes that TLC can trace.                                          *)
EXTENDS CSimLRU

MCAddresses == {0, 1, 2, 4, 8}

Good(op, address) == [whole |-> TRUE, op |-> op, address |-> address, size |-> 4]

Accesses == {Good("L", 0), Good("S", 1), Good("S", 4), Good("L", 8)}

BadLines == {[Good("L", 0) EXCEPT !.op = "M"], [Good("L", 0) EXCEPT !.whole = FALSE],
             [Good("L", 0) EXCEPT !.address = None], [Good("S", 0) EXCEPT !.size = 0]}

MCTraceFiles ==
  {t \in [1 .. 5 -> Accesses] : t[1] = Good("S", 1)}
    \cup {<<Good("S", 0), line, Good("L", 0)>> : line \in BadLines}
    \cup {<<>>, <<Good("S", 2), Good("L", 0)>>, FileMissing}

MCTraceInfo == <<[s |-> 1, E |-> 2, b |-> 1, weight |-> 2]>>

MCCommandLines ==
  {<< <<"h", 0>> >>,
   << <<"s", 0>>, <<"E", 0>>, <<"b", 0>>, <<"t", <<>> >> >>,
   << <<"s", None>>, <<"h", 0>> >>,
   << <<"s", 0>>, <<"E", 1>>, <<"b", 0>> >>,
   << <<"s", 5>>, <<"E", 1>>, <<"s", 0>>, <<"b", 30>>, <<"t", <<Good("S", 0)>> >> >>,
   << <<"s", 1>>, <<"E", 1>>, <<"b", 1>>, <<"t", <<Good("S", 0), Good("L", 4)>> >> >>}

MCTransCalls ==
  {[M |-> m, N |-> n, only |-> FALSE, s |-> 1, E |-> 1, b |-> 4] :
     m \in {1, 3}, n \in {2}}
  \cup {[M |-> 16, N |-> 16, only |-> FALSE, s |-> 4, E |-> 1, b |-> 6],
        [M |-> 32, N |-> 32, only |-> TRUE, s |-> 5, E |-> 1, b |-> 6]}

MCLeftovers ==
  {NoFile, [NoFile EXCEPT !.kind = "cut"], [NoFile EXCEPT !.kind = "whole"]}

MCRowBytes == [m \in 1 .. 32 |-> 8 * m]

=============================================================================
