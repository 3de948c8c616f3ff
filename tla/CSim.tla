------------------------------- MODULE CSim -------------------------------
(***************************************************************************)
(* The cache simulator, cache/csim.c: a run of the program from its        *)
(* arguments to its exit status.  The trace is a sequence of lines; a line *)
(* is what parse_trace_line can tell of it.  Addresses have AddrBits bits  *)
(* (64 in the code).                                                       *)
(***************************************************************************)
EXTENDS Integers, Sequences, FiniteSets

CONSTANTS
  AddrBits,    (* the width of an address and of an unsigned long           *)
  None,        (* a text strtoul finds no number in, or one out of range    *)
  FileMissing  (* the content of a trace file that cannot be opened         *)

ASSUME CSimAssumption == AddrBits \in Nat /\ None \notin Nat

VARIABLES
  phase,       (* "off", "args", "trace" or "exited"                        *)
  argv,        (* the options, as getopt gives them                         *)
  geom,        (* cache->s, cache->E, cache->b                              *)
  lines,       (* cache->sets[set].lines[i]                                 *)
  counter,     (* cache->counter                                            *)
  stats,       (* csim_stats_t                                              *)
  trace,       (* the trace file, FileMissing if it cannot be opened        *)
  pos,         (* the lines of the trace read so far                        *)
  parse_error, (* how many of them could not be read                        *)
  status       (* the exit status                                           *)

simvars == <<phase, argv, geom, lines, counter, stats, trace, pos, parse_error, status>>

EXIT_SUCCESS == 0
EXIT_FAILURE == 1

ZeroStats == [hits |-> 0, misses |-> 0, evictions |-> 0, dirty_bytes |-> 0,
              dirty_evictions |-> 0]

-----------------------------------------------------------------------------
(* Reading the arguments                                                   *)

(* The options of a command line: a record of those that were given.  The  *)
(* same option twice: the last one counts.  Outcome is "run", or the exit  *)
(* status of a command line that runs nothing.  A bad number ends the      *)
(* program at once, and so do -h, a stray argument and an unknown option.  *)
(* An option is a pair, e.g. <<"s", 4>>, <<"t", file>>, <<"h">>, <<"?">>.  *)

Stops(o) == \/ o[1] \in {"h", "?"}
            \/ o[1] \in {"s", "E", "b"} /\ o[2] = None

Given(opts, name) == {i \in DOMAIN opts : opts[i][1] = name}

LastOf(opts, name) ==
  opts[CHOOSE i \in Given(opts, name) : \A j \in Given(opts, name) : j <= i][2]

FirstStop(opts) ==
  CHOOSE i \in DOMAIN opts :
    Stops(opts[i]) /\ \A j \in 1 .. i - 1 : ~Stops(opts[j])

Outcome(opts) ==
  IF \E i \in DOMAIN opts : Stops(opts[i])
  THEN IF opts[FirstStop(opts)][1] = "h" THEN "help" ELSE "usage"
  ELSE IF \/ \E name \in {"s", "E", "b", "t"} : Given(opts, name) = {}
          \/ Given(opts, "extra") # {}
          \/ (LastOf(opts, "s") + LastOf(opts, "b")) % 2^AddrBits > AddrBits
          \/ LastOf(opts, "E") = 0
       THEN "usage"
       ELSE "run"

-----------------------------------------------------------------------------
(* The cache                                                               *)

EmptyLine == [dirty |-> 0, valid |-> 0, tag |-> 0, lru_counter |-> 0]

SetIndex(address) == (address \div 2^geom.b) % 2^geom.s

Tag(address) == address \div 2^(geom.s + geom.b)

BlockBytes == 2^geom.b

Lowest(indices) == CHOOSE i \in indices : \A j \in indices : i <= j

(* The first valid line of the set that holds the tag, or -1.              *)
search_hit_line_idx(set, tag) ==
  LET hits == {i \in DOMAIN set : set[i].valid = 1 /\ set[i].tag = tag}
  IN  IF hits # {} THEN Lowest(hits) ELSE -1

(* Mutated form: the last line instead of the one used longest ago.        *)
VictimLast(set) ==
  LET empty == {i \in DOMAIN set : set[i].valid = 0}
  IN  IF empty # {} THEN Lowest(empty) ELSE geom.E - 1

(* The first empty line; without one, the first of those used longest ago. *)
search_victim_or_empty_line_idx(set) ==
  LET empty == {i \in DOMAIN set : set[i].valid = 0}
      oldest == {i \in DOMAIN set :
                   \A j \in DOMAIN set : set[i].lru_counter <= set[j].lru_counter}
  IN  Lowest(IF empty # {} THEN empty ELSE oldest)

(* Mutated form: a hit does not count as a use.                            *)
HitLineFIFO(op, line) == [line EXCEPT !.dirty = IF op = "S" THEN 1 ELSE @]

(* A hit: the line becomes the latest used, and dirty if this is a store.  *)
HitLine(op, line) ==
  [line EXCEPT !.lru_counter = counter + 1,
               !.dirty = IF op = "S" THEN 1 ELSE @]

HitStats(op, line) ==
  [stats EXCEPT !.hits = @ + 1,
                !.dirty_bytes = IF op = "S" /\ line.dirty = 0 THEN @ + BlockBytes ELSE @]

(* A miss: what was in the line is evicted, the line takes the new tag.    *)
FilledLine(op, tag) ==
  [dirty |-> IF op = "S" THEN 1 ELSE 0, valid |-> 1, tag |-> tag,
   lru_counter |-> counter + 1]

MissStats(op, line) ==
  LET evicts == line.valid = 1
      writes_back == evicts /\ line.dirty = 1
      less == IF writes_back THEN BlockBytes ELSE 0
      more == IF op = "S" THEN BlockBytes ELSE 0
  IN  [stats EXCEPT !.misses = @ + 1,
                    !.evictions = IF evicts THEN @ + 1 ELSE @,
                    !.dirty_evictions = @ + less,
                    !.dirty_bytes = @ - less + more]

touch_cache(op, address) ==
  LET set == SetIndex(address)
      hit == search_hit_line_idx(lines[set], Tag(address))
      victim == search_victim_or_empty_line_idx(lines[set])
  IN  /\ counter' = counter + 1
      /\ \/ /\ hit # -1
            /\ lines' = [lines EXCEPT ![set][hit] = HitLine(op, @)]
            /\ stats' = HitStats(op, lines[set][hit])
         \/ /\ hit = -1
            /\ lines' = [lines EXCEPT ![set][victim] = FilledLine(op, Tag(address))]
            /\ stats' = MissStats(op, lines[set][victim])

-----------------------------------------------------------------------------
(* The run                                                                 *)

Exit(s) == phase' = "exited" /\ status' = s

(* main, up to the cache: a command line that asks for nothing to be run   *)
(* ends the program, and so does the lack of memory in init_cache.         *)
Refuse ==
  /\ phase = "args" /\ Outcome(argv) # "run"
  /\ Exit(IF Outcome(argv) = "help" THEN EXIT_SUCCESS ELSE EXIT_FAILURE)
  /\ UNCHANGED <<argv, geom, lines, counter, stats, trace, pos, parse_error>>

init_cache(s, E) == [set \in 0 .. 2^s - 1 |-> [i \in 0 .. E - 1 |-> EmptyLine]]

Start ==
  /\ phase = "args" /\ Outcome(argv) = "run"
  /\ LET s == LastOf(argv, "s")
         E == LastOf(argv, "E")
     IN  /\ geom' = [s |-> s, E |-> E, b |-> LastOf(argv, "b")]
         /\ lines' = init_cache(s, E)
  /\ trace' = LastOf(argv, "t")
  /\ counter' = 0 /\ stats' = ZeroStats /\ pos' = 0
  /\ parse_error' = IF LastOf(argv, "t") = FileMissing THEN 1 ELSE 0
  /\ phase' = "trace"
  /\ UNCHANGED <<argv, status>>

(* calloc fails: what was allocated is freed, nothing is simulated.        *)
StartFails ==
  /\ phase = "args" /\ Outcome(argv) = "run"
  /\ Exit(EXIT_FAILURE)
  /\ UNCHANGED <<argv, geom, lines, counter, stats, trace, pos, parse_error>>

(* A line is [whole, op, address, size]: whole when it ends in a newline   *)
(* within LINELEN, address and size None when there is no number there.    *)
parse_trace_line(line) ==
  /\ line.whole
  /\ line.op \in {"L", "S"}
  /\ line.address # None
  /\ line.size \notin {None, 0}

AtEnd == trace = FileMissing \/ pos = Len(trace)

(* One turn of the loop of process_trace_file.                             *)
ReadLine ==
  /\ phase = "trace" /\ ~AtEnd
  /\ pos' = pos + 1
  /\ LET line == trace[pos + 1]
     IN  \/ /\ ~parse_trace_line(line)
            /\ parse_error' = parse_error + 1
            /\ UNCHANGED <<lines, counter, stats>>
         \/ /\ parse_trace_line(line)
            /\ touch_cache(line.op, line.address)
            /\ UNCHANGED parse_error
  /\ UNCHANGED <<phase, argv, geom, trace, status>>

Simulated == phase = "trace" /\ AtEnd

(* The end of main, without printSummary, which writes the file the        *)
(* callers read: the module that composes them conjoins it.                *)
Finish ==
  /\ Simulated
  /\ Exit(IF parse_error > 0 THEN EXIT_FAILURE ELSE EXIT_SUCCESS)
  /\ UNCHANGED <<argv, geom, lines, counter, stats, trace, pos, parse_error>>

=============================================================================
