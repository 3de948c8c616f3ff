------------------------------ MODULE CacheLab ------------------------------
(***************************************************************************)
(* A program of cache/ at work with those it calls: test-csim.c compares   *)
(* csim with the reference simulator, test-trans.c has tracegen-ct.c       *)
(* validate and trace the transposes and the reference simulator count     *)
(* their misses, or a user runs csim.  A simulator and its caller share    *)
(* one file, .csim_results, which an earlier program may have left.  Every *)
(* call that can fail may fail, and an alarm may go off at any time.       *)
(***************************************************************************)
EXTENDS CSim, CacheRef, Trans

CONSTANTS
  TRACE_INFO,    (* the tests of test-csim: sequence of [s, E, b, weight]    *)
  TraceFiles,    (* what the traces they name may hold                       *)
  CommandLines,  (* the options of a csim that a user runs                   *)
  TransCalls,    (* the calls of test-trans: [M, N, only, s, E, b]           *)
  RowBytes,      (* the bytes from one row to the next, by matrix width      *)
  Leftovers      (* the .csim_results an earlier tool may have left          *)

NoFile == [kind |-> "none", stats |-> ZeroStats, serial |-> 0]

VARIABLES
  tool,       (* "none", "csim", "test-csim" or "test-trans"                *)
  call,       (* its parameters                                             *)
  step,       (* what it does next                                          *)
  sim,        (* run_csim: the simulator that runs, "csim-ref" or "csim"    *)
  i,          (* the test, or the function, it is at                        *)
  file,       (* .csim_results: [kind, stats, serial], cut short or whole  *)
  serial,     (* the simulators run so far                                  *)
  ref_stats, test_stats, points,
  success,    (* the tests for which runtrace returned true                 *)
  results,    (* test-trans: [funcid, correct, stats], and whose file it was*)
  trace_f,    (* test-trans: the file trace.f<i>, until it is used          *)
  ended       (* the tool has run                                           *)

toolvars == <<tool, call, step, sim, i, file, serial, ref_stats, test_stats,
              points, success, results, trace_f, ended>>
vars == <<simvars, toolvars>>

Unset == [f \in DOMAIN ZeroStats |-> -1]        (* ULONG_MAX, LONG_MAX       *)
NoResults == [funcid |-> 0, correct |-> FALSE, stats |-> Unset, own |-> TRUE]

SimOff ==
  /\ phase = "off" /\ argv = <<>> /\ geom = [s |-> 0, E |-> 1, b |-> 0]
  /\ lines = <<>> /\ counter = 0 /\ stats = ZeroStats /\ trace = <<>> /\ pos = 0
  /\ parse_error = 0 /\ status = EXIT_SUCCESS

ToolOff ==
  /\ tool = "none" /\ call = <<>> /\ step = "idle" /\ sim = "csim-ref" /\ i = 0
  /\ ref_stats = Unset /\ test_stats = Unset /\ points = <<>> /\ success = {}
  /\ results = NoResults /\ trace_f = <<>>

(* The simulator, or the tool, has ended, and its memory is gone.          *)
SimEnds ==
  /\ phase' = "off" /\ argv' = <<>> /\ geom' = [s |-> 0, E |-> 1, b |-> 0]
  /\ lines' = <<>> /\ counter' = 0 /\ stats' = ZeroStats /\ trace' = <<>> /\ pos' = 0
  /\ parse_error' = 0 /\ status' = EXIT_SUCCESS

ToolEnds ==
  /\ tool' = "none" /\ call' = <<>> /\ step' = "idle" /\ sim' = "csim-ref" /\ i' = 0
  /\ ref_stats' = Unset /\ test_stats' = Unset /\ points' = <<>> /\ success' = {}
  /\ results' = NoResults /\ trace_f' = <<>>

Init == SimOff /\ ToolOff /\ file \in Leftovers /\ serial = 0 /\ ended = FALSE

(* What the simulator leaves alone, in the steps of its callers.           *)
SimIdle == UNCHANGED simvars

-----------------------------------------------------------------------------
(* cachelab.c: the file of results                                         *)

(* printSummary: the file cannot be opened, which is no error, or cannot   *)
(* be written to the end, or holds the counts.                             *)
printSummary(st) ==
  \/ UNCHANGED file
  \/ file' = [kind |-> "cut", stats |-> ZeroStats, serial |-> serial']
  \/ file' = [kind |-> "whole", stats |-> st, serial |-> serial']

loadSummaryOK == file.kind = "whole"

-----------------------------------------------------------------------------
(* csim, run by a user or by test-csim                                     *)

StartUserCsim ==
  /\ tool = "none" /\ ~ended
  /\ \E options \in CommandLines : argv' = options
  /\ tool' = "csim" /\ phase' = "args" /\ serial' = serial + 1
  /\ UNCHANGED <<geom, lines, counter, stats, trace, pos, parse_error, status,
                 call, step, sim, i, file, ref_stats, test_stats, points, success, results,
                 trace_f, ended>>

SimulatorRuns == phase \in {"args", "trace"}

CsimSteps ==
  /\ (Refuse \/ Start \/ StartFails \/ ReadLine)
  /\ UNCHANGED toolvars

(* The end of main: the summary is printed only if every line was read.    *)
CsimEnds ==
  /\ Finish
  /\ UNCHANGED <<tool, call, step, sim, i, serial, ref_stats, test_stats, points,
                 success, results, trace_f, ended>>
  /\ IF parse_error > 0 THEN UNCHANGED file ELSE printSummary(stats)

(* A wait status that tells of a signal instead of an exit.                *)
SIGNALED == -1
WIFEXITED(st) == st # SIGNALED

(* The simulator is killed.  system sees the signal if sh has replaced     *)
(* itself by the command, and sh's own status of a failure if not.         *)
CsimKilled ==
  /\ SimulatorRuns
  /\ Exit(SIGNALED) \/ Exit(EXIT_FAILURE)
  /\ UNCHANGED <<argv, geom, lines, counter, stats, trace, pos, parse_error>>
  /\ UNCHANGED toolvars

UserCsimEnds ==
  /\ tool = "csim" /\ phase = "exited"
  /\ SimEnds /\ ToolEnds /\ ended' = TRUE /\ UNCHANGED <<file, serial>>

-----------------------------------------------------------------------------
(* test-csim.c                                                             *)

StartTestCsim ==
  /\ tool = "none" /\ ~ended
  /\ \E traces \in [DOMAIN TRACE_INFO -> TraceFiles] : call' = traces
  /\ tool' = "test-csim"
  /\ step' = "unlink" /\ sim' = "csim-ref" /\ i' = 1
  /\ points' = [t \in DOMAIN TRACE_INFO |-> 0] /\ success' = {}
  /\ ref_stats' = Unset /\ test_stats' = Unset
  /\ SimIdle /\ UNCHANGED <<file, serial, results, trace_f, ended>>

count_matches(a, b) == Cardinality({f \in DOMAIN a : a[f] = b[f]})

(* test_csim: on to the next test, from a runtrace that returned ok.       *)
NextTest(ok, st) ==
  /\ IF ok
     THEN /\ points' = [points EXCEPT
               ![i] = count_matches(ref_stats, st) * TRACE_INFO[i].weight]
          /\ success' = success \cup {i}
     ELSE UNCHANGED <<points, success>>
  /\ i' = i + 1 /\ sim' = "csim-ref"
  /\ step' = IF i = Len(TRACE_INFO) THEN "report" ELSE "unlink"

(* Mutated form: the results of the simulator before are left there.       *)
UnlinkNot ==
  /\ tool = "test-csim" /\ step = "unlink" /\ step' = "system"
  /\ SimIdle /\ UNCHANGED <<tool, call, sim, i, file, serial, ref_stats, test_stats,
                            points, success, results, trace_f, ended>>

(* run_csim: the old results go; ENOENT is no error.                       *)
Unlink ==
  /\ tool = "test-csim" /\ step = "unlink"
  /\ \/ /\ file' = NoFile
        /\ step' = "system"
        /\ UNCHANGED <<sim, i, points, success>>
     \/ /\ file # NoFile
        /\ UNCHANGED file
        /\ NextTest(FALSE, Unset)
  /\ SimIdle /\ UNCHANGED <<tool, call, serial, ref_stats, test_stats, results, trace_f, ended>>

(* The order of the options changes from test to test.                     *)
Options(k, info, t) ==
  LET s == <<"s", info.s>>  E == <<"E", info.E>>  b == <<"b", info.b>>
      f == <<"t", t>>
  IN  CASE k % 4 = 0 -> <<b, s, f, E>>
        [] k % 4 = 1 -> <<f, E, s, b>>
        [] k % 4 = 2 -> <<E, b, f, s>>
        [] k % 4 = 3 -> <<s, E, b, f>>

SystemCsim ==
  /\ tool = "test-csim" /\ step = "system" /\ sim = "csim"
  /\ argv' = Options(i - 1, TRACE_INFO[i], call[i])
  /\ phase' = "args" /\ step' = "wait" /\ serial' = serial + 1
  /\ UNCHANGED <<geom, lines, counter, stats, trace, pos, parse_error, status>>
  /\ UNCHANGED <<tool, call, sim, i, file, ref_stats, test_stats, points, success,
                 results, trace_f, ended>>

Readable(t) == t # FileMissing /\ \A k \in DOMAIN t : parse_trace_line(t[k])

SystemRef ==
  /\ tool = "test-csim" /\ step = "system" /\ sim = "csim-ref"
  /\ Readable(call[i])
  /\ serial' = serial + 1
  /\ \E st \in {RefStats(call[i], TRACE_INFO[i].s, TRACE_INFO[i].E, TRACE_INFO[i].b)} :
       printSummary(st)
  /\ step' = "load"
  /\ SimIdle /\ UNCHANGED <<tool, call, sim, i, ref_stats, test_stats, points, success,
                            results, trace_f, ended>>

RunFailed == WIFEXITED(status) /\ status # 0

(* The command cannot be run, or it has exited and its status is not 0.    *)
SystemFails ==
  /\ tool = "test-csim"
  /\ step = "system" \/ (step = "wait" /\ phase = "exited" /\ RunFailed)
  /\ NextTest(FALSE, Unset)
  /\ SimEnds
  /\ UNCHANGED <<tool, call, file, serial, ref_stats, test_stats, results, trace_f, ended>>

(* Of a command that a signal has ended the results are looked for as well. *)
SystemReturns ==
  /\ tool = "test-csim" /\ step = "wait" /\ phase = "exited" /\ ~RunFailed
  /\ step' = "load"
  /\ SimEnds
  /\ UNCHANGED <<tool, call, sim, i, file, serial, ref_stats, test_stats, points,
                 success, results, trace_f, ended>>

(* loadSummary, and the unlink after it, whose result is not looked at.    *)
Load ==
  /\ tool = "test-csim" /\ step = "load"
  /\ file' \in {NoFile, file}
  /\ \/ /\ ~loadSummaryOK
        /\ NextTest(FALSE, Unset)
        /\ UNCHANGED <<ref_stats, test_stats>>
     \/ /\ loadSummaryOK /\ sim = "csim-ref"
        /\ ref_stats' = file.stats
        /\ sim' = "csim" /\ step' = "unlink"
        /\ UNCHANGED <<i, points, success, test_stats>>
     \/ /\ loadSummaryOK /\ sim = "csim"
        /\ test_stats' = file.stats
        /\ NextTest(TRUE, file.stats)
        /\ UNCHANGED ref_stats
  /\ SimIdle /\ UNCHANGED <<tool, call, serial, results, trace_f, ended>>

-----------------------------------------------------------------------------
(* tracegen-ct.c                                                           *)

(* What a place holds after the moves; A holds its own indices and B and   *)
(* tmp hold nothing of A at first.                                         *)
Holds(moves, place) ==
  LET Unmoved(p) == IF p[1] = "A" THEN <<p[2], p[3]>> ELSE <<>>
      Writes(p, n) == {k \in 1 .. n : moves[k][2] = p}
      stored[n \in DOMAIN moves] ==
        LET source == moves[n][1]
            before == Writes(source, n - 1)
        IN  IF before = {} THEN Unmoved(source) ELSE stored[Max(before)]
      last == Writes(place, Len(moves))
  IN  IF last = {} THEN Unmoved(place) ELSE stored[Max(last)]

(* validate: B is the transpose of A as it was, A is as it was, and the    *)
(* rows after B are still clear.                                           *)
validate(moves, M, N) ==
  /\ \A r \in 0 .. M - 1, c \in 0 .. N - 1 :
       /\ Holds(moves, B(r, c)) = <<c, r>>
       /\ Holds(moves, A(c, r)) = <<c, r>>
  /\ \A k \in DOMAIN moves : moves[k][2][1] = "B" => moves[k][2][2] < M

(* The addresses: A, tmp and B one after the other, on block boundaries;   *)
(* a double has 8 bytes.                                                   *)
AddressOf(place, M, N) ==
  CASE place[1] = "A" -> RowBytes[M] * place[2] + 8 * place[3]
    [] place[1] = "T" -> 2^27 + 8 * place[2]
    [] place[1] = "B" -> 2^27 + 2^11 + RowBytes[N] * place[2] + 8 * place[3]

TraceOf(moves, M, N) ==
  [k \in 1 .. 2 * Len(moves) |->
     LET move == moves[(k + 1) \div 2]
     IN  IF k % 2 = 1 THEN [op |-> "L", address |-> AddressOf(move[1], M, N)]
                      ELSE [op |-> "S", address |-> AddressOf(move[2], M, N)]]

-----------------------------------------------------------------------------
(* test-trans.c                                                            *)

StartTestTrans ==
  /\ tool = "none" /\ ~ended
  /\ \E c \in TransCalls : call' = c
  /\ tool' = "test-trans"
  /\ step' = "generate" /\ i' = 1 /\ results' = NoResults
  /\ SimIdle /\ UNCHANGED <<sim, file, serial, ref_stats, test_stats, points, success,
                            trace_f, ended>>

IsSubmission(f) == func_list[f] = "Transpose submission"

(* eval_perf: on to the next function.                                     *)
NextFunction ==
  /\ i' = i + 1
  /\ step' = IF i = Len(func_list) THEN "report" ELSE "generate"

Skip ==
  /\ tool = "test-trans" /\ step = "generate"
  /\ call.only /\ ~IsSubmission(i)
  /\ NextFunction
  /\ SimIdle /\ UNCHANGED <<tool, call, sim, file, serial, ref_stats, test_stats, points,
                            success, results, trace_f, ended>>

(* generate_trace: tracegen-ct validates the function and leaves its trace.*)
Generate ==
  /\ tool = "test-trans" /\ step = "generate"
  /\ ~(call.only /\ ~IsSubmission(i))
  /\ results' = IF IsSubmission(i) THEN [results EXCEPT !.funcid = i] ELSE results
  /\ \/ \E moves \in {Moves(i, call.M, call.N)} :
          IF validate(moves, call.M, call.N)
          THEN /\ trace_f' = TraceOf(moves, call.M, call.N)
               /\ step' = "simulate" /\ UNCHANGED i
          ELSE NextFunction /\ UNCHANGED trace_f
     \/ NextFunction /\ UNCHANGED trace_f       (* it is killed, or not run *)
  /\ SimIdle /\ UNCHANGED <<tool, call, sim, file, serial, ref_stats, test_stats, points,
                            success, ended>>

(* compute_stats, as far as the simulator: it ends well with its file      *)
(* written, or cut short, or not opened; or it fails.                      *)
Simulate ==
  /\ tool = "test-trans" /\ step = "simulate"
  /\ serial' = serial + 1
  /\ \/ /\ \E st \in {RefStats(trace_f, call.s, call.E, call.b)} : printSummary(st)
        /\ step' = "load" /\ UNCHANGED i
     \/ NextFunction /\ UNCHANGED file
  /\ trace_f' = <<>>
  /\ SimIdle /\ UNCHANGED <<tool, call, sim, ref_stats, test_stats, points, success,
                            results, ended>>

(* The rest of it: what is loaded is recorded for the submission, and the  *)
(* file removed.                                                           *)
Record ==
  /\ tool = "test-trans" /\ step = "load"
  /\ \/ /\ loadSummaryOK
        /\ file' \in {NoFile, file}
        /\ results' = IF results.funcid = i
                      THEN [results EXCEPT !.stats = file.stats, !.correct = TRUE,
                                           !.own = (file.serial = serial)]
                      ELSE results
     \/ /\ ~loadSummaryOK
        /\ UNCHANGED <<file, results>>
  /\ NextFunction
  /\ SimIdle /\ UNCHANGED <<tool, call, sim, serial, ref_stats, test_stats, points,
                            success, trace_f, ended>>

get_clock_cycles(st) == 4 * st.hits + 100 * st.misses

-----------------------------------------------------------------------------
(* A tool prints its results and ends.                                     *)
Report ==
  /\ tool \in {"test-csim", "test-trans"} /\ step = "report"
  /\ SimEnds /\ ToolEnds /\ ended' = TRUE /\ UNCHANGED <<file, serial>>

(* SIGALRM: _exit, wherever the tool is; its simulator ends with it.       *)
Alarm ==
  /\ tool \in {"test-csim", "test-trans"} /\ step # "report"
  /\ SimEnds /\ ToolEnds /\ ended' = TRUE /\ UNCHANGED <<file, serial>>

Next ==
  \/ StartUserCsim \/ StartTestCsim \/ StartTestTrans
  \/ CsimSteps \/ CsimEnds \/ CsimKilled \/ UserCsimEnds
  \/ Unlink \/ SystemCsim \/ SystemRef \/ SystemFails \/ SystemReturns \/ Load
  \/ Skip \/ Generate \/ Simulate \/ Record
  \/ Report \/ Alarm

Spec == Init /\ [][Next]_vars

-----------------------------------------------------------------------------
(* Properties                                                              *)

TypeOK ==
  /\ phase \in {"off", "args", "trace", "exited"}
  /\ tool \in {"none", "csim", "test-csim", "test-trans"}
  /\ step \in {"idle", "unlink", "system", "wait", "load", "generate", "simulate", "report"}
  /\ sim \in {"csim-ref", "csim"}
  /\ \A set \in DOMAIN lines : DOMAIN lines[set] = 0 .. geom.E - 1
  /\ parse_error \in 0 .. pos + 1 /\ counter \in 0 .. pos
  /\ success \subseteq DOMAIN points /\ results.funcid \in 0 .. Len(func_list)

(* A test of test-csim in which both simulators ran to their end earns     *)
(* every point: csim counts what the reference counts, whatever the trace. *)
FullMarks == \A t \in success : points[t] = 5 * TRACE_INFO[t].weight

(* test-csim loads the counts of the simulator it has just run, whatever   *)
(* failed before and whatever an earlier tool left in the directory.       *)
TestCsimLoadsItsOwn ==
  tool = "test-csim" /\ step = "load" /\ loadSummaryOK => file.serial = serial

(* The points of test-csim are csim's own.                                 *)
MarkedFairly == FullMarks /\ TestCsimLoadsItsOwn

(* test-trans says of what it loads "Statistics computed from the trace     *)
(* file", but removes the old file only after a success.                   *)
TestTransLoadsItsOwn == results.correct => results.own

(* Every registered function transposes, for every size, and stays within  *)
(* tmp: tracegen-ct validates it.                                          *)
FunctionsTranspose ==
  tool = "test-trans" /\ step = "generate" /\ (call.only => IsSubmission(i)) =>
    \A moves \in {Moves(i, call.M, call.N)} :
      /\ validate(moves, call.M, call.N)
      /\ \A k \in DOMAIN moves : moves[k][2][1] = "T" => moves[k][2][2] < TMPCOUNT

(* The submission for 32 by 32, counted from its own trace, costs no more  *)
(* cycles than the driver gives the full score for (driver.py).            *)
Trans32FullScore ==
  /\ tool = "test-trans" /\ results.correct /\ results.own
  /\ call.M = 32 /\ call.N = 32
  => get_clock_cycles(results.stats) <= 36000

=============================================================================
