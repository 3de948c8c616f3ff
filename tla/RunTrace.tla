------------------------------ MODULE RunTrace ------------------------------
(***************************************************************************)
(* The test driver of the shell (runtrace.c) with the shell it runs, the   *)
(* link-time wrappers of that shell (wrapper.c) and the test programs.     *)
(* Everything is tied together by three pairs of datagram sockets:         *)
(*   - the data pair carries command lines down to the shell, and prompts  *)
(*     and output up;                                                      *)
(*   - the sync pair lets a job report that it is ready and be released    *)
(*     (WAIT and SIGNAL of a trace);                                       *)
(*   - the shellsync pair stops the shell inside one chosen library call   *)
(*     (SHELLWAIT and SHELLSIGNAL of a trace).                             *)
(* A shell job is forked, put in its own group and started in one step:    *)
(* the interleavings of that are the subject of module Tsh.                *)
(***************************************************************************)
EXTENDS Naturals, Sequences, SequencesExt, FiniteSetsExt

CONSTANTS Traces,      \* the traces that may be run: [sync, cmds]
          QLen,        \* datagrams that a socket holds before send blocks
          MaxEarly,    \* time-outs that may strike while others still work
          MaxInterrupt \* signals sent by the user to runtrace

ASSUME BoundsAssumption ==
    QLen \in Nat \ {0} /\ MaxEarly \in Nat /\ MaxInterrupt \in Nat

VARIABLES
    trace,      \* the trace: [sync |-> SHELLSYNC option or "none", cmds]
    pos,        \* index in trace.cmds of the line in hand
    rpc,        \* where runtrace is
    ends,       \* why it ends, "" while it runs
    needed,     \* cleanup_needed
    tmp,        \* is there a directory runtrace.tmp?
    masked,     \* does runtrace block all signals?
    doomed,     \* the processes that /bin/ps listed, 0 for the shell
    dataUp, dataDn, syncUp, syncDn, shUp, shDn,  \* the six directions
    sh,         \* the shell: [st, frames, pend]
    jobs,       \* the processes forked by the shell, in order
    early, ints \* what is left of MaxEarly and MaxInterrupt

rvars == <<trace, pos, rpc, ends, needed, tmp, masked, doomed>>
socks == <<dataUp, dataDn, syncUp, syncDn, shUp, shDn>>
vars  == <<rvars, socks, sh, jobs, early, ints>>

Room(q) == Len(q) < QLen

(***************************************************************************)
(* The lines of a trace.                                                   *)
(***************************************************************************)
Cmd(op)       == [op |-> op, prog |-> "", bg |-> FALSE, num |-> 0]
Run(p, b)     == [op |-> "line", prog |-> p, bg |-> b, num |-> 0]
Builtin(b, j) == [op |-> "line", prog |-> b, bg |-> FALSE, num |-> j]
Pid(p, b)     == [op |-> "PID", prog |-> p, bg |-> b = "bg", num |-> 0]

(***************************************************************************)
(* The test programs: what each does when the driver runs it, and what     *)
(* becomes of one that gets a signal.                                      *)
(***************************************************************************)
echo          == <<"print", "exit">>
myspin1       == <<"signal", "wait", "exit">>
myspin2       == <<"signal", "wait", "exit">>
mysigfun      == <<"signal", "wait", "exit">>
mytstpandspin == <<"tstpp", "signal", "wait", "exit">>
mytstpp       == <<"tstpp", "spin">>
mysleepnprint == <<"tstpp", "print", "exit">>
myintp        == <<"intp", "spin">>
myints        == <<"ints", "spin">>
mytstps       == <<"tstps", "exit">>
pkill         == <<"pkill", "exit">>

ProgSteps ==
    [echo |-> echo, myspin1 |-> myspin1, myspin2 |-> myspin2,
     mysigfun |-> mysigfun, mytstpandspin |-> mytstpandspin,
     mytstpp |-> mytstpp, mysleepnprint |-> mysleepnprint, myintp |-> myintp,
     myints |-> myints, mytstps |-> mytstps, pkill |-> pkill]

\* the programs that call alarm(JOB_TIMEOUT)
Timed == DOMAIN ProgSteps \ {"echo", "mytstps", "pkill"}

\* the handlers that mysigfun, myspin1 install, and the mask of myspin2
mysigfun_handlers == [INT |-> "stop", TSTP |-> "die"]
myspin1_handlers  == [TERM |-> "catch"]
myspin2_mask      == {"INT", "TSTP"}

\* "die", "stop", "run" (continued), "catch" (a handler that synchronises)
\* or "block", for a program and a signal
Disposition(p, s) ==
    CASE p = "myspin2" /\ s \in myspin2_mask -> "block"
      [] p = "mysigfun" /\ s \in DOMAIN mysigfun_handlers -> mysigfun_handlers[s]
      [] p = "myspin1" /\ s \in DOMAIN myspin1_handlers -> myspin1_handlers[s]
      [] s = "CONT" -> "run"
      [] OTHER -> IF s = "TSTP" THEN "stop" ELSE "die"

ShellAlive == sh.st \in {"forked", "session", "up"}
Alive(j)   == jobs[j].st \in {"run", "stop"}
Session    == (IF sh.st \in {"session", "up"} THEN {0} ELSE {})
              \cup {j \in DOMAIN jobs : Alive(j)}
Live       == (IF ShellAlive THEN {0} ELSE {}) \cup {j \in DOMAIN jobs : Alive(j)}
\* somebody still holds the shell's end of the data pair
Connected  == Live # {}

Listed     == {j \in DOMAIN jobs : jobs[j].jid > 0}
FgJobs     == {j \in Listed : jobs[j].list = "FG"}

\* job j after its end, of the given kind; its parent may be gone
Ended(j, how) ==
    [jobs EXCEPT ![j].st = IF sh.st = "up" THEN "dead" ELSE "gone", ![j].how = how]
\* the job table after signal s is sent to job j's group
Signalled(j, s) ==
    LET d == Disposition(jobs[j].prog, s) IN
    CASE ~Alive(j) -> jobs
      [] d = "catch" -> [jobs EXCEPT ![j].term =
                             IF @ = "no" THEN "pending" ELSE @]
      [] d = "block" \/ (jobs[j].st = "stop" /\ s # "CONT") -> jobs
      [] d = "run"   -> [jobs EXCEPT ![j].st = "run"]
      [] d = "stop"  -> [jobs EXCEPT ![j].st = "stop", ![j].news = TRUE]
      [] OTHER       -> Ended(j, "killed")
\* the shell is told of a change of a child's state
ShellTold(newjobs) ==
    IF /\ sh.st = "up"
       /\ \E j \in DOMAIN jobs :
            newjobs[j].st # jobs[j].st /\ newjobs[j].st \in {"dead", "stop"}
    THEN [sh EXCEPT !.pend = @ \cup {"CHLD"}]
    ELSE sh

-----------------------------------------------------------------------------
(***************************************************************************)
(* The shell under the wrappers.  A frame is a point of main, or of the    *)
(* handler that has interrupted it: at, the place; sync, how far the       *)
(* wrapper of the call made there has come; job, its argument; what, the   *)
(* signal handled, the status that waitpid returned or the state to set.   *)
(***************************************************************************)
Frame(at, j, what) == [at |-> at, sync |-> "no", job |-> j, what |-> what]

Top        == Last(sh.frames)
WithTop(f) == [sh EXCEPT !.frames = Append(Front(@), f)]
Return     == [sh EXCEPT !.frames = Front(@)]
\* mutant: a handler leaves the other signals open
InterruptedAnywhere == sh.pend # {} /\ Top.at \notin {"getpid", "setst"}

\* main does not go on with a signal pending that it does not block: the kernel
\* runs the handler first
Interrupted == Len(sh.frames) = 1 /\ sh.pend # {} /\ Top.at \notin {"getpid", "setst"}
At(places)  == sh.st = "up" /\ Top.at \in places /\ ~Interrupted

\* the call made at a place, by the option of SHELLSYNC that stops it
Point == [wp |-> "waitpid_before", after |-> "waitpid_after",
          getpid |-> "job_get_pid", hget |-> "job_get_pid",
          setst |-> "job_set_state", hset |-> "job_set_state",
          kill |-> "kill", hkill |-> "kill"]

Stops  == Point[Top.at] = trace.sync
Ready  == ~Stops \/ Top.sync = "done"

\* shellsync_signal: tell runtrace that the call is about to be made
ShSyncSignal ==
    /\ At(DOMAIN Point) /\ Stops /\ Top.sync = "no" /\ Room(shUp)
    /\ shUp' = Append(shUp, trace.sync)
    /\ sh' = WithTop([Top EXCEPT !.sync = "wait"])
    /\ UNCHANGED <<rvars, dataUp, dataDn, syncUp, syncDn, shDn, jobs, early, ints>>

\* mutant: the wrapper looks at the answer without receiving it
ShSyncPeek ==
    /\ At(DOMAIN Point) /\ Top.sync = "wait" /\ shDn # <<>>
    /\ sh' = WithTop([Top EXCEPT !.sync = "done"])
    /\ UNCHANGED <<rvars, socks, jobs, early, ints>>

\* shellsync_wait
ShSyncWait ==
    /\ At(DOMAIN Point) /\ Top.sync = "wait" /\ shDn # <<>>
    /\ shDn' = Tail(shDn)
    /\ sh' = WithTop([Top EXCEPT !.sync = "done"])
    /\ UNCHANGED <<rvars, dataUp, dataDn, syncUp, syncDn, shUp, jobs, early, ints>>

\* the child of runtrace becomes the leader of a session ...
ShSetsid ==
    /\ sh.st = "forked"
    /\ sh' = [sh EXCEPT !.st = "session"]
    /\ UNCHANGED <<rvars, socks, jobs, early, ints>>

\* ... and the shell, which installs its handlers
ShStart ==
    /\ sh.st = "session"
    /\ sh' = [sh EXCEPT !.st = "up", !.frames = <<Frame("prompt", 0, "")>>]
    /\ UNCHANGED <<rvars, socks, jobs, early, ints>>

\* the shell's end; its stopped children are hung up, its dead ones reaped
ShellEnds ==
    /\ sh' = [st |-> "zombie", frames |-> <<>>, pend |-> {}]
    /\ jobs' = [j \in DOMAIN jobs |->
                  IF jobs[j].st \in {"stop", "dead"}
                  THEN [jobs[j] EXCEPT !.st = "gone"] ELSE jobs[j]]

ShPrompt ==
    /\ At({"prompt"}) /\ Room(dataUp)
    /\ dataUp' = Append(dataUp, "prompt")
    /\ sh' = WithTop(Frame("read", 0, ""))
    /\ UNCHANGED <<rvars, dataDn, syncUp, syncDn, shUp, shDn, jobs, early, ints>>

\* what the shell does with a line; add_job gives a new job the id after the
\* largest in use
Program(l) ==
    /\ jobs' = Append(jobs,
         [prog |-> l.prog, st |-> "run", step |-> 1, term |-> "no", how |-> "",
          news |-> FALSE, list |-> IF l.bg THEN "BG" ELSE "FG",
          jid |-> 1 + Max({0} \cup {jobs[j].jid : j \in DOMAIN jobs})])
    /\ IF l.bg
       THEN /\ Room(dataUp) /\ dataUp' = Append(dataUp, "output")
            /\ sh' = WithTop(Frame("prompt", 0, ""))
       ELSE /\ sh' = WithTop(Frame("wait", 0, ""))
            /\ UNCHANGED dataUp

ListJobs ==
    /\ IF Listed # {} THEN Room(dataUp) /\ dataUp' = Append(dataUp, "output")
                      ELSE UNCHANGED dataUp
    /\ sh' = WithTop(Frame("prompt", 0, ""))
    /\ UNCHANGED jobs

\* fg and bg, by job id or by pid (which skips job_get_pid)
BgFg(l) ==
    LET byPid == l.op = "PID"
        js    == {j \in Listed : IF byPid THEN j = l.num ELSE jobs[j].jid = l.num}
        st    == IF l.prog = "bg" THEN "BG" ELSE "FG" IN
    /\ UNCHANGED jobs
    /\ \/ /\ js = {} /\ Room(dataUp)
          /\ dataUp' = Append(dataUp, "output")
          /\ sh' = WithTop(Frame("prompt", 0, ""))
       \/ \E j \in js :
            /\ sh' = WithTop(Frame(IF byPid THEN "setst" ELSE "getpid", j, st))
            /\ UNCHANGED dataUp

\* the shell's end of file: it ends its line of output
Ctrl_D == ShellEnds /\ Room(dataUp) /\ dataUp' = Append(dataUp, "output")

\* fgets and eval
ShRead ==
    /\ At({"read"}) /\ dataDn # <<>>
    /\ dataDn' = Tail(dataDn)
    /\ LET l == Head(dataDn) IN
       CASE l.op = "EOF"                    -> Ctrl_D
         [] l.prog = "quit"                 -> ShellEnds /\ UNCHANGED dataUp
         [] l.prog = "jobs"                 -> ListJobs
         [] l.prog \in {"bg", "fg"}         -> BgFg(l)
         [] OTHER                           -> Program(l)
    /\ UNCHANGED <<rvars, syncUp, syncDn, shUp, shDn, early, ints>>

ShGetPid ==
    /\ At({"getpid"}) /\ Ready
    /\ sh' = WithTop(Frame("setst", Top.job, Top.what))
    /\ UNCHANGED <<rvars, socks, jobs, early, ints>>

ShSetState ==
    /\ At({"setst"}) /\ Ready
    /\ jobs' = [jobs EXCEPT ![Top.job].list = Top.what]
    /\ sh' = WithTop(Frame("kill", Top.job, Top.what))
    /\ UNCHANGED <<rvars, socks, early, ints>>

\* kill(-pid, SIGCONT), with no signal blocked
ShContinue ==
    /\ At({"kill"}) /\ Ready
    /\ jobs' = Signalled(Top.job, "CONT")
    /\ sh' = WithTop(Frame(IF Top.what = "FG" THEN "wait" ELSE "bgprint",
                           Top.job, Top.what))
    /\ UNCHANGED <<rvars, socks, early, ints>>

\* job_get_cmdline aborts when the job has gone
ShBgPrint ==
    /\ At({"bgprint"}) /\ Room(dataUp)
    /\ dataUp' = Append(dataUp, "output")
    /\ IF jobs[Top.job].jid > 0
       THEN sh' = WithTop(Frame("prompt", 0, "")) /\ UNCHANGED jobs
       ELSE ShellEnds
    /\ UNCHANGED <<rvars, dataDn, syncUp, syncDn, shUp, shDn, early, ints>>

\* the loop on fg_job around sigsuspend
ShWaited ==
    /\ At({"wait"}) /\ FgJobs = {}
    /\ sh' = WithTop(Frame("prompt", 0, ""))
    /\ UNCHANGED <<rvars, socks, jobs, early, ints>>

ShDeliver ==
    /\ sh.st = "up" /\ Interrupted
    /\ \E s \in sh.pend :
         sh' = [sh EXCEPT !.pend = @ \ {s},
                          !.frames = Append(@, IF s = "CHLD"
                                               THEN Frame("wp", 0, "")
                                               ELSE Frame("hfg", 0, s))]
    /\ UNCHANGED <<rvars, socks, jobs, early, ints>>

\* sigchld_handler: waitpid returns one changed child, or the loop ends
News == {j \in DOMAIN jobs :
           jobs[j].st = "dead" \/ (jobs[j].st = "stop" /\ jobs[j].news)}
ShWaitpid ==
    /\ At({"wp"}) /\ Ready
    /\ IF News = {}
       THEN sh' = Return /\ UNCHANGED jobs
       ELSE \E j \in News :
              IF jobs[j].st = "dead"
              THEN /\ jobs' = [jobs EXCEPT ![j].st = "gone"]
                   /\ sh' = WithTop(Frame("after", j, jobs[j].how))
              ELSE /\ jobs' = [jobs EXCEPT ![j].news = FALSE]
                   /\ sh' = WithTop(Frame("after", j, "stopped"))
    /\ UNCHANGED <<rvars, socks, early, ints>>

\* delete_job, and a message when a signal killed it
ShReaped ==
    /\ At({"after"}) /\ Ready
    /\ IF Top.what = "stopped"
       THEN /\ sh' = WithTop(Frame("hset", Top.job, "ST"))
            /\ UNCHANGED <<dataUp, jobs>>
       ELSE /\ jobs' = [jobs EXCEPT ![Top.job].jid = 0, ![Top.job].list = ""]
            /\ sh' = WithTop(Frame("wp", 0, ""))
            /\ IF Top.what = "killed"
               THEN Room(dataUp) /\ dataUp' = Append(dataUp, "output")
               ELSE UNCHANGED dataUp
    /\ UNCHANGED <<rvars, dataDn, syncUp, syncDn, shUp, shDn, early, ints>>

ShSetStopped ==
    /\ At({"hset"}) /\ Ready /\ Room(dataUp)
    /\ jobs' = [jobs EXCEPT ![Top.job].list = "ST"]
    /\ dataUp' = Append(dataUp, "output")
    /\ sh' = WithTop(Frame("wp", 0, ""))
    /\ UNCHANGED <<rvars, dataDn, syncUp, syncDn, shUp, shDn, early, ints>>

\* sigint_handler and sigtstp_handler
ShFindFg ==
    /\ At({"hfg"})
    /\ sh' = IF FgJobs = {} THEN Return
             ELSE WithTop(Frame("hget", Max(FgJobs), Top.what))
    /\ UNCHANGED <<rvars, socks, jobs, early, ints>>

ShGetFgPid ==
    /\ At({"hget"}) /\ Ready
    /\ sh' = WithTop(Frame("hkill", Top.job, Top.what))
    /\ UNCHANGED <<rvars, socks, jobs, early, ints>>

ShForward ==
    /\ At({"hkill"}) /\ Ready
    /\ jobs' = Signalled(Top.job, Top.what)
    /\ sh' = [ShellTold(jobs') EXCEPT !.frames = Front(@)]
    /\ UNCHANGED <<rvars, socks, early, ints>>

Shell ==
    \/ ShSyncSignal \/ ShSyncWait \/ ShSetsid \/ ShStart \/ ShPrompt \/ ShRead
    \/ ShGetPid \/ ShSetState \/ ShContinue \/ ShBgPrint \/ ShWaited \/ ShDeliver
    \/ ShWaitpid \/ ShReaped \/ ShSetStopped \/ ShFindFg \/ ShGetFgPid \/ ShForward

-----------------------------------------------------------------------------
(***************************************************************************)
(* The jobs.                                                               *)
(***************************************************************************)
Step(j)    == ProgSteps[jobs[j].prog][jobs[j].step]
Doing(j, s) == jobs[j].st = "run" /\ jobs[j].term \in {"no", "pending"} /\ Step(j) = s
Advanced(j) == [jobs EXCEPT ![j].step = @ + 1]

JobPrint(j) ==
    /\ Doing(j, "print") /\ Room(dataUp)
    /\ dataUp' = Append(dataUp, "output") /\ jobs' = Advanced(j)
    /\ UNCHANGED <<rvars, dataDn, syncUp, syncDn, shUp, shDn, sh, early, ints>>

\* sync_signal
JobSignal(j) ==
    /\ Doing(j, "signal") /\ Room(syncUp)
    /\ syncUp' = Append(syncUp, j) /\ jobs' = Advanced(j)
    /\ UNCHANGED <<rvars, dataUp, dataDn, syncDn, shUp, shDn, sh, early, ints>>

\* sync_wait: any of the jobs that wait takes the datagram
JobWait(j) ==
    /\ Doing(j, "wait") /\ syncDn # <<>>
    /\ syncDn' = Tail(syncDn) /\ jobs' = Advanced(j)
    /\ UNCHANGED <<rvars, dataUp, dataDn, syncUp, shUp, shDn, sh, early, ints>>

\* kill(getppid(), ..): a signal to the shell, while it is the parent
JobKillsShell(j) ==
    /\ Doing(j, "tstpp") \/ Doing(j, "intp")
    /\ jobs' = Advanced(j)
    /\ sh' = IF sh.st = "up"
             THEN [sh EXCEPT !.pend = @ \cup {IF Step(j) = "intp" THEN "INT" ELSE "TSTP"}]
             ELSE sh
    /\ UNCHANGED <<rvars, socks, early, ints>>

\* kill(getpid(), ..)
JobKillsItself(j) ==
    /\ Doing(j, "tstps") \/ Doing(j, "ints")
    /\ jobs' = [Signalled(j, IF Step(j) = "ints" THEN "INT" ELSE "TSTP")
                  EXCEPT ![j].step = @ + 1]
    /\ sh' = ShellTold(jobs')
    /\ UNCHANGED <<rvars, socks, early, ints>>

\* pkill -s 0 myspin1: SIGTERM to a job of that name
JobPkill(j) ==
    /\ Doing(j, "pkill")
    /\ LET spins == {i \in DOMAIN jobs : jobs[i].prog = "myspin1" /\ Alive(i)} IN
       jobs' = [i \in DOMAIN jobs |->
                  IF i = j THEN [jobs[j] EXCEPT !.step = @ + 1]
                  ELSE IF i \in spins THEN Signalled(i, "TERM")[i] ELSE jobs[i]]
    /\ UNCHANGED <<rvars, socks, sh, early, ints>>

\* sigterm_handler of myspin1, which interrupts whatever main waits for
JobTerm(j) ==
    /\ jobs[j].st = "run"
    /\ \/ /\ jobs[j].term = "pending"
          /\ jobs' = [jobs EXCEPT ![j].term = "wait"]
          /\ UNCHANGED <<syncUp, syncDn, sh>>
       \/ /\ jobs[j].term = "wait" /\ syncDn # <<>>
          /\ syncDn' = Tail(syncDn)
          /\ jobs' = [jobs EXCEPT ![j].term = "signal"]
          /\ UNCHANGED <<syncUp, sh>>
       \/ /\ jobs[j].term = "signal" /\ Room(syncUp)
          /\ syncUp' = Append(syncUp, j)
          /\ jobs' = Ended(j, "killed") /\ sh' = ShellTold(jobs')
          /\ UNCHANGED syncDn
    /\ UNCHANGED <<rvars, dataUp, dataDn, shUp, shDn, early, ints>>

JobExit(j) ==
    /\ Doing(j, "exit") /\ jobs[j].term = "no"
    /\ jobs' = Ended(j, "exited") /\ sh' = ShellTold(jobs')
    /\ UNCHANGED <<rvars, socks, early, ints>>

Job(j) == \/ JobPrint(j) \/ JobSignal(j) \/ JobWait(j) \/ JobKillsShell(j)
          \/ JobKillsItself(j) \/ JobPkill(j) \/ JobTerm(j) \/ JobExit(j)
Jobs   == \E j \in DOMAIN jobs : Job(j)


-----------------------------------------------------------------------------
(***************************************************************************)
(* runtrace.  Its time-outs are of 4 seconds: they strike when nobody has  *)
(* anything left to do, and MaxEarly times while somebody still has.       *)
(***************************************************************************)
Cur == trace.cmds[pos]
In(ops) == rpc = "cmd" /\ pos <= Len(trace.cmds) /\ Cur.op \in ops
NextLine == pos' = pos + 1

\* the end: main blocks the signals, looks for the shell's status, prints what
\* is left of its output and cleans up
GiveUp(why) ==
    /\ rpc' = "list" /\ ends' = why /\ masked' = TRUE /\ dataUp' = <<>>
    /\ sh' = IF sh.st = "zombie" THEN [sh EXCEPT !.st = "gone"] ELSE sh

\* exit(1) after an error: atexit_clean, with the signals open
Error ==
    /\ rpc' = "list" /\ ends' = "error"
    /\ UNCHANGED <<trace, pos, needed, tmp, masked, doomed, socks, sh>>

\* mkdir, with the signals blocked, then fork; the tmp directory of a run that
\* is under way, or was left behind, ends this one
Spawn ==
    /\ rpc = "spawn"
    /\ IF tmp
       THEN /\ rpc' = "exit" /\ ends' = "exists"
            /\ UNCHANGED <<tmp, needed, sh>>
       ELSE /\ rpc' = "prompt" /\ tmp' = TRUE /\ needed' = TRUE
            /\ sh' = [sh EXCEPT !.st = "forked"]
            /\ UNCHANGED ends
    /\ UNCHANGED <<trace, pos, masked, doomed, socks, jobs, early, ints>>

FirstPrompt ==
    /\ rpc = "prompt" /\ dataUp # <<>>
    /\ IF Head(dataUp) = "prompt"
       THEN /\ rpc' = "cmd" /\ dataUp' = Tail(dataUp)
            /\ UNCHANGED <<ends, masked, sh>>
       ELSE GiveUp("wrong prompt")
    /\ UNCHANGED <<trace, pos, needed, tmp, doomed, dataDn, syncUp, syncDn,
                   shUp, shDn, jobs, early, ints>>

\* WAIT and SHELLWAIT
RtWait ==
    /\ In({"WAIT"}) /\ syncUp # <<>>
    /\ syncUp' = Tail(syncUp) /\ NextLine
    /\ UNCHANGED <<trace, rpc, ends, needed, tmp, masked, doomed, dataUp, dataDn,
                   syncDn, shUp, shDn, sh, jobs, early, ints>>
RtShellWait ==
    /\ In({"SHELLWAIT"}) /\ shUp # <<>>
    /\ shUp' = Tail(shUp) /\ NextLine
    /\ UNCHANGED <<trace, rpc, ends, needed, tmp, masked, doomed, dataUp, dataDn,
                   syncUp, syncDn, shDn, sh, jobs, early, ints>>

\* SIGNAL and SHELLSIGNAL
RtSignal ==
    /\ In({"SIGNAL"}) /\ Room(syncDn)
    /\ syncDn' = Append(syncDn, "signal") /\ NextLine
    /\ UNCHANGED <<trace, rpc, ends, needed, tmp, masked, doomed, dataUp, dataDn,
                   syncUp, shUp, shDn, sh, jobs, early, ints>>
RtShellSignal ==
    /\ In({"SHELLSIGNAL"}) /\ Room(shDn)
    /\ shDn' = Append(shDn, "signal") /\ NextLine
    /\ UNCHANGED <<trace, rpc, ends, needed, tmp, masked, doomed, dataUp, dataDn,
                   syncUp, syncDn, shUp, sh, jobs, early, ints>>

\* mutant: the shell's message is read but not answered
ServeShellMutely ==
    /\ In({"NEXT"}) /\ trace.sync # "none" /\ shUp # <<>>
    /\ shUp' = Tail(shUp)
    /\ UNCHANGED <<rvars, dataUp, dataDn, syncUp, syncDn, shDn, sh, jobs, early, ints>>

\* next_prompt: while it waits for the prompt it answers the shell's own
\* synchronisations
ServeShell ==
    /\ In({"NEXT"}) /\ trace.sync # "none" /\ shUp # <<>> /\ Room(shDn)
    /\ shUp' = Tail(shUp) /\ shDn' = Append(shDn, "shell signal")
    /\ UNCHANGED <<rvars, dataUp, dataDn, syncUp, syncDn, sh, jobs, early, ints>>
\* mutant: any output of the shell is taken for the prompt
NextOutput ==
    /\ In({"NEXT"}) /\ dataUp # <<>>
    /\ dataUp' = Tail(dataUp) /\ NextLine
    /\ UNCHANGED <<trace, rpc, ends, needed, tmp, masked, doomed, dataDn, syncUp,
                   syncDn, shUp, shDn, sh, jobs, early, ints>>

NextPrompt ==
    /\ In({"NEXT"}) /\ dataUp # <<>>
    /\ dataUp' = Tail(dataUp)
    /\ IF Head(dataUp) = "prompt" THEN NextLine ELSE UNCHANGED pos
    /\ UNCHANGED <<trace, rpc, ends, needed, tmp, masked, doomed, dataDn, syncUp,
                   syncDn, shUp, shDn, sh, jobs, early, ints>>

\* SIGINT and SIGTSTP: kill on the shell, which may be dead but not reaped
RtKill ==
    /\ In({"SIGINT", "SIGTSTP"})
    /\ sh' = IF sh.st = "up"
             THEN [sh EXCEPT !.pend = @ \cup {IF Cur.op = "SIGINT" THEN "INT" ELSE "TSTP"}]
             ELSE sh
    /\ NextLine
    /\ UNCHANGED <<trace, rpc, ends, needed, tmp, masked, doomed, socks, jobs, early, ints>>

\* a line for the shell
SendLine(l) ==
    IF Connected
    THEN /\ Room(dataDn) /\ dataDn' = Append(dataDn, l) /\ NextLine
         /\ UNCHANGED <<trace, rpc, ends, needed, tmp, masked, doomed, dataUp,
                        syncUp, syncDn, shUp, shDn, sh>>
    ELSE Error
RtLine ==
    /\ In({"line"}) /\ SendLine(Cur)
    /\ UNCHANGED <<jobs, early, ints>>
\* PID name builtin: the pid comes from pgrep
RtPid ==
    /\ In({"PID"})
    /\ LET found == {j \in DOMAIN jobs :
                       jobs[j].prog = Cur.prog /\ jobs[j].st # "gone"} IN
       IF found = {} THEN Error
       ELSE SendLine([op |-> "PID", prog |-> IF Cur.bg THEN "bg" ELSE "fg",
                      bg |-> FALSE, num |-> Min(found)])
    /\ UNCHANGED <<jobs, early, ints>>

\* the end of the trace: an empty datagram is the shell's end of file; an
\* error of send is ignored
RtEof ==
    /\ rpc = "cmd" /\ pos > Len(trace.cmds)
    /\ IF Connected THEN Room(dataDn) /\ dataDn' = Append(dataDn, Cmd("EOF"))
                    ELSE UNCHANGED dataDn
    /\ rpc' = "finish"
    /\ UNCHANGED <<trace, pos, ends, needed, tmp, masked, doomed, dataUp, syncUp,
                   syncDn, shUp, shDn, sh, jobs, early, ints>>
\* waitpid on the shell, flush_output
RtFinish ==
    /\ rpc = "finish" /\ sh.st = "zombie"
    /\ GiveUp("done")
    /\ UNCHANGED <<trace, pos, needed, tmp, doomed, dataDn, syncUp, syncDn,
                   shUp, shDn, jobs, early, ints>>

\* clean: ps lists the processes of the shell's session, kill ends those,
\* rm removes the directory; then runtrace exits
CleanList ==
    /\ rpc = "list"
    /\ rpc' = "clean" /\ doomed' = IF needed THEN Session ELSE {}
    /\ UNCHANGED <<trace, pos, ends, needed, tmp, masked, socks, sh, jobs, early, ints>>
CleanKill ==
    /\ rpc = "clean"
    /\ rpc' = "leave"
    /\ needed' = FALSE /\ tmp' = (tmp /\ ~needed)
    /\ jobs' = [j \in DOMAIN jobs |->
                  IF j \in doomed \/ (0 \in doomed /\ jobs[j].st = "dead")
                  THEN [jobs[j] EXCEPT !.st = "gone"] ELSE jobs[j]]
    /\ sh' = IF 0 \in doomed THEN [st |-> "zombie", frames |-> <<>>, pend |-> {}] ELSE sh
    /\ UNCHANGED <<trace, pos, ends, masked, doomed, socks, early, ints>>

\* exit, once the signals are open again: the alarm of the last wait was not
\* cancelled, and may still strike
Leave ==
    /\ rpc = "leave"
    /\ rpc' = "exit"
    /\ \/ UNCHANGED <<ends, early>>
       \/ /\ ends = "done" /\ early > 0
          /\ ends' = "late alarm" /\ early' = early - 1
    /\ UNCHANGED <<trace, pos, needed, tmp, masked, doomed, socks, sh, jobs, ints>>

RtMoves ==
    \/ Spawn \/ FirstPrompt \/ RtWait \/ RtShellWait \/ RtSignal \/ RtShellSignal
    \/ ServeShell \/ NextPrompt \/ RtKill \/ RtLine \/ RtPid \/ RtEof \/ RtFinish
    \/ CleanList \/ CleanKill \/ Leave

\* sigalrm_handler of a test program: its time-out is the longer one, so that it
\* strikes only while others still work
JobAlarm(j) ==
    /\ jobs[j].prog \in Timed /\ jobs[j].st = "run"
    /\ early > 0 /\ early' = early - 1
    /\ jobs' = Ended(j, "exited") /\ sh' = ShellTold(jobs')
    /\ UNCHANGED <<rvars, socks, ints>>

\* mutant: NEXT waits without a time-out
WaitingButNext ==
    \/ rpc = "prompt" /\ dataUp = <<>>
    \/ In({"WAIT"}) /\ syncUp = <<>>
    \/ In({"SHELLWAIT"}) /\ shUp = <<>>
    \/ rpc = "finish"

\* readable, select and alarm
Waiting ==
    \/ rpc = "prompt" /\ dataUp = <<>>
    \/ In({"WAIT"}) /\ syncUp = <<>>
    \/ In({"SHELLWAIT"}) /\ shUp = <<>>
    \/ In({"NEXT"}) /\ dataUp = <<>> /\ (trace.sync = "none" \/ shUp = <<>>)
    \/ rpc = "finish"

\* somebody still has something to do
Busy == ENABLED (RtMoves \/ Shell \/ Jobs)

\* sigalrm_handler, of the last wait, does not look at the shell's output
TimeOut ==
    /\ Waiting
    /\ IF Busy
       THEN early > 0 /\ early' = early - 1
       ELSE UNCHANGED early
    /\ IF rpc = "finish"
       THEN /\ rpc' = "list" /\ ends' = "timeout" /\ masked' = TRUE
            /\ UNCHANGED <<dataUp, sh>>
       ELSE GiveUp("timeout")
    /\ UNCHANGED <<trace, pos, needed, tmp, doomed, dataDn, syncUp, syncDn,
                   shUp, shDn, jobs, ints>>

\* graceful_cleanup_sig_handler: the user's SIGINT, SIGTERM, ... cleans up,
\* anew if a clean was under way, and kills runtrace
Interrupt ==
    /\ ints > 0 /\ ~masked /\ rpc \notin {"spawn", "leave", "exit"}
    /\ ints' = ints - 1
    /\ rpc' = "list" /\ ends' = "signal" /\ masked' = TRUE
    /\ UNCHANGED <<trace, pos, needed, tmp, doomed, socks, sh, jobs, early>>

Runtrace == (RtMoves \/ TimeOut)

Init ==
    /\ trace \in Traces
    /\ pos = 1 /\ rpc = "spawn" /\ ends = ""
    /\ needed = FALSE /\ tmp \in BOOLEAN /\ masked = FALSE /\ doomed = {}
    /\ dataUp = <<>> /\ dataDn = <<>> /\ syncUp = <<>> /\ syncDn = <<>>
    /\ shUp = <<>> /\ shDn = <<>>
    /\ sh = [st |-> "none", frames |-> <<>>, pend |-> {}]
    /\ jobs = <<>>
    /\ early = MaxEarly /\ ints = MaxInterrupt

\* what is left behind after runtrace's exit is not followed any further
Next == \/ Runtrace \/ Interrupt
        \/ rpc # "exit" /\ (Shell \/ Jobs \/ \E j \in DOMAIN jobs : JobAlarm(j))

\* every process is scheduled again and again, and select and alarm keep time
Spec == Init /\ [][Next]_vars
             /\ WF_vars(Runtrace)
             /\ WF_vars(rpc # "exit" /\ Shell)
             /\ WF_vars(rpc # "exit" /\ Jobs)

-----------------------------------------------------------------------------
(***************************************************************************)
(* Properties.                                                             *)
(***************************************************************************)
TypeOK ==
    /\ trace \in Traces /\ pos \in 1 .. Len(trace.cmds) + 1
    /\ rpc \in {"spawn", "prompt", "cmd", "finish", "list", "clean", "leave", "exit"}
    /\ ends \in {"", "exists", "wrong prompt", "timeout", "error", "done",
                 "late alarm", "signal"}
    /\ needed \in BOOLEAN /\ tmp \in BOOLEAN /\ masked \in BOOLEAN
    /\ doomed \subseteq 0 .. Len(jobs)
    /\ \A n \in {Len(dataUp), Len(dataDn), Len(syncUp), Len(syncDn), Len(shUp),
               Len(shDn)} : n <= QLen
    /\ sh.st \in {"none", "forked", "session", "up", "zombie", "gone"}
    /\ Len(sh.frames) <= 2 /\ sh.pend \subseteq {"CHLD", "INT", "TSTP"}
    /\ \A j \in DOMAIN jobs : jobs[j].st \in {"run", "stop", "dead", "gone"}

Undisturbed == early = MaxEarly /\ ints = MaxInterrupt

\* A trace that nobody disturbs, and that sends nothing after quit, runs to its
\* end against this shell: no wait of runtrace, of the wrapped shell or of a job
\* is for a datagram that nobody sends or that somebody else has taken.
QuitIsLast == \A i \in DOMAIN trace.cmds :
                trace.cmds[i].prog = "quit" => i = Len(trace.cmds)
TraceCompletes ==
    rpc = "exit" /\ Undisturbed /\ QuitIsLast => ends \in {"done", "exists"}

\* After the NEXT that answers the last line sent, the shell has done with that
\* line: it waits for another one with no foreground job.  The prompt read is
\* the one that follows the line, not an earlier or a later one.
Lines(ops) == Cardinality({i \in 1 .. pos - 1 : trace.cmds[i].op \in ops})
NextMeansIdle ==
    rpc = "cmd" /\ pos > 1 /\ Lines({"line", "PID"}) = Lines({"NEXT"})
      => \/ sh.st # "up"
         \/ sh.frames[1].at = "read" /\ dataDn = <<>> /\ FgJobs = {}

\* A call of the shell that is stopped in a wrapper has exactly one datagram
\* of its own under way: its own message, the answer, or what the trace has
\* received and not yet answered.  None is lost, doubled or left over.
Held == Lines({"SHELLWAIT"}) - Lines({"SHELLSIGNAL"})
SyncPaired ==
    sh.st = "up" =>
      Len(shUp) + Held + Len(shDn)
        = Cardinality({i \in DOMAIN sh.frames : sh.frames[i].sync = "wait"})

\* What trace20 and trace19 provoke: a signal that comes between the death of
\* the foreground job and its removal from the list is never forwarded to a
\* process that has been reaped.
ForwardedToChild ==
    [][ShForward => jobs[Top.job].st # "gone"]_vars

\* Whatever ends runtrace, the directory it made is removed; and when it was
\* the end of the shell, nothing of the shell's session is left.
CleanedUp ==
    ends # "exists" => ~tmp /\ (ends \in {"done", "late alarm"} => Live = {})

\* "Kill any of our stray shells and jobs": nothing that the shell started,
\* and not the shell either, outlives runtrace.
NoStrays == rpc = "exit" => Live = {}

\* runtrace ends, whatever the shell does, and leaves nothing to clean up.
RunEndsClean == <>[](rpc = "exit" /\ CleanedUp)
=============================================================================
