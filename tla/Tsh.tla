-------------------------------- MODULE Tsh --------------------------------
(***************************************************************************)
(* The shell of shell/tsh.c: its read/eval loop, its three signal          *)
(* handlers, and the kernel and the child processes they deal with.        *)
(*                                                                         *)
(* A step of the shell is the code between two points at which a signal    *)
(* can be delivered or the state of a child observed.  The code that reads *)
(* or writes the job list runs with SIGCHLD, SIGINT and SIGTSTP blocked,   *)
(* so such a stretch is one step unless it looks at the kernel in between. *)
(*                                                                         *)
(* A signal that is pending and not blocked is delivered before the next   *)
(* step of the shell: a delivery that comes later is the same behaviour as *)
(* a signal that is generated later.                                       *)
(***************************************************************************)
EXTENDS JobList

VARIABLES
  job,      (* job_list, tsh_helper.c                                       *)
  nextjid,  (* the slot add_job uses next                                   *)
  pc,       (* where the read/eval loop is                                  *)
  cur,      (* the locals jid and pid of eval, and whether it acts for a    *)
            (* background command (& or bg)                                 *)
  hdl,      (* "chld" while sigchld_handler is in its waitpid loop          *)
  pend,     (* signals pending in the shell: a set, they do not queue       *)
  handlers, (* signals whose handler is installed                           *)
  proc      (* the kernel's view of the children                            *)

shellVars == <<job, nextjid, pc, cur, hdl, handlers>>
vars == <<job, nextjid, pc, cur, hdl, pend, handlers, proc>>

Signal == {"CHLD", "INT", "TSTP"}

(* "prompt": in the read loop, nothing blocked                              *)
(* "add":    forked, before add_job; blocked                                *)
(* "cont":   bg/fg has set the new state and unblocked, before kill         *)
(* "print":  bg has sent SIGCONT, before it looks the job up again          *)
(* "block":  fg has sent SIGCONT, or sigsuspend has returned: about to      *)
(*           block and test fg_job                                          *)
(* "test":   in the wait loop, blocked, before fg_job()                     *)
(* "armed":  fg_job() was not 0, blocked, before sigsuspend                 *)
(* "suspend": inside sigsuspend, nothing blocked                            *)
(* "cleanup": in the atexit function                                        *)
(* The others are ends of the shell.                                        *)
Ended == {"exited", "killed", "abort_bg", "abort_chld"}

PC == {"prompt", "add", "cont", "print", "block", "test", "armed",
       "suspend", "cleanup"} \cup Ended

NoCur == [jid |-> NoJid, pid |-> NoPid, bg |-> FALSE]

(* A child is "forked" until its setpgid, "grouped" until its execve and   *)
(* "run" from then on.  Until the execve its signal handlers are the       *)
(* shell's.  A stopped child records whether waitpid has reported the stop *)
(* (rep) and whether a SIGINT awaits its continuation (int).               *)
Child == [st : {"free", "forked", "grouped", "run", "stopped", "zombie"},
          rep : BOOLEAN, int : BOOLEAN]

ChildIn(s) == [st |-> s, rep |-> FALSE, int |-> FALSE]

-----------------------------------------------------------------------------
Alive == pc \notin Ended

(* Mutated forms: the signals are blocked only after fork, or unblocked     *)
(* before sigsuspend (then pause) instead of by it.                        *)
Blocked_AfterFork(s) == s \in {"test", "armed"}
Blocked_NotAtSuspend(s) == s \in {"add", "test"}

(* The points of eval at which it has the three signals blocked.           *)
Blocked(s) == s \in {"add", "test", "armed"}

Deliverable == IF Blocked(pc) \/ hdl = "chld" THEN {} ELSE pend

(* The shell's own code runs when no handler does and none is due.         *)
MainReady == Alive /\ hdl = "none" /\ Deliverable = {}

(* sigsuspend returns after a handler has run.                             *)
AfterHandler(s) == IF s = "suspend" THEN "block" ELSE s

(* What a signal does to a child.  The programs have the default           *)
(* dispositions.  Before execve SIGINT and SIGTSTP either find no process  *)
(* group of that number, or are taken by the child's copy of the shell's   *)
(* handlers, whose job list has no foreground job: they have no effect.    *)
(* A stopped child dies of a SIGINT when it is continued, and SIGCONT      *)
(* discards a pending SIGTSTP.                                             *)
After(c, sig) ==
  CASE sig = "INT"  /\ c.st = "run"     -> ChildIn("zombie")
    [] sig = "INT"  /\ c.st = "stopped" -> [c EXCEPT !.int = TRUE]
    [] sig = "TSTP" /\ c.st = "run"     -> ChildIn("stopped")
    [] sig = "CONT" /\ c.st = "stopped" ->
         IF c.int THEN ChildIn("zombie") ELSE ChildIn("run")
    [] OTHER -> c

(* Every change of run, stopped and zombie raises SIGCHLD in the shell.    *)
Raised(c, d) == IF c.st # d.st THEN {"CHLD"} ELSE {}

(* kill(-p, sig): p leads a group of its own, the whole of the job.        *)
Kill(p, sig) ==
  LET c == proc[p]  d == After(c, sig) IN
  /\ proc' = [proc EXCEPT ![p] = d]
  /\ pend' = pend \cup Raised(c, d)

-----------------------------------------------------------------------------
Init ==
  /\ job = init_job_list
  /\ nextjid = 1
  /\ pc = "prompt"
  /\ cur = NoCur
  /\ hdl = "none"
  /\ pend = {}
  /\ handlers = Signal
  /\ proc = [p \in Pid |-> ChildIn("free")]

-----------------------------------------------------------------------------
(* The read/eval loop.                                                     *)

(* An external command: signals are blocked, then fork.  A fork that fails *)
(* restores the mask and changes nothing.                                  *)
EvalFork(p, bg) ==
  /\ MainReady
  /\ pc = "prompt"
  /\ proc[p].st = "free"
  /\ proc' = [proc EXCEPT ![p] = ChildIn("forked")]
  /\ cur' = [jid |-> NoJid, pid |-> p, bg |-> bg]
  /\ pc' = "add"
  /\ UNCHANGED <<job, nextjid, hdl, pend, handlers>>

(* The parent's half: add_job, which returns 0 when nextjid is past the    *)
(* table; a background job is announced and the mask restored, a           *)
(* foreground one waited for.                                              *)
EvalAddJob ==
  /\ MainReady
  /\ pc = "add"
  /\ IF nextjid > MAXJOBS
       THEN UNCHANGED <<job, nextjid>>
       ELSE /\ job' = WithJob(job, nextjid, cur.pid,
                              IF cur.bg THEN "BG" ELSE "FG")
            /\ nextjid' = nextjid + 1
  /\ pc' = IF cur.bg THEN "prompt" ELSE "test"
  /\ cur' = NoCur
  /\ UNCHANGED <<hdl, pend, handlers, proc>>

(* bg and fg, given a job id or the pid of one: under the mask the job is  *)
(* looked up and its new state set.  Of an argument that names no job the  *)
(* command only complains.                                                 *)
EvalBgFg(j, bg) ==
  /\ MainReady
  /\ pc = "prompt"
  /\ job_exists(job, j)
  /\ job' = WithState(job, j, IF bg THEN "BG" ELSE "FG")
  /\ cur' = [jid |-> j, pid |-> job[j].pid, bg |-> bg]
  /\ pc' = "cont"
  /\ UNCHANGED <<nextjid, hdl, pend, handlers, proc>>

EvalCont ==
  /\ MainReady
  /\ pc = "cont"
  /\ Kill(cur.pid, "CONT")
  /\ pc' = IF cur.bg THEN "print" ELSE "block"
  /\ cur' = IF cur.bg THEN cur ELSE NoCur
  /\ UNCHANGED <<job, nextjid, hdl, handlers>>

(* bg looks the command line up under the mask, to print it;               *)
(* job_get_cmdline aborts the shell if there is no such job.               *)
EvalBgPrint ==
  /\ MainReady
  /\ pc = "print"
  /\ pc' = IF job_exists(job, cur.jid) THEN "prompt" ELSE "abort_bg"
  /\ cur' = NoCur
  /\ UNCHANGED <<job, nextjid, hdl, pend, handlers, proc>>

(* Mutated form: an if where the code has a while.                         *)
WaitBlock_Once ==
  /\ MainReady
  /\ pc = "block"
  /\ pc' = "prompt"
  /\ UNCHANGED <<job, nextjid, cur, hdl, pend, handlers, proc>>

(* The wait for a foreground job:                                          *)
(*     while (fg_job() != 0) sigsuspend(&prev_mask);                       *)
WaitBlock ==
  /\ MainReady
  /\ pc = "block"
  /\ pc' = "test"
  /\ UNCHANGED <<job, nextjid, cur, hdl, pend, handlers, proc>>

WaitTest ==
  /\ MainReady
  /\ pc = "test"
  /\ pc' = IF fg_job(job) # NoJid THEN "armed" ELSE "prompt"
  /\ UNCHANGED <<job, nextjid, cur, hdl, pend, handlers, proc>>

WaitSuspend ==
  /\ MainReady
  /\ pc = "armed"
  /\ pc' = "suspend"
  /\ UNCHANGED <<job, nextjid, cur, hdl, pend, handlers, proc>>

(* Mutated form: the list is freed first, then the dispositions restored.  *)
Cleanup_FreeFirst ==
  /\ MainReady
  /\ pc = "cleanup"
  /\ \/ \E s \in handlers :
          /\ s = "TSTP" => "INT" \notin handlers
          /\ s = "CHLD" => handlers = {"CHLD"}
          /\ handlers' = handlers \ {s}
          /\ job' = init_job_list
          /\ nextjid' = 1
          /\ UNCHANGED pc
     \/ /\ handlers = {}
        /\ pc' = "exited"
        /\ UNCHANGED <<job, nextjid, handlers>>
  /\ UNCHANGED <<cur, hdl, pend, proc>>

(* quit, or end of file: exit runs cleanup, which restores the default     *)
(* dispositions one after the other, then frees the list.                  *)
EvalQuit ==
  /\ MainReady
  /\ pc = "prompt"
  /\ pc' = "cleanup"
  /\ UNCHANGED <<job, nextjid, cur, hdl, pend, handlers, proc>>

Cleanup ==
  /\ MainReady
  /\ pc = "cleanup"
  /\ \/ \E s \in handlers :
          /\ s = "TSTP" => "INT" \notin handlers
          /\ s = "CHLD" => handlers = {"CHLD"}
          /\ handlers' = handlers \ {s}
          /\ UNCHANGED <<job, nextjid, pc>>
     \/ /\ handlers = {}
        /\ job' = init_job_list
        /\ nextjid' = 1
        /\ pc' = "exited"
        /\ UNCHANGED handlers
  /\ UNCHANGED <<cur, hdl, pend, proc>>

Main ==
  \/ EvalAddJob \/ EvalCont \/ EvalBgPrint
  \/ WaitBlock \/ WaitTest \/ WaitSuspend
  \/ Cleanup

-----------------------------------------------------------------------------
(* Signal delivery and the handlers.                                       *)

(* sigchld_handler begins: one delivery for any number of children.        *)
SigchldEnter ==
  /\ Alive
  /\ "CHLD" \in Deliverable \cap handlers
  /\ pend' = pend \ {"CHLD"}
  /\ hdl' = "chld"
  /\ pc' = AfterHandler(pc)
  /\ UNCHANGED <<job, nextjid, cur, handlers, proc>>

(* Mutated form: waitpid without WUNTRACED.                                *)
Reportable_NotStopped(p) == proc[p].st = "zombie"

(* The children waitpid(-1, WNOHANG | WUNTRACED) can report.               *)
Reportable(p) ==
  \/ proc[p].st = "zombie"
  \/ proc[p].st = "stopped" /\ ~proc[p].rep

(* One turn of the loop in which waitpid reports a death.                  *)
SigchldReap(p) ==
  /\ Alive
  /\ hdl = "chld"
  /\ Reportable(p) /\ proc[p].st = "zombie"
  /\ LET jid == job_from_pid(job, p) IN
       /\ job' = delete_job(job, jid)
       /\ nextjid' = NextjidAfterDelete(job, jid, nextjid)
  /\ proc' = [proc EXCEPT ![p] = ChildIn("free")]
  /\ UNCHANGED <<pc, cur, hdl, pend, handlers>>

(* One turn in which it reports a stop; job_set_state aborts the shell if  *)
(* the child is not in the job list.                                       *)
SigchldStop(p) ==
  /\ Alive
  /\ hdl = "chld"
  /\ Reportable(p) /\ proc[p].st = "stopped"
  /\ proc' = [proc EXCEPT ![p].rep = TRUE]
  /\ LET jid == job_from_pid(job, p) IN
       IF job_exists(job, jid)
         THEN /\ job' = WithState(job, jid, "ST")
              /\ UNCHANGED <<pc, hdl>>
         ELSE /\ pc' = "abort_chld"
              /\ hdl' = "none"
              /\ UNCHANGED job
  /\ UNCHANGED <<nextjid, cur, pend, handlers>>

(* Mutated form: one waitpid per signal, an if where the code has a while. *)
SigchldReturn_OneChild ==
  /\ Alive
  /\ hdl = "chld"
  /\ hdl' = "none"
  /\ UNCHANGED <<job, nextjid, pc, cur, pend, handlers, proc>>

(* waitpid returns 0 and the handler restores the mask.                    *)
SigchldReturn ==
  /\ Alive
  /\ hdl = "chld"
  /\ \A p \in Pid : ~Reportable(p)
  /\ hdl' = "none"
  /\ UNCHANGED <<job, nextjid, pc, cur, pend, handlers, proc>>

(* Mutated form: a test that misses job 1.                                 *)
IsJob_OffByOne(jid) == jid > 1

(* The handlers' test that fg_job has found a job.                         *)
IsJob(jid) == jid > 0

(* sigint_handler and sigtstp_handler: the signal is passed on to the      *)
(* group of the foreground job, if there is one.                           *)
ForwardToFg(sig) ==
  /\ Alive
  /\ sig \in Deliverable \cap handlers
  /\ LET j == fg_job(job)
         p == job[j].pid
         d == After(proc[p], sig)
     IN  IF IsJob(j)
           THEN /\ proc' = [proc EXCEPT ![p] = d]
                /\ pend' = (pend \ {sig}) \cup Raised(proc[p], d)
           ELSE /\ pend' = pend \ {sig}
                /\ UNCHANGED proc
  /\ pc' = AfterHandler(pc)
  /\ UNCHANGED <<job, nextjid, cur, hdl, handlers>>

sigint_handler == ForwardToFg("INT")
sigtstp_handler == ForwardToFg("TSTP")

(* The default dispositions, while cleanup has removed a handler: SIGINT   *)
(* ends the shell, SIGTSTP stops it until its own parent continues it,     *)
(* SIGCHLD is ignored.                                                     *)
DefaultAction(sig) ==
  /\ Alive
  /\ sig \in Deliverable \ handlers
  /\ pend' = pend \ {sig}
  /\ pc' = IF sig = "INT" THEN "killed" ELSE pc
  /\ UNCHANGED <<job, nextjid, cur, hdl, handlers, proc>>

Handler ==
  \/ SigchldEnter \/ SigchldReturn
  \/ \E p \in Pid : SigchldReap(p) \/ SigchldStop(p)
  \/ sigint_handler \/ sigtstp_handler
  \/ \E sig \in Signal : DefaultAction(sig)

-----------------------------------------------------------------------------
(* The children and the terminal.  What becomes of the children after the  *)
(* shell has ended is not followed.                                        *)

ChildSetpgid(p) ==
  /\ Alive
  /\ proc[p].st = "forked"
  /\ proc' = [proc EXCEPT ![p] = ChildIn("grouped")]
  /\ UNCHANGED <<shellVars, pend>>

(* Redirection, the mask, execve; the child exits if one of them fails.    *)
ChildExec(p) ==
  /\ Alive
  /\ proc[p].st = "grouped"
  /\ \E s \in {"run", "zombie"} :
       /\ proc' = [proc EXCEPT ![p] = ChildIn(s)]
       /\ pend' = pend \cup (IF s = "zombie" THEN {"CHLD"} ELSE {})
  /\ UNCHANGED shellVars

(* The program exits, or somebody else kills it.                           *)
ChildExit(p) ==
  /\ Alive
  /\ proc[p].st \in {"run", "stopped"}
  /\ proc' = [proc EXCEPT ![p] = ChildIn("zombie")]
  /\ pend' = pend \cup {"CHLD"}
  /\ UNCHANGED shellVars

(* The program stops itself, or somebody else stops it.                    *)
ChildStop(p) ==
  /\ Alive
  /\ proc[p].st = "run"
  /\ proc' = [proc EXCEPT ![p] = ChildIn("stopped")]
  /\ pend' = pend \cup {"CHLD"}
  /\ UNCHANGED shellVars

(* Ctrl-C or Ctrl-Z: the terminal signals its foreground process group,    *)
(* the shell and the children that have not yet left its group (on which   *)
(* it has no effect, see After).                                           *)
Key(sig) ==
  /\ Alive
  /\ sig \notin pend
  /\ pend' = pend \cup {sig}
  /\ UNCHANGED <<shellVars, proc>>

(* The shell has ended.                                                    *)
Over == ~Alive /\ UNCHANGED vars

Next ==
  \/ Main
  \/ EvalQuit
  \/ \E p \in Pid, bg \in BOOLEAN : EvalFork(p, bg)
  \/ \E j \in Jid, bg \in BOOLEAN : EvalBgFg(j, bg)
  \/ Handler
  \/ \E p \in Pid :
       ChildSetpgid(p) \/ ChildExec(p) \/ ChildExit(p) \/ ChildStop(p)
  \/ \E sig \in {"INT", "TSTP"} : Key(sig)
  \/ Over

Spec == Init /\ [][Next]_vars
-----------------------------------------------------------------------------
(* What the scheduler, the kernel and the user owe the shell: its own code *)
(* runs, every pending signal is delivered, a handler runs to its end, and *)
(* the user does not hold Ctrl-C or Ctrl-Z down for ever (with a signal    *)
(* always pending the shell would never leave its handlers).  The children *)
(* owe nothing.                                                            *)
Fairness ==
  /\ WF_vars(Main)
  /\ WF_vars(SigchldEnter)
  /\ WF_vars(SigchldReturn)
  /\ \A p \in Pid : WF_vars(SigchldReap(p)) /\ WF_vars(SigchldStop(p))
  /\ WF_vars(sigint_handler)
  /\ WF_vars(sigtstp_handler)
  /\ <>[][~ \E sig \in {"INT", "TSTP"} : Key(sig)]_vars

FairSpec == Spec /\ Fairness

-----------------------------------------------------------------------------
(* Properties.                                                             *)

(* Every variable keeps its type: in particular nextjid, the locals of     *)
(* eval and the pids in the table stay in their ranges.                    *)
TypeOK ==
  /\ job \in JobTable
  /\ nextjid \in 1..(MAXJOBS + 1)
  /\ pc \in PC
  /\ cur \in [jid : Jid \cup {NoJid}, pid : Pid \cup {NoPid}, bg : BOOLEAN]
  /\ hdl \in {"none", "chld"}
  /\ pend \subseteq Signal
  /\ handlers \subseteq Signal
  /\ proc \in [Pid -> Child]

(* At most one job is in the foreground (tsh_helper.h), whatever the       *)
(* handlers do between the steps of eval: add_job and job_set_state abort  *)
(* the shell otherwise.                                                    *)
AtMostOneFG ==
  \A i, j \in Jid : job[i].state = "FG" /\ job[j].state = "FG" => i = j

(* A listed job is an unreaped child, and no two jobs are the same child:  *)
(* add_job cannot come after the handler has reaped the child, and a pid   *)
(* in the list never belongs to a stranger.                                *)
ListedIsChild ==
  /\ \A j \in Jid : job_exists(job, j) =>
       job[j].pid \in Pid /\ proc[job[j].pid].st # "free"
  /\ \A i, j \in Jid :
       job_exists(job, i) /\ job_exists(job, j) /\ job[i].pid = job[j].pid
       => i = j

(* nextjid is the slot after the last one in use, so that the slot add_job *)
(* fills is unused (its sio_assert).                                       *)
NextjidFresh == nextjid = maxjidPlus1(job)

(* sigchld_handler is at work until cleanup removes it.                    *)
Reaping == Alive /\ "CHLD" \in handlers

(* SIGCHLD does not queue, so many deaths may be announced by one signal:  *)
(* a zombie is never left behind without a signal or a handler on its way. *)
NoZombieForgotten ==
  Reaping => \A p \in Pid :
    proc[p].st = "zombie" => "CHLD" \in pend \/ hdl = "chld"

(* A listed job that is stopped in the kernel is listed as stopped, unless *)
(* its SIGCHLD or the SIGCONT of a bg or fg command is on its way: the     *)
(* shell never goes on believing that a stopped job runs.                  *)
StoppedIsListed ==
  Reaping => \A j \in Jid :
    job_exists(job, j) /\ proc[job[j].pid].st = "stopped" =>
      \/ job[j].state = "ST"
      \/ "CHLD" \in pend \/ hdl = "chld"
      \/ pc = "cont" /\ cur.pid = job[j].pid

(* The shell sleeps in sigsuspend only while there is a foreground job:    *)
(* no SIGCHLD is handled between the test of fg_job and the sleep.         *)
NoLostWakeup == pc = "suspend" => fg_job(job) # NoJid

(* A job leaves the list only when its child is reaped, or when no handler *)
(* that reads the list is left to run (cleanup: "handlers need to be        *)
(* removed before destroying the joblist").  So a handler, one that runs   *)
(* between two steps of cleanup too, still finds the job of every child    *)
(* that add_job took: job_set_state does not abort the shell on it.  No    *)
(* other step, such as an add_job that fills a slot again, drops a job.    *)
ListedUntilReaped ==
  [][\A p \in Pid :
       job_from_pid(job, p) # NoJid /\ job_from_pid(job', p) = NoJid =>
         \/ proc[p].st = "zombie" /\ proc'[p].st = "free"
         \/ handlers = {} /\ hdl = "none"]_vars

(* The job list, seen child by child, implements JobControl.               *)
StatusOf(p) ==
  IF job_from_pid(job, p) = NoJid THEN "none"
  ELSE job[job_from_pid(job, p)].state

Jobs == INSTANCE JobControl WITH status <- [p \in Pid |-> StatusOf(p)]

ImplementsJobControl == Jobs!Spec

(* Every child that dies is reaped, unless the shell exits first.          *)
EveryChildReaped ==
  \A p \in Pid :
    (Reaping /\ proc[p].st = "zombie") ~> (~Reaping \/ proc[p].st # "zombie")

Waiting == pc \in {"block", "test", "armed", "suspend"}

FgChildIn(S) ==
  \E j \in Jid : job[j].state = "FG" /\ proc[job[j].pid].st \in S

(* The wait ends once the foreground job has died or stopped.              *)
WaitEnds == (Waiting /\ FgChildIn({"zombie", "stopped"})) ~> ~Waiting

(* Ctrl-C or Ctrl-Z typed while the foreground program runs brings the     *)
(* prompt back.                                                            *)
KeyEndsWait ==
  (Waiting /\ FgChildIn({"run"}) /\ pend \cap {"INT", "TSTP"} # {}) ~> ~Waiting

-----------------------------------------------------------------------------
(* Statements of the comments that the code does not live up to; the first is   *)
(* checked, the other two were found to be violated in the same way.       *)

(* tsh.c, eval: the shell "should avoid exiting on error".  Neither bg,    *)
(* when it looks up the command line of the job it has continued, nor      *)
(* sigchld_handler, when it marks a job as stopped, aborts it.             *)
ShellNeverAborts == pc \notin {"abort_bg", "abort_chld"}

(* tsh.c, sigchld_handler: on a stop the handler updates the state of the  *)
(* job.  At the prompt, with no signal on its way, a job listed as stopped *)
(* is stopped.                                                             *)
ListedStoppedIsStopped ==
  pc = "prompt" /\ hdl = "none" /\ pend = {} =>
    \A j \in Jid : job[j].state = "ST" => proc[job[j].pid].st = "stopped"

(* tsh.c, sigint_handler: Ctrl-C is forwarded "to all process in the same  *)
(* process group as the FG job", which ends it or, if it is stopped, waits *)
(* for its continuation.                                                   *)
CtrlCReachesFg ==
  [][sigint_handler /\ fg_job(job) # NoJid =>
       LET c == proc[job[fg_job(job)].pid]' IN c.st = "zombie" \/ c.int]_vars
=============================================================================
