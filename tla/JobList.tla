------------------------------ MODULE JobList ------------------------------
(***************************************************************************)
(* The job list of the shell (shell/tsh_helper.c): a table of MAXJOBS      *)
(* slots and the operations that read and update it.  The operators take   *)
(* the table as a parameter and return the new one; the module that uses   *)
(* them decides which step calls which.                                    *)
(*                                                                         *)
(* The cmdline buffer of a slot is left out: it is only ever printed, and  *)
(* deleting a job keeps it.  The jid field of a slot is its index.         *)
(***************************************************************************)
EXTENDS Naturals

CONSTANTS
  Pid,      (* the process ids the kernel hands out to the shell's children *)
  NoPid,    (* the pid field of an unused slot, and "no such process"       *)
  MAXJOBS   (* the number of slots                                          *)

ASSUME JobListAssumption ==
  /\ NoPid \notin Pid
  /\ MAXJOBS \in Nat \ {0}

JobState == {"UNDEF", "FG", "BG", "ST"}

Jid == 1..MAXJOBS

(* The answer of the functions that return 0 for "no such job".            *)
NoJid == 0

JobTable == [Jid -> [pid : Pid \cup {NoPid}, state : JobState]]

-----------------------------------------------------------------------------
clearjob == [pid |-> NoPid, state |-> "UNDEF"]

init_job_list == [j \in Jid |-> clearjob]

job_exists(jobs, jid) == jid \in Jid /\ jobs[jid].state # "UNDEF"

(* First slot of a scan from 1 that satisfies the test, or 0.              *)
FirstOf(S) ==
  IF S = {} THEN NoJid ELSE CHOOSE j \in S : \A k \in S : j <= k

(* Mutated form: the scan stops one slot early.                            *)
fg_job_SkipsLast(jobs) == FirstOf({j \in 1..(MAXJOBS - 1) : jobs[j].state = "FG"})

fg_job(jobs) == FirstOf({j \in Jid : jobs[j].state = "FG"})

job_from_pid(jobs, p) ==
  FirstOf({j \in Jid : jobs[j].state # "UNDEF" /\ jobs[j].pid = p})

(* Every slot from n on is unused.                                         *)
FreeFrom(jobs, n) == \A j \in Jid : j >= n => ~job_exists(jobs, j)

(* maxjid(jobs) + 1: the scan runs down from MAXJOBS to the first slot in  *)
(* use, so the result is the least n from which on all slots are unused.   *)
maxjidPlus1(jobs) ==
  CHOOSE n \in 1..(MAXJOBS + 1) :
    /\ FreeFrom(jobs, n)
    /\ \A m \in 1..(MAXJOBS + 1) : FreeFrom(jobs, m) => n <= m

(* add_job when nextjid is a slot; the caller has checked the bound.       *)
WithJob(jobs, jid, p, st) == [jobs EXCEPT ![jid] = [pid |-> p, state |-> st]]

delete_job(jobs, jid) ==
  IF job_exists(jobs, jid) THEN [jobs EXCEPT ![jid] = clearjob] ELSE jobs

(* Mutated form: nextjid is counted down, as add_job counted it up.        *)
NextjidAfterDelete_CountsDown(jobs, jid, next) ==
  IF job_exists(jobs, jid) THEN next - 1 ELSE next

(* nextjid after delete_job: recomputed only when a job was deleted.       *)
NextjidAfterDelete(jobs, jid, next) ==
  IF job_exists(jobs, jid) THEN maxjidPlus1(delete_job(jobs, jid)) ELSE next

(* job_set_state for a job that exists.                                    *)
WithState(jobs, jid, st) == [jobs EXCEPT ![jid].state = st]
=============================================================================
