----------------------------- MODULE TshProofs -----------------------------
(***************************************************************************)
(* Proofs about the shell of Tsh, for any set of pids and any MAXJOBS.     *)
(***************************************************************************)
EXTENDS Tsh, WellFoundedInduction, TLAPS

(***************************************************************************)
(* The job table.                                                          *)
(***************************************************************************)

(* A set of naturals that is not empty has a least element.                *)
LEMMA LeastElement ==
  ASSUME NEW S \in SUBSET Nat, S # {}
  PROVE  \E m \in S : \A k \in S : m <= k
<1>. DEFINE R == {ss \in Nat \X Nat : ss[1] < ss[2]}
<1>1. IsWellFoundedOn(R, Nat)
  BY NatLessThanWellFounded DEF OpToRel
<1>2. PICK m \in S : \A k \in S : ~(<<k, m>> \in R)
  <2>. HIDE DEF R
  <2>. QED
    BY <1>1, WFMin
<1>3. \A k \in S : ~(k < m)
  BY <1>2
<1>. QED
  BY <1>3

(* A scan of the table returns 0 exactly when no slot satisfies its test,  *)
(* and otherwise a slot that does.                                         *)
LEMMA FirstOfSlot ==
  ASSUME NEW S \in SUBSET Jid
  PROVE  /\ S = {} => FirstOf(S) = NoJid
         /\ S # {} => FirstOf(S) \in S /\ FirstOf(S) # NoJid
<1>1. CASE S = {}
  BY <1>1 DEF FirstOf
<1>2. CASE S # {}
  <2>1. S \in SUBSET Nat
    BY JobListAssumption DEF Jid
  <2>2. PICK m \in S : \A k \in S : m <= k
    BY <1>2, <2>1, LeastElement
  <2>3. FirstOf(S) \in S
    BY <1>2, <2>2 DEF FirstOf
  <2>. QED
    BY <1>2, <2>3, JobListAssumption DEF Jid, NoJid
<1>. QED
  BY <1>1, <1>2

(* fg_job finds the foreground job if there is one.                        *)
LEMMA FgJobFound ==
  ASSUME NEW t \in JobTable
  PROVE  /\ fg_job(t) # NoJid => fg_job(t) \in Jid /\ t[fg_job(t)].state = "FG"
         /\ fg_job(t) = NoJid <=> \A j \in Jid : t[j].state # "FG"
<1>. DEFINE S == {j \in Jid : t[j].state = "FG"}
<1>1. S \in SUBSET Jid
  OBVIOUS
<1>2. fg_job(t) = FirstOf(S)
  BY DEF fg_job
<1>. QED
  BY <1>1, <1>2, FirstOfSlot

(* job_from_pid finds the job of a pid if there is one.                    *)
LEMMA JobFromPidFound ==
  ASSUME NEW t \in JobTable, NEW p \in Pid
  PROVE  /\ job_from_pid(t, p) # NoJid =>
              /\ job_from_pid(t, p) \in Jid
              /\ job_exists(t, job_from_pid(t, p))
              /\ t[job_from_pid(t, p)].pid = p
         /\ job_from_pid(t, p) = NoJid =>
              \A j \in Jid : job_exists(t, j) => t[j].pid # p
         /\ job_from_pid(t, p) \in Jid \cup {NoJid}
<1>. DEFINE S == {j \in Jid : t[j].state # "UNDEF" /\ t[j].pid = p}
<1>1. S \in SUBSET Jid
  OBVIOUS
<1>2. job_from_pid(t, p) = FirstOf(S)
  BY DEF job_from_pid
<1>. QED
  BY <1>1, <1>2, FirstOfSlot DEF job_exists

(* There is a least n from which on every slot is unused, so maxjidPlus1   *)
(* is that n.                                                              *)
LEMMA MaxjidPlus1Least ==
  ASSUME NEW t \in JobTable
  PROVE  /\ maxjidPlus1(t) \in 1..(MAXJOBS + 1)
         /\ FreeFrom(t, maxjidPlus1(t))
         /\ \A m \in 1..(MAXJOBS + 1) : FreeFrom(t, m) => maxjidPlus1(t) <= m
<1>. DEFINE S == {n \in 1..(MAXJOBS + 1) : FreeFrom(t, n)}
<1>1. MAXJOBS + 1 \in S
  BY JobListAssumption DEF FreeFrom, Jid
<1>2. S \in SUBSET Nat
  BY JobListAssumption
<1>3. PICK n \in S : \A m \in S : n <= m
  BY <1>1, <1>2, LeastElement
<1>4. \E k \in 1..(MAXJOBS + 1) :
        /\ FreeFrom(t, k)
        /\ \A m \in 1..(MAXJOBS + 1) : FreeFrom(t, m) => k <= m
  BY <1>3
<1>. QED
  BY <1>4 DEF maxjidPlus1

(* The least n is the only one.                                            *)
LEMMA MaxjidPlus1Unique ==
  ASSUME NEW t \in JobTable, NEW n \in 1..(MAXJOBS + 1), FreeFrom(t, n),
         \A m \in 1..(MAXJOBS + 1) : FreeFrom(t, m) => n <= m
  PROVE  maxjidPlus1(t) = n
<1>1. maxjidPlus1(t) \in 1..(MAXJOBS + 1) /\ n <= maxjidPlus1(t)
  BY MaxjidPlus1Least
<1>2. maxjidPlus1(t) <= n
  BY MaxjidPlus1Least
<1>. QED
  BY <1>1, <1>2, JobListAssumption

(* It depends only on which slots are in use.                              *)
LEMMA MaxjidPlus1Same ==
  ASSUME NEW t \in JobTable, NEW u \in JobTable,
         \A j \in Jid : job_exists(t, j) <=> job_exists(u, j)
  PROVE  maxjidPlus1(u) = maxjidPlus1(t)
<1>1. \A m : FreeFrom(t, m) <=> FreeFrom(u, m)
  BY DEF FreeFrom
<1>2. /\ maxjidPlus1(t) \in 1..(MAXJOBS + 1)
      /\ FreeFrom(u, maxjidPlus1(t))
      /\ \A m \in 1..(MAXJOBS + 1) : FreeFrom(u, m) => maxjidPlus1(t) <= m
  BY <1>1, MaxjidPlus1Least
<1>. QED
  BY <1>2, MaxjidPlus1Unique

(* In the empty table it is 1.                                             *)
LEMMA MaxjidPlus1Empty ==
  init_job_list \in JobTable /\ maxjidPlus1(init_job_list) = 1
<1>1. init_job_list \in JobTable
  BY DEF init_job_list, JobTable, JobState, clearjob
<1>2. FreeFrom(init_job_list, 1) /\ 1 \in 1..(MAXJOBS + 1)
  BY JobListAssumption DEF init_job_list, FreeFrom, job_exists, clearjob
<1>. QED
  BY <1>1, <1>2, MaxjidPlus1Unique, JobListAssumption

(* Adding a job in that slot moves it up by one.                           *)
LEMMA MaxjidPlus1Added ==
  ASSUME NEW t \in JobTable, NEW p \in Pid, NEW s \in {"FG", "BG"},
         maxjidPlus1(t) <= MAXJOBS
  PROVE  LET n == maxjidPlus1(t)  u == WithJob(t, n, p, s) IN
         /\ u \in JobTable
         /\ n \in Jid
         /\ ~job_exists(t, n)
         /\ u[n] = [pid |-> p, state |-> s]
         /\ \A j \in Jid \ {n} : u[j] = t[j]
         /\ maxjidPlus1(u) = n + 1
<1>. DEFINE n == maxjidPlus1(t)
            u == WithJob(t, n, p, s)
<1>1. n \in 1..(MAXJOBS + 1) /\ n \in Jid /\ FreeFrom(t, n)
  BY MaxjidPlus1Least, JobListAssumption DEF Jid
<1>2. ~job_exists(t, n)
  BY <1>1, JobListAssumption DEF FreeFrom, Jid
<1>3. /\ u \in JobTable
      /\ u[n] = [pid |-> p, state |-> s]
      /\ \A j \in Jid \ {n} : u[j] = t[j]
  BY <1>1 DEF WithJob, JobTable, JobState
<1>4. n + 1 \in 1..(MAXJOBS + 1) /\ FreeFrom(u, n + 1)
  BY <1>1, <1>3, JobListAssumption DEF FreeFrom, job_exists, Jid
<1>5. ASSUME NEW m \in 1..(MAXJOBS + 1), FreeFrom(u, m)
      PROVE  n + 1 <= m
  <2>1. job_exists(u, n)
    BY <1>1, <1>3 DEF job_exists
  <2>2. ~(n >= m)
    BY <1>1, <1>5, <2>1 DEF FreeFrom
  <2>. QED
    BY <1>1, <2>2, JobListAssumption DEF Jid
<1>6. maxjidPlus1(u) = n + 1
  BY <1>3, <1>4, <1>5, MaxjidPlus1Unique
<1>. QED
  BY <1>1, <1>2, <1>3, <1>6

(* Setting the state of a job that exists changes nothing else.            *)
LEMMA WithStateTable ==
  ASSUME NEW t \in JobTable, NEW j \in Jid, NEW s \in {"FG", "BG", "ST"},
         job_exists(t, j)
  PROVE  LET u == WithState(t, j, s) IN
         /\ u \in JobTable
         /\ u[j].pid = t[j].pid /\ u[j].state = s
         /\ \A k \in Jid \ {j} : u[k] = t[k]
         /\ \A k \in Jid : job_exists(u, k) <=> job_exists(t, k)
         /\ \A k \in Jid : u[k].pid = t[k].pid
         /\ maxjidPlus1(u) = maxjidPlus1(t)
<1>. DEFINE u == WithState(t, j, s)
<1>1. /\ t \in [Jid -> [pid : Pid \cup {NoPid}, state : JobState]]
      /\ t[j] \in [pid : Pid \cup {NoPid}, state : JobState]
  BY DEF JobTable
<1>2. /\ u \in JobTable
      /\ u[j].pid = t[j].pid /\ u[j].state = s
      /\ \A k \in Jid \ {j} : u[k] = t[k]
  BY <1>1 DEF JobTable, JobState, WithState
<1>3. \A k \in Jid : job_exists(u, k) <=> job_exists(t, k)
  BY <1>2 DEF job_exists
<1>4. \A k \in Jid : u[k].pid = t[k].pid
  BY <1>2
<1>. QED
  BY <1>2, <1>3, <1>4, MaxjidPlus1Same

(* Deleting a job empties its slot; given 0 it does nothing.               *)
LEMMA DeleteJobTable ==
  ASSUME NEW t \in JobTable, NEW j \in Jid \cup {NoJid}
  PROVE  LET u == delete_job(t, j) IN
         /\ u \in JobTable
         /\ ~job_exists(u, j)
         /\ \A k \in Jid \ {j} : u[k] = t[k]
         /\ \A k \in Jid : job_exists(u, k) => u[k] = t[k] /\ job_exists(t, k)
         /\ \A k \in Jid : u[k].state = "FG" => t[k].state = "FG"
<1>1. CASE job_exists(t, j)
  BY <1>1 DEF delete_job, job_exists, clearjob, JobTable, JobState
<1>2. CASE ~job_exists(t, j)
  BY <1>2 DEF delete_job, job_exists
<1>. QED
  BY <1>1, <1>2

(* nextjid follows maxjid through a deletion.                              *)
LEMMA NextjidAfterDeleteFresh ==
  ASSUME NEW t \in JobTable, NEW j \in Jid \cup {NoJid}
  PROVE  NextjidAfterDelete(t, j, maxjidPlus1(t)) = maxjidPlus1(delete_job(t, j))
BY DEF NextjidAfterDelete, delete_job

(***************************************************************************)
(* The children.                                                           *)
(***************************************************************************)

(* A signal neither creates nor reaps a child, and a change of its state   *)
(* raises SIGCHLD.                                                         *)
LEMMA AfterChild ==
  ASSUME NEW c \in Child, NEW sig
  PROVE  /\ After(c, sig) \in Child
         /\ After(c, sig).st = "free" <=> c.st = "free"
         /\ After(c, sig).rep => c.rep
         /\ After(c, sig).st = c.st => After(c, sig).rep = c.rep
         /\ After(c, sig).st = "zombie" /\ c.st # "zombie" =>
              Raised(c, After(c, sig)) = {"CHLD"}
         /\ After(c, sig).st = "stopped" /\ c.st # "stopped" =>
              Raised(c, After(c, sig)) = {"CHLD"} /\ ~After(c, sig).rep
         /\ sig = "CONT" => After(c, sig).st # "stopped"
         /\ Raised(c, After(c, sig)) \subseteq {"CHLD"}
<1>1. CASE sig = "INT" /\ c.st = "run"
  BY <1>1 DEF After, ChildIn, Child, Raised
<1>2. CASE sig = "INT" /\ c.st = "stopped"
  BY <1>2 DEF After, ChildIn, Child, Raised
<1>3. CASE sig = "TSTP" /\ c.st = "run"
  BY <1>3 DEF After, ChildIn, Child, Raised
<1>4. CASE sig = "CONT" /\ c.st = "stopped"
  BY <1>4 DEF After, ChildIn, Child, Raised
<1>5. CASE /\ ~(sig = "INT" /\ c.st = "run")
           /\ ~(sig = "INT" /\ c.st = "stopped")
           /\ ~(sig = "TSTP" /\ c.st = "run")
           /\ ~(sig = "CONT" /\ c.st = "stopped")
  <2>1. After(c, sig) = c
    BY <1>5 DEF After
  <2>. QED
    BY <1>5, <2>1 DEF Raised
<1>. QED
  BY <1>1, <1>2, <1>3, <1>4, <1>5

(***************************************************************************)
(* The inductive invariant.  AtMostOneFG, ListedIsChild and NextjidFresh   *)
(* are not inductive alone: they lean on what eval knows at each point.    *)
(***************************************************************************)
NoFG == \A j \in Jid : job[j].state # "FG"

EvalInv ==
  (* Where the signals are blocked, and in sigsuspend until a handler      *)
  (* begins, no handler is at work.                                        *)
  /\ (Blocked(pc) \/ pc = "suspend") => hdl = "none"
  (* The child that was forked waits, unreported and unlisted, for add_job. *)
  /\ pc = "add" =>
       /\ cur.pid \in Pid
       /\ proc[cur.pid].st # "free" /\ ~proc[cur.pid].rep
       /\ \A j \in Jid : job_exists(job, j) => job[j].pid # cur.pid
  /\ pc \in {"cont", "print"} => cur.jid \in Jid /\ cur.pid \in Pid
  (* Outside the wait there is no foreground job.                          *)
  /\ (pc \in {"prompt", "add", "print", "cleanup"} \/ (pc = "cont" /\ cur.bg))
       => NoFG
  (* When it goes to sleep there is one.                                   *)
  /\ pc \in {"armed", "suspend"} => ~NoFG

IInv == TypeOK /\ AtMostOneFG /\ ListedIsChild /\ NextjidFresh /\ EvalInv

LEMMA InitInv == Init => IInv
<1>. SUFFICES ASSUME Init PROVE IInv
  OBVIOUS
<1>1. TypeOK
  BY MaxjidPlus1Empty, JobListAssumption
  DEF Init, TypeOK, PC, NoCur, NoJid, Signal, Child, ChildIn
<1>2. \A j \in Jid : ~job_exists(job, j) /\ job[j].state # "FG"
  BY DEF Init, init_job_list, clearjob, job_exists
<1>3. NextjidFresh
  BY MaxjidPlus1Empty DEF Init, NextjidFresh
<1>4. AtMostOneFG /\ ListedIsChild
  BY <1>2 DEF AtMostOneFG, ListedIsChild
<1>5. EvalInv
  BY <1>2 DEF Init, EvalInv, NoFG, Blocked
<1>. QED
  BY <1>1, <1>3, <1>4, <1>5 DEF IInv

(* Steps that leave the job list alone and free no child keep what the     *)
(* invariant says of the list.                                             *)
LEMMA SameList ==
  ASSUME IInv, UNCHANGED <<job, nextjid>>,
         \A p \in Pid : proc[p].st # "free" => proc'[p].st # "free"
  PROVE  AtMostOneFG' /\ ListedIsChild' /\ NextjidFresh' /\ (NoFG' <=> NoFG)
<1>1. AtMostOneFG' /\ NextjidFresh' /\ (NoFG' <=> NoFG)
  BY DEF IInv, AtMostOneFG, NextjidFresh, NoFG
<1>2. ListedIsChild'
  BY DEF IInv, ListedIsChild, job_exists
<1>. QED
  BY <1>1, <1>2

(* Steps of the kernel, the children and the terminal: pc and the locals   *)
(* stay, and no child is created, reaped or reported.                      *)
LEMMA KernelStep ==
  ASSUME IInv, UNCHANGED <<job, nextjid, pc, cur, hdl>>,
         handlers' \subseteq Signal, pend' \subseteq Signal,
         proc' \in [Pid -> Child],
         \A p \in Pid : /\ proc[p].st # "free" => proc'[p].st # "free"
                        /\ proc'[p].rep => proc[p].rep
  PROVE  IInv'
<1>1. TypeOK'
  BY DEF IInv, TypeOK
<1>2. AtMostOneFG' /\ ListedIsChild' /\ NextjidFresh' /\ (NoFG' <=> NoFG)
  BY SameList
<1>3. EvalInv'
  BY <1>2 DEF IInv, EvalInv, Blocked, job_exists
<1>. QED
  BY <1>1, <1>2, <1>3 DEF IInv

(* The steps of eval.                                                      *)
LEMMA MainInv == IInv /\ (Main \/ EvalQuit) => IInv'
<1>. SUFFICES ASSUME IInv, Main \/ EvalQuit PROVE IInv'
  OBVIOUS
<1>1. CASE EvalAddJob
  <2>1. /\ pc = "add" /\ hdl = "none" /\ hdl' = "none" /\ cur' = NoCur
        /\ pc' \in {"prompt", "test"} /\ (cur.bg => pc' = "prompt")
        /\ (~cur.bg => pc' = "test")
        /\ UNCHANGED <<pend, handlers, proc>>
        /\ cur.bg \in BOOLEAN
    BY <1>1 DEF EvalAddJob, MainReady, IInv, TypeOK
  <2>2. CASE nextjid > MAXJOBS
    <3>1. UNCHANGED <<job, nextjid>>
      BY <1>1, <2>2 DEF EvalAddJob
    <3>2. AtMostOneFG' /\ ListedIsChild' /\ NextjidFresh' /\ (NoFG' <=> NoFG)
      BY <2>1, <3>1, SameList
    <3>3. TypeOK'
      BY <2>1, <3>1 DEF IInv, TypeOK, NoCur, PC
    <3>4. EvalInv'
      BY <2>1, <3>1, <3>2 DEF IInv, EvalInv, Blocked
    <3>. QED
      BY <3>2, <3>3, <3>4 DEF IInv
  <2>3. CASE ~(nextjid > MAXJOBS)
    <3>. DEFINE n == maxjidPlus1(job)
                s == IF cur.bg THEN "BG" ELSE "FG"
    <3>1. nextjid = n /\ n <= MAXJOBS /\ job \in JobTable /\ cur.pid \in Pid
      BY <2>1, <2>3, JobListAssumption DEF IInv, NextjidFresh, TypeOK, EvalInv
    <3>2. job' = WithJob(job, n, cur.pid, s) /\ nextjid' = n + 1
      BY <1>1, <2>3, <3>1 DEF EvalAddJob
    <3>3. /\ job' \in JobTable
          /\ n \in Jid
          /\ job'[n] = [pid |-> cur.pid, state |-> s]
          /\ \A j \in Jid \ {n} : job'[j] = job[j]
          /\ maxjidPlus1(job') = n + 1
      BY <3>1, <3>2, MaxjidPlus1Added
    <3>4. TypeOK'
      BY <2>1, <3>2, <3>3, JobListAssumption DEF IInv, TypeOK, NoCur, PC, Jid
    <3>5. NextjidFresh'
      BY <3>2, <3>3 DEF NextjidFresh
    <3>6. NoFG /\ \A j \in Jid : job_exists(job, j) => job[j].pid # cur.pid
      BY <2>1 DEF IInv, EvalInv
    <3>7. AtMostOneFG'
      BY <3>3, <3>6 DEF AtMostOneFG, NoFG
    <3>8. ListedIsChild'
      BY <2>1, <3>1, <3>3, <3>6 DEF IInv, ListedIsChild, EvalInv, job_exists
    <3>9. EvalInv'
      BY <2>1, <3>3, <3>6 DEF EvalInv, Blocked, NoFG
    <3>. QED
      BY <3>4, <3>5, <3>7, <3>8, <3>9 DEF IInv
  <2>. QED
    BY <2>2, <2>3
<1>2. CASE EvalCont
  <2>1. cur.pid \in Pid /\ proc[cur.pid] \in Child /\ pc = "cont"
    BY <1>2 DEF EvalCont, IInv, EvalInv, TypeOK
  <2>. DEFINE d == After(proc[cur.pid], "CONT")
  <2>6. /\ proc' = [proc EXCEPT ![cur.pid] = d]
        /\ pend' = pend \cup Raised(proc[cur.pid], d)
        /\ pend \subseteq Signal /\ proc \in [Pid -> Child]
    BY <1>2 DEF EvalCont, Kill, IInv, TypeOK
  <2>7. /\ d \in Child
        /\ d.st = "free" <=> proc[cur.pid].st = "free"
        /\ Raised(proc[cur.pid], d) \subseteq {"CHLD"}
    BY <2>1, AfterChild
  <2>2. /\ proc' \in [Pid -> Child]
        /\ pend' \subseteq Signal
        /\ \A p \in Pid : proc[p].st # "free" => proc'[p].st # "free"
    <3>. HIDE DEF d
    <3>. QED
      BY <2>1, <2>6, <2>7 DEF Signal
  <2>3. AtMostOneFG' /\ ListedIsChild' /\ NextjidFresh' /\ (NoFG' <=> NoFG)
    BY <1>2, <2>2, SameList DEF EvalCont
  <2>4. TypeOK'
    BY <1>2, <2>2 DEF EvalCont, IInv, TypeOK, NoCur, PC
  <2>5. EvalInv'
    BY <1>2, <2>1, <2>3 DEF EvalCont, IInv, EvalInv, Blocked
  <2>. QED
    BY <2>3, <2>4, <2>5 DEF IInv
<1>3. CASE EvalBgPrint
  <2>1. AtMostOneFG' /\ ListedIsChild' /\ NextjidFresh' /\ (NoFG' <=> NoFG)
    BY <1>3, SameList DEF EvalBgPrint
  <2>2. TypeOK'
    BY <1>3 DEF EvalBgPrint, IInv, TypeOK, NoCur, PC, Ended
  <2>3. EvalInv'
    BY <1>3, <2>1 DEF EvalBgPrint, IInv, EvalInv, Blocked
  <2>. QED
    BY <2>1, <2>2, <2>3 DEF IInv
<1>4. CASE WaitBlock \/ WaitTest \/ WaitSuspend \/ EvalQuit
  <2>1. AtMostOneFG' /\ ListedIsChild' /\ NextjidFresh' /\ (NoFG' <=> NoFG)
    BY <1>4, SameList DEF WaitBlock, WaitTest, WaitSuspend, EvalQuit
  <2>2. TypeOK'
    BY <1>4 DEF WaitBlock, WaitTest, WaitSuspend, EvalQuit, IInv, TypeOK, PC
  <2>3. fg_job(job) = NoJid <=> NoFG
    BY FgJobFound DEF IInv, TypeOK, NoFG
  <2>4. EvalInv'
    BY <1>4, <2>1, <2>3
    DEF WaitBlock, WaitTest, WaitSuspend, EvalQuit, MainReady, IInv, EvalInv, Blocked
  <2>. QED
    BY <2>1, <2>2, <2>4 DEF IInv
<1>5. CASE Cleanup
  <2>1. CASE job' = init_job_list /\ nextjid' = 1 /\ pc' = "exited" /\ UNCHANGED handlers
    <3>1. \A j \in Jid : ~job_exists(job', j) /\ job'[j].state # "FG"
      BY <2>1 DEF init_job_list, clearjob, job_exists
    <3>2. TypeOK' /\ NextjidFresh'
      BY <1>5, <2>1, MaxjidPlus1Empty, JobListAssumption
      DEF Cleanup, IInv, TypeOK, NextjidFresh, PC, Ended
    <3>3. AtMostOneFG' /\ ListedIsChild'
      BY <3>1 DEF AtMostOneFG, ListedIsChild
    <3>4. EvalInv'
      BY <2>1, <3>1 DEF EvalInv, Blocked, NoFG
    <3>. QED
      BY <3>2, <3>3, <3>4 DEF IInv
  <2>2. CASE UNCHANGED <<job, nextjid, pc>> /\ handlers' \subseteq handlers
    BY <1>5, <2>2, KernelStep DEF Cleanup, IInv, TypeOK
  <2>. QED
    BY <1>5, <2>1, <2>2 DEF Cleanup
<1>. QED
  BY <1>1, <1>2, <1>3, <1>4, <1>5 DEF Main

(* The steps of eval that a command line chooses.                          *)
LEMMA CommandInv ==
  ASSUME IInv,
         \/ \E p \in Pid, bg \in BOOLEAN : EvalFork(p, bg)
         \/ \E j \in Jid, bg \in BOOLEAN : EvalBgFg(j, bg)
  PROVE  IInv'
<1>1. ASSUME NEW p \in Pid, NEW bg \in BOOLEAN, EvalFork(p, bg)
      PROVE  IInv'
  <2>1. /\ UNCHANGED <<job, nextjid, hdl, pend, handlers>>
        /\ hdl = "none" /\ pc = "prompt" /\ pc' = "add"
        /\ cur' = [jid |-> NoJid, pid |-> p, bg |-> bg]
        /\ proc[p].st = "free"
        /\ proc' = [proc EXCEPT ![p] = ChildIn("forked")]
    BY <1>1 DEF EvalFork, MainReady
  <2>2. TypeOK'
    BY <2>1 DEF IInv, TypeOK, PC, Child, ChildIn
  <2>3. proc'[p].st = "forked" /\ ~proc'[p].rep
    BY <2>1 DEF IInv, TypeOK, ChildIn
  <2>4. AtMostOneFG' /\ ListedIsChild' /\ NextjidFresh' /\ (NoFG' <=> NoFG)
    BY <2>1, <2>3, SameList DEF IInv, TypeOK
  <2>5. \A j \in Jid : job_exists(job, j) => job[j].pid # p
    BY <2>1 DEF IInv, ListedIsChild
  <2>6. EvalInv'
    BY <2>1, <2>3, <2>4, <2>5 DEF IInv, EvalInv, job_exists
  <2>. QED
    BY <2>2, <2>4, <2>6 DEF IInv
<1>2. ASSUME NEW j \in Jid, NEW bg \in BOOLEAN, EvalBgFg(j, bg)
      PROVE  IInv'
  <2>. DEFINE s == IF bg THEN "BG" ELSE "FG"
  <2>1. /\ UNCHANGED <<nextjid, hdl, pend, handlers, proc>>
        /\ hdl = "none" /\ pc = "prompt" /\ pc' = "cont"
        /\ cur' = [jid |-> j, pid |-> job[j].pid, bg |-> bg]
        /\ job_exists(job, j) /\ job \in JobTable
        /\ job' = WithState(job, j, s)
    BY <1>2 DEF EvalBgFg, MainReady, IInv, TypeOK
  <2>2. /\ job' \in JobTable
        /\ job'[j].pid = job[j].pid /\ job'[j].state = s
        /\ \A k \in Jid \ {j} : job'[k] = job[k]
        /\ \A k \in Jid : job_exists(job', k) <=> job_exists(job, k)
        /\ \A k \in Jid : job'[k].pid = job[k].pid
        /\ maxjidPlus1(job') = maxjidPlus1(job)
    BY <2>1, WithStateTable
  <2>3. NoFG
    BY <2>1 DEF IInv, EvalInv
  <2>4. job[j].pid \in Pid
    BY <2>1 DEF IInv, ListedIsChild
  <2>5. TypeOK'
    BY <2>1, <2>2, <2>4 DEF IInv, TypeOK, PC
  <2>6. AtMostOneFG'
    BY <2>2, <2>3 DEF AtMostOneFG, NoFG
  <2>7. ListedIsChild'
    BY <2>1, <2>2 DEF IInv, ListedIsChild
  <2>8. NextjidFresh'
    BY <2>1, <2>2 DEF IInv, NextjidFresh
  <2>9. EvalInv'
    BY <2>1, <2>2, <2>3, <2>4 DEF EvalInv, Blocked, NoFG
  <2>. QED
    BY <2>5, <2>6, <2>7, <2>8, <2>9 DEF IInv
<1>. QED
  BY <1>1, <1>2

(* The handlers.                                                           *)
LEMMA HandlerInv == IInv /\ Handler => IInv'
<1>. SUFFICES ASSUME IInv, Handler PROVE IInv'
  OBVIOUS
<1>1. CASE SigchldEnter
  <2>1. /\ UNCHANGED <<job, nextjid, cur, handlers, proc>>
        /\ pend' \subseteq Signal /\ hdl' = "chld"
        /\ pc' = AfterHandler(pc) /\ ~Blocked(pc)
    BY <1>1 DEF SigchldEnter, Deliverable, IInv, TypeOK
  <2>. QED
    BY <2>1, SameList DEF IInv, TypeOK, EvalInv, AfterHandler, Blocked, PC
<1>2. ASSUME NEW p \in Pid, SigchldReap(p)
      PROVE  IInv'
  <2>. DEFINE j == job_from_pid(job, p)
  <2>1. /\ UNCHANGED <<pc, cur, hdl, pend, handlers>>
        /\ hdl = "chld"
        /\ proc' = [proc EXCEPT ![p] = ChildIn("free")]
        /\ job' = delete_job(job, j)
        /\ nextjid' = NextjidAfterDelete(job, j, nextjid)
        /\ job \in JobTable
    BY <1>2 DEF SigchldReap, IInv, TypeOK
  <2>2. /\ j \in Jid \cup {NoJid}
        /\ j # NoJid => j \in Jid /\ job_exists(job, j) /\ job[j].pid = p
        /\ j = NoJid => \A k \in Jid : job_exists(job, k) => job[k].pid # p
    BY <2>1, JobFromPidFound
  <2>3. /\ job' \in JobTable
        /\ ~job_exists(job', j)
        /\ \A k \in Jid : job_exists(job', k) => job'[k] = job[k] /\ job_exists(job, k)
        /\ \A k \in Jid : job'[k].state = "FG" => job[k].state = "FG"
    BY <2>1, <2>2, DeleteJobTable
  <2>4. NextjidFresh'
    BY <2>1, <2>2, NextjidAfterDeleteFresh DEF IInv, NextjidFresh
  <2>5. TypeOK'
    <3>1. nextjid' \in 1..(MAXJOBS + 1)
      BY <2>3, <2>4, MaxjidPlus1Least DEF NextjidFresh
    <3>. QED
      BY <2>1, <2>3, <3>1 DEF IInv, TypeOK, Child, ChildIn
  <2>6. AtMostOneFG' /\ (NoFG => NoFG')
    BY <2>3 DEF IInv, AtMostOneFG, NoFG
  <2>7. ListedIsChild'
    <3>1. \A k \in Jid : job_exists(job', k) => job'[k].pid # p
      BY <2>2, <2>3 DEF IInv, ListedIsChild
    <3>. QED
      BY <2>1, <2>3, <3>1 DEF IInv, ListedIsChild, TypeOK
  <2>8. EvalInv'
    BY <2>1, <2>6 DEF IInv, EvalInv, Blocked
  <2>. QED
    BY <2>4, <2>5, <2>6, <2>7, <2>8 DEF IInv
<1>3. ASSUME NEW p \in Pid, SigchldStop(p)
      PROVE  IInv'
  <2>. DEFINE j == job_from_pid(job, p)
  <2>1. /\ UNCHANGED <<nextjid, cur, pend, handlers>>
        /\ hdl = "chld"
        /\ proc' = [proc EXCEPT ![p].rep = TRUE]
        /\ job \in JobTable /\ proc \in [Pid -> Child]
    BY <1>3 DEF SigchldStop, IInv, TypeOK
  <2>2. /\ proc' \in [Pid -> Child]
        /\ \A q \in Pid : proc'[q].st = proc[q].st
    BY <2>1 DEF Child
  <2>3. ~Blocked(pc) /\ pc # "suspend"
    BY <2>1 DEF IInv, EvalInv
  <2>4. CASE job_exists(job, j)
    <3>1. j \in Jid /\ job' = WithState(job, j, "ST") /\ UNCHANGED <<pc, hdl>>
      BY <1>3, <2>4 DEF SigchldStop, job_exists
    <3>2. /\ job' \in JobTable
          /\ job'[j].state = "ST"
          /\ \A k \in Jid \ {j} : job'[k] = job[k]
          /\ \A k \in Jid : job_exists(job', k) <=> job_exists(job, k)
          /\ \A k \in Jid : job'[k].pid = job[k].pid
          /\ maxjidPlus1(job') = maxjidPlus1(job)
      BY <2>1, <2>4, <3>1, WithStateTable
    <3>3. \A k \in Jid : job'[k].state = "FG" => job[k].state = "FG"
      BY <3>2
    <3>4. TypeOK'
      BY <2>1, <2>2, <3>1, <3>2 DEF IInv, TypeOK
    <3>5. AtMostOneFG' /\ (NoFG => NoFG')
      BY <3>3 DEF IInv, AtMostOneFG, NoFG
    <3>6. ListedIsChild' /\ NextjidFresh'
      BY <2>1, <2>2, <3>2 DEF IInv, ListedIsChild, NextjidFresh
    <3>7. EvalInv'
      BY <2>1, <2>3, <3>1, <3>5 DEF IInv, EvalInv, Blocked
    <3>. QED
      BY <3>4, <3>5, <3>6, <3>7 DEF IInv
  <2>5. CASE ~job_exists(job, j)
    <3>1. pc' = "abort_chld" /\ hdl' = "none" /\ UNCHANGED job
      BY <1>3, <2>5 DEF SigchldStop
    <3>2. AtMostOneFG' /\ ListedIsChild' /\ NextjidFresh' /\ (NoFG' <=> NoFG)
      BY <2>1, <2>2, <3>1, SameList
    <3>3. TypeOK'
      BY <2>1, <2>2, <3>1 DEF IInv, TypeOK, PC, Ended
    <3>4. EvalInv'
      BY <3>1 DEF EvalInv, Blocked
    <3>. QED
      BY <3>2, <3>3, <3>4 DEF IInv
  <2>. QED
    BY <2>4, <2>5
<1>4. CASE SigchldReturn
  <2>1. AtMostOneFG' /\ ListedIsChild' /\ NextjidFresh' /\ (NoFG' <=> NoFG)
    BY <1>4, SameList DEF SigchldReturn
  <2>. QED
    BY <1>4, <2>1 DEF SigchldReturn, IInv, TypeOK, EvalInv, Blocked
<1>5. ASSUME NEW sig \in {"INT", "TSTP"}, ForwardToFg(sig)
      PROVE  IInv'
  <2>. DEFINE j == fg_job(job)
              p == job[j].pid
              d == After(proc[p], sig)
  <2>1. /\ UNCHANGED <<job, nextjid, cur, hdl, handlers>>
        /\ pc' = AfterHandler(pc)
        /\ ~Blocked(pc) /\ hdl # "chld"
        /\ job \in JobTable /\ proc \in [Pid -> Child] /\ pend \subseteq Signal
    BY <1>5 DEF ForwardToFg, Deliverable, IInv, TypeOK
  <2>2. /\ proc' \in [Pid -> Child] /\ pend' \subseteq Signal
        /\ \A q \in Pid : proc[q].st # "free" => proc'[q].st # "free"
    <3>1. CASE IsJob(j)
      <4>1. j \in Jid /\ job[j].state = "FG"
        BY <2>1, <3>1, FgJobFound DEF IsJob, NoJid
      <4>2. p \in Pid
        BY <4>1 DEF IInv, ListedIsChild, job_exists
      <4>3. /\ d \in Child
            /\ d.st = "free" <=> proc[p].st = "free"
            /\ Raised(proc[p], d) \subseteq {"CHLD"}
        BY <2>1, <4>2, AfterChild
      <4>4. /\ proc' = [proc EXCEPT ![p] = d]
            /\ pend' = (pend \ {sig}) \cup Raised(proc[p], d)
        BY <1>5, <3>1 DEF ForwardToFg
      <4>. HIDE DEF d
      <4>. QED
        BY <2>1, <4>2, <4>3, <4>4 DEF Signal
    <3>2. CASE ~IsJob(j)
      BY <1>5, <2>1, <3>2 DEF ForwardToFg
    <3>. QED
      BY <3>1, <3>2
  <2>3. AtMostOneFG' /\ ListedIsChild' /\ NextjidFresh' /\ (NoFG' <=> NoFG)
    BY <2>1, <2>2, SameList
  <2>4. TypeOK'
    BY <2>1, <2>2 DEF IInv, TypeOK, AfterHandler, PC
  <2>5. EvalInv'
    BY <2>1, <2>3 DEF IInv, EvalInv, AfterHandler, Blocked
  <2>. QED
    BY <2>3, <2>4, <2>5 DEF IInv
<1>6. ASSUME NEW sig \in Signal, DefaultAction(sig)
      PROVE  IInv'
  <2>1. AtMostOneFG' /\ ListedIsChild' /\ NextjidFresh' /\ (NoFG' <=> NoFG)
    BY <1>6, SameList DEF DefaultAction
  <2>. QED
    BY <1>6, <2>1 DEF DefaultAction, IInv, TypeOK, EvalInv, Blocked, PC, Ended
<1>. QED
  BY <1>1, <1>2, <1>3, <1>4, <1>5, <1>6 DEF Handler, sigint_handler, sigtstp_handler

(* The children and the terminal.                                          *)
LEMMA WorldInv ==
  ASSUME IInv,
         \/ \E p \in Pid :
              ChildSetpgid(p) \/ ChildExec(p) \/ ChildExit(p) \/ ChildStop(p)
         \/ \E sig \in {"INT", "TSTP"} : Key(sig)
  PROVE  IInv'
<1>1. /\ UNCHANGED <<job, nextjid, pc, cur, hdl, handlers>>
      /\ pend' \subseteq Signal
  BY DEF IInv, TypeOK, Signal, shellVars, ChildSetpgid, ChildExec, ChildExit,
         ChildStop, Key
<1>2. \/ UNCHANGED proc
      \/ \E p \in Pid, s \in {"grouped", "run", "stopped", "zombie"} :
           proc' = [proc EXCEPT ![p] = ChildIn(s)]
  BY DEF ChildSetpgid, ChildExec, ChildExit, ChildStop, Key
<1>3. /\ proc' \in [Pid -> Child]
      /\ \A p \in Pid : proc[p].st # "free" => proc'[p].st # "free"
      /\ \A p \in Pid : proc'[p].rep => proc[p].rep
  <2>1. CASE UNCHANGED proc
    BY <2>1 DEF IInv, TypeOK
  <2>2. ASSUME NEW p \in Pid, NEW s \in {"grouped", "run", "stopped", "zombie"},
               proc' = [proc EXCEPT ![p] = ChildIn(s)]
        PROVE  <1>3!1 /\ <1>3!2 /\ <1>3!3
    BY <2>2 DEF IInv, TypeOK, Child, ChildIn
  <2>. QED
    BY <1>2, <2>1, <2>2
<1>. QED
  BY <1>1, <1>3, KernelStep DEF IInv, TypeOK

LEMMA NextInv == IInv /\ [Next]_vars => IInv'
<1>. SUFFICES ASSUME IInv, [Next]_vars PROVE IInv'
  OBVIOUS
<1>1. CASE UNCHANGED vars
  BY <1>1, KernelStep DEF vars, IInv, TypeOK
<1>2. CASE Next /\ ~UNCHANGED vars
  BY <1>2, MainInv, CommandInv, HandlerInv, WorldInv DEF Next, Over
<1>. QED
  BY <1>1, <1>2

(* The invariant holds in every reachable state of the shell.              *)
THEOREM Invariance == Spec => []IInv
<1>. QED
  BY InitInv, NextInv, PTL DEF Spec

(* Type correctness.                                                       *)
THEOREM TypeCorrect == Spec => []TypeOK
<1>1. IInv => TypeOK
  BY DEF IInv
<1>. QED
  BY <1>1, Invariance, PTL

(* Never two foreground jobs: the precondition of add_job and of           *)
(* job_set_state holds whenever eval calls them.                           *)
THEOREM OneForeground == Spec => []AtMostOneFG
<1>1. IInv => AtMostOneFG
  BY DEF IInv
<1>. QED
  BY <1>1, Invariance, PTL

(* The list names unreaped children, each once.                            *)
THEOREM ListedJobsAreChildren == Spec => []ListedIsChild
<1>1. IInv => ListedIsChild
  BY DEF IInv
<1>. QED
  BY <1>1, Invariance, PTL

(* The slot add_job fills is unused.                                       *)
THEOREM NextSlotUnused == Spec => []NextjidFresh
<1>1. IInv => NextjidFresh
  BY DEF IInv
<1>. QED
  BY <1>1, Invariance, PTL

(* The shell never sleeps without a foreground job to wake it.             *)
THEOREM NeverSleepsAlone == Spec => []NoLostWakeup
<1>1. IInv => NoLostWakeup
  BY FgJobFound DEF IInv, TypeOK, EvalInv, NoFG, NoLostWakeup
<1>. QED
  BY <1>1, Invariance, PTL

(***************************************************************************)
(* The list and the kernel.  What waitpid can report is on its way to the  *)
(* handler; a stop that has been reported is in the list, unless bg or fg  *)
(* is about to undo it.                                                    *)
(***************************************************************************)
OnItsWay == "CHLD" \in pend \/ hdl = "chld"

ReportsPending == Reaping => \A p \in Pid : Reportable(p) => OnItsWay

ReportedIsListed ==
  Reaping => \A j \in Jid :
    job_exists(job, j) /\ proc[job[j].pid].st = "stopped" /\ proc[job[j].pid].rep =>
      job[j].state = "ST" \/ (pc = "cont" /\ cur.pid = job[j].pid)

KernelInv == ReportsPending /\ ReportedIsListed

(* A change of one child by a signal or by itself that raises SIGCHLD when *)
(* there is something new to report.                                       *)
LEMMA ChildChange ==
  ASSUME IInv, KernelInv, NEW p \in Pid, NEW d \in Child,
         proc' = [proc EXCEPT ![p] = d],
         UNCHANGED <<job, hdl, handlers>>,
         (Alive' => Alive), "CHLD" \in pend => "CHLD" \in pend',
         d.st = "zombie" /\ proc[p].st # "zombie" => "CHLD" \in pend',
         d.st = "stopped" =>
               (proc[p].st = "stopped" /\ d.rep = proc[p].rep) \/ ("CHLD" \in pend' /\ ~d.rep),
         \/ pc' = pc /\ cur' = cur
         \/ pc = "cont" /\ p = cur.pid /\ d.st # "stopped"
         \/ pc # "cont"
  PROVE  KernelInv'
<1>1. proc \in [Pid -> Child]
  BY DEF IInv, TypeOK
<1>2. ReportsPending'
  BY <1>1 DEF KernelInv, ReportsPending, Reportable, OnItsWay, Reaping
<1>3. ReportedIsListed'
  <2>. SUFFICES ASSUME Reaping, NEW j \in Jid, job_exists(job, j),
                       proc'[job[j].pid].st = "stopped",
                       proc'[job[j].pid].rep
                PROVE  job[j].state = "ST" \/ (pc' = "cont" /\ cur'.pid = job[j].pid)
    BY DEF ReportedIsListed, job_exists, Reaping
  <2>1. job[j].pid \in Pid
    BY DEF IInv, ListedIsChild
  <2>2. proc[job[j].pid].st = "stopped" /\ proc[job[j].pid].rep
    BY <1>1, <2>1
  <2>3. job[j].state = "ST" \/ (pc = "cont" /\ cur.pid = job[j].pid)
    BY <2>2 DEF KernelInv, ReportedIsListed
  <2>. QED
    BY <1>1, <2>1, <2>3
<1>. QED
  BY <1>2, <1>3 DEF KernelInv

(* Steps that change neither the list nor a child.                         *)
LEMMA NoChildChange ==
  ASSUME KernelInv, UNCHANGED <<job, proc>>, (Reaping' => Reaping),
         (OnItsWay => OnItsWay'),
         pc # "cont" \/ UNCHANGED <<pc, cur>>
  PROVE  KernelInv'
<1>1. ReportsPending'
  BY DEF KernelInv, ReportsPending, Reportable
<1>2. ReportedIsListed'
  BY DEF KernelInv, ReportedIsListed, job_exists
<1>. QED
  BY <1>1, <1>2 DEF KernelInv

LEMMA KernelMain == IInv /\ KernelInv /\ (Main \/ EvalQuit) => KernelInv'
<1>. SUFFICES ASSUME IInv, KernelInv, Main \/ EvalQuit PROVE KernelInv'
  OBVIOUS
<1>1. CASE EvalAddJob
  <2>1. /\ pc = "add" /\ UNCHANGED <<hdl, pend, handlers, proc>>
        /\ pc' \in {"prompt", "test"}
    BY <1>1 DEF EvalAddJob
  <2>2. Reaping' => Reaping
    BY <2>1 DEF Reaping, Alive, Ended
  <2>3. CASE UNCHANGED <<job, nextjid>>
    BY <2>1, <2>2, <2>3, NoChildChange DEF OnItsWay
  <2>4. CASE nextjid <= MAXJOBS /\ ~UNCHANGED <<job, nextjid>>
    <3>. DEFINE n == maxjidPlus1(job)
                s == IF cur.bg THEN "BG" ELSE "FG"
    <3>1. /\ nextjid = n /\ n <= MAXJOBS /\ job \in JobTable /\ cur.pid \in Pid
          /\ ~proc[cur.pid].rep
      BY <2>1, <2>4 DEF IInv, NextjidFresh, TypeOK, EvalInv
    <3>2. job' = WithJob(job, n, cur.pid, s)
      BY <1>1, <2>4, <3>1 DEF EvalAddJob
    <3>3. /\ job'[n] = [pid |-> cur.pid, state |-> s]
          /\ \A j \in Jid \ {n} : job'[j] = job[j]
      BY <3>1, <3>2, MaxjidPlus1Added
    <3>4. ReportsPending'
      BY <2>1, <2>2 DEF KernelInv, ReportsPending, Reportable, OnItsWay
    <3>5. ReportedIsListed'
      BY <2>1, <2>2, <3>1, <3>3 DEF KernelInv, ReportedIsListed, job_exists
    <3>. QED
      BY <3>4, <3>5 DEF KernelInv
  <2>. QED
    BY <1>1, <2>3, <2>4, JobListAssumption DEF EvalAddJob, IInv, TypeOK
<1>2. CASE EvalCont
  <2>. DEFINE d == After(proc[cur.pid], "CONT")
  <2>1. /\ pc = "cont" /\ cur.pid \in Pid /\ proc[cur.pid] \in Child
        /\ proc' = [proc EXCEPT ![cur.pid] = d]
        /\ pend' = pend \cup Raised(proc[cur.pid], d)
        /\ UNCHANGED <<job, hdl, handlers>> /\ Alive
    BY <1>2 DEF EvalCont, Kill, MainReady, IInv, TypeOK, EvalInv
  <2>2. /\ d \in Child /\ d.st # "stopped"
        /\ d.st = "zombie" /\ proc[cur.pid].st # "zombie" =>
              Raised(proc[cur.pid], d) = {"CHLD"}
    BY <2>1, AfterChild
  <2>. HIDE DEF d
  <2>. QED
    BY <2>1, <2>2, ChildChange
<1>3. CASE EvalBgPrint \/ WaitBlock \/ WaitTest \/ WaitSuspend \/ EvalQuit
  BY <1>3, NoChildChange
  DEF EvalBgPrint, WaitBlock, WaitTest, WaitSuspend, EvalQuit, Reaping, Alive,
      Ended, OnItsWay
<1>4. CASE Cleanup
  <2>1. CASE job' = init_job_list /\ pc' = "exited"
    <3>1. \A j \in Jid : ~job_exists(job', j)
      BY <2>1 DEF init_job_list, clearjob, job_exists
    <3>2. ~Reaping'
      BY <2>1 DEF Reaping, Alive, Ended
    <3>. QED
      BY <3>1, <3>2 DEF KernelInv, ReportsPending, ReportedIsListed
  <2>2. CASE UNCHANGED <<job, nextjid, pc>> /\ handlers' \subseteq handlers
    BY <1>4, <2>2, NoChildChange DEF Cleanup, Reaping, Alive, OnItsWay
  <2>. QED
    BY <1>4, <2>1, <2>2 DEF Cleanup
<1>. QED
  BY <1>1, <1>2, <1>3, <1>4 DEF Main

LEMMA KernelCommand ==
  ASSUME IInv, KernelInv,
         \/ \E p \in Pid, bg \in BOOLEAN : EvalFork(p, bg)
         \/ \E j \in Jid, bg \in BOOLEAN : EvalBgFg(j, bg)
  PROVE  KernelInv'
<1>1. ASSUME NEW p \in Pid, NEW bg \in BOOLEAN, EvalFork(p, bg)
      PROVE  KernelInv'
  <2>. DEFINE d == ChildIn("forked")
  <2>1. d \in Child /\ d.st = "forked"
    BY DEF ChildIn, Child
  <2>2. /\ proc' = [proc EXCEPT ![p] = d] /\ pc = "prompt"
        /\ UNCHANGED <<job, hdl, pend, handlers>> /\ Alive
    BY <1>1 DEF EvalFork, MainReady
  <2>. HIDE DEF d
  <2>. QED
    BY <2>1, <2>2, ChildChange
<1>2. ASSUME NEW j \in Jid, NEW bg \in BOOLEAN, EvalBgFg(j, bg)
      PROVE  KernelInv'
  <2>. DEFINE s == IF bg THEN "BG" ELSE "FG"
  <2>1. /\ UNCHANGED <<hdl, pend, handlers, proc>>
        /\ pc = "prompt" /\ pc' = "cont" /\ cur'.pid = job[j].pid
        /\ job_exists(job, j) /\ job \in JobTable
        /\ job' = WithState(job, j, s) /\ s \in {"BG", "FG"}
        /\ Alive
    BY <1>2 DEF EvalBgFg, MainReady, IInv, TypeOK
  <2>2. /\ job'[j].pid = job[j].pid
        /\ \A k \in Jid \ {j} : job'[k] = job[k]
    BY <2>1, WithStateTable
  <2>3. ReportsPending'
    BY <2>1 DEF KernelInv, ReportsPending, Reportable, OnItsWay, Reaping
  <2>4. ReportedIsListed'
    BY <2>1, <2>2 DEF KernelInv, ReportedIsListed, Reaping, job_exists
  <2>. QED
    BY <2>3, <2>4 DEF KernelInv
<1>. QED
  BY <1>1, <1>2

LEMMA KernelHandler == IInv /\ KernelInv /\ Handler => KernelInv'
<1>. SUFFICES ASSUME IInv, KernelInv, Handler PROVE KernelInv'
  OBVIOUS
<1>1. CASE SigchldEnter
  BY <1>1, NoChildChange
  DEF SigchldEnter, Reaping, Alive, AfterHandler, Ended, OnItsWay
<1>2. ASSUME NEW p \in Pid, SigchldReap(p)
      PROVE  KernelInv'
  <2>. DEFINE j == job_from_pid(job, p)
  <2>1. /\ UNCHANGED <<pc, cur, hdl, pend, handlers>>
        /\ proc' = [proc EXCEPT ![p] = ChildIn("free")]
        /\ job' = delete_job(job, j)
        /\ job \in JobTable /\ proc \in [Pid -> Child]
    BY <1>2 DEF SigchldReap, IInv, TypeOK
  <2>2. j \in Jid \cup {NoJid}
    BY <2>1, JobFromPidFound
  <2>3. \A k \in Jid : job_exists(job', k) => job'[k] = job[k] /\ job_exists(job, k)
    BY <2>1, <2>2, DeleteJobTable
  <2>4. /\ proc'[p].st = "free"
        /\ \A q \in Pid \ {p} : proc'[q] = proc[q]
    BY <2>1 DEF ChildIn
  <2>5. ReportsPending'
    BY <2>1, <2>4 DEF KernelInv, ReportsPending, Reportable, OnItsWay, Reaping, Alive
  <2>6. \A k \in Jid : job_exists(job, k) => job[k].pid \in Pid
    BY DEF IInv, ListedIsChild
  <2>7. ReportedIsListed'
    BY <2>1, <2>3, <2>4, <2>6 DEF KernelInv, ReportedIsListed, Reaping, Alive
  <2>. QED
    BY <2>5, <2>7 DEF KernelInv
<1>3. ASSUME NEW p \in Pid, SigchldStop(p)
      PROVE  KernelInv'
  <2>. DEFINE j == job_from_pid(job, p)
  <2>1. /\ UNCHANGED <<nextjid, cur, pend, handlers>>
        /\ hdl = "chld" /\ Alive
        /\ proc' = [proc EXCEPT ![p].rep = TRUE]
        /\ job \in JobTable /\ proc \in [Pid -> Child]
    BY <1>3 DEF SigchldStop, IInv, TypeOK
  <2>2. /\ \A q \in Pid \ {p} : proc'[q] = proc[q]
        /\ \A q \in Pid : proc'[q].st = proc[q].st
    BY <2>1 DEF Child
  <2>3. \A k \in Jid : job_exists(job, k) => job[k].pid \in Pid
    BY DEF IInv, ListedIsChild
  <2>4. CASE job_exists(job, j)
    <3>1. j \in Jid /\ job' = WithState(job, j, "ST") /\ UNCHANGED <<pc, hdl>>
      BY <1>3, <2>4 DEF SigchldStop, job_exists
    <3>2. /\ job[j].pid = p
          /\ \A k \in Jid : job_exists(job, k) /\ job[k].pid = p => k = j
      BY <2>1, <2>4, <3>1, JobFromPidFound, JobListAssumption
      DEF IInv, ListedIsChild, Jid, NoJid
    <3>3. /\ job'[j].pid = p /\ job'[j].state = "ST"
          /\ \A k \in Jid \ {j} : job'[k] = job[k]
      BY <2>1, <2>4, <3>1, <3>2, WithStateTable
    <3>4. ReportsPending'
      BY <2>1, <3>1 DEF ReportsPending, OnItsWay
    <3>5. ReportedIsListed'
      <4>. SUFFICES ASSUME Reaping, NEW k \in Jid, job_exists(job', k), k # j,
                           proc'[job'[k].pid].st = "stopped",
                           proc'[job'[k].pid].rep
                    PROVE  job'[k].state = "ST" \/ (pc' = "cont" /\ cur'.pid = job'[k].pid)
        BY <2>1, <3>1, <3>3 DEF ReportedIsListed, Reaping, Alive
      <4>1. job'[k] = job[k] /\ job_exists(job, k) /\ job[k].pid \in Pid \ {p}
        BY <2>3, <3>2, <3>3 DEF job_exists
      <4>. QED
        BY <2>1, <2>2, <3>1, <4>1 DEF KernelInv, ReportedIsListed
    <3>. QED
      BY <3>4, <3>5 DEF KernelInv
  <2>5. CASE ~job_exists(job, j)
    <3>1. pc' = "abort_chld" /\ hdl' = "none" /\ UNCHANGED job
      BY <1>3, <2>5 DEF SigchldStop
    <3>2. ~Reaping'
      BY <3>1 DEF Reaping, Alive, Ended
    <3>. QED
      BY <3>2 DEF KernelInv, ReportsPending, ReportedIsListed
  <2>. QED
    BY <2>4, <2>5
<1>4. CASE SigchldReturn
  <2>1. ReportsPending'
    BY <1>4 DEF SigchldReturn, ReportsPending, Reportable
  <2>2. ReportedIsListed'
    BY <1>4 DEF SigchldReturn, KernelInv, ReportedIsListed, Reaping, Alive, job_exists
  <2>. QED
    BY <2>1, <2>2 DEF KernelInv
<1>5. ASSUME NEW sig \in {"INT", "TSTP"}, ForwardToFg(sig)
      PROVE  KernelInv'
  <2>. DEFINE j == fg_job(job)
              p == job[j].pid
              d == After(proc[p], sig)
  <2>1. /\ UNCHANGED <<job, nextjid, cur, hdl, handlers>>
        /\ pc' = AfterHandler(pc) /\ Alive
        /\ job \in JobTable /\ proc \in [Pid -> Child]
    BY <1>5 DEF ForwardToFg, IInv, TypeOK
  <2>2. (pc' = pc /\ cur' = cur) \/ pc # "cont"
    BY <2>1 DEF AfterHandler
  <2>3. CASE IsJob(j)
    <3>1. j \in Jid /\ job[j].state = "FG"
      BY <2>1, <2>3, FgJobFound DEF IsJob, NoJid
    <3>2. p \in Pid
      BY <3>1 DEF IInv, ListedIsChild, job_exists
    <3>3. /\ proc' = [proc EXCEPT ![p] = d]
          /\ pend' = (pend \ {sig}) \cup Raised(proc[p], d)
      BY <1>5, <2>3 DEF ForwardToFg
    <3>4. /\ d \in Child
          /\ d.st = "zombie" /\ proc[p].st # "zombie" => Raised(proc[p], d) = {"CHLD"}
          /\ d.st = "stopped" /\ proc[p].st # "stopped" =>
               Raised(proc[p], d) = {"CHLD"} /\ ~d.rep
          /\ d.st = proc[p].st => d.rep = proc[p].rep
      BY <2>1, <3>2, AfterChild
    <3>5. /\ "CHLD" \in pend => "CHLD" \in pend'
          /\ d.st = "zombie" /\ proc[p].st # "zombie" => "CHLD" \in pend'
          /\ d.st = "stopped" =>
                (proc[p].st = "stopped" /\ d.rep = proc[p].rep) \/ ("CHLD" \in pend' /\ ~d.rep)
      <4>. HIDE DEF d
      <4>. QED
        BY <3>3, <3>4
    <3>6. UNCHANGED <<job, hdl, handlers>> /\ (Alive' => Alive)
      BY <2>1
    <3>. HIDE DEF d, p
    <3>. QED
      BY <2>2, <3>2, <3>3, <3>4, <3>5, <3>6, ChildChange
  <2>4. CASE ~IsJob(j)
    <3>1. UNCHANGED proc /\ pend' = pend \ {sig}
      BY <1>5, <2>4 DEF ForwardToFg
    <3>. QED
      BY <2>1, <2>2, <3>1, NoChildChange DEF Reaping, Alive, OnItsWay
  <2>. QED
    BY <2>3, <2>4
<1>6. ASSUME NEW sig \in Signal, DefaultAction(sig)
      PROVE  KernelInv'
  <2>1. /\ UNCHANGED <<job, nextjid, cur, hdl, handlers, proc>>
        /\ pend' = pend \ {sig} /\ sig \notin handlers
        /\ pc' = IF sig = "INT" THEN "killed" ELSE pc
    BY <1>6 DEF DefaultAction
  <2>2. ReportsPending'
    BY <2>1 DEF KernelInv, ReportsPending, Reportable, OnItsWay, Reaping, Alive, Ended
  <2>3. ReportedIsListed'
    BY <2>1 DEF KernelInv, ReportedIsListed, Reaping, Alive, Ended, job_exists
  <2>. QED
    BY <2>2, <2>3 DEF KernelInv
<1>. QED
  BY <1>1, <1>2, <1>3, <1>4, <1>5, <1>6 DEF Handler, sigint_handler, sigtstp_handler

LEMMA KernelWorld ==
  ASSUME IInv, KernelInv,
         \/ \E p \in Pid :
              ChildSetpgid(p) \/ ChildExec(p) \/ ChildExit(p) \/ ChildStop(p)
         \/ \E sig \in {"INT", "TSTP"} : Key(sig)
  PROVE  KernelInv'
<1>1. CASE \E sig \in {"INT", "TSTP"} : Key(sig)
  BY <1>1, NoChildChange DEF Key, shellVars, Reaping, Alive, OnItsWay
<1>2. CASE ~ \E sig \in {"INT", "TSTP"} : Key(sig)
  <2>1. PICK p \in Pid, s \in {"grouped", "run", "stopped", "zombie"} :
          /\ proc' = [proc EXCEPT ![p] = ChildIn(s)]
          /\ Alive /\ UNCHANGED <<job, pc, cur, hdl, handlers>>
          /\ pend \subseteq pend'
          /\ s \in {"stopped", "zombie"} => "CHLD" \in pend'
    BY <1>2 DEF ChildSetpgid, ChildExec, ChildExit, ChildStop, shellVars
  <2>. DEFINE d == ChildIn(s)
  <2>2. d \in Child /\ d.st = s /\ ~d.rep
    BY DEF ChildIn, Child
  <2>3. /\ "CHLD" \in pend => "CHLD" \in pend'
        /\ d.st = "zombie" /\ proc[p].st # "zombie" => "CHLD" \in pend'
        /\ d.st = "stopped" =>
              (proc[p].st = "stopped" /\ d.rep = proc[p].rep) \/ ("CHLD" \in pend' /\ ~d.rep)
    BY <2>1, <2>2
  <2>4. UNCHANGED <<job, hdl, handlers>> /\ (Alive' => Alive) /\ pc' = pc /\ cur' = cur
    BY <2>1
  <2>5. proc' = [proc EXCEPT ![p] = d]
    BY <2>1
  <2>. HIDE DEF d
  <2>. QED
    BY <2>2, <2>3, <2>4, <2>5, ChildChange
<1>. QED
  BY <1>1, <1>2
LEMMA KernelInit == Init => KernelInv
BY DEF Init, KernelInv, ReportsPending, Reportable, ReportedIsListed, ChildIn,
       init_job_list, clearjob, job_exists

LEMMA KernelNext == IInv /\ KernelInv /\ [Next]_vars => KernelInv'
<1>. SUFFICES ASSUME IInv, KernelInv, [Next]_vars PROVE KernelInv'
  OBVIOUS
<1>1. CASE UNCHANGED vars
  BY <1>1, NoChildChange DEF vars, Reaping, Alive, OnItsWay
<1>2. CASE Next /\ ~UNCHANGED vars
  BY <1>2, KernelMain, KernelCommand, KernelHandler, KernelWorld DEF Next, Over
<1>. QED
  BY <1>1, <1>2

THEOREM KernelInvariance == Spec => [](IInv /\ KernelInv)
<1>. QED
  BY InitInv, NextInv, KernelInit, KernelNext, PTL DEF Spec

(* SIGCHLD does not queue, and yet no zombie is left without a signal or a *)
(* handler on its way to it.                                               *)
THEOREM ZombiesAreReported == Spec => []NoZombieForgotten
<1>1. KernelInv => NoZombieForgotten
  BY DEF KernelInv, ReportsPending, Reportable, OnItsWay, NoZombieForgotten
<1>. QED
  BY <1>1, KernelInvariance, PTL

(* The shell does not go on believing that a stopped job runs.             *)
THEOREM StopsAreListed == Spec => []StoppedIsListed
<1>1. IInv /\ KernelInv => StoppedIsListed
  BY DEF IInv, ListedIsChild, TypeOK, Child, KernelInv, ReportsPending,
         ReportedIsListed, Reportable, OnItsWay, StoppedIsListed
<1>. QED
  BY <1>1, KernelInvariance, PTL

-----------------------------------------------------------------------------
(***************************************************************************)
(* The shell implements JobControl: seen child by child, the job list does *)
(* what its comments promise. No two jobs are the same child, as shown     *)
(* above, so the slot in which job_from_pid finds a child is the only one  *)
(* it is in, and a change of one slot is a change of the status of one     *)
(* child.                                                                  *)
(***************************************************************************)

(* No two slots in use hold the same pid.                                  *)
OneSlotEach(t) ==
  /\ \A j \in Jid : job_exists(t, j) => t[j].pid \in Pid
  /\ \A i, j \in Jid :
       job_exists(t, i) /\ job_exists(t, j) /\ t[i].pid = t[j].pid => i = j

Listed(t, p) == \E j \in Jid : job_exists(t, j) /\ t[j].pid = p

StatusIn(t, p) ==
  IF job_from_pid(t, p) = NoJid THEN "none" ELSE t[job_from_pid(t, p)].state

(* The status of a child is the state of its slot.                         *)
LEMMA StatusFound ==
  ASSUME NEW t \in JobTable, OneSlotEach(t), NEW p \in Pid
  PROVE  /\ \A j \in Jid : job_exists(t, j) /\ t[j].pid = p =>
              StatusIn(t, p) = t[j].state
         /\ ~Listed(t, p) => StatusIn(t, p) = "none"
         /\ StatusIn(t, p) # "none" => Listed(t, p)
<1>1. CASE job_from_pid(t, p) = NoJid
  <2>1. ~Listed(t, p)
    BY <1>1, JobFromPidFound DEF Listed
  <2>. QED
    BY <1>1, <2>1 DEF StatusIn, Listed
<1>2. CASE job_from_pid(t, p) # NoJid
  <2>1. PICK k \in Jid : k = job_from_pid(t, p) /\ job_exists(t, k) /\ t[k].pid = p
    BY <1>2, JobFromPidFound
  <2>2. StatusIn(t, p) = t[k].state
    BY <1>2, <2>1 DEF StatusIn
  <2>3. \A j \in Jid : job_exists(t, j) /\ t[j].pid = p => j = k
    BY <2>1 DEF OneSlotEach
  <2>. QED
    BY <2>1, <2>2, <2>3 DEF Listed
<1>. QED
  BY <1>1, <1>2

(* A child of which two tables hold the same slots has the same status.    *)
LEMMA SameStatus ==
  ASSUME NEW t \in JobTable, OneSlotEach(t), NEW u \in JobTable, OneSlotEach(u),
         NEW p \in Pid,
         \A j \in Jid : job_exists(t, j) /\ t[j].pid = p =>
                          job_exists(u, j) /\ u[j] = t[j],
         \A j \in Jid : job_exists(u, j) /\ u[j].pid = p =>
                          job_exists(t, j) /\ u[j] = t[j]
  PROVE  StatusIn(u, p) = StatusIn(t, p)
<1>1. CASE Listed(t, p)
  <2>1. PICK j \in Jid : job_exists(t, j) /\ t[j].pid = p
    BY <1>1 DEF Listed
  <2>2. StatusIn(t, p) = t[j].state
    BY <2>1, StatusFound
  <2>3. job_exists(u, j) /\ u[j].pid = p /\ u[j].state = t[j].state
    BY <2>1
  <2>4. StatusIn(u, p) = u[j].state
    BY <2>3, StatusFound
  <2>. QED
    BY <2>2, <2>3, <2>4
<1>2. CASE ~Listed(t, p)
  <2>1. ~Listed(u, p)
    BY <1>2 DEF Listed
  <2>. QED
    BY <1>2, <2>1, StatusFound
<1>. QED
  BY <1>1, <1>2

(* Outside the wait for a foreground job no child has that status.         *)
LEMMA NoForegroundChild ==
  ASSUME NEW t \in JobTable, OneSlotEach(t), \A j \in Jid : t[j].state # "FG",
         NEW p \in Pid
  PROVE  StatusIn(t, p) # "FG"
BY StatusFound DEF Listed

-----------------------------------------------------------------------------
(* The shell's table in a state that satisfies the invariant.              *)

Status == [p \in Pid |-> StatusOf(p)]

Stutter == UNCHANGED Status

(* A change of the status of one child.                                    *)
LEMMA OneStatusChanges ==
  ASSUME NEW p \in Pid, NEW s, StatusOf(p)' = s,
         \A q \in Pid : q # p => StatusOf(q)' = StatusOf(q)
  PROVE  Status' = [Status EXCEPT ![p] = s]
<1>. DEFINE f == [Status EXCEPT ![p] = s]
<1>1. f = [q \in Pid |-> IF q = p THEN s ELSE StatusOf(q)]
  BY DEF Status
<1>2. Status' = [q \in Pid |-> StatusOf(q)']
  BY DEF Status
<1>. QED
  BY <1>1, <1>2

LEMMA InvTable ==
  ASSUME IInv, IInv'
  PROVE  /\ job \in JobTable /\ OneSlotEach(job)
         /\ job' \in JobTable /\ OneSlotEach(job')
         /\ \A p \in Pid : StatusOf(p) = StatusIn(job, p)
         /\ \A p \in Pid : StatusOf(p)' = StatusIn(job', p)
<1>1. job \in JobTable /\ OneSlotEach(job)
  BY DEF IInv, TypeOK, ListedIsChild, OneSlotEach
<1>2. job' \in JobTable /\ OneSlotEach(job')
  BY DEF IInv, TypeOK, ListedIsChild, OneSlotEach, job_exists
<1>3. \A p \in Pid : StatusOf(p) = StatusIn(job, p)
  BY DEF StatusOf, StatusIn
<1>4. \A p \in Pid : StatusOf(p)' = StatusIn(job', p)
  BY DEF StatusOf, StatusIn, job_from_pid
<1>. QED
  BY <1>1, <1>2, <1>3, <1>4

LEMMA SameListStutters ==
  ASSUME UNCHANGED job
  PROVE  Stutter
BY DEF Stutter, Status, StatusOf, job_from_pid

(* add_job starts a job: there is no foreground job when eval comes to it, *)
(* and no handler has reaped the child or could have listed it.            *)
LEMMA AddRefines ==
  ASSUME IInv, IInv', EvalAddJob
  PROVE  Jobs!Next \/ Stutter
<1>1. CASE nextjid > MAXJOBS
  BY <1>1, SameListStutters DEF EvalAddJob
<1>2. CASE ~(nextjid > MAXJOBS)
  <2>. DEFINE n == maxjidPlus1(job)
  <2>0. PICK p \in Pid, s \in {"FG", "BG"} :
          p = cur.pid /\ s = IF cur.bg THEN "BG" ELSE "FG"
    BY DEF EvalAddJob, IInv, EvalInv
  <2>1. /\ pc = "add" /\ nextjid = n /\ n <= MAXJOBS
        /\ \A j \in Jid : job_exists(job, j) => job[j].pid # p
        /\ NoFG
    BY <1>2, <2>0, JobListAssumption DEF EvalAddJob, IInv, TypeOK, NextjidFresh, EvalInv
  <2>2. job' = WithJob(job, n, p, s)
    BY <1>2, <2>0, <2>1 DEF EvalAddJob
  <2>3. /\ job \in JobTable /\ OneSlotEach(job)
        /\ job' \in JobTable /\ OneSlotEach(job')
        /\ \A q \in Pid : StatusOf(q) = StatusIn(job, q)
        /\ \A q \in Pid : StatusOf(q)' = StatusIn(job', q)
    BY InvTable
  <2>4. /\ n \in Jid /\ ~job_exists(job, n)
        /\ job'[n] = [pid |-> p, state |-> s]
        /\ \A j \in Jid \ {n} : job'[j] = job[j]
    <3>1. job \in JobTable /\ n <= MAXJOBS
      BY <2>1, <2>3
    <3>. QED
      BY <2>2, <3>1, MaxjidPlus1Added
  <2>. HIDE DEF n
  <2>5. StatusOf(p) = "none"
    BY <2>1, <2>3, StatusFound DEF Listed
  <2>6. StatusOf(p)' = s
    <3>1. job_exists(job', n) /\ job'[n].pid = p /\ job'[n].state = s
      BY <2>1, <2>4 DEF job_exists
    <3>. QED
      BY <2>1, <2>3, <2>4, <3>1, StatusFound
  <2>7. ASSUME NEW q \in Pid, q # p
        PROVE  StatusOf(q)' = StatusOf(q)
    <3>1. \A j \in Jid : job_exists(job, j) /\ job[j].pid = q =>
                           job_exists(job', j) /\ job'[j] = job[j]
      BY <2>4 DEF job_exists
    <3>2. \A j \in Jid : job_exists(job', j) /\ job'[j].pid = q =>
                           job_exists(job, j) /\ job'[j] = job[j]
      BY <2>4, <2>7 DEF job_exists
    <3>3. StatusIn(job', q) = StatusIn(job, q)
      BY <2>3, <3>1, <3>2, SameStatus
    <3>. QED
      BY <2>3, <3>3
  <2>8. Jobs!NoForeground
    BY <2>1, <2>3, NoForegroundChild DEF Jobs!NoForeground, NoFG
  <2>9. Jobs!Start(p, s)
    BY <2>1, <2>5, <2>6, <2>7, <2>8, OneStatusChanges DEF Jobs!Start, Jobs!None, Status
  <2>. QED
    BY <2>1, <2>9 DEF Jobs!Next
<1>. QED
  BY <1>1, <1>2

(* A change of the state of one job changes the status of its child only.  *)
LEMMA StateChange ==
  ASSUME IInv, IInv', NEW j \in Jid, NEW s \in {"FG", "BG", "ST"},
         NEW p \in Pid, job[j].pid = p,
         job_exists(job, j), job' = WithState(job, j, s)
  PROVE  /\ StatusOf(p) = job[j].state
         /\ StatusOf(p)' = s
         /\ \A q \in Pid : q # p => StatusOf(q)' = StatusOf(q)
<1>1. /\ job \in JobTable /\ OneSlotEach(job)
      /\ job' \in JobTable /\ OneSlotEach(job')
      /\ \A q \in Pid : StatusOf(q) = StatusIn(job, q)
      /\ \A q \in Pid : StatusOf(q)' = StatusIn(job', q)
  BY InvTable
<1>3. /\ job'[j].pid = p /\ job'[j].state = s
      /\ \A k \in Jid \ {j} : job'[k] = job[k]
      /\ \A k \in Jid : job_exists(job', k) <=> job_exists(job, k)
  <2>1. job \in JobTable
    BY <1>1
  <2>. QED
    BY <2>1, WithStateTable
<1>4. StatusOf(p) = job[j].state
  BY <1>1, StatusFound
<1>5. StatusOf(p)' = s
  <2>1. job_exists(job', j)
    BY <1>3
  <2>2. StatusIn(job', p) = job'[j].state
    BY <1>1, <1>3, <2>1, StatusFound
  <2>. QED
    BY <1>1, <1>3, <2>2
<1>6. ASSUME NEW q \in Pid, q # p
      PROVE  StatusOf(q)' = StatusOf(q)
  <2>1. \A k \in Jid : job_exists(job, k) /\ job[k].pid = q =>
                         job_exists(job', k) /\ job'[k] = job[k]
    BY <1>3, <1>6
  <2>2. \A k \in Jid : job_exists(job', k) /\ job'[k].pid = q =>
                         job_exists(job, k) /\ job'[k] = job[k]
    BY <1>3, <1>6
  <2>3. StatusIn(job', q) = StatusIn(job, q)
    BY <1>1, <2>1, <2>2, SameStatus
  <2>. QED
    BY <1>1, <2>3
<1>. QED
  BY <1>4, <1>5, <1>6

(* bg and fg resume a job: at the prompt none is in the foreground.        *)
LEMMA BgFgRefines ==
  ASSUME IInv, IInv', NEW j \in Jid, NEW bg \in BOOLEAN, EvalBgFg(j, bg)
  PROVE  Jobs!Next \/ Stutter
<1>. DEFINE s == IF bg THEN "BG" ELSE "FG"
<1>0. PICK p \in Pid : p = job[j].pid
  BY DEF EvalBgFg, IInv, ListedIsChild
<1>1. /\ job_exists(job, j) /\ job' = WithState(job, j, s)
      /\ s \in {"FG", "BG"} /\ NoFG
  BY DEF EvalBgFg, IInv, EvalInv
<1>2. job \in JobTable /\ job[j].state \in {"BG", "ST"}
  BY <1>1 DEF IInv, TypeOK, JobTable, JobState, NoFG, job_exists
<1>3. /\ StatusOf(p) = job[j].state
      /\ StatusOf(p)' = s
      /\ \A q \in Pid : q # p => StatusOf(q)' = StatusOf(q)
  BY <1>0, <1>1, StateChange
<1>4. Jobs!NoForeground
  BY <1>1, InvTable, NoForegroundChild DEF Jobs!NoForeground, NoFG
<1>. HIDE DEF s
<1>5. Jobs!Resume(p, s)
  BY <1>2, <1>3, <1>4, OneStatusChanges DEF Jobs!Resume, Status
<1>. QED
  BY <1>1, <1>3, <1>5 DEF Jobs!Next

(* A stop that waitpid reports stops the job, or finds it stopped.         *)
LEMMA StopRefines ==
  ASSUME IInv, IInv', NEW p \in Pid, SigchldStop(p)
  PROVE  Jobs!Next \/ Stutter
<1>. DEFINE j == job_from_pid(job, p)
<1>1. CASE ~job_exists(job, j)
  BY <1>1, SameListStutters DEF SigchldStop
<1>2. CASE job_exists(job, j)
  <2>1. job \in JobTable /\ j \in Jid /\ job' = WithState(job, j, "ST")
    BY <1>2 DEF SigchldStop, job_exists, IInv, TypeOK
  <2>2. job[j].pid = p
    BY <2>1, JobFromPidFound, JobListAssumption DEF Jid, NoJid
  <2>. HIDE DEF j
  <2>3. /\ StatusOf(p) = job[j].state
        /\ StatusOf(p)' = "ST"
        /\ \A q \in Pid : q # p => StatusOf(q)' = StatusOf(q)
    BY <1>2, <2>1, <2>2, StateChange
  <2>4. CASE job[j].state = "ST"
    BY <2>3, <2>4 DEF Stutter, Status
  <2>5. CASE job[j].state # "ST"
    <3>1. job[j].state \in {"FG", "BG"}
      BY <1>2, <2>1, <2>5 DEF JobTable, JobState, job_exists
    <3>2. Jobs!Stop(p)
      BY <2>3, <3>1, OneStatusChanges DEF Jobs!Stop, Status
    <3>. QED
      BY <3>2 DEF Jobs!Next
  <2>. QED
    BY <2>4, <2>5
<1>. QED
  BY <1>1, <1>2

(* A death that waitpid reports ends the job; a child that add_job found no *)
(* slot for is reaped without a change of the list.                        *)
LEMMA ReapRefines ==
  ASSUME IInv, IInv', NEW p \in Pid, SigchldReap(p)
  PROVE  Jobs!Next \/ Stutter
<1>. DEFINE j == job_from_pid(job, p)
<1>1. /\ job \in JobTable /\ OneSlotEach(job)
      /\ job' \in JobTable /\ OneSlotEach(job')
      /\ \A q \in Pid : StatusOf(q) = StatusIn(job, q)
      /\ \A q \in Pid : StatusOf(q)' = StatusIn(job', q)
  BY InvTable
<1>2. job' = delete_job(job, j)
  BY DEF SigchldReap
<1>3. CASE j = NoJid
  <2>1. ~job_exists(job, j)
    BY <1>3, JobListAssumption DEF job_exists, Jid, NoJid
  <2>. QED
    BY <1>2, <2>1, SameListStutters DEF delete_job
<1>4. CASE j # NoJid
  <2>1. j \in Jid /\ job_exists(job, j) /\ job[j].pid = p
    BY <1>1, <1>4, JobFromPidFound
  <2>2. /\ ~job_exists(job', j)
        /\ \A k \in Jid \ {j} : job'[k] = job[k]
        /\ \A k \in Jid : job_exists(job', k) => job'[k] = job[k] /\ job_exists(job, k)
    BY <1>1, <1>2, <2>1, DeleteJobTable
  <2>. HIDE DEF j
  <2>3. StatusOf(p) # "none"
    <3>1. StatusOf(p) = job[j].state
      BY <1>1, <2>1, StatusFound
    <3>2. job[j].state \in JobState
      BY <1>1, <2>1 DEF JobTable
    <3>. QED
      BY <3>1, <3>2 DEF JobState
  <2>4. StatusOf(p)' = "none"
    <3>1. ~Listed(job', p)
      BY <1>1, <2>1, <2>2 DEF Listed, OneSlotEach
    <3>. QED
      BY <1>1, <3>1, StatusFound
  <2>5. ASSUME NEW q \in Pid, q # p
        PROVE  StatusOf(q)' = StatusOf(q)
    <3>1. \A k \in Jid : job_exists(job, k) /\ job[k].pid = q =>
                           job_exists(job', k) /\ job'[k] = job[k]
      BY <2>1, <2>2, <2>5 DEF job_exists
    <3>2. \A k \in Jid : job_exists(job', k) /\ job'[k].pid = q =>
                           job_exists(job, k) /\ job'[k] = job[k]
      BY <2>2
    <3>3. StatusIn(job', q) = StatusIn(job, q)
      BY <1>1, <3>1, <3>2, SameStatus
    <3>. QED
      BY <1>1, <3>3
  <2>6. Jobs!End(p)
    BY <2>3, <2>4, <2>5, OneStatusChanges DEF Jobs!End, Jobs!None, Status
  <2>. QED
    BY <2>6 DEF Jobs!Next
<1>. QED
  BY <1>3, <1>4

(* The end of cleanup empties the list.                                    *)
LEMMA CleanupRefines ==
  ASSUME IInv, IInv', Cleanup
  PROVE  Jobs!Next \/ Stutter
<1>1. CASE UNCHANGED job
  BY <1>1, SameListStutters
<1>2. CASE job' = init_job_list
  <2>1. \A p \in Pid : ~Listed(job', p)
    BY <1>2 DEF Listed, job_exists, init_job_list, clearjob
  <2>2. \A p \in Pid : StatusOf(p)' = "none"
    BY <2>1, InvTable, StatusFound
  <2>3. Jobs!Destroy
    BY <2>2 DEF Jobs!Destroy, Jobs!None
  <2>. QED
    BY <2>3 DEF Jobs!Next
<1>. QED
  BY <1>1, <1>2 DEF Cleanup

LEMMA StepRefines == IInv /\ IInv' /\ [Next]_vars => Jobs!Next \/ Stutter
<1>. SUFFICES ASSUME IInv, IInv', [Next]_vars PROVE Jobs!Next \/ Stutter
  OBVIOUS
<1>1. CASE UNCHANGED job
  BY <1>1, SameListStutters
<1>2. CASE ~UNCHANGED job
  <2>1. \/ EvalAddJob \/ Cleanup
        \/ \E j \in Jid, bg \in BOOLEAN : EvalBgFg(j, bg)
        \/ \E p \in Pid : SigchldReap(p) \/ SigchldStop(p)
    BY <1>2
    DEF Next, vars, shellVars, Main, Handler, EvalCont, EvalBgPrint, WaitBlock,
        WaitTest, WaitSuspend, EvalQuit, EvalFork, SigchldEnter, SigchldReturn,
        sigint_handler, sigtstp_handler, ForwardToFg, DefaultAction,
        ChildSetpgid, ChildExec, ChildExit, ChildStop, Key, Over
  <2>. QED
    BY <2>1, AddRefines, CleanupRefines, BgFgRefines, ReapRefines, StopRefines
<1>. QED
  BY <1>1, <1>2

LEMMA InitRefines == Init => Jobs!Init
<1>. SUFFICES ASSUME Init PROVE Jobs!Init
  OBVIOUS
<1>1. job \in JobTable /\ OneSlotEach(job) /\ \A p \in Pid : ~Listed(job, p)
  BY MaxjidPlus1Empty
  DEF Init, init_job_list, clearjob, Listed, job_exists, OneSlotEach
<1>2. \A p \in Pid : StatusOf(p) = "none"
  BY <1>1, StatusFound DEF StatusOf, StatusIn
<1>. QED
  BY <1>2, Zenon DEF Jobs!Init, Jobs!None

(* The job list, seen child by child, does what JobControl allows: a job   *)
(* is started, stopped, resumed and ended, there is at most one foreground *)
(* job when one is started or resumed, and nothing else happens to a job,  *)
(* whatever signals come between the steps of the shell.                   *)
THEOREM ListIsJobControl == Spec => ImplementsJobControl
<1>1. IInv /\ IInv' /\ [Next]_vars => [Jobs!Next]_([p \in Pid |-> StatusOf(p)])
  BY StepRefines DEF Stutter, Status
<1>2. Init => Jobs!Init
  BY InitRefines
<1>. QED
  BY <1>1, <1>2, Invariance, PTL DEF Spec, ImplementsJobControl, Jobs!Spec

-----------------------------------------------------------------------------
(***************************************************************************)
(* No job leaves the list too early.  In the next table a child is found   *)
(* as before if each slot that held it still does; only the steps that     *)
(* empty or fill a slot need an argument of their own.                     *)
(***************************************************************************)

Found(t, p) == job_from_pid(t, p) # NoJid

LEMMA FoundIsListed ==
  ASSUME NEW t \in JobTable, NEW p \in Pid
  PROVE  Found(t, p) <=> Listed(t, p)
BY JobFromPidFound DEF Found, Listed

(* A job that leaves the list.                                             *)
Dropped(p) == Found(job, p) /\ ~Found(job', p)

(* add_job fills an unused slot, so that it drops no other job.            *)
LEMMA AddDropsNone ==
  ASSUME IInv, IInv', EvalAddJob, NEW p \in Pid
  PROVE  ~Dropped(p)
<1>1. job \in JobTable /\ job' \in JobTable
  BY DEF IInv, TypeOK
<1>2. CASE nextjid > MAXJOBS
  BY <1>2 DEF EvalAddJob, Dropped, Found
<1>3. CASE ~(nextjid > MAXJOBS)
  <2>. DEFINE n == maxjidPlus1(job)
  <2>1. PICK q \in Pid, s \in {"FG", "BG"} :
          q = cur.pid /\ s = IF cur.bg THEN "BG" ELSE "FG"
    BY DEF EvalAddJob, IInv, EvalInv
  <2>2. nextjid = n /\ n <= MAXJOBS
    BY <1>1, <1>3, MaxjidPlus1Least, JobListAssumption DEF IInv, NextjidFresh
  <2>3. job' = WithJob(job, n, q, s)
    BY <1>3, <2>1, <2>2 DEF EvalAddJob
  <2>4. /\ n \in Jid /\ ~job_exists(job, n)
        /\ job'[n] = [pid |-> q, state |-> s]
        /\ \A j \in Jid \ {n} : job'[j] = job[j]
    <3>1. job \in JobTable /\ n <= MAXJOBS
      BY <1>1, <2>2
    <3>. QED
      BY <2>3, <3>1, MaxjidPlus1Added
  <2>. HIDE DEF n
  <2>5. Listed(job, p) => Listed(job', p)
    BY <2>4 DEF Listed, job_exists
  <2>. QED
    BY <1>1, <2>5, FoundIsListed DEF Dropped
<1>. QED
  BY <1>2, <1>3

(* A new state for a job that is listed drops none.                        *)
LEMMA StateDropsNone ==
  ASSUME IInv, IInv', NEW j \in Jid, job_exists(job, j),
         NEW s \in {"FG", "BG", "ST"}, job' = WithState(job, j, s), NEW p \in Pid
  PROVE  ~Dropped(p)
<1>1. job \in JobTable /\ job' \in JobTable
  BY DEF IInv, TypeOK
<1>2. \A k \in Jid : /\ job_exists(job', k) <=> job_exists(job, k)
                     /\ job'[k].pid = job[k].pid
  BY <1>1, WithStateTable
<1>3. Listed(job, p) => Listed(job', p)
  BY <1>2 DEF Listed
<1>. QED
  BY <1>1, <1>3, FoundIsListed DEF Dropped

(* What the handler deletes is the job of the child it has reaped.         *)
LEMMA ReapDropsIts ==
  ASSUME IInv, IInv', NEW q \in Pid, SigchldReap(q), NEW p \in Pid, Dropped(p)
  PROVE  proc[p].st = "zombie" /\ proc'[p].st = "free"
<1>. DEFINE j == job_from_pid(job, q)
<1>1. job \in JobTable /\ job' \in JobTable
  BY DEF IInv, TypeOK
<1>2. j \in Jid \cup {NoJid} /\ job' = delete_job(job, j)
  BY <1>1, JobFromPidFound DEF SigchldReap
<1>3. \A k \in Jid \ {j} : job'[k] = job[k]
  BY <1>1, <1>2, DeleteJobTable
<1>4. p = q
  <2>1. PICK k \in Jid : job_exists(job, k) /\ job[k].pid = p
    BY <1>1, FoundIsListed DEF Dropped, Listed
  <2>2. k = j
    <3>1. ~(job_exists(job', k) /\ job'[k].pid = p)
      BY <1>1, FoundIsListed DEF Dropped, Listed
    <3>. QED
      BY <1>3, <2>1, <3>1 DEF job_exists
  <2>3. j # NoJid
    BY <2>1, <2>2, JobListAssumption DEF Jid, NoJid
  <2>4. job[j].pid = q
    BY <1>1, <2>3, JobFromPidFound
  <2>. QED
    BY <2>1, <2>2, <2>4
<1>5. proc[q].st = "zombie" /\ proc'[q].st = "free"
  BY DEF SigchldReap, ChildIn, IInv, TypeOK
<1>. QED
  BY <1>4, <1>5

LEMMA StepDrops ==
  ASSUME IInv, IInv', [Next]_vars, NEW p \in Pid, Dropped(p)
  PROVE  \/ proc[p].st = "zombie" /\ proc'[p].st = "free"
         \/ handlers = {} /\ hdl = "none"
<1>1. ~UNCHANGED job
  BY DEF Dropped, Found
<1>2. \/ EvalAddJob \/ Cleanup
      \/ \E j \in Jid, bg \in BOOLEAN : EvalBgFg(j, bg)
      \/ \E q \in Pid : SigchldReap(q) \/ SigchldStop(q)
  BY <1>1
  DEF Next, vars, shellVars, Main, Handler, EvalCont, EvalBgPrint, WaitBlock,
      WaitTest, WaitSuspend, EvalQuit, EvalFork, SigchldEnter, SigchldReturn,
      sigint_handler, sigtstp_handler, ForwardToFg, DefaultAction,
      ChildSetpgid, ChildExec, ChildExit, ChildStop, Key, Over
<1>3. CASE EvalAddJob
  BY <1>3, AddDropsNone
<1>4. CASE Cleanup
  BY <1>1, <1>4 DEF Cleanup, MainReady
<1>5. ASSUME NEW j \in Jid, NEW bg \in BOOLEAN, EvalBgFg(j, bg)
      PROVE  FALSE
  BY <1>5, StateDropsNone DEF EvalBgFg
<1>6. ASSUME NEW q \in Pid, SigchldReap(q)
      PROVE  proc[p].st = "zombie" /\ proc'[p].st = "free"
  BY <1>6, ReapDropsIts
<1>7. ASSUME NEW q \in Pid, SigchldStop(q)
      PROVE  FALSE
  <2>. DEFINE j == job_from_pid(job, q)
  <2>1. job_exists(job, j) /\ job' = WithState(job, j, "ST")
    BY <1>1, <1>7 DEF SigchldStop
  <2>2. j \in Jid
    BY <2>1 DEF job_exists
  <2>. HIDE DEF j
  <2>. QED
    BY <2>1, <2>2, StateDropsNone
<1>. QED
  BY <1>2, <1>3, <1>4, <1>5, <1>6, <1>7

(* A job leaves the list only when its child is reaped, or at the end of   *)
(* cleanup, when no handler is left to look for it: the handlers that run  *)
(* while the shell exits find all they report, as they do before.          *)
THEOREM JobsStayUntilReaped == Spec => ListedUntilReaped
<1>1. IInv /\ IInv' /\ [Next]_vars =>
        [\A p \in Pid :
           job_from_pid(job, p) # NoJid /\ job_from_pid(job', p) = NoJid =>
             \/ proc[p].st = "zombie" /\ proc'[p].st = "free"
             \/ handlers = {} /\ hdl = "none"]_vars
  BY StepDrops DEF Dropped, Found
<1>. QED
  BY <1>1, Invariance, PTL DEF Spec, ListedUntilReaped
=============================================================================
