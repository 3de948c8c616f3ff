----------------------------- MODULE JobControl -----------------------------
(***************************************************************************)
(* What the job list promises (the comments of shell/tsh_helper.h): each   *)
(* child process is at any time no job, the foreground job, a background   *)
(* job or a stopped job; there is at most one foreground job; a job is     *)
(* started, stopped, resumed and ended, and nothing else happens to it.    *)
(* The slots, nextjid, signals and handlers of the shell do not appear.    *)
(***************************************************************************)
CONSTANT Pid
VARIABLE status

None == "none"

NoForeground == \A p \in Pid : status[p] # "FG"

Init == status = [p \in Pid |-> None]

(* A child is entered in the list.                                         *)
Start(p, s) ==
  /\ status[p] = None
  /\ s = "FG" => NoForeground
  /\ status' = [status EXCEPT ![p] = s]

(* Ctrl-Z, or the job stops itself.                                        *)
Stop(p) ==
  /\ status[p] \in {"FG", "BG"}
  /\ status' = [status EXCEPT ![p] = "ST"]

(* The bg and fg commands.  A foreground job is not resumed: the shell     *)
(* reads no command while there is one.                                    *)
Resume(p, s) ==
  /\ status[p] \in {"ST", "BG"}
  /\ s = "FG" => NoForeground
  /\ status' = [status EXCEPT ![p] = s]

(* The job's process has been reaped.                                      *)
End(p) ==
  /\ status[p] # None
  /\ status' = [status EXCEPT ![p] = None]

(* The list is destroyed when the shell exits, with whatever it holds.     *)
Destroy == status' = [p \in Pid |-> None]

Next ==
  \/ \E p \in Pid, s \in {"FG", "BG"} : Start(p, s) \/ Resume(p, s)
  \/ \E p \in Pid : Stop(p) \/ End(p)
  \/ Destroy

Spec == Init /\ [][Next]_status
=============================================================================
