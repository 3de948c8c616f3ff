---------------------------- MODULE MCRunTrace ----------------------------
(* Traces of src/shell/traces for TLC; the echo lines are left out, as the  *)
(* others end in NEXT as they do.                                          *)
EXTENDS RunTrace, SigWrap, Parseline

W == Cmd("WAIT")      S == Cmd("SIGNAL")      N == Cmd("NEXT")
SW == Cmd("SHELLWAIT") SS == Cmd("SHELLSIGNAL")
KeyC == Cmd("SIGINT")  KeyZ == Cmd("SIGTSTP")
Quit == Builtin("quit", 0)  JobsCmd == Builtin("jobs", 0)

T(s, c) == [sync |-> s, cmds |-> c]

MCTraces ==
  { T("none", <<Run("myspin1", FALSE), W, S, Quit>>),                \* trace03
    T("none", <<Run("myspin1", TRUE), N, Run("myspin2", FALSE),
                W, W, S, S, N, Quit>>),                              \* trace06
    T("none", <<Run("myspin1", TRUE), N, W, Run("pkill", FALSE), N,
                S, S, W, Quit>>),                                    \* trace14
    T("none", <<KeyC, Run("myspin1", TRUE), N, W, Run("myintp", FALSE), N,
                JobsCmd, N, S, Quit>>),                              \* trace15
    T("kill", <<Run("echo", FALSE), N, Run("myspin2", FALSE), W, KeyZ, SW, S,
                SS, N, Run("myspin2", FALSE), W, KeyC, SW, S, SS, N,
                Quit>>),                                             \* trace19
    T("waitpid_after", <<Run("echo", FALSE), N, Run("myspin1", FALSE), W, S,
                SW, KeyZ, SS, N, Run("myspin1", FALSE), W, S, SW, KeyC, SS,
                N, Quit>>),                                          \* trace20
    T("none", <<Run("mysigfun", FALSE), W, KeyZ, N, JobsCmd, N,
                Run("mysigfun", FALSE), W, KeyC, N, JobsCmd, N, Quit>>),
                                                                     \* trace21
    T("none", <<Run("mytstpandspin", FALSE), N, Builtin("bg", 1), N,
                JobsCmd, N, W, S, Quit>>),                           \* trace22
    T("none", <<Run("myspin1", TRUE), N, W, Run("mytstpp", FALSE), N,
                Pid("mytstpp", "bg"), N, JobsCmd, N, S, Quit>>),     \* trace23
    T("none", <<Run("mysleepnprint", FALSE), N, JobsCmd, N, Builtin("fg", 1),
                N, Quit>>),                                          \* trace24
    T("none", <<Run("myspin1", TRUE), W, N, Run("mytstps", FALSE), N,
                Pid("mytstps", "fg"), N, Builtin("fg", 42), N, S, Quit>>),
                                                                     \* trace25
    T("job_set_state", <<Run("myspin1", TRUE), N, W, JobsCmd, N,
                Builtin("fg", 1), SW, S, SS, N, Quit>>),             \* trace26
    T("none", <<>>),                                                 \* trace00
    T("none", <<Quit, JobsCmd, N>>),    \* lines after the end of the shell
    T("waitpid_before", <<Run("echo", FALSE), N, Run("myspin1", FALSE), W, S,
                SW, SS, N, Quit>>),
    T("job_get_pid", <<Run("myspin2", TRUE), N, W, Builtin("fg", 1), SW, KeyC,
                S, SS, N, Quit>>),
    T("none", <<Run("myints", TRUE), N, Run("echo", FALSE), N, Quit>>) }
                                                                     \* trace11

-----------------------------------------------------------------------------
(* Lines of up to five symbols, and longer ones that fill argv or the line, *)
(* come more than once or are not ended.                                   *)
Symbol == {"jobs", " ", "<", ">", "'", "\"", "&"}
Line(s) == Append(s, Newline)
MCInputs ==
  {Line(s) : s \in UNION {[1 .. n -> Symbol] : n \in 0 .. 5}}
  \cup {Line(<<"bg", " ", "a", " ", "b", " ">>) \o Line(<<"quit">>),
        Line(<<"a", " ", "b", " ", "c">>), Line(<<"a", "\t", "'", " ", "b", "'", "&">>),
        Line(<<"a", " ", "<", "b", " ", ">", "c">>) \o <<"jobs">>,
        Line(<<"<", "a", ">", "b", " ", "c", " ">>),
        Line(<<"a", " ", "'", "b", " ", " ", "b", " ", "'">>),
        <<"a", "<", "b", " ", "'", "c", "'">>}

(* The sigaction wrapper and the shell's parser do not depend on the       *)
(* driver: they are explored after the one run that ends before it has     *)
(* started a shell.                                                        *)
Alone == rpc = "exit" /\ ends = "exists" /\ trace.cmds = <<>> /\ UNCHANGED vars
allvars == <<vars, wvars, parseVars>>
MCInit  == Init /\ WrapInit /\ ParseInit
MCNext  ==
    \/ Next /\ UNCHANGED <<wvars, parseVars>>
    \/ Alone /\ at = "off" /\ WrapNext /\ UNCHANGED parseVars
    \/ Alone /\ calls = 0 /\ arrived = 0 /\ ParseNext /\ UNCHANGED wvars
MCSpec  == MCInit /\ [][MCNext]_allvars
                  /\ WF_vars(Runtrace)
                  /\ WF_vars(rpc # "exit" /\ Shell)
                  /\ WF_vars(rpc # "exit" /\ Jobs)
=============================================================================
