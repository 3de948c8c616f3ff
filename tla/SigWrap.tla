------------------------------ MODULE SigWrap ------------------------------
(***************************************************************************)
(* The sigaction wrapper of wrapper.c, linked into the shell under test.   *)
(* It installs one handler of its own, sa_sigaction_wrapper, in place of   *)
(* every handler of the program; that one looks the program's handler up   *)
(* in a table and checks that it leaves errno alone.  The program should   *)
(* not notice.  One process: main calls sigaction, and signals interrupt   *)
(* it and one another.                                                     *)
(***************************************************************************)
EXTENDS Naturals, Sequences, SequencesExt

CONSTANTS Signals,    \* signal numbers
          Handlers,   \* the program's handlers
          Careless,   \* those that do not save and restore errno
          MaxCalls,   \* calls of sigaction
          MaxSignals  \* signals that arrive

Special == {"DFL", "IGN"}

\* a handler is the address of a function, the wrapper's is not the program's
ASSUME WrapAssumption ==
    /\ Careless \subseteq Handlers /\ MaxCalls \in Nat /\ MaxSignals \in Nat
    /\ Handlers \cap (Special \cup {"NULL", "wrapper"}) = {}

VARIABLES
    kernel,   \* kernel[s]: the disposition the kernel has, "wrapper" for the wrapper's
    real,     \* real_signalhandlers
    wrapped,  \* signal_handler_wrapped
    mask,     \* the blocked signals
    errno,
    stack,    \* main's call of sigaction, then the handlers that interrupted it
    asked,    \* what the program has last asked for, of each signal
    seen,     \* what its last sigaction returned, and what it should have
    warned,   \* has a warning of corrupted errno been printed?
    spoilt,   \* has a handler of the program changed errno?
    calls, arrived

wvars == <<kernel, real, wrapped, mask, errno, stack, asked, seen, warned, spoilt, calls, arrived>>

Cur0      == Last(stack)
Replace(f) == stack' = Append(Front(stack), f)

\* the frame of a call in main, and of a signal being handled
Call(s, act) == [at |-> "save", sig |-> s, act |-> act, prev |-> {}, had |-> FALSE,
                 old |-> "DFL", errno |-> "program"]
Handling(s)  == [at |-> "enter", sig |-> s, act |-> "DFL", prev |-> {}, had |-> FALSE,
                 old |-> "DFL", errno |-> "program"]

\* main calls sigaction, or signal, with an action or ("NULL") to ask for it
SigactionCall ==
    /\ stack = <<>> /\ calls < MaxCalls
    /\ calls' = calls + 1
    /\ \E s \in Signals, act \in Handlers \cup Special \cup {"NULL"} :
         stack' = <<Call(s, act)>>
    /\ UNCHANGED <<kernel, real, wrapped, mask, errno, asked, seen, warned, spoilt, arrived>>

\* mutant: the signals stay open while the table changes
SigactionSaveOpen ==
    /\ stack # <<>> /\ Cur0.at = "save"
    /\ errno' = "sigprocmask"
    /\ Replace([Cur0 EXCEPT !.at = "install", !.prev = mask,
                            !.had = wrapped[Cur0.sig], !.old = real[Cur0.sig]])
    /\ UNCHANGED <<kernel, real, wrapped, mask, asked, seen, warned, spoilt, calls, arrived>>

\* block everything, and remember the program's own old action
SigactionSave ==
    /\ stack # <<>> /\ Cur0.at = "save"
    /\ mask' = Signals /\ errno' = "sigprocmask"
    /\ Replace([Cur0 EXCEPT !.at = "install", !.prev = mask,
                            !.had = wrapped[Cur0.sig], !.old = real[Cur0.sig]])
    /\ UNCHANGED <<kernel, real, wrapped, asked, seen, warned, spoilt, calls, arrived>>

\* __real_sigaction with the wrapper's handler instead of the program's; the
\* old action is the kernel's unless the table had one
SigactionInstall ==
    /\ stack # <<>> /\ Cur0.at = "install"
    /\ LET s == Cur0.sig IN
       /\ kernel' = [kernel EXCEPT ![s] =
                       CASE Cur0.act = "NULL"     -> @
                         [] Cur0.act \in Special  -> Cur0.act
                         [] OTHER                 -> "wrapper"]
       /\ asked' = [asked EXCEPT ![s] = IF Cur0.act = "NULL" THEN @ ELSE Cur0.act]
       /\ seen' = [got    |-> IF Cur0.had THEN Cur0.old ELSE kernel[s],
                   should |-> asked[s]]
       /\ Replace([Cur0 EXCEPT !.at = "table"])
    /\ UNCHANGED <<real, wrapped, mask, errno, warned, spoilt, calls, arrived>>

\* the table follows the kernel
SigactionTable ==
    /\ stack # <<>> /\ Cur0.at = "table"
    /\ LET s == Cur0.sig IN
       CASE Cur0.act = "NULL"    -> UNCHANGED <<real, wrapped>>
         [] Cur0.act \in Special -> wrapped' = [wrapped EXCEPT ![s] = FALSE]
                                    /\ UNCHANGED real
         [] OTHER                -> wrapped' = [wrapped EXCEPT ![s] = TRUE]
                                    /\ real' = [real EXCEPT ![s] = Cur0.act]
    /\ Replace([Cur0 EXCEPT !.at = "return"])
    /\ UNCHANGED <<kernel, mask, errno, asked, seen, warned, spoilt, calls, arrived>>

SigactionReturn ==
    /\ stack # <<>> /\ Cur0.at = "return"
    /\ mask' = Cur0.prev /\ errno' = "sigprocmask"
    /\ stack' = Front(stack)
    /\ UNCHANGED <<kernel, real, wrapped, asked, seen, warned, spoilt, calls, arrived>>

\* a signal that is neither blocked nor being handled: the kernel runs the
\* handler it has, or acts by itself
Deliver(s) ==
    /\ arrived < MaxSignals /\ s \notin mask
    /\ \A i \in DOMAIN stack : ~(stack[i].sig = s /\ stack[i].at \in
                                   {"enter", "lookup", "call", "check"})
    /\ kernel[s] = "wrapper"
    /\ arrived' = arrived + 1
    /\ stack' = Append(stack, Handling(s))
    /\ UNCHANGED <<kernel, real, wrapped, mask, errno, asked, seen, warned, spoilt, calls>>

\* sa_sigaction_wrapper: save errno and block everything
WrapperEnter ==
    /\ stack # <<>> /\ Cur0.at = "enter"
    /\ mask' = Signals /\ errno' = "sigprocmask"
    /\ Replace([Cur0 EXCEPT !.at = "lookup", !.prev = mask, !.errno = errno])
    /\ UNCHANGED <<kernel, real, wrapped, asked, seen, warned, spoilt, calls, arrived>>

\* look the handler up (a signal without one ends the process), open the
\* signals and put the sentinel in errno
WrapperLookup ==
    /\ stack # <<>> /\ Cur0.at = "lookup"
    /\ mask' = Cur0.prev
    /\ IF wrapped[Cur0.sig]
       THEN /\ Replace([Cur0 EXCEPT !.at = "call", !.act = real[Cur0.sig]])
            /\ errno' = "sentinel"
       ELSE /\ Replace([Cur0 EXCEPT !.at = "unregistered"])
            /\ errno' = "sigprocmask"
    /\ UNCHANGED <<kernel, real, wrapped, asked, seen, warned, spoilt, calls, arrived>>

\* the program's handler
HandlerRuns ==
    /\ stack # <<>> /\ Cur0.at = "call"
    /\ errno' = IF Cur0.act \in Careless THEN "handler" ELSE errno
    /\ spoilt' = (spoilt \/ Cur0.act \in Careless)
    /\ Replace([Cur0 EXCEPT !.at = "check"])
    /\ UNCHANGED <<kernel, real, wrapped, mask, asked, seen, warned, calls, arrived>>

\* errno must still be the sentinel; the interrupted code gets its own back
WrapperCheck ==
    /\ stack # <<>> /\ Cur0.at = "check"
    /\ warned' = (warned \/ errno # "sentinel")
    /\ errno' = Cur0.errno
    /\ stack' = Front(stack)
    /\ UNCHANGED <<kernel, real, wrapped, mask, asked, seen, spoilt, calls, arrived>>

WrapInit ==
    /\ kernel = [s \in Signals |-> "DFL"] /\ real = [s \in Signals |-> "DFL"]
    /\ wrapped = [s \in Signals |-> FALSE]
    /\ mask = {} /\ errno = "program" /\ stack = <<>>
    /\ asked = [s \in Signals |-> "DFL"]
    /\ seen = [got |-> "DFL", should |-> "DFL"]
    /\ warned = FALSE /\ spoilt = FALSE /\ calls = 0 /\ arrived = 0

WrapNext ==
    \/ SigactionCall \/ SigactionSave \/ SigactionInstall \/ SigactionTable
    \/ SigactionReturn \/ WrapperEnter \/ WrapperLookup \/ HandlerRuns \/ WrapperCheck
    \/ \E s \in Signals : Deliver(s)

WrapSpec == WrapInit /\ [][WrapNext]_wvars

-----------------------------------------------------------------------------
\* The program does not notice the wrapper: the handler that runs is the one it
\* installed last for the signal, also when the signal comes in the middle of a
\* change of the table; sigaction returns the action it had set; and a warning
\* of a corrupted errno is given when, and only when, one of its handlers has
\* changed errno, however the handlers nest.
WrapperUnnoticed ==
    /\ seen.got = seen.should
    /\ \A i \in DOMAIN stack :
         /\ stack[i].at # "unregistered"
         /\ stack[i].at \in {"call", "check"} => stack[i].act = asked[stack[i].sig]
    /\ stack = <<>> => warned = spoilt /\ errno # "sentinel"
=============================================================================
