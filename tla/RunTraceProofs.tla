--------------------------- MODULE RunTraceProofs ---------------------------
(***************************************************************************)
(* The test driver of the shell, for any set of traces, any room in the    *)
(* sockets and any number of time-outs and interrupts: the datagrams that  *)
(* stop the shell are paired, every NEXT reads the prompt that follows the *)
(* line sent, no signal is forwarded to a process that has been reaped,    *)
(* and runtrace cleans up.  Then the sigaction wrapper linked into the     *)
(* shell, for any signals and any handlers, however many calls are made    *)
(* and however deep signals nest.                                          *)
(***************************************************************************)
EXTENDS RunTrace, SigWrap, FiniteSetTheorems, FunctionTheorems, SequenceTheorems,
        WellFoundedInduction, TLAPS

-----------------------------------------------------------------------------
(* s is a sequence, of whatever elements.                                  *)
IsSeq(s) == s \in Seq({s[i] : i \in DOMAIN s})

(* The places of main, and of the handlers that interrupt it.              *)
MainPlaces    == {"prompt", "read", "getpid", "setst", "kill", "bgprint", "wait"}
HandlerPlaces == {"wp", "after", "hset", "hfg", "hget", "hkill"}
(* What a frame is about: a state to set, a signal, how a child ended.     *)
Whats == {"", "BG", "FG", "ST", "INT", "TSTP", "exited", "killed", "stopped"}

FrameRec == [at : MainPlaces \cup HandlerPlaces, sync : {"no", "wait", "done"}, job : Nat,
             what : Whats]

(* The fields of an entry of the job table.                                *)
JobFields == {"prog", "st", "step", "term", "how", "news", "list", "jid"}

(* The shell, the jobs and the queues have the shape that the code gives   *)
(* them; there are at most two frames, as the handlers block one another.  *)
Shape ==
  /\ DOMAIN sh = {"st", "frames", "pend"}
  /\ sh.st \in {"none", "forked", "session", "up", "zombie", "gone"}
  /\ sh.frames \in Seq(FrameRec)
  /\ sh.st = "up" => Len(sh.frames) \in {1, 2}
  /\ sh.pend \subseteq {"CHLD", "INT", "TSTP"}
  /\ IsSeq(jobs)
  /\ \A j \in DOMAIN jobs :
       /\ DOMAIN jobs[j] = JobFields
       /\ jobs[j].st \in {"run", "stop", "dead", "gone"}
       /\ jobs[j].how \in {"", "exited", "killed"}
  /\ IsSeq(dataUp) /\ IsSeq(dataDn) /\ IsSeq(shUp) /\ IsSeq(shDn)
  /\ pos \in Nat \ {0}

(* Main is the lower frame and a handler the upper one; only a call at the *)
(* place that the trace chose waits, or has waited, for its datagram.      *)
FrameOK ==
  sh.st = "up" =>
    /\ sh.frames[1].at \in MainPlaces
    /\ Len(sh.frames) = 2 => sh.frames[2].at \in HandlerPlaces
    /\ \A i \in DOMAIN sh.frames :
         LET f == sh.frames[i] IN
         /\ f.at \in {"getpid", "setst", "kill"} => f.what \in {"BG", "FG"}
         /\ f.at = "hfg" => f.what \in {"INT", "TSTP"}
         /\ f.sync # "no" => f.at \in DOMAIN Point /\ Point[f.at] = trace.sync

(* Before the shell is up nothing has been sent, and no line of the trace  *)
(* has been taken.                                                         *)
Early ==
  /\ rpc = "spawn" => sh.st = "none"
  /\ sh.st \in {"none", "forked", "session"} =>
       /\ jobs = <<>> /\ sh.frames = <<>> /\ sh.pend = {}
       /\ dataUp = <<>> /\ dataDn = <<>> /\ shUp = <<>> /\ shDn = <<>>
       /\ pos = 1 /\ rpc \notin {"cmd", "finish"}
  /\ rpc = "prompt" => pos = 1

(* The prompts that runtrace has not read yet.                             *)
Prompts == Cardinality({i \in DOMAIN dataUp : dataUp[i] = "prompt"})

(* Every prompt answers one line: those not read, the one runtrace has     *)
(* read first, those it has read at a NEXT, the one the shell is about to  *)
(* send and the lines it has not read yet add up to the lines sent and     *)
(* one.                                                                    *)
Counted ==
  sh.st = "up" /\ rpc \in {"prompt", "cmd"} =>
    Prompts + (IF rpc = "cmd" THEN 1 ELSE 0) + Lines({"NEXT"})
      + (IF sh.frames[1].at = "read" THEN 0 ELSE 1) + Len(dataDn)
    = 1 + Lines({"line", "PID"})

(* There is a foreground job only while main waits for it, or is about to  *)
(* continue it and wait.                                                   *)
NoFg ==
  sh.st = "up" =>
    \/ sh.frames[1].at = "wait"
    \/ sh.frames[1].at = "kill" /\ sh.frames[1].what = "FG"
    \/ FgJobs = {}

(* The handler has reaped job j, and is about to delete it.                *)
Reaping(j) ==
  /\ Len(sh.frames) = 2 /\ sh.frames[2].at = "after" /\ sh.frames[2].job = j
  /\ sh.frames[2].what # "stopped"

(* A job on the list has not been reaped, but by the handler that is about *)
(* to delete it; the handler that forwards a signal has the number of a    *)
(* job not reaped; and clean kills the shell, if it kills anything.        *)
ChildInv ==
  /\ sh.st = "up" =>
       /\ \A j \in Listed : jobs[j].st = "gone" => Reaping(j)
       /\ \A j \in DOMAIN jobs : jobs[j].st = "dead" => jobs[j].how # ""
       /\ Len(sh.frames) = 2 /\ sh.frames[2].at \in {"hget", "hkill"} =>
            /\ sh.frames[2].job \in DOMAIN jobs
            /\ jobs[sh.frames[2].job].st # "gone"
  /\ rpc = "clean" => doomed = {} \/ 0 \in doomed \/ sh.st \in {"zombie", "gone"}

(* The inductive invariant.                                                *)
RInv == Shape /\ FrameOK /\ Early /\ SyncPaired /\ Counted /\ NoFg /\ ChildInv

-----------------------------------------------------------------------------

(* The domain and the length of a sequence of anything.                    *)
LEMMA SeqBasics ==
  ASSUME NEW s, IsSeq(s)
  PROVE  /\ Len(s) \in Nat /\ DOMAIN s = 1 .. Len(s)
         /\ s # <<>> => Len(s) >= 1
         /\ s = <<>> => Len(s) = 0
BY LenProperties, EmptySeq DEF IsSeq

(* The empty queue.                                                        *)
LEMMA EmptyIsSeq == IsSeq(<<>>) /\ Len(<<>>) = 0
BY EmptySeq DEF IsSeq

(* A sequence over a set is one of its own elements.                       *)
LEMMA SeqIs ==
  ASSUME NEW S, NEW s \in Seq(S)
  PROVE  IsSeq(s)
<1> DEFINE T == {s[i] : i \in DOMAIN s}
<1>1. /\ Len(s) \in Nat /\ s \in [1 .. Len(s) -> S] /\ DOMAIN s = 1 .. Len(s)
  BY LenProperties
<1>2. \A i \in 1 .. Len(s) : s[i] \in T
  BY <1>1
<1>3. SubSeq(s, 1, Len(s)) \in Seq(T)
  BY <1>1, <1>2, SubSeqProperties
<1> QED BY <1>3, SubSeqFull DEF IsSeq

(* A datagram is sent.                                                     *)
LEMMA SeqAppend ==
  ASSUME NEW s, IsSeq(s), NEW x
  PROVE  /\ IsSeq(Append(s, x)) /\ Len(Append(s, x)) = Len(s) + 1
         /\ DOMAIN Append(s, x) = 1 .. Len(s) + 1
         /\ \A i \in 1 .. Len(s) : Append(s, x)[i] = s[i]
         /\ Append(s, x)[Len(s) + 1] = x
<1> DEFINE S == {s[i] : i \in DOMAIN s} \cup {x}
<1>1. s \in Seq(S)
  BY SeqMonotonic DEF IsSeq
<1>2. x \in S OBVIOUS
<1> HIDE DEF S
<1>3. /\ Append(s, x) \in Seq(S) /\ Len(Append(s, x)) = Len(s) + 1
      /\ \A i \in 1 .. Len(s) : Append(s, x)[i] = s[i]
      /\ Append(s, x)[Len(s) + 1] = x
  BY <1>1, <1>2, AppendProperties
<1>4. IsSeq(Append(s, x)) BY <1>3, SeqIs
<1> QED BY <1>3, <1>4, SeqBasics

(* A datagram is received.                                                 *)
LEMMA SeqTail ==
  ASSUME NEW s, IsSeq(s), s # <<>>
  PROVE  /\ IsSeq(Tail(s)) /\ Len(Tail(s)) = Len(s) - 1 /\ Len(s) \in Nat \ {0}
         /\ DOMAIN Tail(s) = 1 .. Len(s) - 1
         /\ \A i \in 1 .. Len(s) - 1 : Tail(s)[i] = s[i + 1]
         /\ Head(s) = s[1]
<1> DEFINE S == {s[i] : i \in DOMAIN s}
<1>1. s \in Seq(S) BY DEF IsSeq
<1> HIDE DEF S
<1>2. /\ Tail(s) \in Seq(S) /\ Len(Tail(s)) = Len(s) - 1
      /\ \A i \in 1 .. Len(Tail(s)) : Tail(s)[i] = s[i + 1]
  BY <1>1, HeadTailProperties
<1>3. Len(s) \in Nat \ {0} BY SeqBasics
<1>4. IsSeq(Tail(s)) BY <1>2, SeqIs
<1>5. Head(s) = s[1] BY DEF Head
<1> QED BY <1>2, <1>3, <1>4, <1>5, SeqBasics

(* A function with the domain of a sequence is one.                        *)
LEMMA SeqSame ==
  ASSUME NEW s, IsSeq(s), NEW t, t = [i \in DOMAIN s |-> t[i]]
  PROVE  IsSeq(t) /\ Len(t) = Len(s) /\ DOMAIN t = DOMAIN s
<1> DEFINE T == {t[i] : i \in DOMAIN t}
<1>1. Len(s) \in Nat /\ DOMAIN s = 1 .. Len(s) BY SeqBasics
<1>2. DOMAIN t = 1 .. Len(s) BY <1>1
<1>3. t \in [1 .. Len(s) -> T] BY <1>2
<1>4. \A i \in 1 .. Len(s) : t[i] \in T BY <1>2
<1> HIDE DEF T
<1>5. t \in Seq(T) /\ Len(t) = Len(s)
  BY <1>1, <1>2, <1>3
<1> QED BY <1>1, <1>2, <1>5, SeqIs

-----------------------------------------------------------------------------
(* Counting.                                                               *)

(* Where x is in q.                                                        *)
In1(q, x) == {i \in DOMAIN q : q[i] = x}

(* A queue holds x a finite number of times.                               *)
LEMMA CountFinite ==
  ASSUME NEW q, IsSeq(q), NEW x
  PROVE  IsFiniteSet(In1(q, x)) /\ Cardinality(In1(q, x)) \in Nat
<1>1. IsFiniteSet(1 .. Len(q)) BY SeqBasics, FS_Interval
<1>2. In1(q, x) \subseteq 1 .. Len(q) BY SeqBasics DEF In1
<1>3. IsFiniteSet(In1(q, x)) BY <1>1, <1>2, FS_Subset
<1> QED BY <1>3, FS_CardinalityType

(* Sending y adds to the count of x when y is x.                           *)
LEMMA CountAppend ==
  ASSUME NEW q, IsSeq(q), NEW x, NEW y
  PROVE  Cardinality(In1(Append(q, y), x)) = Cardinality(In1(q, x)) + (IF y = x THEN 1 ELSE 0)
<1>1. Len(q) \in Nat /\ DOMAIN q = 1 .. Len(q) BY SeqBasics
<1>2. IsFiniteSet(In1(q, x)) /\ Cardinality(In1(q, x)) \in Nat BY CountFinite
<1>3. Len(q) + 1 \notin In1(q, x) BY <1>1 DEF In1
<1>4. CASE y = x
  <2>1. In1(Append(q, y), x) = In1(q, x) \cup {Len(q) + 1}
    BY <1>1, <1>4, SeqAppend DEF In1
  <2> QED BY <2>1, <1>2, <1>3, <1>4, FS_AddElement
<1>5. CASE y # x
  <2>1. In1(Append(q, y), x) = In1(q, x)
    BY <1>1, <1>5, SeqAppend DEF In1
  <2> QED BY <2>1, <1>2, <1>5
<1> QED BY <1>4, <1>5

(* Receiving the first datagram takes from the count of x when it is x.    *)
LEMMA CountTail ==
  ASSUME NEW q, IsSeq(q), q # <<>>, NEW x
  PROVE  Cardinality(In1(q, x)) = Cardinality(In1(Tail(q), x)) + (IF Head(q) = x THEN 1 ELSE 0)
<1> DEFINE S == In1(q, x)
           T == In1(Tail(q), x)
           f == [i \in T |-> i + 1]
<1>1. /\ Len(q) \in Nat /\ Len(q) >= 1 /\ DOMAIN q = 1 .. Len(q) /\ IsSeq(Tail(q))
      /\ DOMAIN Tail(q) = 1 .. Len(q) - 1 /\ Head(q) = q[1]
      /\ \A i \in 1 .. Len(q) - 1 : Tail(q)[i] = q[i + 1]
  BY SeqBasics, SeqTail
<1>2. IsFiniteSet(S) /\ Cardinality(S) \in Nat /\ IsFiniteSet(T) /\ Cardinality(T) \in Nat
  BY <1>1, CountFinite
<1>3. f \in Bijection(T, S \ {1})
  <2>1. T = {i \in 1 .. Len(q) - 1 : q[i + 1] = x} BY <1>1 DEF In1
  <2>2. S = {i \in 1 .. Len(q) : q[i] = x} BY <1>1 DEF In1
  <2> HIDE DEF S, T
  <2>3. f \in [T -> S \ {1}] BY <1>1, <2>1, <2>2
  <2>4. \A i, j \in T : f[i] = f[j] => i = j BY <2>1
  <2>5. \A j \in S \ {1} : \E i \in T : f[i] = j
    <3> TAKE j \in S \ {1}
    <3>1. j - 1 \in T BY <1>1, <2>1, <2>2
    <3>2. f[j - 1] = j BY <3>1, <2>2
    <3> QED BY <3>1, <3>2
  <2> HIDE DEF f
  <2> QED BY <2>3, <2>4, <2>5, Fun_IsBij
<1>4. Cardinality(T) = Cardinality(S \ {1})
  BY <1>2, <1>3, FS_Bijection DEF ExistsBijection
<1>5. 1 \in S <=> Head(q) = x
  BY <1>1 DEF In1
<1>6. CASE 1 \in S
  <2>1. Cardinality(S \ {1}) = Cardinality(S) - 1 BY <1>2, <1>6, FS_RemoveElement
  <2> QED BY <2>1, <1>2, <1>4, <1>5, <1>6 DEF S, T
<1>7. CASE 1 \notin S
  <2>1. S \ {1} = S BY <1>7
  <2>2. Cardinality(T) = Cardinality(S)
    <3> HIDE DEF S, T
    <3> QED BY <2>1, <1>4
  <2>3. Head(q) # x BY <1>5, <1>7
  <2> QED BY <2>2, <2>3, <1>2
<1> QED BY <1>6, <1>7

(* The lines taken from the trace are counted from none.                   *)
LEMMA LinesNat ==
  ASSUME pos \in Nat \ {0}, NEW ops
  PROVE  Lines(ops) \in Nat /\ (pos = 1 => Lines(ops) = 0)
<1> DEFINE S == {i \in 1 .. pos - 1 : trace.cmds[i].op \in ops}
<1>1. IsFiniteSet(1 .. pos - 1) BY FS_Interval
<1>2. IsFiniteSet(S) BY <1>1, FS_Subset
<1>3. Cardinality(S) \in Nat BY <1>2, FS_CardinalityType
<1>4. pos = 1 => S = {} OBVIOUS
<1> QED BY <1>3, <1>4, FS_EmptySet DEF Lines

(* Taking a line adds to the count of its kind.                            *)
LEMMA LinesStep ==
  ASSUME pos \in Nat \ {0}, NEW ops, NextLine, trace' = trace
  PROVE  /\ Lines(ops) \in Nat
         /\ Lines(ops)' = Lines(ops) + (IF Cur.op \in ops THEN 1 ELSE 0)
<1> DEFINE S == {i \in 1 .. pos - 1 : trace.cmds[i].op \in ops}
           T == {i \in 1 .. pos : trace.cmds[i].op \in ops}
<1>1. IsFiniteSet(1 .. pos - 1) BY FS_Interval
<1>2. IsFiniteSet(S) BY <1>1, FS_Subset
<1>3. Cardinality(S) \in Nat BY <1>2, FS_CardinalityType
<1>4. pos' - 1 = pos BY DEF NextLine
<1>5. Lines(ops)' = Cardinality(T)
  BY <1>4 DEF Lines
<1>6. T = IF Cur.op \in ops THEN S \cup {pos} ELSE S
  BY DEF Cur
<1>7. pos \notin S OBVIOUS
<1> HIDE DEF S, T
<1>8. Cardinality(S \cup {pos}) = Cardinality(S) + 1
  BY <1>2, <1>7, FS_AddElement
<1> QED BY <1>3, <1>5, <1>6, <1>8 DEF Lines, S

(* The frames that wait for a datagram.                                    *)
Waiters(fr) == {i \in DOMAIN fr : fr[i].sync = "wait"}
One(f)      == IF f.sync = "wait" THEN 1 ELSE 0

(* With one or two frames, the number of those that wait.                  *)
LEMMA WaitersIs ==
  ASSUME NEW fr, IsSeq(fr), Len(fr) \in {1, 2}
  PROVE  Cardinality(Waiters(fr)) = One(fr[1]) + (IF Len(fr) = 2 THEN One(fr[2]) ELSE 0)
<1>0. /\ Cardinality({1}) = 1 /\ Cardinality({2}) = 1 /\ Cardinality({}) = 0
      /\ IsFiniteSet({1})
  BY FS_Singleton, FS_EmptySet
<1>1. DOMAIN fr = 1 .. Len(fr) BY SeqBasics
<1>2. CASE Len(fr) = 1
  <2>1. DOMAIN fr = {1} BY <1>1, <1>2
  <2>2. CASE fr[1].sync = "wait"
    <3>1. Waiters(fr) = {1} BY <2>1, <2>2 DEF Waiters
    <3> QED BY <3>1, <2>2, <1>0, <1>2 DEF One
  <2>3. CASE fr[1].sync # "wait"
    <3>1. Waiters(fr) = {} BY <2>1, <2>3 DEF Waiters
    <3> QED BY <3>1, <2>3, <1>0, <1>2 DEF One
  <2> QED BY <2>2, <2>3
<1>3. CASE Len(fr) = 2
  <2>1. DOMAIN fr = {1, 2} BY <1>1, <1>3
  <2>2. CASE fr[1].sync = "wait" /\ fr[2].sync = "wait"
    <3>1. Waiters(fr) = {1} \cup {2} BY <2>1, <2>2 DEF Waiters
    <3>2. 2 \notin {1} OBVIOUS
    <3>3. Cardinality({1} \cup {2}) = 2 BY <1>0, <3>2, FS_AddElement
    <3> QED BY <3>1, <3>3, <2>2, <1>3 DEF One
  <2>3. CASE fr[1].sync = "wait" /\ fr[2].sync # "wait"
    <3>1. Waiters(fr) = {1} BY <2>1, <2>3 DEF Waiters
    <3> QED BY <3>1, <2>3, <1>0, <1>3 DEF One
  <2>4. CASE fr[1].sync # "wait" /\ fr[2].sync = "wait"
    <3>1. Waiters(fr) = {2} BY <2>1, <2>4 DEF Waiters
    <3> QED BY <3>1, <2>4, <1>0, <1>3 DEF One
  <2>5. CASE fr[1].sync # "wait" /\ fr[2].sync # "wait"
    <3>1. Waiters(fr) = {} BY <2>1, <2>5 DEF Waiters
    <3> QED BY <3>1, <2>5, <1>0, <1>3 DEF One
  <2> QED BY <2>2, <2>3, <2>4, <2>5
<1> QED BY <1>2, <1>3

(* The frames of a shell that is up, and of one whose top is replaced,     *)
(* taken or covered.                                                       *)
LEMMA Frames ==
  ASSUME Shape, sh.st = "up"
  PROVE  /\ IsSeq(sh.frames) /\ Len(sh.frames) \in {1, 2}
         /\ DOMAIN sh.frames = 1 .. Len(sh.frames)
         /\ \A i \in 1 .. Len(sh.frames) : sh.frames[i] \in FrameRec
         /\ Top = sh.frames[Len(sh.frames)]
         /\ Top \in FrameRec
<1>1. sh.frames \in Seq(FrameRec) /\ Len(sh.frames) \in {1, 2} BY DEF Shape
<1>2. Top = sh.frames[Len(sh.frames)] BY DEF Top, Last
<1>3. \A i \in 1 .. Len(sh.frames) : sh.frames[i] \in FrameRec BY <1>1, ElementOfSeq
<1>4. IsSeq(sh.frames) BY <1>1, SeqIs
<1>5. DOMAIN sh.frames = 1 .. Len(sh.frames) BY <1>4, SeqBasics
<1>a. \A n \in {1, 2} : n \in 1 .. n OBVIOUS
<1>6. Len(sh.frames) \in 1 .. Len(sh.frames) BY <1>1, <1>a
<1> QED BY <1>1, <1>2, <1>3, <1>4, <1>5, <1>6

(* The top frame is replaced.                                              *)
LEMMA Replaced ==
  ASSUME Shape, sh.st = "up", NEW f \in FrameRec, NEW fr, fr = Append(Front(sh.frames), f)
  PROVE  /\ fr \in Seq(FrameRec) /\ Len(fr) = Len(sh.frames) /\ fr[Len(fr)] = f
         /\ Len(fr) = 2 => fr[1] = sh.frames[1]
<1> DEFINE n == Len(sh.frames)
           g == Front(sh.frames)
<1>1. sh.frames \in Seq(FrameRec) /\ n \in {1, 2} BY DEF Shape
<1>2. \A i \in 1 .. n : sh.frames[i] \in FrameRec BY <1>1, ElementOfSeq
<1>3. /\ g \in Seq(FrameRec) /\ Len(g) = n - 1
      /\ \A i \in 1 .. n - 1 : g[i] = sh.frames[i]
  <2>1. \A i \in 1 .. n - 1 : sh.frames[i] \in FrameRec BY <1>1, <1>2
  <2>2. n - 1 \in Int BY <1>1
  <2> HIDE DEF n
  <2>3. /\ SubSeq(sh.frames, 1, n - 1) \in Seq(FrameRec)
        /\ Len(SubSeq(sh.frames, 1, n - 1)) = IF 1 <= n - 1 THEN n - 1 - 1 + 1 ELSE 0
        /\ \A i \in 1 .. n - 1 - 1 + 1 : SubSeq(sh.frames, 1, n - 1)[i] = sh.frames[1 + i - 1]
    BY <2>1, <2>2, SubSeqProperties
  <2> QED BY <1>1, <2>3 DEF Front, n
<1> HIDE DEF g
<1>4. /\ fr \in Seq(FrameRec) /\ Len(fr) = Len(g) + 1
      /\ \A i \in 1 .. Len(g) : fr[i] = g[i]
      /\ fr[Len(g) + 1] = f
  BY <1>3, AppendProperties DEF g
<1>5. CASE n = 1
  BY <1>3, <1>4, <1>5
<1>6. CASE n = 2
  <2>1. g[1] = sh.frames[1] /\ Len(g) = 1 BY <1>3, <1>6
  <2>2. fr[1] = g[1] BY <1>4, <2>1
  <2> QED BY <1>4, <1>6, <2>1, <2>2
<1> QED BY <1>1, <1>5, <1>6

(* The handler's frame is taken off main's.                                *)
LEMMA Taken ==
  ASSUME Shape, sh.st = "up", Len(sh.frames) = 2, NEW fr, fr = Front(sh.frames)
  PROVE  fr \in Seq(FrameRec) /\ Len(fr) = 1 /\ fr[1] = sh.frames[1]
<1>1. sh.frames \in Seq(FrameRec) BY DEF Shape
<1>2. \A i \in 1 .. 2 : sh.frames[i] \in FrameRec BY <1>1, ElementOfSeq
<1>3. /\ SubSeq(sh.frames, 1, 1) \in Seq(FrameRec) /\ Len(SubSeq(sh.frames, 1, 1)) = 1
      /\ SubSeq(sh.frames, 1, 1)[1] = sh.frames[1]
  BY <1>2, SubSeqProperties
<1> QED BY <1>3 DEF Front

(* A handler's frame is put on main's.                                     *)
LEMMA Covered ==
  ASSUME Shape, sh.st = "up", Len(sh.frames) = 1, NEW f \in FrameRec, NEW fr,
         fr = Append(sh.frames, f)
  PROVE  fr \in Seq(FrameRec) /\ Len(fr) = 2 /\ fr[1] = sh.frames[1] /\ fr[2] = f
<1>1. sh.frames \in Seq(FrameRec) BY DEF Shape
<1> QED BY <1>1, AppendProperties

(* Which of main and the handlers is at a place, and that a call which is  *)
(* made waits for nobody.                                                  *)
LEMMA Where ==
  ASSUME Shape, FrameOK, NEW S, At(S)
  PROVE  /\ sh.st = "up" /\ Top.at \in S /\ Top = sh.frames[Len(sh.frames)]
         /\ Top \in FrameRec
         /\ Top.at \in MainPlaces => Len(sh.frames) = 1
         /\ Top.at \in HandlerPlaces => Len(sh.frames) = 2
         /\ (Top.at \notin DOMAIN Point \/ Ready) => Top.sync # "wait"
         /\ Top.at \in {"getpid", "setst", "kill"} => Top.what \in {"BG", "FG"}
         /\ Top.at = "hfg" => Top.what \in {"INT", "TSTP"}
<1>1. sh.st = "up" /\ Top.at \in S BY DEF At
<1>2. /\ Len(sh.frames) \in {1, 2} /\ DOMAIN sh.frames = 1 .. Len(sh.frames)
      /\ Top = sh.frames[Len(sh.frames)] /\ Top \in FrameRec
  BY <1>1, Frames
<1>3. /\ sh.frames[1].at \in MainPlaces
      /\ Len(sh.frames) = 2 => sh.frames[2].at \in HandlerPlaces
  BY <1>1 DEF FrameOK
<1>4. /\ Top.at \in {"getpid", "setst", "kill"} => Top.what \in {"BG", "FG"}
      /\ Top.at = "hfg" => Top.what \in {"INT", "TSTP"}
      /\ Top.sync # "no" => Top.at \in DOMAIN Point /\ Point[Top.at] = trace.sync
  BY <1>1, <1>2 DEF FrameOK
<1>5. (Top.at \notin DOMAIN Point \/ Ready) => Top.sync # "wait"
  BY <1>4 DEF Ready, Stops
<1> QED BY <1>1, <1>2, <1>3, <1>4, <1>5 DEF MainPlaces, HandlerPlaces

(* The record that Frame makes.                                            *)
LEMMA FrameIs ==
  ASSUME NEW p \in MainPlaces \cup HandlerPlaces, NEW j \in Nat, NEW w \in Whats
  PROVE  /\ Frame(p, j, w) \in FrameRec /\ Frame(p, j, w).at = p /\ Frame(p, j, w).job = j
         /\ Frame(p, j, w).what = w /\ Frame(p, j, w).sync = "no"
BY DEF Frame, FrameRec

-----------------------------------------------------------------------------
(* What the parts of the invariant depend on.                              *)

(* FrameOK depends on the frames and the trace alone.                      *)
LEMMA FrameKept ==
  ASSUME FrameOK, sh'.st = "up" => sh.st = "up", sh'.frames = sh.frames, trace' = trace
  PROVE  FrameOK'
BY DEF FrameOK, Point

(* SyncPaired depends on the frames, the shellsync pair and the lines      *)
(* taken.                                                                  *)
LEMMA SyncKept ==
  ASSUME SyncPaired, sh'.st = "up" => sh.st = "up", sh'.frames = sh.frames,
         trace' = trace, pos' = pos, shUp' = shUp, shDn' = shDn
  PROVE  SyncPaired'
BY DEF SyncPaired, Held, Lines

(* Early is about a shell that is not up yet.                              *)
LEMMA EarlyKept ==
  ASSUME Early, rpc' = rpc, pos' = pos, sh.st = "up",
         sh'.st \notin {"none", "forked", "session"}
  PROVE  Early'
BY DEF Early

(* The prompt count is of the first frame, the queues and the trace.       *)
Printed == dataUp' = dataUp \/ dataUp' = Append(dataUp, "output")

(* Prompts counts "prompt" in the data pair.                               *)
LEMMA PromptsIs == Prompts = Cardinality(In1(dataUp, "prompt"))
BY DEF Prompts, In1

(* Output is not a prompt.                                                 *)
LEMMA PrintedKept ==
  ASSUME IsSeq(dataUp), Printed
  PROVE  IsSeq(dataUp') /\ Prompts' = Prompts
<1>1. Prompts' = Cardinality(In1(dataUp', "prompt")) BY DEF Prompts, In1
<1>2. CASE dataUp' = dataUp BY <1>1, <1>2, PromptsIs
<1>3. CASE dataUp' = Append(dataUp, "output")
  <2>1. IsSeq(dataUp') BY <1>3, SeqAppend
  <2>2. Cardinality(In1(dataUp, "prompt")) \in Nat BY CountFinite
  <2>3. Cardinality(In1(Append(dataUp, "output"), "prompt")) = Cardinality(In1(dataUp, "prompt")) + 0
    BY CountAppend
  <2> QED BY <1>1, <1>3, <2>1, <2>2, <2>3, PromptsIs
<1> QED BY <1>2, <1>3 DEF Printed

(* Output alone, and a move of main that is not to or from reading, keep   *)
(* the count.                                                              *)
LEMMA CountedKept ==
  ASSUME Counted, Shape, sh'.st = "up" => sh.st = "up", Printed,
         sh'.st = "up" => (sh'.frames[1].at = "read" <=> sh.frames[1].at = "read"),
         rpc' \in {"prompt", "cmd"} => rpc' = rpc, pos' = pos, trace' = trace,
         Len(dataDn') = Len(dataDn)
  PROVE  Counted'
<1>1. Prompts' = Prompts BY PrintedKept DEF Shape
<1>2. Lines({"NEXT"})' = Lines({"NEXT"}) /\ Lines({"line", "PID"})' = Lines({"line", "PID"})
  BY DEF Lines
<1> QED BY <1>1, <1>2 DEF Counted

(* No job goes into the foreground.                                        *)
NoNewFg ==
  \A j \in DOMAIN jobs' : jobs'[j].jid > 0 /\ jobs'[j].list = "FG" =>
     j \in DOMAIN jobs /\ jobs[j].jid > 0 /\ jobs[j].list = "FG"

(* No job goes into the foreground: none is there if none was.             *)
LEMMA FewerFg ==
  ASSUME NoNewFg
  PROVE  FgJobs = {} => FgJobs' = {}
BY DEF NoNewFg, FgJobs, Listed

(* NoFg depends on main's frame and the foreground jobs.                   *)
LEMMA NoFgKept ==
  ASSUME NoFg, NoNewFg, sh'.st = "up" => sh.st = "up", sh'.frames[1] = sh.frames[1]
  PROVE  NoFg'
BY FewerFg DEF NoFg

(* A job table in which jobs have gone on, stopped or died, but have not   *)
(* been reaped while the shell is there to do it.                          *)
Moved(js) ==
  /\ js = [j \in DOMAIN jobs |-> js[j]]
  /\ \A j \in DOMAIN jobs :
       /\ DOMAIN js[j] = JobFields
       /\ js[j].st \in {"run", "stop", "dead", "gone"}
       /\ js[j].how \in {"", "exited", "killed"}
       /\ js[j].jid = jobs[j].jid /\ js[j].list = jobs[j].list
       /\ sh.st = "up" =>
            /\ js[j].st = "gone" => jobs[j].st = "gone"
            /\ js[j].st = "dead" => js[j].how # ""

(* The entries of the job table, and that a dead job died somehow.         *)
JobsOK ==
  \A j \in DOMAIN jobs :
    /\ DOMAIN jobs[j] = JobFields
    /\ jobs[j].st \in {"run", "stop", "dead", "gone"}
    /\ jobs[j].how \in {"", "exited", "killed"}
    /\ sh.st = "up" /\ jobs[j].st = "dead" => jobs[j].how # ""

(* JobsOK follows from the invariant.                                      *)
LEMMA JobsAre ==
  ASSUME Shape, ChildInv
  PROVE  JobsOK /\ jobs = [j \in DOMAIN jobs |-> jobs[j]]
<1>1. JobsOK BY DEF Shape, ChildInv, JobsOK
<1>2. jobs \in Seq({jobs[i] : i \in DOMAIN jobs}) BY DEF Shape, IsSeq
<1>3. jobs = [j \in DOMAIN jobs |-> jobs[j]] BY <1>2, LenProperties
<1> QED BY <1>1, <1>3

(* One entry changes, and its job is neither listed anew nor reaped.       *)
LEMMA MovedOne ==
  ASSUME JobsOK, jobs = [j \in DOMAIN jobs |-> jobs[j]], NEW j \in DOMAIN jobs, NEW r,
         DOMAIN r = JobFields, r.st \in {"run", "stop", "dead", "gone"},
         r.how \in {"", "exited", "killed"}, r.jid = jobs[j].jid, r.list = jobs[j].list,
         sh.st = "up" => /\ r.st = "gone" => jobs[j].st = "gone"
                         /\ r.st = "dead" => r.how # ""
  PROVE  Moved([jobs EXCEPT ![j] = r])
BY DEF Moved, JobsOK

(* No entry changes.                                                       *)
LEMMA MovedNone ==
  ASSUME JobsOK, jobs = [j \in DOMAIN jobs |-> jobs[j]]
  PROVE  Moved(jobs)
BY DEF Moved, JobsOK

(* A job ends.                                                             *)
LEMMA MovedEnded ==
  ASSUME JobsOK, jobs = [j \in DOMAIN jobs |-> jobs[j]], NEW j \in DOMAIN jobs,
         NEW how \in {"exited", "killed"}
  PROVE  Moved(Ended(j, how))
<1> DEFINE r == [jobs[j] EXCEPT !.st = IF sh.st = "up" THEN "dead" ELSE "gone", !.how = how]
<1>1. /\ DOMAIN r = JobFields /\ r.st \in {"run", "stop", "dead", "gone"}
      /\ r.how \in {"", "exited", "killed"} /\ r.jid = jobs[j].jid /\ r.list = jobs[j].list
      /\ sh.st = "up" => r.st # "gone" /\ r.how # ""
  BY DEF JobsOK, JobFields
<1>2. Ended(j, how) = [jobs EXCEPT ![j] = r]
  BY DEF Ended
<1> HIDE DEF r
<1> QED BY <1>1, <1>2, MovedOne

(* A job's group gets a signal, whatever the job does with it.             *)
LEMMA MovedSignalled ==
  ASSUME JobsOK, jobs = [j \in DOMAIN jobs |-> jobs[j]], NEW j, NEW s
  PROVE  Moved(Signalled(j, s))
<1> DEFINE run   == [jobs[j] EXCEPT !.st = "run"]
           stop  == [jobs[j] EXCEPT !.st = "stop", !.news = TRUE]
           catch == [jobs[j] EXCEPT !.term = IF @ = "no" THEN "pending" ELSE @]
<1>2. CASE j \notin DOMAIN jobs
  <2>1. \A e : [jobs EXCEPT ![j] = e] = jobs BY <1>2
  <2>2. Signalled(j, s) = jobs
    BY <1>2, <2>1 DEF Signalled, Ended
  <2> QED BY <2>2, MovedNone
<1>3. CASE j \in DOMAIN jobs
  <2>1. /\ DOMAIN jobs[j] = JobFields /\ jobs[j].how \in {"", "exited", "killed"}
        /\ jobs[j].st \in {"run", "stop", "dead", "gone"}
        /\ sh.st = "up" /\ jobs[j].st = "dead" => jobs[j].how # ""
    BY <1>3 DEF JobsOK
  <2>2. Moved([jobs EXCEPT ![j] = run])
    <3>1. /\ DOMAIN run = JobFields /\ run.st = "run" /\ run.how = jobs[j].how
          /\ run.jid = jobs[j].jid /\ run.list = jobs[j].list
      BY <2>1 DEF JobFields
    <3> HIDE DEF run
    <3> QED BY <1>3, <2>1, <3>1, MovedOne
  <2>3. Moved([jobs EXCEPT ![j] = stop])
    <3>1. /\ DOMAIN stop = JobFields /\ stop.st = "stop" /\ stop.how = jobs[j].how
          /\ stop.jid = jobs[j].jid /\ stop.list = jobs[j].list
      BY <2>1 DEF JobFields
    <3> HIDE DEF stop
    <3> QED BY <1>3, <2>1, <3>1, MovedOne
  <2>4. Moved([jobs EXCEPT ![j] = catch])
    <3>1. /\ DOMAIN catch = JobFields /\ catch.st = jobs[j].st /\ catch.how = jobs[j].how
          /\ catch.jid = jobs[j].jid /\ catch.list = jobs[j].list
      BY <2>1 DEF JobFields
    <3> HIDE DEF catch
    <3> QED BY <1>3, <2>1, <3>1, MovedOne
  <2>5. Moved(Ended(j, "killed")) /\ Moved(jobs)
    BY <1>3, MovedEnded, MovedNone
  <2>6. /\ [jobs EXCEPT ![j].st = "run"] = [jobs EXCEPT ![j] = run]
        /\ [jobs EXCEPT ![j].st = "stop", ![j].news = TRUE] = [jobs EXCEPT ![j] = stop]
        /\ [jobs EXCEPT ![j].term = IF @ = "no" THEN "pending" ELSE @] = [jobs EXCEPT ![j] = catch]
    BY <1>3
  <2>7. \/ Signalled(j, s) = jobs
        \/ Signalled(j, s) = Ended(j, "killed")
        \/ Signalled(j, s) = [jobs EXCEPT ![j].st = "run"]
        \/ Signalled(j, s) = [jobs EXCEPT ![j].st = "stop", ![j].news = TRUE]
        \/ Signalled(j, s) = [jobs EXCEPT ![j].term = IF @ = "no" THEN "pending" ELSE @]
    BY DEF Signalled
  <2> HIDE DEF run, stop, catch
  <2> QED BY <2>2, <2>3, <2>4, <2>5, <2>6, <2>7
<1> QED BY <1>2, <1>3

(* A job goes on to another step.                                          *)
LEMMA MovedStep ==
  ASSUME NEW js, Moved(js), NEW j \in DOMAIN jobs, NEW e
  PROVE  Moved([js EXCEPT ![j].step = e])
<1> DEFINE r == [js[j] EXCEPT !.step = e]
<1>1. /\ DOMAIN js = DOMAIN jobs /\ DOMAIN js[j] = JobFields BY DEF Moved
<1>2. /\ DOMAIN r = JobFields /\ r.st = js[j].st /\ r.how = js[j].how
      /\ r.jid = js[j].jid /\ r.list = js[j].list
  BY <1>1 DEF JobFields
<1> DEFINE k == [js EXCEPT ![j].step = e]
<1>3. /\ js = [i \in DOMAIN jobs |-> js[i]] BY DEF Moved
<1>4. /\ k = [i \in DOMAIN jobs |-> k[i]] /\ k[j] = r
      /\ \A i \in DOMAIN jobs : i # j => k[i] = js[i]
  BY <1>1, <1>3
<1> HIDE DEF r, k
<1>5. Moved(k)
  <2>1. \A i \in DOMAIN jobs :
          /\ DOMAIN k[i] = DOMAIN js[i] /\ k[i].st = js[i].st /\ k[i].how = js[i].how
          /\ k[i].jid = js[i].jid /\ k[i].list = js[i].list
    BY <1>1, <1>2, <1>4
  <2>2. \A i \in DOMAIN jobs :
          /\ DOMAIN js[i] = JobFields
          /\ js[i].st \in {"run", "stop", "dead", "gone"}
          /\ js[i].how \in {"", "exited", "killed"}
          /\ js[i].jid = jobs[i].jid /\ js[i].list = jobs[i].list
          /\ sh.st = "up" =>
               /\ js[i].st = "gone" => jobs[i].st = "gone"
               /\ js[i].st = "dead" => js[i].how # ""
    BY DEF Moved
  <2> QED BY ONLY <1>4, <2>1, <2>2 DEF Moved
<1> QED BY <1>5 DEF k

(* A job's handler of SIGTERM goes on.                                     *)
LEMMA MovedTerm ==
  ASSUME NEW js, Moved(js), NEW j \in DOMAIN jobs, NEW e
  PROVE  Moved([js EXCEPT ![j].term = e])
<1> DEFINE r == [js[j] EXCEPT !.term = e]
<1>1. /\ DOMAIN js = DOMAIN jobs /\ DOMAIN js[j] = JobFields BY DEF Moved
<1>2. /\ DOMAIN r = JobFields /\ r.st = js[j].st /\ r.how = js[j].how
      /\ r.jid = js[j].jid /\ r.list = js[j].list
  BY <1>1 DEF JobFields
<1> DEFINE k == [js EXCEPT ![j].term = e]
<1>3. /\ js = [i \in DOMAIN jobs |-> js[i]] BY DEF Moved
<1>4. /\ k = [i \in DOMAIN jobs |-> k[i]] /\ k[j] = r
      /\ \A i \in DOMAIN jobs : i # j => k[i] = js[i]
  BY <1>1, <1>3
<1> HIDE DEF r, k
<1>5. Moved(k)
  <2>1. \A i \in DOMAIN jobs :
          /\ DOMAIN k[i] = DOMAIN js[i] /\ k[i].st = js[i].st /\ k[i].how = js[i].how
          /\ k[i].jid = js[i].jid /\ k[i].list = js[i].list
    BY <1>1, <1>2, <1>4
  <2>2. \A i \in DOMAIN jobs :
          /\ DOMAIN js[i] = JobFields
          /\ js[i].st \in {"run", "stop", "dead", "gone"}
          /\ js[i].how \in {"", "exited", "killed"}
          /\ js[i].jid = jobs[i].jid /\ js[i].list = jobs[i].list
          /\ sh.st = "up" =>
               /\ js[i].st = "gone" => jobs[i].st = "gone"
               /\ js[i].st = "dead" => js[i].how # ""
    BY DEF Moved
  <2> QED BY ONLY <1>4, <2>1, <2>2 DEF Moved
<1> QED BY <1>5 DEF k

(* A job goes on to its next step.                                         *)
LEMMA MovedAdvanced ==
  ASSUME JobsOK, jobs = [j \in DOMAIN jobs |-> jobs[j]], NEW j \in DOMAIN jobs
  PROVE  Moved(Advanced(j))
<1>1. Moved([jobs EXCEPT ![j].step = jobs[j].step + 1]) BY MovedNone, MovedStep
<1> QED BY <1>1 DEF Advanced

(* The parts of the invariant that speak of the jobs, after such a move.   *)
LEMMA MovedKeeps ==
  ASSUME Shape, ChildInv, Moved(jobs'), sh'.st = sh.st
  PROVE  /\ IsSeq(jobs') /\ NoNewFg /\ DOMAIN jobs' = DOMAIN jobs
         /\ \A j \in DOMAIN jobs' :
              /\ DOMAIN jobs'[j] = JobFields
              /\ jobs'[j].st \in {"run", "stop", "dead", "gone"}
              /\ jobs'[j].how \in {"", "exited", "killed"}
         /\ sh.st = "up" => \A j \in DOMAIN jobs' : jobs'[j].st = "dead" => jobs'[j].how # ""
<1>1. IsSeq(jobs') /\ DOMAIN jobs' = DOMAIN jobs
  BY SeqSame DEF Moved, Shape
<1>2. NoNewFg BY <1>1 DEF Moved, NoNewFg
<1>3. \A j \in DOMAIN jobs :
        /\ DOMAIN jobs'[j] = JobFields
        /\ jobs'[j].st \in {"run", "stop", "dead", "gone"}
        /\ jobs'[j].how \in {"", "exited", "killed"}
        /\ sh.st = "up" /\ jobs'[j].st = "dead" => jobs'[j].how # ""
  BY DEF Moved
<1> QED BY <1>1, <1>2, <1>3

(* ChildInv after a move of the jobs, with the frames as they were.        *)
LEMMA ChildKept ==
  ASSUME Shape, ChildInv, Moved(jobs'), sh'.st = sh.st, sh'.frames = sh.frames,
         rpc' = "clean" => rpc = "clean" /\ doomed' = doomed
  PROVE  ChildInv'
<1>1. /\ DOMAIN jobs' = DOMAIN jobs
      /\ sh.st = "up" => \A j \in DOMAIN jobs' : jobs'[j].st = "dead" => jobs'[j].how # ""
  BY MovedKeeps
<1>2. ASSUME sh'.st = "up", NEW j \in Listed', jobs'[j].st = "gone"
      PROVE  Reaping(j)'
  <2>1. j \in Listed /\ jobs[j].st = "gone"
    BY <1>1, <1>2 DEF Listed, Moved
  <2> QED BY <1>2, <2>1 DEF ChildInv, Reaping
<1>3. ASSUME sh'.st = "up", Len(sh'.frames) = 2, sh'.frames[2].at \in {"hget", "hkill"}
      PROVE  /\ sh'.frames[2].job \in DOMAIN jobs'
             /\ jobs'[sh'.frames[2].job].st # "gone"
  BY <1>1, <1>3 DEF ChildInv, Moved
<1>4. rpc' = "clean" => doomed' = {} \/ 0 \in doomed' \/ sh'.st \in {"zombie", "gone"}
  BY DEF ChildInv
<1> QED BY <1>1, <1>2, <1>3, <1>4 DEF ChildInv

(* A step that the shell does not take.                                    *)
SameShell ==
  /\ sh'.st = sh.st /\ sh'.frames = sh.frames /\ DOMAIN sh' = {"st", "frames", "pend"}
  /\ sh'.pend \subseteq {"CHLD", "INT", "TSTP"}

(* Shape after a move of the jobs and of runtrace.                         *)
LEMMA ShapeKept ==
  ASSUME Shape, ChildInv, Moved(jobs'), SameShell, Printed, IsSeq(dataDn'), IsSeq(shUp'), IsSeq(shDn'),
         pos' \in Nat \ {0}
  PROVE  Shape'
<1>1. IsSeq(dataUp') BY PrintedKept DEF Shape
<1>2. /\ IsSeq(jobs')
      /\ \A j \in DOMAIN jobs' :
              /\ DOMAIN jobs'[j] = JobFields
              /\ jobs'[j].st \in {"run", "stop", "dead", "gone"}
              /\ jobs'[j].how \in {"", "exited", "killed"}
  BY MovedKeeps DEF SameShell
<1> QED BY <1>1, <1>2 DEF Shape, SameShell, IsSeq

(* A move of a job, with the output it prints.                             *)
LEMMA JobQuiet ==
  ASSUME RInv, Moved(jobs'), SameShell, Printed, DOMAIN jobs # {},
         UNCHANGED <<rvars, dataDn, shUp, shDn>>
  PROVE  RInv'
<1>0. Shape /\ FrameOK /\ Early /\ SyncPaired /\ Counted /\ NoFg /\ ChildInv
  BY DEF RInv
<1>1. Shape'
  BY <1>0, ShapeKept DEF Shape, rvars
<1>2. FrameOK' BY <1>0, FrameKept DEF SameShell, rvars
<1>3. Early'
  <2>1. sh.st \notin {"none", "forked", "session"}
    <3>1. jobs # <<>> OBVIOUS
    <3> QED BY <1>0, <3>1 DEF Early
  <2> QED BY <1>0, <2>1 DEF Early, SameShell, rvars
<1>4. SyncPaired' BY <1>0, SyncKept DEF SameShell, rvars
<1>5. Counted' BY <1>0, CountedKept DEF SameShell, rvars
<1>6. NoFg' BY <1>0, NoFgKept, MovedKeeps DEF SameShell
<1>7. ChildInv' BY <1>0, ChildKept DEF SameShell, rvars
<1> QED BY <1>1, <1>2, <1>3, <1>4, <1>5, <1>6, <1>7 DEF RInv

(* SIGCHLD is added to the shell's pending signals.                        *)
LEMMA Told ==
  ASSUME Shape, NEW js
  PROVE  /\ ShellTold(js).st = sh.st /\ ShellTold(js).frames = sh.frames
         /\ DOMAIN ShellTold(js) = {"st", "frames", "pend"}
         /\ ShellTold(js).pend \subseteq {"CHLD", "INT", "TSTP"}
BY DEF ShellTold, Shape

(* Every step of a job keeps the invariant.                                *)
LEMMA JobStep ==
  ASSUME RInv, NEW j \in DOMAIN jobs, Job(j)
  PROVE  RInv'
<1>0. Shape /\ ChildInv /\ JobsOK /\ jobs = [i \in DOMAIN jobs |-> jobs[i]] /\ Moved(jobs)
  BY JobsAre, MovedNone DEF RInv
<1>a. sh' = sh => SameShell BY <1>0 DEF SameShell, Shape
<1>b. (sh' = ShellTold(jobs')) => SameShell BY <1>0, Told DEF SameShell
<1>c. UNCHANGED <<rvars, dataDn, shUp, shDn>>
  BY DEF Job, JobPrint, JobSignal, JobWait, JobKillsShell, JobKillsItself, JobPkill, JobTerm,
         JobExit, socks
<1>d. DOMAIN jobs # {} OBVIOUS
<1>1. CASE JobPrint(j)
  BY <1>0, <1>1, <1>a, <1>c, <1>d, MovedAdvanced, JobQuiet DEF JobPrint, Printed
<1>2. CASE JobSignal(j)
  BY <1>0, <1>2, <1>a, <1>c, <1>d, MovedAdvanced, JobQuiet DEF JobSignal, Printed
<1>3. CASE JobWait(j)
  BY <1>0, <1>3, <1>a, <1>c, <1>d, MovedAdvanced, JobQuiet DEF JobWait, Printed
<1>4. CASE JobKillsShell(j)
  <2>1. SameShell BY <1>0, <1>4 DEF JobKillsShell, SameShell, Shape
  <2> QED BY <1>0, <1>4, <2>1, <1>c, <1>d, MovedAdvanced, JobQuiet DEF JobKillsShell, Printed, socks
<1>5. CASE JobKillsItself(j)
  <2>1. PICK s : jobs' = [Signalled(j, s) EXCEPT ![j].step = @ + 1]
    BY <1>5 DEF JobKillsItself
  <2>2. Moved(jobs') BY <1>0, <2>1, MovedSignalled, MovedStep
  <2> QED BY <1>5, <2>2, <1>b, <1>c, <1>d, JobQuiet DEF JobKillsItself, Printed, socks
<1>6. CASE JobPkill(j)
  <2>1. \A i \in DOMAIN jobs : Moved(Signalled(i, "TERM"))
    BY <1>0, MovedSignalled
  <2>2. Moved(jobs')
    <3> DEFINE r == [jobs[j] EXCEPT !.step = @ + 1]
    <3>1. /\ DOMAIN r = JobFields /\ r.st = jobs[j].st /\ r.how = jobs[j].how
          /\ r.jid = jobs[j].jid /\ r.list = jobs[j].list
      BY <1>0 DEF JobsOK, JobFields
    <3>2. /\ jobs' = [i \in DOMAIN jobs |-> jobs'[i]]
          /\ \A i \in DOMAIN jobs : jobs'[i] \in {r, Signalled(i, "TERM")[i], jobs[i]}
          /\ \A i \in DOMAIN jobs : i # j => jobs'[i] \in {Signalled(i, "TERM")[i], jobs[i]}
          /\ jobs'[j] = r
      BY <1>6 DEF JobPkill
    <3> HIDE DEF r
    <3>3. ASSUME NEW i \in DOMAIN jobs, NEW f,
                 (i = j /\ f = r) \/ f = Signalled(i, "TERM")[i] \/ f = jobs[i]
          PROVE  /\ DOMAIN f = JobFields /\ f.st \in {"run", "stop", "dead", "gone"}
                 /\ f.how \in {"", "exited", "killed"}
                 /\ f.jid = jobs[i].jid /\ f.list = jobs[i].list
                 /\ sh.st = "up" => /\ f.st = "gone" => jobs[i].st = "gone"
                                    /\ f.st = "dead" => f.how # ""
      <4>1. CASE i = j /\ f = r BY <1>0, <3>1, <3>3, <4>1 DEF JobsOK
      <4>2. CASE f = Signalled(i, "TERM")[i] BY <2>1, <4>2 DEF Moved
      <4>3. CASE f = jobs[i] BY <1>0, <4>3 DEF JobsOK
      <4> QED BY <4>1, <4>2, <4>3, <3>3
    <3>4. \A i \in DOMAIN jobs :
            (i = j /\ jobs'[i] = r) \/ jobs'[i] = Signalled(i, "TERM")[i] \/ jobs'[i] = jobs[i]
      BY <3>2
    <3> QED BY <3>2, <3>3, <3>4 DEF Moved
  <2> QED BY <1>6, <2>2, <1>a, <1>c, <1>d, JobQuiet DEF JobPkill, Printed, socks
<1>7. CASE JobTerm(j)
  <2>1. Moved([jobs EXCEPT ![j].term = "wait"]) /\ Moved([jobs EXCEPT ![j].term = "signal"])
        /\ Moved(Ended(j, "killed"))
    BY <1>0, MovedTerm, MovedEnded
  <2>2. Moved(jobs') /\ SameShell BY <1>7, <2>1, <1>a, <1>b DEF JobTerm
  <2> QED BY <1>7, <2>2, <1>c, <1>d, JobQuiet DEF JobTerm, Printed
<1>8. CASE JobExit(j)
  BY <1>0, <1>8, <1>b, <1>c, <1>d, MovedEnded, JobQuiet DEF JobExit, Printed, socks
<1> QED BY <1>1, <1>2, <1>3, <1>4, <1>5, <1>6, <1>7, <1>8 DEF Job

(* So does the time-out of a test program.                                 *)
LEMMA AlarmStep ==
  ASSUME RInv, NEW j \in DOMAIN jobs, JobAlarm(j)
  PROVE  RInv'
<1>1. Shape /\ ChildInv /\ JobsOK /\ jobs = [i \in DOMAIN jobs |-> jobs[i]] BY JobsAre DEF RInv
<1>2. SameShell
  <2>1. sh' = ShellTold(jobs') BY DEF JobAlarm
  <2> QED BY <1>1, <2>1, Told DEF SameShell
<1>3. Moved(jobs') BY <1>1, MovedEnded DEF JobAlarm
<1>4. UNCHANGED <<rvars, dataDn, shUp, shDn>> /\ Printed BY DEF JobAlarm, Printed, socks
<1>5. DOMAIN jobs # {} OBVIOUS
<1> QED BY <1>2, <1>3, <1>4, <1>5, JobQuiet

(* A frame waits or does not.                                              *)
LEMMA OneIs == ASSUME NEW f PROVE One(f) \in {0, 1} /\ (f.sync # "wait" <=> One(f) = 0)
BY DEF One

(* Replacing the top frame counts the new frame for the old one.           *)
LEMMA TopWaits ==
  ASSUME Shape, sh.st = "up", NEW f \in FrameRec, NEW fr, fr = Append(Front(sh.frames), f)
  PROVE  /\ Cardinality(Waiters(sh.frames)) \in Nat
         /\ Cardinality(Waiters(fr)) = Cardinality(Waiters(sh.frames)) - One(Top) + One(f)
<1> DEFINE n == Len(sh.frames)
<1>1. /\ fr \in Seq(FrameRec) /\ Len(fr) = n /\ fr[Len(fr)] = f
      /\ Len(fr) = 2 => fr[1] = sh.frames[1]
  BY Replaced
<1>2. IsSeq(sh.frames) /\ n \in {1, 2} /\ Top = sh.frames[n] BY Frames
<1>3. IsSeq(fr) BY <1>1, SeqIs
<1>4. /\ Cardinality(Waiters(sh.frames)) = One(sh.frames[1]) + (IF n = 2 THEN One(sh.frames[2]) ELSE 0)
      /\ Cardinality(Waiters(fr)) = One(fr[1]) + (IF n = 2 THEN One(fr[2]) ELSE 0)
  BY <1>1, <1>2, <1>3, WaitersIs
<1>5. /\ One(fr[1]) \in {0, 1} /\ One(fr[2]) \in {0, 1} /\ One(f) \in {0, 1}
      /\ One(sh.frames[1]) \in {0, 1} /\ One(sh.frames[2]) \in {0, 1}
  BY OneIs
<1>6. CASE n = 1 BY <1>1, <1>2, <1>4, <1>5, <1>6
<1>7. CASE n = 2 BY <1>1, <1>2, <1>4, <1>5, <1>7
<1> QED BY <1>2, <1>6, <1>7

(* Held is a number, zero before the first line.                           *)
LEMMA HeldIs ==
  ASSUME Shape PROVE Held \in Int /\ (pos = 1 => Held = 0)
<1>1. pos \in Nat \ {0} BY DEF Shape
<1>2. Lines({"SHELLWAIT"}) \in Nat /\ (pos = 1 => Lines({"SHELLWAIT"}) = 0) BY <1>1, LinesNat
<1>3. Lines({"SHELLSIGNAL"}) \in Nat /\ (pos = 1 => Lines({"SHELLSIGNAL"}) = 0) BY <1>1, LinesNat
<1> QED BY <1>2, <1>3 DEF Held

(* SyncPaired, with Waiters.                                               *)
LEMMA SyncIs ==
  SyncPaired <=> (sh.st = "up" => Len(shUp) + Held + Len(shDn) = Cardinality(Waiters(sh.frames)))
BY DEF SyncPaired, Waiters

(* The top frame goes on to another place.                                 *)
Fit(f) ==
  /\ f \in FrameRec
  /\ f.at \in {"getpid", "setst", "kill"} => f.what \in {"BG", "FG"}
  /\ f.at = "hfg" => f.what \in {"INT", "TSTP"}
  /\ f.sync = "no"

(* Shape, of the shell.                                                    *)
ShellOK ==
  /\ DOMAIN sh = {"st", "frames", "pend"} /\ sh.st \in {"none", "forked", "session", "up", "zombie", "gone"}
  /\ sh.frames \in Seq(FrameRec)
  /\ sh.st = "up" => Len(sh.frames) \in {1, 2}
  /\ sh.pend \subseteq {"CHLD", "INT", "TSTP"}

(* Shape, of the job table.                                                *)
JobsShape ==
  /\ IsSeq(jobs)
  /\ \A j \in DOMAIN jobs :
       /\ DOMAIN jobs[j] = JobFields
       /\ jobs[j].st \in {"run", "stop", "dead", "gone"}
       /\ jobs[j].how \in {"", "exited", "killed"}

(* Shape in parts.                                                         *)
LEMMA ShapeIs ==
  Shape <=> /\ ShellOK /\ JobsShape /\ pos \in Nat \ {0}
            /\ IsSeq(dataUp) /\ IsSeq(dataDn) /\ IsSeq(shUp) /\ IsSeq(shDn)
BY DEF Shape, ShellOK, JobsShape

(* The top frame has gone on to f.                                         *)
Goes(f) ==
  /\ sh'.st = "up" /\ Len(sh'.frames) = Len(sh.frames) /\ sh'.frames[Len(sh.frames)] = f
  /\ Len(sh.frames) = 2 => sh'.frames[1] = sh.frames[1]
  /\ sh'.pend = sh.pend /\ ShellOK'

(* WithTop makes the top frame go on.                                      *)
LEMMA WithTopIs ==
  ASSUME Shape, sh.st = "up", NEW f \in FrameRec, sh' = WithTop(f)
  PROVE  Goes(f) /\ sh'.frames = Append(Front(sh.frames), f)
<1>1. sh'.frames = Append(Front(sh.frames), f) /\ sh'.st = "up" /\ sh'.pend = sh.pend
      /\ DOMAIN sh' = {"st", "frames", "pend"}
  BY DEF WithTop, Shape
<1>2. /\ sh'.frames \in Seq(FrameRec) /\ Len(sh'.frames) = Len(sh.frames)
      /\ sh'.frames[Len(sh'.frames)] = f
      /\ Len(sh'.frames) = 2 => sh'.frames[1] = sh.frames[1]
  BY <1>1, Replaced
<1>3. Len(sh.frames) \in {1, 2} BY DEF Shape
<1>4. ShellOK' BY <1>1, <1>2, <1>3 DEF ShellOK, Shape
<1> QED BY <1>1, <1>2, <1>4 DEF Goes

(* A frame that waits for nothing goes on to a place where it waits for    *)
(* nothing: the datagrams stay paired.                                     *)
LEMMA ShellGoes ==
  ASSUME RInv, NEW S, At(S), Top.sync # "wait", NEW f, Fit(f), sh' = WithTop(f),
         Top.at \in MainPlaces <=> f.at \in MainPlaces,
         UNCHANGED <<rvars, shUp, shDn>>
  PROVE  Goes(f) /\ FrameOK' /\ Early' /\ SyncPaired'
<1>0. Shape /\ FrameOK /\ Early /\ SyncPaired /\ sh.st = "up" /\ f \in FrameRec
  BY DEF RInv, At, Fit
<1>1. Goes(f) /\ sh'.frames = Append(Front(sh.frames), f) BY <1>0, WithTopIs
<1>2. FrameOK'
  <2>1. /\ Len(sh.frames) \in {1, 2} /\ DOMAIN sh.frames = 1 .. Len(sh.frames)
        /\ Top = sh.frames[Len(sh.frames)] /\ Top \in FrameRec
    BY <1>0, Frames
  <2>2. DOMAIN sh'.frames = 1 .. Len(sh.frames)
    <3>1. sh'.frames \in Seq(FrameRec) BY <1>1 DEF Goes, ShellOK
    <3> QED BY <1>1, <3>1, LenProperties DEF Goes
  <2>3. f.at \in MainPlaces \cup HandlerPlaces BY <1>0 DEF FrameRec
  <2>4. CASE Len(sh.frames) = 1
    <3>1. DOMAIN sh'.frames = {1} BY <2>2, <2>4
    <3>2. f.at \in MainPlaces BY <1>0, <2>1, <2>4 DEF FrameOK
    <3> QED BY <1>1, <3>1, <3>2, <2>4 DEF FrameOK, Goes, Fit
  <2>5. CASE Len(sh.frames) = 2
    <3>1. DOMAIN sh'.frames = {1, 2} /\ DOMAIN sh.frames = {1, 2} BY <2>1, <2>2, <2>5
    <3>2. Top.at \in HandlerPlaces BY <1>0, <2>1, <2>5 DEF FrameOK
    <3>3. f.at \in HandlerPlaces BY <2>3, <3>2 DEF MainPlaces, HandlerPlaces
    <3>4. trace' = trace BY DEF rvars
    <3>5. sh'.frames[1] = sh.frames[1] /\ sh'.frames[2] = f BY <1>1, <2>5 DEF Goes
    <3> QED BY <1>0, <1>1, <3>1, <3>3, <3>4, <3>5, <2>5 DEF FrameOK, Goes, Fit, Point
  <2> QED BY <2>1, <2>4, <2>5
<1>3. Early' BY <1>0, <1>1, EarlyKept DEF Goes, rvars
<1>4. SyncPaired'
  <2>1. Cardinality(Waiters(sh'.frames)) = Cardinality(Waiters(sh.frames)) - One(Top) + One(f)
        /\ Cardinality(Waiters(sh.frames)) \in Nat
    BY <1>0, <1>1, TopWaits
  <2>2. One(Top) = 0 /\ One(f) = 0 BY OneIs DEF Fit
  <2>3. Cardinality(Waiters(sh'.frames)) = Cardinality(Waiters(sh.frames)) BY <2>1, <2>2
  <2>4. Held' = Held BY DEF Held, Lines, rvars
  <2>5. SyncPaired' <=> (sh'.st = "up" => Len(shUp') + Held' + Len(shDn') = Cardinality(Waiters(sh'.frames)))
    BY DEF SyncPaired, Waiters
  <2> QED BY <1>0, <2>3, <2>4, <2>5, SyncIs
<1> QED BY <1>1, <1>2, <1>3, <1>4

(* The parts of ChildInv: when runtrace kills what ps listed, the shell is *)
(* killed or has gone, if anything is;                                     *)
Doomed == rpc = "clean" => doomed = {} \/ 0 \in doomed \/ sh.st \in {"zombie", "gone"}
(* no job on the list has been reaped;                                     *)
Unreaped == \A j \in Listed : jobs[j].st # "gone"
(* a dead job ended somehow.                                               *)
DeadHow  == \A j \in DOMAIN jobs : jobs[j].st = "dead" => jobs[j].how # ""

(* ChildInv while main runs.                                               *)
LEMMA ChildOne ==
  ASSUME sh.st = "up", Len(sh.frames) = 1
  PROVE  ChildInv <=> Unreaped /\ DeadHow /\ Doomed
<1>1. Len(sh.frames) # 2 OBVIOUS
<1> QED BY <1>1 DEF ChildInv, Reaping, Unreaped, DeadHow, Doomed

(* ChildInv of a step after which main runs.                               *)
LEMMA ChildOneNext ==
  ASSUME sh'.st = "up", Len(sh'.frames) = 1, Unreaped', DeadHow', Doomed'
  PROVE  ChildInv'
<1>1. Len(sh'.frames) # 2 OBVIOUS
<1> QED BY <1>1 DEF ChildInv, Reaping, Unreaped, DeadHow, Doomed

(* A handler goes on.                                                      *)
LEMMA HandlerGoes ==
  ASSUME RInv, NEW S, At(S), S \subseteq HandlerPlaces, Top.at \notin DOMAIN Point \/ Ready,
         NEW f, Fit(f), f.at \in HandlerPlaces, sh' = WithTop(f),
         UNCHANGED <<rvars, dataDn, shUp, shDn>>, Printed, JobsShape', NoNewFg,
         Goes(f) => ChildInv'
  PROVE  RInv'
<1>0. Shape /\ FrameOK /\ Counted /\ NoFg /\ ChildInv BY DEF RInv
<1>1. /\ sh.st = "up" /\ Top.at \in HandlerPlaces /\ Len(sh.frames) = 2 /\ Top.sync # "wait"
  BY <1>0, Where
<1>2. Top.at \notin MainPlaces /\ f.at \notin MainPlaces BY <1>1 DEF MainPlaces, HandlerPlaces
<1>3. Goes(f) /\ FrameOK' /\ Early' /\ SyncPaired' BY <1>1, <1>2, ShellGoes
<1>4. Shape'
  <2>1. IsSeq(dataUp') BY <1>0, PrintedKept, ShapeIs
  <2>2. pos' \in Nat \ {0} /\ IsSeq(dataDn') /\ IsSeq(shUp') /\ IsSeq(shDn')
    BY <1>0, ShapeIs DEF rvars
  <2>3. ShellOK' BY <1>3 DEF Goes
  <2> QED BY <2>1, <2>2, <2>3, ShapeIs DEF Shape, ShellOK, JobsShape
<1>5. sh'.frames[1] = sh.frames[1] /\ sh'.st = "up" BY <1>1, <1>3 DEF Goes
<1>6. Counted' BY <1>0, <1>1, <1>5, CountedKept DEF rvars
<1>7. NoFg' BY <1>0, <1>1, <1>5, NoFgKept
<1> QED BY <1>3, <1>4, <1>6, <1>7 DEF RInv

(* A handler returns.                                                      *)
LEMMA HandlerReturns ==
  ASSUME RInv, NEW S, At(S), S \subseteq HandlerPlaces \ {"after"}, Top.at \notin DOMAIN Point \/ Ready,
         sh'.st = "up", sh'.frames = Front(sh.frames), DOMAIN sh' = {"st", "frames", "pend"},
         sh'.pend \subseteq {"CHLD", "INT", "TSTP"},
         UNCHANGED <<rvars, socks>>, Moved(jobs')
  PROVE  RInv'
<1>0. Shape /\ FrameOK /\ Early /\ SyncPaired /\ Counted /\ NoFg /\ ChildInv BY DEF RInv
<1>1. /\ sh.st = "up" /\ Top.at \in HandlerPlaces \ {"after"} /\ Len(sh.frames) = 2 /\ Top.sync # "wait"
      /\ Top = sh.frames[2]
  BY <1>0, Where
<1>2. /\ sh'.frames \in Seq(FrameRec) /\ Len(sh'.frames) = 1 /\ sh'.frames[1] = sh.frames[1]
  BY <1>0, <1>1, Taken
<1>3. DOMAIN sh'.frames = {1} /\ DOMAIN sh.frames = {1, 2} /\ IsSeq(sh'.frames) /\ IsSeq(sh.frames)
  <2>1. IsSeq(sh'.frames) /\ IsSeq(sh.frames) BY <1>2, <1>0, SeqIs DEF Shape
  <2>2. DOMAIN sh'.frames = 1 .. 1 /\ DOMAIN sh.frames = 1 .. 2 BY <1>1, <1>2, <2>1, SeqBasics
  <2> QED BY <2>1, <2>2
<1>4. JobsShape' /\ NoNewFg /\ DOMAIN jobs' = DOMAIN jobs
      /\ \A j \in DOMAIN jobs' : jobs'[j].st = "dead" => jobs'[j].how # ""
  BY <1>0, <1>1, MovedKeeps DEF JobsShape, IsSeq
<1>5. Shape'
  <2>1. ShellOK' BY <1>2 DEF ShellOK
  <2>2. pos' \in Nat \ {0} /\ IsSeq(dataUp') /\ IsSeq(dataDn') /\ IsSeq(shUp') /\ IsSeq(shDn')
    BY <1>0, ShapeIs DEF rvars, socks
  <2> QED BY <1>4, <2>1, <2>2 DEF Shape, ShellOK, JobsShape
<1>6. FrameOK' BY <1>0, <1>1, <1>2, <1>3 DEF FrameOK, Point, rvars
<1>7. Early' BY <1>0, <1>1, EarlyKept DEF rvars
<1>8. SyncPaired'
  <2>1. /\ Cardinality(Waiters(sh.frames)) = One(sh.frames[1]) + One(sh.frames[2])
        /\ Cardinality(Waiters(sh'.frames)) = One(sh.frames[1]) + 0
    BY <1>1, <1>2, <1>3, WaitersIs
  <2>2. One(sh.frames[2]) = 0 /\ One(sh.frames[1]) \in {0, 1} BY <1>1, OneIs
  <2>3. Cardinality(Waiters(sh'.frames)) = Cardinality(Waiters(sh.frames)) BY <2>1, <2>2
  <2>4. Held' = Held BY DEF Held, Lines, rvars
  <2>5. SyncPaired' <=> (sh'.st = "up" => Len(shUp') + Held' + Len(shDn') = Cardinality(Waiters(sh'.frames)))
    BY DEF SyncPaired, Waiters
  <2> QED BY <1>0, <1>1, <2>3, <2>4, <2>5, SyncIs DEF socks
<1>9. Counted' BY <1>0, <1>1, <1>2, CountedKept DEF rvars, socks, Printed
<1>10. NoFg' BY <1>0, <1>1, <1>2, <1>4, NoFgKept
<1>11. ChildInv'
  <2>1. ASSUME NEW j \in Listed', jobs'[j].st = "gone" PROVE FALSE
    <3>1. j \in Listed /\ jobs[j].st = "gone"
      BY <1>1, <1>4, <2>1 DEF Listed, Moved
    <3> QED BY <1>0, <1>1, <3>1 DEF ChildInv, Reaping
  <2>2. Doomed' BY <1>0, <1>1 DEF ChildInv, Doomed, rvars
  <2>3. Unreaped' /\ DeadHow' BY <1>4, <2>1 DEF Unreaped, DeadHow
  <2> QED BY <1>2, <2>2, <2>3, ChildOneNext
<1> QED BY <1>5, <1>6, <1>7, <1>8, <1>9, <1>10, <1>11 DEF RInv

(* Main goes on.  No handler is there, so no job is being reaped.          *)
LEMMA MainGoes ==
  ASSUME RInv, NEW S, At(S), S \subseteq MainPlaces, Top.at \notin DOMAIN Point \/ Ready,
         NEW f, Fit(f), f.at \in MainPlaces, sh' = WithTop(f),
         UNCHANGED <<rvars, shUp, shDn>>, JobsShape',
         IsSeq(dataUp'), IsSeq(dataDn'), Unreaped', DeadHow',
         Goes(f) => Counted', 
         f.at = "wait" \/ (f.at = "kill" /\ f.what = "FG") \/ FgJobs' = {}
  PROVE  RInv'
<1>0. Shape /\ FrameOK /\ Counted /\ NoFg /\ ChildInv BY DEF RInv
<1>1. /\ sh.st = "up" /\ Top.at \in MainPlaces /\ Len(sh.frames) = 1 /\ Top.sync # "wait"
  BY <1>0, Where
<1>3. Goes(f) /\ FrameOK' /\ Early' /\ SyncPaired' BY <1>1, ShellGoes
<1>4. Shape'
  <2>2. pos' \in Nat \ {0} /\ IsSeq(shUp') /\ IsSeq(shDn')
    BY <1>0, ShapeIs DEF rvars
  <2>3. ShellOK' BY <1>3 DEF Goes
  <2> QED BY <2>2, <2>3 DEF Shape, ShellOK, JobsShape
<1>5. sh'.frames[1] = f /\ sh'.st = "up" /\ Len(sh'.frames) = 1 BY <1>1, <1>3 DEF Goes
<1>7. NoFg' BY <1>5 DEF NoFg
<1>8. ChildInv'
  <2>1. Doomed' BY <1>0, <1>1, <1>5 DEF ChildInv, Doomed, rvars
  <2> QED BY <1>5, <2>1, ChildOneNext
<1> QED BY <1>3, <1>4, <1>7, <1>8 DEF RInv

(* What the invariant says when main is at one of the places S.            *)
LEMMA MainIs ==
  ASSUME RInv, NEW S, At(S), S \subseteq MainPlaces
  PROVE  /\ Shape /\ FrameOK /\ Counted /\ NoFg /\ ChildInv
         /\ sh.st = "up" /\ Len(sh.frames) = 1 /\ Top = sh.frames[1] /\ Top.at \in S
         /\ Top \in FrameRec
         /\ Unreaped /\ DeadHow /\ JobsShape /\ IsSeq(jobs) /\ IsSeq(dataUp) /\ IsSeq(dataDn)
<1>0. Shape /\ FrameOK /\ Counted /\ NoFg /\ ChildInv BY DEF RInv
<1>1. sh.st = "up" /\ Len(sh.frames) = 1 /\ Top = sh.frames[1] /\ Top.at \in S /\ Top \in FrameRec
  BY <1>0, Where
<1>2. Unreaped /\ DeadHow BY <1>0, <1>1, ChildOne
<1> QED BY <1>0, <1>1, <1>2, ShapeIs DEF JobsShape

(* A frame that fits.                                                      *)
LEMMA FitFrame ==
  ASSUME NEW p \in MainPlaces \cup HandlerPlaces, NEW j \in Nat, NEW w \in Whats,
         p \in {"getpid", "setst", "kill"} => w \in {"BG", "FG"},
         p = "hfg" => w \in {"INT", "TSTP"}
  PROVE  /\ Fit(Frame(p, j, w)) /\ Frame(p, j, w).at = p /\ Frame(p, j, w).job = j
         /\ Frame(p, j, w).what = w
BY FrameIs DEF Fit

(* The frames of main that are about no job.                               *)
LEMMA MainFits ==
  \A p \in {"prompt", "read", "wait"} :
    /\ Fit(Frame(p, 0, "")) /\ Frame(p, 0, "").at = p /\ p \in MainPlaces
<1> TAKE p \in {"prompt", "read", "wait"}
<1>1. p \in MainPlaces /\ 0 \in Nat /\ "" \in Whats BY DEF MainPlaces, Whats
<1>2. p \notin {"getpid", "setst", "kill"} /\ p # "hfg" OBVIOUS
<1>3. p \in MainPlaces \cup HandlerPlaces BY <1>1
<1>4. /\ p \in {"getpid", "setst", "kill"} => "" \in {"BG", "FG"}
      /\ p = "hfg" => "" \in {"INT", "TSTP"}
  BY <1>2
<1>5. Fit(Frame(p, 0, "")) /\ Frame(p, 0, "").at = p
  <2>1. /\ Frame(p, 0, "") \in FrameRec /\ Frame(p, 0, "").at = p
        /\ Frame(p, 0, "").what = "" /\ Frame(p, 0, "").sync = "no"
    BY <1>1, <1>3 DEF Frame, FrameRec
  <2> QED BY <1>2, <2>1 DEF Fit
<1> QED BY <1>1, <1>5

(* What the invariant says when main is at p.                              *)
LEMMA ReadIs ==
  ASSUME RInv, NEW p \in MainPlaces, At({p})
  PROVE  /\ Shape /\ FrameOK /\ Counted /\ NoFg /\ ChildInv
         /\ sh.st = "up" /\ Len(sh.frames) = 1 /\ Top = sh.frames[1] /\ Top.at = p
         /\ Top \in FrameRec
         /\ Unreaped /\ DeadHow /\ JobsShape /\ IsSeq(jobs) /\ IsSeq(dataUp) /\ IsSeq(dataDn)
<1>1. {p} \subseteq MainPlaces OBVIOUS
<1>2. Top.at \in {p} => Top.at = p OBVIOUS
<1> QED BY <1>1, <1>2, MainIs

(* Main goes from a place to another, without reading a line.              *)
LEMMA MainQuiet ==
  ASSUME RInv, NEW S, At(S), S \subseteq MainPlaces \ {"read"}, Top.at \notin DOMAIN Point \/ Ready,
         NEW f, Fit(f), f.at \in MainPlaces \ {"read"}, sh' = WithTop(f),
         UNCHANGED <<rvars, dataDn, shUp, shDn>>, JobsShape', Printed, Unreaped', DeadHow',
         f.at = "wait" \/ (f.at = "kill" /\ f.what = "FG") \/ FgJobs' = {}
  PROVE  RInv'
<1>1. /\ Shape /\ Counted /\ sh.st = "up" /\ Len(sh.frames) = 1 /\ Top = sh.frames[1]
      /\ Top.at \in S /\ IsSeq(dataUp) /\ IsSeq(dataDn)
  BY MainIs
<1>2. IsSeq(dataUp') /\ IsSeq(dataDn') BY <1>1, PrintedKept
<1>3. ASSUME Goes(f) PROVE Counted'
  <2>1. sh'.frames[1] = f /\ sh'.st = "up" BY <1>1, <1>3 DEF Goes
  <2>2. sh'.frames[1].at # "read" /\ sh.frames[1].at # "read" BY <1>1, <2>1
  <2> QED BY <1>1, <2>1, <2>2, CountedKept DEF rvars
<1> QED BY <1>2, <1>3, MainGoes

(* The parts about the jobs, when the jobs stay as they are.               *)
LEMMA SameJobs ==
  ASSUME jobs' = jobs
  PROVE  /\ JobsShape' <=> JobsShape
         /\ Unreaped' <=> Unreaped
         /\ DeadHow' <=> DeadHow
         /\ FgJobs' = FgJobs /\ NoNewFg
BY DEF JobsShape, Unreaped, DeadHow, FgJobs, Listed, NoNewFg, IsSeq

(* The shell ends.                                                         *)
LEMMA EndStep ==
  ASSUME RInv, sh.st = "up", ShellEnds, UNCHANGED <<rvars, shUp, shDn>>, IsSeq(dataUp'), IsSeq(dataDn')
  PROVE  RInv'
<1>0. Shape /\ FrameOK /\ Early /\ ChildInv BY DEF RInv
<1>1. /\ sh'.st = "zombie" /\ sh'.frames = <<>> /\ sh'.pend = {} /\ DOMAIN sh' = {"st", "frames", "pend"}
  BY DEF ShellEnds
<1>2. ShellOK' BY <1>1, EmptySeq DEF ShellOK
<1>3. JobsShape'
  <2>1. /\ jobs' = [j \in DOMAIN jobs |-> jobs'[j]]
        /\ \A j \in DOMAIN jobs : jobs'[j] \in {jobs[j], [jobs[j] EXCEPT !.st = "gone"]}
    BY DEF ShellEnds
  <2>2. IsSeq(jobs') /\ DOMAIN jobs' = DOMAIN jobs BY <1>0, <2>1, SeqSame DEF Shape
  <2>3. ASSUME NEW j \in DOMAIN jobs
        PROVE  /\ DOMAIN jobs'[j] = JobFields
               /\ jobs'[j].st \in {"run", "stop", "dead", "gone"}
               /\ jobs'[j].how \in {"", "exited", "killed"}
    <3>1. /\ DOMAIN jobs[j] = JobFields
          /\ jobs[j].st \in {"run", "stop", "dead", "gone"}
          /\ jobs[j].how \in {"", "exited", "killed"}
      BY <1>0 DEF Shape
    <3>2. CASE jobs'[j] = jobs[j] BY <3>1, <3>2
    <3>3. CASE jobs'[j] = [jobs[j] EXCEPT !.st = "gone"] BY <3>1, <3>3 DEF JobFields
    <3> QED BY <2>1, <3>2, <3>3
  <2> QED BY <2>2, <2>3 DEF JobsShape
<1>4. Shape'
  <2>1. pos' \in Nat \ {0} /\ IsSeq(shUp') /\ IsSeq(shDn') BY <1>0, ShapeIs DEF rvars
  <2> QED BY <1>2, <1>3, <2>1 DEF Shape, ShellOK, JobsShape
<1>5. FrameOK' /\ SyncPaired' /\ Counted' /\ NoFg' BY <1>1 DEF FrameOK, SyncPaired, Counted, NoFg
<1>6. Early' BY <1>0, <1>1, EarlyKept DEF rvars
<1>7. ChildInv' BY <1>0, <1>1 DEF ChildInv, rvars
<1> QED BY <1>4, <1>5, <1>6, <1>7 DEF RInv

(* The shell prints its prompt: one more to read, one less to send.        *)
LEMMA PromptStep == RInv /\ ShPrompt => RInv'
<1> SUFFICES ASSUME RInv, ShPrompt PROVE RInv' OBVIOUS
<1> DEFINE f == Frame("read", 0, "")
<1>1. /\ At({"prompt"}) /\ dataUp' = Append(dataUp, "prompt") /\ sh' = WithTop(f)
      /\ UNCHANGED <<rvars, dataDn, shUp, shDn>> /\ jobs' = jobs
  BY DEF ShPrompt
<1>2. /\ Shape /\ Counted /\ NoFg /\ sh.st = "up" /\ Len(sh.frames) = 1 /\ Top = sh.frames[1] /\ Top.at = "prompt"
      /\ Unreaped /\ DeadHow /\ JobsShape /\ IsSeq(dataUp) /\ IsSeq(dataDn)
  BY <1>1, MainFits, ReadIs
<1>3. Fit(f) /\ f.at = "read" BY MainFits
<1>4. FgJobs' = {} BY <1>1, <1>2, SameJobs DEF NoFg
<1>5. IsSeq(dataUp') /\ IsSeq(dataDn') BY <1>1, <1>2, SeqAppend
<1>6. ASSUME Goes(f) PROVE Counted'
  <2>1. sh'.frames[1].at = "read" /\ sh.frames[1].at = "prompt" BY <1>2, <1>3, <1>6 DEF Goes
  <2>2. Prompts' = Prompts + 1 /\ Prompts \in Nat
    <3>1. Prompts' = Cardinality(In1(dataUp', "prompt")) BY DEF Prompts, In1
    <3> QED BY <1>1, <1>2, <3>1, PromptsIs, CountAppend, CountFinite
  <2>3. Lines({"NEXT"})' = Lines({"NEXT"}) /\ Lines({"line", "PID"})' = Lines({"line", "PID"})
    BY <1>1 DEF Lines, rvars
  <2>4. rpc' = rpc /\ dataDn' = dataDn BY <1>1 DEF rvars
  <2>5. Lines({"NEXT"}) \in Nat /\ Lines({"line", "PID"}) \in Nat BY <1>2, LinesNat DEF Shape
  <2>6. Len(dataDn) \in Nat BY <1>2, SeqBasics
  <2> QED BY <1>2, <2>1, <2>2, <2>3, <2>4, <2>5, <2>6 DEF Counted
<1>7. Top.at \notin DOMAIN Point BY <1>2 DEF Point
<1> HIDE DEF f
<1> QED BY <1>1, <1>2, <1>3, <1>4, <1>5, <1>6, <1>7, SameJobs, MainGoes DEF MainPlaces

(* A line is read; the job table may get a job in it.                      *)
LEMMA ReadOn ==
  ASSUME RInv, At({"read"}), dataDn # <<>>, dataDn' = Tail(dataDn), Printed,
         UNCHANGED <<rvars, shUp, shDn>>, NEW f, Fit(f), f.at \in MainPlaces \ {"read"}, sh' = WithTop(f),
         JobsShape', Unreaped', DeadHow', f.at = "wait" \/ FgJobs' = {}
  PROVE  RInv'
<1>2. /\ Shape /\ Counted /\ sh.st = "up" /\ Len(sh.frames) = 1 /\ Top = sh.frames[1] /\ Top.at = "read"
      /\ IsSeq(dataUp) /\ IsSeq(dataDn)
  BY MainFits, ReadIs
<1>3. IsSeq(dataUp') /\ Prompts' = Prompts BY <1>2, PrintedKept
<1>4. IsSeq(dataDn') /\ Len(dataDn') = Len(dataDn) - 1 /\ Len(dataDn) \in Nat BY <1>2, SeqTail
<1>6. ASSUME Goes(f) PROVE Counted'
  <2>1. sh'.frames[1].at # "read" /\ sh.frames[1].at = "read" BY <1>2, <1>6 DEF Goes
  <2>2. Prompts \in Nat BY <1>2, PromptsIs, CountFinite
  <2>3. Lines({"NEXT"})' = Lines({"NEXT"}) /\ Lines({"line", "PID"})' = Lines({"line", "PID"})
    BY DEF Lines, rvars
  <2>4. rpc' = rpc BY DEF rvars
  <2>5. Lines({"NEXT"}) \in Nat /\ Lines({"line", "PID"}) \in Nat BY <1>2, LinesNat DEF Shape
  <2> QED BY <1>2, <1>3, <1>4, <2>1, <2>2, <2>3, <2>4, <2>5 DEF Counted
<1>7. Top.at \notin DOMAIN Point BY <1>2 DEF Point
<1> QED BY <1>3, <1>4, <1>6, <1>7, MainGoes DEF MainPlaces

(* The shell reads a line and evaluates it, or ends.                       *)
LEMMA ReadStep == RInv /\ ShRead => RInv'
<1> SUFFICES ASSUME RInv, ShRead PROVE RInv' OBVIOUS
<1> DEFINE l == Head(dataDn)
<1>1. /\ At({"read"}) /\ dataDn # <<>> /\ dataDn' = Tail(dataDn) /\ UNCHANGED <<rvars, shUp, shDn>>
      /\ \/ ShellEnds /\ dataUp' \in {dataUp, Append(dataUp, "output")}
         \/ ListJobs
         \/ BgFg(l)
         \/ Program(l)
  BY DEF ShRead, Ctrl_D
<1>2. /\ Shape /\ NoFg /\ sh.st = "up" /\ Len(sh.frames) = 1 /\ Top = sh.frames[1] /\ Top.at = "read"
      /\ Unreaped /\ DeadHow /\ JobsShape /\ IsSeq(dataUp) /\ IsSeq(dataDn) /\ IsSeq(jobs)
  BY <1>1, MainFits, ReadIs
<1>3. FgJobs = {} BY <1>2 DEF NoFg
<1>4. /\ Fit(Frame("prompt", 0, "")) /\ Frame("prompt", 0, "").at = "prompt"
      /\ Fit(Frame("wait", 0, "")) /\ Frame("wait", 0, "").at = "wait"
  BY MainFits
<1>5. CASE ShellEnds /\ dataUp' \in {dataUp, Append(dataUp, "output")}
  <2>1. IsSeq(dataDn') BY <1>1, <1>2, SeqTail
  <2>2. IsSeq(Append(dataUp, "output")) BY <1>2, SeqAppend
  <2>3. IsSeq(dataUp') BY <1>2, <1>5, <2>2
  <2> QED BY <1>1, <1>2, <1>5, <2>1, <2>3, EndStep
<1>6. CASE ListJobs
  <2>1. Printed /\ jobs' = jobs /\ sh' = WithTop(Frame("prompt", 0, "")) BY <1>6 DEF ListJobs, Printed
  <2> QED BY <1>1, <1>2, <1>3, <1>4, <2>1, SameJobs, ReadOn DEF MainPlaces
<1>7. CASE BgFg(l)
  <2>1. Printed /\ jobs' = jobs BY <1>7 DEF BgFg, Printed
  <2>2. PICK f : sh' = WithTop(f) /\ Fit(f) /\ f.at \in {"prompt", "setst", "getpid"}
    <3>1. PICK st \in {"BG", "FG"}, js \in SUBSET Listed :
            \/ sh' = WithTop(Frame("prompt", 0, ""))
            \/ \E j \in js : sh' = WithTop(Frame("setst", j, st)) \/ sh' = WithTop(Frame("getpid", j, st))
      <4> DEFINE byPid == l.op = "PID"
                 js0 == {j \in Listed : IF byPid THEN j = l.num ELSE jobs[j].jid = l.num}
                 st0 == IF l.prog = "bg" THEN "BG" ELSE "FG"
      <4>1. st0 \in {"BG", "FG"} /\ js0 \in SUBSET Listed OBVIOUS
      <4>2. \/ sh' = WithTop(Frame("prompt", 0, ""))
            \/ \E j \in js0 : sh' = WithTop(Frame("setst", j, st0)) \/ sh' = WithTop(Frame("getpid", j, st0))
        BY <1>7 DEF BgFg
      <4> HIDE DEF js0, st0
      <4> QED BY <4>1, <4>2
    <3>2. CASE sh' = WithTop(Frame("prompt", 0, "")) BY <3>2, <1>4
    <3>3. ASSUME NEW j \in js, sh' = WithTop(Frame("setst", j, st)) \/ sh' = WithTop(Frame("getpid", j, st))
          PROVE  \E f : sh' = WithTop(f) /\ Fit(f) /\ f.at \in {"prompt", "setst", "getpid"}
      <4>1. j \in Nat
        <5>1. j \in DOMAIN jobs BY DEF Listed
        <5>2. DOMAIN jobs = 1 .. Len(jobs) /\ Len(jobs) \in Nat BY <1>2, SeqBasics
        <5> QED BY <5>1, <5>2
      <4>2. /\ Fit(Frame("setst", j, st)) /\ Frame("setst", j, st).at = "setst"
            /\ Fit(Frame("getpid", j, st)) /\ Frame("getpid", j, st).at = "getpid"
        <5>1. "setst" \in MainPlaces \cup HandlerPlaces /\ "getpid" \in MainPlaces \cup HandlerPlaces
              /\ st \in Whats
          BY DEF MainPlaces, Whats
        <5>2. "setst" # "hfg" /\ "getpid" # "hfg" OBVIOUS
        <5> QED BY <4>1, <5>1, <5>2, FitFrame
      <4> QED BY <3>3, <4>2
    <3> QED BY <3>1, <3>2, <3>3
  <2>3. f.at \in MainPlaces \ {"read"} BY <2>2 DEF MainPlaces
  <2> QED BY <1>1, <1>2, <1>3, <2>1, <2>2, <2>3, SameJobs, ReadOn
<1>8. CASE Program(l)
  <2>1. PICK r : /\ jobs' = Append(jobs, r) /\ DOMAIN r = JobFields /\ r.st = "run" /\ r.how = ""
                 /\ r.list = IF l.bg THEN "BG" ELSE "FG"
    <3> DEFINE r0 == [prog |-> l.prog, st |-> "run", step |-> 1, term |-> "no", how |-> "",
                      news |-> FALSE, list |-> IF l.bg THEN "BG" ELSE "FG",
                      jid |-> 1 + Max({0} \cup {jobs[j].jid : j \in DOMAIN jobs})]
    <3>1. /\ DOMAIN r0 = JobFields /\ r0.st = "run" /\ r0.how = ""
          /\ r0.list = IF l.bg THEN "BG" ELSE "FG"
      BY DEF JobFields
    <3>2. jobs' = Append(jobs, r0) BY <1>8 DEF Program
    <3> HIDE DEF r0
    <3> QED BY <3>1, <3>2
  <2>2. /\ Printed
        /\ IF l.bg THEN sh' = WithTop(Frame("prompt", 0, "")) ELSE sh' = WithTop(Frame("wait", 0, ""))
    BY <1>8 DEF Program, Printed
  <2>3. /\ IsSeq(jobs') /\ DOMAIN jobs' = 1 .. Len(jobs) + 1 /\ jobs'[Len(jobs) + 1] = r
        /\ \A j \in 1 .. Len(jobs) : jobs'[j] = jobs[j]
        /\ DOMAIN jobs = 1 .. Len(jobs) /\ Len(jobs) \in Nat
    <3>1. IsSeq(jobs) /\ jobs' = Append(jobs, r) BY <1>2, <2>1
    <3>2. DOMAIN jobs = 1 .. Len(jobs) /\ Len(jobs) \in Nat BY <3>1, SeqBasics
    <3>3. /\ IsSeq(Append(jobs, r)) /\ DOMAIN Append(jobs, r) = 1 .. Len(jobs) + 1
          /\ \A j \in 1 .. Len(jobs) : Append(jobs, r)[j] = jobs[j]
          /\ Append(jobs, r)[Len(jobs) + 1] = r
      BY <3>1, SeqAppend
    <3> QED BY <3>1, <3>2, <3>3
  <2>4. \A j \in DOMAIN jobs' : (j \in DOMAIN jobs /\ jobs'[j] = jobs[j]) \/ jobs'[j] = r
    BY <2>3
  <2>5. JobsShape' BY <1>2, <2>1, <2>3, <2>4 DEF JobsShape
  <2>6. Unreaped' BY <1>2, <2>1, <2>4 DEF Unreaped, Listed
  <2>7. DeadHow' BY <1>2, <2>1, <2>4 DEF DeadHow
  <2>8. CASE l.bg
    <3>1. FgJobs' = {} BY <1>3, <2>1, <2>4, <2>8 DEF FgJobs, Listed
    <3> QED BY <1>1, <1>4, <2>2, <2>5, <2>6, <2>7, <2>8, <3>1, ReadOn DEF MainPlaces
  <2>9. CASE ~l.bg
    BY <1>1, <1>4, <2>2, <2>5, <2>6, <2>7, <2>9, ReadOn DEF MainPlaces
  <2> QED BY <2>8, <2>9
<1> QED BY <1>1, <1>5, <1>6, <1>7, <1>8

(* A set of numbers has a least one.                                       *)
LEMMA LeastNat ==
  ASSUME NEW S \in SUBSET Nat, S # {}
  PROVE  \E m \in S : \A k \in S : m <= k
<1> DEFINE R == {ss \in Nat \X Nat : ss[1] < ss[2]}
<1>1. IsWellFoundedOn(R, Nat)
  BY NatLessThanWellFounded DEF OpToRel
<1>2. PICK m \in S : \A k \in S : ~(<<k, m>> \in R)
  <2> HIDE DEF R
  <2> QED BY <1>1, WFMin
<1>3. \A k \in S : ~(k < m)
  BY <1>2
<1> QED BY <1>3

(* The job that the handler forwards to is one of the foreground jobs.     *)
LEMMA MaxIs ==
  ASSUME NEW n \in Nat, NEW S \in SUBSET (1 .. n), S # {}
  PROVE  Max(S) \in S
<1> DEFINE T == {n - x : x \in S}
<1>0. \A x \in S : x \in 1 .. n /\ n - x \in Nat OBVIOUS
<1>1. T \in SUBSET Nat /\ T # {}
  <2>1. PICK x \in S : TRUE OBVIOUS
  <2>2. n - x \in T OBVIOUS
  <2> QED BY <1>0, <2>2
<1>2. PICK m \in T : \A k \in T : m <= k BY <1>1, LeastNat
<1>3. PICK y \in S : m = n - y BY <1>2
<1>4. \A x \in S : y >= x
  <2> TAKE x \in S
  <2>1. m <= n - x BY <1>2
  <2> QED BY <1>3, <2>1
<1>5. y \in S OBVIOUS
<1> QED BY <1>4, <1>5 DEF Max

(* The built-in commands fg and bg, and the end of the wait.               *)
LEMMA MainStep ==
  ASSUME RInv, ShGetPid \/ ShSetState \/ ShContinue \/ ShWaited
  PROVE  RInv'
<1>1. CASE ShGetPid
  <2> DEFINE f == Frame("setst", Top.job, Top.what)
  <2>0. "getpid" \in MainPlaces /\ "setst" \in MainPlaces BY DEF MainPlaces
  <2>1. At({"getpid"}) /\ Ready /\ sh' = WithTop(f) /\ jobs' = jobs /\ Printed
        /\ UNCHANGED <<rvars, dataDn, shUp, shDn>>
    BY <1>1 DEF ShGetPid, socks, Printed
  <2>2. /\ Shape /\ NoFg /\ sh.st = "up" /\ Len(sh.frames) = 1 /\ Top = sh.frames[1] /\ Top.at = "getpid"
        /\ Top \in FrameRec /\ Unreaped /\ DeadHow /\ JobsShape /\ FrameOK
    BY <2>0, <2>1, ReadIs
  <2>3. Top.what \in {"BG", "FG"} BY <2>1, <2>2, Where
  <2>4. Fit(f) /\ f.at = "setst"
    <3>1. Top.job \in Nat /\ Top.what \in Whats BY <2>2 DEF FrameRec
    <3> QED BY <2>0, <2>3, <3>1, FitFrame
  <2>5. FgJobs' = {} BY <2>1, <2>2, SameJobs DEF NoFg
  <2> HIDE DEF f
  <2> QED BY <2>0, <2>1, <2>2, <2>4, <2>5, SameJobs, MainQuiet
<1>2. CASE ShSetState
  <2> DEFINE f == Frame("kill", Top.job, Top.what)
  <2>0. "kill" \in MainPlaces /\ "setst" \in MainPlaces BY DEF MainPlaces
  <2>1. At({"setst"}) /\ Ready /\ sh' = WithTop(f) /\ jobs' = [jobs EXCEPT ![Top.job].list = Top.what]
        /\ Printed /\ UNCHANGED <<rvars, dataDn, shUp, shDn>>
    BY <1>2 DEF ShSetState, socks, Printed
  <2>2. /\ Shape /\ NoFg /\ sh.st = "up" /\ Len(sh.frames) = 1 /\ Top = sh.frames[1] /\ Top.at = "setst"
        /\ Top \in FrameRec /\ Unreaped /\ DeadHow /\ JobsShape /\ FrameOK /\ ChildInv
    BY <2>0, <2>1, ReadIs
  <2>3. Top.what \in {"BG", "FG"} BY <2>1, <2>2, Where
  <2>4. Fit(f) /\ f.at = "kill" /\ f.what = Top.what
    <3>1. Top.job \in Nat /\ Top.what \in Whats BY <2>2 DEF FrameRec
    <3> QED BY <2>0, <2>3, <3>1, FitFrame
  <2>5. /\ jobs' = [j \in DOMAIN jobs |-> jobs'[j]]
        /\ \A j \in DOMAIN jobs :
             /\ DOMAIN jobs'[j] = JobFields /\ jobs'[j].st = jobs[j].st /\ jobs'[j].how = jobs[j].how
             /\ jobs'[j].jid = jobs[j].jid
             /\ jobs'[j].list = jobs[j].list \/ jobs'[j].list = Top.what
    <3>1. jobs = [j \in DOMAIN jobs |-> jobs[j]] /\ JobsOK BY <2>2, JobsAre
    <3> QED BY <2>1, <3>1 DEF JobsOK, JobFields
  <2>6. IsSeq(jobs') /\ DOMAIN jobs' = DOMAIN jobs BY <2>2, <2>5, SeqSame DEF JobsShape
  <2>7. JobsShape' BY <2>2, <2>5, <2>6 DEF JobsShape
  <2>8. Unreaped' /\ DeadHow' BY <2>2, <2>5, <2>6 DEF Unreaped, DeadHow, Listed
  <2>9. Top.what = "FG" \/ FgJobs' = {}
    <3>1. CASE Top.what = "BG"
      <4>1. FgJobs = {} BY <2>2 DEF NoFg
      <4> QED BY <2>5, <2>6, <3>1, <4>1 DEF FgJobs, Listed
    <3> QED BY <2>3, <3>1
  <2> HIDE DEF f
  <2> QED BY <2>0, <2>1, <2>2, <2>4, <2>7, <2>8, <2>9, MainQuiet
<1>3. CASE ShContinue
  <2> DEFINE f == Frame(IF Top.what = "FG" THEN "wait" ELSE "bgprint", Top.job, Top.what)
  <2>0. "kill" \in MainPlaces /\ "wait" \in MainPlaces /\ "bgprint" \in MainPlaces BY DEF MainPlaces
  <2>1. At({"kill"}) /\ Ready /\ sh' = WithTop(f) /\ jobs' = Signalled(Top.job, "CONT")
        /\ Printed /\ UNCHANGED <<rvars, dataDn, shUp, shDn>>
    BY <1>3 DEF ShContinue, socks, Printed
  <2>2. /\ Shape /\ NoFg /\ sh.st = "up" /\ Len(sh.frames) = 1 /\ Top = sh.frames[1] /\ Top.at = "kill"
        /\ Top \in FrameRec /\ Unreaped /\ DeadHow /\ JobsShape /\ FrameOK /\ ChildInv
    BY <2>0, <2>1, ReadIs
  <2>3. Top.what \in {"BG", "FG"} BY <2>1, <2>2, Where
  <2>4. Fit(f) /\ f.at \in {"wait", "bgprint"} /\ (f.at = "wait" <=> Top.what = "FG")
    <3>1. Top.job \in Nat /\ Top.what \in Whats BY <2>2 DEF FrameRec
    <3>2. /\ "wait" \in MainPlaces \cup HandlerPlaces /\ "bgprint" \in MainPlaces \cup HandlerPlaces
      BY <2>0
    <3>3. CASE Top.what = "FG" BY <3>1, <3>2, <3>3, FrameIs DEF Fit
    <3>4. CASE Top.what # "FG" BY <3>1, <3>2, <3>4, FrameIs DEF Fit
    <3> QED BY <3>3, <3>4
  <2>5. Moved(jobs')
    <3>1. JobsOK /\ jobs = [j \in DOMAIN jobs |-> jobs[j]] BY <2>2, JobsAre
    <3> QED BY <2>1, <3>1, MovedSignalled
  <2>6. JobsShape' /\ DeadHow' /\ NoNewFg /\ DOMAIN jobs' = DOMAIN jobs
    <3>1. sh'.st = sh.st
      BY <2>1, <2>2 DEF WithTop, Shape
    <3> QED BY <2>2, <2>5, <3>1, MovedKeeps DEF JobsShape, DeadHow, IsSeq
  <2>8. Unreaped' BY <2>2, <2>5, <2>6 DEF Unreaped, Listed, Moved
  <2>9. f.at = "wait" \/ FgJobs' = {}
    <3>1. CASE Top.what = "BG"
      <4>1. FgJobs = {} BY <2>2, <3>1 DEF NoFg
      <4> QED BY <2>6, <4>1, FewerFg
    <3> QED BY <2>3, <2>4, <3>1
  <2> HIDE DEF f
  <2> QED BY <2>0, <2>1, <2>2, <2>4, <2>6, <2>8, <2>9, MainQuiet
<1>4. CASE ShWaited
  <2>0. "wait" \in MainPlaces BY DEF MainPlaces
  <2>1. At({"wait"}) /\ FgJobs = {} /\ sh' = WithTop(Frame("prompt", 0, "")) /\ jobs' = jobs /\ Printed
        /\ UNCHANGED <<rvars, dataDn, shUp, shDn>>
    BY <1>4 DEF ShWaited, socks, Printed
  <2>2. /\ Shape /\ sh.st = "up" /\ Len(sh.frames) = 1 /\ Top = sh.frames[1] /\ Top.at = "wait"
        /\ Top \in FrameRec /\ Unreaped /\ DeadHow /\ JobsShape /\ FrameOK
    BY <2>0, <2>1, ReadIs
  <2>3. Top.at \notin DOMAIN Point BY <2>2 DEF Point
  <2> QED BY <2>0, <2>1, <2>2, <2>3, MainFits, SameJobs, MainQuiet
<1> QED BY <1>1, <1>2, <1>3, <1>4

(* bg prints the job it continued, or aborts when it has gone.             *)
LEMMA BgPrintStep == RInv /\ ShBgPrint => RInv'
<1> SUFFICES ASSUME RInv, ShBgPrint PROVE RInv' OBVIOUS
<1>0. "bgprint" \in MainPlaces BY DEF MainPlaces
<1>1. At({"bgprint"}) /\ dataUp' = Append(dataUp, "output") /\ UNCHANGED <<rvars, dataDn, shUp, shDn>>
      /\ ((sh' = WithTop(Frame("prompt", 0, "")) /\ jobs' = jobs) \/ ShellEnds)
  BY DEF ShBgPrint
<1>2. /\ Shape /\ NoFg /\ sh.st = "up" /\ Len(sh.frames) = 1 /\ Top = sh.frames[1] /\ Top.at = "bgprint"
      /\ Unreaped /\ DeadHow /\ JobsShape /\ IsSeq(dataUp) /\ IsSeq(dataDn)
  BY <1>0, <1>1, ReadIs
<1>3. Printed /\ Top.at \notin DOMAIN Point BY <1>1, <1>2 DEF Printed, Point
<1>4. FgJobs = {} BY <1>2 DEF NoFg
<1>5. CASE ShellEnds
  <2>1. IsSeq(dataUp') /\ IsSeq(dataDn') BY <1>1, <1>2, SeqAppend
  <2> QED BY <1>1, <1>2, <1>5, <2>1, EndStep
<1>6. CASE sh' = WithTop(Frame("prompt", 0, "")) /\ jobs' = jobs
  BY <1>0, <1>1, <1>2, <1>3, <1>4, <1>6, MainFits, SameJobs, MainQuiet
<1> QED BY <1>1, <1>5, <1>6

(* What a handler's frame and the job table must give.                     *)
LEMMA ChildTwoNext ==
  ASSUME NEW f, sh'.st = "up", Len(sh'.frames) = 2, sh'.frames[2] = f,
         \A j \in Listed' : jobs'[j].st = "gone" => f.at = "after" /\ f.job = j /\ f.what # "stopped",
         f.at \in {"hget", "hkill"} => f.job \in DOMAIN jobs' /\ jobs'[f.job].st # "gone",
         DeadHow', Doomed'
  PROVE  ChildInv'
BY DEF ChildInv, Reaping, DeadHow, Doomed

(* What the invariant says when a handler is at p.                         *)
LEMMA HandlerIs ==
  ASSUME RInv, NEW p \in HandlerPlaces, At({p})
  PROVE  /\ Shape /\ FrameOK /\ ChildInv
         /\ sh.st = "up" /\ Len(sh.frames) = 2 /\ Top = sh.frames[2] /\ Top.at = p
         /\ Top \in FrameRec /\ Top.job \in Nat /\ Top.what \in Whats
         /\ DeadHow /\ JobsShape /\ IsSeq(dataUp) /\ IsSeq(jobs)
         /\ JobsOK /\ jobs = [j \in DOMAIN jobs |-> jobs[j]] /\ Moved(jobs)
         /\ \A j \in Listed : jobs[j].st = "gone" => p = "after" /\ Top.job = j /\ Top.what # "stopped"
         /\ p \in {"hget", "hkill"} => Top.job \in DOMAIN jobs /\ jobs[Top.job].st # "gone"
         /\ (UNCHANGED rvars /\ sh'.st = "up" => Doomed')
<1>0. Shape /\ FrameOK /\ ChildInv BY DEF RInv
<1>1. sh.st = "up" /\ Len(sh.frames) = 2 /\ Top = sh.frames[2] /\ Top.at = p /\ Top \in FrameRec
  BY <1>0, Where
<1>2. Top.job \in Nat /\ Top.what \in Whats BY <1>1 DEF FrameRec
<1>3. JobsOK /\ jobs = [j \in DOMAIN jobs |-> jobs[j]] /\ Moved(jobs) BY <1>0, JobsAre, MovedNone
<1>4. JobsShape /\ IsSeq(dataUp) /\ IsSeq(jobs) BY <1>0, ShapeIs DEF JobsShape
<1>5. /\ DeadHow
      /\ \A j \in Listed : jobs[j].st = "gone" => p = "after" /\ Top.job = j /\ Top.what # "stopped"
      /\ p \in {"hget", "hkill"} => Top.job \in DOMAIN jobs /\ jobs[Top.job].st # "gone"
  BY <1>0, <1>1 DEF ChildInv, Reaping, DeadHow
<1>6. UNCHANGED rvars /\ sh'.st = "up" => Doomed' BY <1>0, <1>1 DEF ChildInv, Doomed, rvars
<1> QED BY <1>0, <1>1, <1>2, <1>3, <1>4, <1>5, <1>6

(* A handler goes on with the job table as it is.                          *)
LEMMA HandlerQuiet ==
  ASSUME RInv, NEW p \in HandlerPlaces, At({p}), p \notin DOMAIN Point \/ Ready,
         NEW f, Fit(f), f.at \in HandlerPlaces, sh' = WithTop(f),
         UNCHANGED <<rvars, dataDn, shUp, shDn, jobs>>, Printed,
         p = "after" => Top.what = "stopped",
         f.at \in {"hget", "hkill"} => f.job \in DOMAIN jobs /\ jobs[f.job].st # "gone"
  PROVE  RInv'
<1>1. /\ Len(sh.frames) = 2 /\ DeadHow /\ JobsShape /\ Top.at = p
      /\ \A j \in Listed : jobs[j].st = "gone" => p = "after" /\ Top.job = j /\ Top.what # "stopped"
      /\ (UNCHANGED rvars /\ sh'.st = "up" => Doomed')
  BY HandlerIs
<1>2. JobsShape' /\ DeadHow' /\ NoNewFg BY <1>1, SameJobs
<1>3. Unreaped' BY <1>1 DEF Unreaped, Listed
<1>4. ASSUME Goes(f) PROVE ChildInv'
  <2>1. sh'.st = "up" /\ Len(sh'.frames) = 2 /\ sh'.frames[2] = f BY <1>1, <1>4 DEF Goes
  <2>2. Doomed' BY <1>1, <2>1
  <2>3. \A j \in Listed' : jobs'[j].st = "gone" => f.at = "after" /\ f.job = j /\ f.what # "stopped"
    BY <1>3 DEF Unreaped
  <2> QED BY <1>2, <2>1, <2>2, <2>3, ChildTwoNext
<1>5. {p} \subseteq HandlerPlaces OBVIOUS
<1> QED BY <1>1, <1>2, <1>4, <1>5, HandlerGoes

(* The places of the handlers by name.                                     *)
LEMMA HandlerNames ==
  /\ "wp" \in HandlerPlaces /\ "after" \in HandlerPlaces /\ "hset" \in HandlerPlaces
  /\ "hfg" \in HandlerPlaces /\ "hget" \in HandlerPlaces /\ "hkill" \in HandlerPlaces
  /\ "hfg" \notin DOMAIN Point
BY DEF HandlerPlaces, Point

(* A frame of a handler that fits.                                         *)
LEMMA HandlerFits ==
  ASSUME NEW p \in HandlerPlaces, NEW j \in Nat, NEW w \in Whats,
         p = "hfg" => w \in {"INT", "TSTP"}
  PROVE  /\ Fit(Frame(p, j, w)) /\ Frame(p, j, w).at = p /\ Frame(p, j, w).job = j
         /\ Frame(p, j, w).what = w
<1>1. p \in MainPlaces \cup HandlerPlaces /\ p \notin {"getpid", "setst", "kill"} BY DEF HandlerPlaces
<1>2. /\ Frame(p, j, w) \in FrameRec /\ Frame(p, j, w).at = p /\ Frame(p, j, w).job = j
      /\ Frame(p, j, w).what = w /\ Frame(p, j, w).sync = "no"
  BY <1>1, FrameIs
<1> QED BY <1>1, <1>2 DEF Fit

(* The frame of a handler that calls waitpid.                              *)
LEMMA WpFits == Fit(Frame("wp", 0, "")) /\ Frame("wp", 0, "").at = "wp"
<1>1. 0 \in Nat /\ "" \in Whats /\ "wp" \in HandlerPlaces BY DEF Whats, HandlerPlaces
<1> QED BY <1>1 DEF Fit, Frame, FrameRec

(* The handler of SIGINT and SIGTSTP looks for the foreground job, which   *)
(* is on the list and so not reaped: no handler interrupts this one.       *)
LEMMA FindFgStep == RInv /\ ShFindFg => RInv'
<1> SUFFICES ASSUME RInv, ShFindFg PROVE RInv' OBVIOUS
<1>1. At({"hfg"}) /\ UNCHANGED <<rvars, socks, jobs>> /\ Printed
  BY DEF ShFindFg, Printed, socks
<1>2. /\ Shape /\ FrameOK /\ sh.st = "up" /\ Top.at = "hfg" /\ Top.what \in Whats /\ IsSeq(jobs) /\ Moved(jobs)
      /\ \A j \in Listed : jobs[j].st # "gone"
  BY <1>1, HandlerNames, HandlerIs
<1>3. CASE FgJobs = {}
  <2>1. sh' = Return BY <1>3 DEF ShFindFg
  <2>2. /\ sh'.st = "up" /\ sh'.frames = Front(sh.frames) /\ DOMAIN sh' = {"st", "frames", "pend"}
        /\ sh'.pend \subseteq {"CHLD", "INT", "TSTP"}
    BY <1>2, <2>1 DEF Return, Shape
  <2>3. {"hfg"} \subseteq HandlerPlaces \ {"after"} BY HandlerNames
  <2>4. Moved(jobs') BY <1>1, <1>2 DEF Moved
  <2> QED BY <1>1, <1>2, <2>2, <2>3, <2>4, HandlerNames, HandlerReturns
<1>4. CASE FgJobs # {}
  <2> DEFINE j == Max(FgJobs)
             f == Frame("hget", j, Top.what)
  <2>1. DOMAIN jobs = 1 .. Len(jobs) /\ Len(jobs) \in Nat BY <1>2, SeqBasics
  <2>2. FgJobs \in SUBSET (1 .. Len(jobs)) BY <2>1 DEF FgJobs, Listed
  <2>3. j \in FgJobs BY <1>4, <2>1, <2>2, MaxIs
  <2>4. j \in DOMAIN jobs /\ jobs[j].st # "gone" /\ j \in Nat
    BY <1>2, <2>1, <2>2, <2>3 DEF FgJobs, Listed
  <2>5. sh' = WithTop(f) BY <1>4 DEF ShFindFg
  <2> HIDE DEF j
  <2>6. Fit(f) /\ f.at = "hget" /\ f.job = j BY <1>2, <2>4, HandlerNames, HandlerFits
  <2> HIDE DEF f
  <2> QED BY <1>1, <1>2, <2>4, <2>5, <2>6, HandlerNames, HandlerQuiet DEF socks
<1> QED BY <1>3, <1>4

(* It has the job's number.                                                *)
LEMMA GetFgPidStep == RInv /\ ShGetFgPid => RInv'
<1> SUFFICES ASSUME RInv, ShGetFgPid PROVE RInv' OBVIOUS
<1> DEFINE f == Frame("hkill", Top.job, Top.what)
<1>1. At({"hget"}) /\ Ready /\ UNCHANGED <<rvars, dataDn, shUp, shDn, jobs>> /\ Printed /\ sh' = WithTop(f)
  BY DEF ShGetFgPid, Printed, socks
<1>2. /\ Top.at = "hget" /\ Top.what \in Whats /\ Top.job \in Nat
      /\ Top.job \in DOMAIN jobs /\ jobs[Top.job].st # "gone"
  BY <1>1, HandlerNames, HandlerIs
<1>3. Fit(f) /\ f.at = "hkill" /\ f.job = Top.job BY <1>2, HandlerNames, HandlerFits
<1> HIDE DEF f
<1> QED BY <1>1, <1>2, <1>3, HandlerNames, HandlerQuiet

(* It sends the signal on, and returns.                                    *)
LEMMA ForwardStep == RInv /\ ShForward => RInv'
<1> SUFFICES ASSUME RInv, ShForward PROVE RInv' OBVIOUS
<1>1. At({"hkill"}) /\ Ready /\ UNCHANGED <<rvars, socks>> /\ jobs' = Signalled(Top.job, Top.what)
      /\ sh' = [ShellTold(jobs') EXCEPT !.frames = Front(@)]
  BY DEF ShForward
<1>2. /\ Shape /\ sh.st = "up" /\ JobsOK /\ jobs = [j \in DOMAIN jobs |-> jobs[j]]
  BY <1>1, HandlerNames, HandlerIs
<1>3. Moved(jobs') BY <1>1, <1>2, MovedSignalled
<1>4. /\ sh'.st = "up" /\ sh'.frames = Front(sh.frames) /\ DOMAIN sh' = {"st", "frames", "pend"}
      /\ sh'.pend \subseteq {"CHLD", "INT", "TSTP"}
  BY <1>1, <1>2, Told
<1>5. {"hkill"} \subseteq HandlerPlaces \ {"after"} BY HandlerNames
<1> QED BY <1>1, <1>3, <1>4, <1>5, HandlerReturns

(* The handler of SIGCHLD marks a stopped job.                             *)
LEMMA SetStoppedStep == RInv /\ ShSetStopped => RInv'
<1> SUFFICES ASSUME RInv, ShSetStopped PROVE RInv' OBVIOUS
<1> DEFINE f == Frame("wp", 0, "")
<1>1. /\ At({"hset"}) /\ Ready /\ UNCHANGED <<rvars, dataDn, shUp, shDn>> /\ Printed /\ sh' = WithTop(f)
      /\ jobs' = [jobs EXCEPT ![Top.job].list = "ST"]
  BY DEF ShSetStopped, Printed
<1>2. /\ Shape /\ sh.st = "up" /\ JobsOK /\ JobsShape /\ IsSeq(jobs) /\ jobs = [j \in DOMAIN jobs |-> jobs[j]]
      /\ DeadHow /\ Len(sh.frames) = 2 /\ Top.at = "hset"
      /\ (UNCHANGED rvars /\ sh'.st = "up" => Doomed')
      /\ \A j \in Listed : jobs[j].st # "gone"
  BY <1>1, HandlerNames, HandlerIs
<1>3. Fit(f) /\ f.at = "wp" BY WpFits
<1>5. /\ jobs' = [j \in DOMAIN jobs |-> jobs'[j]]
      /\ \A j \in DOMAIN jobs :
           /\ DOMAIN jobs'[j] = JobFields /\ jobs'[j].st = jobs[j].st /\ jobs'[j].how = jobs[j].how
           /\ jobs'[j].jid = jobs[j].jid
           /\ jobs'[j].list = jobs[j].list \/ jobs'[j].list = "ST"
  <2> DEFINE t == Top.job
             r == [jobs[t] EXCEPT !.list = "ST"]
  <2>1. jobs' = [jobs EXCEPT ![t] = r] BY <1>1
  <2>2. \A j \in DOMAIN jobs : DOMAIN jobs[j] = JobFields BY <1>2 DEF JobsOK
  <2>3. t \in DOMAIN jobs =>
          /\ DOMAIN r = JobFields /\ r.st = jobs[t].st /\ r.how = jobs[t].how
          /\ r.jid = jobs[t].jid /\ r.list = "ST"
    BY ONLY <2>2 DEF JobFields
  <2> HIDE DEF t, r
  <2>4. jobs' = [j \in DOMAIN jobs |-> IF j = t THEN r ELSE jobs[j]] BY ONLY <2>1
  <2> QED BY ONLY <2>2, <2>3, <2>4
<1>6. IsSeq(jobs') /\ DOMAIN jobs' = DOMAIN jobs BY <1>2, <1>5, SeqSame
<1>7. JobsShape' BY <1>2, <1>5, <1>6 DEF JobsShape
<1>8. Unreaped' /\ DeadHow' /\ NoNewFg BY <1>2, <1>5, <1>6 DEF Unreaped, DeadHow, Listed, NoNewFg
<1>9. ASSUME Goes(f) PROVE ChildInv'
  <2>1. sh'.st = "up" /\ Len(sh'.frames) = 2 /\ sh'.frames[2] = f BY <1>2, <1>9 DEF Goes
  <2>2. Doomed' BY <1>1, <1>2, <2>1
  <2>3. \A j \in Listed' : jobs'[j].st = "gone" => f.at = "after" /\ f.job = j /\ f.what # "stopped"
    BY <1>8 DEF Unreaped
  <2> QED BY <1>3, <1>8, <2>1, <2>2, <2>3, ChildTwoNext
<1>10. {"hset"} \subseteq HandlerPlaces BY HandlerNames
<1> HIDE DEF f
<1> QED BY <1>1, <1>3, <1>7, <1>8, <1>9, <1>10, HandlerNames, HandlerGoes

(* It deletes a reaped job: none is on the list and gone again.            *)
LEMMA ReapedStep == RInv /\ ShReaped => RInv'
<1> SUFFICES ASSUME RInv, ShReaped PROVE RInv' OBVIOUS
<1>1. At({"after"}) /\ Ready /\ UNCHANGED <<rvars, dataDn, shUp, shDn>>
  BY DEF ShReaped
<1>2. /\ Shape /\ sh.st = "up" /\ JobsOK /\ JobsShape /\ IsSeq(jobs) /\ jobs = [j \in DOMAIN jobs |-> jobs[j]]
      /\ DeadHow /\ Len(sh.frames) = 2 /\ Top.at = "after" /\ Top.job \in Nat
      /\ (UNCHANGED rvars /\ sh'.st = "up" => Doomed')
      /\ \A j \in Listed : jobs[j].st = "gone" => Top.job = j /\ Top.what # "stopped"
  BY <1>1, HandlerNames, HandlerIs
<1>3. CASE Top.what = "stopped"
  <2> DEFINE f == Frame("hset", Top.job, "ST")
  <2>1. sh' = WithTop(f) /\ Printed /\ jobs' = jobs BY <1>3 DEF ShReaped, Printed
  <2>2. Fit(f) /\ f.at = "hset"
    <3>1. "ST" \in Whats BY DEF Whats
    <3> QED BY <1>2, <3>1, HandlerNames, HandlerFits
  <2> HIDE DEF f
  <2> QED BY <1>1, <1>3, <2>1, <2>2, HandlerNames, HandlerQuiet
<1>4. CASE Top.what # "stopped"
  <2> DEFINE f == Frame("wp", 0, "")
             t == Top.job
  <2>1. sh' = WithTop(f) /\ Printed /\ jobs' = [jobs EXCEPT ![t].jid = 0, ![t].list = ""]
    BY <1>4 DEF ShReaped, Printed
  <2>2. Fit(f) /\ f.at = "wp" BY WpFits
  <2>3. DOMAIN jobs' = DOMAIN jobs /\ jobs' = [j \in DOMAIN jobs |-> jobs'[j]]
    BY <1>2, <2>1
  <2>4. ASSUME NEW j \in DOMAIN jobs, j # t PROVE jobs'[j] = jobs[j]
    BY <1>2, <2>1, <2>4
  <2>5. t \in DOMAIN jobs => jobs'[t] = [jobs[t] EXCEPT !.jid = 0, !.list = ""]
    BY <1>2, <2>1
  <2> HIDE DEF t
  <2>6. ASSUME t \in DOMAIN jobs
        PROVE  /\ DOMAIN jobs'[t] = JobFields /\ jobs'[t].st = jobs[t].st /\ jobs'[t].how = jobs[t].how
               /\ jobs'[t].jid = 0 /\ jobs'[t].list = ""
    <3>1. DOMAIN jobs[t] = JobFields BY <1>2, <2>6 DEF JobsOK
    <3> QED BY <2>5, <2>6, <3>1 DEF JobFields
  <2>7. IsSeq(jobs') BY <1>2, <2>3, SeqSame
  <2>8. JobsShape'
    <3>1. ASSUME NEW j \in DOMAIN jobs
          PROVE  /\ DOMAIN jobs'[j] = JobFields /\ jobs'[j].st = jobs[j].st /\ jobs'[j].how = jobs[j].how
      <4>1. CASE j = t BY <2>6, <4>1
      <4>2. CASE j # t BY <1>2, <2>4, <4>2 DEF JobsOK
      <4> QED BY <4>1, <4>2
    <3> QED BY <1>2, <2>3, <2>7, <3>1 DEF JobsShape
  <2>9. Unreaped'
    <3>1. ASSUME NEW j \in DOMAIN jobs, jobs'[j].jid > 0 PROVE jobs'[j].st # "gone"
      <4>1. j # t
        <5> SUFFICES ASSUME j = t PROVE FALSE OBVIOUS
        <5>1. jobs'[j].jid = 0 BY <2>6
        <5> QED BY <3>1, <5>1
      <4>2. j \in Listed BY <2>4, <3>1, <4>1 DEF Listed
      <4> QED BY <1>2, <2>4, <4>1, <4>2 DEF t
    <3> QED BY <2>3, <3>1 DEF Unreaped, Listed
  <2>10. DeadHow' /\ NoNewFg
    <3>1. ASSUME NEW j \in DOMAIN jobs
          PROVE  /\ jobs'[j].st = "dead" => jobs'[j].how # ""
                 /\ jobs'[j].list = "FG" => jobs'[j] = jobs[j]
      <4>1. CASE j = t BY <1>2, <2>6, <4>1 DEF DeadHow
      <4>2. CASE j # t BY <1>2, <2>4, <4>2 DEF DeadHow
      <4> QED BY <4>1, <4>2
    <3> QED BY <2>3, <3>1 DEF DeadHow, NoNewFg
  <2>11. ASSUME Goes(f) PROVE ChildInv'
    <3>1. sh'.st = "up" /\ Len(sh'.frames) = 2 /\ sh'.frames[2] = f BY <1>2, <2>11 DEF Goes
    <3>2. Doomed' BY <1>1, <1>2, <3>1
    <3>3. \A j \in Listed' : jobs'[j].st = "gone" => f.at = "after" /\ f.job = j /\ f.what # "stopped"
      BY <2>9 DEF Unreaped
    <3> HIDE DEF f
    <3> QED BY <2>2, <2>10, <3>1, <3>2, <3>3, ChildTwoNext
  <2>12. {"after"} \subseteq HandlerPlaces BY HandlerNames
  <2> HIDE DEF f
  <2> QED BY <1>1, <2>1, <2>2, <2>8, <2>10, <2>11, <2>12, HandlerNames, HandlerGoes
<1> QED BY <1>3, <1>4

(* It reaps a job, or returns when there is none.                          *)
LEMMA WaitpidStep == RInv /\ ShWaitpid => RInv'
<1> SUFFICES ASSUME RInv, ShWaitpid PROVE RInv' OBVIOUS
<1>1. At({"wp"}) /\ Ready /\ UNCHANGED <<rvars, socks>> /\ Printed
  BY DEF ShWaitpid, Printed, socks
<1>2. /\ Shape /\ sh.st = "up" /\ JobsOK /\ JobsShape /\ IsSeq(jobs) /\ jobs = [j \in DOMAIN jobs |-> jobs[j]]
      /\ Moved(jobs) /\ DeadHow /\ Len(sh.frames) = 2 /\ Top.at = "wp"
      /\ (UNCHANGED rvars /\ sh'.st = "up" => Doomed')
      /\ \A j \in Listed : jobs[j].st # "gone"
  BY <1>1, HandlerNames, HandlerIs
<1>3. CASE News = {}
  <2>1. sh' = Return /\ jobs' = jobs BY <1>3 DEF ShWaitpid
  <2>2. /\ sh'.st = "up" /\ sh'.frames = Front(sh.frames) /\ DOMAIN sh' = {"st", "frames", "pend"}
        /\ sh'.pend \subseteq {"CHLD", "INT", "TSTP"}
    BY <1>2, <2>1 DEF Return, Shape
  <2>3. {"wp"} \subseteq HandlerPlaces \ {"after"} BY HandlerNames
  <2>4. Moved(jobs') BY <1>2, <2>1 DEF Moved
  <2> QED BY <1>1, <2>2, <2>3, <2>4, HandlerReturns
<1>4. ASSUME NEW j \in DOMAIN jobs, jobs[j].st = "dead", jobs' = [jobs EXCEPT ![j].st = "gone"],
             sh' = WithTop(Frame("after", j, jobs[j].how))
      PROVE  RInv'
  <2> DEFINE f == Frame("after", j, jobs[j].how)
  <2>1. /\ DOMAIN jobs[j] = JobFields /\ jobs[j].how \in {"exited", "killed"} /\ j \in Nat
    <3>1. jobs[j].how \in {"", "exited", "killed"} /\ jobs[j].how # "" /\ DOMAIN jobs[j] = JobFields
      BY <1>2, <1>4 DEF JobsOK, DeadHow
    <3>2. DOMAIN jobs = 1 .. Len(jobs) /\ Len(jobs) \in Nat BY <1>2, SeqBasics
    <3>3. j \in Nat BY <1>4, <3>2
    <3> QED BY <3>1, <3>3
  <2>2. Fit(f) /\ f.at = "after" /\ f.job = j /\ f.what # "stopped"
    <3>1. jobs[j].how \in Whats BY <2>1 DEF Whats
    <3>2. Fit(f) /\ f.at = "after" /\ f.job = j /\ f.what = jobs[j].how
      BY <2>1, <3>1, HandlerNames, HandlerFits
    <3> QED BY <2>1, <3>2
  <2>3. /\ DOMAIN jobs' = DOMAIN jobs /\ jobs' = [i \in DOMAIN jobs |-> jobs'[i]]
        /\ \A i \in DOMAIN jobs : i # j => jobs'[i] = jobs[i]
        /\ jobs'[j] = [jobs[j] EXCEPT !.st = "gone"]
    BY <1>2, <1>4
  <2>4. /\ DOMAIN jobs'[j] = JobFields /\ jobs'[j].st = "gone" /\ jobs'[j].how = jobs[j].how
        /\ jobs'[j].jid = jobs[j].jid /\ jobs'[j].list = jobs[j].list
    BY <2>1, <2>3 DEF JobFields
  <2>5. IsSeq(jobs') BY <1>2, <2>3, SeqSame
  <2>a. \A i \in DOMAIN jobs :
          /\ DOMAIN jobs'[i] = JobFields /\ jobs'[i].st \in {jobs[i].st, "gone"}
          /\ jobs'[i].how = jobs[i].how /\ jobs'[i].jid = jobs[i].jid /\ jobs'[i].list = jobs[i].list
    <3> TAKE i \in DOMAIN jobs
    <3>1. CASE i = j BY <2>4, <3>1
    <3>2. CASE i # j BY <1>2, <2>3, <3>2 DEF JobsOK
    <3> QED BY <3>1, <3>2
  <2>6. JobsShape' BY <1>2, <2>3, <2>5, <2>a DEF JobsShape
  <2>7. DeadHow' /\ NoNewFg
    <3>1. ASSUME NEW i \in DOMAIN jobs, jobs'[i].st = "dead" PROVE jobs'[i].how # ""
      <4>1. jobs[i].st = "dead" /\ jobs'[i].how = jobs[i].how BY <2>a, <3>1
      <4> QED BY <1>2, <4>1 DEF DeadHow
    <3>2. DeadHow' BY <2>3, <3>1 DEF DeadHow
    <3>3. NoNewFg BY <2>3, <2>a DEF NoNewFg
    <3> QED BY <3>2, <3>3
  <2>8. ASSUME NEW i \in DOMAIN jobs', jobs'[i].jid > 0, jobs'[i].st = "gone" PROVE i = j
    <3>1. CASE i # j BY <1>2, <2>3, <2>8, <3>1 DEF Listed
    <3> QED BY <3>1
  <2> HIDE DEF f
  <2>9. ASSUME Goes(f) PROVE ChildInv'
    <3>1. sh'.st = "up" /\ Len(sh'.frames) = 2 /\ sh'.frames[2] = f BY <1>2, <2>9 DEF Goes
    <3>2. Doomed' BY <1>1, <1>2, <3>1
    <3>3. \A i \in Listed' : jobs'[i].st = "gone" => f.at = "after" /\ f.job = i /\ f.what # "stopped"
      BY <2>2, <2>8 DEF Listed
    <3> QED BY <2>2, <2>7, <3>1, <3>2, <3>3, ChildTwoNext
  <2>10. {"wp"} \subseteq HandlerPlaces BY HandlerNames
  <2>11. sh' = WithTop(f) BY <1>4 DEF f
  <2> QED BY <1>1, <2>2, <2>6, <2>7, <2>9, <2>10, <2>11, HandlerNames, HandlerGoes DEF socks
<1>5. ASSUME NEW j \in DOMAIN jobs, jobs' = [jobs EXCEPT ![j].news = FALSE],
             sh' = WithTop(Frame("after", j, "stopped"))
      PROVE  RInv'
  <2> DEFINE f == Frame("after", j, "stopped")
  <2>2. Fit(f) /\ f.at = "after"
    <3>1. DOMAIN jobs = 1 .. Len(jobs) /\ Len(jobs) \in Nat BY <1>2, SeqBasics
    <3>2. "stopped" \in Whats /\ j \in Nat BY <3>1 DEF Whats
    <3> QED BY <3>2, HandlerNames, HandlerFits
  <2>3. /\ jobs' = [i \in DOMAIN jobs |-> jobs'[i]] /\ DOMAIN jobs' = DOMAIN jobs
        /\ \A i \in DOMAIN jobs :
             /\ DOMAIN jobs'[i] = JobFields /\ jobs'[i].st = jobs[i].st /\ jobs'[i].how = jobs[i].how
             /\ jobs'[i].jid = jobs[i].jid /\ jobs'[i].list = jobs[i].list
    <3> DEFINE r == [jobs[j] EXCEPT !.news = FALSE]
    <3>1. jobs' = [jobs EXCEPT ![j] = r] BY <1>5
    <3>2. \A i \in DOMAIN jobs : DOMAIN jobs[i] = JobFields BY <1>2 DEF JobsOK
    <3>3. /\ DOMAIN r = JobFields /\ r.st = jobs[j].st /\ r.how = jobs[j].how
          /\ r.jid = jobs[j].jid /\ r.list = jobs[j].list
      <4>1. DOMAIN jobs[j] = JobFields BY <3>2
      <4> QED BY ONLY <4>1 DEF JobFields
    <3> HIDE DEF r
    <3>4. jobs' = [i \in DOMAIN jobs |-> IF i = j THEN r ELSE jobs[i]] BY ONLY <3>1
    <3> QED BY ONLY <3>2, <3>3, <3>4
  <2>5. IsSeq(jobs') BY <1>2, <2>3, SeqSame
  <2>6. JobsShape' BY <1>2, <2>3, <2>5 DEF JobsShape
  <2>7. DeadHow' /\ NoNewFg /\ Unreaped'
    BY <1>2, <2>3 DEF DeadHow, NoNewFg, Unreaped, Listed
  <2> HIDE DEF f
  <2>9. ASSUME Goes(f) PROVE ChildInv'
    <3>1. sh'.st = "up" /\ Len(sh'.frames) = 2 /\ sh'.frames[2] = f BY <1>2, <2>9 DEF Goes
    <3>2. Doomed' BY <1>1, <1>2, <3>1
    <3>3. \A i \in Listed' : jobs'[i].st = "gone" => f.at = "after" /\ f.job = i /\ f.what # "stopped"
      BY <2>7 DEF Unreaped
    <3> QED BY <2>2, <2>7, <3>1, <3>2, <3>3, ChildTwoNext
  <2>10. {"wp"} \subseteq HandlerPlaces BY HandlerNames
  <2>11. sh' = WithTop(f) BY <1>5 DEF f
  <2> QED BY <1>1, <2>2, <2>6, <2>7, <2>9, <2>10, <2>11, HandlerNames, HandlerGoes DEF socks
<1> QED BY <1>3, <1>4, <1>5 DEF ShWaitpid, News

(* A handler interrupts main.                                              *)
LEMMA DeliverStep == RInv /\ ShDeliver => RInv'
<1> SUFFICES ASSUME RInv, ShDeliver PROVE RInv' OBVIOUS
<1>0. Shape /\ FrameOK /\ Early /\ SyncPaired /\ Counted /\ NoFg /\ ChildInv BY DEF RInv
<1>1. PICK s \in sh.pend :
        sh' = [sh EXCEPT !.pend = @ \ {s},
                         !.frames = Append(@, IF s = "CHLD" THEN Frame("wp", 0, "")
                                              ELSE Frame("hfg", 0, s))]
  BY DEF ShDeliver
<1> DEFINE f == IF s = "CHLD" THEN Frame("wp", 0, "") ELSE Frame("hfg", 0, s)
<1>2. /\ sh.st = "up" /\ Len(sh.frames) = 1 /\ UNCHANGED <<rvars, socks, jobs>>
  BY DEF ShDeliver, Interrupted
<1>3. Fit(f) /\ f.at \in {"wp", "hfg"}
  <2>1. CASE s = "CHLD" BY <2>1, WpFits
  <2>2. CASE s # "CHLD"
    <3>1. s \in {"INT", "TSTP"} /\ s \in Whats /\ 0 \in Nat BY <1>0, <2>2 DEF Shape, Whats
    <3>2. Frame("hfg", 0, s) \in FrameRec /\ Frame("hfg", 0, s).at = "hfg" /\ Frame("hfg", 0, s).what = s
          /\ Frame("hfg", 0, s).sync = "no"
      BY <3>1, HandlerNames DEF Frame, FrameRec
    <3> QED BY <2>2, <3>1, <3>2 DEF Fit
  <2> QED BY <2>1, <2>2
<1>4. /\ sh'.st = "up" /\ DOMAIN sh' = {"st", "frames", "pend"} /\ sh'.pend \subseteq {"CHLD", "INT", "TSTP"}
      /\ sh'.frames = Append(sh.frames, f)
  BY <1>0, <1>1, <1>2 DEF Shape
<1> HIDE DEF f
<1>5. /\ sh'.frames \in Seq(FrameRec) /\ Len(sh'.frames) = 2 /\ sh'.frames[1] = sh.frames[1] /\ sh'.frames[2] = f
  BY <1>0, <1>2, <1>3, <1>4, Covered DEF Fit
<1>6. DOMAIN sh'.frames = {1, 2} /\ DOMAIN sh.frames = {1} /\ IsSeq(sh'.frames) /\ IsSeq(sh.frames)
  <2>1. IsSeq(sh'.frames) /\ IsSeq(sh.frames) BY <1>5, <1>0, SeqIs DEF Shape
  <2>2. DOMAIN sh'.frames = 1 .. 2 /\ DOMAIN sh.frames = 1 .. 1 BY <1>2, <1>5, <2>1, SeqBasics
  <2> QED BY <2>1, <2>2
<1>7. Shape'
  <2>1. ShellOK' BY <1>4, <1>5 DEF ShellOK
  <2>2. pos' \in Nat \ {0} /\ IsSeq(dataUp') /\ IsSeq(dataDn') /\ IsSeq(shUp') /\ IsSeq(shDn')
    BY <1>0, <1>2, ShapeIs DEF rvars, socks
  <2>3. JobsShape' BY <1>0, <1>2, SameJobs, ShapeIs
  <2> QED BY <2>1, <2>2, <2>3 DEF Shape, ShellOK, JobsShape
<1>8. FrameOK'
  <2>1. f.at \in HandlerPlaces BY <1>3, HandlerNames
  <2>2. trace' = trace BY <1>2 DEF rvars
  <2> QED BY <1>0, <1>2, <1>3, <1>5, <1>6, <2>1, <2>2 DEF FrameOK, Fit, Point
<1>9. Early' BY <1>0, <1>2, <1>4, EarlyKept DEF rvars
<1>10. SyncPaired'
  <2>1. /\ Cardinality(Waiters(sh.frames)) = One(sh.frames[1]) + 0
        /\ Cardinality(Waiters(sh'.frames)) = One(sh.frames[1]) + One(f)
    BY <1>2, <1>5, <1>6, WaitersIs
  <2>2. One(f) = 0 /\ One(sh.frames[1]) \in {0, 1} BY <1>3, OneIs DEF Fit
  <2>3. Cardinality(Waiters(sh'.frames)) = Cardinality(Waiters(sh.frames)) BY <2>1, <2>2
  <2>4. Held' = Held BY <1>2 DEF Held, Lines, rvars
  <2>5. SyncPaired' <=> (sh'.st = "up" => Len(shUp') + Held' + Len(shDn') = Cardinality(Waiters(sh'.frames)))
    BY DEF SyncPaired, Waiters
  <2> QED BY <1>0, <1>2, <2>3, <2>4, <2>5, SyncIs DEF socks
<1>11. Counted' BY <1>0, <1>2, <1>5, CountedKept DEF rvars, socks, Printed
<1>12. NoFg' BY <1>0, <1>2, <1>5, NoFgKept, SameJobs
<1>13. ChildInv'
  <2>1. Unreaped /\ DeadHow /\ Doomed BY <1>0, <1>2, ChildOne
  <2>2. Unreaped' /\ DeadHow' BY <1>2, <2>1, SameJobs
  <2>3. Doomed' BY <1>2, <1>4, <2>1 DEF Doomed, rvars
  <2> QED BY <1>3, <1>4, <1>5, <2>2, <2>3, ChildTwoNext DEF Unreaped
<1> QED BY <1>7, <1>8, <1>9, <1>10, <1>11, <1>12, <1>13 DEF RInv

(* A wrapper sends its datagram or takes the answer.                       *)
LEMMA SyncMove ==
  ASSUME RInv, At(DOMAIN Point), Stops, NEW y \in {"wait", "done"}, NEW f,
         f = [Top EXCEPT !.sync = y], sh' = WithTop(f), UNCHANGED <<rvars, jobs, dataUp, dataDn>>,
         IsSeq(shUp'), IsSeq(shDn'),
         Len(shUp') + Len(shDn') = Len(shUp) + Len(shDn) - One(Top) + One(f)
  PROVE  RInv'
<1>0. Shape /\ FrameOK /\ Early /\ SyncPaired /\ Counted /\ NoFg /\ ChildInv BY DEF RInv
<1>1. /\ sh.st = "up" /\ Top.at \in DOMAIN Point /\ Top = sh.frames[Len(sh.frames)] /\ Top \in FrameRec
  BY <1>0, Where
<1>2. Len(sh.frames) \in {1, 2} /\ DOMAIN sh.frames = 1 .. Len(sh.frames) BY <1>0, <1>1, Frames
<1>3. /\ f \in FrameRec /\ f.at = Top.at /\ f.what = Top.what /\ f.job = Top.job /\ f.sync = y
  BY <1>1 DEF FrameRec
<1>4. Goes(f) /\ sh'.frames = Append(Front(sh.frames), f) BY <1>0, <1>1, <1>3, WithTopIs
<1>5. DOMAIN sh'.frames = 1 .. Len(sh.frames)
  <2>1. sh'.frames \in Seq(FrameRec) BY <1>4 DEF Goes, ShellOK
  <2> QED BY <1>4, <2>1, LenProperties DEF Goes
<1>6. \A i \in 1 .. Len(sh.frames) :
        /\ sh'.frames[i].at = sh.frames[i].at /\ sh'.frames[i].what = sh.frames[i].what
        /\ sh'.frames[i].job = sh.frames[i].job
        /\ i # Len(sh.frames) => sh'.frames[i] = sh.frames[i]
  <2>1. CASE Len(sh.frames) = 1
    <3>1. 1 .. Len(sh.frames) = {1} BY <2>1
    <3> QED BY <1>1, <1>3, <1>4, <2>1, <3>1 DEF Goes
  <2>2. CASE Len(sh.frames) = 2
    <3>1. 1 .. Len(sh.frames) = {1, 2} BY <2>2
    <3> QED BY <1>1, <1>3, <1>4, <2>2, <3>1 DEF Goes
  <2> QED BY <1>2, <2>1, <2>2
<1>a. 1 \in 1 .. Len(sh.frames) /\ (Len(sh.frames) = 2 => 2 \in 1 .. Len(sh.frames))
  <2>1. \A n \in {1, 2} : 1 \in 1 .. n /\ (n = 2 => 2 \in 1 .. n) OBVIOUS
  <2> QED BY ONLY <1>2, <2>1
<1>7. Shape'
  <2>1. ShellOK' BY <1>4 DEF Goes
  <2>2. pos' \in Nat \ {0} /\ IsSeq(dataUp') /\ IsSeq(dataDn') BY <1>0, ShapeIs DEF rvars
  <2>3. JobsShape' BY <1>0, SameJobs, ShapeIs
  <2> QED BY <2>1, <2>2, <2>3 DEF Shape, ShellOK, JobsShape
<1>8. FrameOK'
  <2>1. trace' = trace /\ Point' = Point BY DEF rvars, Point
  <2>2. Point[Top.at] = trace.sync BY DEF Stops
  <2>3. /\ sh'.frames[1].at \in MainPlaces
        /\ Len(sh'.frames) = 2 => sh'.frames[2].at \in HandlerPlaces
    BY <1>0, <1>1, <1>4, <1>6, <1>a DEF FrameOK, Goes
  <2>4. ASSUME NEW i \in 1 .. Len(sh.frames)
        PROVE  LET g == sh'.frames[i] IN
               /\ g.at \in {"getpid", "setst", "kill"} => g.what \in {"BG", "FG"}
               /\ g.at = "hfg" => g.what \in {"INT", "TSTP"}
               /\ g.sync # "no" => g.at \in DOMAIN Point /\ Point[g.at] = trace.sync
    <3>1. CASE i = Len(sh.frames)
      <4>1. /\ sh'.frames[i].at = Top.at /\ sh'.frames[i].what = Top.what
            /\ Top.at \in DOMAIN Point /\ Top = sh.frames[i]
        BY <1>1, <1>6, <3>1
      <4>2. i \in DOMAIN sh.frames BY <1>2
      <4>3. /\ Top.at \in {"getpid", "setst", "kill"} => Top.what \in {"BG", "FG"}
            /\ Top.at = "hfg" => Top.what \in {"INT", "TSTP"}
        BY <1>0, <1>1, <4>1, <4>2 DEF FrameOK
      <4> QED BY ONLY <2>2, <4>1, <4>3
    <3>2. CASE i # Len(sh.frames)
      <4>1. sh'.frames[i] = sh.frames[i] BY <1>6, <3>2
      <4>2. i \in DOMAIN sh.frames BY <1>2
      <4>3. LET g == sh.frames[i] IN
               /\ g.at \in {"getpid", "setst", "kill"} => g.what \in {"BG", "FG"}
               /\ g.at = "hfg" => g.what \in {"INT", "TSTP"}
               /\ g.sync # "no" => g.at \in DOMAIN Point /\ Point[g.at] = trace.sync
        BY <1>0, <1>1, <4>2 DEF FrameOK
      <4> QED BY ONLY <4>1, <4>3
    <3> QED BY <3>1, <3>2
  <2> QED BY <1>5, <2>1, <2>3, <2>4 DEF FrameOK
<1>9. Early'
  <2>1. rpc' = rpc /\ pos' = pos /\ sh'.st = "up" BY <1>4 DEF rvars, Goes
  <2> QED BY <1>0, <1>1, <2>1, EarlyKept
<1>10. SyncPaired'
  <2>1. /\ Cardinality(Waiters(sh.frames)) \in Nat
        /\ Cardinality(Waiters(sh'.frames)) = Cardinality(Waiters(sh.frames)) - One(Top) + One(f)
    BY <1>0, <1>1, <1>3, <1>4, TopWaits
  <2>2. Held' = Held BY DEF Held, Lines, rvars
  <2>3. Held \in Int BY <1>0, HeldIs
  <2>4. /\ Len(shUp) \in Nat /\ Len(shDn) \in Nat /\ Len(shUp') \in Nat /\ Len(shDn') \in Nat
        /\ One(Top) \in Nat /\ One(f) \in Nat
    <3>1. IsSeq(shUp) /\ IsSeq(shDn) BY <1>0 DEF Shape
    <3>2. One(Top) \in {0, 1} /\ One(f) \in {0, 1} BY OneIs
    <3>3. IsSeq(shUp') /\ IsSeq(shDn') OBVIOUS
    <3>4. Len(shUp) \in Nat /\ Len(shDn) \in Nat /\ Len(shUp') \in Nat /\ Len(shDn') \in Nat
      BY ONLY <3>1, <3>3, SeqBasics
    <3>5. One(Top) \in Nat /\ One(f) \in Nat BY ONLY <3>2
    <3> QED BY ONLY <3>4, <3>5
  <2>5. Len(shUp) + Held + Len(shDn) = Cardinality(Waiters(sh.frames)) BY <1>0, <1>1, SyncIs
  <2>6. Len(shUp') + Held' + Len(shDn') = Cardinality(Waiters(sh'.frames))
    <3>1. Len(shUp') + Len(shDn') = Len(shUp) + Len(shDn) - One(Top) + One(f) OBVIOUS
    <3> DEFINE a == Len(shUp)
               b == Len(shDn)
               c == Len(shUp')
               d == Len(shDn')
               h == Held
               k == Held'
               v == Cardinality(Waiters(sh.frames))
               w == Cardinality(Waiters(sh'.frames))
               o == One(Top)
               p == One(f)
    <3>2. /\ a \in Int /\ b \in Int /\ c \in Int /\ d \in Int /\ h \in Int /\ v \in Int
          /\ o \in Int /\ p \in Int
      BY ONLY <2>1, <2>3, <2>4
    <3>3. w = v - o + p /\ k = h /\ a + h + b = v /\ c + d = a + b - o + p
      BY ONLY <2>1, <2>2, <2>5, <3>1
    <3> HIDE DEF a, b, c, d, h, k, v, w, o, p
    <3>4. c + k + d = w BY ONLY <3>2, <3>3
    <3> QED BY ONLY <3>4 DEF a, b, c, d, h, k, v, w, o, p
  <2> QED BY <2>6 DEF SyncPaired, Waiters
<1>11. Counted'
  <2>1. sh'.frames[1].at = sh.frames[1].at BY <1>6, <1>a
  <2>2. rpc' = rpc /\ pos' = pos /\ trace' = trace BY DEF rvars
  <2> QED BY <1>0, <1>1, <2>1, <2>2, CountedKept DEF Printed
<1>12. NoFg' BY <1>0, <1>1, <1>6, <1>a, SameJobs DEF NoFg
<1>13. ChildInv'
  <2>1. Doomed' BY <1>0, <1>1, <1>4 DEF ChildInv, Doomed, rvars, Goes
  <2>2. CASE Len(sh.frames) = 1
    <3>1. Unreaped' /\ DeadHow' BY <1>0, <1>1, <2>2, ChildOne, SameJobs
    <3> QED BY <1>4, <2>1, <2>2, <3>1, ChildOneNext DEF Goes
  <2>3. CASE Len(sh.frames) = 2
    <3>1. sh'.frames[2].at = sh.frames[2].at /\ sh'.frames[2].what = sh.frames[2].what
          /\ sh'.frames[2].job = sh.frames[2].job /\ Len(sh'.frames) = 2
      BY <1>4, <1>6, <1>a, <2>3 DEF Goes
    <3>2. DeadHow /\ DeadHow' BY <1>0, <1>1 DEF ChildInv, DeadHow
    <3>3. \A j \in Listed' : jobs'[j].st = "gone" =>
            sh.frames[2].at = "after" /\ sh.frames[2].job = j /\ sh.frames[2].what # "stopped"
      BY <1>0, <1>1 DEF ChildInv, Reaping, Listed
    <3>4. sh.frames[2].at \in {"hget", "hkill"} =>
            sh.frames[2].job \in DOMAIN jobs' /\ jobs'[sh.frames[2].job].st # "gone"
      BY <1>0, <1>1, <2>3 DEF ChildInv
    <3> DEFINE g == sh'.frames[2]
    <3>5. g = sh'.frames[2] OBVIOUS
    <3>6. sh'.st = "up" BY <1>4 DEF Goes
    <3>7. \A j \in Listed' : jobs'[j].st = "gone" => g.at = "after" /\ g.job = j /\ g.what # "stopped"
      BY <3>1, <3>3
    <3>8. g.at \in {"hget", "hkill"} => g.job \in DOMAIN jobs' /\ jobs'[g.job].st # "gone"
      BY <3>1, <3>4
    <3> HIDE DEF g
    <3> QED BY <2>1, <3>1, <3>2, <3>5, <3>6, <3>7, <3>8, ChildTwoNext
  <2> QED BY <1>2, <2>2, <2>3
<1> QED BY <1>7, <1>8, <1>9, <1>10, <1>11, <1>12, <1>13 DEF RInv

(* The wrapper sends its datagram: one more frame waits.                   *)
LEMMA SyncSignalStep == RInv /\ ShSyncSignal => RInv'
<1> SUFFICES ASSUME RInv, ShSyncSignal PROVE RInv' OBVIOUS
<1>1. /\ At(DOMAIN Point) /\ Stops /\ Top.sync = "no" /\ sh' = WithTop([Top EXCEPT !.sync = "wait"])
      /\ shUp' = Append(shUp, trace.sync) /\ shDn' = shDn /\ UNCHANGED <<rvars, jobs, dataUp, dataDn>>
  BY DEF ShSyncSignal
<1>2. Shape /\ FrameOK BY DEF RInv
<1>3. Top \in FrameRec BY <1>1, <1>2, Where
<1> DEFINE f == [Top EXCEPT !.sync = "wait"]
<1>4. One(Top) = 0 /\ One(f) = 1 BY <1>1, <1>3 DEF One, FrameRec
<1> HIDE DEF f
<1>5. IsSeq(shUp') /\ IsSeq(shDn') /\ Len(shUp') = Len(shUp) + 1 /\ Len(shUp) \in Nat /\ Len(shDn) \in Nat
  BY <1>1, <1>2, SeqAppend, SeqBasics DEF Shape
<1>6. Len(shUp') + Len(shDn') = Len(shUp) + Len(shDn) - One(Top) + One(f) BY <1>1, <1>4, <1>5
<1> QED BY <1>1, <1>5, <1>6, SyncMove DEF f

(* The wrapper receives the answer: one frame less waits.                  *)
LEMMA SyncWaitStep == RInv /\ ShSyncWait => RInv'
<1> SUFFICES ASSUME RInv, ShSyncWait PROVE RInv' OBVIOUS
<1>1. /\ At(DOMAIN Point) /\ Top.sync = "wait" /\ sh' = WithTop([Top EXCEPT !.sync = "done"])
      /\ shDn # <<>> /\ shDn' = Tail(shDn) /\ shUp' = shUp /\ UNCHANGED <<rvars, jobs, dataUp, dataDn>>
  BY DEF ShSyncWait
<1>2. Shape /\ FrameOK BY DEF RInv
<1>3. Top \in FrameRec /\ sh.st = "up" /\ Top = sh.frames[Len(sh.frames)] BY <1>1, <1>2, Where
<1> DEFINE f == [Top EXCEPT !.sync = "done"]
<1>4. One(Top) = 1 /\ One(f) = 0 BY <1>1, <1>3 DEF One, FrameRec
<1> HIDE DEF f
<1>5. IsSeq(shUp') /\ IsSeq(shDn') /\ Len(shDn') = Len(shDn) - 1 /\ Len(shUp) \in Nat /\ Len(shDn) \in Nat
  BY <1>1, <1>2, SeqTail, SeqBasics DEF Shape
<1>6. Len(shUp') + Len(shDn') = Len(shUp) + Len(shDn) - One(Top) + One(f) BY <1>1, <1>4, <1>5
<1>7. Stops
  <2>1. Len(sh.frames) \in {1, 2} /\ DOMAIN sh.frames = 1 .. Len(sh.frames) BY <1>2, <1>3, Frames
  <2>2. Len(sh.frames) \in DOMAIN sh.frames BY <2>1
  <2>3. Top.sync # "no" BY <1>1
  <2> QED BY <1>2, <1>3, <2>2, <2>3 DEF FrameOK, Stops
<1> QED BY <1>1, <1>5, <1>6, <1>7, SyncMove DEF f

(* The shell starts.                                                       *)
LEMMA StartStep ==
  ASSUME RInv, ShSetsid \/ ShStart
  PROVE  RInv'
<1>0. Shape /\ FrameOK /\ Early /\ SyncPaired /\ Counted /\ NoFg /\ ChildInv BY DEF RInv
<1>1. /\ UNCHANGED <<rvars, socks, jobs>> /\ sh.st \in {"forked", "session"}
  BY DEF ShSetsid, ShStart
<1>2. /\ jobs = <<>> /\ sh.frames = <<>> /\ sh.pend = {}
      /\ dataUp = <<>> /\ dataDn = <<>> /\ shUp = <<>> /\ shDn = <<>>
      /\ pos = 1 /\ rpc \notin {"cmd", "finish"} /\ rpc # "spawn"
  BY <1>0, <1>1 DEF Early
<1>3. DOMAIN jobs = {} BY <1>2
<1>4. Doomed' /\ Unreaped' /\ DeadHow'
  <2>1. Doomed BY <1>0 DEF ChildInv, Doomed
  <2>2. Unreaped' /\ DeadHow' BY <1>1, <1>3 DEF Unreaped, DeadHow, Listed
  <2>3. sh.st \notin {"zombie", "gone"} BY <1>1
  <2> QED BY <1>1, <2>1, <2>2, <2>3 DEF Doomed, rvars
<1>5. JobsShape' /\ pos' \in Nat \ {0} /\ IsSeq(dataUp') /\ IsSeq(dataDn') /\ IsSeq(shUp') /\ IsSeq(shDn')
  BY <1>0, <1>1, SameJobs, ShapeIs DEF rvars, socks
<1>6. CASE ShSetsid
  <2>1. sh'.st = "session" /\ sh'.frames = <<>> /\ sh'.pend = {} /\ DOMAIN sh' = {"st", "frames", "pend"}
    BY <1>0, <1>2, <1>6 DEF ShSetsid, Shape
  <2>2. ShellOK' BY <2>1, EmptySeq DEF ShellOK
  <2>3. Shape' BY <1>5, <2>2 DEF Shape, ShellOK, JobsShape
  <2>4. FrameOK' /\ SyncPaired' /\ Counted' /\ NoFg' BY <2>1 DEF FrameOK, SyncPaired, Counted, NoFg
  <2>5. Early' BY <1>0, <1>1, <1>2, <2>1 DEF Early, rvars, socks
  <2>6. ChildInv' BY <1>4, <2>1 DEF ChildInv, Doomed
  <2> QED BY <2>3, <2>4, <2>5, <2>6 DEF RInv
<1>7. CASE ShStart
  <2> DEFINE f == Frame("prompt", 0, "")
  <2>1. sh'.st = "up" /\ sh'.frames = <<f>> /\ sh'.pend = {} /\ DOMAIN sh' = {"st", "frames", "pend"}
    BY <1>0, <1>2, <1>7 DEF ShStart, Shape
  <2>2. f \in FrameRec /\ f.at = "prompt" /\ f.sync = "no" /\ "prompt" \in MainPlaces
    BY MainFits DEF Fit
  <2> HIDE DEF f
  <2>3. sh'.frames \in Seq(FrameRec) /\ Len(sh'.frames) = 1 /\ sh'.frames[1] = f /\ DOMAIN sh'.frames = {1}
    BY <2>1, <2>2
  <2>a. ChildInv'
    <3>1. Doomed' /\ Unreaped' /\ DeadHow' BY <1>4
    <3> QED BY ONLY <2>1, <2>3, <3>1, ChildOneNext
  <2>4. ShellOK' BY <2>1, <2>3 DEF ShellOK
  <2>5. Shape' BY <1>5, <2>4 DEF Shape, ShellOK, JobsShape
  <2>6. FrameOK' BY <2>2, <2>3 DEF FrameOK
  <2>7. Early' BY <1>0, <1>1, <1>2, <2>1 DEF Early, rvars, socks
  <2>8. SyncPaired'
    <3>1. IsSeq(sh'.frames) BY <2>3, SeqIs
    <3>2. Cardinality(Waiters(sh'.frames)) = 0
      <4>1. One(f) = 0 BY <2>2 DEF One
      <4> QED BY <2>3, <3>1, <4>1, WaitersIs
    <3>3. Held' = Held /\ Held = 0 BY <1>0, <1>1, <1>2, HeldIs DEF Held, Lines, rvars
    <3>4. Len(shUp') = 0 /\ Len(shDn') = 0 BY <1>1, <1>2, EmptyIsSeq DEF socks
    <3> QED BY <3>2, <3>3, <3>4 DEF SyncPaired, Waiters
  <2>9. Counted'
    <3>1. Prompts' = 0
      <4>1. {i \in DOMAIN dataUp' : dataUp'[i] = "prompt"} = {} BY <1>1, <1>2 DEF socks
      <4> QED BY <4>1, FS_EmptySet DEF Prompts
    <3>2. Lines({"NEXT"}) = 0 /\ Lines({"line", "PID"}) = 0 BY <1>2, LinesNat
    <3>3. Lines({"NEXT"})' = 0 /\ Lines({"line", "PID"})' = 0 BY <1>1, <3>2 DEF Lines, rvars
    <3>4. Len(dataDn') = 0 BY <1>1, <1>2, EmptyIsSeq DEF socks
    <3>5. rpc' # "cmd" BY <1>1, <1>2 DEF rvars
    <3> QED BY <2>2, <2>3, <3>1, <3>3, <3>4, <3>5 DEF Counted
  <2>10. NoFg'
    <3>1. FgJobs' = {} BY <1>1, <1>3 DEF FgJobs, Listed
    <3> QED BY <3>1 DEF NoFg
  <2> QED BY <2>a, <2>5, <2>6, <2>7, <2>8, <2>9, <2>10 DEF RInv
<1> QED BY <1>6, <1>7

(* Every step of the shell keeps the invariant.                            *)
LEMMA ShellStep == RInv /\ Shell => RInv'
BY SyncSignalStep, SyncWaitStep, StartStep, PromptStep, ReadStep, MainStep, BgPrintStep, DeliverStep,
   WaitpidStep, ReapedStep, SetStoppedStep, FindFgStep, GetFgPidStep, ForwardStep DEF Shell

(* A step of runtrace after which it reads no more of the trace.           *)
LEMMA RtEnding ==
  ASSUME RInv, UNCHANGED <<trace, pos, jobs, shUp, shDn>>,
         rpc' \in {"finish", "list", "clean", "leave", "exit"}, rpc' = "finish" => rpc = "cmd",
         Doomed', dataUp' \in {dataUp, <<>>}, IsSeq(dataDn'), dataDn' = dataDn \/ rpc = "cmd",
         sh' = sh \/ (sh.st = "zombie" /\ sh' = [sh EXCEPT !.st = "gone"])
  PROVE  RInv'
<1>0. Shape /\ FrameOK /\ Early /\ SyncPaired /\ Counted /\ NoFg /\ ChildInv BY DEF RInv
<1>1. DOMAIN sh = {"st", "frames", "pend"} BY <1>0 DEF Shape
<1>2. /\ sh'.frames = sh.frames /\ sh'.pend = sh.pend /\ DOMAIN sh' = {"st", "frames", "pend"}
      /\ sh'.st = sh.st \/ (sh'.st = "gone" /\ sh.st = "zombie")
  <2>1. CASE sh' = sh BY <1>1, <2>1
  <2>2. CASE sh.st = "zombie" /\ sh' = [sh EXCEPT !.st = "gone"] BY ONLY <1>1, <2>2
  <2> QED BY <2>1, <2>2
<1>3. sh'.st = "up" => sh.st = "up" BY <1>2
<1>4. Shape'
  <2>1. ShellOK' BY <1>0, <1>2, ShapeIs DEF ShellOK
  <2>2. JobsShape' /\ IsSeq(shUp') /\ IsSeq(shDn') /\ pos' \in Nat \ {0}
    BY <1>0, SameJobs, ShapeIs
  <2>3. IsSeq(dataUp')
    <3>1. CASE dataUp' = dataUp BY <1>0, <3>1, ShapeIs
    <3>2. CASE dataUp' = <<>> BY <3>2, EmptyIsSeq
    <3> QED BY <3>1, <3>2
  <2> QED BY <2>1, <2>2, <2>3 DEF Shape, ShellOK, JobsShape
<1>5. FrameOK' BY <1>0, <1>2, <1>3, FrameKept
<1>6. SyncPaired' BY <1>0, <1>2, <1>3, SyncKept
<1>7. Counted' BY DEF Counted
<1>8. NoFg' BY <1>0, <1>2, <1>3, SameJobs, NoFgKept
<1>9. Early'
  <2>1. rpc' \notin {"spawn", "cmd", "prompt"} OBVIOUS
  <2>2. ASSUME sh'.st \in {"none", "forked", "session"}
        PROVE  /\ jobs' = <<>> /\ sh'.frames = <<>> /\ sh'.pend = {}
               /\ dataUp' = <<>> /\ dataDn' = <<>> /\ shUp' = <<>> /\ shDn' = <<>>
               /\ pos' = 1 /\ rpc' \notin {"cmd", "finish"}
    <3>1. sh.st \in {"none", "forked", "session"} BY <1>2, <2>2
    <3>2. /\ jobs = <<>> /\ sh.frames = <<>> /\ sh.pend = {}
          /\ dataUp = <<>> /\ dataDn = <<>> /\ shUp = <<>> /\ shDn = <<>>
          /\ pos = 1 /\ rpc \notin {"cmd", "finish"}
      BY <1>0, <3>1 DEF Early
    <3> QED BY <1>2, <3>2
  <2> QED BY <2>1, <2>2 DEF Early
<1>10. ChildInv'
  <2>1. Doomed' OBVIOUS
  <2>2. CASE sh'.st = "up"
    <3>1. sh' = sh BY <1>2, <2>2
    <3> QED BY <1>0, <2>1, <3>1 DEF ChildInv, Reaping, Listed, Doomed
  <2>3. CASE sh'.st # "up" BY <2>1, <2>3 DEF ChildInv, Doomed
  <2> QED BY <2>2, <2>3
<1> QED BY <1>4, <1>5, <1>6, <1>7, <1>8, <1>9, <1>10 DEF RInv

(* Only a runtrace that has listed the processes is about to kill.         *)
LEMMA NotClean == rpc' # "clean" => Doomed'
BY DEF Doomed

(* runtrace ends the test, and drains what the shell printed.              *)
LEMMA GiveUpStep ==
  ASSUME RInv, NEW why, GiveUp(why), UNCHANGED <<trace, pos, jobs, shUp, shDn, dataDn>>
  PROVE  RInv'
<1>1. Shape BY DEF RInv
<1>2. /\ rpc' = "list" /\ dataUp' = <<>>
      /\ sh' = sh \/ (sh.st = "zombie" /\ sh' = [sh EXCEPT !.st = "gone"])
  BY DEF GiveUp
<1>3. IsSeq(dataDn') BY <1>1, ShapeIs
<1> QED BY <1>2, <1>3, NotClean, RtEnding

(* runtrace ends without a look at the shell.                              *)
LEMMA ErrorStep ==
  ASSUME RInv, UNCHANGED <<trace, pos, jobs, socks, sh>>,
         rpc' \in {"list", "leave", "exit"}
  PROVE  RInv'
<1>1. Shape BY DEF RInv
<1>2. IsSeq(dataDn') BY <1>1, ShapeIs DEF socks
<1> QED BY <1>2, NotClean, RtEnding DEF socks

(* The user's signal ends it.                                              *)
LEMMA InterruptStep == RInv /\ Interrupt => RInv'
BY ErrorStep DEF Interrupt

(* The alarm ends it.                                                      *)
LEMMA TimeOutStep == RInv /\ TimeOut => RInv'
<1> SUFFICES ASSUME RInv, TimeOut PROVE RInv' OBVIOUS
<1>1. UNCHANGED <<trace, pos, jobs, shUp, shDn, dataDn, syncUp, syncDn>> BY DEF TimeOut
<1>2. CASE rpc = "finish"
  <2>1. rpc' = "list" /\ UNCHANGED <<dataUp, sh>> BY <1>2 DEF TimeOut
  <2> QED BY <1>1, <2>1, ErrorStep DEF socks
<1>3. CASE rpc # "finish"
  <2>1. GiveUp("timeout") BY <1>3 DEF TimeOut
  <2> QED BY <1>1, <2>1, GiveUpStep
<1> QED BY <1>2, <1>3

(* fork, and the exit of a run that finds the directory of another.        *)
LEMMA SpawnStep == RInv /\ Spawn => RInv'
<1> SUFFICES ASSUME RInv, Spawn PROVE RInv' OBVIOUS
<1>0. Shape /\ FrameOK /\ Early /\ SyncPaired /\ Counted /\ NoFg /\ ChildInv BY DEF RInv
<1>1. rpc = "spawn" /\ UNCHANGED <<trace, pos, socks, jobs>> BY DEF Spawn
<1>2. CASE tmp BY <1>1, <1>2, ErrorStep DEF Spawn
<1>3. CASE ~tmp
  <2>1. rpc' = "prompt" /\ sh' = [sh EXCEPT !.st = "forked"] BY <1>3 DEF Spawn
  <2>2. /\ sh.st = "none" /\ jobs = <<>> /\ sh.frames = <<>> /\ sh.pend = {}
        /\ dataUp = <<>> /\ dataDn = <<>> /\ shUp = <<>> /\ shDn = <<>> /\ pos = 1
    BY <1>0, <1>1 DEF Early
  <2>3. sh'.st = "forked" /\ sh'.frames = <<>> /\ sh'.pend = {} /\ DOMAIN sh' = {"st", "frames", "pend"}
    BY <1>0, <2>1, <2>2 DEF Shape
  <2>4. Shape'
    <3>1. ShellOK' BY <2>3, EmptySeq DEF ShellOK
    <3>2. JobsShape' /\ IsSeq(dataUp') /\ IsSeq(dataDn') /\ IsSeq(shUp') /\ IsSeq(shDn')
          /\ pos' \in Nat \ {0}
      BY <1>0, <1>1, SameJobs, ShapeIs DEF socks
    <3> QED BY <3>1, <3>2 DEF Shape, ShellOK, JobsShape
  <2>5. Early' BY <1>1, <2>1, <2>2, <2>3 DEF Early, socks
  <2>6. FrameOK' /\ SyncPaired' /\ Counted' /\ NoFg' BY <2>3 DEF FrameOK, SyncPaired, Counted, NoFg
  <2>7. ChildInv' BY <2>1, <2>3 DEF ChildInv
  <2> QED BY <2>4, <2>5, <2>6, <2>7 DEF RInv
<1> QED BY <1>2, <1>3

-----------------------------------------------------------------------------
(* A step of runtrace before or at a line of the trace: of the shell only  *)
(* the pending signals change, and the two counts are kept.                *)
LEMMA RtGoesOn ==
  ASSUME RInv, rpc' = "cmd", rpc \in {"prompt", "cmd"}, SameShell, jobs' = jobs, trace' = trace,
         pos' \in Nat \ {0}, sh.st \notin {"none", "forked", "session"},
         IsSeq(dataUp'), IsSeq(dataDn'), IsSeq(shUp'), IsSeq(shDn'),
         Len(shUp') + Held' + Len(shDn') = Len(shUp) + Held + Len(shDn),
         Counted'
  PROVE  RInv'
<1>0. Shape /\ FrameOK /\ Early /\ SyncPaired /\ Counted /\ NoFg /\ ChildInv BY DEF RInv
<1>1. Shape'
  <2>1. ShellOK' BY <1>0, ShapeIs DEF ShellOK, SameShell
  <2>2. JobsShape' BY <1>0, SameJobs, ShapeIs
  <2> QED BY <2>1, <2>2 DEF Shape, ShellOK, JobsShape
<1>2. FrameOK' BY <1>0, FrameKept DEF SameShell
<1>3. Early' BY DEF Early, SameShell
<1>4. SyncPaired'
  <2>1. Waiters(sh'.frames) = Waiters(sh.frames) BY DEF SameShell
  <2>2. sh.st = "up" => Len(shUp) + Held + Len(shDn) = Cardinality(Waiters(sh.frames))
    BY <1>0, SyncIs
  <2>3. sh'.st = "up" => Len(shUp') + Held' + Len(shDn') = Cardinality(Waiters(sh'.frames))
    BY <2>1, <2>2 DEF SameShell
  <2> QED BY <2>3 DEF SyncPaired, Waiters
<1>5. NoFg' BY <1>0, SameJobs, NoFgKept DEF SameShell
<1>6. ChildInv' BY <1>0 DEF ChildInv, Reaping, Listed, SameShell
<1> QED BY <1>1, <1>2, <1>3, <1>4, <1>5, <1>6 DEF RInv

(* The counts are of these numbers.                                        *)
NextLines == Lines({"NEXT"})
SentLines == Lines({"line", "PID"})

(* What is added to the two sides of the count is the same.                *)
LEMMA CountedGoesOn ==
  ASSUME Counted, rpc = "cmd", rpc' = "cmd", SameShell, IsSeq(dataUp), IsSeq(dataDn), IsSeq(dataDn'),
         NextLines \in Nat, SentLines \in Nat, NEW dp \in Int, NEW dn \in Int, NEW dd \in Int,
         NEW ds \in Int, Prompts' = Prompts + dp, NextLines' = NextLines + dn,
         Len(dataDn') = Len(dataDn) + dd, SentLines' = SentLines + ds, dp + dn + dd = ds
  PROVE  Counted'
<1> DEFINE at == IF sh.frames[1].at = "read" THEN 0 ELSE 1
           p  == Prompts
           n  == Len(dataDn)
<1>1. /\ Prompts \in Nat /\ Len(dataDn) \in Nat
  BY CountFinite, PromptsIs, SeqBasics
<1>2. sh.st = "up" => p + 1 + NextLines + at + n = 1 + SentLines
  BY DEF Counted, NextLines, SentLines
<1>3. at \in Nat /\ p \in Nat /\ n \in Nat BY <1>1
<1>4. Prompts' = p + dp /\ Len(dataDn') = n + dd OBVIOUS
<1> HIDE DEF at, p, n
<1>5. sh.st = "up" => (p + dp) + 1 + (NextLines + dn) + at + (n + dd) = 1 + (SentLines + ds)
  BY <1>2, <1>3
<1>6. at = IF sh'.frames[1].at = "read" THEN 0 ELSE 1 BY DEF at, SameShell
<1> QED BY <1>4, <1>5, <1>6 DEF Counted, NextLines, SentLines, SameShell

(* What the line taken adds to the counts of lines.                        *)
LEMMA LinesOp ==
  ASSUME pos \in Nat \ {0}, NextLine, trace' = trace
  PROVE  /\ pos' \in Nat \ {0} /\ Held \in Int /\ NextLines \in Nat /\ SentLines \in Nat
         /\ Held' = Held + (IF Cur.op = "SHELLWAIT" THEN 1 ELSE 0)
                         - (IF Cur.op = "SHELLSIGNAL" THEN 1 ELSE 0)
         /\ NextLines' = NextLines + (IF Cur.op = "NEXT" THEN 1 ELSE 0)
         /\ SentLines' = SentLines + (IF Cur.op \in {"line", "PID"} THEN 1 ELSE 0)
<1>1. pos' \in Nat \ {0} BY DEF NextLine
<1>2. /\ Lines({"SHELLWAIT"}) \in Nat
      /\ Lines({"SHELLWAIT"})' = Lines({"SHELLWAIT"}) + (IF Cur.op \in {"SHELLWAIT"} THEN 1 ELSE 0)
  BY LinesStep
<1>3. /\ Lines({"SHELLSIGNAL"}) \in Nat
      /\ Lines({"SHELLSIGNAL"})' = Lines({"SHELLSIGNAL"}) + (IF Cur.op \in {"SHELLSIGNAL"} THEN 1 ELSE 0)
  BY LinesStep
<1>4. /\ NextLines \in Nat
      /\ NextLines' = NextLines + (IF Cur.op = "NEXT" THEN 1 ELSE 0)
  BY LinesStep DEF NextLines
<1>5. /\ SentLines \in Nat
      /\ SentLines' = SentLines + (IF Cur.op \in {"line", "PID"} THEN 1 ELSE 0)
  BY LinesStep DEF SentLines
<1> QED BY <1>1, <1>2, <1>3, <1>4, <1>5 DEF Held

(* Of a line that sends nothing and takes no prompt.                       *)
LEMMA LineStep ==
  ASSUME RInv, rpc = "cmd", UNCHANGED <<trace, rpc, dataUp, dataDn, jobs>>, SameShell, NextLine,
         Cur.op \notin {"NEXT", "line", "PID"},
         IsSeq(shUp'), IsSeq(shDn'),
         Len(shUp') + Held' + Len(shDn') = Len(shUp) + Held + Len(shDn)
  PROVE  RInv'
<1>0. Shape /\ Early /\ Counted BY DEF RInv
<1>1. pos \in Nat \ {0} /\ IsSeq(dataUp) /\ IsSeq(dataDn) /\ IsSeq(shUp) /\ IsSeq(shDn)
  BY <1>0, ShapeIs
<1>2. /\ pos' \in Nat \ {0} /\ NextLines \in Nat /\ SentLines \in Nat
      /\ NextLines' = NextLines + 0 /\ SentLines' = SentLines + 0
  BY <1>1, LinesOp
<1>3. Counted'
  <2>1. Prompts' = Prompts + 0 /\ Len(dataDn') = Len(dataDn) + 0
    BY <1>1, CountFinite, PromptsIs, SeqBasics DEF Prompts
  <2>2. rpc' = "cmd" /\ IsSeq(dataDn') /\ 0 \in Int /\ 0 + 0 + 0 = 0 BY <1>1
  <2> QED BY <1>0, <1>1, <1>2, <2>1, <2>2, CountedGoesOn
<1>4. sh.st \notin {"none", "forked", "session"} BY <1>0 DEF Early
<1>5. rpc' = "cmd" /\ IsSeq(dataUp') /\ IsSeq(dataDn') BY <1>1
<1> QED BY <1>2, <1>3, <1>4, <1>5, RtGoesOn

(* What the invariant says at a line of the trace.                         *)
LEMMA InIs ==
  ASSUME NEW ops, In(ops), RInv
  PROVE  /\ rpc = "cmd" /\ Cur.op \in ops /\ Shape /\ pos \in Nat \ {0} /\ (sh' = sh => SameShell)
         /\ IsSeq(dataUp) /\ IsSeq(dataDn) /\ IsSeq(shUp) /\ IsSeq(shDn)
         /\ sh.st \notin {"none", "forked", "session"} /\ Counted
<1>1. Shape /\ Early /\ Counted BY DEF RInv
<1>2. rpc = "cmd" /\ Cur.op \in ops BY DEF In
<1>3. sh' = sh => SameShell BY <1>1 DEF SameShell, Shape
<1>4. sh.st \notin {"none", "forked", "session"} BY <1>1, <1>2 DEF Early
<1> QED BY <1>1, <1>2, <1>3, <1>4, ShapeIs

(* WAIT, SIGNAL, SHELLWAIT and SHELLSIGNAL: a datagram of the shell that   *)
(* is received is held until its answer is sent.                           *)
LEMMA RtSyncStep ==
  ASSUME RInv, RtWait \/ RtSignal \/ RtShellWait \/ RtShellSignal
  PROVE  RInv'
<1>1. CASE RtWait \/ RtSignal
  <2>1. In({"WAIT"}) \/ In({"SIGNAL"}) BY <1>1 DEF RtWait, RtSignal
  <2>2. /\ UNCHANGED <<trace, rpc, dataUp, dataDn, jobs, sh, shUp, shDn>> /\ NextLine
    BY <1>1 DEF RtWait, RtSignal
  <2>3. /\ rpc = "cmd" /\ Cur.op \in {"WAIT", "SIGNAL"} /\ pos \in Nat \ {0} /\ SameShell
        /\ IsSeq(shUp) /\ IsSeq(shDn)
    BY <2>1, <2>2, InIs
  <2>4. Held' = Held /\ IsSeq(shUp') /\ IsSeq(shDn') BY <2>2, <2>3, LinesOp
  <2> QED BY <2>2, <2>3, <2>4, LineStep
<1>2. CASE RtShellWait
  <2>1. /\ In({"SHELLWAIT"}) /\ shUp # <<>> /\ shUp' = Tail(shUp) /\ shDn' = shDn
        /\ UNCHANGED <<trace, rpc, dataUp, dataDn, jobs, sh>> /\ NextLine
    BY <1>2 DEF RtShellWait
  <2>2. /\ rpc = "cmd" /\ Cur.op = "SHELLWAIT" /\ pos \in Nat \ {0} /\ SameShell
        /\ IsSeq(shUp) /\ IsSeq(shDn)
    BY <2>1, InIs
  <2>3. IsSeq(shUp') /\ IsSeq(shDn') /\ Len(shUp') = Len(shUp) - 1 /\ Len(shUp) \in Nat /\ Len(shDn) \in Nat
    BY <2>1, <2>2, SeqTail, SeqBasics
  <2>4. Held \in Int /\ Held' = Held + 1 BY <2>1, <2>2, LinesOp
  <2>5. Len(shUp') + Held' + Len(shDn') = Len(shUp) + Held + Len(shDn) BY <2>1, <2>3, <2>4
  <2> QED BY <2>1, <2>2, <2>3, <2>5, LineStep
<1>3. CASE RtShellSignal
  <2>1. /\ In({"SHELLSIGNAL"}) /\ shDn' = Append(shDn, "signal") /\ shUp' = shUp
        /\ UNCHANGED <<trace, rpc, dataUp, dataDn, jobs, sh>> /\ NextLine
    BY <1>3 DEF RtShellSignal
  <2>2. /\ rpc = "cmd" /\ Cur.op = "SHELLSIGNAL" /\ pos \in Nat \ {0} /\ SameShell
        /\ IsSeq(shUp) /\ IsSeq(shDn)
    BY <2>1, InIs
  <2>3. IsSeq(shUp') /\ IsSeq(shDn') /\ Len(shDn') = Len(shDn) + 1 /\ Len(shUp) \in Nat /\ Len(shDn) \in Nat
    BY <2>1, <2>2, SeqAppend, SeqBasics
  <2>4. Held \in Int /\ Held' = Held - 1 BY <2>1, <2>2, LinesOp
  <2>5. Len(shUp') + Held' + Len(shDn') = Len(shUp) + Held + Len(shDn) BY <2>1, <2>3, <2>4
  <2> QED BY <2>1, <2>2, <2>3, <2>5, LineStep
<1> QED BY <1>1, <1>2, <1>3

(* SIGINT and SIGTSTP to the shell.                                        *)
LEMMA RtKillStep == RInv /\ RtKill => RInv'
<1> SUFFICES ASSUME RInv, RtKill PROVE RInv' OBVIOUS
<1>1. In({"SIGINT", "SIGTSTP"}) /\ UNCHANGED <<trace, rpc, socks, jobs>> /\ NextLine BY DEF RtKill
<1>2. /\ rpc = "cmd" /\ Cur.op \in {"SIGINT", "SIGTSTP"} /\ pos \in Nat \ {0} /\ Shape
      /\ IsSeq(shUp) /\ IsSeq(shDn)
  BY <1>1, InIs
<1>3. SameShell
  <2>1. \/ sh' = sh
        \/ sh' = [sh EXCEPT !.pend = @ \cup {"INT"}]
        \/ sh' = [sh EXCEPT !.pend = @ \cup {"TSTP"}]
    BY DEF RtKill
  <2>2. DOMAIN sh = {"st", "frames", "pend"} /\ sh.pend \subseteq {"CHLD", "INT", "TSTP"}
    BY <1>2 DEF Shape
  <2>3. CASE sh' = sh BY ONLY <2>2, <2>3 DEF SameShell
  <2>4. CASE sh' = [sh EXCEPT !.pend = @ \cup {"INT"}] BY ONLY <2>2, <2>4 DEF SameShell
  <2>5. CASE sh' = [sh EXCEPT !.pend = @ \cup {"TSTP"}] BY ONLY <2>2, <2>5 DEF SameShell
  <2> QED BY ONLY <2>1, <2>3, <2>4, <2>5
<1>4. Held' = Held BY <1>1, <1>2, LinesOp
<1> QED BY <1>1, <1>2, <1>3, <1>4, LineStep DEF socks

(* NEXT answers a datagram of the shell at once.                           *)
LEMMA ServeStep == RInv /\ ServeShell => RInv'
<1> SUFFICES ASSUME RInv, ServeShell PROVE RInv' OBVIOUS
<1>1. /\ In({"NEXT"}) /\ shUp # <<>> /\ shUp' = Tail(shUp) /\ shDn' = Append(shDn, "shell signal")
      /\ UNCHANGED <<rvars, dataUp, dataDn, sh, jobs>>
  BY DEF ServeShell
<1>2. /\ rpc = "cmd" /\ Shape /\ SameShell /\ IsSeq(shUp) /\ IsSeq(shDn) /\ pos \in Nat \ {0}
      /\ IsSeq(dataUp) /\ IsSeq(dataDn) /\ sh.st \notin {"none", "forked", "session"} /\ Counted
  BY <1>1, InIs
<1>3. /\ IsSeq(shUp') /\ IsSeq(shDn') /\ Len(shUp') = Len(shUp) - 1 /\ Len(shDn') = Len(shDn) + 1
      /\ Len(shUp) \in Nat /\ Len(shDn) \in Nat
  BY <1>1, <1>2, SeqTail, SeqAppend, SeqBasics
<1>4. Held' = Held /\ Held \in Int BY <1>1, <1>2, HeldIs DEF Held, Lines, rvars
<1>5. Len(shUp') + Held' + Len(shDn') = Len(shUp) + Held + Len(shDn) BY <1>3, <1>4
<1>6. Counted' BY <1>1, <1>2, CountedKept DEF rvars, Printed
<1>7. /\ rpc' = "cmd" /\ trace' = trace /\ pos' \in Nat \ {0} /\ jobs' = jobs
      /\ IsSeq(dataUp') /\ IsSeq(dataDn')
  BY <1>1, <1>2 DEF rvars
<1> QED BY <1>2, <1>3, <1>5, <1>6, <1>7, RtGoesOn

(* Taking a datagram from the data pair.                                   *)
LEMMA PromptsTaken ==
  ASSUME IsSeq(dataUp), dataUp # <<>>, dataUp' = Tail(dataUp)
  PROVE  /\ IsSeq(dataUp') /\ Prompts \in Nat
         /\ Prompts' = Prompts - (IF Head(dataUp) = "prompt" THEN 1 ELSE 0)
<1>1. IsSeq(Tail(dataUp)) BY SeqTail
<1>2. Prompts = Cardinality(In1(dataUp, "prompt")) BY PromptsIs
<1>3. Prompts' = Cardinality(In1(Tail(dataUp), "prompt")) BY DEF Prompts, In1
<1>4. /\ Cardinality(In1(dataUp, "prompt")) \in Nat /\ Cardinality(In1(Tail(dataUp), "prompt")) \in Nat
  BY <1>1, CountFinite
<1>5. Cardinality(In1(dataUp, "prompt"))
        = Cardinality(In1(Tail(dataUp), "prompt")) + (IF Head(dataUp) = "prompt" THEN 1 ELSE 0)
  BY CountTail
<1> DEFINE a == Cardinality(In1(dataUp, "prompt"))
           b == Cardinality(In1(Tail(dataUp), "prompt"))
<1>6. a \in Nat /\ b \in Nat /\ a = b + (IF Head(dataUp) = "prompt" THEN 1 ELSE 0)
      /\ Prompts = a /\ Prompts' = b
  BY <1>2, <1>3, <1>4, <1>5
<1> HIDE DEF a, b
<1> QED BY <1>1, <1>6

(* NEXT reads what the shell sent, up to the prompt.                       *)
LEMMA NextPromptStep == RInv /\ NextPrompt => RInv'
<1> SUFFICES ASSUME RInv, NextPrompt PROVE RInv' OBVIOUS
<1>1. /\ In({"NEXT"}) /\ dataUp # <<>> /\ dataUp' = Tail(dataUp)
      /\ (Head(dataUp) = "prompt" /\ NextLine) \/ (Head(dataUp) # "prompt" /\ pos' = pos)
      /\ UNCHANGED <<trace, rpc, dataDn, shUp, shDn, sh, jobs>>
  BY DEF NextPrompt
<1>2. /\ rpc = "cmd" /\ Cur.op = "NEXT" /\ Shape /\ SameShell /\ IsSeq(shUp) /\ IsSeq(shDn)
      /\ pos \in Nat \ {0} /\ IsSeq(dataUp) /\ IsSeq(dataDn)
      /\ sh.st \notin {"none", "forked", "session"} /\ Counted
  BY <1>1, InIs
<1>3. /\ IsSeq(dataUp') /\ Prompts \in Nat
      /\ Prompts' = Prompts - (IF Head(dataUp) = "prompt" THEN 1 ELSE 0)
  BY <1>1, <1>2, PromptsTaken
<1>4. Len(dataDn') = Len(dataDn) + 0 /\ rpc' = "cmd" /\ IsSeq(dataDn') /\ Len(dataDn) \in Nat
  BY <1>1, <1>2, SeqBasics
<1>5. pos' \in Nat \ {0} /\ Held' = Held /\ Counted'
  <2>1. CASE Head(dataUp) = "prompt" /\ NextLine
    <3>1. /\ pos' \in Nat \ {0} /\ NextLines \in Nat /\ SentLines \in Nat /\ Held' = Held
          /\ NextLines' = NextLines + 1 /\ SentLines' = SentLines + 0
      BY <1>1, <1>2, <2>1, LinesOp
    <3>2. Prompts' = Prompts + (-1) BY <1>3, <2>1
    <3>3. -1 \in Int /\ 1 \in Int /\ 0 \in Int /\ -1 + 1 + 0 = 0 OBVIOUS
    <3>4. Counted' BY <1>2, <1>4, <3>1, <3>2, <3>3, CountedGoesOn
    <3> QED BY <3>1, <3>4
  <2>2. CASE Head(dataUp) # "prompt" /\ pos' = pos
    <3>1. /\ NextLines \in Nat /\ SentLines \in Nat BY <1>2, LinesNat DEF NextLines, SentLines
    <3>2. /\ NextLines' = NextLines + 0 /\ SentLines' = SentLines + 0 /\ Held' = Held
      BY <1>1, <2>2, <3>1 DEF NextLines, SentLines, Lines, Held
    <3>3. Prompts' = Prompts + 0 BY <1>3, <2>2
    <3>4. 0 \in Int /\ 0 + 0 + 0 = 0 OBVIOUS
    <3>5. Counted' BY <1>2, <1>4, <3>1, <3>2, <3>3, <3>4, CountedGoesOn
    <3> QED BY <1>2, <2>2, <3>2, <3>5
  <2> QED BY <1>1, <2>1, <2>2
<1>6. /\ IsSeq(shUp') /\ IsSeq(shDn') /\ jobs' = jobs /\ trace' = trace
      /\ Len(shUp') + Held' + Len(shDn') = Len(shUp) + Held + Len(shDn)
  BY <1>1, <1>2, <1>5
<1> QED BY <1>2, <1>3, <1>4, <1>5, <1>6, RtGoesOn

(* The first prompt, which answers no line.                                *)
LEMMA FirstPromptStep == RInv /\ FirstPrompt => RInv'
<1> SUFFICES ASSUME RInv, FirstPrompt PROVE RInv' OBVIOUS
<1>1. /\ rpc = "prompt" /\ dataUp # <<>> /\ UNCHANGED <<trace, pos, dataDn, shUp, shDn, jobs>>
  BY DEF FirstPrompt
<1>2. CASE Head(dataUp) # "prompt"
  <2>1. GiveUp("wrong prompt") BY <1>2 DEF FirstPrompt
  <2> QED BY <1>1, <2>1, GiveUpStep
<1>3. CASE Head(dataUp) = "prompt"
  <2>1. rpc' = "cmd" /\ dataUp' = Tail(dataUp) /\ sh' = sh BY <1>3 DEF FirstPrompt
  <2>2. Shape /\ Early /\ Counted BY DEF RInv
  <2>3. /\ IsSeq(dataUp) /\ IsSeq(dataDn) /\ IsSeq(shUp) /\ IsSeq(shDn) /\ pos \in Nat \ {0}
    BY <2>2, ShapeIs
  <2>4. IsSeq(dataUp') /\ Prompts \in Nat /\ Prompts' = Prompts - 1
    BY <1>1, <1>3, <2>1, <2>3, PromptsTaken
  <2>5. NextLines \in Nat /\ SentLines \in Nat BY <2>3, LinesNat DEF NextLines, SentLines
  <2>6. NextLines' = NextLines /\ SentLines' = SentLines /\ Held' = Held
    BY <1>1 DEF NextLines, SentLines, Held, Lines
  <2>7. Counted'
    <3> DEFINE at == IF sh.frames[1].at = "read" THEN 0 ELSE 1
    <3>1. at \in Nat /\ Len(dataDn) \in Nat BY <2>3, SeqBasics
    <3>2. sh.st = "up" => Prompts + 0 + NextLines + at + Len(dataDn) = 1 + SentLines
      BY <1>1, <2>2 DEF Counted, NextLines, SentLines
    <3>3. at = IF sh'.frames[1].at = "read" THEN 0 ELSE 1 BY <2>1
    <3> HIDE DEF at
    <3>4. sh.st = "up" => Prompts' + 1 + NextLines' + at + Len(dataDn) = 1 + SentLines'
      BY <2>4, <2>5, <2>6, <3>1, <3>2
    <3> QED BY <1>1, <2>1, <3>3, <3>4 DEF Counted, NextLines, SentLines
  <2>8. SameShell BY <2>1, <2>2 DEF SameShell, Shape
  <2>9. sh.st \notin {"none", "forked", "session"} BY <1>1, <2>2 DEF Early
  <2>10. /\ IsSeq(dataDn') /\ IsSeq(shUp') /\ IsSeq(shDn') /\ pos' \in Nat \ {0}
         /\ Len(shUp') + Held' + Len(shDn') = Len(shUp) + Held + Len(shDn)
    BY <1>1, <2>3, <2>6
  <2> QED BY <1>1, <2>1, <2>4, <2>7, <2>8, <2>9, <2>10, RtGoesOn
<1> QED BY <1>2, <1>3

(* A line is sent to the shell.                                            *)
LEMMA SendStep ==
  ASSUME RInv, NEW l, In({"line", "PID"}), SendLine(l), jobs' = jobs
  PROVE  RInv'
<1>1. CASE ~Connected
  <2>1. Error BY <1>1 DEF SendLine
  <2>2. rpc' = "list" /\ UNCHANGED <<trace, pos, socks, sh>> BY <2>1 DEF Error
  <2> QED BY <2>2, ErrorStep
<1>2. CASE Connected
  <2>1. /\ dataDn' = Append(dataDn, l) /\ NextLine /\ UNCHANGED <<trace, rpc, dataUp, shUp, shDn, sh>>
    BY <1>2 DEF SendLine
  <2>2. /\ rpc = "cmd" /\ Cur.op \in {"line", "PID"} /\ Shape /\ SameShell /\ IsSeq(shUp) /\ IsSeq(shDn)
        /\ pos \in Nat \ {0} /\ IsSeq(dataUp) /\ IsSeq(dataDn)
        /\ sh.st \notin {"none", "forked", "session"} /\ Counted
    BY <2>1, InIs
  <2>3. IsSeq(dataDn') /\ Len(dataDn') = Len(dataDn) + 1 BY <2>1, <2>2, SeqAppend
  <2>4. /\ pos' \in Nat \ {0} /\ NextLines \in Nat /\ SentLines \in Nat /\ Held' = Held
        /\ NextLines' = NextLines + 0 /\ SentLines' = SentLines + 1
    BY <2>1, <2>2, LinesOp
  <2>5. Prompts' = Prompts + 0
    <3>1. Prompts \in Nat BY <2>2, CountFinite, PromptsIs
    <3>2. Prompts' = Prompts BY <2>1 DEF Prompts
    <3> QED BY <3>1, <3>2
  <2>6. 0 \in Int /\ 1 \in Int /\ 0 + 0 + 1 = 1 /\ rpc' = "cmd" BY <2>1, <2>2
  <2>7. Counted' BY <2>2, <2>3, <2>4, <2>5, <2>6, CountedGoesOn
  <2>8. /\ IsSeq(dataUp') /\ IsSeq(shUp') /\ IsSeq(shDn') /\ trace' = trace
        /\ Len(shUp') + Held' + Len(shDn') = Len(shUp) + Held + Len(shDn)
    BY <2>1, <2>2, <2>4
  <2> QED BY <2>2, <2>3, <2>4, <2>6, <2>7, <2>8, RtGoesOn
<1> QED BY <1>1, <1>2

(* A line of the trace for the shell.                                      *)
LEMMA RtLineStep == RInv /\ RtLine => RInv'
<1> SUFFICES ASSUME RInv, RtLine PROVE RInv' OBVIOUS
<1>1. In({"line"}) /\ SendLine(Cur) /\ jobs' = jobs BY DEF RtLine
<1>2. In({"line", "PID"}) BY <1>1 DEF In
<1> QED BY <1>1, <1>2, SendStep

(* A line with the pid of a program.                                       *)
LEMMA RtPidStep == RInv /\ RtPid => RInv'
<1> SUFFICES ASSUME RInv, RtPid PROVE RInv' OBVIOUS
<1>1. In({"line", "PID"}) /\ jobs' = jobs BY DEF RtPid, In
<1>2. Error \/ \E l : SendLine(l)
  <2> DEFINE found == {j \in DOMAIN jobs : jobs[j].prog = Cur.prog /\ jobs[j].st # "gone"}
             l == [op |-> "PID", prog |-> IF Cur.bg THEN "bg" ELSE "fg", bg |-> FALSE, num |-> Min(found)]
  <2>1. IF found = {} THEN Error ELSE SendLine(l) BY DEF RtPid
  <2> HIDE DEF l, found
  <2> QED BY <2>1
<1>3. CASE Error
  <2>1. rpc' = "list" /\ UNCHANGED <<trace, pos, socks, sh>> BY <1>3 DEF Error
  <2> QED BY <1>1, <2>1, ErrorStep
<1>4. CASE \E l : SendLine(l) BY <1>1, <1>4, SendStep
<1> QED BY <1>2, <1>3, <1>4

(* The end of the trace.                                                   *)
LEMMA RtEofStep == RInv /\ RtEof => RInv'
<1> SUFFICES ASSUME RInv, RtEof PROVE RInv' OBVIOUS
<1>1. /\ rpc = "cmd" /\ rpc' = "finish" /\ UNCHANGED <<trace, pos, dataUp, shUp, shDn, sh, jobs>>
      /\ dataDn' = dataDn \/ dataDn' = Append(dataDn, Cmd("EOF"))
  BY DEF RtEof
<1>2. IsSeq(dataDn) BY ShapeIs DEF RInv
<1>3. IsSeq(dataDn')
  <2>1. IsSeq(Append(dataDn, Cmd("EOF"))) BY <1>2, SeqAppend
  <2> QED BY <1>1, <1>2, <2>1
<1>4. Doomed' BY <1>1, NotClean
<1> QED BY <1>1, <1>3, <1>4, RtEnding

(* The shell has ended.                                                    *)
LEMMA RtFinishStep == RInv /\ RtFinish => RInv'
<1> SUFFICES ASSUME RInv, RtFinish PROVE RInv' OBVIOUS
<1>1. GiveUp("done") /\ UNCHANGED <<trace, pos, jobs, shUp, shDn, dataDn>> BY DEF RtFinish
<1> QED BY <1>1, GiveUpStep

(* runtrace exits.                                                         *)
LEMMA LeaveStep == RInv /\ Leave => RInv'
<1> SUFFICES ASSUME RInv, Leave PROVE RInv' OBVIOUS
<1>1. rpc' = "exit" /\ UNCHANGED <<trace, pos, jobs, socks, sh>> BY DEF Leave
<1> QED BY <1>1, ErrorStep

(* ps finds the shell, when there is anything for it to find.              *)
LEMMA CleanListStep == RInv /\ CleanList => RInv'
<1> SUFFICES ASSUME RInv, CleanList PROVE RInv' OBVIOUS
<1>0. Shape /\ Early BY DEF RInv
<1>1. /\ rpc = "list" /\ rpc' = "clean" /\ UNCHANGED <<trace, pos, socks, sh, jobs>>
      /\ doomed' = {} \/ doomed' = Session
  BY DEF CleanList
<1>2. Doomed'
  <2>1. CASE sh.st \in {"session", "up"} BY <1>1, <2>1 DEF Session, Doomed
  <2>2. CASE sh.st \in {"zombie", "gone"} BY <1>1, <2>2 DEF Doomed
  <2>3. CASE sh.st \in {"none", "forked"}
    <3>1. jobs = <<>> BY <1>0, <2>3 DEF Early
    <3>2. DOMAIN jobs = {} BY <3>1
    <3>3. Session = {} BY <2>3, <3>2 DEF Session
    <3> QED BY <1>1, <3>3 DEF Doomed
  <2> QED BY <1>0, <2>1, <2>2, <2>3 DEF Shape
<1>3. IsSeq(dataDn') BY <1>0, <1>1, ShapeIs DEF socks
<1> QED BY <1>1, <1>2, <1>3, RtEnding DEF socks

(* What ps listed is killed: nothing, or the shell as well.                *)
LEMMA CleanKillStep == RInv /\ CleanKill => RInv'
<1> SUFFICES ASSUME RInv, CleanKill PROVE RInv' OBVIOUS
<1>0. Shape /\ FrameOK /\ Early /\ SyncPaired /\ Counted /\ NoFg /\ ChildInv BY DEF RInv
<1>1. /\ rpc = "clean" /\ rpc' = "leave" /\ UNCHANGED <<trace, pos, socks>>
      /\ jobs' = [j \in DOMAIN jobs |->
                    IF j \in doomed \/ (0 \in doomed /\ jobs[j].st = "dead")
                    THEN [jobs[j] EXCEPT !.st = "gone"] ELSE jobs[j]]
      /\ sh' = IF 0 \in doomed THEN [st |-> "zombie", frames |-> <<>>, pend |-> {}] ELSE sh
  BY DEF CleanKill
<1>2. CASE doomed = {}
  <2>1. jobs = [j \in DOMAIN jobs |-> jobs[j]] BY <1>0, JobsAre
  <2>2. jobs' = jobs /\ sh' = sh BY <1>1, <1>2, <2>1
  <2> QED BY <1>1, <2>2, ErrorStep
<1>3. CASE 0 \in doomed \/ sh.st \in {"zombie", "gone"}
  <2>1. sh'.st \in {"zombie", "gone"} /\ ShellOK'
    <3>1. CASE 0 \in doomed
      <4>1. sh'.st = "zombie" /\ sh'.frames = <<>> /\ sh'.pend = {} /\ DOMAIN sh' = {"st", "frames", "pend"}
        BY <1>1, <3>1
      <4> QED BY <4>1, EmptySeq DEF ShellOK
    <3>2. CASE 0 \notin doomed
      <4>1. sh' = sh BY <1>1, <3>2
      <4> QED BY <1>0, <1>3, <3>2, <4>1, ShapeIs DEF ShellOK
    <3> QED BY <3>1, <3>2
  <2>2. JobsShape'
    <3>1. /\ jobs' = [j \in DOMAIN jobs |-> jobs'[j]]
          /\ \A j \in DOMAIN jobs : jobs'[j] \in {jobs[j], [jobs[j] EXCEPT !.st = "gone"]}
      BY <1>1
    <3>2. IsSeq(jobs') /\ DOMAIN jobs' = DOMAIN jobs BY <1>0, <3>1, SeqSame DEF Shape
    <3>3. ASSUME NEW j \in DOMAIN jobs
          PROVE  /\ DOMAIN jobs'[j] = JobFields
                 /\ jobs'[j].st \in {"run", "stop", "dead", "gone"}
                 /\ jobs'[j].how \in {"", "exited", "killed"}
      <4>1. /\ DOMAIN jobs[j] = JobFields
            /\ jobs[j].st \in {"run", "stop", "dead", "gone"}
            /\ jobs[j].how \in {"", "exited", "killed"}
        BY <1>0 DEF Shape
      <4>2. CASE jobs'[j] = jobs[j] BY <4>1, <4>2
      <4>3. CASE jobs'[j] = [jobs[j] EXCEPT !.st = "gone"] BY <4>1, <4>3 DEF JobFields
      <4> QED BY <3>1, <4>2, <4>3
    <3> QED BY <3>2, <3>3 DEF JobsShape
  <2>3. Shape'
    <3>1. /\ IsSeq(dataUp') /\ IsSeq(dataDn') /\ IsSeq(shUp') /\ IsSeq(shDn') /\ pos' \in Nat \ {0}
      BY <1>0, <1>1, ShapeIs DEF socks
    <3> QED BY <2>1, <2>2, <3>1 DEF Shape, ShellOK, JobsShape
  <2>4. FrameOK' /\ SyncPaired' /\ Counted' /\ NoFg'
    BY <2>1 DEF FrameOK, SyncPaired, Counted, NoFg
  <2>5. Early' BY <1>1, <2>1 DEF Early
  <2>6. ChildInv' BY <1>1, <2>1 DEF ChildInv
  <2> QED BY <2>3, <2>4, <2>5, <2>6 DEF RInv
<1> QED BY <1>0, <1>1, <1>2, <1>3 DEF ChildInv

(* Every step of runtrace keeps the invariant.                             *)
LEMMA RtStep == RInv /\ Runtrace => RInv'
<1> SUFFICES ASSUME RInv, RtMoves PROVE RInv' BY TimeOutStep DEF Runtrace
<1> QED
  BY SpawnStep, FirstPromptStep, RtSyncStep, ServeStep, NextPromptStep, RtKillStep, RtLineStep,
     RtPidStep, RtEofStep, RtFinishStep, CleanListStep, CleanKillStep, LeaveStep DEF RtMoves

-----------------------------------------------------------------------------
(* The invariant holds at the start.                                       *)
LEMMA RInit == Init => RInv
<1> SUFFICES ASSUME Init PROVE RInv OBVIOUS
<1>1. /\ pos = 1 /\ rpc = "spawn" /\ sh.st = "none" /\ sh.frames = <<>> /\ sh.pend = {}
      /\ DOMAIN sh = {"st", "frames", "pend"} /\ jobs = <<>>
      /\ dataUp = <<>> /\ dataDn = <<>> /\ shUp = <<>> /\ shDn = <<>>
  BY DEF Init
<1>2. IsSeq(jobs) /\ IsSeq(dataUp) /\ IsSeq(dataDn) /\ IsSeq(shUp) /\ IsSeq(shDn) /\ DOMAIN jobs = {}
  BY <1>1, EmptyIsSeq
<1>3. Shape
  <2>1. ShellOK BY <1>1, EmptySeq DEF ShellOK
  <2>2. JobsShape BY <1>2 DEF JobsShape
  <2> QED BY <1>1, <1>2, <2>1, <2>2, ShapeIs
<1>4. FrameOK /\ SyncPaired /\ Counted /\ NoFg /\ ChildInv /\ Early
  BY <1>1 DEF FrameOK, SyncPaired, Counted, NoFg, ChildInv, Early
<1> QED BY <1>3, <1>4 DEF RInv

(* Every step keeps it.                                                    *)
LEMMA RNext == RInv /\ [Next]_vars => RInv'
<1> SUFFICES ASSUME RInv, [Next]_vars PROVE RInv' OBVIOUS
<1>1. CASE Runtrace BY <1>1, RtStep
<1>2. CASE Interrupt BY <1>2, InterruptStep
<1>3. CASE Shell BY <1>3, ShellStep
<1>4. CASE Jobs BY <1>4, JobStep DEF Jobs
<1>6. CASE \E j \in DOMAIN jobs : JobAlarm(j) BY <1>6, AlarmStep
<1>5. CASE UNCHANGED vars
  <2>1. UNCHANGED <<trace, pos, rpc, doomed, dataUp, dataDn, shUp, shDn, sh, jobs>>
    BY <1>5 DEF vars, rvars, socks
  <2>2. Shape /\ FrameOK /\ Early /\ SyncPaired /\ Counted /\ NoFg /\ ChildInv BY DEF RInv
  <2>3. Shape'
    <3>1. ShellOK' /\ JobsShape' BY <2>1, <2>2, ShapeIs, SameJobs DEF ShellOK
    <3>2. IsSeq(dataUp') /\ IsSeq(dataDn') /\ IsSeq(shUp') /\ IsSeq(shDn') /\ pos' \in Nat \ {0}
      BY <2>1, <2>2, ShapeIs
    <3> QED BY <3>1, <3>2 DEF Shape, ShellOK, JobsShape
  <2>4. FrameOK' /\ Early' BY <2>1, <2>2 DEF FrameOK, Early, Point
  <2>5. SyncPaired' BY <2>1, <2>2, SyncKept
  <2>6. Counted' BY <2>1, <2>2, CountedKept DEF Printed
  <2>7. NoFg' /\ ChildInv' BY <2>1, <2>2 DEF NoFg, ChildInv, FgJobs, Listed, Reaping
  <2> QED BY <2>3, <2>4, <2>5, <2>6, <2>7 DEF RInv
<1> QED BY <1>1, <1>2, <1>3, <1>4, <1>5, <1>6 DEF Next

(* When as many prompts have been read as lines sent, the shell reads,     *)
(* there is no line for it, and no job in the foreground.                  *)
LEMMA IdleFrom == RInv => NextMeansIdle
<1> SUFFICES ASSUME RInv, rpc = "cmd", pos > 1, SentLines = NextLines, sh.st = "up"
             PROVE  sh.frames[1].at = "read" /\ dataDn = <<>> /\ FgJobs = {}
  BY DEF NextMeansIdle, SentLines, NextLines
<1>1. Shape /\ Counted /\ NoFg BY DEF RInv
<1>2. IsSeq(dataUp) /\ IsSeq(dataDn) /\ pos \in Nat \ {0} BY <1>1, ShapeIs
<1>3. NextLines \in Nat /\ Prompts \in Nat /\ Len(dataDn) \in Nat
  BY <1>2, LinesNat, CountFinite, PromptsIs, SeqBasics DEF NextLines
<1> DEFINE at == IF sh.frames[1].at = "read" THEN 0 ELSE 1
<1>4. Prompts + 1 + NextLines + at + Len(dataDn) = 1 + SentLines
  BY <1>1 DEF Counted, NextLines, SentLines
<1>5. at \in Nat OBVIOUS
<1> HIDE DEF at
<1>6. at = 0 /\ Len(dataDn) = 0 BY <1>3, <1>4, <1>5
<1>7. sh.frames[1].at = "read" BY <1>6 DEF at
<1>8. dataDn = <<>> BY <1>2, <1>3, <1>6, SeqBasics
<1> QED BY <1>1, <1>7, <1>8 DEF NoFg

(* The signal is sent to a job that has not been reaped.                   *)
LEMMA ForwardFrom == RInv /\ ShForward => jobs[Top.job].st # "gone"
<1> SUFFICES ASSUME RInv, ShForward PROVE jobs[Top.job].st # "gone" OBVIOUS
<1>1. At({"hkill"}) BY DEF ShForward
<1> QED BY <1>1, HandlerNames, HandlerIs

(* For every set of traces, with any queues, time-outs and interrupts, the *)
(* invariant holds: the datagrams and the prompts are accounted for, and   *)
(* no reaped job is on the list, but while its handler deletes it.         *)
THEOREM RunTraceInvariant == Spec => []RInv
<1>1. Init => RInv BY RInit
<1>2. RInv /\ [Next]_vars => RInv' BY RNext
<1> QED BY <1>1, <1>2, PTL DEF Spec

(* The shellsync datagrams under way are those that stopped calls of the   *)
(* shell wait for, in every interleaving of runtrace, shell, handlers and  *)
(* jobs.                                                                   *)
THEOREM SyncPairedAlways == Spec => []SyncPaired
<1>1. RInv => SyncPaired BY DEF RInv
<1> QED BY <1>1, RunTraceInvariant, PTL

(* After the NEXT that answers the last line the shell is done with that   *)
(* line, for every trace: the harness may send a signal or look at the     *)
(* output then.                                                            *)
THEOREM NextMeansIdleAlways == Spec => []NextMeansIdle
<1>1. RInv => NextMeansIdle BY IdleFrom
<1> QED BY <1>1, RunTraceInvariant, PTL

(* sigint_handler and sigtstp_handler never signal a process that has been *)
(* reaped, whose number may be another's.                                  *)
THEOREM ForwardedToChildAlways == Spec => ForwardedToChild
<1>1. RInv /\ [Next]_vars => [ShForward => jobs[Top.job].st # "gone"]_vars BY ForwardFrom
<1> QED BY <1>1, RunTraceInvariant, PTL DEF Spec, ForwardedToChild

-----------------------------------------------------------------------------
(***************************************************************************)
(* What runtrace leaves behind.                                            *)
(***************************************************************************)
(* The end of the test was that of the shell.                              *)
Finished == ends \in {"done", "late alarm"}

(* The directory is there only with cleanup_needed, which lasts until the  *)
(* clean that removes both.  After the end of the shell nobody starts a    *)
(* job and nobody interrupts the clean, so that ps lists every job there   *)
(* still is when they are killed.                                          *)
CleanInv ==
  /\ rpc \in {"spawn", "prompt", "cmd", "finish"} => ends = ""
  /\ ends = "exists" => rpc = "exit"
  /\ rpc \notin {"spawn", "leave", "exit"} => needed
  /\ rpc \in {"leave", "exit"} /\ ends # "exists" => ~tmp
  /\ Finished => masked /\ sh.st \in {"zombie", "gone"}
  /\ Finished /\ rpc = "clean" => \A j \in DOMAIN jobs : Alive(j) => j \in doomed
  /\ Finished /\ rpc \in {"leave", "exit"} => \A j \in DOMAIN jobs : ~Alive(j)

(* Of the jobs that a step of a job j changes, none but j was dead.        *)
LEMMA SignalledOne ==
  ASSUME NEW j \in DOMAIN jobs, NEW s
  PROVE  /\ DOMAIN Signalled(j, s) = DOMAIN jobs
         /\ \A i \in DOMAIN jobs : i # j => Signalled(j, s)[i] = jobs[i]
BY DEF Signalled, Ended

(* A job's step starts no other, and brings none back.                     *)
LEMMA NoneRevived ==
  ASSUME Shape, NEW j \in DOMAIN jobs, Job(j)
  PROVE  /\ UNCHANGED rvars /\ sh'.st = sh.st /\ DOMAIN jobs' = DOMAIN jobs
         /\ \A i \in DOMAIN jobs : Alive(i)' => Alive(i)
<1>1. UNCHANGED rvars
  BY DEF Job, JobPrint, JobSignal, JobWait, JobKillsShell, JobKillsItself, JobPkill, JobTerm, JobExit
<1>2. jobs[j].st = "run"
  BY DEF Job, JobPrint, JobSignal, JobWait, JobKillsShell, JobKillsItself, JobPkill, JobTerm, JobExit,
         Doing
<1>3. sh'.st = sh.st
  <2>1. "st" \in DOMAIN sh BY DEF Shape
  <2>2. \A js : ShellTold(js).st = sh.st BY Told
  <2> QED
    BY <2>1, <2>2 DEF Job, JobPrint, JobSignal, JobWait, JobKillsShell, JobKillsItself, JobPkill,
                      JobTerm, JobExit
<1>4. DOMAIN jobs' = DOMAIN jobs /\ \A i \in DOMAIN jobs : i = j \/ Alive(i) \/ jobs'[i] = jobs[i]
  <2>1. CASE JobPrint(j) \/ JobSignal(j) \/ JobWait(j) \/ JobKillsShell(j)
    BY <2>1 DEF JobPrint, JobSignal, JobWait, JobKillsShell, Advanced
  <2>2. CASE JobKillsItself(j)
    <3>1. PICK s : jobs' = [Signalled(j, s) EXCEPT ![j].step = @ + 1]
      BY <2>2 DEF JobKillsItself
    <3> QED BY <3>1, SignalledOne
  <2>3. CASE JobPkill(j)
    BY <2>3 DEF JobPkill
  <2>4. CASE JobTerm(j) \/ JobExit(j)
    BY <2>4 DEF JobTerm, JobExit, Ended
  <2> QED BY <2>1, <2>2, <2>3, <2>4 DEF Job
<1> QED BY <1>1, <1>2, <1>3, <1>4 DEF Alive

(* Nor does the time-out of a test program.                                *)
LEMMA AlarmRevivesNone ==
  ASSUME Shape, NEW j \in DOMAIN jobs, JobAlarm(j)
  PROVE  /\ UNCHANGED rvars /\ sh'.st = sh.st /\ DOMAIN jobs' = DOMAIN jobs
         /\ \A i \in DOMAIN jobs : Alive(i)' => Alive(i)
<1>1. UNCHANGED rvars /\ jobs[j].st = "run" /\ jobs' = Ended(j, "exited")
  BY DEF JobAlarm
<1>2. sh'.st = sh.st BY Told DEF JobAlarm
<1>3. DOMAIN jobs' = DOMAIN jobs /\ \A i \in DOMAIN jobs : i = j \/ jobs'[i] = jobs[i]
  BY <1>1 DEF Ended
<1> QED BY <1>1, <1>2, <1>3 DEF Alive

(* Before the end of the test.                                             *)
LEMMA StillRunning ==
  ASSUME CleanInv, rpc \in {"prompt", "cmd"}, rpc' \in {"cmd", "finish"},
         UNCHANGED <<ends, needed>>
  PROVE  CleanInv'
BY DEF CleanInv, Finished

(* The test is broken off.                                                 *)
LEMMA BreaksOff ==
  ASSUME CleanInv, rpc \notin {"spawn", "leave", "exit"}, rpc' = "list",
         ends' \in {"wrong prompt", "timeout", "error", "signal"}, needed' = needed
  PROVE  CleanInv'
BY DEF CleanInv, Finished

(* The processes are listed, and killed.                                   *)
LEMMA Cleans ==
  ASSUME Shape, CleanInv, CleanList \/ CleanKill
  PROVE  CleanInv'
<1>1. CASE CleanList
  <2>1. /\ rpc = "list" /\ rpc' = "clean" /\ doomed' = Session
        /\ UNCHANGED <<ends, needed, tmp, masked, sh, jobs>>
    BY <1>1 DEF CleanList, CleanInv
  <2>2. \A j \in DOMAIN jobs : Alive(j)' => j \in doomed'
    BY <2>1 DEF Session, Alive
  <2> QED BY <2>1, <2>2 DEF CleanInv, Finished
<1>2. CASE CleanKill
  <2>1. /\ rpc = "clean" /\ rpc' = "leave" /\ ~tmp' /\ UNCHANGED <<ends, masked>>
    BY <1>2 DEF CleanKill, CleanInv
  <2>2. Finished => sh'.st \in {"zombie", "gone"}
    BY <1>2 DEF CleanKill, CleanInv
  <2>3. ASSUME Finished, NEW j \in DOMAIN jobs'
        PROVE  ~Alive(j)'
    <3>1. j \in DOMAIN jobs /\ "st" \in DOMAIN jobs[j]
      BY <1>2, <2>3 DEF CleanKill, Shape, JobFields
    <3>2. CASE Alive(j)
      <4>1. j \in doomed BY <2>1, <2>3, <3>1, <3>2 DEF CleanInv
      <4>2. jobs'[j] = [jobs[j] EXCEPT !.st = "gone"] BY <1>2, <3>1, <4>1 DEF CleanKill
      <4> QED BY <3>1, <4>2 DEF Alive
    <3>3. CASE ~Alive(j)
      <4>1. jobs'[j] \in {jobs[j], [jobs[j] EXCEPT !.st = "gone"]} BY <1>2, <3>1 DEF CleanKill
      <4> QED BY <3>1, <3>3, <4>1 DEF Alive
    <3> QED BY <3>2, <3>3
  <2> QED BY <2>1, <2>2, <2>3 DEF CleanInv, Finished
<1> QED BY <1>1, <1>2

(* Every step keeps it.                                                    *)
LEMMA CleanNext == RInv /\ CleanInv /\ [Next]_vars => CleanInv'
<1> SUFFICES ASSUME Shape, CleanInv, [Next]_vars PROVE CleanInv' BY DEF RInv
<1>1. CASE UNCHANGED vars
  BY <1>1 DEF vars, rvars, CleanInv, Finished, Alive
<1>2. CASE Shell
  <2>1. sh.st \in {"forked", "session", "up"} /\ UNCHANGED rvars
    BY <1>2 DEF Shell, ShSyncSignal, ShSyncWait, ShSetsid, ShStart, ShPrompt, ShRead, ShGetPid,
                ShSetState, ShContinue, ShBgPrint, ShWaited, ShDeliver, ShWaitpid, ShReaped,
                ShSetStopped, ShFindFg, ShGetFgPid, ShForward, At
  <2> QED BY <2>1 DEF rvars, CleanInv, Finished
<1>3. CASE Jobs \/ \E j \in DOMAIN jobs : JobAlarm(j)
  <2>1. PICK j \in DOMAIN jobs : Job(j) \/ JobAlarm(j) BY <1>3 DEF Jobs
  <2> QED BY <2>1, NoneRevived, AlarmRevivesNone DEF rvars, CleanInv, Finished
<1>4. CASE Interrupt
  BY <1>4, BreaksOff DEF Interrupt
<1>5. CASE TimeOut
  <2>1. /\ rpc \in {"prompt", "cmd", "finish"} /\ rpc' = "list" /\ ends' = "timeout"
        /\ needed' = needed
    BY <1>5 DEF TimeOut, Waiting, In, GiveUp
  <2> QED BY <2>1, BreaksOff
<1>6. CASE Spawn
  BY <1>6 DEF Spawn, CleanInv, Finished
<1>7. CASE FirstPrompt
  <2>1. CASE Head(dataUp) = "prompt"
    BY <1>7, <2>1, StillRunning DEF FirstPrompt
  <2>2. CASE Head(dataUp) # "prompt"
    BY <1>7, <2>2, BreaksOff DEF FirstPrompt, GiveUp
  <2> QED BY <2>1, <2>2
<1>8. CASE RtWait \/ RtShellWait \/ RtSignal \/ RtShellSignal \/ ServeShell \/ NextPrompt \/ RtKill
           \/ RtEof
  <2>1. rpc = "cmd" /\ rpc' \in {"cmd", "finish"} /\ UNCHANGED <<ends, needed>>
    BY <1>8 DEF RtWait, RtShellWait, RtSignal, RtShellSignal, ServeShell, NextPrompt, RtKill, RtEof,
                In, rvars
  <2> QED BY <2>1, StillRunning
<1>9. CASE RtLine \/ RtPid
  <2>1. rpc = "cmd" /\ UNCHANGED needed
    BY <1>9 DEF RtLine, RtPid, In, SendLine, Error
  <2>2. \/ UNCHANGED <<rpc, ends>>
        \/ rpc' = "list" /\ ends' = "error"
    BY <1>9 DEF RtLine, RtPid, SendLine, Error
  <2> QED BY <2>1, <2>2, StillRunning, BreaksOff
<1>10. CASE RtFinish
  <2>1. /\ rpc = "finish" /\ rpc' = "list" /\ ends' = "done" /\ masked' = TRUE
        /\ UNCHANGED needed /\ sh' = [sh EXCEPT !.st = "gone"]
    BY <1>10 DEF RtFinish, GiveUp
  <2>2. sh'.st = "gone" BY <2>1 DEF Shape
  <2> QED BY <2>1, <2>2 DEF CleanInv, Finished
<1>11. CASE CleanList \/ CleanKill
  BY <1>11, Cleans
<1>12. CASE Leave
  BY <1>12 DEF Leave, CleanInv, Finished, Alive
<1> QED
  BY <1>1, <1>2, <1>3, <1>4, <1>5, <1>6, <1>7, <1>8, <1>9, <1>10, <1>11, <1>12
     DEF Next, Runtrace, RtMoves

(* Whatever ends runtrace, once it has exited the directory it made is     *)
(* gone, and after the shell's own end nothing of its session is left, for *)
(* every trace and whenever alarms and the user's signals strike: the      *)
(* safety half of RunEndsClean.                                            *)
THEOREM CleansUp == Spec => [](rpc = "exit" => CleanedUp)
<1>1. Init => CleanInv
  BY DEF Init, CleanInv, Finished
<1>2. RInv /\ CleanInv /\ [Next]_vars => CleanInv'
  BY CleanNext
<1>3. CleanInv => (rpc = "exit" => CleanedUp)
  BY DEF CleanInv, Finished, CleanedUp, Live, ShellAlive
<1> QED BY <1>1, <1>2, <1>3, RunTraceInvariant, PTL DEF Spec

-----------------------------------------------------------------------------
(***************************************************************************)
(* The sigaction wrapper of SigWrap.                                       *)
(***************************************************************************)
(***************************************************************************)
(* The inductive invariant.                                                *)
(***************************************************************************)
Errno  == {"program", "sigprocmask", "sentinel", "handler"}
Action == Handlers \cup Special

InSigaction == {"save", "install", "table", "return"}
InWrapper   == {"enter", "lookup", "call", "check"}

(* Where all signals are blocked, and where a handler's frame holds the    *)
(* errno of the code it interrupted.                                       *)
Closed == {"install", "table", "return", "lookup"}
Holds  == {"lookup", "call", "check"}

WrapFrame == [at : InSigaction \cup InWrapper, sig : Signals, act : Action \cup {"NULL"},
          prev : SUBSET Signals, had : BOOLEAN, old : Action, errno : Errno]

WrapTypeOK ==
  /\ kernel \in [Signals -> Special \cup {"wrapper"}]
  /\ real \in [Signals -> Action]
  /\ wrapped \in [Signals -> BOOLEAN]
  /\ mask \subseteq Signals
  /\ errno \in Errno
  /\ stack \in Seq(WrapFrame)
  /\ asked \in [Signals -> Action]
  /\ warned \in BOOLEAN /\ spoilt \in BOOLEAN

Depth == Len(stack)

(* A call of sigaction is the lowest frame, and what runs with the signals *)
(* blocked is the highest.                                                 *)
MaskInv ==
  /\ \A i \in 1..Depth :
       /\ stack[i].at \in InSigaction => i = 1
       /\ stack[i].at \in Closed => i = Depth /\ stack[i].prev = {}
  /\ mask = IF Depth > 0 /\ stack[Depth].at \in Closed THEN Signals ELSE {}

(* The table and the kernel agree on what the program has asked for.       *)
Settled(s) ==
  IF wrapped[s]
    THEN kernel[s] = "wrapper" /\ real[s] = asked[s] /\ asked[s] \in Handlers
    ELSE kernel[s] = asked[s]

(* Of the signal of a call of sigaction between __real_sigaction and the   *)
(* change of the table only the kernel knows.                              *)
Unsettled(s) ==
  Depth > 0 /\ stack[Depth].at = "table" /\ stack[Depth].sig = s /\ stack[Depth].act # "NULL"

TableInv ==
  /\ \A s \in Signals : Settled(s) \/ Unsettled(s)
  /\ \A i \in 1..Depth :
       LET f == stack[i] IN
       /\ f.at = "install" => f.had = wrapped[f.sig] /\ f.old = real[f.sig]
       /\ f.at = "table" /\ f.act # "NULL" =>
            /\ asked[f.sig] = f.act
            /\ kernel[f.sig] = IF f.act \in Special THEN f.act ELSE "wrapper"
       /\ f.at \in InWrapper => wrapped[f.sig]
       /\ f.at \in {"call", "check"} => f.act = asked[f.sig]

(* What the errno of frame i is when the frames above it are gone: main's  *)
(* is not the sentinel, that of a handler of the program is until the      *)
(* handler changes it.                                                     *)
Sees(st, i, e) ==
  IF i = 0 THEN e # "sentinel"
  ELSE /\ st[i].at = "call" => e = "sentinel"
       /\ st[i].at = "check" =>
            e = IF st[i].act \in Careless THEN "handler" ELSE "sentinel"

(* The frames above i, up to n, have not saved errno yet.                  *)
Unsaved(st, i, n) == \A k \in 1..n : i < k => st[k].at = "enter"

(* The errno of frame i is held by the lowest frame above it that has      *)
(* saved errno, or is errno itself.                                        *)
ErrnoInv ==
  /\ \A i \in 0..Depth : Unsaved(stack, i, Depth) => Sees(stack, i, errno)
  /\ \A i \in 0..Depth, j \in 1..Depth :
       i < j /\ stack[j].at \in Holds /\ Unsaved(stack, i, j - 1) =>
         Sees(stack, i, stack[j].errno)
  /\ spoilt <=> \/ warned
                \/ \E i \in 1..Depth : stack[i].at = "check" /\ stack[i].act \in Careless

SeenInv == seen.got = seen.should

WInv == WrapTypeOK /\ MaskInv /\ TableInv /\ ErrnoInv /\ SeenInv

-----------------------------------------------------------------------------
(* The stack.                                                              *)

LEMMA TopFrame ==
  ASSUME WrapTypeOK, stack # <<>>
  PROVE  /\ Depth \in Nat /\ Depth > 0
         /\ Cur0 = stack[Depth] /\ Cur0 \in WrapFrame
         /\ \A i \in 1..Depth : stack[i] \in WrapFrame
BY DEF WrapTypeOK, Depth, Cur0, Last

LEMMA FrontFacts ==
  ASSUME WrapTypeOK, stack # <<>>
  PROVE  /\ Front(stack) \in Seq(WrapFrame)
         /\ Len(Front(stack)) = Depth - 1 /\ Depth \in Nat /\ Depth > 0
         /\ \A i \in 1..(Depth - 1) : Front(stack)[i] = stack[i]
<1>1. Depth \in Nat /\ Depth > 0 /\ \A i \in 1..(Depth - 1) : stack[i] \in WrapFrame
  BY TopFrame
<1>2. /\ SubSeq(stack, 1, Depth - 1) \in Seq(WrapFrame)
      /\ Len(SubSeq(stack, 1, Depth - 1)) = Depth - 1
      /\ \A i \in 1..(Depth - 1) : SubSeq(stack, 1, Depth - 1)[i] = stack[i]
  BY <1>1, SubSeqProperties
<1>. QED
  BY <1>1, <1>2 DEF Front, Depth

LEMMA WrapReplaced ==
  ASSUME WrapTypeOK, stack # <<>>, NEW f \in WrapFrame, stack' = Append(Front(stack), f)
  PROVE  /\ stack' \in Seq(WrapFrame) /\ stack' # <<>>
         /\ Depth' = Depth
         /\ stack'[Depth] = f
         /\ \A i \in 1..Depth : i # Depth => stack'[i] = stack[i]
<1>. DEFINE g == Front(stack)
<1>1. /\ g \in Seq(WrapFrame) /\ Len(g) = Depth - 1 /\ Depth \in Nat /\ Depth > 0
      /\ \A i \in 1..(Depth - 1) : g[i] = stack[i]
  BY FrontFacts
<1>. HIDE DEF g
<1>2. /\ Append(g, f) \in Seq(WrapFrame)
      /\ Len(Append(g, f)) = Depth
      /\ Append(g, f)[Depth] = f
      /\ \A i \in 1..(Depth - 1) : Append(g, f)[i] = g[i]
  BY <1>1
<1>. QED
  BY <1>1, <1>2 DEF Depth, g

LEMMA Pushed ==
  ASSUME WrapTypeOK, NEW f \in WrapFrame, stack' = Append(stack, f)
  PROVE  /\ stack' \in Seq(WrapFrame)
         /\ Depth \in Nat /\ Depth' = Depth + 1
         /\ stack'[Depth + 1] = f
         /\ \A i \in 1..Depth : stack'[i] = stack[i]
BY DEF WrapTypeOK, Depth

LEMMA Popped ==
  ASSUME WrapTypeOK, stack # <<>>, stack' = Front(stack)
  PROVE  /\ stack' \in Seq(WrapFrame)
         /\ Depth' = Depth - 1
         /\ \A i \in 1..(Depth - 1) : stack'[i] = stack[i]
BY FrontFacts DEF Depth

-----------------------------------------------------------------------------
LEMMA WInit == WrapInit => WInv
<1>. SUFFICES ASSUME WrapInit PROVE WInv
  OBVIOUS
<1>0. stack \in Seq(WrapFrame) /\ Depth = 0
  BY DEF WrapInit, Depth
<1>1. WrapTypeOK /\ Depth = 0
  BY <1>0 DEF WrapInit, WrapTypeOK, Special, Action, Errno
<1>2. MaskInv
  BY <1>1 DEF WrapInit, MaskInv
<1>3. TableInv
  BY <1>1 DEF WrapInit, TableInv, Settled
<1>4. ErrnoInv
  BY <1>1 DEF WrapInit, ErrnoInv, Sees
<1>5. SeenInv
  BY DEF WrapInit, SeenInv
<1>. QED
  BY <1>1, <1>2, <1>3, <1>4, <1>5 DEF WInv

(* A call of sigaction begins: nothing has changed yet.                    *)
LEMMA CallStep == WInv /\ SigactionCall => WInv'
<1>. SUFFICES ASSUME WInv, SigactionCall PROVE WInv'
  OBVIOUS
<1>1. PICK s \in Signals, act \in Handlers \cup Special \cup {"NULL"} :
        stack' = <<Call(s, act)>>
  BY DEF SigactionCall
<1>2. /\ stack = <<>> /\ Depth = 0
      /\ UNCHANGED <<kernel, real, wrapped, mask, errno, asked, seen, warned, spoilt>>
  BY DEF SigactionCall, Depth
<1>3. Call(s, act) \in WrapFrame /\ Call(s, act).at = "save"
  BY DEF Call, WrapFrame, InSigaction, InWrapper, Action, Special, Errno
<1>4. /\ stack' \in Seq(WrapFrame) /\ Depth' = 1 /\ stack'[1].at = "save"
  BY <1>1, <1>3 DEF Depth
<1>5. WrapTypeOK'
  BY <1>2, <1>4 DEF WInv, WrapTypeOK
<1>6. MaskInv'
  BY <1>2, <1>4 DEF WInv, MaskInv, Closed
<1>7. TableInv'
  BY <1>2, <1>4 DEF WInv, TableInv, Settled, Unsettled, InWrapper
<1>8. ErrnoInv' /\ SeenInv'
  BY <1>2, <1>4 DEF WInv, ErrnoInv, Sees, SeenInv, Unsaved, Holds
<1>. QED
  BY <1>5, <1>6, <1>7, <1>8 DEF WInv

(* What holds of the highest frame.                                        *)
LEMMA TopFacts ==
  ASSUME WInv, stack # <<>>
  PROVE  /\ Depth \in Nat /\ Depth > 0
         /\ Cur0 = stack[Depth] /\ Cur0 \in WrapFrame
         /\ \A i \in 1..Depth : stack[i] \in WrapFrame
         /\ Cur0.at \in InSigaction => Depth = 1
         /\ \A i \in 1..Depth : i < Depth =>
               stack[i].at \in {"save", "enter", "call", "check"}
         /\ mask = IF Cur0.at \in Closed THEN Signals ELSE {}
         /\ Cur0.at \in Closed => Cur0.prev = {}
         /\ Cur0.at \in InWrapper \cup {"save", "install", "return"} => 
               \A s \in Signals : Settled(s)
<1>1. /\ Depth \in Nat /\ Depth > 0
      /\ Cur0 = stack[Depth] /\ Cur0 \in WrapFrame
      /\ \A i \in 1..Depth : stack[i] \in WrapFrame
  BY TopFrame DEF WInv
<1>2. /\ Cur0.at \in InSigaction => Depth = 1
      /\ mask = IF Cur0.at \in Closed THEN Signals ELSE {}
      /\ Cur0.at \in Closed => Cur0.prev = {}
  BY <1>1 DEF WInv, MaskInv
<1>3. ASSUME NEW i \in 1..Depth, i < Depth
      PROVE  stack[i].at \in {"save", "enter", "call", "check"}
  <2>1. stack[i].at \in InSigaction \cup InWrapper
    BY <1>1 DEF WrapFrame
  <2>2. stack[i].at \notin Closed
    BY <1>1, <1>3 DEF WInv, MaskInv
  <2>. QED
    BY <2>1, <2>2 DEF InSigaction, InWrapper, Closed
<1>4. ASSUME Cur0.at \in InWrapper \cup {"save", "install", "return"},
             NEW s \in Signals
      PROVE  Settled(s)
  BY <1>1, <1>4 DEF WInv, TableInv, Unsettled, InWrapper
<1>. QED
  BY <1>1, <1>2, <1>3, <1>4

(* With a call of sigaction as the only frame nobody holds an errno.       *)
LEMMA NoHandlerFrame ==
  ASSUME WInv, Depth = 1, stack[1].at \in InSigaction,
         Depth' = 1, stack'[1].at \in InSigaction,
         UNCHANGED <<warned, spoilt>>
  PROVE  ErrnoInv'
<1>1. spoilt <=> warned
  BY DEF WInv, ErrnoInv, InSigaction
<1>2. ~Unsaved(stack', 0, 1) /\ \A e : Sees(stack', 1, e)
  BY DEF Unsaved, Sees, InSigaction
<1>3. stack'[1].at \notin Holds /\ stack'[1].at # "check"
  BY DEF Holds, InSigaction
<1>. QED
  BY <1>1, <1>2, <1>3 DEF ErrnoInv

(* In sigaction the signals are blocked and the old action remembered.     *)
LEMMA SaveStep == WInv /\ SigactionSave => WInv'
<1>. SUFFICES ASSUME WInv, SigactionSave PROVE WInv'
  OBVIOUS
<1>. DEFINE f == [Cur0 EXCEPT !.at = "install", !.prev = mask,
                              !.had = wrapped[Cur0.sig], !.old = real[Cur0.sig]]
<1>1. /\ stack # <<>> /\ Cur0.at = "save" /\ stack' = Append(Front(stack), f)
      /\ mask' = Signals /\ errno' = "sigprocmask"
      /\ UNCHANGED <<kernel, real, wrapped, asked, seen, warned, spoilt>>
  BY DEF SigactionSave, Replace
<1>2. /\ Depth = 1 /\ Cur0 = stack[1] /\ Cur0 \in WrapFrame /\ mask = {}
      /\ \A s \in Signals : Settled(s)
  BY <1>1, TopFacts DEF InSigaction, Closed
<1>3. /\ f \in WrapFrame /\ f.at = "install" /\ f.prev = {} /\ f.sig = Cur0.sig
      /\ f.had = wrapped[f.sig] /\ f.old = real[f.sig]
  BY <1>2 DEF WInv, WrapTypeOK, WrapFrame, InSigaction
<1>. HIDE DEF f
<1>4. stack' \in Seq(WrapFrame) /\ Depth' = 1 /\ stack'[1] = f
  BY <1>1, <1>2, <1>3, WrapReplaced DEF WInv
<1>5. WrapTypeOK'
  BY <1>1, <1>4 DEF WInv, WrapTypeOK, Errno
<1>6. MaskInv'
  BY <1>1, <1>3, <1>4 DEF MaskInv, Closed
<1>7. TableInv'
  BY <1>1, <1>2, <1>3, <1>4 DEF TableInv, Settled, InWrapper
<1>8. ErrnoInv'
  BY <1>1, <1>2, <1>3, <1>4, NoHandlerFrame DEF InSigaction
<1>9. SeenInv'
  BY <1>1 DEF WInv, SeenInv
<1>. QED
  BY <1>5, <1>6, <1>7, <1>8, <1>9 DEF WInv

(* The kernel is told, and then the table: in between only the kernel      *)
(* knows what the program has asked for.                                   *)
LEMMA InstallStep == WInv /\ SigactionInstall => WInv'
<1>. SUFFICES ASSUME WInv, SigactionInstall PROVE WInv'
  OBVIOUS
<1>. DEFINE f == [Cur0 EXCEPT !.at = "table"]
            s == Cur0.sig
            a == Cur0.act
<1>1. /\ stack # <<>> /\ Cur0.at = "install" /\ stack' = Append(Front(stack), f)
      /\ kernel' = [kernel EXCEPT ![s] =
                       CASE a = "NULL"     -> @
                         [] a \in Special -> a
                         [] OTHER          -> "wrapper"]
      /\ asked' = [asked EXCEPT ![s] = IF a = "NULL" THEN @ ELSE a]
      /\ seen' = [got    |-> IF Cur0.had THEN Cur0.old ELSE kernel[s],
                  should |-> asked[s]]
      /\ UNCHANGED <<real, wrapped, mask, errno, warned, spoilt>>
  BY DEF SigactionInstall, Replace
<1>2. /\ Depth = 1 /\ Cur0 = stack[1] /\ Cur0 \in WrapFrame /\ mask = Signals
      /\ Cur0.prev = {} /\ \A ss \in Signals : Settled(ss)
  BY <1>1, TopFacts DEF InSigaction, Closed
<1>3. /\ f \in WrapFrame /\ f.at = "table" /\ f.prev = {} /\ f.sig = s /\ f.act = a
      /\ s \in Signals /\ a \in Action \cup {"NULL"}
  BY <1>2 DEF WrapFrame, InSigaction
<1>10. Cur0.had = wrapped[s] /\ Cur0.old = real[s]
  BY <1>1, <1>2 DEF WInv, TableInv
<1>11. /\ a = "NULL" => UNCHANGED <<kernel, asked>>
       /\ a # "NULL" => /\ asked'[s] = a
                        /\ kernel'[s] = IF a \in Special THEN a ELSE "wrapper"
       /\ \A ss \in Signals : ss # s => kernel'[ss] = kernel[ss] /\ asked'[ss] = asked[ss]
       /\ kernel' \in [Signals -> Special \cup {"wrapper"}]
       /\ asked' \in [Signals -> Action]
  <2>. DEFINE k == CASE a = "NULL" -> kernel[s] [] a \in Special -> a [] OTHER -> "wrapper"
              w == IF a = "NULL" THEN asked[s] ELSE a
  <2>1. /\ kernel \in [Signals -> Special \cup {"wrapper"}] /\ asked \in [Signals -> Action]
        /\ kernel' = [kernel EXCEPT ![s] = k] /\ asked' = [asked EXCEPT ![s] = w]
    BY <1>1 DEF WInv, WrapTypeOK
  <2>2. /\ a = "NULL" => k = kernel[s] /\ w = asked[s]
        /\ a # "NULL" => k = (IF a \in Special THEN a ELSE "wrapper") /\ w = a
        /\ k \in Special \cup {"wrapper"} /\ w \in Action
    BY <1>3, <2>1 DEF Special
  <2>. HIDE DEF k, w
  <2>. QED
    BY <1>3, <2>1, <2>2
<1>. HIDE DEF f, s, a
<1>4. stack' \in Seq(WrapFrame) /\ Depth' = 1 /\ stack'[1] = f
  BY <1>1, <1>2, <1>3, WrapReplaced DEF WInv
<1>5. WrapTypeOK'
  BY <1>1, <1>4, <1>11 DEF WInv, WrapTypeOK
<1>6. MaskInv'
  BY <1>1, <1>2, <1>3, <1>4 DEF MaskInv, Closed
<1>7. TableInv'
  <2>1. \A ss \in Signals : Settled(ss)' \/ Unsettled(ss)'
    BY <1>1, <1>2, <1>3, <1>4, <1>11 DEF Settled, Unsettled
  <2>. QED
    BY <2>1, <1>3, <1>4, <1>11 DEF TableInv, InWrapper
<1>8. ErrnoInv'
  BY <1>1, <1>2, <1>3, <1>4, NoHandlerFrame DEF InSigaction
<1>9. SeenInv'
  BY <1>1, <1>2, <1>3, <1>10 DEF SeenInv, Settled
<1>. QED
  BY <1>5, <1>6, <1>7, <1>8, <1>9 DEF WInv

LEMMA TableDone ==
  ASSUME WInv, NEW f \in WrapFrame, f.at = "return", f.prev = {}, Depth = 1,
         Cur0 = stack[1], Cur0.at = "table", mask = Signals, stack # <<>>,
         stack' = Append(Front(stack), f),
         UNCHANGED <<kernel, mask, errno, asked, seen, warned, spoilt>>,
         wrapped' \in [Signals -> BOOLEAN], real' \in [Signals -> Action],
         \A s \in Signals : Settled(s)'
  PROVE  WInv'
<1>1. stack' \in Seq(WrapFrame) /\ Depth' = 1 /\ stack'[1] = f
  BY WrapReplaced DEF WInv
<1>2. WrapTypeOK'
  BY <1>1 DEF WInv, WrapTypeOK
<1>3. MaskInv'
  BY <1>1 DEF MaskInv, Closed
<1>4. TableInv'
  BY <1>1 DEF TableInv, InWrapper
<1>5. ErrnoInv'
  BY <1>1, NoHandlerFrame DEF InSigaction
<1>6. SeenInv'
  BY DEF WInv, SeenInv
<1>. QED
  BY <1>2, <1>3, <1>4, <1>5, <1>6 DEF WInv

LEMMA TableStep == WInv /\ SigactionTable => WInv'
<1>. SUFFICES ASSUME WInv, SigactionTable PROVE WInv'
  OBVIOUS
<1>. DEFINE f == [Cur0 EXCEPT !.at = "return"]
            s == Cur0.sig
            a == Cur0.act
<1>1. /\ stack # <<>> /\ Cur0.at = "table" /\ stack' = Append(Front(stack), f)
      /\ UNCHANGED <<kernel, mask, errno, asked, seen, warned, spoilt>>
  BY DEF SigactionTable, Replace
<1>2. /\ Depth = 1 /\ Cur0 = stack[1] /\ Cur0 \in WrapFrame /\ mask = Signals
      /\ Cur0.prev = {}
  BY <1>1, TopFacts DEF InSigaction, Closed
<1>3. /\ f \in WrapFrame /\ f.at = "return" /\ f.prev = {}
      /\ s \in Signals /\ a \in Action \cup {"NULL"}
  BY <1>2 DEF WrapFrame, InSigaction
<1>10. /\ \A ss \in Signals : ss # s \/ a = "NULL" => Settled(ss)
       /\ a # "NULL" => /\ asked[s] = a
                        /\ kernel[s] = IF a \in Special THEN a ELSE "wrapper"
  BY <1>1, <1>2 DEF WInv, TableInv, Unsettled
<1>11. CASE a = "NULL"
  <2>1. UNCHANGED <<real, wrapped>>
    BY <1>11 DEF SigactionTable, Special
  <2>2. \A ss \in Signals : Settled(ss)'
    BY <1>1, <1>10, <1>11, <2>1 DEF Settled
  <2>3. wrapped' \in [Signals -> BOOLEAN] /\ real' \in [Signals -> Action]
    BY <2>1 DEF WInv, WrapTypeOK
  <2>. HIDE DEF f
  <2>. QED
    BY <1>1, <1>2, <1>3, <2>2, <2>3, TableDone
<1>12. CASE a \in Special
  <2>1. wrapped' = [wrapped EXCEPT ![s] = FALSE] /\ real' = real
    BY <1>12 DEF SigactionTable, Special
  <2>2. /\ wrapped' \in [Signals -> BOOLEAN] /\ real' \in [Signals -> Action]
        /\ ~wrapped'[s]
        /\ \A ss \in Signals : ss # s => wrapped'[ss] = wrapped[ss] /\ real'[ss] = real[ss]
    BY <1>3, <2>1 DEF WInv, WrapTypeOK
  <2>3. kernel[s] = asked[s]
    BY <1>10, <1>12 DEF Special
  <2>4. \A ss \in Signals : Settled(ss)'
    BY <1>1, <1>10, <2>2, <2>3 DEF Settled
  <2>. QED
    BY <1>1, <1>2, <1>3, <2>2, <2>4, TableDone
<1>13. CASE a \in Handlers
  <2>0. a # "NULL" /\ a \notin Special
    BY <1>13, WrapAssumption
  <2>1. wrapped' = [wrapped EXCEPT ![s] = TRUE] /\ real' = [real EXCEPT ![s] = a]
    BY <2>0 DEF SigactionTable
  <2>2. /\ wrapped' \in [Signals -> BOOLEAN] /\ real' \in [Signals -> Action]
        /\ wrapped'[s] /\ real'[s] = a
        /\ \A ss \in Signals : ss # s => wrapped'[ss] = wrapped[ss] /\ real'[ss] = real[ss]
    BY <1>3, <1>13, <2>1 DEF WInv, WrapTypeOK, Action
  <2>3. \A ss \in Signals : Settled(ss)'
    BY <1>1, <1>10, <1>13, <2>0, <2>2 DEF Settled
  <2>. QED
    BY <1>1, <1>2, <1>3, <2>2, <2>3, TableDone
<1>. QED
  BY <1>3, <1>11, <1>12, <1>13 DEF Action

LEMMA ReturnStep == WInv /\ SigactionReturn => WInv'
<1>. SUFFICES ASSUME WInv, SigactionReturn PROVE WInv'
  OBVIOUS
<1>1. /\ stack # <<>> /\ Cur0.at = "return" /\ stack' = Front(stack)
      /\ mask' = Cur0.prev /\ errno' = "sigprocmask"
      /\ UNCHANGED <<kernel, real, wrapped, asked, seen, warned, spoilt>>
  BY DEF SigactionReturn
<1>2. /\ Depth = 1 /\ Cur0 = stack[1] /\ mask' = {}
      /\ \A s \in Signals : Settled(s)
  BY <1>1, TopFacts DEF InSigaction, Closed
<1>3. stack' \in Seq(WrapFrame) /\ Depth' = 0
  BY <1>1, <1>2, Popped DEF WInv
<1>4. WrapTypeOK'
  BY <1>1, <1>2, <1>3 DEF WInv, WrapTypeOK, Errno
<1>5. MaskInv'
  BY <1>2, <1>3 DEF MaskInv
<1>6. TableInv'
  BY <1>1, <1>2, <1>3 DEF TableInv, Settled
<1>7. ErrnoInv'
  BY <1>1, <1>2, <1>3 DEF WInv, ErrnoInv, Sees
<1>8. SeenInv'
  BY <1>1 DEF WInv, SeenInv
<1>. QED
  BY <1>4, <1>5, <1>6, <1>7, <1>8 DEF WInv

(***************************************************************************)
(* The steps of the wrapper's handler.                                     *)
(***************************************************************************)

(* The part of the stack two states share says the same of errno.          *)
LEMMA SameBelow ==
  ASSUME NEW st, NEW tt, NEW n \in Nat, \A k \in 1..n : tt[k] = st[k]
  PROVE  /\ \A i, m \in 0..n : Unsaved(tt, i, m) <=> Unsaved(st, i, m)
         /\ \A i \in 0..n : \A e : Sees(tt, i, e) <=> Sees(st, i, e)
BY DEF Unsaved, Sees

FrameSettled(f) ==
  /\ f.at \notin {"install", "table"}
  /\ f.at \in InWrapper => wrapped[f.sig]
  /\ f.at \in {"call", "check"} => f.act = asked[f.sig]

(* No step of a handler changes the table.                                 *)
LEMMA TableKept ==
  ASSUME WInv, UNCHANGED <<kernel, real, wrapped, asked>>,
         \A s \in Signals : Settled(s),
         \A i \in 1..Depth' :
           (i \in 1..Depth /\ stack'[i] = stack[i]) \/ FrameSettled(stack'[i])
  PROVE  TableInv'
<1>1. \A s \in Signals : Settled(s)'
  BY DEF Settled
<1>2. ASSUME NEW i \in 1..Depth'
      PROVE  LET f == stack'[i] IN
             /\ f.at = "install" => f.had = wrapped[f.sig] /\ f.old = real[f.sig]
             /\ f.at = "table" /\ f.act # "NULL" =>
                  /\ asked[f.sig] = f.act
                  /\ kernel[f.sig] = IF f.act \in Special THEN f.act ELSE "wrapper"
             /\ f.at \in InWrapper => wrapped[f.sig]
             /\ f.at \in {"call", "check"} => f.act = asked[f.sig]
  <2>1. CASE i \in 1..Depth /\ stack'[i] = stack[i]
    BY <2>1 DEF WInv, TableInv
  <2>2. CASE FrameSettled(stack'[i])
    BY <2>2 DEF FrameSettled
  <2>. QED
    BY <2>1, <2>2
<1>. QED
  BY <1>1, <1>2 DEF TableInv

(* A signal interrupts whatever runs with the signals open.                *)
LEMMA WrapDeliverStep == WInv /\ (\E s \in Signals : Deliver(s)) => WInv'
<1>. SUFFICES ASSUME WInv, NEW s \in Signals, Deliver(s) PROVE WInv'
  OBVIOUS
<1>. DEFINE f == Handling(s)
<1>1. /\ stack' = Append(stack, f) /\ s \notin mask /\ kernel[s] = "wrapper"
      /\ UNCHANGED <<kernel, real, wrapped, mask, errno, asked, seen, warned, spoilt>>
  BY DEF Deliver
<1>2. f \in WrapFrame /\ f.at = "enter" /\ f.sig = s
  BY DEF Handling, WrapFrame, InSigaction, InWrapper, Action, Special, Errno
<1>. HIDE DEF f
<1>3. /\ stack' \in Seq(WrapFrame)
      /\ Depth \in Nat /\ Depth' = Depth + 1
      /\ stack'[Depth + 1] = f
      /\ \A i \in 1..Depth : stack'[i] = stack[i]
  BY <1>1, <1>2, Pushed DEF WInv
<1>4. /\ Depth > 0 => stack[Depth].at \notin Closed
      /\ mask = {}
  BY <1>1 DEF WInv, MaskInv
<1>5. \A ss \in Signals : Settled(ss)
  BY <1>4 DEF WInv, TableInv, Unsettled, Closed
<1>6. wrapped[s]
  BY <1>1, <1>5, WrapAssumption DEF WInv, WrapTypeOK, Settled, Action, Special
<1>7. WrapTypeOK'
  BY <1>1, <1>3 DEF WInv, WrapTypeOK
<1>8. MaskInv'
  <2>1. \A i \in 1..Depth : stack[i].at \notin Closed
    BY <1>4 DEF WInv, MaskInv
  <2>2. \A i \in 1..Depth : stack[i].at \in InSigaction => i = 1
    BY DEF WInv, MaskInv
  <2>3. ASSUME NEW i \in 1..Depth'
        PROVE  (stack'[i].at \in InSigaction => i = 1) /\ stack'[i].at \notin Closed
    <3>1. CASE i \in 1..Depth
      BY <1>3, <2>1, <2>2, <3>1
    <3>2. CASE i = Depth + 1
      BY <1>2, <1>3, <3>2 DEF InSigaction, Closed
    <3>. QED
      BY <1>3, <3>1, <3>2
  <2>4. stack'[Depth'].at \notin Closed
    BY <1>3, <2>3
  <2>. QED
    BY <1>1, <1>4, <2>3, <2>4 DEF MaskInv
<1>9. TableInv'
  <2>1. FrameSettled(f)
    BY <1>2, <1>6 DEF FrameSettled
  <2>2. \A i \in 1..Depth' : (i \in 1..Depth /\ stack'[i] = stack[i]) \/ FrameSettled(stack'[i])
    BY <1>3, <2>1
  <2>. QED
    BY <1>1, <1>5, <2>2, TableKept
<1>10. ErrnoInv'
  <2>1. ASSUME NEW i \in 0..Depth', Unsaved(stack', i, Depth')
        PROVE  Sees(stack', i, errno')
    <3>1. CASE i \in 0..Depth
      <4>1. Unsaved(stack', i, Depth)
        <5>1. 1..Depth \subseteq 1..Depth'
          BY <1>3
        <5>. QED
          BY <2>1, <5>1 DEF Unsaved
      <4>2. Unsaved(stack, i, Depth)
        <5>1. Depth \in 0..Depth
          BY <1>3
        <5>. QED
          BY <1>3, <3>1, <4>1, <5>1, SameBelow
      <4>3. Sees(stack, i, errno)
        BY <3>1, <4>2 DEF WInv, ErrnoInv
      <4>. QED
        BY <1>1, <1>3, <3>1, <4>3, SameBelow
    <3>2. CASE i = Depth + 1
      BY <1>2, <1>3, <3>2 DEF Sees
    <3>. QED
      BY <1>3, <3>1, <3>2
  <2>2. ASSUME NEW i \in 0..Depth', NEW j \in 1..Depth',
               i < j, stack'[j].at \in Holds, Unsaved(stack', i, j - 1)
        PROVE  Sees(stack', i, stack'[j].errno)
    <3>1. j \in 1..Depth /\ i \in 0..Depth /\ j - 1 \in 0..Depth
      BY <1>2, <1>3, <2>2 DEF Holds
    <3>2. Unsaved(stack, i, j - 1) /\ stack[j].at \in Holds
      BY <1>3, <2>2, <3>1, SameBelow
    <3>3. Sees(stack, i, stack[j].errno)
      BY <2>2, <3>1, <3>2 DEF WInv, ErrnoInv
    <3>. QED
      BY <1>3, <3>1, <3>3, SameBelow
  <2>3. spoilt' <=> \/ warned'
                    \/ \E i \in 1..Depth' : stack'[i].at = "check" /\ stack'[i].act \in Careless
    <3>1. \A i \in 1..Depth' : i \in 1..Depth \/ stack'[i].at = "enter"
      BY <1>2, <1>3
    <3>2. (\E i \in 1..Depth' : stack'[i].at = "check" /\ stack'[i].act \in Careless)
            <=> \E i \in 1..Depth : stack[i].at = "check" /\ stack[i].act \in Careless
      BY <1>3, <3>1
    <3>. QED
      BY <1>1, <3>2 DEF WInv, ErrnoInv
  <2>. QED
    BY <2>1, <2>2, <2>3 DEF ErrnoInv
<1>11. SeenInv'
  BY <1>1 DEF WInv, SeenInv
<1>. QED
  BY <1>7, <1>8, <1>9, <1>10, <1>11 DEF WInv

(* A step of the handler at the top of the stack moves it on, and leaves   *)
(* the frames below alone.  What the errno of each frame will be is kept if *)
(* the handler's own is right, and if what it holds was.                   *)
LEMMA ErrnoMoves ==
  ASSUME WInv, Depth \in Nat, Depth > 0, Depth' = Depth,
         \A i \in 1..Depth : i # Depth => stack'[i] = stack[i],
         stack'[Depth].at \in Holds,
         Sees(stack', Depth, errno'),
         \/ stack[Depth].at = "enter" /\ stack'[Depth].errno = errno
         \/ stack[Depth].at \in Holds /\ stack'[Depth].errno = stack[Depth].errno,
         warned' = warned,
         spoilt' <=> (spoilt \/ (stack'[Depth].at = "check" /\ stack'[Depth].act \in Careless)),
         stack[Depth].at # "check"
  PROVE  ErrnoInv'
<1>. DEFINE n == Depth - 1
<1>1. n \in Nat /\ \A k \in 1..n : stack'[k] = stack[k]
  OBVIOUS
<1>2. ASSUME NEW i \in 0..Depth', Unsaved(stack', i, Depth')
      PROVE  Sees(stack', i, errno')
  <2>1. i = Depth
    BY <1>2 DEF Unsaved, Holds
  <2>. QED
    BY <2>1
<1>3. ASSUME NEW i \in 0..Depth', NEW j \in 1..Depth',
             i < j, stack'[j].at \in Holds, Unsaved(stack', i, j - 1)
      PROVE  Sees(stack', i, stack'[j].errno)
  <2>1. i \in 0..n /\ j - 1 \in 0..n /\ i \in 0..Depth /\ j \in 1..Depth
    BY <1>3
  <2>2. Unsaved(stack, i, j - 1)
    BY <1>1, <1>3, <2>1, SameBelow
  <2>3. CASE j # Depth
    <3>1. stack'[j] = stack[j]
      BY <2>1, <2>3
    <3>2. Sees(stack, i, stack[j].errno)
      BY <1>3, <2>1, <2>2, <3>1 DEF WInv, ErrnoInv
    <3>. QED
      BY <1>1, <2>1, <3>1, <3>2, SameBelow
  <2>4. CASE j = Depth /\ stack[Depth].at \in Holds /\ stack'[Depth].errno = stack[Depth].errno
    <3>1. Sees(stack, i, stack[j].errno)
      BY <1>3, <2>1, <2>2, <2>4 DEF WInv, ErrnoInv
    <3>. QED
      BY <1>1, <2>1, <2>4, <3>1, SameBelow
  <2>5. CASE j = Depth /\ stack[Depth].at = "enter" /\ stack'[Depth].errno = errno
    <3>1. Unsaved(stack, i, Depth)
      BY <2>2, <2>5 DEF Unsaved
    <3>2. Sees(stack, i, errno)
      BY <2>1, <3>1 DEF WInv, ErrnoInv
    <3>. QED
      BY <1>1, <2>1, <2>5, <3>2, SameBelow
  <2>. QED
    BY <2>3, <2>4, <2>5
<1>4. spoilt' <=> \/ warned'
                  \/ \E i \in 1..Depth' : stack'[i].at = "check" /\ stack'[i].act \in Careless
  <2>1. spoilt <=> \/ warned
                   \/ \E i \in 1..n : stack[i].at = "check" /\ stack[i].act \in Careless
    BY DEF WInv, ErrnoInv
  <2>2. (\E i \in 1..Depth' : stack'[i].at = "check" /\ stack'[i].act \in Careless)
          <=> \/ \E i \in 1..n : stack[i].at = "check" /\ stack[i].act \in Careless
              \/ stack'[Depth].at = "check" /\ stack'[Depth].act \in Careless
    BY <1>1
  <2>. QED
    BY <2>1, <2>2
<1>. QED
  BY <1>2, <1>3, <1>4 DEF ErrnoInv

(* The same of everything else, for a handler's frame moved on to f.       *)
LEMMA HandlerMoves ==
  ASSUME WInv, stack # <<>>, Cur0.at \in InWrapper, NEW f \in WrapFrame,
         stack' = Append(Front(stack), f), f.sig = Cur0.sig,
         f.at \in Holds, f.at \in {"call", "check"} => f.act = asked[f.sig],
         f.at = "lookup" => f.prev = {},
         mask' = (IF f.at = "lookup" THEN Signals ELSE {}), errno' \in Errno, spoilt' \in BOOLEAN,
         UNCHANGED <<kernel, real, wrapped, asked, seen, warned>>
  PROVE  /\ WrapTypeOK' /\ MaskInv' /\ TableInv' /\ SeenInv'
         /\ Depth \in Nat /\ Depth > 0 /\ Depth' = Depth
         /\ stack'[Depth] = f /\ Cur0 = stack[Depth]
         /\ \A i \in 1..Depth : i # Depth => stack'[i] = stack[i]
<1>1. /\ stack' \in Seq(WrapFrame) /\ Depth' = Depth /\ stack'[Depth] = f
      /\ \A i \in 1..Depth : i # Depth => stack'[i] = stack[i]
  BY WrapReplaced DEF WInv
<1>2. /\ Depth \in Nat /\ Depth > 0 /\ Cur0 = stack[Depth]
      /\ \A s \in Signals : Settled(s)
      /\ \A i \in 1..Depth : i < Depth => stack[i].at \in {"save", "enter", "call", "check"}
  BY TopFacts
<1>3. WrapTypeOK'
  BY <1>1 DEF WInv, WrapTypeOK
<1>4. MaskInv'
  <2>1. ASSUME NEW i \in 1..Depth
        PROVE  /\ stack'[i].at \in InSigaction => i = 1
               /\ stack'[i].at \in Closed => i = Depth /\ stack'[i].prev = {}
    <3>1. CASE i = Depth
      BY <1>1, <3>1 DEF InSigaction, Holds, Closed
    <3>2. CASE i # Depth
      <4>1. stack'[i] = stack[i]
        BY <1>1, <3>2
      <4>2. Depth \in Nat
        BY <1>2
      <4>3. i < Depth
        BY <3>2, <4>2
      <4>4. stack[i].at \in {"save", "enter", "call", "check"}
        BY <1>2, <4>3
      <4>5. stack[i].at \in InSigaction => i = 1
        BY DEF WInv, MaskInv
      <4>. QED
        BY <4>1, <4>4, <4>5 DEF Closed
    <3>. QED
      BY <3>1, <3>2
  <2>2. f.at \in Closed <=> f.at = "lookup"
    BY DEF Holds, Closed
  <2>. QED
    BY <1>1, <1>2, <2>1, <2>2 DEF MaskInv
<1>5. TableInv'
  <2>1. wrapped[f.sig]
    BY <1>2 DEF WInv, TableInv
  <2>2. FrameSettled(f)
    BY <2>1 DEF FrameSettled, Holds
  <2>3. \A i \in 1..Depth' : (i \in 1..Depth /\ stack'[i] = stack[i]) \/ FrameSettled(stack'[i])
    BY <1>1, <2>2
  <2>. QED
    BY <1>2, <2>3, TableKept
<1>6. SeenInv'
  BY DEF WInv, SeenInv
<1>. QED
  BY <1>1, <1>2, <1>3, <1>4, <1>5, <1>6

LEMMA EnterStep == WInv /\ WrapperEnter => WInv'
<1>. SUFFICES ASSUME WInv, WrapperEnter PROVE WInv'
  OBVIOUS
<1>. DEFINE f == [Cur0 EXCEPT !.at = "lookup", !.prev = mask, !.errno = errno]
<1>1. /\ stack # <<>> /\ Cur0.at = "enter" /\ stack' = Append(Front(stack), f)
      /\ mask' = Signals /\ errno' = "sigprocmask"
      /\ UNCHANGED <<kernel, real, wrapped, asked, seen, warned, spoilt>>
  BY DEF WrapperEnter, Replace
<1>2. Cur0 \in WrapFrame /\ mask = {} /\ errno \in Errno /\ spoilt \in BOOLEAN
  BY <1>1, TopFacts DEF Closed, WInv, WrapTypeOK
<1>3. f \in WrapFrame /\ f.at = "lookup" /\ f.sig = Cur0.sig /\ f.prev = {} /\ f.errno = errno
  BY <1>2 DEF WrapFrame, InWrapper
<1>. HIDE DEF f
<1>4. /\ WrapTypeOK' /\ MaskInv' /\ TableInv' /\ SeenInv'
      /\ Depth \in Nat /\ Depth > 0 /\ Depth' = Depth
      /\ stack'[Depth] = f /\ Cur0 = stack[Depth]
      /\ \A i \in 1..Depth : i # Depth => stack'[i] = stack[i]
  BY <1>1, <1>2, <1>3, HandlerMoves DEF InWrapper, Holds, Errno
<1>5. Sees(stack', Depth, errno')
  BY <1>3, <1>4 DEF Sees
<1>6. ErrnoInv'
  BY <1>1, <1>3, <1>4, <1>5, ErrnoMoves DEF Holds
<1>. QED
  BY <1>4, <1>6 DEF WInv

(* The handler is found: its signal has one since the signal was delivered. *)
LEMMA LookupStep == WInv /\ WrapperLookup => WInv'
<1>. SUFFICES ASSUME WInv, WrapperLookup PROVE WInv'
  OBVIOUS
<1>. DEFINE f == [Cur0 EXCEPT !.at = "call", !.act = real[Cur0.sig]]
<1>1. /\ stack # <<>> /\ Cur0.at = "lookup" /\ mask' = Cur0.prev
      /\ UNCHANGED <<kernel, real, wrapped, asked, seen, warned, spoilt>>
  BY DEF WrapperLookup
<1>2. /\ Cur0 \in WrapFrame /\ Cur0.prev = {} /\ Depth \in Nat /\ Depth > 0
      /\ Cur0 = stack[Depth] /\ \A s \in Signals : Settled(s)
  BY <1>1, TopFacts DEF Closed, InWrapper
<1>3. /\ Cur0.sig \in Signals /\ wrapped[Cur0.sig] /\ real[Cur0.sig] \in Action
      /\ real[Cur0.sig] = asked[Cur0.sig]
  <2>1. Cur0.sig \in Signals /\ wrapped[Cur0.sig]
    BY <1>1, <1>2 DEF WInv, TableInv, InWrapper, WrapFrame
  <2>. QED
    BY <1>2, <2>1 DEF WInv, WrapTypeOK, Settled
<1>4. stack' = Append(Front(stack), f) /\ errno' = "sentinel"
  BY <1>3 DEF WrapperLookup, Replace
<1>5. /\ f \in WrapFrame /\ f.at = "call" /\ f.sig = Cur0.sig /\ f.act = asked[f.sig]
      /\ f.errno = Cur0.errno
  BY <1>2, <1>3 DEF WrapFrame, InWrapper
<1>. HIDE DEF f
<1>6. /\ WrapTypeOK' /\ MaskInv' /\ TableInv' /\ SeenInv'
      /\ Depth \in Nat /\ Depth > 0 /\ Depth' = Depth
      /\ stack'[Depth] = f /\ Cur0 = stack[Depth]
      /\ \A i \in 1..Depth : i # Depth => stack'[i] = stack[i]
  <2>1. spoilt' \in BOOLEAN
    BY <1>1 DEF WInv, WrapTypeOK
  <2>. QED
    BY <1>1, <1>2, <1>4, <1>5, <2>1, HandlerMoves DEF InWrapper, Holds, Errno
<1>7. Sees(stack', Depth, errno')
  BY <1>4, <1>5, <1>6 DEF Sees
<1>8. ErrnoInv'
  BY <1>1, <1>5, <1>6, <1>7, ErrnoMoves DEF Holds
<1>. QED
  BY <1>6, <1>8 DEF WInv

LEMMA HandlerStep == WInv /\ HandlerRuns => WInv'
<1>. SUFFICES ASSUME WInv, HandlerRuns PROVE WInv'
  OBVIOUS
<1>. DEFINE f == [Cur0 EXCEPT !.at = "check"]
<1>1. /\ stack # <<>> /\ Cur0.at = "call" /\ stack' = Append(Front(stack), f)
      /\ errno' = IF Cur0.act \in Careless THEN "handler" ELSE errno
      /\ spoilt' = (spoilt \/ Cur0.act \in Careless)
      /\ UNCHANGED <<kernel, real, wrapped, mask, asked, seen, warned>>
  BY DEF HandlerRuns, Replace
<1>2. /\ Cur0 \in WrapFrame /\ mask = {} /\ Depth \in Nat /\ Depth > 0 /\ Cur0 = stack[Depth]
  BY <1>1, TopFacts DEF Closed
<1>3. Cur0.act = asked[Cur0.sig]
  BY <1>1, <1>2 DEF WInv, TableInv
<1>4. errno = "sentinel"
  <2>1. Unsaved(stack, Depth, Depth)
    BY <1>2 DEF Unsaved
  <2>2. Sees(stack, Depth, errno)
    BY <1>2, <2>1 DEF WInv, ErrnoInv
  <2>. QED
    BY <1>1, <1>2, <2>2 DEF Sees
<1>5. /\ f \in WrapFrame /\ f.at = "check" /\ f.sig = Cur0.sig /\ f.act = Cur0.act
      /\ f.errno = Cur0.errno
  BY <1>2 DEF WrapFrame, InWrapper
<1>. HIDE DEF f
<1>6. /\ WrapTypeOK' /\ MaskInv' /\ TableInv' /\ SeenInv'
      /\ Depth \in Nat /\ Depth > 0 /\ Depth' = Depth
      /\ stack'[Depth] = f /\ Cur0 = stack[Depth]
      /\ \A i \in 1..Depth : i # Depth => stack'[i] = stack[i]
  <2>1. errno' \in Errno /\ spoilt' \in BOOLEAN
    BY <1>1, <1>4 DEF Errno, WInv, WrapTypeOK
  <2>. QED
    BY <1>1, <1>2, <1>3, <1>5, <2>1, HandlerMoves DEF InWrapper, Holds
<1>7. Sees(stack', Depth, errno')
  BY <1>1, <1>4, <1>5, <1>6 DEF Sees
<1>8. ErrnoInv'
  BY <1>1, <1>5, <1>6, <1>7, ErrnoMoves DEF Holds
<1>. QED
  BY <1>6, <1>8 DEF WInv

(* The handler is done, and the interrupted code has its errno back.       *)
LEMMA CheckStep == WInv /\ WrapperCheck => WInv'
<1>. SUFFICES ASSUME WInv, WrapperCheck PROVE WInv'
  OBVIOUS
<1>. DEFINE n == Depth - 1
<1>1. /\ stack # <<>> /\ Cur0.at = "check" /\ stack' = Front(stack)
      /\ warned' = (warned \/ errno # "sentinel") /\ errno' = Cur0.errno
      /\ UNCHANGED <<kernel, real, wrapped, mask, asked, seen, spoilt>>
  BY DEF WrapperCheck
<1>2. /\ Cur0 \in WrapFrame /\ mask = {} /\ Depth \in Nat /\ Depth > 0 /\ Cur0 = stack[Depth]
      /\ \A s \in Signals : Settled(s)
      /\ \A i \in 1..Depth : i < Depth => stack[i].at \in {"save", "enter", "call", "check"}
  BY <1>1, TopFacts DEF Closed, InWrapper
<1>3. /\ stack' \in Seq(WrapFrame) /\ Depth' = n /\ n \in Nat
      /\ \A i \in 1..n : stack'[i] = stack[i]
  BY <1>1, <1>2, Popped DEF WInv
<1>4. errno = IF Cur0.act \in Careless THEN "handler" ELSE "sentinel"
  <2>1. Unsaved(stack, Depth, Depth)
    BY <1>2 DEF Unsaved
  <2>2. Sees(stack, Depth, errno)
    BY <1>2, <2>1 DEF WInv, ErrnoInv
  <2>. QED
    BY <1>1, <1>2, <2>2 DEF Sees
<1>5. WrapTypeOK'
  BY <1>1, <1>2, <1>3 DEF WInv, WrapTypeOK, WrapFrame
<1>6. MaskInv'
  <2>1. \A i \in 1..n : stack'[i].at \notin Closed /\ (stack'[i].at \in InSigaction => i = 1)
    BY <1>2, <1>3 DEF WInv, MaskInv, Closed
  <2>. QED
    BY <1>1, <1>2, <1>3, <2>1 DEF MaskInv
<1>7. TableInv'
  <2>1. \A i \in 1..Depth' : i \in 1..Depth /\ stack'[i] = stack[i]
    BY <1>2, <1>3
  <2>. QED
    BY <1>1, <1>2, <2>1, TableKept
<1>8. ErrnoInv'
  <2>1. ASSUME NEW i \in 0..Depth', Unsaved(stack', i, Depth')
        PROVE  Sees(stack', i, errno')
    <3>1. i \in 0..n /\ n \in 0..n /\ i < Depth
      BY <1>2, <1>3
    <3>2. Unsaved(stack, i, n)
      BY <1>3, <2>1, <3>1, SameBelow
    <3>3. Sees(stack, i, stack[Depth].errno)
      BY <1>1, <1>2, <3>1, <3>2 DEF WInv, ErrnoInv, Holds
    <3>. QED
      BY <1>1, <1>2, <1>3, <3>1, <3>3, SameBelow
  <2>2. ASSUME NEW i \in 0..Depth', NEW j \in 1..Depth',
               i < j, stack'[j].at \in Holds, Unsaved(stack', i, j - 1)
        PROVE  Sees(stack', i, stack'[j].errno)
    <3>1. j \in 1..n /\ i \in 0..n /\ j - 1 \in 0..n /\ i \in 0..Depth /\ j \in 1..Depth
      BY <1>2, <1>3, <2>2
    <3>2. Unsaved(stack, i, j - 1) /\ stack'[j] = stack[j]
      BY <1>3, <2>2, <3>1, SameBelow
    <3>3. Sees(stack, i, stack[j].errno)
      BY <2>2, <3>1, <3>2 DEF WInv, ErrnoInv
    <3>. QED
      BY <1>3, <3>1, <3>2, <3>3, SameBelow
  <2>3. spoilt' <=> \/ warned'
                    \/ \E i \in 1..Depth' : stack'[i].at = "check" /\ stack'[i].act \in Careless
    <3>1. (\E i \in 1..Depth : stack[i].at = "check" /\ stack[i].act \in Careless)
            <=> \/ \E i \in 1..n : stack'[i].at = "check" /\ stack'[i].act \in Careless
                \/ Cur0.act \in Careless
      BY <1>1, <1>2, <1>3
    <3>2. warned' <=> (warned \/ Cur0.act \in Careless)
      BY <1>1, <1>4 DEF WInv, WrapTypeOK
    <3>. QED
      BY <1>1, <1>3, <3>1, <3>2 DEF WInv, ErrnoInv
  <2>. QED
    BY <2>1, <2>2, <2>3 DEF ErrnoInv
<1>9. SeenInv'
  BY <1>1 DEF WInv, SeenInv
<1>. QED
  BY <1>5, <1>6, <1>7, <1>8, <1>9 DEF WInv

-----------------------------------------------------------------------------
LEMMA WNext == WInv /\ [WrapNext]_wvars => WInv'
<1>. SUFFICES ASSUME WInv, [WrapNext]_wvars PROVE WInv'
  OBVIOUS
<1>1. CASE UNCHANGED wvars
  BY <1>1
  DEF wvars, WInv, WrapTypeOK, MaskInv, TableInv, Settled, Unsettled, ErrnoInv,
      SeenInv, Depth
<1>. QED
  BY <1>1, CallStep, SaveStep, InstallStep, TableStep, ReturnStep, EnterStep,
     LookupStep, HandlerStep, CheckStep, WrapDeliverStep DEF WrapNext

(* Frames, table and errno have their types, the table is settled but for  *)
(* the signal being changed, and each errno is held where it belongs.      *)
THEOREM WrapInvariant == WrapSpec => []WInv
<1>. QED
  BY WInit, WNext, PTL DEF WrapSpec

(* The program does not notice the wrapper: the handler that runs is the   *)
(* one it has asked for last, sigaction returns the action it had set, and *)
(* a warning of a corrupted errno is given when and only when a handler of *)
(* the program has changed it, however deep signals nest.                  *)
THEOREM Unnoticed == WrapSpec => []WrapperUnnoticed
<1>1. WInv => WrapperUnnoticed
  <2>. SUFFICES ASSUME WInv PROVE WrapperUnnoticed
    OBVIOUS
  <2>1. ASSUME NEW i \in DOMAIN stack
        PROVE  /\ stack[i].at # "unregistered"
               /\ stack[i].at \in {"call", "check"} => stack[i].act = asked[stack[i].sig]
    <3>1. i \in 1..Depth /\ stack[i] \in WrapFrame
      BY <2>1 DEF WInv, WrapTypeOK, Depth
    <3>. QED
      BY <3>1 DEF WInv, TableInv, WrapFrame, InSigaction, InWrapper
  <2>2. ASSUME stack = <<>>
        PROVE  warned = spoilt /\ errno # "sentinel"
    <3>1. Depth = 0
      BY <2>2 DEF Depth
    <3>2. Unsaved(stack, 0, 0)
      BY DEF Unsaved
    <3>3. Sees(stack, 0, errno)
      BY <3>1, <3>2 DEF WInv, ErrnoInv
    <3>. QED
      BY <3>1, <3>3 DEF Sees, WInv, ErrnoInv, WrapTypeOK
  <2>. QED
    BY <2>1, <2>2 DEF WrapperUnnoticed, WInv, SeenInv
<1>. QED
  BY <1>1, WrapInvariant, PTL
=============================================================================
