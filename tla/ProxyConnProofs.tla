-------------------------- MODULE ProxyConnProofs --------------------------
(***************************************************************************)
(* Every descriptor of the proxy is accounted for, for any numbers of      *)
(* descriptors, threads and addresses.                                     *)
(*                                                                         *)
(* The set of a descriptor's holders is awkward for the provers, so the    *)
(* invariant says the same of the four kinds of holder.                    *)
(***************************************************************************)
EXTENDS ProxyConn, TLAPS

(* What main or a thread has at each of its points.                        *)
PointInv ==
  /\ mpc = "create" => connfd \in Fd
  /\ \A t \in Thread :
       /\ (arg[t] \in Fd) <=> (tpc[t] = "born")
       /\ clientfd[t] \in Fd => tpc[t] \in {"connect", "fetch"}
       /\ tpc[t] = "connect" => left[t] > 0

MainHas(fd) == mpc = "create" /\ connfd = fd
ThreadHas(t, fd) == arg[t] = fd \/ conn[t] = fd \/ clientfd[t] = fd

(* No descriptor is held twice: by main and a thread, by two threads, or   *)
(* by one thread in two places.                                            *)
HeldOnce ==
  \A fd \in Fd : \A t \in Thread :
    /\ ThreadHas(t, fd) => ~MainHas(fd)
    /\ \A u \in Thread : ThreadHas(t, fd) /\ ThreadHas(u, fd) => t = u
    /\ arg[t] = fd => conn[t] # fd /\ clientfd[t] # fd
    /\ conn[t] = fd => clientfd[t] # fd

Held(fd) == MainHas(fd) \/ \E t \in Thread : ThreadHas(t, fd)

(* The open ones are those that are held and those that are lost.          *)
OpenIsKnown ==
  \A fd \in Fd :
    /\ fd \in open <=> Held(fd) \/ fd \in lost
    /\ fd \in lost => ~Held(fd)

CInv == TypeOK /\ PointInv /\ HeldOnce /\ OpenIsKnown

-----------------------------------------------------------------------------
(* The invariant says of the set of holders what the properties say.       *)

LEMMA HolderIsHeld ==
  ASSUME NEW fd \in Fd
  PROVE  Holders(fd) # {} <=> Held(fd)
BY DEF Holders, Held, MainHas, ThreadHas

LEMMA HolderUnique ==
  ASSUME HeldOnce, NEW fd \in Fd, NEW x \in Holders(fd), NEW y \in Holders(fd)
  PROVE  x = y
<1> DEFINE Main(p) == p = <<"main", "connfd">> /\ MainHas(fd)
           InThread(p, t) == \/ p = <<t, "arg">> /\ arg[t] = fd
                             \/ p = <<t, "conn">> /\ conn[t] = fd
                             \/ p = <<t, "clientfd">> /\ clientfd[t] = fd
<1>1. \A p \in Holders(fd) : Main(p) \/ \E t \in Thread : InThread(p, t)
  BY DEF Holders, MainHas
<1>2. CASE Main(x)
  BY <1>1, <1>2 DEF HeldOnce, ThreadHas
<1>3. CASE \E t \in Thread : InThread(x, t)
  <2>1. PICK t \in Thread : InThread(x, t)
    BY <1>3
  <2>2. PICK u \in Thread : InThread(y, u)
    BY <1>1, <2>1 DEF HeldOnce, ThreadHas
  <2>3. t = u
    BY <2>1, <2>2 DEF HeldOnce, ThreadHas
  <2> QED
    BY <2>1, <2>2, <2>3 DEF HeldOnce
<1> QED
  BY <1>1, <1>2, <1>3

LEMMA InvGivesProperty == CInv => DescriptorsAccounted
<1> SUFFICES ASSUME CInv PROVE DescriptorsAccounted
  OBVIOUS
<1>1. NoFdLeak
  BY HolderIsHeld DEF NoFdLeak, CInv, OpenIsKnown
<1>2. OneHolder
  BY HolderIsHeld, HolderUnique DEF OneHolder, CInv, OpenIsKnown
<1> QED
  BY <1>1, <1>2 DEF DescriptorsAccounted

-----------------------------------------------------------------------------
(* The invariant is inductive.                                             *)

LEMMA InitCInv == Init => CInv
BY ProxyConnAssumption
   DEF Init, CInv, TypeOK, TPC, PointInv, HeldOnce, OpenIsKnown, Held, MainHas, ThreadHas

LEMMA MainStep ==
  ASSUME CInv, Accept \/ AcceptFails \/ CreateFails \/ \E t \in Thread : CreateThread(t)
  PROVE  CInv'
<1> USE ProxyConnAssumption DEF CInv, TypeOK, TPC, PointInv, HeldOnce, OpenIsKnown, Held, MainHas, ThreadHas
<1>1. CASE Accept
  BY <1>1 DEF Accept
<1>2. CASE AcceptFails
  BY <1>2 DEF AcceptFails
<1>3. CASE CreateFails
  BY <1>3 DEF CreateFails
<1>4. CASE \E t \in Thread : CreateThread(t)
  BY <1>4 DEF CreateThread, Goto
<1> QED
  BY <1>1, <1>2, <1>3, <1>4

LEMMA ThreadStep ==
  ASSUME CInv, NEW t \in Thread, Step(t)
  PROVE  CInv'
<1> USE ProxyConnAssumption DEF CInv, TypeOK, TPC, PointInv, HeldOnce, OpenIsKnown, Held, MainHas, ThreadHas
<1>1. CASE Start(t)
  BY <1>1 DEF Start, Goto
<1>2. CASE ServeAlone(t)
  BY <1>2 DEF ServeAlone, Goto
<1>3. CASE OpenClientfd(t)
  BY <1>3 DEF OpenClientfd, Goto
<1>4. CASE Socket(t)
  BY <1>4 DEF Socket, Goto
<1>5. CASE SocketFails(t)
  BY <1>5 DEF SocketFails
<1>6. CASE ConnectFails(t)
  BY <1>6 DEF ConnectFails, Goto, Close
<1>7. CASE Connect(t)
  BY <1>7 DEF Connect, Goto
<1>8. CASE ConnectNone(t)
  BY <1>8 DEF ConnectNone, Goto
<1>9. CASE FetchEnd(t)
  BY <1>9 DEF FetchEnd, Goto, Close
<1>10. CASE End(t)
  BY <1>10 DEF End, Goto, Close
<1> QED
  BY <1>1, <1>2, <1>3, <1>4, <1>5, <1>6, <1>7, <1>8, <1>9, <1>10 DEF Step

LEMMA CInvInductive == CInv /\ [Next]_vars => CInv'
<1> SUFFICES ASSUME CInv, [Next]_vars PROVE CInv'
  OBVIOUS
<1>1. CASE Next
  BY <1>1, MainStep, ThreadStep DEF Next
<1>2. CASE UNCHANGED vars
  BY <1>2 DEF vars, CInv, TypeOK, PointInv, HeldOnce, OpenIsKnown, Held, MainHas, ThreadHas
<1> QED
  BY <1>1, <1>2

(* Every variable of the proxy's connections keeps its type, and a thread  *)
(* has a connection exactly while it serves: no failed accept reaches one. *)
THEOREM TypeCorrect == Spec => []TypeOK
<1>1. CInv => TypeOK
  BY DEF CInv
<1> QED
  BY <1>1, InitCInv, CInvInductive, PTL DEF Spec

(* Each open descriptor has one holder, or was lost when pthread_create    *)
(* failed, and each holder's descriptor is open: nothing leaks, and no     *)
(* close hits a connection that was given the number since.                *)
THEOREM NothingLeaks == Spec => []DescriptorsAccounted
BY InvGivesProperty, InitCInv, CInvInductive, PTL DEF Spec
=============================================================================
