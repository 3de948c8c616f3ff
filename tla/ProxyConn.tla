----------------------------- MODULE ProxyConn -----------------------------
(***************************************************************************)
(* The connections of the proxy: the accept loop of proxy/proxy.c, the     *)
(* thread it makes for each connection, and the two descriptors a thread   *)
(* works with.  What is read and written on them, and the cache, are in    *)
(* ProxyCache; here a thread just needs the server or does not.            *)
(***************************************************************************)
EXTENDS Naturals

CONSTANTS
  Fd,         (* the descriptors the process may have, beside the listener  *)
  NoFd,       (* a negative result                                          *)
  Thread,     (* the threads the system lets the process have at a time     *)
  Addresses   (* the addresses getaddrinfo gives for a host, at most        *)

ASSUME ProxyConnAssumption == NoFd \notin Fd /\ Addresses \in Nat

VARIABLES
  mpc,        (* main: in accept, or about to create a thread               *)
  connfd,     (* main's local                                               *)
  tpc,        (* where each thread is                                       *)
  arg,        (* the heap cell a new thread finds its descriptor in         *)
  conn,       (* the thread's connfd                                        *)
  clientfd,   (* the thread's connection to the server                      *)
  left,       (* open_clientfd: the addresses still to be tried             *)
  open,       (* the descriptors in use, in the kernel                      *)
  lost        (* descriptors nobody knows any more                          *)

vars == <<mpc, connfd, tpc, arg, conn, clientfd, left, open, lost>>

TPC == {"none", "born", "serve", "socket", "connect", "fetch", "close"}

Init ==
  /\ mpc = "accept"
  /\ connfd = NoFd
  /\ tpc = [t \in Thread |-> "none"]
  /\ arg = [t \in Thread |-> NoFd]
  /\ conn = [t \in Thread |-> NoFd]
  /\ clientfd = [t \in Thread |-> NoFd]
  /\ left = [t \in Thread |-> 0]
  /\ open = {}
  /\ lost = {}

Goto(t, l) == tpc' = [tpc EXCEPT ![t] = l]

(* close(fd); of a negative number it does nothing.                        *)
Close(fd) == open' = open \ {fd}

-----------------------------------------------------------------------------
(* main                                                                    *)

Accept ==
  /\ mpc = "accept"
  /\ \E fd \in Fd \ open :
       /\ connfd' = fd
       /\ open' = open \cup {fd}
  /\ mpc' = "create"
  /\ UNCHANGED <<tpc, arg, conn, clientfd, left, lost>>

(* No descriptor is left; the loop tries again.                            *)
AcceptFails ==
  /\ mpc = "accept"
  /\ open = Fd
  /\ connfd' = NoFd
  /\ UNCHANGED <<mpc, tpc, arg, conn, clientfd, left, open, lost>>

(* The descriptor goes to the thread in a cell of its own.                 *)
CreateThread(t) ==
  /\ mpc = "create"
  /\ tpc[t] = "none"
  /\ Goto(t, "born")
  /\ arg' = [arg EXCEPT ![t] = connfd]
  /\ mpc' = "accept"
  /\ UNCHANGED <<connfd, conn, clientfd, left, open, lost>>

(* pthread_create fails, which nobody looks at.                            *)
CreateFails ==
  /\ mpc = "create"
  /\ \A t \in Thread : tpc[t] # "none"
  /\ lost' = lost \cup {connfd}
  /\ mpc' = "accept"
  /\ UNCHANGED <<connfd, tpc, arg, conn, clientfd, left, open>>

-----------------------------------------------------------------------------
(* thread and serve                                                        *)

(* connfd = *vargp, and the cell is freed.                                 *)
Start(t) ==
  /\ tpc[t] = "born"
  /\ conn' = [conn EXCEPT ![t] = arg[t]]
  /\ arg' = [arg EXCEPT ![t] = NoFd]
  /\ Goto(t, "serve")
  /\ UNCHANGED <<mpc, connfd, clientfd, left, open, lost>>

(* No request, a bad one, or one that the cache answers.                   *)
ServeAlone(t) ==
  /\ tpc[t] = "serve"
  /\ Goto(t, "close")
  /\ UNCHANGED <<mpc, connfd, arg, conn, clientfd, left, open, lost>>

(* A miss: open_clientfd resolves the host, which may fail.                *)
OpenClientfd(t) ==
  /\ tpc[t] = "serve"
  /\ \E n \in 0..Addresses : left' = [left EXCEPT ![t] = n]
  /\ clientfd' = [clientfd EXCEPT ![t] = NoFd]
  /\ Goto(t, "socket")
  /\ UNCHANGED <<mpc, connfd, arg, conn, open, lost>>

(* One turn of its loop over the addresses: socket, then connect.          *)
Socket(t) ==
  /\ tpc[t] = "socket"
  /\ left[t] > 0
  /\ \E fd \in Fd \ open :
       /\ clientfd' = [clientfd EXCEPT ![t] = fd]
       /\ open' = open \cup {fd}
  /\ Goto(t, "connect")
  /\ UNCHANGED <<mpc, connfd, arg, conn, left, lost>>

SocketFails(t) ==
  /\ tpc[t] = "socket"
  /\ left[t] > 0
  /\ open = Fd
  /\ clientfd' = [clientfd EXCEPT ![t] = NoFd]
  /\ left' = [left EXCEPT ![t] = @ - 1]
  /\ UNCHANGED <<mpc, connfd, tpc, arg, conn, open, lost>>

(* Mutated form: the socket stays open when the connection fails.          *)
ConnectFails_NoClose(t) ==
  /\ tpc[t] = "connect"
  /\ left' = [left EXCEPT ![t] = @ - 1]
  /\ clientfd' = [clientfd EXCEPT ![t] = NoFd]
  /\ Goto(t, "socket")
  /\ UNCHANGED <<mpc, connfd, arg, conn, open, lost>>

(* The stale number is not used: with no address left the result is -1.    *)
ConnectFails(t) ==
  /\ tpc[t] = "connect"
  /\ Close(clientfd[t])
  /\ left' = [left EXCEPT ![t] = @ - 1]
  /\ clientfd' = [clientfd EXCEPT ![t] = NoFd]
  /\ Goto(t, "socket")
  /\ UNCHANGED <<mpc, connfd, arg, conn, lost>>

Connect(t) ==
  /\ tpc[t] = "connect"
  /\ Goto(t, "fetch")
  /\ UNCHANGED <<mpc, connfd, arg, conn, clientfd, left, open, lost>>

(* No address worked: -1, which the write of the request then fails on.    *)
ConnectNone(t) ==
  /\ tpc[t] = "socket"
  /\ left[t] = 0
  /\ clientfd' = [clientfd EXCEPT ![t] = NoFd]
  /\ Goto(t, "fetch")
  /\ UNCHANGED <<mpc, connfd, arg, conn, left, open, lost>>

(* The response has been passed on, or something failed: close(clientfd).  *)
FetchEnd(t) ==
  /\ tpc[t] = "fetch"
  /\ Close(clientfd[t])
  /\ clientfd' = [clientfd EXCEPT ![t] = NoFd]
  /\ left' = [left EXCEPT ![t] = 0]
  /\ Goto(t, "close")
  /\ UNCHANGED <<mpc, connfd, arg, conn, lost>>

(* Mutated form: the connection to the client is left open.                *)
End_NoClose(t) ==
  /\ tpc[t] = "close"
  /\ conn' = [conn EXCEPT ![t] = NoFd]
  /\ Goto(t, "none")
  /\ UNCHANGED <<mpc, connfd, arg, clientfd, left, open, lost>>

(* close(connfd), and the detached thread is gone.                         *)
End(t) ==
  /\ tpc[t] = "close"
  /\ Close(conn[t])
  /\ conn' = [conn EXCEPT ![t] = NoFd]
  /\ Goto(t, "none")
  /\ UNCHANGED <<mpc, connfd, arg, clientfd, left, lost>>

Step(t) ==
  \/ Start(t) \/ ServeAlone(t) \/ OpenClientfd(t)
  \/ Socket(t) \/ SocketFails(t) \/ ConnectFails(t) \/ Connect(t)
  \/ ConnectNone(t) \/ FetchEnd(t) \/ End(t)

Next ==
  \/ Accept \/ AcceptFails \/ CreateFails
  \/ \E t \in Thread : CreateThread(t) \/ Step(t)

Spec == Init /\ [][Next]_vars

(* Every thread that can take a step takes one.                            *)
FairSpec == Spec /\ \A t \in Thread : WF_vars(Step(t))

-----------------------------------------------------------------------------
(* Properties.                                                             *)

(* Every variable keeps its type, and a thread that serves has a           *)
(* connection: a failed accept never gets one.                             *)
TypeOK ==
  /\ mpc \in {"accept", "create"}
  /\ connfd \in Fd \cup {NoFd}
  /\ tpc \in [Thread -> TPC]
  /\ arg \in [Thread -> Fd \cup {NoFd}]
  /\ conn \in [Thread -> Fd \cup {NoFd}]
  /\ clientfd \in [Thread -> Fd \cup {NoFd}]
  /\ left \in [Thread -> 0..Addresses]
  /\ open \subseteq Fd
  /\ lost \subseteq Fd
  /\ \A t \in Thread : (conn[t] \in Fd) <=> (tpc[t] \notin {"none", "born"})

(* The places that hold the descriptor fd: main, a cell, or a thread, as   *)
(* the client's connection or the server's.                                *)
Holders(fd) ==
  (IF mpc = "create" /\ connfd = fd THEN {<<"main", "connfd">>} ELSE {})
    \cup {<<t, "arg">>      : t \in {u \in Thread : arg[u] = fd}}
    \cup {<<t, "conn">>     : t \in {u \in Thread : conn[u] = fd}}
    \cup {<<t, "clientfd">> : t \in {u \in Thread : clientfd[u] = fd}}

(* Nobody works on another's connection: a descriptor has one holder at a  *)
(* time, and is open as long as it has one, so that no close hits a        *)
(* connection that got the number since (the race that the comment in main *)
(* guards against).                                                        *)
OneHolder ==
  \A fd \in Fd :
    /\ \A x, y \in Holders(fd) : x = y
    /\ Holders(fd) # {} => fd \in open

(* A descriptor that is open has a holder that will close it, unless       *)
(* pthread_create failed for it; none is closed while it is lost.          *)
NoFdLeak == \A fd \in Fd : fd \in open <=> Holders(fd) # {} \/ fd \in lost

(* Every descriptor is accounted for.                                      *)
DescriptorsAccounted == OneHolder /\ NoFdLeak

(* Every connection that has got its thread is closed.                     *)
EveryConnectionClosed ==
  \A fd \in Fd : (\E t \in Thread : arg[t] = fd) ~> fd \notin open
=============================================================================
