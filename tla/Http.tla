-------------------------------- MODULE Http --------------------------------
(***************************************************************************)
(* The chain from clients through the proxy to Tiny, and clients that talk *)
(* to Tiny directly.  A client sends its request, reads the response to    *)
(* its end and closes; an impatient one may close, or abort, its           *)
(* connection at any time.                                                 *)
(***************************************************************************)
EXTENDS ProxyServe, FiniteSets

CONSTANTS
  Direct,         (* the clients that connect to Tiny                       *)
  Impatient,      (* the clients that may go                                *)
  Requests         (* the requests the clients may make: a set of functions  *)

ASSUME HttpAssumption == Direct \subseteq Client /\ Impatient \subseteq Client

(* Parsed covers the uris of the requests that the proxy parses.           *)
ASSUME RequestsAssumption ==
  \A r \in Requests : \A c \in Client :
    /\ r[c] \in Seq(Range(r[c]))
    /\ c \notin Direct /\ Len(r[c]) > 2 /\ r[c][1] = "GET" => r[c][2] \in DOMAIN Parsed

VARIABLES
  request,        (* what each client sends; nothing: it is not there       *)
  client          (* where it is: left is unsent, got is received           *)

vars == <<pipe, tinyVars, serveVars, request, client>>

Init ==
  /\ PipeInit
  /\ TinyInit
  /\ ServeInit
  /\ request \in Requests
  /\ client = [c \in Client |-> [pc |-> IF request[c] = <<>> THEN "done"
                                        ELSE IF c \in Direct THEN "connect" ELSE "send",
                                 left |-> request[c], got |-> <<>>]]

Is(c, r) == client' = [client EXCEPT ![c] = r]

ClientConnect(c) ==
  /\ client[c].pc = "connect"
  /\ IF TinyAlive
     THEN backlog' = Append(backlog, Outer(c)) /\ Is(c, [client[c] EXCEPT !.pc = "send"])
     ELSE UNCHANGED backlog /\ Is(c, [client[c] EXCEPT !.pc = "done"])
  /\ UNCHANGED <<pipe, tiny, sent, serveVars, request>>

(* What it sends is read by the server as it comes, in any pieces.         *)
ClientSend(c) ==
  /\ client[c].pc = "send"
  /\ LET left == client[c].left
     IN \E n \in WriteSizes(pipe, Up(Outer(c)), left) :
          /\ pipe' = Written(pipe, Up(Outer(c)), SubSeq(left, 1, n))
          /\ Is(c, [client[c] EXCEPT !.left = Drop(@, n),
                                     !.pc = IF n = Len(left) THEN "receive" ELSE @])
  /\ UNCHANGED <<tinyVars, serveVars, request>>

(* A server that has closed already may have answered.                     *)
ClientSendFails(c) ==
  /\ client[c].pc = "send"
  /\ WriteFails(pipe, Up(Outer(c)))
  /\ Is(c, [client[c] EXCEPT !.pc = "receive", !.left = <<>>])
  /\ UNCHANGED <<pipe, tinyVars, serveVars, request>>

(* It takes what there is, and closes after the end or an error.           *)
ClientReceive(c) ==
  /\ client[c].pc = "receive"
  /\ Readable(pipe[Down(Outer(c))])
  /\ LET data == pipe[Down(Outer(c))].data
     IN IF data # <<>>
        THEN /\ pipe' = [pipe EXCEPT ![Down(Outer(c))].data = <<>>]
             /\ Is(c, [client[c] EXCEPT !.got = @ \o data])
        ELSE /\ pipe' = ClosedByClient(pipe, Outer(c))
             /\ Is(c, [client[c] EXCEPT !.pc = "done"])
  /\ UNCHANGED <<tinyVars, serveVars, request>>

ClientGoes(c) ==
  /\ c \in Impatient
  /\ client[c].pc \in {"send", "receive"}
  /\ \E abort \in BOOLEAN :
       pipe' = ClosedBy(pipe, Down(Outer(c)), Up(Outer(c)), abort)
  /\ Is(c, [client[c] EXCEPT !.pc = "gone", !.left = <<>>])
  /\ UNCHANGED <<tinyVars, serveVars, request>>

ClientStep(c) ==
  ClientConnect(c) \/ ClientSend(c) \/ ClientSendFails(c) \/ ClientReceive(c)

ThreadStep(c) ==
  c \notin Direct /\ ServeNext(c) /\ UNCHANGED <<request, client>>

TinyStep == TinyNext /\ UNCHANGED <<serveVars, request, client>>

Next ==
  \/ \E c \in Client : ClientStep(c) \/ ClientGoes(c) \/ ThreadStep(c)
  \/ TinyStep

Spec == Init /\ [][Next]_vars

(* The scheduler runs every process and thread that can run, and a client  *)
(* that stays does its part.                                               *)
FairSpec ==
  /\ Spec
  /\ WF_vars(TinyStep)
  /\ \A c \in Client : WF_vars(ThreadStep(c)) /\ WF_vars(ClientStep(c))

-----------------------------------------------------------------------------
(* Properties                                                              *)

Count(s, b) == Cardinality({i \in DOMAIN s : s[i] = b})

(* The request ends with an empty line, and has no other.                  *)
EndsOnce(s) ==
  {i \in 2..Len(s) : IsNewline(s[i - 1]) /\ IsNewline(s[i])} = {Len(s)}

(* A byte for the name of a header is the first of its line, and none ends *)
(* a string.                                                               *)
HeadersAreLines(s) ==
  \A i \in DOMAIN s : s[i] # NUL /\ (s[i] \in OwnNames => i = 1 \/ IsNewline(s[i - 1]))

(* The client has sent all of its request, in lines that are not cut, and  *)
(* what the proxy makes of it is not cut either.                           *)
Ordinary(c) ==
  /\ client[c].pc # "gone"
  /\ InLines(request[c], MAXLINE)
  /\ HeadersAreLines(request[c])
  /\ Len(request[c]) + Len(OwnHeaders) + 2 < MAXBUF

(* A request that the proxy forwards has one empty line, at its end,       *)
(* and each of the headers that are the proxy's own once and a Host header *)
(* once, whatever the client's headers were and their order: the loop of   *)
(* serve over the headers, and whole_request.                              *)
ForwardedWellFormed ==
  \A c \in Client :
    Ordinary(c) /\ thread[c].req # <<>> =>
      /\ EndsOnce(thread[c].req)
      /\ \A h \in OwnNames : Count(thread[c].req, h) = 1

(* A cached response is all that Tiny and its child wrote on some          *)
(* connection whose request was for that uri, although clients go, Tiny is *)
(* killed, and connections are reset: the cachable flag of serve and its   *)
(* loop over the response.                                                 *)
CachedIsComplete ==
  \A u \in DOMAIN cache :
    \E c \in Client \ Direct :
      /\ thread[c].uri = u
      /\ cache[u] = sent[Inner(c)]
      /\ ~\E i \in DOMAIN backlog : backlog[i] = Inner(c)
      /\ tiny.link = Inner(c) => tiny.pc = "dead"

(* What a client has received is the beginning of an error page, or of     *)
(* what was sent for a request of the same uri: Tiny's connection with     *)
(* that client, or one of the proxy's.                                     *)
AnswersItsRequest ==
  \A c \in Client :
    \/ \E code \in {"400", "501"} : IsPrefix(client[c].got, ErrorPage(code))
    \/ c \in Direct /\ IsPrefix(client[c].got, sent[Outer(c)])
    \/ c \notin Direct /\ \E d \in Client \ Direct :
         thread[d].uri = thread[c].uri /\ IsPrefix(client[c].got, sent[Inner(d)])

(* A request has reached Tiny whose headers do not end.                    *)
TinyStuck ==
  \/ \E c \in Client : thread[c].req # <<>> /\ ~EndsOnce(thread[c].req)
  \/ \E c \in Direct : request[c] # <<>> /\ ~EndsOnce(request[c])

(* As long as every request that reaches Tiny ends with an empty line,     *)
(* each client that stays comes to the end of its response, whatever the   *)
(* others do: the loops of serve, of Tiny's main, and Tiny's wait.         *)
EveryClientAnswered ==
  \A c \in Client : <>(client[c].pc \in {"done", "gone"} \/ TinyStuck)
=============================================================================
