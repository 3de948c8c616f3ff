----------------------------- MODULE ProxyServe -----------------------------
(***************************************************************************)
(* serve of proxy/proxy.c byte by byte: one thread for each client reads a *)
(* request, answers it from the cache, or rewrites and forwards it and     *)
(* relays the response.  Tiny is the server.  The threads' descriptors are *)
(* in ProxyConn, the inside of the cache is in ProxyCache: here the cache  *)
(* is what it holds, and evicts nothing.                                   *)
(***************************************************************************)
EXTENDS Tiny

CONSTANTS
  MAXBUF,           (* the size of a request to the server                  *)
  MAX_OBJECT_SIZE,  (* the largest response that is cached                  *)
  Parsed            (* what the parser makes of a uri: its scheme, whether  *)
                    (* it names a host, and its path                        *)

(* The headers that the request to the server has once: Host, and those    *)
(* for which the proxy has its own.                                        *)
OwnNames == {"host:", "user-agent:", "connection:", "proxy-connection:"}

ASSUME ProxyServeAssumption ==
  /\ MAXBUF \in Nat
  /\ \A u \in DOMAIN Parsed : Parsed[u].path \notin OwnNames \cup {CRLF, LF}

VARIABLES
  thread,           (* for each client, its thread: see ThreadInit          *)
  cache             (* the responses by uri                                 *)

serveVars == <<thread, cache>>

NUL == "nul"

(* buf is the line buffer, rio and srio the readers of the two             *)
(* connections, host and rest the headers kept, out the bytes rio_writen   *)
(* still has to write, part what rio_readnb read of the response, obj the  *)
(* copy of it so far, req the request that is forwarded.                   *)
ThreadStart ==
  [pc |-> "request", rio |-> rio_readinitb, srio |-> rio_readinitb,
   buf |-> <<NUL>>, uri |-> "", host |-> <<>>, rest |-> <<>>,
   out |-> <<>>, next |-> "close", part |-> <<>>, req |-> <<>>, obj |-> <<>>, cachable |-> TRUE]

ServeInit ==
  /\ thread = [c \in Client |-> ThreadStart]
  /\ cache = [u \in {} |-> <<>>]

Goes(c, t) == thread' = [thread EXCEPT ![c] = t]

(* The strings a buffer may hold: what follows its bytes is not known.     *)
Strings(buf) ==
  IF Contains(buf, NUL)
  THEN {SubSeq(buf, 1, SelectInSeq(buf, LAMBDA b : b = NUL) - 1)}
  ELSE {buf, buf \o <<"?">>}

(* The buffer once s is written over its beginning.                        *)
Over(s, buf) == s \o Drop(buf, AtMost(Len(s), Len(buf)))

-----------------------------------------------------------------------------
(* The request                                                             *)

(* clienterror, then serve returns.                                        *)
Refuse(t, code) ==
  [t EXCEPT !.pc = "reply", !.out = ErrorPage(code), !.next = "close"]

(* What becomes of the thread with its request line.                       *)
Judged(t, line) ==
  IF Len(line) # 3
  THEN Refuse(t, "400")
  ELSE IF line[1] # "GET"
  THEN Refuse(t, "501")
  ELSE IF Parsed[line[2]].scheme # "http"
  THEN Refuse(t, "501")
  ELSE IF ~Parsed[line[2]].hosted
  THEN Refuse(t, "400")
  ELSE [t EXCEPT !.pc = "headers", !.uri = line[2], !.rio = Restart(@),
                 !.buf = Over(line \o <<NUL>>, @)]

ReadRequest(c) ==
  /\ thread[c].pc = "request"
  /\ Ready(thread[c].rio, pipe[Up(Outer(c))])
  /\ \E r \in {rio_readlineb(thread[c].rio, pipe[Up(Outer(c))], MAXLINE)} :
       LET t == [thread[c] EXCEPT !.rio = r.rp]
       IN /\ pipe' = [pipe EXCEPT ![Up(Outer(c))] = r.p]
          /\ Goes(c, CASE r.rc = "more" -> t
                       [] r.rc = "data" -> Judged(t, r.rp.usr)
                       [] OTHER -> [t EXCEPT !.pc = "close"])
  /\ UNCHANGED <<cache, tinyVars>>

(* Mutated form: the client's own Connection header is forwarded too.      *)
Kept_Connection(t, line) ==
  CASE line = <<CRLF>> \/ line = <<LF>> -> [t EXCEPT !.pc = "lookup"]
    [] line[1] = "host:" -> [t EXCEPT !.host = line]
    [] line[1] \in {"user-agent:", "proxy-connection:"} -> t
    [] OTHER -> IF Len(t.rest) + Len(line) < MAXBUF
                THEN [t EXCEPT !.rest = @ \o line]
                ELSE t

(* The thread after a line of the headers: it ends them, is kept as the    *)
(* Host header, replaced by one of the proxy's own, or passed on if there  *)
(* is room.                                                                *)
Kept(t, line) ==
  CASE line = <<CRLF>> \/ line = <<LF>> -> [t EXCEPT !.pc = "lookup"]
    [] line[1] = "host:" -> [t EXCEPT !.host = line]
    [] line[1] \in {"user-agent:", "connection:", "proxy-connection:"} -> t
    [] OTHER -> IF Len(t.rest) + Len(line) < MAXBUF
                THEN [t EXCEPT !.rest = @ \o line]
                ELSE t

(* The end of the input ends the headers too.  An error, -1 in a size_t,   *)
(* does not: the line before is handled again, as far as it is not         *)
(* overwritten.                                                            *)
ReadHeaders(c) ==
  /\ thread[c].pc = "headers"
  /\ Ready(thread[c].rio, pipe[Up(Outer(c))])
  /\ \E r \in {rio_readlineb(thread[c].rio, pipe[Up(Outer(c))], MAXLINE)} :
       LET t == [thread[c] EXCEPT !.rio = Restart(r.rp)]
           buf == Over(IF r.rc = "error" THEN r.rp.usr ELSE r.rp.usr \o <<NUL>>, t.buf)
       IN /\ pipe' = [pipe EXCEPT ![Up(Outer(c))] = r.p]
          /\ CASE r.rc = "more" -> Goes(c, [t EXCEPT !.rio = r.rp])
               [] r.rc = "eof" -> Goes(c, [t EXCEPT !.pc = "lookup"])
               [] OTHER -> \E line \in Strings(buf) :
                             Goes(c, Kept([t EXCEPT !.buf = buf], line))
  /\ UNCHANGED <<cache, tinyVars>>

OwnHeaders ==
  <<"user-agent:", CRLF, "connection:", CRLF, "proxy-connection:", CRLF>>

(* whole_request: snprintf cuts it at MAXBUF - 1 bytes.                    *)
WholeRequest(t) ==
  LET all == <<"GET", Parsed[t.uri].path, CRLF>>
               \o (IF t.host # <<>> THEN t.host ELSE <<"host:", CRLF>>)
               \o OwnHeaders \o t.rest \o <<CRLF>>
  IN SubSeq(all, 1, AtMost(Len(all), MAXBUF - 1))

(* Mutated form: the response is looked up, and then stored, by its path.  *)
CacheKey_Path(t) == Parsed[t.uri].path

(* The key of a response.                                                  *)
CacheKey(t) == t.uri

(* search_cache_obj.                                                       *)
Lookup(c) ==
  /\ thread[c].pc = "lookup"
  /\ LET t == thread[c]
     IN Goes(c, IF CacheKey(t) \in DOMAIN cache
                THEN [t EXCEPT !.pc = "reply", !.out = cache[CacheKey(t)], !.next = "close"]
                ELSE [t EXCEPT !.pc = "connect", !.req = WholeRequest(t)])
  /\ UNCHANGED <<pipe, cache, tinyVars>>

-----------------------------------------------------------------------------
(* To the server and back                                                  *)

(* open_clientfd.  When it fails, the write to descriptor -1 does.         *)
Connect(c) ==
  /\ thread[c].pc = "connect"
  /\ IF TinyAlive
     THEN /\ Goes(c, [thread[c] EXCEPT !.pc = "forward", !.out = thread[c].req])
          /\ backlog' = Append(backlog, Inner(c))
     ELSE /\ Goes(c, [thread[c] EXCEPT !.pc = "close"])
          /\ UNCHANGED backlog
  /\ UNCHANGED <<pipe, cache, tiny, sent>>

Forward(c) ==
  /\ thread[c].pc = "forward"
  /\ LET t == thread[c]
     IN \E n \in WriteSizes(pipe, Up(Inner(c)), t.out) :
          /\ pipe' = Written(pipe, Up(Inner(c)), SubSeq(t.out, 1, n))
          /\ Goes(c, [t EXCEPT !.out = Drop(@, n),
                               !.pc = IF n = Len(t.out) THEN "response" ELSE @])
  /\ UNCHANGED <<cache, tinyVars>>

ForwardFails(c) ==
  /\ thread[c].pc = "forward"
  /\ WriteFails(pipe, Up(Inner(c)))
  /\ Goes(c, [thread[c] EXCEPT !.pc = "close", !.out = <<>>])
  /\ pipe' = ClosedByClient(pipe, Inner(c))
  /\ UNCHANGED <<cache, tinyVars>>

(* rio_readnb.  The error, -1 in a size_t, becomes a write that the kernel *)
(* refuses; the end of the response is the end of the loop.                *)
ReadResponse(c) ==
  /\ thread[c].pc = "response"
  /\ Ready(thread[c].srio, pipe[Down(Inner(c))])
  /\ \E r \in {rio_readnb(thread[c].srio, pipe[Down(Inner(c))], MAXLINE)} :
       LET t == [thread[c] EXCEPT !.srio = Restart(r.rp)]
       IN /\ pipe' = [pipe EXCEPT ![Down(Inner(c))] = r.p]
          /\ Goes(c, CASE r.rc = "more" -> [t EXCEPT !.srio = r.rp]
                       [] r.rc = "data" ->
                            [t EXCEPT !.pc = "reply", !.out = r.rp.usr,
                                      !.part = r.rp.usr, !.next = "response"]
                       [] r.rc = "eof" -> [t EXCEPT !.pc = "insert"]
                       [] OTHER -> [t EXCEPT !.pc = "insert", !.cachable = FALSE])
  /\ UNCHANGED <<cache, tinyVars>>

(* Mutated form: what does not fit is left out.                            *)
Saved_Prefix(t) ==
  IF Len(t.obj) + Len(t.part) <= MAX_OBJECT_SIZE
  THEN [t EXCEPT !.obj = @ \o t.part, !.part = <<>>]
  ELSE [t EXCEPT !.part = <<>>]

(* The part is saved for the cache, if the response still fits.            *)
Saved(t) ==
  IF Len(t.obj) + Len(t.part) <= MAX_OBJECT_SIZE
  THEN [t EXCEPT !.obj = @ \o t.part, !.part = <<>>]
  ELSE [t EXCEPT !.cachable = FALSE, !.part = <<>>]

(* rio_writen to the client: an error page, a cached response, or the part *)
(* of a response that has just been read.                                  *)
Reply(c) ==
  /\ thread[c].pc = "reply"
  /\ LET t == thread[c]
     IN \E n \in WriteSizes(pipe, Down(Outer(c)), t.out) :
          /\ pipe' = Written(pipe, Down(Outer(c)), SubSeq(t.out, 1, n))
          /\ Goes(c, IF n < Len(t.out)
                     THEN [t EXCEPT !.out = Drop(@, n)]
                     ELSE [Saved(t) EXCEPT !.out = <<>>, !.pc = t.next])
  /\ UNCHANGED <<cache, tinyVars>>

(* Mutated form: the loop ends, and the response counts as complete.       *)
ReplyFails_Cachable(c) ==
  /\ thread[c].pc = "reply"
  /\ WriteFails(pipe, Down(Outer(c)))
  /\ Goes(c, [thread[c] EXCEPT !.out = <<>>,
                               !.pc = IF thread[c].next = "response"
                                      THEN "insert" ELSE "close"])
  /\ UNCHANGED <<pipe, cache, tinyVars>>

(* The client is gone: what is left of the response is not read.           *)
ReplyFails(c) ==
  /\ thread[c].pc = "reply"
  /\ WriteFails(pipe, Down(Outer(c)))
  /\ Goes(c, [thread[c] EXCEPT !.out = <<>>, !.cachable = FALSE,
                               !.pc = IF thread[c].next = "response" THEN "insert" ELSE "close"])
  /\ UNCHANGED <<pipe, cache, tinyVars>>

(* insert_cache_obj_to_cache, of a response that is not there yet; then    *)
(* the connection to the server is closed.                                 *)
Insert(c) ==
  /\ thread[c].pc = "insert"
  /\ LET t == thread[c]
     IN cache' = IF t.cachable /\ t.obj # <<>> /\ CacheKey(t) \notin DOMAIN cache
                 THEN [u \in DOMAIN cache \cup {CacheKey(t)} |->
                         IF u \in DOMAIN cache THEN cache[u] ELSE t.obj]
                 ELSE cache
  /\ pipe' = ClosedByClient(pipe, Inner(c))
  /\ Goes(c, [thread[c] EXCEPT !.pc = "close"])
  /\ UNCHANGED tinyVars

(* thread closes the connection that serve has returned from, and ends.    *)
Close(c) ==
  /\ thread[c].pc = "close"
  /\ pipe' = ClosedByServer(pipe, Outer(c))
  /\ Goes(c, [thread[c] EXCEPT !.pc = "done"])
  /\ UNCHANGED <<cache, tinyVars>>

ServeNext(c) ==
  \/ ReadRequest(c) \/ ReadHeaders(c) \/ Lookup(c)
  \/ Connect(c) \/ Forward(c) \/ ForwardFails(c)
  \/ ReadResponse(c) \/ Reply(c) \/ ReplyFails(c) \/ Insert(c) \/ Close(c)
=============================================================================
