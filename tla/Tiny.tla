-------------------------------- MODULE Tiny --------------------------------
(***************************************************************************)
(* The Tiny web server of proxy/tiny/tiny.c: one process that serves one   *)
(* connection after the other, and the CGI child it waits for.             *)
(*                                                                         *)
(* A header line that "%[^:]: %[^\r\n]" can parse is one whose first byte  *)
(* is in HeaderName; what the bytes of a name or value are does not        *)
(* matter.  A request line is <<method, uri, newline>>, its version part   *)
(* of the newline.                                                         *)
(***************************************************************************)
EXTENDS Rio

CONSTANTS
  MAXLINE,       (* the size of a line buffer                               *)
  HeaderName,    (* names of headers, each with its colon                   *)
  Parts,         (* of a uri: what is between its slashes                   *)
  Mode,          (* the rights to each file there is, a file being a        *)
                 (* sequence of parts; none if it is not a regular one      *)
  Content        (* what each file holds, or writes when it is run          *)

(* The bytes of the files.                                                 *)
FileBytes == UNION {Range(Content[f]) : f \in DOMAIN Content}

ASSUME TinyAssumption ==
  /\ MAXLINE \in Nat /\ MAXLINE > 2
  /\ DOMAIN Mode \subseteq DOMAIN Content
  /\ \A f \in DOMAIN Content : Content[f] \in Seq(FileBytes)

VARIABLES
  backlog,       (* connections not accepted yet                            *)
  tiny,          (* the process: see TinyInit                               *)
  sent           (* what Tiny and its child have written on each connection *)

tinyVars == <<backlog, tiny, sent>>

(* rio is its reader, uri the one of the request, file what it names, out the bytes rio_writen *)
(* still has to write, next where the process goes after that, child the   *)
(* CGI process.                                                            *)
TinyIdle == [pc |-> "accept", link |-> Outer(CHOOSE c \in Client : TRUE),
             rio |-> rio_readinitb, uri |-> "", file |-> <<>>, out |-> <<>>,
             next |-> "accept", child |-> "none"]

TinyInit ==
  /\ backlog = <<>>
  /\ tiny = TinyIdle
  /\ sent = [l \in Link |-> <<>>]

TinyAlive == tiny.pc # "dead"

(* The bytes of an error page, and of the headers of a response.           *)
ErrorPage(code) == <<code, CRLF, "body">>
StaticHeader == <<"200", CRLF>>
DynamicHeader == <<"200">>
CgiOutput(file) == <<CRLF>> \o Content[file]

(* main                                                                    *)
TinyAccept ==
  /\ tiny.pc = "accept"
  /\ backlog # <<>>
  /\ tiny' = [TinyIdle EXCEPT !.pc = "request", !.link = Head(backlog)]
  /\ backlog' = Tail(backlog)
  /\ UNCHANGED <<pipe, sent>>

(* clienterror, then serve returns.                                        *)
TinyError(t, code) ==
  [t EXCEPT !.pc = "write", !.out = ErrorPage(code), !.next = "close"]

(* The process once it has the request line.                               *)
ParsedRequest(t, line) ==
  IF Len(line) # 3
  THEN TinyError(t, "400")
  ELSE IF line[1] # "GET"
  THEN TinyError(t, "501")
  ELSE [t EXCEPT !.pc = "headers", !.uri = line[2], !.rio = Restart(@)]

TinyReadRequest ==
  /\ tiny.pc = "request"
  /\ Ready(tiny.rio, pipe[Up(tiny.link)])
  /\ \E r \in {rio_readlineb(tiny.rio, pipe[Up(tiny.link)], MAXLINE)} :
       LET t == [tiny EXCEPT !.rio = r.rp]
       IN /\ pipe' = [pipe EXCEPT ![Up(tiny.link)] = r.p]
          /\ tiny' = CASE r.rc = "more" -> t
                       [] r.rc = "data" -> ParsedRequest(t, r.rp.usr)
                       [] OTHER -> [t EXCEPT !.pc = "close"]
  /\ UNCHANGED <<backlog, sent>>

(* sscanf finds a name, a colon and a value.                               *)
HeaderParses(line) == line[1] \in HeaderName

(* read_requesthdrs: "\r\n" alone ends the headers.                        *)
TinyReadHeaders ==
  /\ tiny.pc = "headers"
  /\ Ready(tiny.rio, pipe[Up(tiny.link)])
  /\ \E r \in {rio_readlineb(tiny.rio, pipe[Up(tiny.link)], MAXLINE)} :
       LET t == [tiny EXCEPT !.rio = r.rp]
       IN /\ pipe' = [pipe EXCEPT ![Up(tiny.link)] = r.p]
          /\ tiny' = CASE r.rc = "more" -> t
                       [] r.rc = "data" /\ r.rp.usr = <<CRLF>> -> [t EXCEPT !.pc = "uri"]
                       [] r.rc = "data" /\ HeaderParses(r.rp.usr) -> [t EXCEPT !.rio = Restart(@)]
                       [] r.rc = "data" -> TinyError(t, "400")
                       [] OTHER -> [t EXCEPT !.pc = "close"]
  /\ UNCHANGED <<backlog, sent>>

(* The file that a uri names, and how it is served.                        *)
parse_uri(uri) ==
  LET p == Parts[uri]
  IN IF p[1] # ""
     THEN [result |-> "error", file |-> <<>>]
     ELSE IF Len(p) > 2 /\ p[2] = "cgi-bin"
     THEN [result |-> "dynamic", file |-> Tail(p)]
     ELSE IF \E i \in 2..(Len(p) - 1) : p[i] = ".."
     THEN [result |-> "error", file |-> <<>>]
     ELSE [result |-> "static",
           file |-> IF Last(p) = "" THEN [Tail(p) EXCEPT ![Len(p) - 1] = "home.html"] ELSE Tail(p)]

(* parse_uri, stat and the test of the mode; then serve_static or          *)
(* serve_dynamic begins with its headers.                                  *)
TinyParseUri ==
  /\ tiny.pc = "uri"
  /\ \E u \in {parse_uri(tiny.uri)} :
       tiny' =
         CASE u.result = "error" -> TinyError(tiny, "400")
           [] u.result # "error" /\ u.file \notin DOMAIN Mode -> TinyError(tiny, "404")
           [] u.result = "static" /\ u.file \in DOMAIN Mode ->
                IF "read" \in Mode[u.file]
                THEN [tiny EXCEPT !.pc = "write", !.file = u.file,
                                  !.out = StaticHeader, !.next = "static"]
                ELSE TinyError(tiny, "403")
           [] u.result = "dynamic" /\ u.file \in DOMAIN Mode ->
                IF "run" \in Mode[u.file]
                THEN [tiny EXCEPT !.pc = "write", !.file = u.file,
                                  !.out = DynamicHeader, !.next = "dynamic"]
                ELSE TinyError(tiny, "403")
  /\ UNCHANGED <<pipe, backlog, sent>>

-----------------------------------------------------------------------------
(* rio_writen                                                              *)

TinyWrite ==
  /\ tiny.pc = "write"
  /\ tiny.out # <<>>
  /\ \E n \in WriteSizes(pipe, Down(tiny.link), tiny.out) :
       /\ pipe' = Written(pipe, Down(tiny.link), SubSeq(tiny.out, 1, n))
       /\ sent' = [sent EXCEPT ![tiny.link] = @ \o SubSeq(tiny.out, 1, n)]
       /\ tiny' = [tiny EXCEPT !.out = Drop(@, n),
                               !.pc = IF n = Len(tiny.out) THEN tiny.next ELSE @]
  /\ UNCHANGED backlog

(* -1, with which every caller returns.                                    *)
TinyWriteFails ==
  /\ tiny.pc = "write"
  /\ WriteFails(pipe, Down(tiny.link))
  /\ tiny' = [tiny EXCEPT !.pc = "close", !.out = <<>>]
  /\ UNCHANGED <<pipe, backlog, sent>>

(* Or SIGPIPE, which Tiny does not ignore: the process ends, and with it   *)
(* the connections it has and those that wait.                             *)
TinyKilled ==
  /\ tiny.pc = "write"
  /\ WriteFails(pipe, Down(tiny.link))
  /\ tiny' = [tiny EXCEPT !.pc = "dead", !.out = <<>>]
  /\ LET lost == {backlog[i] : i \in DOMAIN backlog}
     IN pipe' = [p \in DOMAIN pipe |->
                   IF p[1] = tiny.link
                   THEN ClosedByServer(pipe, tiny.link)[p]
                   ELSE IF p[1] \in lost
                   THEN ClosedBy(pipe, Up(p[1]), Down(p[1]), TRUE)[p]
                   ELSE pipe[p]]
  /\ backlog' = <<>>
  /\ UNCHANGED sent

-----------------------------------------------------------------------------
(* serve_static and serve_dynamic after the headers                        *)

(* open or mmap may fail, as mmap does for an empty file.                  *)
TinyMapFile ==
  /\ tiny.pc = "static"
  /\ \/ /\ Content[tiny.file] # <<>>
        /\ tiny' = [tiny EXCEPT !.pc = "write", !.out = Content[tiny.file], !.next = "close"]
     \/ tiny' = [tiny EXCEPT !.pc = "close"]
  /\ UNCHANGED <<pipe, backlog, sent>>

TinyFork ==
  /\ tiny.pc = "dynamic"
  /\ \/ tiny' = [tiny EXCEPT !.pc = "wait", !.child = "run", !.out = CgiOutput(tiny.file)]
     \/ tiny' = [tiny EXCEPT !.pc = "close"]
  /\ UNCHANGED <<pipe, backlog, sent>>

(* The child: the program writes to the connection; or it cannot be run,   *)
(* or nobody reads.                                                        *)
CgiWrite ==
  /\ tiny.child = "run"
  /\ tiny.out # <<>>
  /\ \E n \in WriteSizes(pipe, Down(tiny.link), tiny.out) :
       /\ pipe' = Written(pipe, Down(tiny.link), SubSeq(tiny.out, 1, n))
       /\ sent' = [sent EXCEPT ![tiny.link] = @ \o SubSeq(tiny.out, 1, n)]
       /\ tiny' = [tiny EXCEPT !.out = Drop(@, n)]
  /\ UNCHANGED backlog

CgiExit ==
  /\ tiny.child = "run"
  /\ \/ tiny.out = <<>>
     \/ tiny.out = CgiOutput(tiny.file)
     \/ WriteFails(pipe, Down(tiny.link))
  /\ tiny' = [tiny EXCEPT !.child = "exited", !.out = <<>>]
  /\ UNCHANGED <<pipe, backlog, sent>>

TinyWait ==
  /\ tiny.pc = "wait"
  /\ tiny.child = "exited"
  /\ tiny' = [tiny EXCEPT !.pc = "close", !.child = "none"]
  /\ UNCHANGED <<pipe, backlog, sent>>

(* Mutated form: serve's returns leave the connection open.                *)
TinyClose_LeftOpen ==
  /\ tiny.pc = "close"
  /\ tiny' = TinyIdle
  /\ UNCHANGED <<pipe, backlog, sent>>

(* main closes the connection serve has returned from.                     *)
TinyClose ==
  /\ tiny.pc = "close"
  /\ pipe' = ClosedByServer(pipe, tiny.link)
  /\ tiny' = TinyIdle
  /\ UNCHANGED <<backlog, sent>>

TinyNext ==
  \/ TinyAccept \/ TinyReadRequest \/ TinyReadHeaders \/ TinyParseUri
  \/ TinyWrite \/ TinyWriteFails \/ TinyKilled
  \/ TinyMapFile \/ TinyFork \/ CgiWrite \/ CgiExit \/ TinyWait \/ TinyClose
=============================================================================
