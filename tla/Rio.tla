--------------------------------- MODULE Rio ---------------------------------
(***************************************************************************)
(* Connections, and the buffered reader and the writer of csapp.c that the *)
(* proxy and the Tiny server use on them.                                  *)
(*                                                                         *)
(* A connection l has two pipes: Up(l) from the client to the server, and  *)
(* Down(l).  A byte is an arbitrary value, and CRLF and LF are the line    *)
(* ends "\r\n" and "\n", each counted as one byte.                         *)
(***************************************************************************)
EXTENDS Naturals, SequencesExt

CONSTANTS
  Client,        (* those who make requests                                 *)
  SOCKBUF,       (* the bytes the kernel keeps for a pipe                   *)
  RIO_BUFSIZE    (* sizeof(rio_buf)                                         *)

ASSUME RioAssumption == SOCKBUF \in Nat \ {0} /\ RIO_BUFSIZE \in Nat \ {0}

VARIABLE pipe

CRLF == "crlf"
LF == "lf"
IsNewline(b) == b \in {CRLF, LF}

Outer(c) == <<"outer", c>>
Inner(c) == <<"inner", c>>
Link == {"outer", "inner"} \X Client
Up(l) == <<l, "up">>
Down(l) == <<l, "down">>
OtherWay(p) == IF p[2] = "up" THEN Down(p[1]) ELSE Up(p[1])

-----------------------------------------------------------------------------
(* The kernel's part                                                       *)

(* fin: the writer has closed; rst: the reader is owed a reset; gone: there *)
(* is no reader.                                                           *)
PipeInit ==
  pipe = [p \in Link \X {"up", "down"} |->
            [data |-> <<>>, fin |-> FALSE, rst |-> FALSE, gone |-> FALSE]]

(* A read of p does not block.                                             *)
Readable(p) == p.data # <<>> \/ p.fin \/ p.rst

(* The pipes ps once the owner of the reading end of in and of the writing *)
(* end of out has closed its descriptor: bytes it has not read, or an      *)
(* abort, make the other side's read fail.                                 *)
ClosedBy(ps, in, out, abort) ==
  [ps EXCEPT ![in].gone = TRUE,
             ![in].data = <<>>,
             ![out].fin = TRUE,
             ![out].rst = @ \/ abort \/ ps[in].data # <<>>]

ClosedByServer(ps, l) == ClosedBy(ps, Up(l), Down(l), FALSE)
ClosedByClient(ps, l) == ClosedBy(ps, Down(l), Up(l), FALSE)

(* write: n of the bytes go into the pipe; with no reader they vanish, and *)
(* the writer is answered with a reset.                                    *)
Written(ps, p, bytes) ==
  IF ps[p].gone
  THEN [ps EXCEPT ![OtherWay(p)].rst = TRUE]
  ELSE [ps EXCEPT ![p].data = @ \o bytes]

AtMost(a, b) == IF a < b THEN a ELSE b

(* What one write takes: as much as there is room for; and whether a write *)
(* fails.                                                                  *)
Room(ps, p, bytes) ==
  IF ps[p].gone THEN Len(bytes) ELSE AtMost(SOCKBUF - Len(ps[p].data), Len(bytes))

WriteSizes(ps, p, bytes) == {Room(ps, p, bytes)} \ {0}

WriteFails(ps, p) == ps[p].gone

Drop(s, n) == SubSeq(s, n + 1, Len(s))

-----------------------------------------------------------------------------
(* The reader                                                              *)

(* buf is what rio_buf holds unread, usr what the call under way has put   *)
(* into the caller's buffer.                                               *)
rio_readinitb == [buf |-> <<>>, usr |-> <<>>]

(* rio_read: the unread bytes after at most one read of the pipe p, which  *)
(* is left alone while there are some.  A read that was interrupted is     *)
(* made again and shows nothing.                                           *)
Refill(rp, p) ==
  IF rp.buf # <<>>
  THEN [buf |-> rp.buf, p |-> p, rc |-> "bytes"]
  ELSE IF p.data # <<>>
  THEN LET cnt == IF Len(p.data) < RIO_BUFSIZE THEN Len(p.data) ELSE RIO_BUFSIZE
       IN [buf |-> SubSeq(p.data, 1, cnt),
           p |-> [p EXCEPT !.data = Drop(@, cnt)],
           rc |-> "bytes"]
  ELSE IF p.rst
  THEN [buf |-> <<>>, p |-> [p EXCEPT !.rst = FALSE, !.fin = TRUE], rc |-> "error"]
  ELSE [buf |-> <<>>, p |-> p, rc |-> "eof"]

(* A call makes progress without blocking.                                 *)
Ready(rp, p) == rp.buf # <<>> \/ Readable(p)

(* One turn of a call that has refilled its buffer with r: n bytes go to   *)
(* the caller, who has usr then; the call ends when that is full, or at    *)
(* the end of the input.  It results in "more", "data" (usr is the         *)
(* result), "eof" (0) or "error" (-1, usr is in the caller's buffer        *)
(* without an end).                                                        *)
Turn(r, n, usr, full) ==
  [rp |-> [buf |-> Drop(r.buf, n), usr |-> usr],
   p |-> r.p,
   rc |-> IF r.rc = "error" THEN "error"
          ELSE IF r.rc = "eof" THEN (IF usr = <<>> THEN "eof" ELSE "data")
          ELSE IF full THEN "data" ELSE "more"]

(* The first newline of s, or its end.                                     *)
LineEnd(s) ==
  IF \E i \in DOMAIN s : IsNewline(s[i])
  THEN CHOOSE i \in DOMAIN s : IsNewline(s[i]) /\ \A j \in 1..(i - 1) : ~IsNewline(s[j])
  ELSE Len(s)

(* A line ends with its newline, or at maxlen - 1 bytes.                   *)
rio_readlineb(rp, p, maxlen) ==
  LET r == Refill(rp, p)
      n == AtMost(LineEnd(r.buf), maxlen - 1 - Len(rp.usr))
      usr == rp.usr \o SubSeq(r.buf, 1, n)
  IN Turn(r, n, usr, Len(usr) = maxlen - 1 \/ (usr # <<>> /\ IsNewline(Last(usr))))

rio_readnb(rp, p, size) ==
  LET r == Refill(rp, p)
      n == AtMost(Len(r.buf), size - Len(rp.usr))
      usr == rp.usr \o SubSeq(r.buf, 1, n)
  IN Turn(r, n, usr, Len(usr) = size)

(* The next call starts with an empty buffer of the caller's.              *)
Restart(rp) == [rp EXCEPT !.usr = <<>>]

(* Every line of s is shorter than maxlen - 1 bytes and has its newline.   *)
InLines(s, maxlen) ==
  \A i \in DOMAIN s : \E j \in i..AtMost(Len(s), i + maxlen - 2) : IsNewline(s[j])
=============================================================================
