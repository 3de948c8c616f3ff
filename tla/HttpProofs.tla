----------------------------- MODULE HttpProofs -----------------------------
(***************************************************************************)
(* Proofs about Http: what is cached is complete, what a client has        *)
(* received belongs to its request, and what the proxy forwards is well    *)
(* formed, for any clients, requests, files and sizes of buffers.  The     *)
(* first two rest on HInv, the streams from Tiny to the clients; the third *)
(* on FInv, the way of a request to the headers that the thread keeps.     *)
(***************************************************************************)
EXTENDS Http, SequenceTheorems, FiniteSetTheorems, WellFoundedInduction, TLAPS

(* What Tiny sends is made of files and of its own headers and pages, what *)
(* the proxy sends of the clients' requests, of paths and of its own       *)
(* headers.  The provers take Bytes and Then as they are: what they need   *)
(* of them is in the lemmas.                                               *)
Text == UNION {Range(r[c]) : r \in Requests, c \in Client}
Byte ==
  FileBytes \cup {CRLF, "body", "200", "400", "403", "404", "501"}
    \cup Text \cup {Parsed[u].path : u \in DOMAIN Parsed} \cup OwnNames \cup {"GET", NUL}
Bytes == Seq(Byte)
Then(s, t) == s \o t

Way == {"up", "down"}
D(l) == pipe[Down(l)]

DownPipe == [data : Bytes, fin : BOOLEAN, rst : BOOLEAN, gone : BOOLEAN]
Reader == [buf : Bytes, usr : Bytes]

ThreadFields ==
  {"pc", "rio", "srio", "buf", "uri", "host", "rest", "out", "next", "part",
   "req", "obj", "cachable"}
TinyFields == {"pc", "link", "rio", "uri", "file", "out", "next", "child"}

(* Those who have a connection with Tiny: the direct clients, and the      *)
(* threads of the others.                                                  *)
Relayed == Client \ Direct
Servable == {Outer(c) : c \in Direct} \cup {Inner(c) : c \in Relayed}

-----------------------------------------------------------------------------
(* The inductive invariant                                                 *)

PipesOK(ps) ==
  /\ DOMAIN ps = Link \X Way
  /\ \A l \in Link : ps[Down(l)] \in DownPipe /\ Len(ps[Down(l)].data) <= SOCKBUF

PipeOK == PipesOK(pipe) /\ sent \in [Link -> Bytes]

ThreadOK(t) ==
  /\ DOMAIN t = ThreadFields
  /\ t.srio \in Reader /\ Len(t.srio.usr) <= MAXLINE
  /\ t.part \in Bytes /\ t.obj \in Bytes
  /\ t.pc = "reply" => t.out \in Bytes /\ t.next \in {"close", "response"}

TinyShape(t) ==
  /\ DOMAIN t = TinyFields
  /\ t.pc \in {"write", "wait"} => t.out \in Bytes
  /\ t.pc = "write" => t.next \in {"close", "static", "dynamic"}
  /\ t.pc = "write" /\ t.next \in {"static", "dynamic"} => t.file \in DOMAIN Mode
  /\ t.pc \in {"static", "dynamic"} => t.file \in DOMAIN Mode
  /\ t.child = "run" => t.pc = "wait"

TinyOK == TinyShape(tiny)

ClientOK ==
  /\ DOMAIN client = Client
  /\ \A c \in Client : /\ DOMAIN client[c] = {"pc", "left", "got"} /\ client[c].got \in Bytes
                       /\ client[c].pc = "connect" => c \in Direct

ShapeOK ==
  /\ PipeOK
  /\ DOMAIN thread = Client /\ \A c \in Client : ThreadOK(thread[c])
  /\ TinyOK
  /\ ClientOK

(* Whom Tiny serves: a connection of a thread waits at most once, and not  *)
(* while it is served, and not before the thread has connected.            *)
Waits(l) == \E i \in DOMAIN backlog : backlog[i] = l
Finished(l) == ~Waits(l) /\ (tiny.link = l => tiny.pc = "dead")
Unconnected(c) == thread[c].pc \in {"request", "headers", "lookup", "connect"}

ServedInv ==
  /\ backlog \in Seq(Servable)
  /\ IF tiny.pc = "accept" THEN tiny.link = TinyIdle.link ELSE tiny.link \in Servable
  /\ tiny.pc = "dead" => backlog = <<>>
  /\ \A c \in Relayed :
       /\ \A i, j \in DOMAIN backlog : backlog[i] = Inner(c) /\ backlog[j] = Inner(c) => i = j
       /\ tiny.link = Inner(c) => ~Waits(Inner(c))
       /\ Unconnected(c) => ~Waits(Inner(c)) /\ tiny.link # Inner(c)

(* A thread relays a response from its connection to Tiny.                 *)
Relaying(c) ==
  \/ thread[c].pc \in {"forward", "response"}
  \/ thread[c].pc = "reply" /\ thread[c].next = "response"

(* What a client has got or will get from its pipe; what is still on its   *)
(* way from Tiny; and what the thread is about to write.                   *)
Told(c) == Then(client[c].got, D(Outer(c)).data)
Coming(c) == Then(thread[c].srio.usr, Then(thread[c].srio.buf, D(Inner(c)).data))
Out(c) == IF thread[c].pc = "reply" THEN thread[c].out ELSE <<>>

(* Until it is connected nothing has come from Tiny and nothing gone to    *)
(* the client.  While it relays, what Tiny has sent is what the client has *)
(* been told and what is on its way, and as long as it is cachable, the    *)
(* copy of it and what is on its way.  A connection that is at its end has *)
(* been finished by Tiny.                                                  *)
FreshInv(c) ==
  Unconnected(c) =>
    /\ sent[Inner(c)] = <<>> /\ D(Inner(c)).data = <<>> /\ Told(c) = <<>>
    /\ thread[c].srio = rio_readinitb /\ thread[c].obj = <<>> /\ thread[c].part = <<>>
    /\ ~D(Inner(c)).fin /\ ~D(Inner(c)).gone

RelayInv(c) ==
  /\ Relaying(c) =>
       /\ ~D(Inner(c)).gone
       /\ D(Inner(c)).fin => Finished(Inner(c))
       /\ thread[c].pc # "reply" => thread[c].part = <<>>
       /\ thread[c].pc = "reply" => thread[c].srio.usr = <<>>
       /\ thread[c].cachable =>
            Then(Then(thread[c].obj, thread[c].part), Coming(c)) = sent[Inner(c)]
       /\ ~D(Outer(c)).gone => Then(Then(Told(c), Out(c)), Coming(c)) = sent[Inner(c)]
  /\ thread[c].pc = "insert" /\ thread[c].cachable =>
       thread[c].obj = sent[Inner(c)] /\ Finished(Inner(c))

Complete(c, u, bytes) ==
  /\ thread[c].pc \in {"close", "done"}
  /\ thread[c].uri = u
  /\ bytes = sent[Inner(c)]
  /\ Finished(Inner(c))

CacheInv == \A u \in DOMAIN cache : \E c \in Relayed : Complete(c, u, cache[u])

(* The bytes are the beginning of an answer to the request of c.           *)
Answer(c, bytes) ==
  \/ \E code \in {"400", "501"} : IsPrefix(bytes, ErrorPage(code))
  \/ \E d \in Relayed :
       /\ thread[d].pc # "request"
       /\ thread[d].uri = thread[c].uri
       /\ IsPrefix(bytes, sent[Inner(d)])

AnswerInv(c) ==
  /\ Answer(c, Told(c))
  /\ thread[c].pc = "reply" /\ thread[c].next = "close" /\ ~D(Outer(c)).gone =>
       Answer(c, Then(Told(c), thread[c].out))

DirectInv(c) ==
  /\ IsPrefix(Told(c), sent[Outer(c)])
  /\ ~D(Outer(c)).gone => Told(c) = sent[Outer(c)]

HInv ==
  /\ ShapeOK
  /\ ServedInv
  /\ \A c \in Relayed : FreshInv(c) /\ RelayInv(c) /\ AnswerInv(c)
  /\ CacheInv
  /\ \A c \in Direct : DirectInv(c)

-----------------------------------------------------------------------------
(* Sequences                                                               *)

LEMMA NoBytes == <<>> \in Bytes /\ Len(<<>>) = 0
BY EmptySeq DEF Bytes

LEMMA Lengths == \A s \in Bytes : Len(s) \in Nat /\ (Len(s) = 0 => s = <<>>)
BY EmptySeq, LenProperties DEF Bytes

LEMMA ThenBytes == \A s, t \in Bytes : Then(s, t) \in Bytes
<1> TAKE s, t \in Bytes
<1> QED BY ConcatProperties DEF Bytes, Then

LEMMA ThenLength == \A s, t \in Bytes : Len(Then(s, t)) = Len(s) + Len(t)
<1> TAKE s, t \in Bytes
<1> QED BY ConcatProperties DEF Bytes, Then

LEMMA ThenNothing == \A s \in Bytes : Then(s, <<>>) = s /\ Then(<<>>, s) = s
<1> TAKE s \in Bytes
<1> QED BY ConcatEmptySeq DEF Bytes, Then

LEMMA Associates ==
  \A s, t, u \in Bytes : Then(Then(s, t), u) = Then(s, Then(t, u))
<1> TAKE s, t, u \in Bytes
<1> QED BY ConcatAssociative DEF Bytes, Then

(* rio_writen and rio_read cut a sequence in two, and lose nothing.        *)
LEMMA Cut ==
  ASSUME NEW s \in Bytes, NEW n \in 0 .. Len(s)
  PROVE  /\ SubSeq(s, 1, n) \in Bytes /\ Len(SubSeq(s, 1, n)) = n
         /\ Drop(s, n) \in Bytes /\ Len(Drop(s, n)) = Len(s) - n
         /\ Then(SubSeq(s, 1, n), Drop(s, n)) = s
         /\ n = Len(s) => Drop(s, n) = <<>> /\ SubSeq(s, 1, n) = s
<1> USE DEF Bytes
<1>1. SubSeq(s, 1, n) \in Bytes /\ Len(SubSeq(s, 1, n)) = n
  BY SubSeqProperties
<1>2. Drop(s, n) \in Bytes /\ Len(Drop(s, n)) = Len(s) - n
  BY SubSeqProperties DEF Drop
<1>3. Then(SubSeq(s, 1, n), Drop(s, n)) = s
  <2>0. /\ Len(s) \in Nat /\ n \in Nat /\ n <= Len(s)
        /\ 1 \in 1 .. Len(s) + 1 /\ n \in 1 - 1 .. Len(s) /\ Len(s) \in n .. Len(s)
    OBVIOUS
  <2>1. SubSeq(s, 1, n) \o SubSeq(s, n + 1, Len(s)) = SubSeq(s, 1, Len(s))
    BY <2>0, ConcatAdjacentSubSeq, Zenon
  <2> QED BY <2>1, SubSeqFull DEF Drop, Then
<1>4. n = Len(s) => Drop(s, n) = <<>>
  BY <1>2, EmptySeq
<1>5. n = Len(s) => SubSeq(s, 1, n) = s
  BY SubSeqFull
<1> QED BY <1>1, <1>2, <1>3, <1>4, <1>5

(* What moves from one buffer to the next one keeps its place.             *)
LEMMA Moved ==
  ASSUME NEW u \in Bytes, NEW f \in Bytes, NEW d \in Bytes, NEW n \in 0 .. Len(f)
  PROVE  /\ Then(u, SubSeq(f, 1, n)) \in Bytes
         /\ Len(Then(u, SubSeq(f, 1, n))) = Len(u) + n
         /\ Drop(f, n) \in Bytes
         /\ Then(Then(u, SubSeq(f, 1, n)), Then(Drop(f, n), d)) = Then(u, Then(f, d))
<1>1. PICK a \in Bytes, b \in Bytes :
         a = SubSeq(f, 1, n) /\ b = Drop(f, n) /\ Then(a, b) = f /\ Len(a) = n
  <2>1. /\ SubSeq(f, 1, n) \in Bytes /\ Len(SubSeq(f, 1, n)) = n
        /\ Drop(f, n) \in Bytes /\ Then(SubSeq(f, 1, n), Drop(f, n)) = f
    BY Cut
  <2> QED BY <2>1, Zenon
<1>2. Then(Then(u, a), Then(b, d)) = Then(u, Then(Then(a, b), d))
  <2>1. Then(b, d) \in Bytes
    BY ThenBytes
  <2> QED BY <2>1, Associates
<1>3. Then(u, a) \in Bytes /\ Len(Then(u, a)) = Len(u) + Len(a)
  BY ThenBytes, ThenLength
<1> QED BY <1>1, <1>2, <1>3

(* IsPrefix: what is put behind either sequence, and transitivity.         *)
LEMMA PrefixIsCut ==
  ASSUME NEW S, NEW s \in Seq(S), NEW t \in Seq(S)
  PROVE  IsPrefix(s, t) <=> Len(s) <= Len(t) /\ \A i \in 1 .. Len(s) : s[i] = t[i]
<1>1. ASSUME Len(s) <= Len(t)
      PROVE  /\ SubSeq(t, 1, Len(s)) \in Seq(S) /\ Len(SubSeq(t, 1, Len(s))) = Len(s)
             /\ \A i \in 1 .. Len(s) : SubSeq(t, 1, Len(s))[i] = t[i]
  BY <1>1, SubSeqProperties
<1>2. SubSeq(s, 1, Len(s)) = s
  BY SubSeqFull
<1>3. ASSUME Len(s) <= Len(t), \A i \in 1 .. Len(s) : s[i] = t[i]
      PROVE  SubSeq(t, 1, Len(s)) = s
  BY <1>1, <1>3, SeqEqual
<1> QED BY <1>1, <1>2, <1>3 DEF IsPrefix

LEMMA PrefixThen == \A s, t \in Bytes : IsPrefix(s, Then(s, t))
<1> TAKE s, t \in Bytes
<1>1. /\ s \o t \in Seq(Byte) /\ Len(s \o t) = Len(s) + Len(t)
      /\ \A i \in 1 .. Len(s) + Len(t) : (s \o t)[i] = IF i <= Len(s) THEN s[i] ELSE t[i - Len(s)]
  BY ConcatProperties, Zenon DEF Bytes
<1>2. Len(s) <= Len(s \o t) /\ \A i \in 1 .. Len(s) : s[i] = (s \o t)[i]
  BY <1>1, LenProperties DEF Bytes
<1> QED BY <1>1, <1>2, PrefixIsCut, Zenon DEF Bytes, Then

LEMMA PrefixOrder ==
  /\ \A s \in Bytes : IsPrefix(<<>>, s) /\ IsPrefix(s, s)
  /\ \A s \in Bytes : IsPrefix(s, <<>>) => s = <<>>
  /\ \A s, t, u \in Bytes : IsPrefix(s, t) /\ IsPrefix(t, u) => IsPrefix(s, u)
<1>1. \A s \in Bytes : IsPrefix(<<>>, s) /\ IsPrefix(s, s)
  BY PrefixThen, NoBytes, ThenNothing
<1>2. \A s \in Bytes : IsPrefix(s, <<>>) => s = <<>>
  <2> TAKE s \in Bytes
  <2> HAVE IsPrefix(s, <<>>)
  <2>1. Len(s) <= Len(<<>>)
    BY DEF IsPrefix
  <2> QED BY <2>1, NoBytes, Lengths
<1>3. \A s, t, u \in Bytes : IsPrefix(s, t) /\ IsPrefix(t, u) => IsPrefix(s, u)
  <2> TAKE s, t, u \in Bytes
  <2> QED BY PrefixIsCut DEF Bytes
<1> QED BY <1>1, <1>2, <1>3

-----------------------------------------------------------------------------
(* Pipes                                                                   *)

(* What an operation on the pipes does to the downward pipe of l.          *)
Same(ps, qs, l) ==
  /\ qs[Down(l)].data = ps[Down(l)].data
  /\ qs[Down(l)].fin = ps[Down(l)].fin
  /\ qs[Down(l)].gone = ps[Down(l)].gone

LEMMA Ends ==
  /\ \A l \in Link : Up(l) \in Link \X Way /\ Down(l) \in Link \X Way
  /\ \A l \in Link : OtherWay(Down(l)) = Up(l) /\ OtherWay(Up(l)) = Down(l)
  /\ \A k, l \in Link : Up(k) # Down(l) /\ (Down(k) = Down(l) => k = l)
BY DEF Up, Down, Way, OtherWay

LEMMA ReadUp ==
  ASSUME NEW ps, PipesOK(ps), NEW k \in Link, NEW p
  PROVE  PipesOK([ps EXCEPT ![Up(k)] = p]) /\ \A l \in Link : Same(ps, [ps EXCEPT ![Up(k)] = p], l)
BY Ends DEF PipesOK, Same

LEMMA ReadDown ==
  ASSUME NEW ps, PipesOK(ps), NEW k \in Link, NEW p \in DownPipe, Len(p.data) <= SOCKBUF
  PROVE  /\ PipesOK([ps EXCEPT ![Down(k)] = p])
         /\ [ps EXCEPT ![Down(k)] = p][Down(k)] = p
         /\ \A l \in Link \ {k} : Same(ps, [ps EXCEPT ![Down(k)] = p], l)
BY Ends DEF PipesOK, Same

(* A write upwards may owe a reset, and no more.                           *)
LEMMA WriteUp ==
  ASSUME NEW ps, PipesOK(ps), NEW k \in Link, NEW bytes
  PROVE  /\ PipesOK(Written(ps, Up(k), bytes))
         /\ \A l \in Link : Same(ps, Written(ps, Up(k), bytes), l)
<1>1. CASE ps[Up(k)].gone
  <2> DEFINE p == [ps[Down(k)] EXCEPT !.rst = TRUE]
  <2>1. Written(ps, Up(k), bytes) = [ps EXCEPT ![Down(k)] = p]
    BY <1>1, Ends DEF Written, PipesOK
  <2>2. /\ p \in DownPipe /\ p.data = ps[Down(k)].data
        /\ p.fin = ps[Down(k)].fin /\ p.gone = ps[Down(k)].gone
    BY DEF PipesOK, DownPipe
  <2>3. Len(p.data) <= SOCKBUF
    BY <2>2 DEF PipesOK
  <2> HIDE DEF p
  <2>4. /\ PipesOK([ps EXCEPT ![Down(k)] = p]) /\ [ps EXCEPT ![Down(k)] = p][Down(k)] = p
        /\ \A l \in Link \ {k} : Same(ps, [ps EXCEPT ![Down(k)] = p], l)
    BY <2>2, <2>3, ReadDown
  <2> QED BY <2>1, <2>2, <2>4 DEF Same
<1>2. CASE ~ps[Up(k)].gone
  <2> DEFINE p == [ps[Up(k)] EXCEPT !.data = Then(@, bytes)]
  <2>1. Written(ps, Up(k), bytes) = [ps EXCEPT ![Up(k)] = p]
    BY <1>2, Ends DEF Written, PipesOK, Then
  <2> HIDE DEF p
  <2>2. /\ PipesOK([ps EXCEPT ![Up(k)] = p])
        /\ \A l \in Link : Same(ps, [ps EXCEPT ![Up(k)] = p], l)
    BY ReadUp
  <2> QED BY <2>1, <2>2
<1> QED BY <1>1, <1>2

(* A write downwards adds the bytes, unless there is no reader.            *)
LEMMA WriteDown ==
  ASSUME NEW ps, PipesOK(ps), NEW k \in Link, NEW bytes \in Bytes,
         ~ps[Down(k)].gone => Len(ps[Down(k)].data) + Len(bytes) <= SOCKBUF,
         NEW qs, qs = Written(ps, Down(k), bytes)
  PROVE  /\ PipesOK(qs)
         /\ qs[Down(k)].data = IF ps[Down(k)].gone THEN ps[Down(k)].data
                               ELSE Then(ps[Down(k)].data, bytes)
         /\ qs[Down(k)].fin = ps[Down(k)].fin /\ qs[Down(k)].gone = ps[Down(k)].gone
         /\ \A l \in Link \ {k} : Same(ps, qs, l)
<1>1. CASE ps[Down(k)].gone
  <2> DEFINE p == [ps[Up(k)] EXCEPT !.rst = TRUE]
  <2>1. qs = [ps EXCEPT ![Up(k)] = p]
    BY <1>1, Ends DEF Written, PipesOK
  <2> HIDE DEF p
  <2>2. /\ PipesOK([ps EXCEPT ![Up(k)] = p])
        /\ \A l \in Link : Same(ps, [ps EXCEPT ![Up(k)] = p], l)
    BY ReadUp
  <2>3. PipesOK(qs) /\ \A l \in Link : Same(ps, qs, l)
    BY <2>1, <2>2
  <2> QED BY <1>1, <2>3 DEF Same
<1>2. CASE ~ps[Down(k)].gone
  <2> DEFINE p == [ps[Down(k)] EXCEPT !.data = Then(@, bytes)]
  <2>1. qs = [ps EXCEPT ![Down(k)] = p]
    BY <1>2, Ends DEF Written, PipesOK, Then
  <2>2. ps[Down(k)].data \in Bytes
    BY DEF PipesOK, DownPipe
  <2>3. /\ Then(ps[Down(k)].data, bytes) \in Bytes
        /\ Len(Then(ps[Down(k)].data, bytes)) = Len(ps[Down(k)].data) + Len(bytes)
    BY <2>2, ThenBytes, ThenLength
  <2>4. /\ p \in DownPipe /\ p.data = Then(ps[Down(k)].data, bytes)
        /\ p.fin = ps[Down(k)].fin /\ p.gone = ps[Down(k)].gone
    BY <2>3 DEF PipesOK, DownPipe
  <2>5. Len(p.data) <= SOCKBUF
    BY <1>2, <2>3, <2>4
  <2> HIDE DEF p
  <2>6. /\ PipesOK([ps EXCEPT ![Down(k)] = p]) /\ [ps EXCEPT ![Down(k)] = p][Down(k)] = p
        /\ \A l \in Link \ {k} : Same(ps, [ps EXCEPT ![Down(k)] = p], l)
    BY <2>4, <2>5, ReadDown
  <2> QED BY <1>2, <2>1, <2>4, <2>6
<1> QED BY <1>1, <1>2

(* The server closes a connection: the downward pipe ends.                 *)
LEMMA ServerCloses ==
  ASSUME NEW ps, PipesOK(ps), NEW k \in Link, NEW abort \in BOOLEAN,
         NEW qs, qs = ClosedBy(ps, Up(k), Down(k), abort)
  PROVE  /\ PipesOK(qs)
         /\ qs[Down(k)].fin /\ qs[Down(k)].data = ps[Down(k)].data
         /\ qs[Down(k)].gone = ps[Down(k)].gone
         /\ \A l \in Link \ {k} : Same(ps, qs, l)
         /\ \A l \in Link \ {k} : qs[Down(l)] = ps[Down(l)]
<1> DEFINE u == [ps[Up(k)] EXCEPT !.gone = TRUE, !.data = <<>>]
           p == [ps[Down(k)] EXCEPT !.fin = TRUE, !.rst = @ \/ abort \/ ps[Up(k)].data # <<>>]
           mid == [ps EXCEPT ![Up(k)] = u]
<1>1. qs = [mid EXCEPT ![Down(k)] = p]
  BY Ends DEF ClosedBy, PipesOK
<1>2. /\ p \in DownPipe /\ p.fin /\ p.data = ps[Down(k)].data
      /\ p.gone = ps[Down(k)].gone
  BY DEF PipesOK, DownPipe
<1>3. Len(p.data) <= SOCKBUF
  BY <1>2 DEF PipesOK
<1> HIDE DEF p, u
<1>4. PipesOK(mid) /\ \A l \in Link : Same(ps, mid, l)
  BY ReadUp
<1>6. \A l \in Link : mid[Down(l)] = ps[Down(l)]
  BY Ends DEF PipesOK
<1> HIDE DEF mid
<1>5. PipesOK(qs) /\ qs[Down(k)] = p /\ \A l \in Link \ {k} : Same(mid, qs, l)
  <2>1. /\ PipesOK([mid EXCEPT ![Down(k)] = p]) /\ [mid EXCEPT ![Down(k)] = p][Down(k)] = p
        /\ \A l \in Link \ {k} : Same(mid, [mid EXCEPT ![Down(k)] = p], l)
    BY <1>2, <1>3, <1>4, ReadDown
  <2> QED BY <1>1, <2>1
<1>7. \A l \in Link \ {k} : qs[Down(l)] = mid[Down(l)]
  BY <1>1, <1>4, Ends DEF PipesOK
<1> QED BY <1>2, <1>4, <1>5, <1>6, <1>7 DEF Same

(* The client closes it: what is in the downward pipe is dropped.          *)
LEMMA ClientCloses ==
  ASSUME NEW ps, PipesOK(ps), NEW k \in Link, NEW abort \in BOOLEAN,
         NEW qs, qs = ClosedBy(ps, Down(k), Up(k), abort)
  PROVE  /\ PipesOK(qs)
         /\ qs[Down(k)].gone /\ qs[Down(k)].data = <<>>
         /\ qs[Down(k)].fin = ps[Down(k)].fin
         /\ \A l \in Link \ {k} : Same(ps, qs, l)
<1> DEFINE u == [ps[Up(k)] EXCEPT !.fin = TRUE, !.rst = @ \/ abort \/ ps[Down(k)].data # <<>>]
           p == [ps[Down(k)] EXCEPT !.gone = TRUE, !.data = <<>>]
           mid == [ps EXCEPT ![Down(k)] = p]
<1>1. qs = [mid EXCEPT ![Up(k)] = u]
  BY Ends DEF ClosedBy, PipesOK
<1>2. p \in DownPipe /\ p.fin = ps[Down(k)].fin /\ p.data = <<>> /\ p.gone
  BY NoBytes DEF PipesOK, DownPipe
<1>3. Len(p.data) <= SOCKBUF
  BY <1>2, NoBytes, RioAssumption
<1> HIDE DEF p, u
<1>4. PipesOK(mid) /\ mid[Down(k)] = p /\ \A l \in Link \ {k} : Same(ps, mid, l)
  BY <1>2, <1>3, ReadDown
<1> HIDE DEF mid
<1>5. PipesOK(qs) /\ \A l \in Link : Same(mid, qs, l)
  <2>1. /\ PipesOK([mid EXCEPT ![Up(k)] = u])
        /\ \A l \in Link : Same(mid, [mid EXCEPT ![Up(k)] = u], l)
    BY <1>4, ReadUp
  <2> QED BY <1>1, <2>1
<1> QED BY <1>2, <1>4, <1>5 DEF Same

(* One turn of rio_readnb loses and invents nothing: what the caller has,  *)
(* what is buffered and what is in the pipe remain the same bytes.  It     *)
(* results in "eof" only when nothing is left and the writer has closed.   *)
LEMMA ReadNb ==
  ASSUME NEW rp \in Reader, Len(rp.usr) <= MAXLINE, NEW p \in DownPipe, Ready(rp, p),
         NEW r, r = rio_readnb(rp, p, MAXLINE)
  PROVE  /\ r.rp \in Reader /\ Len(r.rp.usr) <= MAXLINE
         /\ r.p \in DownPipe /\ Len(r.p.data) <= Len(p.data) /\ r.p.gone = p.gone
         /\ r.rc \in {"more", "data", "eof", "error"}
         /\ Then(r.rp.usr, Then(r.rp.buf, r.p.data)) = Then(rp.usr, Then(rp.buf, p.data))
         /\ r.rc # "error" => r.p.fin = p.fin
         /\ r.rc = "eof" => /\ r.rp.usr = <<>> /\ r.rp.buf = <<>> /\ r.p.data = <<>>
                            /\ p.fin
<1> DEFINE f == Refill(rp, p)
           n == AtMost(Len(f.buf), MAXLINE - Len(rp.usr))
           usr == Then(rp.usr, SubSeq(f.buf, 1, n))
<1>1. /\ f.buf \in Bytes /\ f.p \in DownPipe /\ f.p.gone = p.gone
      /\ Len(f.p.data) <= Len(p.data)
      /\ Then(f.buf, f.p.data) = Then(rp.buf, p.data)
      /\ f.rc \in {"bytes", "error", "eof"}
      /\ f.rc # "error" => f.p.fin = p.fin
      /\ f.rc # "bytes" => rp.buf = <<>> /\ f.buf = <<>> /\ f.p.data = <<>>
      /\ f.rc = "eof" => p.fin
  <2>1. CASE rp.buf # <<>>
    <3>1. f = [buf |-> rp.buf, p |-> p, rc |-> "bytes"]
      BY <2>1 DEF Refill
    <3> HIDE DEF f
    <3> QED BY <3>1 DEF Reader, DownPipe
  <2>2. CASE rp.buf = <<>> /\ p.data # <<>>
    <3> DEFINE cnt == IF Len(p.data) < RIO_BUFSIZE THEN Len(p.data) ELSE RIO_BUFSIZE
               q == [p EXCEPT !.data = Drop(@, cnt)]
    <3>1. f = [buf |-> SubSeq(p.data, 1, cnt), p |-> q, rc |-> "bytes"]
      BY <2>2 DEF Refill
    <3>2. p.data \in Bytes /\ cnt \in 0 .. Len(p.data)
      BY RioAssumption, Lengths DEF DownPipe
    <3> HIDE DEF cnt
    <3>3. /\ SubSeq(p.data, 1, cnt) \in Bytes
          /\ Drop(p.data, cnt) \in Bytes /\ Len(Drop(p.data, cnt)) = Len(p.data) - cnt
          /\ Then(SubSeq(p.data, 1, cnt), Drop(p.data, cnt)) = p.data
      BY <3>2, Cut
    <3>4. /\ q \in DownPipe /\ q.data = Drop(p.data, cnt)
          /\ q.gone = p.gone /\ q.fin = p.fin
      BY <3>3 DEF DownPipe
    <3>5. Then(<<>>, p.data) = p.data
      BY <3>2, ThenNothing
    <3>6. Len(Drop(p.data, cnt)) <= Len(p.data)
      BY <3>2, <3>3
    <3> HIDE DEF f, q
    <3>7. f.buf = SubSeq(p.data, 1, cnt) /\ f.p = q /\ f.rc = "bytes"
      BY <3>1
    <3> QED BY <2>2, <3>3, <3>4, <3>5, <3>6, <3>7
  <2>3. CASE rp.buf = <<>> /\ p.data = <<>> /\ p.rst
    <3> DEFINE q == [p EXCEPT !.rst = FALSE, !.fin = TRUE]
    <3>1. f = [buf |-> <<>>, p |-> q, rc |-> "error"]
      BY <2>3 DEF Refill
    <3>2. q \in DownPipe /\ q.data = <<>> /\ q.gone = p.gone
      BY <2>3 DEF DownPipe
    <3> HIDE DEF f, q
    <3>3. f.buf = <<>> /\ f.p = q /\ f.rc = "error"
      BY <3>1
    <3> QED BY <2>3, <3>2, <3>3, NoBytes
  <2>4. CASE rp.buf = <<>> /\ p.data = <<>> /\ ~p.rst
    <3>1. f = [buf |-> <<>>, p |-> p, rc |-> "eof"]
      BY <2>4 DEF Refill
    <3>2. p.fin
      BY <2>4 DEF Ready, Readable
    <3> HIDE DEF f
    <3>3. f.buf = <<>> /\ f.p = p /\ f.rc = "eof"
      BY <3>1
    <3>4. Len(p.data) <= Len(p.data)
      BY <2>4, NoBytes
    <3> QED BY <2>4, <3>2, <3>3, <3>4, NoBytes
  <2> QED BY <2>1, <2>2, <2>3, <2>4
<1> HIDE DEF f
<1>2. n \in 0 .. Len(f.buf) /\ n <= MAXLINE - Len(rp.usr) /\ rp.usr \in Bytes
  <2>1. f.buf \in Bytes /\ rp.usr \in Bytes
    BY <1>1 DEF Reader
  <2>2. Len(f.buf) \in Nat /\ Len(rp.usr) \in Nat /\ MAXLINE \in Nat
    BY <2>1, TinyAssumption, Lengths
  <2> DEFINE a == Len(f.buf)
             b == MAXLINE - Len(rp.usr)
  <2>3. a \in Nat /\ b \in Nat
    BY <2>2
  <2> HIDE DEF a, b
  <2>4. AtMost(a, b) \in 0 .. a /\ AtMost(a, b) <= b
    BY <2>3 DEF AtMost
  <2> QED BY <2>1, <2>4 DEF a, b
<1> HIDE DEF n
<1>3. PICK u \in Bytes, b \in Bytes, d \in Bytes :
         u = rp.usr /\ b = f.buf /\ d = f.p.data
  BY <1>1, <1>2 DEF DownPipe
<1>4. /\ Then(u, SubSeq(b, 1, n)) \in Bytes
      /\ Len(Then(u, SubSeq(b, 1, n))) = Len(u) + n
      /\ Drop(b, n) \in Bytes
      /\ Then(Then(u, SubSeq(b, 1, n)), Then(Drop(b, n), d)) = Then(u, Then(b, d))
  <2>1. n \in 0 .. Len(b)
    BY <1>2, <1>3
  <2> QED BY <2>1, Moved
<1>5. /\ usr \in Bytes /\ Len(usr) <= MAXLINE /\ Drop(f.buf, n) \in Bytes
      /\ Then(usr, Then(Drop(f.buf, n), f.p.data)) = Then(rp.usr, Then(rp.buf, p.data))
  <2>1. Len(u) + n <= MAXLINE
    BY <1>2, <1>3, TinyAssumption, Lengths
  <2> QED BY <1>1, <1>3, <1>4, <2>1
<1>6. /\ r.rp = [buf |-> Drop(f.buf, n), usr |-> usr] /\ r.p = f.p
      /\ r.rc = IF f.rc = "error" THEN "error"
                ELSE IF f.rc = "eof" THEN (IF usr = <<>> THEN "eof" ELSE "data")
                ELSE IF Len(usr) = MAXLINE THEN "data" ELSE "more"
  BY DEF rio_readnb, Turn, f, n, Then
<1> HIDE DEF usr
<1>7. r.rp \in Reader /\ r.rp.usr = usr /\ r.rp.buf = Drop(f.buf, n)
  BY <1>5, <1>6 DEF Reader
<1>8. r.rc = "eof" => f.rc = "eof" /\ usr = <<>>
  BY <1>1, <1>6
<1>9. f.buf = <<>> => Drop(f.buf, n) = <<>>
  BY <1>2, NoBytes, SubSeqEmpty DEF Drop
<1>10. r.rc # "error" => f.rc # "error"
  BY <1>6
<1>11. r.rc \in {"more", "data", "eof", "error"}
  BY <1>6
<1> QED BY <1>1, <1>5, <1>6, <1>7, <1>8, <1>9, <1>10, <1>11

-----------------------------------------------------------------------------
(* What a step leaves alone                                                *)

LEMMA Links ==
  /\ \A c \in Client : Inner(c) \in Link /\ Outer(c) \in Link
  /\ \A c, d \in Client : Inner(c) # Outer(d)
  /\ \A c, d \in Client : Inner(c) = Inner(d) => c = d
  /\ \A c, d \in Client : Outer(c) = Outer(d) => c = d
BY DEF Inner, Outer, Link

LEMMA ServableLinks ==
  /\ Servable \subseteq Link /\ Direct \subseteq Client /\ Relayed \subseteq Client
  /\ \A c \in Relayed : Inner(c) \in Servable /\ Outer(c) \notin Servable
  /\ \A c \in Direct : Outer(c) \in Servable
  /\ \A l \in Servable : (\E c \in Direct : l = Outer(c)) \/ (\E c \in Relayed : l = Inner(c))
BY HttpAssumption, Links DEF Servable, Relayed

LEMMA StreamTypes ==
  ASSUME ShapeOK, NEW c \in Client
  PROVE  /\ D(Outer(c)).data \in Bytes /\ D(Inner(c)).data \in Bytes
         /\ client[c].got \in Bytes
         /\ thread[c].srio.usr \in Bytes /\ thread[c].srio.buf \in Bytes
         /\ thread[c].obj \in Bytes /\ thread[c].part \in Bytes
         /\ Told(c) \in Bytes /\ Coming(c) \in Bytes /\ Out(c) \in Bytes
         /\ sent[Inner(c)] \in Bytes /\ sent[Outer(c)] \in Bytes
<1>1. D(Outer(c)) \in DownPipe /\ D(Inner(c)) \in DownPipe
  BY Links DEF ShapeOK, PipeOK, PipesOK, D
<1>2. D(Outer(c)).data \in Bytes /\ D(Inner(c)).data \in Bytes
  BY <1>1 DEF DownPipe
<1>3. client[c].got \in Bytes
  BY DEF ShapeOK, ClientOK
<1>4. ThreadOK(thread[c])
  BY DEF ShapeOK
<1>5. /\ thread[c].srio.usr \in Bytes /\ thread[c].srio.buf \in Bytes
      /\ thread[c].obj \in Bytes /\ thread[c].part \in Bytes
  BY <1>4 DEF ThreadOK, Reader
<1>6. Out(c) \in Bytes
  BY <1>4, NoBytes DEF ThreadOK, Out
<1>7. Told(c) \in Bytes
  BY <1>2, <1>3, ThenBytes DEF Told
<1>8. Coming(c) \in Bytes
  BY <1>2, <1>5, ThenBytes DEF Coming
<1>9. sent[Inner(c)] \in Bytes /\ sent[Outer(c)] \in Bytes
  BY Links DEF ShapeOK, PipeOK
<1> QED BY <1>2, <1>3, <1>5, <1>6, <1>7, <1>8, <1>9

(* The same of the next state.                                             *)
LEMMA StreamTypesNext ==
  ASSUME ShapeOK', NEW c \in Client
  PROVE  /\ D(Outer(c))'.data \in Bytes /\ D(Inner(c))'.data \in Bytes
         /\ client'[c].got \in Bytes
         /\ thread'[c].srio.usr \in Bytes /\ thread'[c].srio.buf \in Bytes
         /\ thread'[c].obj \in Bytes /\ thread'[c].part \in Bytes
         /\ Told(c)' \in Bytes /\ Coming(c)' \in Bytes /\ Out(c)' \in Bytes
         /\ sent'[Inner(c)] \in Bytes /\ sent'[Outer(c)] \in Bytes
<1>1. D(Outer(c))' \in DownPipe /\ D(Inner(c))' \in DownPipe
  BY Links DEF ShapeOK, PipeOK, PipesOK, D
<1>2. D(Outer(c))'.data \in Bytes /\ D(Inner(c))'.data \in Bytes
  BY <1>1 DEF DownPipe
<1>3. client'[c].got \in Bytes
  BY DEF ShapeOK, ClientOK
<1>4. ThreadOK(thread[c])'
  BY DEF ShapeOK
<1>5. /\ thread'[c].srio.usr \in Bytes /\ thread'[c].srio.buf \in Bytes
      /\ thread'[c].obj \in Bytes /\ thread'[c].part \in Bytes
  BY <1>4 DEF ThreadOK, Reader
<1>6. Out(c)' \in Bytes
  BY <1>4, NoBytes DEF ThreadOK, Out
<1>7. Told(c)' \in Bytes
  BY <1>2, <1>3, ThenBytes DEF Told
<1>8. Coming(c)' \in Bytes
  BY <1>2, <1>5, ThenBytes DEF Coming
<1>9. sent'[Inner(c)] \in Bytes /\ sent'[Outer(c)] \in Bytes
  BY Links DEF ShapeOK, PipeOK
<1> QED BY <1>2, <1>3, <1>5, <1>6, <1>7, <1>8, <1>9

(* The client of c hears nothing new, or goes.                             *)
Hears(c) ==
  /\ IsPrefix(Told(c)', Told(c))
  /\ ~D(Outer(c))'.gone => ~D(Outer(c)).gone /\ Told(c)' = Told(c)

(* Nor does its thread, or the connection of the thread with Tiny.         *)
Untouched(c) ==
  /\ thread'[c] = thread[c]
  /\ D(Inner(c))'.data = D(Inner(c)).data /\ D(Inner(c))'.gone = D(Inner(c)).gone
  /\ D(Inner(c))'.fin =>
       D(Inner(c)).fin \/ (~Unconnected(c) /\ Finished(Inner(c))')
  /\ sent'[Inner(c)] = sent[Inner(c)]
  /\ Finished(Inner(c)) => Finished(Inner(c))'
  /\ Hears(c)

Grows ==
  /\ \A l \in Link : IsPrefix(sent[l], sent'[l])
  /\ \A d \in Relayed :
       thread[d].pc # "request" => /\ thread'[d].pc # "request"
                                   /\ thread'[d].uri = thread[d].uri

LEMMA ThreadKept ==
  ASSUME ShapeOK, ShapeOK', NEW c \in Relayed, Untouched(c), FreshInv(c), RelayInv(c)
  PROVE  FreshInv(c)' /\ RelayInv(c)'
<1>1. /\ D(Inner(c))'.data = D(Inner(c)).data /\ D(Inner(c))'.gone = D(Inner(c)).gone
      /\ D(Inner(c))'.fin => D(Inner(c)).fin \/ (~Unconnected(c) /\ Finished(Inner(c))')
  BY DEF Untouched
<1>2. Told(c) \in Bytes /\ Told(c)' \in Bytes
  BY StreamTypes, StreamTypesNext, ServableLinks
<1>3. FreshInv(c)'
  <2>1. Told(c) = <<>> => Told(c)' = <<>>
    BY <1>2, PrefixOrder DEF Untouched, Hears
  <2> QED BY <1>1, <2>1 DEF FreshInv, Untouched, Unconnected
<1>4. Coming(c)' = Coming(c) /\ Out(c)' = Out(c) /\ (Relaying(c)' <=> Relaying(c))
  BY <1>1 DEF Coming, Out, Relaying, Untouched
<1>5. ~D(Outer(c))'.gone => ~D(Outer(c)).gone /\ Told(c)' = Told(c)
  BY DEF Untouched, Hears
<1>6. RelayInv(c)'
  BY <1>1, <1>4, <1>5 DEF RelayInv, Untouched
<1> QED BY <1>3, <1>6

LEMMA ErrorPages == \A code \in {"400", "501", "404", "403"} : ErrorPage(code) \in Bytes
<1> TAKE code \in {"400", "501", "404", "403"}
<1>1. code \in Byte /\ CRLF \in Byte /\ "body" \in Byte
  BY DEF Byte
<1>2. <<code, CRLF, "body">> \in Seq(Byte)
  BY <1>1
<1> QED BY <1>2 DEF ErrorPage, Bytes

(* The other things that Tiny sends.                                       *)
LEMMA Responses ==
  /\ StaticHeader \in Bytes /\ DynamicHeader \in Bytes
  /\ \A f \in DOMAIN Mode : Content[f] \in Bytes /\ CgiOutput(f) \in Bytes
<1>1. CRLF \in Byte /\ "200" \in Byte
  BY DEF Byte
<1>2. <<"200", CRLF>> \in Seq(Byte) /\ <<"200">> \in Seq(Byte) /\ <<CRLF>> \in Seq(Byte)
  BY <1>1
<1>3. ASSUME NEW f \in DOMAIN Mode PROVE Content[f] \in Bytes /\ CgiOutput(f) \in Bytes
  <2>1. Content[f] \in Seq(FileBytes) /\ FileBytes \subseteq Byte
    BY TinyAssumption DEF Byte
  <2>2. Content[f] \in Seq(Byte)
    BY <2>1, SeqMonotonic
  <2>3. <<CRLF>> \o Content[f] \in Seq(Byte)
    BY <1>2, <2>2, ConcatProperties
  <2> QED BY <2>2, <2>3 DEF CgiOutput, Bytes
<1> QED BY <1>2, <1>3 DEF StaticHeader, DynamicHeader, Bytes

LEMMA AnswerShorter ==
  ASSUME ShapeOK, NEW c \in Relayed, NEW a \in Bytes, NEW b \in Bytes,
         IsPrefix(a, b), Answer(c, b)
  PROVE  Answer(c, a)
<1>1. CASE \E code \in {"400", "501"} : IsPrefix(b, ErrorPage(code))
  BY <1>1, ErrorPages, PrefixOrder DEF Answer
<1>2. CASE \E d \in Relayed : /\ thread[d].pc # "request"
                             /\ thread[d].uri = thread[c].uri
                             /\ IsPrefix(b, sent[Inner(d)])
  <2>1. PICK d \in Relayed : /\ thread[d].pc # "request"
                             /\ thread[d].uri = thread[c].uri
                             /\ IsPrefix(b, sent[Inner(d)])
    BY <1>2
  <2>2. sent[Inner(d)] \in Bytes
    BY StreamTypes, StreamTypesNext, ServableLinks
  <2>3. IsPrefix(a, sent[Inner(d)])
    BY <2>1, <2>2, PrefixOrder
  <2> QED BY <2>1, <2>3 DEF Answer
<1> QED BY <1>1, <1>2 DEF Answer

LEMMA AnswerKept ==
  ASSUME ShapeOK, ShapeOK', Grows, NEW c \in Relayed, thread'[c].uri = thread[c].uri,
         NEW b \in Bytes, Answer(c, b)
  PROVE  Answer(c, b)'
<1>1. CASE \E code \in {"400", "501"} : IsPrefix(b, ErrorPage(code))
  BY <1>1 DEF Answer
<1>2. CASE \E d \in Relayed : /\ thread[d].pc # "request"
                             /\ thread[d].uri = thread[c].uri
                             /\ IsPrefix(b, sent[Inner(d)])
  <2>1. PICK d \in Relayed : /\ thread[d].pc # "request"
                             /\ thread[d].uri = thread[c].uri
                             /\ IsPrefix(b, sent[Inner(d)])
    BY <1>2
  <2>2. /\ sent[Inner(d)] \in Bytes /\ sent'[Inner(d)] \in Bytes
        /\ IsPrefix(sent[Inner(d)], sent'[Inner(d)])
    BY StreamTypes, StreamTypesNext, ServableLinks, Links DEF Grows
  <2>3. IsPrefix(b, sent'[Inner(d)])
    BY <2>1, <2>2, PrefixOrder
  <2>4. thread'[d].pc # "request" /\ thread'[d].uri = thread'[c].uri
    BY <2>1 DEF Grows
  <2> QED BY <2>3, <2>4 DEF Answer
<1> QED BY <1>1, <1>2 DEF Answer

LEMMA AnswersKept ==
  ASSUME ShapeOK, ShapeOK', Grows, NEW c \in Relayed, thread'[c] = thread[c], Hears(c),
         AnswerInv(c)
  PROVE  AnswerInv(c)'
<1>1. Told(c) \in Bytes /\ Told(c)' \in Bytes
  BY StreamTypes, StreamTypesNext, ServableLinks
<1>2. PICK told \in Bytes : told = Told(c)'
  BY <1>1
<1>3. thread'[c] = thread[c] /\ IsPrefix(told, Told(c))
  BY <1>2 DEF Hears
<1>4. Answer(c, told)
  BY <1>1, <1>3, AnswerShorter DEF AnswerInv
<1>5. Answer(c, told)'
  BY <1>3, <1>4, AnswerKept
<1>6. ASSUME thread[c].pc = "reply", thread[c].next = "close", ~D(Outer(c))'.gone
      PROVE  Answer(c, Then(Told(c), thread[c].out))'
  <2>1. thread[c].out \in Bytes
    BY <1>6, ServableLinks DEF ShapeOK, ThreadOK
  <2>2. PICK all \in Bytes : all = Then(Told(c), thread[c].out)
    BY <1>1, <2>1, ThenBytes
  <2>3. Told(c)' = Told(c) /\ Answer(c, all)
    BY <1>6, <2>2 DEF Hears, AnswerInv
  <2>4. Answer(c, all)'
    BY <1>3, <2>3, AnswerKept
  <2> QED BY <1>3, <2>2, <2>3, <2>4
<1> QED BY <1>2, <1>3, <1>5, <1>6 DEF AnswerInv

LEMMA CacheKept ==
  ASSUME CacheInv, cache' = cache,
         \A c \in Relayed : thread[c].pc \in {"close", "done"} /\ Finished(Inner(c)) =>
            /\ thread'[c].pc \in {"close", "done"} /\ thread'[c].uri = thread[c].uri
            /\ sent'[Inner(c)] = sent[Inner(c)] /\ Finished(Inner(c))'
  PROVE  CacheInv'
<1> SUFFICES ASSUME NEW u \in DOMAIN cache
             PROVE  \E c \in Relayed : Complete(c, u, cache[u])'
  BY DEF CacheInv
<1>1. PICK c \in Relayed : Complete(c, u, cache[u])
  BY DEF CacheInv
<1>2. Complete(c, u, cache[u])'
  BY <1>1 DEF Complete
<1> QED BY <1>2

LEMMA DirectKept ==
  ASSUME ShapeOK, ShapeOK', NEW c \in Direct, Hears(c), sent'[Outer(c)] = sent[Outer(c)],
         DirectInv(c)
  PROVE  DirectInv(c)'
<1>1. Told(c) \in Bytes /\ Told(c)' \in Bytes /\ sent[Outer(c)] \in Bytes
  BY StreamTypes, StreamTypesNext, ServableLinks
<1>2. IsPrefix(Told(c)', Told(c)) /\ IsPrefix(Told(c), sent[Outer(c)])
  BY DEF Hears, DirectInv
<1>3. IsPrefix(Told(c)', sent[Outer(c)])
  BY <1>1, <1>2, PrefixOrder
<1> QED BY <1>3 DEF DirectInv, Hears

LEMMA ServedKept ==
  ASSUME ServedInv, backlog' = backlog, tiny'.link = tiny.link,
         tiny'.pc = "accept" <=> tiny.pc = "accept", tiny'.pc = "dead" <=> tiny.pc = "dead",
         \A c \in Relayed : Unconnected(c)' => Unconnected(c)
  PROVE  ServedInv' /\ \A c \in Relayed : Finished(Inner(c)) => Finished(Inner(c))'
<1>1. \A c \in Relayed : Waits(Inner(c))' <=> Waits(Inner(c))
  BY DEF Waits
<1>2. backlog' \in Seq(Servable)
  BY DEF ServedInv
<1>3. IF tiny'.pc = "accept" THEN tiny'.link = TinyIdle.link ELSE tiny'.link \in Servable
  BY DEF ServedInv
<1>4. tiny'.pc = "dead" => backlog' = <<>>
  BY DEF ServedInv
<1>5. \A c \in Relayed :
       /\ \A i, j \in DOMAIN backlog' : backlog'[i] = Inner(c) /\ backlog'[j] = Inner(c) => i = j
       /\ tiny'.link = Inner(c) => ~Waits(Inner(c))'
       /\ Unconnected(c)' => ~Waits(Inner(c))' /\ tiny'.link # Inner(c)
  BY <1>1 DEF ServedInv
<1>6. ServedInv'
  BY <1>2, <1>3, <1>4, <1>5 DEF ServedInv
<1> QED BY <1>1, <1>6 DEF Finished

(* A step that leaves every thread of the proxy alone.                     *)
LEMMA QuietStep ==
  ASSUME HInv, ShapeOK', ServedInv', cache' = cache, sent' = sent,
         \A c \in Relayed : Untouched(c), \A c \in Direct : Hears(c)
  PROVE  HInv'
<1>1. Grows
  <2>1. \A l \in Link : IsPrefix(sent[l], sent'[l])
    BY PrefixOrder DEF HInv, ShapeOK, PipeOK
  <2>2. \A d \in Relayed : thread'[d] = thread[d]
    BY DEF Untouched
  <2> QED BY <2>1, <2>2 DEF Grows
<1>2. \A c \in Relayed : FreshInv(c)' /\ RelayInv(c)' /\ AnswerInv(c)'
  <2> TAKE c \in Relayed
  <2>1. FreshInv(c)' /\ RelayInv(c)'
    BY ThreadKept DEF HInv
  <2>2. AnswerInv(c)'
    BY <1>1, AnswersKept DEF HInv, Untouched
  <2> QED BY <2>1, <2>2
<1>3. CacheInv'
  <2>1. \A c \in Relayed : thread'[c] = thread[c] /\ (Finished(Inner(c)) => Finished(Inner(c))')
    BY DEF Untouched
  <2> QED BY <2>1, CacheKept DEF HInv
<1>4. \A c \in Direct : DirectInv(c)'
  BY DirectKept DEF HInv
<1> QED BY <1>2, <1>3, <1>4 DEF HInv

(* Nothing is heard when neither the pipe of the client nor the client     *)
(* changes.                                                                *)
LEMMA HearsNothing ==
  ASSUME ShapeOK, NEW c \in Client, client'[c].got = client[c].got,
         D(Outer(c))'.data = D(Outer(c)).data, D(Outer(c))'.gone = D(Outer(c)).gone
  PROVE  Hears(c) /\ Told(c)' = Told(c)
<1>1. Told(c) \in Bytes
  BY StreamTypes
<1>2. Told(c)' = Told(c)
  BY DEF Told
<1> QED BY <1>1, <1>2, PrefixOrder DEF Hears

(* A step of a client.                                                     *)
LEMMA ClientFrame ==
  ASSUME HInv, NEW c \in Client, NEW r, r.got \in Bytes, DOMAIN r = {"pc", "left", "got"},
         r.pc # "connect",
         client' = [client EXCEPT ![c] = r], PipesOK(pipe'),
         \A l \in Link \ {Outer(c)} : Same(pipe, pipe', l), Hears(c),
         UNCHANGED <<tinyVars, serveVars>>
  PROVE  HInv'
<1>1. ShapeOK'
  <2>1. PipeOK'
    BY DEF HInv, ShapeOK, PipeOK, tinyVars
  <2>2. ClientOK'
    BY DEF HInv, ShapeOK, ClientOK
  <2>3. TinyOK' /\ DOMAIN thread' = Client /\ \A d \in Client : ThreadOK(thread'[d])
    BY DEF HInv, ShapeOK, TinyOK, tinyVars, serveVars
  <2> QED BY <2>1, <2>2, <2>3 DEF ShapeOK, ThreadOK
<1>2. ServedInv' /\ \A d \in Relayed : Finished(Inner(d)) => Finished(Inner(d))'
  BY ServedKept DEF HInv, tinyVars, serveVars, Unconnected
<1>3. \A d \in Client : Hears(d)
  <2> TAKE d \in Client
  <2>1. CASE d = c
    BY <2>1
  <2>2. CASE d # c
    <3>1. client'[d].got = client[d].got
      BY <2>2 DEF HInv, ShapeOK, ClientOK
    <3>2. Same(pipe, pipe', Outer(d))
      BY <2>2, Links
    <3> QED BY <3>1, <3>2, HearsNothing DEF Same, D, HInv
  <2> QED BY <2>1, <2>2
<1>4. \A d \in Relayed : Untouched(d)
  <2> TAKE d \in Relayed
  <2>1. Same(pipe, pipe', Inner(d))
    BY Links, ServableLinks
  <2> QED BY <1>2, <1>3, <2>1, ServableLinks DEF Untouched, Same, D, tinyVars, serveVars
<1>5. cache' = cache /\ sent' = sent
  BY DEF tinyVars, serveVars
<1> QED BY <1>1, <1>2, <1>3, <1>4, <1>5, QuietStep, ServableLinks

(* What a write takes.                                                     *)
LEMMA Sizes ==
  ASSUME NEW ps, PipesOK(ps), NEW l \in Link, NEW bytes \in Bytes,
         NEW n \in WriteSizes(ps, Down(l), bytes)
  PROVE  /\ n \in 1 .. Len(bytes)
         /\ ~ps[Down(l)].gone => Len(ps[Down(l)].data) + n <= SOCKBUF
<1>1. /\ ps[Down(l)].data \in Bytes /\ Len(ps[Down(l)].data) <= SOCKBUF
  BY DEF PipesOK, DownPipe
<1>2. Len(bytes) \in Nat /\ Len(ps[Down(l)].data) \in Nat /\ SOCKBUF \in Nat
  BY <1>1, Lengths, RioAssumption
<1>3. n = Room(ps, Down(l), bytes) /\ n # 0
  BY DEF WriteSizes
<1> DEFINE a == Len(ps[Down(l)].data)
           b == Len(bytes)
<1>4. a \in Nat /\ b \in Nat /\ a <= SOCKBUF
  BY <1>1, <1>2
<1>5. n = (IF ps[Down(l)].gone THEN b ELSE AtMost(SOCKBUF - a, b)) /\ n # 0
  BY <1>3 DEF Room
<1> HIDE DEF a, b
<1>6. n \in 1 .. b /\ (~ps[Down(l)].gone => a + n <= SOCKBUF)
  <2>1. CASE ps[Down(l)].gone
    BY <1>4, <1>5, <2>1
  <2>2. CASE ~ps[Down(l)].gone
    <3>1. n = AtMost(SOCKBUF - a, b)
      BY <1>5, <2>2
    <3>2. n \in 1 .. b /\ a + n <= SOCKBUF
      BY <1>2, <1>4, <1>5, <3>1 DEF AtMost
    <3> QED BY <3>2
  <2> QED BY <2>1, <2>2
<1> QED BY <1>6 DEF a, b

-----------------------------------------------------------------------------
(* The clients                                                             *)

LEMMA SendKeeps ==
  ASSUME HInv, NEW c \in Client, ClientSend(c) \/ ClientSendFails(c),
         UNCHANGED <<tinyVars, serveVars>>
  PROVE  HInv'
<1>1. CASE ClientSend(c)
  <2>1. PICK n : /\ pipe' = Written(pipe, Up(Outer(c)), SubSeq(client[c].left, 1, n))
                 /\ Is(c, [client[c] EXCEPT !.left = Drop(@, n),
                                            !.pc = IF n = Len(client[c].left) THEN "receive" ELSE @])
    BY <1>1 DEF ClientSend
  <2> DEFINE r == [client[c] EXCEPT !.left = Drop(@, n),
                                    !.pc = IF n = Len(client[c].left) THEN "receive" ELSE @]
  <2>2. r.got = client[c].got /\ r.got \in Bytes /\ DOMAIN r = {"pc", "left", "got"}
    BY DEF HInv, ShapeOK, ClientOK
  <2>8. r.pc # "connect"
    BY <1>1 DEF ClientSend, HInv, ShapeOK, ClientOK
  <2> HIDE DEF r
  <2>3. client' = [client EXCEPT ![c] = r]
    BY <2>1 DEF Is, r
  <2>4. /\ PipesOK(Written(pipe, Up(Outer(c)), SubSeq(client[c].left, 1, n)))
        /\ \A l \in Link : Same(pipe, Written(pipe, Up(Outer(c)), SubSeq(client[c].left, 1, n)), l)
    BY WriteUp, Links DEF HInv, ShapeOK, PipeOK
  <2>5. PipesOK(pipe') /\ \A l \in Link : Same(pipe, pipe', l)
    BY <2>1, <2>4
  <2>6. client'[c].got = client[c].got
    BY <2>2, <2>3 DEF HInv, ShapeOK, ClientOK
  <2>7. Hears(c)
    BY <2>5, <2>6, HearsNothing, Links DEF HInv, Same, D
  <2> QED BY <2>2, <2>3, <2>5, <2>7, <2>8, ClientFrame
<1>2. CASE ClientSendFails(c)
  <2> DEFINE r == [client[c] EXCEPT !.pc = "receive", !.left = <<>>]
  <2>1. r.got = client[c].got /\ r.got \in Bytes /\ DOMAIN r = {"pc", "left", "got"} /\ r.pc # "connect"
    BY DEF HInv, ShapeOK, ClientOK
  <2>2. client' = [client EXCEPT ![c] = r] /\ pipe' = pipe
    BY <1>2 DEF ClientSendFails, Is
  <2> HIDE DEF r
  <2>3. client'[c].got = client[c].got
    BY <2>1, <2>2 DEF HInv, ShapeOK, ClientOK
  <2>4. Hears(c)
    BY <2>2, <2>3, HearsNothing DEF HInv, D
  <2>5. PipesOK(pipe') /\ \A l \in Link : Same(pipe, pipe', l)
    BY <2>2 DEF HInv, ShapeOK, PipeOK, Same
  <2> QED BY <2>1, <2>2, <2>4, <2>5, ClientFrame
<1> QED BY <1>1, <1>2

(* A client that closes hears no more.                                     *)
LEMMA LeaveKeeps ==
  ASSUME HInv, NEW c \in Client, NEW r, r.got = client[c].got, DOMAIN r = {"pc", "left", "got"},
         r.pc # "connect",
         client' = [client EXCEPT ![c] = r], NEW abort \in BOOLEAN,
         pipe' = ClosedBy(pipe, Down(Outer(c)), Up(Outer(c)), abort),
         UNCHANGED <<tinyVars, serveVars>>
  PROVE  HInv'
<1>1. /\ PipesOK(pipe') /\ D(Outer(c))'.gone /\ D(Outer(c))'.data = <<>>
      /\ \A l \in Link \ {Outer(c)} : Same(pipe, pipe', l)
  <2> DEFINE qs == ClosedBy(pipe, Down(Outer(c)), Up(Outer(c)), abort)
  <2>1. /\ PipesOK(qs) /\ qs[Down(Outer(c))].gone /\ qs[Down(Outer(c))].data = <<>>
        /\ \A l \in Link \ {Outer(c)} : Same(pipe, qs, l)
    BY ClientCloses, Links DEF HInv, ShapeOK, PipeOK
  <2> QED BY <2>1 DEF D
<1>2. PICK got \in Bytes, data \in Bytes : got = client[c].got /\ data = D(Outer(c)).data
  BY StreamTypes DEF HInv
<1>3. client'[c].got = got
  BY <1>2 DEF HInv, ShapeOK, ClientOK
<1>4. Told(c)' = Then(got, <<>>) /\ Told(c) = Then(got, data)
  BY <1>1, <1>2, <1>3 DEF Told
<1>5. Then(got, <<>>) = got /\ IsPrefix(got, Then(got, data))
  BY ThenNothing, PrefixThen
<1>6. Hears(c)
  BY <1>1, <1>4, <1>5 DEF Hears
<1> QED BY <1>1, <1>2, <1>6, ClientFrame

LEMMA ReceiveKeeps ==
  ASSUME HInv, NEW c \in Client, ClientReceive(c)
  PROVE  HInv'
<1> DEFINE data == pipe[Down(Outer(c))].data
<1>1. CASE data # <<>>
  <2> DEFINE r == [client[c] EXCEPT !.got = Then(@, data)]
             p == [pipe[Down(Outer(c))] EXCEPT !.data = <<>>]
  <2>1. /\ client' = [client EXCEPT ![c] = r]
        /\ pipe' = [pipe EXCEPT ![Down(Outer(c))] = p]
    BY <1>1 DEF ClientReceive, Is, Then
  <2>2. PICK got \in Bytes, in \in Bytes : got = client[c].got /\ in = data
    BY StreamTypes DEF HInv, D
  <2>3. r.got = Then(got, in) /\ DOMAIN r = {"pc", "left", "got"} /\ r.pc # "connect"
    BY <2>2 DEF ClientReceive, HInv, ShapeOK, ClientOK
  <2>4. p \in DownPipe /\ p.data = <<>> /\ p.fin = pipe[Down(Outer(c))].fin
        /\ p.gone = pipe[Down(Outer(c))].gone
    BY NoBytes, Links DEF HInv, ShapeOK, PipeOK, PipesOK, DownPipe
  <2>5. Len(p.data) <= SOCKBUF
    BY <2>4, NoBytes, RioAssumption
  <2> HIDE DEF p, r
  <2>6. /\ PipesOK(pipe') /\ D(Outer(c))' = p
        /\ \A l \in Link \ {Outer(c)} : Same(pipe, pipe', l)
    <3>1. PICK q \in DownPipe : q = p
      BY <2>4
    <3> DEFINE qs == [pipe EXCEPT ![Down(Outer(c))] = q]
    <3>2. /\ PipesOK(qs) /\ qs[Down(Outer(c))] = q
          /\ \A l \in Link \ {Outer(c)} : Same(pipe, qs, l)
      BY <2>5, <3>1, ReadDown, Links DEF HInv, ShapeOK, PipeOK
    <3> QED BY <2>1, <3>1, <3>2 DEF D
  <2>7. client'[c].got = Then(got, in)
    BY <2>1, <2>3 DEF HInv, ShapeOK, ClientOK
  <2>8. Told(c)' = Then(Then(got, in), <<>>) /\ Told(c) = Then(got, in)
    BY <2>2, <2>4, <2>6, <2>7 DEF Told, D
  <2>9. Then(got, in) \in Bytes
    BY ThenBytes
  <2>10. Told(c)' = Told(c) /\ IsPrefix(Told(c), Told(c))
    BY <2>8, <2>9, ThenNothing, PrefixOrder
  <2>11. Hears(c)
    BY <2>4, <2>6, <2>10 DEF Hears, D
  <2> QED BY <2>1, <2>3, <2>6, <2>9, <2>11, ClientFrame DEF ClientReceive
<1>2. CASE data = <<>>
  <2> DEFINE r == [client[c] EXCEPT !.pc = "done"]
  <2>1. client' = [client EXCEPT ![c] = r]
        /\ pipe' = ClosedBy(pipe, Down(Outer(c)), Up(Outer(c)), FALSE)
    BY <1>2 DEF ClientReceive, Is, ClosedByClient
  <2>2. r.got = client[c].got /\ DOMAIN r = {"pc", "left", "got"} /\ r.pc # "connect"
    BY DEF HInv, ShapeOK, ClientOK
  <2> HIDE DEF r
  <2> QED BY <2>1, <2>2, LeaveKeeps DEF ClientReceive
<1> QED BY <1>1, <1>2

LEMMA GoKeeps ==
  ASSUME HInv, NEW c \in Client, ClientGoes(c)
  PROVE  HInv'
<1> DEFINE r == [client[c] EXCEPT !.pc = "gone", !.left = <<>>]
<1>1. PICK abort \in BOOLEAN : pipe' = ClosedBy(pipe, Down(Outer(c)), Up(Outer(c)), abort)
  BY DEF ClientGoes
<1>2. client' = [client EXCEPT ![c] = r]
  BY DEF ClientGoes, Is
<1>3. r.got = client[c].got /\ DOMAIN r = {"pc", "left", "got"} /\ r.pc # "connect"
  BY DEF HInv, ShapeOK, ClientOK
<1> HIDE DEF r
<1> QED BY <1>1, <1>2, <1>3, LeaveKeeps DEF ClientGoes

(* Who waits after a connection has been made.                             *)
LEMMA AppendWaits ==
  ASSUME NEW k, NEW l, backlog \in Seq(Servable), k \in Servable, k # l, backlog' = Append(backlog, k)
  PROVE  Waits(l)' <=> Waits(l)
<1>1. /\ DOMAIN backlog' = 1 .. Len(backlog) + 1 /\ DOMAIN backlog = 1 .. Len(backlog)
      /\ Len(backlog) \in Nat
      /\ \A i \in 1 .. Len(backlog) : backlog'[i] = backlog[i]
      /\ backlog'[Len(backlog) + 1] = k
  BY AppendProperties
<1>2. ASSUME NEW i \in DOMAIN backlog, backlog[i] = l PROVE \E j \in DOMAIN backlog' : backlog'[j] = l
  BY <1>1, <1>2
<1>3. ASSUME NEW i \in DOMAIN backlog', backlog'[i] = l PROVE \E j \in DOMAIN backlog : backlog[j] = l
  BY <1>1, <1>3
<1> QED BY <1>2, <1>3 DEF Waits

LEMMA ConnectKeeps ==
  ASSUME HInv, NEW c \in Client, ClientConnect(c)
  PROVE  HInv'
<1>1. ShapeOK'
  <2>1. PipeOK' /\ TinyOK' /\ DOMAIN thread' = Client /\ \A d \in Client : ThreadOK(thread'[d])
    BY DEF HInv, ShapeOK, PipeOK, TinyOK, ClientConnect, serveVars
  <2>2. PICK pc \in {"send", "done"} : client' = [client EXCEPT ![c] = [client[c] EXCEPT !.pc = pc]]
    BY DEF ClientConnect, Is
  <2>3. ClientOK'
    BY <2>2 DEF HInv, ShapeOK, ClientOK
  <2> QED BY <2>1, <2>3 DEF ShapeOK, ThreadOK
<1>2. \A d \in Client : client'[d].got = client[d].got
  BY DEF HInv, ShapeOK, ClientOK, ClientConnect, Is
<1>3. \A d \in Client : Hears(d)
  BY <1>2, HearsNothing DEF HInv, D, ClientConnect
<1>4. \A d \in Relayed : Waits(Inner(d))' <=> Waits(Inner(d))
  <2> TAKE d \in Relayed
  <2>1. CASE TinyAlive
    <3>1. backlog' = Append(backlog, Outer(c)) /\ Outer(c) # Inner(d) /\ Outer(c) \in Servable
      BY <2>1, Links, ServableLinks DEF ClientConnect, HInv, ShapeOK, ClientOK
    <3> QED BY <3>1, AppendWaits DEF HInv, ServedInv
  <2>2. CASE ~TinyAlive
    BY <2>2 DEF ClientConnect, Waits
  <2> QED BY <2>1, <2>2
<1>5. ServedInv'
  <2>1. CASE TinyAlive
    <3>1. backlog' = Append(backlog, Outer(c)) /\ c \in Direct
      BY <2>1 DEF ClientConnect, HInv, ShapeOK, ClientOK
    <3>2. Outer(c) \in Servable /\ \A d \in Relayed : Inner(d) # Outer(c)
      BY <3>1, ServableLinks, Links
    <3>3. backlog \in Seq(Servable)
      BY DEF HInv, ServedInv
    <3>4. backlog' \in Seq(Servable)
      BY <3>1, <3>2, <3>3
    <3>5. \A d \in Relayed : \A i, j \in DOMAIN backlog' :
              backlog'[i] = Inner(d) /\ backlog'[j] = Inner(d) => i = j
      <4> TAKE d \in Relayed
      <4>1. \A i, j \in DOMAIN backlog : backlog[i] = Inner(d) /\ backlog[j] = Inner(d) => i = j
        BY DEF HInv, ServedInv
      <4>2. \A i \in DOMAIN backlog' : backlog'[i] = Inner(d) => i \in DOMAIN backlog /\ backlog'[i] = backlog[i]
        BY <3>1, <3>2, <3>3, AppendProperties
      <4> QED BY <4>1, <4>2
    <3>6. tiny.pc # "dead" /\ tiny' = tiny /\ thread' = thread
      BY <2>1 DEF ClientConnect, TinyAlive, serveVars
    <3> QED BY <1>4, <3>4, <3>5, <3>6 DEF HInv, ServedInv, Unconnected
  <2>2. CASE ~TinyAlive
    BY <1>4, <2>2 DEF HInv, ServedInv, ClientConnect, Unconnected, serveVars
  <2> QED BY <2>1, <2>2
<1>6. \A d \in Relayed : Untouched(d)
  BY <1>3, <1>4, ServableLinks DEF Untouched, D, ClientConnect, serveVars, Finished
<1> QED BY <1>1, <1>3, <1>5, <1>6, QuietStep, ServableLinks DEF ClientConnect, serveVars

-----------------------------------------------------------------------------
(* Tiny                                                                    *)

(* A step that neither takes nor gives up a connection, and sends nothing. *)
LEMMA TinyFrame ==
  ASSUME HInv, NEW t, TinyShape(t), tiny' = t, t.link = tiny.link,
         t.pc = "accept" <=> tiny.pc = "accept", t.pc = "dead" <=> tiny.pc = "dead",
         PipesOK(pipe'), \A l \in Link : Same(pipe, pipe', l),
         UNCHANGED <<backlog, sent, serveVars, request, client>>
  PROVE  HInv'
<1>1. ShapeOK'
  <2>1. PipeOK'
    BY DEF HInv, ShapeOK, PipeOK
  <2> QED BY <2>1 DEF HInv, ShapeOK, TinyOK, ThreadOK, ClientOK, serveVars
<1>2. ServedInv' /\ \A d \in Relayed : Finished(Inner(d)) => Finished(Inner(d))'
  BY ServedKept DEF HInv, serveVars, Unconnected
<1>3. \A d \in Client : Hears(d)
  <2> TAKE d \in Client
  <2>1. Same(pipe, pipe', Outer(d))
    BY Links
  <2> QED BY <2>1, HearsNothing DEF Same, D, HInv
<1>4. \A d \in Relayed : Untouched(d)
  <2> TAKE d \in Relayed
  <2>1. Same(pipe, pipe', Inner(d))
    BY Links, ServableLinks
  <2> QED BY <1>2, <1>3, <2>1, ServableLinks DEF Untouched, Same, D, serveVars
<1>5. cache' = cache /\ sent' = sent
  BY DEF serveVars
<1> QED BY <1>1, <1>2, <1>3, <1>4, <1>5, QuietStep, ServableLinks

LEMMA ErrorShape ==
  ASSUME NEW t, DOMAIN t = TinyFields, t.child # "run", NEW code \in {"400", "501", "404", "403"}
  PROVE  /\ TinyShape(TinyError(t, code)) /\ TinyError(t, code).link = t.link
         /\ TinyError(t, code).pc \notin {"accept", "dead"}
BY ErrorPages DEF TinyError, TinyShape, TinyFields

(* Tiny reads a line: it waits for more, goes on, refuses or gives up.     *)
AfterLine(t, u) ==
  \/ u = t
  \/ \E code \in {"400", "501"} : u = TinyError(t, code)
  \/ \E pc \in {"headers", "uri", "close"} : \E uri, rio :
        u = [t EXCEPT !.pc = pc, !.uri = uri, !.rio = rio]

LEMMA ReadShape ==
  ASSUME NEW t, TinyShape(t), t.pc \in {"request", "headers"}, NEW u, AfterLine(t, u)
  PROVE  TinyShape(u) /\ u.link = t.link /\ u.pc \notin {"accept", "dead"}
<1>1. DOMAIN t = TinyFields /\ t.child # "run"
  BY DEF TinyShape
<1>2. CASE u = t
  BY <1>2
<1>3. ASSUME NEW code \in {"400", "501"}, u = TinyError(t, code)
      PROVE  TinyShape(u) /\ u.link = t.link /\ u.pc \notin {"accept", "dead"}
  <2>1. PICK any \in {"400", "501", "404", "403"} : any = code
    OBVIOUS
  <2>2. /\ TinyShape(TinyError(t, any)) /\ TinyError(t, any).link = t.link
        /\ TinyError(t, any).pc \notin {"accept", "dead"}
    BY <1>1, ErrorShape, Zenon
  <2> QED BY <1>3, <2>1, <2>2, Zenon
<1>4. ASSUME NEW pc \in {"headers", "uri", "close"}, NEW uri, NEW rio,
             u = [t EXCEPT !.pc = pc, !.uri = uri, !.rio = rio]
      PROVE  TinyShape(u) /\ u.link = t.link /\ u.pc \notin {"accept", "dead"}
  <2>1. DOMAIN u = TinyFields /\ u.pc = pc /\ u.link = t.link /\ u.child = t.child
    BY <1>1, <1>4 DEF TinyFields
  <2> QED BY <1>1, <2>1 DEF TinyShape
<1> QED BY <1>2, <1>3, <1>4, Zenon DEF AfterLine

LEMMA TinyReadKeeps ==
  ASSUME HInv, TinyReadRequest \/ TinyReadHeaders, UNCHANGED <<serveVars, request, client>>
  PROVE  HInv'
<1> DEFINE r == rio_readlineb(tiny.rio, pipe[Up(tiny.link)], MAXLINE)
           t == [tiny EXCEPT !.rio = r.rp]
<1>1. /\ tiny.pc \in {"request", "headers"}
      /\ pipe' = [pipe EXCEPT ![Up(tiny.link)] = r.p]
      /\ UNCHANGED <<backlog, sent>>
  BY DEF TinyReadRequest, TinyReadHeaders
<1>2. \/ tiny' = t
      \/ tiny' = ParsedRequest(t, r.rp.usr)
      \/ tiny' = TinyError(t, "400")
      \/ tiny' = [t EXCEPT !.pc = "close"]
      \/ tiny' = [t EXCEPT !.pc = "uri"]
      \/ tiny' = [t EXCEPT !.rio = Restart(@)]
  BY DEF TinyReadRequest, TinyReadHeaders
<1> HIDE DEF r
<1>3. PICK u : u = tiny'
  OBVIOUS
<1>4. TinyShape(t) /\ t.pc = tiny.pc /\ t.link = tiny.link /\ DOMAIN t = TinyFields
  BY DEF HInv, ShapeOK, TinyOK, TinyShape, TinyFields
<1>5. AfterLine(t, u)
  <2> HIDE DEF t
  <2>1. \A pc, rio : /\ [t EXCEPT !.pc = pc] = [t EXCEPT !.pc = pc, !.uri = t.uri, !.rio = t.rio]
                    /\ t.pc = pc => [t EXCEPT !.rio = rio] = [t EXCEPT !.pc = pc, !.uri = t.uri, !.rio = rio]
    BY <1>4 DEF TinyFields
  <2>2. CASE u = ParsedRequest(t, r.rp.usr)
    BY <2>2 DEF ParsedRequest, AfterLine
  <2>3. CASE u = t \/ u = TinyError(t, "400")
    BY <2>3 DEF AfterLine
  <2>4. ASSUME NEW pc \in {"close", "uri"}, u = [t EXCEPT !.pc = pc] PROVE AfterLine(t, u)
    <3>1. u = [t EXCEPT !.pc = pc, !.uri = t.uri, !.rio = t.rio]
      BY <2>1, <2>4, Zenon
    <3>2. pc \in {"headers", "uri", "close"}
      OBVIOUS
    <3> QED BY <3>1, <3>2, Zenon DEF AfterLine
  <2>5. ASSUME u = [t EXCEPT !.rio = Restart(@)], t.pc = "headers" PROVE AfterLine(t, u)
    <3>1. u = [t EXCEPT !.pc = "headers", !.uri = t.uri, !.rio = Restart(t.rio)]
      BY <2>1, <2>5, Zenon
    <3>2. "headers" \in {"headers", "uri", "close"}
      OBVIOUS
    <3> QED BY <3>1, <3>2, Zenon DEF AfterLine
  <2>6. tiny' = [t EXCEPT !.rio = Restart(@)] => t.pc = "headers" \/ AfterLine(t, u)
    <3>1. CASE TinyReadHeaders
      BY <1>4, <3>1 DEF TinyReadHeaders
    <3>2. CASE TinyReadRequest
      <4>1. \/ u = t
            \/ u = ParsedRequest(t, r.rp.usr)
            \/ u = [t EXCEPT !.pc = "close"]
        BY <1>3, <3>2 DEF TinyReadRequest, r, t
      <4> QED BY <2>2, <2>3, <2>4, <4>1
    <3> QED BY <3>1, <3>2
  <2> QED BY <1>2, <1>3, <2>2, <2>3, <2>4, <2>5, <2>6
<1> HIDE DEF t
<1>6. TinyShape(u) /\ u.link = t.link /\ u.pc \notin {"accept", "dead"}
  BY <1>1, <1>4, <1>5, ReadShape
<1>7. tiny.link \in Link
  BY <1>1, ServableLinks DEF HInv, ServedInv
<1>8. PipesOK(pipe') /\ \A l \in Link : Same(pipe, pipe', l)
  <2> DEFINE qs == [pipe EXCEPT ![Up(tiny.link)] = r.p]
  <2>1. PipesOK(qs) /\ \A l \in Link : Same(pipe, qs, l)
    BY <1>7, ReadUp DEF HInv, ShapeOK, PipeOK
  <2> QED BY <1>1, <2>1
<1>9. u.link = tiny.link
  BY <1>4, <1>6
<1> QED BY <1>1, <1>3, <1>6, <1>8, <1>9, TinyFrame

(* It looks at the file.                                                   *)
LEMMA ParseUriShape ==
  ASSUME TinyShape(tiny), tiny.pc = "uri", TinyParseUri
  PROVE  /\ TinyShape(tiny') /\ tiny'.link = tiny.link /\ tiny'.pc \notin {"accept", "dead"}
         /\ UNCHANGED <<pipe, backlog, sent>>
<1>1. PICK u : /\ u = parse_uri(tiny.uri)
               /\ \/ \E code \in {"400", "404", "403"} : tiny' = TinyError(tiny, code)
                  \/ /\ u.file \in DOMAIN Mode
                     /\ \E next \in {"static", "dynamic"}, out \in {StaticHeader, DynamicHeader} :
                          tiny' = [tiny EXCEPT !.pc = "write", !.file = u.file,
                                               !.out = out, !.next = next]
  <2>1. parse_uri(tiny.uri).result \in {"error", "static", "dynamic"}
    BY DEF parse_uri
  <2> DEFINE u == parse_uri(tiny.uri)
  <2>2. \/ \E code \in {"400", "404", "403"} : tiny' = TinyError(tiny, code)
        \/ /\ u.file \in DOMAIN Mode
           /\ \E next \in {"static", "dynamic"}, out \in {StaticHeader, DynamicHeader} :
                tiny' = [tiny EXCEPT !.pc = "write", !.file = u.file, !.out = out, !.next = next]
    <3> HIDE DEF u
    <3>1. tiny' = CASE u.result = "error" -> TinyError(tiny, "400")
           [] u.result # "error" /\ u.file \notin DOMAIN Mode -> TinyError(tiny, "404")
           [] u.result = "static" /\ u.file \in DOMAIN Mode ->
                IF "read" \in Mode[u.file]
                THEN [tiny EXCEPT !.pc = "write", !.file = u.file,
                                  !.out = StaticHeader, !.next = "static"]
                ELSE TinyError(tiny, "403")
           [] u.result = "dynamic" /\ u.file \in DOMAIN Mode ->
                IF "run" \in Mode[u.file]
                THEN [tiny EXCEPT !.pc = "write", !.file = u.file,
                                  !.out = DynamicHeader, !.next = "dynamic"]
                ELSE TinyError(tiny, "403")
      BY DEF TinyParseUri, u
    <3>2. u.result \in {"error", "static", "dynamic"}
      BY <2>1 DEF u
    <3>3. CASE u.result = "error"
      BY <3>1, <3>3
    <3>4. CASE u.result # "error" /\ u.file \notin DOMAIN Mode
      BY <3>1, <3>4
    <3>5. CASE u.result = "static" /\ u.file \in DOMAIN Mode
      BY <3>1, <3>5
    <3>6. CASE u.result = "dynamic" /\ u.file \in DOMAIN Mode
      BY <3>1, <3>6
    <3> QED BY <3>2, <3>3, <3>4, <3>5, <3>6
  <2> QED BY <2>2
<1>2. CASE \E code \in {"400", "404", "403"} : tiny' = TinyError(tiny, code)
  <2>1. PICK code \in {"400", "404", "403"} : tiny' = TinyError(tiny, code)
    BY <1>2
  <2>2. DOMAIN tiny = TinyFields /\ tiny.child # "run"
    BY DEF TinyShape
  <2>3. /\ TinyShape(TinyError(tiny, code)) /\ TinyError(tiny, code).link = tiny.link
        /\ TinyError(tiny, code).pc \notin {"accept", "dead"}
    BY <2>2, ErrorShape
  <2> QED BY <2>1, <2>3 DEF TinyParseUri
<1>3. ASSUME u.file \in DOMAIN Mode, NEW next \in {"static", "dynamic"},
             NEW out \in {StaticHeader, DynamicHeader},
             tiny' = [tiny EXCEPT !.pc = "write", !.file = u.file, !.out = out, !.next = next]
      PROVE  /\ TinyShape(tiny') /\ tiny'.link = tiny.link /\ tiny'.pc \notin {"accept", "dead"}
             /\ UNCHANGED <<pipe, backlog, sent>>
  <2>1. out \in Bytes
    BY Responses
  <2> QED BY <1>3, <2>1 DEF TinyShape, TinyFields, TinyParseUri
<1> QED BY <1>1, <1>2, <1>3

(* The steps of Tiny and its child between their reads and writes.         *)
LEMMA TinyQuietKeeps ==
  ASSUME HInv, UNCHANGED <<serveVars, request, client>>,
         \/ TinyParseUri \/ TinyWriteFails \/ TinyMapFile \/ TinyFork
         \/ CgiExit \/ TinyWait
  PROVE  HInv'
<1>0. TinyShape(tiny)
  BY DEF HInv, ShapeOK, TinyOK
<1>1. /\ TinyShape(tiny') /\ tiny'.link = tiny.link
      /\ tiny.pc \notin {"accept", "dead"} /\ tiny'.pc \notin {"accept", "dead"}
      /\ UNCHANGED <<pipe, backlog, sent>>
  <2>1. CASE TinyParseUri
    <3>1. tiny.pc = "uri"
      BY <2>1 DEF TinyParseUri
    <3> QED BY <1>0, <2>1, <3>1, ParseUriShape
  <2>2. CASE TinyWriteFails
    BY <1>0, <2>2 DEF TinyWriteFails, TinyShape, TinyFields
  <2>3. CASE TinyMapFile
    <3>1. tiny.file \in DOMAIN Mode /\ Content[tiny.file] \in Bytes /\ tiny.pc = "static"
      BY <1>0, <2>3, Responses DEF TinyMapFile, TinyShape
    <3>2. PICK out \in Bytes : out = Content[tiny.file]
      BY <3>1
    <3>3. \/ tiny' = [tiny EXCEPT !.pc = "write", !.out = out, !.next = "close"]
          \/ tiny' = [tiny EXCEPT !.pc = "close"]
      BY <2>3, <3>2 DEF TinyMapFile
    <3>4. UNCHANGED <<pipe, backlog, sent>>
      BY <2>3 DEF TinyMapFile
    <3>5. PICK u : u = tiny'
      OBVIOUS
    <3>6. DOMAIN u = TinyFields /\ u.link = tiny.link /\ u.child = tiny.child
          /\ \/ u.pc = "write" /\ u.out \in Bytes /\ u.next = "close"
             \/ u.pc = "close"
      BY <1>0, <3>1, <3>3, <3>5 DEF TinyShape, TinyFields
    <3> QED BY <1>0, <3>1, <3>4, <3>5, <3>6 DEF TinyShape
  <2>4. CASE TinyFork
    <3>1. tiny.file \in DOMAIN Mode /\ CgiOutput(tiny.file) \in Bytes /\ tiny.pc = "dynamic"
      BY <1>0, <2>4, Responses DEF TinyFork, TinyShape
    <3>2. PICK out \in Bytes : out = CgiOutput(tiny.file)
      BY <3>1
    <3>3. \/ tiny' = [tiny EXCEPT !.pc = "wait", !.child = "run", !.out = out]
          \/ tiny' = [tiny EXCEPT !.pc = "close"]
      BY <2>4, <3>2 DEF TinyFork
    <3>4. UNCHANGED <<pipe, backlog, sent>>
      BY <2>4 DEF TinyFork
    <3>5. PICK u : u = tiny'
      OBVIOUS
    <3>6. DOMAIN u = TinyFields /\ u.link = tiny.link 
          /\ \/ u.pc = "wait" /\ u.out \in Bytes /\ u.child = "run"
             \/ u.pc = "close" /\ u.child = tiny.child
      BY <1>0, <3>1, <3>3, <3>5 DEF TinyShape, TinyFields
    <3> QED BY <1>0, <3>1, <3>4, <3>5, <3>6 DEF TinyShape
  <2>5. CASE CgiExit
    BY <1>0, <2>5, NoBytes DEF CgiExit, TinyShape, TinyFields
  <2>6. CASE TinyWait
    BY <1>0, <2>6 DEF TinyWait, TinyShape, TinyFields
  <2> QED BY <2>1, <2>2, <2>3, <2>4, <2>5, <2>6
<1>2. PipesOK(pipe') /\ \A l \in Link : Same(pipe, pipe', l)
  BY <1>1 DEF HInv, ShapeOK, PipeOK, Same
<1>3. PICK t : t = tiny'
  OBVIOUS
<1>4. TinyShape(t) /\ t.link = tiny.link /\ t.pc \notin {"accept", "dead"}
  BY <1>1, <1>3
<1> QED BY <1>1, <1>2, <1>3, <1>4, TinyFrame

(* A step that takes or gives up connections, and sends nothing.           *)
LEMMA ServerFrame ==
  ASSUME HInv, PipesOK(pipe'), TinyShape(tiny'), ServedInv',
         \A l \in Link : /\ pipe'[Down(l)].data = pipe[Down(l)].data
                         /\ pipe'[Down(l)].gone = pipe[Down(l)].gone,
         \A d \in Relayed :
           /\ pipe'[Down(Inner(d))].fin =>
                pipe[Down(Inner(d))].fin \/ (~Unconnected(d) /\ Finished(Inner(d))')
           /\ Finished(Inner(d)) => Finished(Inner(d))',
         UNCHANGED <<sent, serveVars, request, client>>
  PROVE  HInv'
<1>1. ShapeOK'
  <2>1. PipeOK'
    BY DEF HInv, ShapeOK, PipeOK
  <2> QED BY <2>1 DEF HInv, ShapeOK, TinyOK, ThreadOK, ClientOK, serveVars
<1>2. \A d \in Client : Hears(d)
  BY HearsNothing, Links DEF D, HInv
<1>3. \A d \in Relayed : Untouched(d)
  <2> TAKE d \in Relayed
  <2>1. /\ pipe'[Down(Inner(d))].data = pipe[Down(Inner(d))].data
        /\ pipe'[Down(Inner(d))].gone = pipe[Down(Inner(d))].gone
    BY Links, ServableLinks
  <2> QED BY <1>2, <2>1, ServableLinks DEF Untouched, D, serveVars
<1>4. cache' = cache /\ sent' = sent
  BY DEF serveVars
<1> QED BY <1>1, <1>2, <1>3, <1>4, QuietStep, ServableLinks

LEMMA IdleLink == \A c : TinyIdle.link # Inner(c)
BY DEF TinyIdle, Inner, Outer

LEMMA AcceptKeeps ==
  ASSUME HInv, TinyAccept, UNCHANGED <<serveVars, request, client>>
  PROVE  HInv'
<1>1. /\ tiny' = [TinyIdle EXCEPT !.pc = "request", !.link = Head(backlog)]
      /\ tiny.pc = "accept" /\ backlog # <<>> /\ backlog' = Tail(backlog)
      /\ pipe' = pipe /\ sent' = sent
  BY DEF TinyAccept
<1>2. TinyShape(tiny') /\ tiny'.pc = "request" /\ tiny'.link = Head(backlog)
  BY <1>1 DEF TinyShape, TinyFields, TinyIdle
<1>3. backlog \in Seq(Servable)
  BY DEF HInv, ServedInv
<1>4. /\ backlog' \in Seq(Servable) /\ Head(backlog) \in Servable
      /\ DOMAIN backlog = 1 .. Len(backlog) /\ Len(backlog) \in Nat
      /\ 1 \in DOMAIN backlog /\ Head(backlog) = backlog[1]
      /\ DOMAIN backlog' = 1 .. Len(backlog) - 1
      /\ \A i \in DOMAIN backlog' : i + 1 \in DOMAIN backlog /\ backlog'[i] = backlog[i + 1]
  BY <1>1, <1>3, HeadTailProperties
<1>5. \A l : Waits(l)' \/ l = Head(backlog) => Waits(l)
  BY <1>4 DEF Waits
<1>6. \A c \in Relayed :
        /\ \A i, j \in DOMAIN backlog' : backlog'[i] = Inner(c) /\ backlog'[j] = Inner(c) => i = j
        /\ Head(backlog) = Inner(c) => ~Waits(Inner(c))'
  <2> TAKE c \in Relayed
  <2>1. \A i, j \in DOMAIN backlog : backlog[i] = Inner(c) /\ backlog[j] = Inner(c) => i = j
    BY DEF HInv, ServedInv
  <2>2. ASSUME NEW i \in DOMAIN backlog', NEW j \in DOMAIN backlog',
               backlog'[i] = Inner(c), backlog'[j] = Inner(c)
        PROVE  i = j
    <3>1. i + 1 = j + 1
      BY <1>4, <2>1, <2>2
    <3> QED BY <1>4, <3>1
  <2>3. ASSUME Head(backlog) = Inner(c), NEW i \in DOMAIN backlog', backlog'[i] = Inner(c)
        PROVE  FALSE
    <3>1. i + 1 = 1
      BY <1>4, <2>1, <2>3
    <3> QED BY <1>4, <3>1
  <2> QED BY <2>2, <2>3 DEF Waits
<1>7. \A c \in Relayed : tiny.link # Inner(c) /\ (Unconnected(c) => ~Waits(Inner(c)))
  BY <1>1, IdleLink DEF HInv, ServedInv
<1>8. ServedInv'
  <2>1. \A c \in Relayed :
       /\ \A i, j \in DOMAIN backlog' : backlog'[i] = Inner(c) /\ backlog'[j] = Inner(c) => i = j
       /\ tiny'.link = Inner(c) => ~Waits(Inner(c))'
       /\ Unconnected(c)' => ~Waits(Inner(c))' /\ tiny'.link # Inner(c)
    BY <1>2, <1>5, <1>6, <1>7 DEF Unconnected, serveVars
  <2> QED BY <1>2, <1>4, <2>1 DEF ServedInv
<1>9. \A d \in Relayed : Finished(Inner(d)) => Finished(Inner(d))'
  BY <1>2, <1>5 DEF Finished
<1> QED BY <1>1, <1>2, <1>8, <1>9, ServerFrame DEF HInv, ShapeOK, PipeOK

LEMMA CloseKeeps ==
  ASSUME HInv, TinyClose, UNCHANGED <<serveVars, request, client>>
  PROVE  HInv'
<1>1. /\ tiny' = TinyIdle /\ tiny.pc = "close" /\ backlog' = backlog /\ sent' = sent
      /\ pipe' = ClosedBy(pipe, Up(tiny.link), Down(tiny.link), FALSE)
  BY DEF TinyClose, ClosedByServer
<1>2. TinyShape(tiny') /\ tiny'.pc = "accept" /\ tiny'.link = TinyIdle.link
  BY <1>1 DEF TinyShape, TinyFields, TinyIdle
<1>3. tiny.link \in Link
  BY <1>1, ServableLinks DEF HInv, ServedInv
<1>4. /\ PipesOK(pipe') /\ pipe'[Down(tiny.link)].data = pipe[Down(tiny.link)].data
      /\ pipe'[Down(tiny.link)].gone = pipe[Down(tiny.link)].gone
      /\ \A l \in Link \ {tiny.link} : Same(pipe, pipe', l)
  <2>1. PICK k \in Link, abort \in BOOLEAN : k = tiny.link /\ abort = FALSE
    BY <1>3
  <2> DEFINE qs == ClosedBy(pipe, Up(k), Down(k), abort)
  <2>2. /\ PipesOK(qs) /\ qs[Down(k)].data = pipe[Down(k)].data
        /\ qs[Down(k)].gone = pipe[Down(k)].gone
        /\ \A l \in Link \ {k} : Same(pipe, qs, l)
    BY ServerCloses DEF HInv, ShapeOK, PipeOK
  <2> QED BY <1>1, <2>1, <2>2
<1>5. \A c \in Relayed : TinyIdle.link # Inner(c)
  BY IdleLink
<1>6. \A l : Waits(l)' <=> Waits(l)
  BY <1>1 DEF Waits
<1>7. ServedInv'
  BY <1>1, <1>2, <1>5, <1>6 DEF HInv, ServedInv, Unconnected, serveVars
<1>8. \A d \in Relayed : Finished(Inner(d)) => Finished(Inner(d))'
  BY <1>2, <1>5, <1>6 DEF Finished
<1>9. ASSUME NEW d \in Relayed, pipe'[Down(Inner(d))].fin
      PROVE  pipe[Down(Inner(d))].fin \/ (~Unconnected(d) /\ Finished(Inner(d))')
  <2>1. CASE Inner(d) = tiny.link
    BY <1>2, <1>5, <1>6, <2>1 DEF HInv, ServedInv, Finished
  <2>2. CASE Inner(d) # tiny.link
    BY <1>4, <1>9, <2>2, Links, ServableLinks DEF Same
  <2> QED BY <2>1, <2>2
<1>10. \A l \in Link : /\ pipe'[Down(l)].data = pipe[Down(l)].data
                       /\ pipe'[Down(l)].gone = pipe[Down(l)].gone
  BY <1>4 DEF Same
<1> QED BY <1>1, <1>2, <1>4, <1>7, <1>8, <1>9, <1>10, ServerFrame

LEMMA KilledKeeps ==
  ASSUME HInv, TinyKilled, UNCHANGED <<serveVars, request, client>>
  PROVE  HInv'
<1> DEFINE lost == {backlog[i] : i \in DOMAIN backlog}
           after(l, abort) == ClosedBy(pipe, Up(l), Down(l), abort)
           left == after(tiny.link, FALSE)
<1>1. /\ tiny' = [tiny EXCEPT !.pc = "dead", !.out = <<>>]
      /\ backlog' = <<>> /\ sent' = sent /\ tiny.pc = "write"
      /\ pipe' = [p \in DOMAIN pipe |-> IF p[1] = tiny.link THEN left[p]
                                        ELSE IF p[1] \in lost THEN after(p[1], TRUE)[p]
                                        ELSE pipe[p]]
  BY DEF TinyKilled, ClosedByServer
<1>2. TinyShape(tiny') /\ tiny'.pc = "dead" /\ tiny'.link = tiny.link
  BY <1>1 DEF HInv, ShapeOK, TinyOK, TinyShape, TinyFields
<1>3. tiny.link \in Link /\ tiny.link \in Servable
  BY <1>1, ServableLinks DEF HInv, ServedInv
<1>4. PipesOK(pipe)
  BY DEF HInv, ShapeOK, PipeOK
<1>5. ASSUME NEW l \in Link, NEW abort \in BOOLEAN
      PROVE  /\ PipesOK(after(l, abort)) /\ after(l, abort)[Down(l)].data = pipe[Down(l)].data
             /\ after(l, abort)[Down(l)].gone = pipe[Down(l)].gone
  BY <1>4, ServerCloses
<1>6. TRUE \in BOOLEAN /\ FALSE \in BOOLEAN
  OBVIOUS
<1>7. \A l \in Link : pipe'[Down(l)] = IF l = tiny.link THEN left[Down(l)]
                                      ELSE IF l \in lost THEN after(l, TRUE)[Down(l)]
                                      ELSE pipe[Down(l)]
  <2> HIDE DEF lost, left, after
  <2> TAKE l \in Link
  <2>1. Down(l) \in DOMAIN pipe /\ Down(l)[1] = l
    BY <1>4, Ends DEF PipesOK, Down
  <2> QED BY <1>1, <2>1
<1>8. DOMAIN pipe' = DOMAIN pipe
  BY <1>1
<1> HIDE DEF lost, left, after
<1>9. \A l \in Link : /\ pipe'[Down(l)].data = pipe[Down(l)].data
                      /\ pipe'[Down(l)].gone = pipe[Down(l)].gone
                      /\ pipe'[Down(l)] \in DownPipe /\ Len(pipe'[Down(l)].data) <= SOCKBUF
  <2> TAKE l \in Link
  <2>1. CASE l = tiny.link
    BY <1>3, <1>5, <1>6, <1>7, <2>1 DEF PipesOK, left
  <2>2. CASE l # tiny.link /\ l \in lost
    BY <1>5, <1>6, <1>7, <2>2 DEF PipesOK
  <2>3. CASE l # tiny.link /\ l \notin lost
    BY <1>4, <1>7, <2>3 DEF PipesOK
  <2> QED BY <2>1, <2>2, <2>3
<1>10. PipesOK(pipe')
  BY <1>4, <1>8, <1>9 DEF PipesOK
<1>11. \A l : ~Waits(l)'
  BY <1>1 DEF Waits
<1>12. \A d \in Relayed : Finished(Inner(d))'
  BY <1>2, <1>11 DEF Finished
<1>13. ServedInv'
  <2>1. \A c \in Relayed :
       /\ \A i, j \in DOMAIN backlog' : backlog'[i] = Inner(c) /\ backlog'[j] = Inner(c) => i = j
       /\ tiny'.link = Inner(c) => ~Waits(Inner(c))'
       /\ Unconnected(c)' => ~Waits(Inner(c))' /\ tiny'.link # Inner(c)
    BY <1>1, <1>2, <1>11 DEF HInv, ServedInv, Unconnected, serveVars
  <2> QED BY <1>1, <1>2, <1>3, <2>1, EmptySeq DEF ServedInv
<1>14. ASSUME NEW d \in Relayed, pipe'[Down(Inner(d))].fin
       PROVE  pipe[Down(Inner(d))].fin \/ (~Unconnected(d) /\ Finished(Inner(d))')
  <2>1. CASE Inner(d) = tiny.link \/ Inner(d) \in lost
    <3>1. Waits(Inner(d)) \/ tiny.link = Inner(d)
      BY <2>1 DEF Waits, lost
    <3> QED BY <1>12, <3>1 DEF HInv, ServedInv
  <2>2. CASE Inner(d) # tiny.link /\ Inner(d) \notin lost
    BY <1>7, <1>14, <2>2, Links, ServableLinks
  <2> QED BY <2>1, <2>2
<1> QED BY <1>1, <1>2, <1>9, <1>10, <1>12, <1>13, <1>14, ServerFrame

(* Bytes that are put behind what a thread has read and what is coming.    *)
LEMMA Longer ==
  ASSUME NEW r \in Bytes, NEW u \in Bytes, NEW f \in Bytes, NEW d \in Bytes, NEW b \in Bytes
  PROVE  /\ Then(u, Then(f, Then(d, b))) = Then(Then(u, Then(f, d)), b)
         /\ Then(r, Then(u, Then(f, Then(d, b)))) = Then(Then(r, Then(u, Then(f, d))), b)
<1>1. Then(d, b) \in Bytes /\ Then(f, d) \in Bytes
  BY ThenBytes
<1>2. Then(u, Then(f, d)) \in Bytes
  BY <1>1, ThenBytes
<1>3. Then(u, Then(f, Then(d, b))) = Then(u, Then(Then(f, d), b))
  BY Associates
<1>4. Then(u, Then(Then(f, d), b)) = Then(Then(u, Then(f, d)), b)
  BY <1>1, Associates
<1>5. Then(r, Then(Then(u, Then(f, d)), b)) = Then(Then(r, Then(u, Then(f, d))), b)
  BY <1>2, Associates
<1> QED BY <1>3, <1>4, <1>5

(* What is behind the bytes of a connection, once b is written on l.       *)
LEMMA SendRelayed ==
  ASSUME ShapeOK, ShapeOK', NEW c \in Relayed, NEW b \in Bytes, RelayInv(c), FreshInv(c),
         ~Finished(Inner(c)), ~Unconnected(c), thread'[c] = thread[c],
         D(Inner(c))'.gone = D(Inner(c)).gone, D(Inner(c))'.fin = D(Inner(c)).fin,
         ~D(Inner(c)).gone => D(Inner(c))'.data = Then(D(Inner(c)).data, b),
         sent'[Inner(c)] = Then(sent[Inner(c)], b),
         Told(c)' = Told(c), D(Outer(c))'.gone = D(Outer(c)).gone
  PROVE  FreshInv(c)' /\ RelayInv(c)'
<1>1. ~Unconnected(c)' /\ (Relaying(c)' <=> Relaying(c)) /\ Out(c)' = Out(c)
  BY DEF Unconnected, Relaying, Out
<1>2. ~(thread[c].pc = "insert" /\ thread[c].cachable)
  BY DEF RelayInv
<1>3. ASSUME Relaying(c)
      PROVE  /\ ~D(Inner(c)).gone
             /\ thread[c].cachable =>
                  Then(Then(thread[c].obj, thread[c].part), Coming(c)') = sent'[Inner(c)]
             /\ ~D(Outer(c)).gone => Then(Then(Told(c), Out(c)), Coming(c)') = sent'[Inner(c)]
  <2>1. ~D(Inner(c)).gone /\ ~D(Inner(c)).fin
    BY <1>3 DEF RelayInv
  <2>2. PICK u \in Bytes, f \in Bytes, d \in Bytes :
           u = thread[c].srio.usr /\ f = thread[c].srio.buf /\ d = D(Inner(c)).data
    BY StreamTypes, ServableLinks
  <2>3. Coming(c) = Then(u, Then(f, d)) /\ Coming(c)' = Then(u, Then(f, Then(d, b)))
    BY <2>1, <2>2 DEF Coming
  <2>4. PICK x \in Bytes, y \in Bytes :
           x = Then(thread[c].obj, thread[c].part) /\ y = Then(Told(c), Out(c))
    BY StreamTypes, ServableLinks, ThenBytes
  <2>5. /\ Then(x, Coming(c)') = Then(Then(x, Coming(c)), b)
        /\ Then(y, Coming(c)') = Then(Then(y, Coming(c)), b)
    <3>1. \A r \in Bytes : Then(r, Then(u, Then(f, Then(d, b)))) = Then(Then(r, Then(u, Then(f, d))), b)
      <4> TAKE r \in Bytes
      <4> QED BY Longer
    <3> QED BY <2>3, <3>1, Zenon
  <2>6. /\ thread[c].cachable => Then(x, Coming(c)) = sent[Inner(c)]
        /\ ~D(Outer(c)).gone => Then(y, Coming(c)) = sent[Inner(c)]
    BY <1>3, <2>4 DEF RelayInv
  <2> QED BY <2>1, <2>4, <2>5, <2>6
<1>4. Relaying(c) => ~D(Inner(c)).fin
  BY DEF RelayInv
<1>5. FreshInv(c)'
  BY <1>1 DEF FreshInv
<1>6. Relaying(c)' =>
       /\ ~D(Inner(c))'.gone
       /\ D(Inner(c))'.fin => Finished(Inner(c))'
       /\ thread'[c].pc # "reply" => thread'[c].part = <<>>
       /\ thread'[c].pc = "reply" => thread'[c].srio.usr = <<>>
       /\ thread'[c].cachable =>
            Then(Then(thread'[c].obj, thread'[c].part), Coming(c)') = sent'[Inner(c)]
       /\ ~D(Outer(c))'.gone => Then(Then(Told(c)', Out(c)'), Coming(c)') = sent'[Inner(c)]
  BY <1>1, <1>3, <1>4 DEF RelayInv
<1> QED BY <1>2, <1>5, <1>6 DEF RelayInv

LEMMA SendDirect ==
  ASSUME ShapeOK, ShapeOK', NEW c \in Direct, NEW b \in Bytes, DirectInv(c),
         client'[c].got = client[c].got, D(Outer(c))'.gone = D(Outer(c)).gone,
         D(Outer(c))'.data = IF D(Outer(c)).gone THEN D(Outer(c)).data
                             ELSE Then(D(Outer(c)).data, b),
         sent'[Outer(c)] = Then(sent[Outer(c)], b)
  PROVE  DirectInv(c)'
<1>1. PICK got \in Bytes, data \in Bytes, all \in Bytes :
         got = client[c].got /\ data = D(Outer(c)).data /\ all = sent[Outer(c)]
  BY StreamTypes, ServableLinks
<1>2. Told(c) = Then(got, data) /\ Told(c) \in Bytes
  BY <1>1, ThenBytes DEF Told
<1>3. Then(all, b) \in Bytes /\ IsPrefix(all, Then(all, b))
  BY ThenBytes, PrefixThen
<1>4. CASE D(Outer(c)).gone
  <2>1. Told(c)' = Told(c) /\ IsPrefix(Told(c), all)
    BY <1>1, <1>4 DEF Told, DirectInv
  <2>2. IsPrefix(Told(c), Then(all, b))
    BY <1>2, <1>3, <2>1, PrefixOrder
  <2> QED BY <1>1, <1>4, <2>1, <2>2 DEF DirectInv
<1>5. CASE ~D(Outer(c)).gone
  <2>1. Told(c)' = Then(got, Then(data, b)) /\ Told(c) = all
    BY <1>1, <1>5 DEF Told, DirectInv
  <2>2. Told(c)' = Then(all, b)
    <3>1. Then(Then(got, data), b) = Then(got, Then(data, b))
      BY Associates, Zenon
    <3> QED BY <1>2, <2>1, <3>1, Zenon
  <2>3. IsPrefix(Then(all, b), Then(all, b))
    BY <1>3, PrefixOrder
  <2> QED BY <1>1, <2>2, <2>3 DEF DirectInv
<1> QED BY <1>4, <1>5

(* Tiny or its child writes.                                               *)
LEMMA SendKeepsAll ==
  ASSUME HInv, tiny.pc \in {"write", "wait"},
         NEW n \in WriteSizes(pipe, Down(tiny.link), tiny.out),
         pipe' = Written(pipe, Down(tiny.link), SubSeq(tiny.out, 1, n)),
         sent' = [sent EXCEPT ![tiny.link] = @ \o SubSeq(tiny.out, 1, n)],
         TinyShape(tiny'), tiny'.link = tiny.link, tiny'.pc \notin {"accept", "dead"},
         UNCHANGED <<backlog, serveVars, request, client>>
  PROVE  HInv'
<1>1. PICK l \in Servable : l = tiny.link
  BY DEF HInv, ServedInv
<1>2. l \in Link /\ PipesOK(pipe) /\ tiny.out \in Bytes
  BY ServableLinks DEF HInv, ShapeOK, PipeOK, TinyOK, TinyShape
<1>3. /\ n \in 1 .. Len(tiny.out)
      /\ ~pipe[Down(l)].gone => Len(pipe[Down(l)].data) + n <= SOCKBUF
  BY <1>1, <1>2, Sizes
<1>4. PICK b \in Bytes : b = SubSeq(tiny.out, 1, n) /\ Len(b) = n
  <2>1. n \in 0 .. Len(tiny.out)
    BY <1>2, <1>3, Lengths
  <2> QED BY <1>2, <2>1, Cut
<1>5. /\ PipesOK(pipe')
      /\ D(l)'.data = IF D(l).gone THEN D(l).data ELSE Then(D(l).data, b)
      /\ D(l)'.fin = D(l).fin /\ D(l)'.gone = D(l).gone
      /\ \A k \in Link \ {l} : Same(pipe, pipe', k)
  <2> DEFINE qs == Written(pipe, Down(l), b)
  <2>1. ~pipe[Down(l)].gone => Len(pipe[Down(l)].data) + Len(b) <= SOCKBUF
    BY <1>3, <1>4
  <2>2. /\ PipesOK(qs)
        /\ qs[Down(l)].data = IF pipe[Down(l)].gone THEN pipe[Down(l)].data
                              ELSE Then(pipe[Down(l)].data, b)
        /\ qs[Down(l)].fin = pipe[Down(l)].fin /\ qs[Down(l)].gone = pipe[Down(l)].gone
        /\ \A k \in Link \ {l} : Same(pipe, qs, k)
    BY <1>2, <2>1, WriteDown
  <2>3. pipe' = qs
    BY <1>1, <1>4
  <2> HIDE DEF qs
  <2> QED BY <2>2, <2>3 DEF D
<1>6. /\ sent' \in [Link -> Bytes] /\ sent'[l] = Then(sent[l], b)
      /\ \A k \in Link \ {l} : sent'[k] = sent[k]
  <2>1. sent' = [sent EXCEPT ![l] = Then(@, b)] /\ sent \in [Link -> Bytes]
    BY <1>1, <1>4 DEF Then, HInv, ShapeOK, PipeOK
  <2>2. Then(sent[l], b) \in Bytes
    BY <1>2, <2>1, ThenBytes
  <2> QED BY <1>2, <2>1, <2>2
<1>7. ShapeOK'
  BY <1>5, <1>6 DEF HInv, ShapeOK, PipeOK, TinyOK, ThreadOK, ClientOK, serveVars
<1>8. ServedInv' /\ \A d \in Relayed : Finished(Inner(d)) => Finished(Inner(d))'
  BY ServedKept DEF HInv, serveVars, Unconnected
<1>9. Grows
  <2>1. \A k \in Link : IsPrefix(sent[k], sent'[k])
    <3> TAKE k \in Link
    <3>1. sent[k] \in Bytes
      BY DEF HInv, ShapeOK, PipeOK
    <3>2. CASE k = l
      <4>1. sent'[k] = Then(sent[k], b)
        BY <1>6, <3>2
      <4> QED BY <3>1, <4>1, PrefixThen
    <3>3. CASE k # l
      BY <1>6, <3>1, <3>3, PrefixOrder
    <3> QED BY <3>2, <3>3
  <2> QED BY <2>1 DEF Grows, serveVars
<1>10. \A d \in Client : Outer(d) # l => Hears(d)
  <2> TAKE d \in Client
  <2> HAVE Outer(d) # l
  <2>1. Same(pipe, pipe', Outer(d))
    BY <1>5, Links
  <2> QED BY <2>1, HearsNothing DEF Same, D, HInv
<1>11. ~Finished(l)
  BY <1>1 DEF Finished
<1>12. ASSUME NEW d \in Relayed PROVE FreshInv(d)' /\ RelayInv(d)' /\ AnswerInv(d)'
  <2>1. d \in Client /\ Outer(d) # l /\ thread'[d] = thread[d]
    BY <1>1, ServableLinks DEF serveVars
  <2>2. Hears(d)
    BY <1>10, <2>1
  <2>3. AnswerInv(d)'
    BY <1>7, <1>9, <2>1, <2>2, AnswersKept DEF HInv
  <2>4. CASE Inner(d) # l
    <3>1. Same(pipe, pipe', Inner(d)) /\ sent'[Inner(d)] = sent[Inner(d)]
      BY <1>5, <1>6, <2>1, <2>4, Links
    <3>2. Untouched(d)
      BY <1>8, <2>1, <2>2, <3>1 DEF Untouched, Same, D
    <3> QED BY <1>7, <2>3, <3>2, ThreadKept DEF HInv
  <2>5. CASE Inner(d) = l
    <3>1. ~Unconnected(d)
      BY <1>1, <2>5 DEF HInv, ServedInv
    <3>2. Same(pipe, pipe', Outer(d))
      BY <1>5, <2>1, Links
    <3>3. Told(d)' = Told(d) /\ D(Outer(d))'.gone = D(Outer(d)).gone
      BY <3>2 DEF Same, Told, D
    <3>4. ~D(Inner(d)).gone => D(Inner(d))'.data = Then(D(Inner(d)).data, b)
      BY <1>5, <2>5
    <3>5. /\ sent'[Inner(d)] = Then(sent[Inner(d)], b) /\ ~Finished(Inner(d))
          /\ D(Inner(d))'.gone = D(Inner(d)).gone /\ D(Inner(d))'.fin = D(Inner(d)).fin
      BY <1>5, <1>6, <1>11, <2>5
    <3>6. ShapeOK /\ FreshInv(d) /\ RelayInv(d)
      BY DEF HInv
    <3>7. FreshInv(d)' /\ RelayInv(d)'
      BY <1>7, <2>1, <3>1, <3>3, <3>4, <3>5, <3>6, SendRelayed
    <3> QED BY <2>3, <3>7
  <2> QED BY <2>4, <2>5
<1>13. CacheInv'
  <2>1. \A d \in Relayed : Finished(Inner(d)) => sent'[Inner(d)] = sent[Inner(d)]
    BY <1>6, <1>11, Links, ServableLinks
  <2> QED BY <1>8, <2>1, CacheKept DEF HInv, serveVars
<1>14. ASSUME NEW d \in Direct PROVE DirectInv(d)'
  <2>1. d \in Client /\ Outer(d) \in Link
    BY ServableLinks, Links
  <2>2. CASE Outer(d) # l
    BY <1>6, <1>7, <1>10, <2>1, <2>2, DirectKept DEF HInv
  <2>3. CASE Outer(d) = l
    BY <1>5, <1>6, <1>7, <2>3, SendDirect DEF HInv
  <2> QED BY <2>2, <2>3
<1> QED BY <1>7, <1>8, <1>12, <1>13, <1>14 DEF HInv

LEMMA TinyWriteKeeps ==
  ASSUME HInv, TinyWrite \/ CgiWrite, UNCHANGED <<serveVars, request, client>>
  PROVE  HInv'
<1>1. TinyShape(tiny)
  BY DEF HInv, ShapeOK, TinyOK
<1>2. tiny.pc \in {"write", "wait"} /\ tiny.out \in Bytes
  <2>1. tiny.pc = "write" \/ tiny.child = "run"
    BY Zenon DEF TinyWrite, CgiWrite
  <2> QED BY <1>1, <2>1 DEF TinyShape
<1>3. PICK n \in WriteSizes(pipe, Down(tiny.link), tiny.out) :
         /\ pipe' = Written(pipe, Down(tiny.link), SubSeq(tiny.out, 1, n))
         /\ sent' = [sent EXCEPT ![tiny.link] = @ \o SubSeq(tiny.out, 1, n)]
         /\ \/ /\ tiny.pc = "write"
               /\ tiny' = [tiny EXCEPT !.out = Drop(@, n),
                                       !.pc = IF n = Len(tiny.out) THEN tiny.next ELSE @]
            \/ /\ tiny.child = "run"
               /\ tiny' = [tiny EXCEPT !.out = Drop(@, n)]
  BY DEF TinyWrite, CgiWrite
<1>4. PICK rest \in Bytes : rest = Drop(tiny.out, n)
  <2>1. tiny.link \in Link /\ PipesOK(pipe)
    BY <1>2, ServableLinks DEF HInv, ServedInv, ShapeOK, PipeOK
  <2>2. n \in 1 .. Len(tiny.out)
    BY <1>2, <1>3, <2>1, Sizes
  <2>3. n \in 0 .. Len(tiny.out)
    BY <1>2, <2>2, Lengths
  <2> QED BY <1>2, <2>3, Cut
<1>5. TinyShape(tiny') /\ tiny'.link = tiny.link /\ tiny'.pc \notin {"accept", "dead"}
  <2>1. \/ tiny.pc = "write" /\ \E pc \in {"write", tiny.next} : tiny' = [tiny EXCEPT !.out = rest, !.pc = pc]
        \/ tiny.child = "run" /\ tiny' = [tiny EXCEPT !.out = rest]
    BY <1>3, <1>4
  <2>2. CASE tiny.child = "run" /\ tiny' = [tiny EXCEPT !.out = rest]
    BY <1>1, <2>2 DEF TinyShape, TinyFields
  <2>3. ASSUME tiny.pc = "write", NEW pc \in {"write", tiny.next},
               tiny' = [tiny EXCEPT !.out = rest, !.pc = pc]
        PROVE  TinyShape(tiny') /\ tiny'.link = tiny.link /\ tiny'.pc \notin {"accept", "dead"}
    BY <1>1, <2>3 DEF TinyShape, TinyFields
  <2> QED BY <2>1, <2>2, <2>3
<1>6. backlog' = backlog
  BY DEF TinyWrite, CgiWrite
<1> QED BY <1>2, <1>3, <1>5, <1>6, SendKeepsAll

LEMMA TinyKeeps ==
  ASSUME HInv, TinyStep
  PROVE  HInv'
<1>1. UNCHANGED <<serveVars, request, client>> /\ TinyNext
  BY DEF TinyStep
<1>2. \/ TinyAccept \/ TinyReadRequest \/ TinyReadHeaders \/ TinyParseUri
      \/ TinyWrite \/ TinyWriteFails \/ TinyKilled
      \/ TinyMapFile \/ TinyFork \/ CgiWrite \/ CgiExit \/ TinyWait \/ TinyClose
  BY <1>1 DEF TinyNext
<1> QED BY <1>1, <1>2, AcceptKeeps, TinyReadKeeps, TinyWriteKeeps, KilledKeeps, TinyQuietKeeps, CloseKeeps, Zenon

-----------------------------------------------------------------------------
(* The threads of the proxy                                                *)

(* What is the same whatever step a thread makes: its clients and Tiny are *)
(* where they were.                                                        *)
Moves(c, t) ==
  /\ thread' = [thread EXCEPT ![c] = t] /\ ThreadOK(t)
  /\ thread[c].pc # "request" => t.pc # "request" /\ t.uri = thread[c].uri
  /\ thread[c].pc \in {"close", "done"} => t.pc \in {"close", "done"}
  /\ PipesOK(pipe') /\ \A l \in Link \ {Outer(c), Inner(c)} : Same(pipe, pipe', l)
  /\ UNCHANGED <<sent, tiny, client>>

LEMMA MoveShape ==
  ASSUME HInv, NEW c \in Relayed, NEW t, Moves(c, t)
  PROVE  /\ ShapeOK' /\ Grows
         /\ thread'[c] = t /\ \A d \in Client \ {c} : thread'[d] = thread[d]
<1>1. thread'[c] = t /\ \A d \in Client \ {c} : thread'[d] = thread[d]
  BY ServableLinks DEF Moves, HInv, ShapeOK
<1>2. DOMAIN thread' = Client
  BY DEF Moves, HInv, ShapeOK
<1>3. \A d \in Client : ThreadOK(thread'[d])
  BY <1>1 DEF Moves, HInv, ShapeOK
<1>4. PipeOK' /\ TinyOK' /\ ClientOK'
  BY DEF Moves, HInv, ShapeOK, PipeOK, TinyOK, ClientOK
<1>5. ShapeOK'
  BY <1>2, <1>3, <1>4 DEF ShapeOK, ThreadOK
<1>6. Grows
  <2>1. \A l \in Link : IsPrefix(sent[l], sent'[l])
    BY PrefixOrder DEF HInv, ShapeOK, PipeOK, Moves
  <2>2. ASSUME NEW d \in Relayed, thread[d].pc # "request"
        PROVE  thread'[d].pc # "request" /\ thread'[d].uri = thread[d].uri
    <3>1. CASE d = c
      BY <1>1, <2>2, <3>1 DEF Moves
    <3>2. CASE d # c
      BY <1>1, <2>2, <3>2, ServableLinks
    <3> QED BY <3>1, <3>2
  <2> QED BY <2>1, <2>2 DEF Grows
<1> QED BY <1>1, <1>5, <1>6

LEMMA MoveFrame ==
  ASSUME HInv, NEW c \in Relayed, NEW t, Moves(c, t), ServedInv', CacheInv',
         \A d \in Relayed \ {c} : Finished(Inner(d)) => Finished(Inner(d))',
         FreshInv(c)', RelayInv(c)', AnswerInv(c)'
  PROVE  HInv'
<1>1. /\ ShapeOK' /\ Grows /\ \A d \in Client \ {c} : thread'[d] = thread[d]
  BY MoveShape
<1>2. ASSUME NEW d \in Client, d # c PROVE Hears(d)
  <2>1. client'[d].got = client[d].got
    BY DEF Moves
  <2>2. Outer(d) \in Link \ {Outer(c), Inner(c)}
    BY <1>2, Links, ServableLinks
  <2>3. Same(pipe, pipe', Outer(d))
    BY <2>2 DEF Moves
  <2> QED BY <2>1, <2>3, HearsNothing DEF Same, D, HInv
<1>3. ASSUME NEW d \in Relayed, d # c PROVE FreshInv(d)' /\ RelayInv(d)' /\ AnswerInv(d)'
  <2>1. Inner(d) \in Link \ {Outer(c), Inner(c)} /\ d \in Client
    BY <1>3, Links, ServableLinks
  <2>2. Same(pipe, pipe', Inner(d))
    BY <2>1 DEF Moves
  <2>3. thread'[d] = thread[d] /\ Hears(d) /\ sent' = sent
    BY <1>1, <1>2, <1>3, <2>1 DEF Moves
  <2>4. Untouched(d)
    BY <1>3, <2>2, <2>3 DEF Untouched, Same, D
  <2> QED BY <1>1, <2>3, <2>4, ThreadKept, AnswersKept DEF HInv
<1>4. ASSUME NEW d \in Direct PROVE DirectInv(d)'
  <2>1. d \in Client /\ d # c /\ sent' = sent
    BY ServableLinks DEF Relayed, Moves
  <2> QED BY <1>1, <1>2, <2>1, DirectKept DEF HInv
<1> QED BY <1>1, <1>3, <1>4 DEF HInv

(* A step that does not connect to Tiny, and caches nothing.               *)
LEMMA OwnStep ==
  ASSUME HInv, NEW c \in Relayed, NEW t, Moves(c, t), UNCHANGED <<backlog, cache>>,
         t.pc \in {"request", "headers", "lookup", "connect"} => Unconnected(c),
         FreshInv(c)', RelayInv(c)', AnswerInv(c)'
  PROVE  HInv'
<1>1. /\ thread'[c] = t /\ \A d \in Client \ {c} : thread'[d] = thread[d]
  BY MoveShape
<1>2. \A d \in Relayed : Unconnected(d)' => Unconnected(d)
  BY <1>1, ServableLinks DEF Unconnected
<1>3. ServedInv' /\ \A d \in Relayed : Finished(Inner(d)) => Finished(Inner(d))'
  BY <1>2, ServedKept DEF HInv, Moves
<1>4. CacheInv'
  <2>1. ASSUME NEW d \in Relayed, thread[d].pc \in {"close", "done"}
        PROVE  thread'[d].pc \in {"close", "done"} /\ thread'[d].uri = thread[d].uri
    <3>1. CASE d = c
      BY <1>1, <2>1, <3>1 DEF Moves
    <3>2. CASE d # c
      BY <1>1, <2>1, <3>2, ServableLinks
    <3> QED BY <3>1, <3>2
  <2> QED BY <1>3, <2>1, CacheKept DEF HInv, Moves
<1> QED BY <1>3, <1>4, MoveFrame

(* The client has been told nothing new, and the step is one after which   *)
(* no response is relayed.                                                 *)
LEMMA LeavesLoop ==
  ASSUME HInv, NEW c \in Relayed, NEW t, Moves(c, t), ~Unconnected(c),
         t.pc \in {"insert", "close", "done"}, t.pc = "insert" => ~t.cachable,
         Told(c)' = Told(c)
  PROVE  FreshInv(c)' /\ RelayInv(c)' /\ AnswerInv(c)'
<1>1. ShapeOK' /\ Grows /\ thread'[c] = t /\ t.uri = thread[c].uri
  BY MoveShape DEF Moves, Unconnected
<1>2. FreshInv(c)' /\ RelayInv(c)'
  BY <1>1 DEF FreshInv, RelayInv, Unconnected, Relaying
<1>3. PICK told \in Bytes : told = Told(c)
  BY StreamTypes, ServableLinks DEF HInv
<1>4. Answer(c, told)'
  BY <1>1, <1>3, AnswerKept DEF HInv, AnswerInv
<1> QED BY <1>1, <1>2, <1>3, <1>4 DEF AnswerInv

(* Steps before there is a response: the client has been told nothing.     *)
LEMMA EarlyStep ==
  ASSUME HInv, NEW c \in Relayed, NEW t, Moves(c, t), UNCHANGED <<backlog, cache>>,
         Unconnected(c), \A l \in Link : Same(pipe, pipe', l),
         t.srio = thread[c].srio, t.obj = thread[c].obj, t.part = thread[c].part,
         t.pc \in {"request", "headers", "lookup", "connect", "close", "reply"},
         t.pc = "reply" => t.next = "close" /\ Answer(c, t.out)'
  PROVE  HInv'
<1>1. ShapeOK' /\ thread'[c] = t /\ sent' = sent /\ client' = client
  BY MoveShape DEF Moves
<1>2. Same(pipe, pipe', Outer(c)) /\ Same(pipe, pipe', Inner(c)) /\ c \in Client
  BY Links, ServableLinks
<1>3. /\ sent[Inner(c)] = <<>> /\ D(Inner(c)).data = <<>> /\ Told(c) = <<>>
      /\ thread[c].srio = rio_readinitb /\ thread[c].obj = <<>> /\ thread[c].part = <<>>
      /\ ~D(Inner(c)).fin /\ ~D(Inner(c)).gone
  BY DEF HInv, FreshInv
<1>4. Told(c)' = <<>>
  BY <1>1, <1>2, <1>3 DEF Told, Same, D
<1>5. FreshInv(c)'
  BY <1>1, <1>2, <1>3, <1>4 DEF FreshInv, Same, D
<1>6. RelayInv(c)'
  BY <1>1 DEF RelayInv, Relaying
<1>7. AnswerInv(c)'
  <2>1. PICK page \in Bytes : page = ErrorPage("400")
    BY ErrorPages
  <2>2. IsPrefix(<<>>, ErrorPage("400")) /\ "400" \in {"400", "501"}
    BY <2>1, PrefixOrder
  <2>3. Answer(c, <<>>)'
    BY <2>2, Zenon DEF Answer
  <2>4. ASSUME t.pc = "reply" PROVE t.next = "close" /\ Answer(c, Then(<<>>, t.out))'
    <3>1. t.out \in Bytes
      BY <2>4 DEF Moves, ThreadOK
    <3>2. Then(<<>>, t.out) = t.out
      BY <3>1, ThenNothing
    <3>3. PICK out : out = t.out
      OBVIOUS
    <3> QED BY <2>4, <3>2
  <2> QED BY <1>1, <1>4, <2>3, <2>4 DEF AnswerInv
<1> QED BY <1>5, <1>6, <1>7, OwnStep

(* A record of a thread, once it has read a line of the request.           *)
AfterRequest(t, u) ==
  /\ DOMAIN u = ThreadFields
  /\ u.srio = t.srio /\ u.obj = t.obj /\ u.part = t.part
  /\ u.pc \in {"request", "headers", "lookup", "connect", "close", "reply"}
  /\ u.pc = "reply" => u.next = "close" /\ \E code \in {"400", "501"} : u.out = ErrorPage(code)

LEMMA RefusedShape ==
  ASSUME NEW t, DOMAIN t = ThreadFields, NEW code \in {"400", "501"}
  PROVE  AfterRequest(t, Refuse(t, code))
<1> DEFINE u == Refuse(t, code)
<1>1. /\ DOMAIN u = ThreadFields /\ u.srio = t.srio /\ u.obj = t.obj /\ u.part = t.part
      /\ u.pc = "reply" /\ u.next = "close" /\ u.out = ErrorPage(code)
  BY DEF Refuse, ThreadFields
<1> HIDE DEF u
<1>2. AfterRequest(t, u)
  BY <1>1 DEF AfterRequest
<1> QED BY <1>2 DEF u

LEMMA JudgedShape ==
  ASSUME NEW t, DOMAIN t = ThreadFields, NEW line
  PROVE  AfterRequest(t, Judged(t, line))
<1>1. AfterRequest(t, Refuse(t, "400")) /\ AfterRequest(t, Refuse(t, "501"))
  BY RefusedShape
<1> DEFINE u == [t EXCEPT !.pc = "headers", !.uri = line[2], !.rio = Restart(@),
                          !.buf = Over(line \o <<NUL>>, @)]
<1>2. /\ DOMAIN u = ThreadFields /\ u.srio = t.srio /\ u.obj = t.obj /\ u.part = t.part
      /\ u.pc = "headers"
  BY DEF ThreadFields
<1>3. Judged(t, line) \in {Refuse(t, "400"), Refuse(t, "501"), u}
  BY DEF Judged
<1> HIDE DEF u
<1>4. AfterRequest(t, u)
  BY <1>2 DEF AfterRequest
<1> QED BY <1>1, <1>3, <1>4

(* A line of the headers changes what is kept of them, and may end them.   *)
LEMMA KeptShape ==
  ASSUME NEW t, DOMAIN t = ThreadFields, t.pc = "headers", NEW line
  PROVE  AfterRequest(t, Kept(t, line)) /\ Kept(t, line).uri = t.uri /\ Kept(t, line).pc # "request"
<1>1. PICK u : u = Kept(t, line)
  OBVIOUS
<1>2. \/ u = [t EXCEPT !.pc = "lookup"]
      \/ u = [t EXCEPT !.host = line]
      \/ u = [t EXCEPT !.rest = @ \o line]
      \/ u = t
  BY <1>1 DEF Kept
<1>3. /\ DOMAIN u = ThreadFields /\ u.srio = t.srio /\ u.obj = t.obj /\ u.part = t.part
      /\ u.pc \in {"lookup", "headers"} /\ u.uri = t.uri
  BY <1>2 DEF ThreadFields
<1> QED BY <1>1, <1>3 DEF AfterRequest

(* The thread reads from its client.                                       *)
LEMMA EarlyRead ==
  ASSUME HInv, NEW c \in Relayed, Unconnected(c), NEW t, AfterRequest(thread[c], t), NEW p,
         thread[c].pc # "request" => t.pc # "request" /\ t.uri = thread[c].uri,
         thread' = [thread EXCEPT ![c] = t], pipe' = [pipe EXCEPT ![Up(Outer(c))] = p],
         UNCHANGED <<tinyVars, cache, client>>
  PROVE  HInv'
<1>1. PipesOK(pipe') /\ \A l \in Link : Same(pipe, pipe', l)
  <2> DEFINE qs == [pipe EXCEPT ![Up(Outer(c))] = p]
  <2>1. PipesOK(qs) /\ \A l \in Link : Same(pipe, qs, l)
    BY ReadUp, Links, ServableLinks DEF HInv, ShapeOK, PipeOK
  <2> QED BY <2>1
<1>2. ASSUME t.pc = "reply" PROVE t.next = "close" /\ t.out \in Bytes /\ Answer(c, t.out)'
  <2>1. PICK code \in {"400", "501"} : t.out = ErrorPage(code)
    BY <1>2, Zenon DEF AfterRequest
  <2>2. ErrorPage(code) \in Bytes
    BY ErrorPages
  <2>3. IsPrefix(t.out, ErrorPage(code))
    BY <2>1, <2>2, PrefixOrder
  <2> QED BY <1>2, <2>1, <2>2, <2>3, Zenon DEF Answer, AfterRequest
<1>3. ThreadOK(t)
  BY <1>2, ServableLinks DEF HInv, ShapeOK, ThreadOK, AfterRequest
<1>4. Moves(c, t)
  BY <1>1, <1>3 DEF Moves, Unconnected, tinyVars
<1> QED BY <1>1, <1>2, <1>4, EarlyStep DEF AfterRequest, tinyVars

(* What may become of a thread as it reads a line of headers.              *)
LEMMA HeadersStep ==
  ASSUME NEW c \in Relayed, ReadHeaders(c)
  PROVE  \E rp, buf, line :
           LET t == [thread[c] EXCEPT !.rio = rp]
           IN \/ thread' = [thread EXCEPT ![c] = t]
              \/ thread' = [thread EXCEPT ![c] = [t EXCEPT !.pc = "lookup"]]
              \/ thread' = [thread EXCEPT ![c] = Kept([t EXCEPT !.buf = buf], line)]
<1>1. PICK r :
        LET t == [thread[c] EXCEPT !.rio = Restart(r.rp)]
            buf == Over(IF r.rc = "error" THEN r.rp.usr ELSE r.rp.usr \o <<NUL>>, t.buf)
        IN CASE r.rc = "more" -> thread' = [thread EXCEPT ![c] = [t EXCEPT !.rio = r.rp]]
             [] r.rc = "eof" -> thread' = [thread EXCEPT ![c] = [t EXCEPT !.pc = "lookup"]]
             [] OTHER -> \E line \in Strings(buf) :
                           thread' = [thread EXCEPT ![c] = Kept([t EXCEPT !.buf = buf], line)]
  BY Zenon DEF ReadHeaders, Goes
<1> DEFINE rp == Restart(r.rp)
           t == [thread[c] EXCEPT !.rio = rp]
           buf == Over(IF r.rc = "error" THEN r.rp.usr ELSE r.rp.usr \o <<NUL>>, t.buf)
<1>2. CASE r.rc = "more"
  <2>1. thread' = [thread EXCEPT ![c] = [t EXCEPT !.rio = r.rp]]
    BY <1>1, <1>2
  <2>2. [t EXCEPT !.rio = r.rp] = [thread[c] EXCEPT !.rio = r.rp]
    OBVIOUS
  <2> QED BY <2>1, <2>2, Zenon
<1>3. CASE r.rc = "eof"
  <2>1. thread' = [thread EXCEPT ![c] = [t EXCEPT !.pc = "lookup"]]
    BY <1>1, <1>3
  <2> HIDE DEF rp
  <2> QED BY <2>1, Zenon
<1>4. CASE r.rc \notin {"more", "eof"}
  <2>1. PICK line \in Strings(buf) :
          thread' = [thread EXCEPT ![c] = Kept([t EXCEPT !.buf = buf], line)]
    BY <1>1, <1>4
  <2> HIDE DEF rp, buf
  <2> QED BY <2>1, Zenon
<1> QED BY <1>2, <1>3, <1>4, Zenon

LEMMA RequestKeeps ==
  ASSUME HInv, NEW c \in Relayed, ReadRequest(c) \/ ReadHeaders(c), UNCHANGED client
  PROVE  HInv'
<1> DEFINE r == rio_readlineb(thread[c].rio, pipe[Up(Outer(c))], MAXLINE)
<1>1. pipe' = [pipe EXCEPT ![Up(Outer(c))] = r.p] /\ UNCHANGED <<cache, tinyVars>>
  BY DEF ReadRequest, ReadHeaders
<1>2. DOMAIN thread[c] = ThreadFields
  BY ServableLinks DEF HInv, ShapeOK, ThreadOK
<1>3. CASE ReadRequest(c)
  <2> DEFINE t == [thread[c] EXCEPT !.rio = r.rp]
  <2>1. PICK u : /\ thread' = [thread EXCEPT ![c] = u]
                 /\ u \in {t, Judged(t, r.rp.usr), [t EXCEPT !.pc = "close"]}
    BY <1>3 DEF ReadRequest, Goes
  <2>2. /\ DOMAIN t = ThreadFields /\ t.srio = thread[c].srio /\ t.obj = thread[c].obj
        /\ t.part = thread[c].part /\ t.pc = "request" /\ thread[c].pc = "request"
    BY <1>2, <1>3 DEF ThreadFields, ReadRequest
  <2> HIDE DEF t, r
  <2>3. AfterRequest(t, u)
    <3>1. CASE u = t
      BY <2>2, <3>1 DEF AfterRequest
    <3>2. CASE u = Judged(t, r.rp.usr)
      BY <2>2, <3>2, JudgedShape
    <3>3. CASE u = [t EXCEPT !.pc = "close"]
      <4>1. /\ DOMAIN u = ThreadFields /\ u.srio = t.srio /\ u.obj = t.obj
            /\ u.part = t.part /\ u.pc = "close"
        BY <2>2, <3>3 DEF ThreadFields
      <4> QED BY <4>1 DEF AfterRequest
    <3> QED BY <2>1, <3>1, <3>2, <3>3
  <2>4. AfterRequest(thread[c], u) /\ Unconnected(c)
    BY <2>2, <2>3 DEF AfterRequest, Unconnected
  <2> QED BY <1>1, <2>1, <2>2, <2>4, EarlyRead
<1>4. CASE ReadHeaders(c)
  <2>1. PICK rp, buf, line :
          LET t == [thread[c] EXCEPT !.rio = rp]
          IN \/ thread' = [thread EXCEPT ![c] = t]
             \/ thread' = [thread EXCEPT ![c] = [t EXCEPT !.pc = "lookup"]]
             \/ thread' = [thread EXCEPT ![c] = Kept([t EXCEPT !.buf = buf], line)]
    BY <1>4, HeadersStep, Zenon
  <2> DEFINE t == [thread[c] EXCEPT !.rio = rp]
             s == [t EXCEPT !.buf = buf]
  <2>2. /\ DOMAIN t = ThreadFields /\ t.srio = thread[c].srio /\ t.obj = thread[c].obj
        /\ t.part = thread[c].part /\ t.pc = "headers" /\ thread[c].pc = "headers"
        /\ t.uri = thread[c].uri
    BY <1>2, <1>4 DEF ThreadFields, ReadHeaders
  <2> HIDE DEF t, r
  <2>3. /\ DOMAIN s = ThreadFields /\ s.srio = t.srio /\ s.obj = t.obj
        /\ s.part = t.part /\ s.pc = "headers" /\ s.uri = t.uri
    BY <2>2 DEF ThreadFields
  <2>4. PICK u : /\ thread' = [thread EXCEPT ![c] = u]
                 /\ u = t \/ u = [t EXCEPT !.pc = "lookup"] \/ u = Kept(s, line)
    <3> HIDE DEF t, s
    <3> QED BY <2>1, Zenon DEF t, s
  <2> HIDE DEF s
  <2>5. /\ DOMAIN u = ThreadFields /\ u.srio = t.srio /\ u.obj = t.obj /\ u.part = t.part
        /\ u.uri = t.uri /\ u.pc # "request"
        /\ u.pc \in {"request", "headers", "lookup", "connect", "close", "reply"}
        /\ u.pc = "reply" => u.next = "close" /\ \E code \in {"400", "501"} : u.out = ErrorPage(code)
    <3>1. CASE u = t \/ u = [t EXCEPT !.pc = "lookup"]
      BY <2>2, <3>1 DEF ThreadFields
    <3>2. CASE u = Kept(s, line)
      <4>1. AfterRequest(s, u) /\ u.uri = s.uri /\ u.pc # "request"
        BY <2>3, <3>2, KeptShape
      <4> QED BY <2>3, <4>1, Zenon DEF AfterRequest
    <3> QED BY <2>4, <3>1, <3>2
  <2>6. AfterRequest(thread[c], u) /\ Unconnected(c)
    BY <2>2, <2>5 DEF AfterRequest, Unconnected
  <2>7. u.pc # "request" /\ u.uri = thread[c].uri
    BY <2>2, <2>5
  <2> QED BY <1>1, <2>4, <2>6, <2>7, EarlyRead
<1> QED BY <1>3, <1>4

(* It looks its response up: what is cached was sent for the same uri.     *)
LEMMA LookupKeeps ==
  ASSUME HInv, NEW c \in Relayed, Lookup(c), UNCHANGED client
  PROVE  HInv'
<1>1. PICK t : /\ thread' = [thread EXCEPT ![c] = t]
               /\ IF thread[c].uri \in DOMAIN cache
                  THEN t = [thread[c] EXCEPT !.pc = "reply", !.out = cache[thread[c].uri], !.next = "close"]
                  ELSE t = [thread[c] EXCEPT !.pc = "connect", !.req = WholeRequest(thread[c])]
  BY DEF Lookup, Goes, CacheKey
<1>2. /\ DOMAIN thread[c] = ThreadFields /\ ThreadOK(thread[c]) /\ thread[c].pc = "lookup"
      /\ UNCHANGED <<pipe, cache, tinyVars>> /\ DOMAIN thread = Client
  BY ServableLinks DEF HInv, ShapeOK, ThreadOK, Lookup
<1>3. /\ DOMAIN t = ThreadFields /\ t.srio = thread[c].srio /\ t.obj = thread[c].obj
      /\ t.part = thread[c].part /\ t.uri = thread[c].uri
      /\ \/ t.pc = "connect"
         \/ /\ t.pc = "reply" /\ t.next = "close"
            /\ thread[c].uri \in DOMAIN cache /\ t.out = cache[thread[c].uri]
  BY <1>1, <1>2 DEF ThreadFields
<1>4. ASSUME t.pc = "reply" PROVE t.next = "close" /\ t.out \in Bytes /\ Answer(c, t.out)'
  <2>1. thread[c].uri \in DOMAIN cache /\ t.out = cache[thread[c].uri] /\ t.next = "close"
    BY <1>3, <1>4
  <2>2. PICK d \in Relayed : Complete(d, thread[c].uri, cache[thread[c].uri])
    BY <2>1 DEF HInv, CacheInv
  <2>3. /\ thread[d].pc \in {"close", "done"} /\ thread[d].uri = thread[c].uri
        /\ t.out = sent[Inner(d)] /\ d # c
    BY <1>2, <2>1, <2>2 DEF Complete
  <2>4. /\ thread'[d] = thread[d] /\ thread'[c] = t /\ sent' = sent
    BY <1>1, <1>2, <2>3, ServableLinks DEF tinyVars
  <2>5. sent[Inner(d)] \in Bytes
    BY StreamTypes, ServableLinks DEF HInv
  <2>6. IsPrefix(t.out, sent'[Inner(d)])
    BY <2>3, <2>4, <2>5, PrefixOrder
  <2>7. thread'[d].pc # "request" /\ thread'[d].uri = thread'[c].uri
    BY <1>3, <2>3, <2>4
  <2>8. Answer(c, t.out)'
    BY <2>6, <2>7 DEF Answer
  <2> QED BY <2>1, <2>3, <2>5, <2>8
<1>5. ThreadOK(t)
  BY <1>2, <1>3, <1>4 DEF ThreadOK
<1>6. PipesOK(pipe') /\ \A l \in Link : Same(pipe, pipe', l)
  BY <1>2 DEF HInv, ShapeOK, PipeOK, Same
<1>7. Moves(c, t)
  BY <1>1, <1>2, <1>3, <1>5, <1>6 DEF Moves, tinyVars
<1>8. Unconnected(c)
  BY <1>2 DEF Unconnected
<1> QED BY <1>2, <1>3, <1>4, <1>6, <1>7, <1>8, EarlyStep DEF tinyVars

(* It connects to Tiny.                                                    *)
LEMMA ReachKeeps ==
  ASSUME HInv, NEW c \in Relayed, Connect(c), UNCHANGED client
  PROVE  HInv'
<1>1. /\ DOMAIN thread[c] = ThreadFields /\ ThreadOK(thread[c]) /\ thread[c].pc = "connect"
      /\ UNCHANGED <<pipe, cache, tiny, sent>> /\ DOMAIN thread = Client
  BY ServableLinks DEF HInv, ShapeOK, ThreadOK, Connect
<1>2. PipesOK(pipe') /\ \A l \in Link : Same(pipe, pipe', l)
  BY <1>1 DEF HInv, ShapeOK, PipeOK, Same
<1>3. Unconnected(c)
  BY <1>1 DEF Unconnected
<1>4. CASE ~TinyAlive
  <2> DEFINE t == [thread[c] EXCEPT !.pc = "close"]
  <2>1. thread' = [thread EXCEPT ![c] = t] /\ backlog' = backlog
    BY <1>4 DEF Connect, Goes
  <2>2. /\ DOMAIN t = ThreadFields /\ t.srio = thread[c].srio /\ t.obj = thread[c].obj
        /\ t.part = thread[c].part /\ t.uri = thread[c].uri /\ t.pc = "close"
    BY <1>1 DEF ThreadFields
  <2> HIDE DEF t
  <2>3. ThreadOK(t)
    BY <1>1, <2>2 DEF ThreadOK
  <2>4. Moves(c, t)
    BY <1>1, <1>2, <2>1, <2>2, <2>3 DEF Moves
  <2> QED BY <1>1, <1>2, <1>3, <2>1, <2>2, <2>4, EarlyStep
<1>5. CASE TinyAlive
  <2> DEFINE t == [thread[c] EXCEPT !.pc = "forward", !.out = thread[c].req]
  <2>1. thread' = [thread EXCEPT ![c] = t] /\ backlog' = Append(backlog, Inner(c))
    BY <1>5 DEF Connect, Goes
  <2>2. /\ DOMAIN t = ThreadFields /\ t.srio = thread[c].srio /\ t.obj = thread[c].obj
        /\ t.part = thread[c].part /\ t.uri = thread[c].uri /\ t.pc = "forward"
    BY <1>1 DEF ThreadFields
  <2> HIDE DEF t
  <2>3. ThreadOK(t)
    BY <1>1, <2>2 DEF ThreadOK
  <2>4. Moves(c, t)
    BY <1>1, <1>2, <2>1, <2>2, <2>3 DEF Moves
  <2>5. /\ ShapeOK' /\ Grows /\ thread'[c] = t /\ \A d \in Client \ {c} : thread'[d] = thread[d]
    BY <2>4, MoveShape
  <2>6. ~Waits(Inner(c)) /\ tiny.link # Inner(c) /\ tiny.pc # "dead"
    BY <1>3, <1>5 DEF HInv, ServedInv, TinyAlive
  <2>7. backlog \in Seq(Servable) /\ Inner(c) \in Servable
    BY ServableLinks DEF HInv, ServedInv
  <2>8. ASSUME NEW d \in Relayed, d # c PROVE Waits(Inner(d))' <=> Waits(Inner(d))
    <3>1. Inner(c) # Inner(d)
      BY <2>8, Links, ServableLinks
    <3> QED BY <2>1, <2>7, <3>1, AppendWaits
  <2>9. /\ DOMAIN backlog' = 1 .. Len(backlog) + 1 /\ DOMAIN backlog = 1 .. Len(backlog)
        /\ Len(backlog) \in Nat /\ backlog' \in Seq(Servable)
        /\ \A i \in 1 .. Len(backlog) : backlog'[i] = backlog[i]
        /\ backlog'[Len(backlog) + 1] = Inner(c)
    BY <2>1, <2>7, AppendProperties
  <2>10. ASSUME NEW d \in Relayed, NEW i \in DOMAIN backlog', NEW j \in DOMAIN backlog',
                backlog'[i] = Inner(d), backlog'[j] = Inner(d)
         PROVE  i = j
    <3>1. CASE d = c
      <4>1. \A k \in DOMAIN backlog : backlog[k] # Inner(c)
        BY <2>6 DEF Waits
      <4>2. i \notin DOMAIN backlog /\ j \notin DOMAIN backlog
        BY <2>9, <2>10, <3>1, <4>1
      <4> QED BY <2>9, <4>2
    <3>2. CASE d # c
      <4>1. Inner(c) # Inner(d)
        BY <3>2, Links, ServableLinks
      <4>2. i \in DOMAIN backlog /\ j \in DOMAIN backlog
        BY <2>9, <2>10, <4>1
      <4>3. backlog[i] = Inner(d) /\ backlog[j] = Inner(d)
        BY <2>9, <2>10, <4>2
      <4> QED BY <4>2, <4>3 DEF HInv, ServedInv
    <3> QED BY <3>1, <3>2
  <2>11. ASSUME NEW d \in Relayed
         PROVE  /\ tiny'.link = Inner(d) => ~Waits(Inner(d))'
                /\ Unconnected(d)' => ~Waits(Inner(d))' /\ tiny'.link # Inner(d)
    <3>1. CASE d = c
      BY <1>1, <2>2, <2>5, <2>6, <3>1 DEF Unconnected
    <3>2. CASE d # c
      BY <1>1, <2>5, <2>8, <3>2, ServableLinks DEF HInv, ServedInv, Unconnected
    <3> QED BY <3>1, <3>2
  <2>12. ServedInv'
    <3>1. /\ IF tiny'.pc = "accept" THEN tiny'.link = TinyIdle.link ELSE tiny'.link \in Servable
          /\ tiny'.pc # "dead"
      BY <1>1, <2>6 DEF HInv, ServedInv
    <3> QED BY <2>9, <2>10, <2>11, <3>1 DEF ServedInv
  <2>13. \A d \in Relayed \ {c} : Finished(Inner(d)) => Finished(Inner(d))'
    BY <1>1, <2>8 DEF Finished
  <2>14. CacheInv'
    <3>1. ASSUME NEW d \in Relayed, thread[d].pc \in {"close", "done"}
          PROVE  d # c /\ thread'[d] = thread[d]
      BY <1>1, <2>5, <3>1, ServableLinks
    <3> QED BY <1>1, <2>13, <3>1, CacheKept DEF HInv
  <2>15. /\ sent[Inner(c)] = <<>> /\ D(Inner(c)).data = <<>> /\ Told(c) = <<>>
         /\ t.srio.usr = <<>> /\ t.srio.buf = <<>> /\ t.obj = <<>> /\ t.part = <<>>
         /\ ~D(Inner(c)).fin /\ ~D(Inner(c)).gone
    BY <1>3, <2>2 DEF HInv, FreshInv, rio_readinitb
  <2>16. /\ D(Inner(c))' = D(Inner(c)) /\ D(Outer(c))' = D(Outer(c)) /\ Told(c)' = <<>>
    BY <1>1, <2>15 DEF D, Told
  <2>17. Then(<<>>, <<>>) = <<>>
    BY NoBytes, ThenNothing
  <2>18. Coming(c)' = <<>> /\ Out(c)' = <<>>
    BY <2>2, <2>5, <2>15, <2>16, <2>17 DEF Coming, Out
  <2>19. FreshInv(c)'
    BY <2>2, <2>5 DEF FreshInv, Unconnected
  <2>20. RelayInv(c)'
    BY <1>1, <2>2, <2>5, <2>15, <2>16, <2>17, <2>18 DEF RelayInv
  <2>21. AnswerInv(c)'
    <3>1. Answer(c, <<>>)
      BY <2>15 DEF HInv, AnswerInv
    <3>2. Answer(c, <<>>)'
      BY <2>2, <2>5, <3>1, NoBytes, AnswerKept DEF HInv
    <3> QED BY <2>2, <2>5, <2>16, <3>2 DEF AnswerInv
  <2> QED BY <2>4, <2>12, <2>13, <2>14, <2>19, <2>20, <2>21, MoveFrame
<1> QED BY <1>4, <1>5

(* It forwards the request.                                                *)
LEMMA ForwardKeeps ==
  ASSUME HInv, NEW c \in Relayed, Forward(c), UNCHANGED client
  PROVE  HInv'
<1>1. PICK n : /\ pipe' = Written(pipe, Up(Inner(c)), SubSeq(thread[c].out, 1, n))
               /\ Goes(c, [thread[c] EXCEPT !.out = Drop(@, n),
                                            !.pc = IF n = Len(thread[c].out) THEN "response" ELSE @])
  BY DEF Forward
<1> DEFINE t == [thread[c] EXCEPT !.out = Drop(@, n),
                                  !.pc = IF n = Len(thread[c].out) THEN "response" ELSE @]
<1>2. /\ DOMAIN thread[c] = ThreadFields /\ ThreadOK(thread[c]) /\ thread[c].pc = "forward"
      /\ UNCHANGED <<cache, tinyVars>> /\ DOMAIN thread = Client
  BY ServableLinks DEF HInv, ShapeOK, ThreadOK, Forward
<1>3. /\ DOMAIN t = ThreadFields /\ t.srio = thread[c].srio /\ t.obj = thread[c].obj
      /\ t.part = thread[c].part /\ t.uri = thread[c].uri /\ t.pc \in {"forward", "response"}
      /\ t.cachable = thread[c].cachable
  BY <1>2 DEF ThreadFields
<1>4. thread' = [thread EXCEPT ![c] = t]
  BY <1>1 DEF Goes
<1> HIDE DEF t
<1>5. PipesOK(pipe') /\ \A l \in Link : Same(pipe, pipe', l)
  <2> DEFINE qs == Written(pipe, Up(Inner(c)), SubSeq(thread[c].out, 1, n))
  <2>1. PipesOK(qs) /\ \A l \in Link : Same(pipe, qs, l)
    BY WriteUp, Links, ServableLinks DEF HInv, ShapeOK, PipeOK
  <2> QED BY <1>1, <2>1
<1>6. ThreadOK(t)
  BY <1>2, <1>3 DEF ThreadOK
<1>7. Moves(c, t)
  BY <1>2, <1>3, <1>4, <1>5, <1>6 DEF Moves, tinyVars
<1>8. ShapeOK' /\ Grows /\ thread'[c] = t
  BY <1>7, MoveShape
<1>9. Same(pipe, pipe', Outer(c)) /\ Same(pipe, pipe', Inner(c))
  BY <1>5, Links, ServableLinks
<1>10. /\ Told(c)' = Told(c) /\ Coming(c)' = Coming(c) /\ Out(c)' = <<>> /\ Out(c) = <<>>
       /\ D(Inner(c))'.gone = D(Inner(c)).gone /\ D(Inner(c))'.fin = D(Inner(c)).fin
       /\ D(Outer(c))'.gone = D(Outer(c)).gone
  BY <1>2, <1>3, <1>8, <1>9 DEF Told, Coming, Out, Same, D
<1>11. FreshInv(c)'
  BY <1>3, <1>8 DEF FreshInv, Unconnected
<1>12. Relaying(c) /\ RelayInv(c)
  BY <1>2 DEF HInv, Relaying
<1>13. Finished(Inner(c))' <=> Finished(Inner(c))
  BY <1>2 DEF Finished, Waits, tinyVars
<1>14. RelayInv(c)'
  BY <1>2, <1>3, <1>8, <1>10, <1>12, <1>13 DEF RelayInv, tinyVars
<1>15. AnswerInv(c)'
  <2>1. PICK told \in Bytes : told = Told(c)
    BY StreamTypes, ServableLinks DEF HInv
  <2>2. Answer(c, told)'
    BY <1>3, <1>8, <2>1, AnswerKept DEF HInv, AnswerInv
  <2> QED BY <1>3, <1>8, <1>10, <2>1, <2>2 DEF AnswerInv
<1>16. Unconnected(c) \/ t.pc \notin {"request", "headers", "lookup", "connect"}
  BY <1>3
<1> QED BY <1>2, <1>7, <1>11, <1>14, <1>15, <1>16, OwnStep DEF tinyVars

(* It gives up, or is done with the request.                               *)
LEMMA GiveUpKeeps ==
  ASSUME HInv, NEW c \in Relayed, ForwardFails(c) \/ ReplyFails(c) \/ Close(c), UNCHANGED client
  PROVE  HInv'
<1>1. /\ DOMAIN thread[c] = ThreadFields /\ ThreadOK(thread[c]) /\ DOMAIN thread = Client
      /\ UNCHANGED <<cache, tinyVars>> /\ PipesOK(pipe) /\ Outer(c) \in Link /\ Inner(c) \in Link
      /\ Outer(c) # Inner(c)
  BY ServableLinks, Links DEF HInv, ShapeOK, PipeOK, ThreadOK, ForwardFails, ReplyFails, Close
<1>2. PICK t : /\ thread' = [thread EXCEPT ![c] = t]
               /\ \/ t = [thread[c] EXCEPT !.pc = "close", !.out = <<>>] /\ thread[c].pc = "forward"
                  \/ /\ \E pc \in {"insert", "close"} :
                          t = [thread[c] EXCEPT !.out = <<>>, !.cachable = FALSE, !.pc = pc]
                     /\ thread[c].pc = "reply"
                  \/ t = [thread[c] EXCEPT !.pc = "done"] /\ thread[c].pc = "close"
  BY DEF ForwardFails, ReplyFails, Close, Goes
<1>3. /\ DOMAIN t = ThreadFields /\ t.srio = thread[c].srio /\ t.obj = thread[c].obj
      /\ t.part = thread[c].part /\ t.uri = thread[c].uri
      /\ t.pc \in {"insert", "close", "done"} /\ (t.pc = "insert" => ~t.cachable)
      /\ thread[c].pc \in {"forward", "reply", "close"}
      /\ thread[c].pc = "close" => t.pc = "done"
  <2> DEFINE s == thread[c]
  <2>1. DOMAIN s = ThreadFields
    BY <1>1
  <2> HIDE DEF s
  <2>2. ASSUME t = [s EXCEPT !.pc = "close", !.out = <<>>]
        PROVE  /\ DOMAIN t = ThreadFields /\ t.srio = s.srio /\ t.obj = s.obj
               /\ t.part = s.part /\ t.uri = s.uri /\ t.pc = "close"
    BY <2>1, <2>2 DEF ThreadFields
  <2>3. ASSUME NEW pc \in {"insert", "close"}, t = [s EXCEPT !.out = <<>>, !.cachable = FALSE, !.pc = pc]
        PROVE  /\ DOMAIN t = ThreadFields /\ t.srio = s.srio /\ t.obj = s.obj
               /\ t.part = s.part /\ t.uri = s.uri /\ t.pc \in {"insert", "close"} /\ ~t.cachable
    BY <2>1, <2>3 DEF ThreadFields
  <2>4. ASSUME t = [s EXCEPT !.pc = "done"]
        PROVE  /\ DOMAIN t = ThreadFields /\ t.srio = s.srio /\ t.obj = s.obj
               /\ t.part = s.part /\ t.uri = s.uri /\ t.pc = "done"
    BY <2>1, <2>4 DEF ThreadFields
  <2>5. \/ t = [s EXCEPT !.pc = "close", !.out = <<>>] /\ s.pc = "forward"
        \/ /\ \E pc \in {"insert", "close"} : t = [s EXCEPT !.out = <<>>, !.cachable = FALSE, !.pc = pc]
           /\ s.pc = "reply"
        \/ t = [s EXCEPT !.pc = "done"] /\ s.pc = "close"
    BY <1>2 DEF s
  <2>6. /\ DOMAIN t = ThreadFields /\ t.srio = s.srio /\ t.obj = s.obj
        /\ t.part = s.part /\ t.uri = s.uri
        /\ t.pc \in {"insert", "close", "done"} /\ (t.pc = "insert" => ~t.cachable)
        /\ s.pc \in {"forward", "reply", "close"}
        /\ s.pc = "close" => t.pc = "done"
    <3>1. CASE t = [s EXCEPT !.pc = "close", !.out = <<>>] /\ s.pc = "forward"
      BY <2>2, <3>1
    <3>2. CASE /\ \E pc \in {"insert", "close"} : t = [s EXCEPT !.out = <<>>, !.cachable = FALSE, !.pc = pc]
               /\ s.pc = "reply"
      BY <2>3, <3>2
    <3>3. CASE t = [s EXCEPT !.pc = "done"] /\ s.pc = "close"
      BY <2>4, <3>3
    <3> QED BY <2>5, <3>1, <3>2, <3>3
  <2> QED BY <2>6 DEF s
<1>4. /\ PipesOK(pipe') /\ \A l \in Link \ {Outer(c), Inner(c)} : Same(pipe, pipe', l)
      /\ D(Outer(c))'.data = D(Outer(c)).data
  <2>1. PICK abort \in BOOLEAN : abort = FALSE
    OBVIOUS
  <2>2. CASE ForwardFails(c)
    <3> DEFINE qs == ClosedBy(pipe, Down(Inner(c)), Up(Inner(c)), abort)
    <3>1. PipesOK(qs) /\ \A l \in Link \ {Inner(c)} : Same(pipe, qs, l)
      BY <1>1, ClientCloses
    <3>2. pipe' = qs
      BY <2>1, <2>2 DEF ForwardFails, ClosedByClient
    <3> HIDE DEF qs
    <3> QED BY <1>1, <3>1, <3>2 DEF Same, D
  <2>3. CASE ReplyFails(c)
    BY <1>1, <2>3 DEF ReplyFails, Same, D
  <2>4. CASE Close(c)
    <3> DEFINE qs == ClosedBy(pipe, Up(Outer(c)), Down(Outer(c)), abort)
    <3>1. /\ PipesOK(qs) /\ \A l \in Link \ {Outer(c)} : Same(pipe, qs, l)
          /\ qs[Down(Outer(c))].data = pipe[Down(Outer(c))].data
      BY <1>1, ServerCloses
    <3>2. pipe' = qs
      BY <2>1, <2>4 DEF Close, ClosedByServer
    <3> HIDE DEF qs
    <3> QED BY <3>1, <3>2 DEF D
  <2> QED BY <2>2, <2>3, <2>4
<1>5. ThreadOK(t)
  BY <1>1, <1>3 DEF ThreadOK
<1>6. Moves(c, t)
  BY <1>1, <1>2, <1>3, <1>4, <1>5 DEF Moves, tinyVars
<1>7. Told(c)' = Told(c) /\ ~Unconnected(c)
  BY <1>3, <1>4 DEF Told, Unconnected
<1>8. FreshInv(c)' /\ RelayInv(c)' /\ AnswerInv(c)'
  BY <1>3, <1>6, <1>7, LeavesLoop
<1> QED BY <1>1, <1>3, <1>6, <1>8, OwnStep DEF tinyVars

(* What has been read goes from what is coming to what is passed on.       *)
LEMMA PassedOn ==
  ASSUME NEW x \in Bytes, NEW u \in Bytes, NEW w \in Bytes
  PROVE  Then(Then(x, u), Then(<<>>, w)) = Then(Then(x, <<>>), Then(u, w))
<1>1. Then(<<>>, w) = w /\ Then(x, <<>>) = x
  BY ThenNothing
<1>2. Then(Then(x, u), w) = Then(x, Then(u, w))
  BY Associates
<1> QED BY <1>1, <1>2

(* The record of a thread, once rio_readnb has made a turn.                *)
AfterRead(s, r, t) ==
  /\ DOMAIN t = ThreadFields
  /\ t.obj = s.obj /\ t.uri = s.uri
  /\ r.rc # "error" => t.cachable = s.cachable
  /\ t.srio = IF r.rc = "more" THEN r.rp ELSE Restart(r.rp)
  /\ r.rc = "data" => t.out = r.rp.usr /\ t.next = "response"
  /\ t.part = IF r.rc = "data" THEN r.rp.usr ELSE s.part
  /\ t.pc = IF r.rc = "more" THEN "response" ELSE IF r.rc = "data" THEN "reply" ELSE "insert"
  /\ r.rc = "error" => ~t.cachable

LEMMA ReadRecord ==
  ASSUME NEW s, DOMAIN s = ThreadFields, s.pc = "response", NEW r,
         NEW t, t = CASE r.rc = "more" -> [s EXCEPT !.srio = r.rp]
                      [] r.rc = "data" ->
                           [[s EXCEPT !.srio = Restart(r.rp)]
                             EXCEPT !.pc = "reply", !.out = r.rp.usr,
                                    !.part = r.rp.usr, !.next = "response"]
                      [] r.rc = "eof" -> [[s EXCEPT !.srio = Restart(r.rp)] EXCEPT !.pc = "insert"]
                      [] OTHER -> [[s EXCEPT !.srio = Restart(r.rp)]
                                    EXCEPT !.pc = "insert", !.cachable = FALSE],
         r.rc \in {"more", "data", "eof", "error"}
  PROVE  AfterRead(s, r, t)
<1>1. CASE r.rc = "more"
  <2>1. t = [s EXCEPT !.srio = r.rp]
    BY <1>1
  <2> QED BY <1>1, <2>1 DEF AfterRead, ThreadFields
<1>2. CASE r.rc = "data"
  <2>1. t = [s EXCEPT !.srio = Restart(r.rp), !.pc = "reply", !.out = r.rp.usr,
                      !.part = r.rp.usr, !.next = "response"]
    BY <1>2
  <2> QED BY <1>2, <2>1 DEF AfterRead, ThreadFields
<1>3. CASE r.rc = "eof"
  <2>1. t = [s EXCEPT !.srio = Restart(r.rp), !.pc = "insert"]
    BY <1>3
  <2> QED BY <1>3, <2>1 DEF AfterRead, ThreadFields
<1>4. CASE r.rc = "error"
  <2>1. t = [s EXCEPT !.srio = Restart(r.rp), !.pc = "insert", !.cachable = FALSE]
    BY <1>4
  <2> QED BY <1>4, <2>1 DEF AfterRead, ThreadFields
<1> QED BY <1>1, <1>2, <1>3, <1>4

(* A thread reads from Tiny.                                               *)
LEMMA ReadKeeps ==
  ASSUME HInv, NEW c \in Relayed, ReadResponse(c), UNCHANGED client
  PROVE  HInv'
<1> DEFINE rp == thread[c].srio
           p == D(Inner(c))
           r == rio_readnb(rp, p, MAXLINE)
<1>1. /\ DOMAIN thread[c] = ThreadFields /\ ThreadOK(thread[c]) /\ DOMAIN thread = Client
      /\ thread[c].pc = "response" /\ UNCHANGED <<cache, tinyVars>>
      /\ Outer(c) \in Link /\ Inner(c) \in Link /\ Outer(c) # Inner(c)
  BY ServableLinks, Links DEF HInv, ShapeOK, ThreadOK, ReadResponse
<1>2. /\ rp \in Reader /\ Len(rp.usr) <= MAXLINE /\ p \in DownPipe /\ Len(p.data) <= SOCKBUF
      /\ Ready(rp, p)
  BY <1>1 DEF HInv, ShapeOK, PipeOK, PipesOK, ThreadOK, D, ReadResponse
<1>3. /\ r.rp \in Reader /\ Len(r.rp.usr) <= MAXLINE
      /\ r.p \in DownPipe /\ Len(r.p.data) <= Len(p.data) /\ r.p.gone = p.gone
      /\ r.rc \in {"more", "data", "eof", "error"}
      /\ Then(r.rp.usr, Then(r.rp.buf, r.p.data)) = Then(rp.usr, Then(rp.buf, p.data))
      /\ r.rc # "error" => r.p.fin = p.fin
      /\ r.rc = "eof" => /\ r.rp.usr = <<>> /\ r.rp.buf = <<>> /\ r.p.data = <<>>
                         /\ p.fin
  <2> HIDE DEF rp, p
  <2> QED BY <1>2, ReadNb
<1>4. pipe' = [pipe EXCEPT ![Down(Inner(c))] = r.p]
  BY DEF ReadResponse, D
<1>5. PICK t : thread' = [thread EXCEPT ![c] = t] /\ AfterRead(thread[c], r, t)
  <2> DEFINE s == thread[c]
             t == CASE r.rc = "more" -> [s EXCEPT !.srio = r.rp]
                      [] r.rc = "data" ->
                           [[s EXCEPT !.srio = Restart(r.rp)]
                             EXCEPT !.pc = "reply", !.out = r.rp.usr,
                                    !.part = r.rp.usr, !.next = "response"]
                      [] r.rc = "eof" -> [[s EXCEPT !.srio = Restart(r.rp)] EXCEPT !.pc = "insert"]
                      [] OTHER -> [[s EXCEPT !.srio = Restart(r.rp)]
                                    EXCEPT !.pc = "insert", !.cachable = FALSE]
  <2>1. thread' = [thread EXCEPT ![c] = t]
    BY DEF ReadResponse, Goes, D
  <2>2. AfterRead(s, r, t)
    <3> HIDE DEF r
    <3> QED BY <1>1, <1>3, ReadRecord
  <2> QED BY <2>1, <2>2
<1> HIDE DEF r
<1>6. PICK u \in Bytes, f \in Bytes, d \in Bytes :
         u = r.rp.usr /\ f = r.rp.buf /\ d = r.p.data
  BY <1>3 DEF Reader, DownPipe
<1>7. /\ Restart(r.rp) \in Reader /\ Restart(r.rp).usr = <<>> /\ Restart(r.rp).buf = f
  BY <1>3, <1>6, NoBytes DEF Restart, Reader
<1>8. ThreadOK(t)
  <2>1. t.srio \in Reader /\ Len(t.srio.usr) <= MAXLINE
    BY <1>3, <1>5, <1>7, NoBytes, TinyAssumption DEF AfterRead
  <2>2. t.part \in Bytes /\ t.obj \in Bytes
    BY <1>1, <1>5, <1>6 DEF AfterRead, ThreadOK
  <2>3. t.pc = "reply" => t.out \in Bytes /\ t.next \in {"close", "response"}
    <3>1. t.pc = "reply" => r.rc = "data"
      BY <1>5 DEF AfterRead
    <3>2. r.rc = "data" => t.out = u /\ t.next = "response"
      BY <1>5, <1>6 DEF AfterRead
    <3> QED BY <3>1, <3>2
  <2>4. DOMAIN t = ThreadFields
    BY <1>5 DEF AfterRead
  <2> QED BY <2>1, <2>2, <2>3, <2>4 DEF ThreadOK
<1>9. /\ PipesOK(pipe') /\ D(Inner(c))' = r.p
      /\ \A l \in Link \ {Inner(c)} : Same(pipe, pipe', l)
  <2>0. PICK q \in DownPipe : q = r.p
    BY <1>3
  <2> DEFINE qs == [pipe EXCEPT ![Down(Inner(c))] = q]
  <2>1. Len(q.data) <= SOCKBUF
    <3>1. p.data \in Bytes
      BY <1>2 DEF DownPipe
    <3> QED BY <1>2, <1>3, <1>6, <2>0, <3>1, Lengths, RioAssumption
  <2>2. /\ PipesOK(qs) /\ qs[Down(Inner(c))] = q
        /\ \A l \in Link \ {Inner(c)} : Same(pipe, qs, l)
    BY <1>1, <2>1, ReadDown DEF HInv, ShapeOK, PipeOK
  <2> QED BY <1>4, <2>0, <2>2 DEF D
<1>10. t.uri = thread[c].uri /\ t.pc \in {"response", "reply", "insert"} /\ t.obj = thread[c].obj
  BY <1>5 DEF AfterRead
<1>11. Moves(c, t)
  BY <1>1, <1>5, <1>8, <1>9, <1>10 DEF Moves, tinyVars
<1>12. ShapeOK' /\ Grows /\ thread'[c] = t
  BY <1>11, MoveShape
<1>13. Told(c)' = Told(c) /\ D(Outer(c))'.gone = D(Outer(c)).gone
  BY <1>1, <1>9, <1>11 DEF Told, Same, D, Moves
<1>14. PICK told \in Bytes, obj \in Bytes :
          told = Told(c) /\ obj = thread[c].obj
  BY StreamTypes, ServableLinks DEF HInv
<1>15. Coming(c) = Then(u, Then(f, d)) /\ Then(f, d) \in Bytes
  BY <1>3, <1>6, ThenBytes DEF Coming
<1>16. /\ ~D(Inner(c)).gone /\ (D(Inner(c)).fin => Finished(Inner(c)))
       /\ thread[c].part = <<>>
       /\ thread[c].cachable => Then(Then(obj, <<>>), Then(u, Then(f, d))) = sent[Inner(c)]
       /\ ~D(Outer(c)).gone => Then(Then(told, <<>>), Then(u, Then(f, d))) = sent[Inner(c)]
  BY <1>1, <1>14, <1>15 DEF HInv, RelayInv, Relaying, Out
<1>17. Finished(Inner(c))' <=> Finished(Inner(c))
  BY <1>1 DEF Finished, Waits, tinyVars
<1>18. FreshInv(c)'
  BY <1>10, <1>12 DEF FreshInv, Unconnected
<1>19. RelayInv(c)'
  <2>1. CASE r.rc = "more"
    <3>1. t.srio = r.rp /\ t.part = <<>> /\ t.pc = "response" /\ t.cachable = thread[c].cachable
      BY <1>5, <1>16, <2>1 DEF AfterRead
    <3>2. Coming(c)' = Then(u, Then(f, d)) /\ Out(c)' = <<>> /\ Told(c)' = told
      BY <1>6, <1>9, <1>12, <1>13, <1>14, <3>1 DEF Coming, Out
    <3>3. ~D(Inner(c))'.gone /\ (D(Inner(c))'.fin => Finished(Inner(c))')
      BY <1>3, <1>9, <1>16, <1>17, <2>1
    <3>4. /\ t.cachable => Then(Then(t.obj, t.part), Coming(c)') = sent'[Inner(c)]
          /\ ~D(Outer(c))'.gone => Then(Then(Told(c)', Out(c)'), Coming(c)') = sent'[Inner(c)]
      BY <1>10, <1>11, <1>13, <1>14, <1>16, <3>1, <3>2 DEF Moves
    <3> QED BY <1>12, <3>1, <3>3, <3>4 DEF RelayInv
  <2>2. CASE r.rc = "data"
    <3>1. /\ t.srio = Restart(r.rp) /\ t.part = u /\ t.out = u /\ t.pc = "reply"
          /\ t.next = "response" /\ t.cachable = thread[c].cachable
      BY <1>5, <1>6, <2>2 DEF AfterRead
    <3>2. Coming(c)' = Then(<<>>, Then(f, d)) /\ Out(c)' = u /\ Told(c)' = told
      BY <1>6, <1>7, <1>9, <1>12, <1>13, <1>14, <3>1 DEF Coming, Out
    <3>3. ~D(Inner(c))'.gone /\ (D(Inner(c))'.fin => Finished(Inner(c))')
      BY <1>3, <1>9, <1>16, <1>17, <2>2
    <3>4. \A x \in Bytes : Then(Then(x, u), Then(<<>>, Then(f, d))) = Then(Then(x, <<>>), Then(u, Then(f, d)))
      <4> TAKE x \in Bytes
      <4> QED BY <1>15, PassedOn
    <3>5. /\ t.cachable => Then(Then(t.obj, t.part), Coming(c)') = sent'[Inner(c)]
          /\ ~D(Outer(c))'.gone => Then(Then(Told(c)', Out(c)'), Coming(c)') = sent'[Inner(c)]
      BY <1>10, <1>11, <1>13, <1>14, <1>16, <3>1, <3>2, <3>4 DEF Moves
    <3>6. t.srio.usr = <<>>
      BY <1>7, <3>1
    <3> QED BY <1>12, <3>1, <3>3, <3>5, <3>6 DEF RelayInv
  <2>3. CASE r.rc = "eof"
    <3>1. t.pc = "insert" /\ t.cachable = thread[c].cachable
      BY <1>5, <2>3 DEF AfterRead
    <3>2. u = <<>> /\ f = <<>> /\ d = <<>> /\ D(Inner(c)).fin
      BY <1>3, <1>6, <2>3
    <3>3. Then(<<>>, <<>>) = <<>> /\ Then(obj, <<>>) = obj
      BY NoBytes, ThenNothing
    <3>4. t.cachable => t.obj = sent'[Inner(c)] /\ Finished(Inner(c))'
      BY <1>10, <1>11, <1>14, <1>16, <1>17, <3>1, <3>2, <3>3 DEF Moves
    <3> QED BY <1>12, <3>1, <3>4 DEF RelayInv, Relaying
  <2>4. CASE r.rc = "error"
    <3>1. t.pc = "insert" /\ ~t.cachable
      BY <1>5, <2>4 DEF AfterRead
    <3> QED BY <1>12, <3>1 DEF RelayInv, Relaying
  <2> QED BY <1>3, <2>1, <2>2, <2>3, <2>4
<1>20. AnswerInv(c)'
  <2>1. Answer(c, told)'
    BY <1>1, <1>10, <1>12, <1>14, AnswerKept DEF HInv, AnswerInv
  <2>2. ~(t.pc = "reply" /\ t.next = "close")
    BY <1>3, <1>5 DEF AfterRead
  <2> QED BY <1>12, <1>13, <1>14, <2>1, <2>2 DEF AnswerInv
<1> QED BY <1>1, <1>10, <1>11, <1>18, <1>19, <1>20, OwnStep DEF tinyVars

(* The record of a thread, once it has written a part of a reply.          *)
AfterReply(s, rest, t) ==
  /\ DOMAIN t = ThreadFields
  /\ t.srio = s.srio /\ t.uri = s.uri
  /\ \/ /\ t.pc = "reply" /\ t.out = rest /\ t.next = s.next
        /\ t.part = s.part /\ t.obj = s.obj /\ t.cachable = s.cachable
     \/ /\ t.pc = s.next /\ t.part = <<>> /\ rest = <<>>
        /\ t.obj \in {s.obj, Then(s.obj, s.part)}
        /\ t.cachable => s.cachable /\ t.obj = Then(s.obj, s.part)

LEMMA ReplyRecord ==
  ASSUME NEW s, DOMAIN s = ThreadFields, s.pc = "reply", NEW rest, NEW t,
         \/ t = [s EXCEPT !.out = rest]
         \/ t = [Saved(s) EXCEPT !.out = <<>>, !.pc = s.next] /\ rest = <<>>
  PROVE  AfterReply(s, rest, t)
<1>1. CASE t = [s EXCEPT !.out = rest]
  <2>1. /\ DOMAIN t = ThreadFields /\ t.srio = s.srio /\ t.uri = s.uri
        /\ t.pc = "reply" /\ t.out = rest /\ t.next = s.next
        /\ t.part = s.part /\ t.obj = s.obj /\ t.cachable = s.cachable
    BY <1>1 DEF ThreadFields
  <2> QED BY <2>1 DEF AfterReply
<1>2. CASE t = [Saved(s) EXCEPT !.out = <<>>, !.pc = s.next] /\ rest = <<>>
  <2> DEFINE obj == Then(s.obj, s.part)
  <2>1. Saved(s) \in {[s EXCEPT !.obj = obj, !.part = <<>>],
                      [s EXCEPT !.cachable = FALSE, !.part = <<>>]}
    BY DEF Saved, Then
  <2> HIDE DEF obj
  <2>2. CASE Saved(s) = [s EXCEPT !.obj = obj, !.part = <<>>]
    <3>1. t = [s EXCEPT !.obj = obj, !.part = <<>>, !.out = <<>>, !.pc = s.next]
      BY <1>2, <2>2
    <3>2. /\ DOMAIN t = ThreadFields /\ t.srio = s.srio /\ t.uri = s.uri
          /\ t.pc = s.next /\ t.part = <<>> /\ t.obj = obj /\ t.cachable = s.cachable
      BY <3>1 DEF ThreadFields
    <3> QED BY <1>2, <3>2 DEF AfterReply, obj
  <2>3. CASE Saved(s) = [s EXCEPT !.cachable = FALSE, !.part = <<>>]
    <3>1. t = [s EXCEPT !.cachable = FALSE, !.part = <<>>, !.out = <<>>, !.pc = s.next]
      BY <1>2, <2>3
    <3>2. /\ DOMAIN t = ThreadFields /\ t.srio = s.srio /\ t.uri = s.uri
          /\ t.pc = s.next /\ t.part = <<>> /\ t.obj = s.obj /\ ~t.cachable
      BY <3>1 DEF ThreadFields
    <3> QED BY <1>2, <3>2 DEF AfterReply
  <2> QED BY <2>1, <2>2, <2>3
<1> QED BY <1>1, <1>2

(* A thread writes to its client.                                          *)
LEMMA ReplyKeeps ==
  ASSUME HInv, NEW c \in Relayed, Reply(c), UNCHANGED client
  PROVE  HInv'
<1> DEFINE s == thread[c]
           l == Outer(c)
<1>1. /\ DOMAIN s = ThreadFields /\ ThreadOK(s) /\ DOMAIN thread = Client
      /\ s.pc = "reply" /\ UNCHANGED <<cache, tinyVars>> /\ PipesOK(pipe)
      /\ Outer(c) \in Link /\ Inner(c) \in Link /\ Outer(c) # Inner(c)
  BY ServableLinks, Links DEF HInv, ShapeOK, PipeOK, ThreadOK, Reply
<1>2. PICK n \in WriteSizes(pipe, Down(l), s.out) :
         /\ pipe' = Written(pipe, Down(l), SubSeq(s.out, 1, n))
         /\ Goes(c, IF n < Len(s.out)
                    THEN [s EXCEPT !.out = Drop(@, n)]
                    ELSE [Saved(s) EXCEPT !.out = <<>>, !.pc = s.next])
  BY DEF Reply
<1>3. PICK out \in Bytes : out = s.out
  BY <1>1 DEF ThreadOK
<1>4. /\ n \in 1 .. Len(out)
      /\ ~pipe[Down(l)].gone => Len(pipe[Down(l)].data) + n <= SOCKBUF
  BY <1>1, <1>2, <1>3, Sizes
<1>5. PICK b \in Bytes, rest \in Bytes :
         /\ b = SubSeq(out, 1, n) /\ rest = Drop(out, n) /\ Len(b) = n
         /\ Then(b, rest) = out /\ (n = Len(out) => rest = <<>>)
  <2>1. n \in 0 .. Len(out)
    BY <1>4, Lengths
  <2>2. out \in Bytes OBVIOUS
  <2>3. /\ SubSeq(out, 1, n) \in Bytes /\ Len(SubSeq(out, 1, n)) = n /\ Drop(out, n) \in Bytes
        /\ Then(SubSeq(out, 1, n), Drop(out, n)) = out
        /\ n = Len(out) => Drop(out, n) = <<>>
    BY ONLY <2>1, <2>2, Cut
  <2> QED BY ONLY <2>3
<1>6. PICK t : thread' = [thread EXCEPT ![c] = t] /\ AfterReply(s, rest, t)
  <2>1. PICK t : /\ thread' = [thread EXCEPT ![c] = t]
                 /\ \/ t = [s EXCEPT !.out = rest]
                    \/ t = [Saved(s) EXCEPT !.out = <<>>, !.pc = s.next] /\ rest = <<>>
    <3>1. n < Len(out) \/ n = Len(out)
      BY <1>4, Lengths
    <3>2. CASE n < Len(out)
      <4>1. thread' = [thread EXCEPT ![c] = [s EXCEPT !.out = rest]]
        BY <1>2, <1>3, <1>5, <3>2 DEF Goes
      <4> HIDE DEF s
      <4> QED BY <4>1
    <3>3. CASE n = Len(out)
      <4>1. ~(n < Len(s.out))
        BY <1>3, <3>3, Lengths
      <4>2. thread' = [thread EXCEPT ![c] = [Saved(s) EXCEPT !.out = <<>>, !.pc = s.next]]
        BY <1>2, <4>1, Zenon DEF Goes
      <4> HIDE DEF s
      <4> QED BY <1>5, <3>3, <4>2
    <3> QED BY <3>1, <3>2, <3>3
  <2> HIDE DEF s
  <2>2. AfterReply(s, rest, t)
    BY <1>1, <2>1, ReplyRecord
  <2> QED BY <2>1, <2>2
<1>7. /\ PipesOK(pipe')
      /\ D(l)'.data = IF D(l).gone THEN D(l).data ELSE Then(D(l).data, b)
      /\ D(l)'.gone = D(l).gone
      /\ \A k \in Link \ {l} : Same(pipe, pipe', k)
  <2> DEFINE qs == Written(pipe, Down(l), b)
  <2>1. ~pipe[Down(l)].gone => Len(pipe[Down(l)].data) + Len(b) <= SOCKBUF
    BY <1>4, <1>5
  <2>2. /\ PipesOK(qs)
        /\ qs[Down(l)].data = IF pipe[Down(l)].gone THEN pipe[Down(l)].data
                              ELSE Then(pipe[Down(l)].data, b)
        /\ qs[Down(l)].fin = pipe[Down(l)].fin /\ qs[Down(l)].gone = pipe[Down(l)].gone
        /\ \A k \in Link \ {l} : Same(pipe, qs, k)
    BY <1>1, <2>1, WriteDown
  <2>3. pipe' = qs
    BY <1>2, <1>3, <1>5
  <2> HIDE DEF qs
  <2> QED BY <2>2, <2>3 DEF D
<1>8. PICK obj \in Bytes, part \in Bytes : obj = s.obj /\ part = s.part
  BY <1>1 DEF ThreadOK
<1>9. Then(obj, part) \in Bytes
  BY ThenBytes
<1>10. ThreadOK(t)
  BY <1>1, <1>6, <1>8, <1>9, NoBytes DEF ThreadOK, AfterReply
<1>11. t.uri = s.uri /\ t.srio = s.srio /\ t.pc \in {"reply", "close", "response"}
  BY <1>1, <1>6 DEF AfterReply, ThreadOK
<1>12. Moves(c, t)
  BY <1>1, <1>6, <1>7, <1>10, <1>11 DEF Moves, tinyVars
<1>13. /\ ShapeOK' /\ Grows /\ thread'[c] = t /\ sent' = sent /\ client' = client
  BY <1>12, MoveShape DEF Moves
<1>14. PICK told \in Bytes, coming \in Bytes, all \in Bytes :
          told = Told(c) /\ coming = Coming(c) /\ all = sent[Inner(c)]
  BY StreamTypes, ServableLinks DEF HInv
<1>15. Told(c)' = IF D(l).gone THEN told ELSE Then(told, b)
  <2>1. PICK got \in Bytes, data \in Bytes : got = client[c].got /\ data = D(l).data
    BY StreamTypes, ServableLinks DEF HInv
  <2>2. Then(Then(got, data), b) = Then(got, Then(data, b))
    BY Associates
  <2> QED BY <1>7, <1>13, <1>14, <2>1, <2>2 DEF Told
<1>16. /\ Coming(c)' = coming /\ D(Inner(c))'.gone = D(Inner(c)).gone
       /\ D(Inner(c))'.fin = D(Inner(c)).fin
  <2>1. Same(pipe, pipe', Inner(c))
    BY <1>1, <1>7
  <2> QED BY <1>11, <1>13, <1>14, <2>1 DEF Coming, Same, D
<1>17. Then(Then(told, b), rest) = Then(told, out) /\ Then(told, b) \in Bytes /\ Then(told, out) \in Bytes
  BY <1>5, Associates, ThenBytes
<1>18. s.next = "response" =>
         /\ ~D(Inner(c)).gone /\ (D(Inner(c)).fin => Finished(Inner(c)))
         /\ s.srio.usr = <<>>
         /\ s.cachable => Then(Then(obj, part), coming) = all
         /\ ~D(l).gone => Then(Then(told, out), coming) = all
  BY <1>1, <1>3, <1>8, <1>14 DEF HInv, RelayInv, Relaying, Out
<1>19. ~D(l).gone => Answer(c, Then(told, out))
  <2>1. CASE s.next = "close"
    BY <1>1, <1>3, <1>14, <2>1 DEF HInv, AnswerInv
  <2>2. CASE s.next = "response" /\ ~D(l).gone
    <3>1. IsPrefix(Then(told, out), all)
      BY <1>17, <1>18, <2>2, PrefixThen
    <3> QED BY <1>1, <1>14, <3>1 DEF Answer
  <2> QED BY <1>1, <2>1, <2>2 DEF ThreadOK
<1>20. AnswerInv(c)'
  <2>1. CASE D(l).gone
    <3>1. Answer(c, told)'
      BY <1>11, <1>13, <1>14, AnswerKept DEF HInv, AnswerInv
    <3> QED BY <1>7, <1>13, <1>15, <2>1, <3>1 DEF AnswerInv
  <2>2. CASE ~D(l).gone
    <3>1. Answer(c, Then(told, b))
      <4>1. PICK x \in Bytes, y \in Bytes : x = Then(told, b) /\ y = Then(told, out)
        BY <1>17
      <4>2. IsPrefix(x, y)
        BY <1>17, <4>1, PrefixThen
      <4> QED BY <1>19, <2>2, <4>1, <4>2, AnswerShorter DEF HInv
    <3>2. PICK x \in Bytes, y \in Bytes : x = Then(told, b) /\ y = Then(told, out)
      BY <1>17
    <3>3. Answer(c, x)' /\ Answer(c, y)'
      BY <1>11, <1>13, <1>19, <2>2, <3>1, <3>2, AnswerKept DEF HInv
    <3>4. Told(c)' = x
      BY <1>15, <2>2, <3>2
    <3>5. t.pc = "reply" => Then(Told(c)', t.out) = y
      <4>1. t.pc = "reply" => t.out = rest
        BY <1>1, <1>6 DEF AfterReply, ThreadOK
      <4> QED BY <1>17, <3>2, <3>4, <4>1
    <3>6. Answer(c, Told(c))'
      BY <3>3, <3>4
    <3> QED BY <1>13, <3>3, <3>5, <3>6 DEF AnswerInv
  <2> QED BY <2>1, <2>2
<1>21. FreshInv(c)'
  BY <1>11, <1>13 DEF FreshInv, Unconnected
<1>22. Finished(Inner(c))' <=> Finished(Inner(c))
  BY <1>1 DEF Finished, Waits, tinyVars
<1>23. RelayInv(c)'
  <2>1. CASE t.pc = "reply"
    <3>1. /\ t.out = rest /\ t.next = s.next /\ t.part = part /\ t.obj = obj
          /\ t.cachable = s.cachable
      BY <1>1, <1>6, <1>8, <2>1 DEF AfterReply, ThreadOK
    <3>2. CASE s.next = "close"
      BY <1>13, <2>1, <3>1, <3>2 DEF RelayInv, Relaying
    <3>3. CASE s.next = "response"
      <4>1. Out(c)' = rest
        BY <1>13, <2>1, <3>1 DEF Out
      <4>2. ~D(l)'.gone => Then(Then(Told(c)', Out(c)'), Coming(c)') = sent'[Inner(c)]
        BY <1>7, <1>13, <1>14, <1>15, <1>16, <1>17, <1>18, <3>3, <4>1
      <4>3. t.cachable => Then(Then(t.obj, t.part), Coming(c)') = sent'[Inner(c)]
        BY <1>13, <1>14, <1>16, <1>18, <3>1, <3>3
      <4>4. ~D(Inner(c))'.gone /\ (D(Inner(c))'.fin => Finished(Inner(c))')
        BY <1>16, <1>18, <1>22, <3>3
      <4> QED BY <1>11, <1>13, <1>18, <2>1, <3>3, <4>2, <4>3, <4>4 DEF RelayInv
    <3> QED BY <1>1, <3>2, <3>3 DEF ThreadOK
  <2>2. CASE t.pc = "response"
    <3>1. /\ s.next = "response" /\ t.part = <<>> /\ rest = <<>>
          /\ t.cachable => s.cachable /\ t.obj = Then(obj, part)
      BY <1>6, <1>8, <2>2 DEF AfterReply
    <3>2. Out(c)' = <<>>
      BY <1>13, <2>2 DEF Out
    <3>3. ~D(l)'.gone => Then(Then(Told(c)', Out(c)'), Coming(c)') = sent'[Inner(c)]
      BY <1>7, <1>13, <1>14, <1>15, <1>16, <1>17, <1>18, <3>1, <3>2
    <3>4. Then(Then(obj, part), <<>>) = Then(obj, part)
      BY <1>9, ThenNothing
    <3>5. t.cachable => Then(Then(t.obj, t.part), Coming(c)') = sent'[Inner(c)]
      BY <1>13, <1>14, <1>16, <1>18, <3>1, <3>4
    <3>6. ~D(Inner(c))'.gone /\ (D(Inner(c))'.fin => Finished(Inner(c))')
      BY <1>16, <1>18, <1>22, <3>1
    <3> QED BY <1>13, <2>2, <3>1, <3>3, <3>5, <3>6 DEF RelayInv
  <2>3. CASE t.pc = "close"
    BY <1>13, <2>3 DEF RelayInv, Relaying
  <2> QED BY <1>11, <2>1, <2>2, <2>3
<1> QED BY <1>1, <1>11, <1>12, <1>20, <1>21, <1>23, OwnStep DEF tinyVars

(* A thread caches the response.                                           *)
LEMMA InsertKeeps ==
  ASSUME HInv, NEW c \in Relayed, Insert(c), UNCHANGED client
  PROVE  HInv'
<1> DEFINE s == thread[c]
           t == [s EXCEPT !.pc = "close"]
<1>1. /\ DOMAIN s = ThreadFields /\ ThreadOK(s) /\ DOMAIN thread = Client
      /\ s.pc = "insert" /\ UNCHANGED tinyVars /\ PipesOK(pipe)
      /\ Outer(c) \in Link /\ Inner(c) \in Link /\ Outer(c) # Inner(c)
      /\ thread' = [thread EXCEPT ![c] = t]
  BY ServableLinks, Links DEF HInv, ShapeOK, PipeOK, ThreadOK, Insert, Goes
<1>2. /\ DOMAIN t = ThreadFields /\ t.srio = s.srio /\ t.obj = s.obj
      /\ t.part = s.part /\ t.uri = s.uri /\ t.pc = "close"
  BY <1>1 DEF ThreadFields
<1> HIDE DEF t
<1>3. ThreadOK(t)
  BY <1>1, <1>2 DEF ThreadOK
<1>4. /\ PipesOK(pipe') /\ \A l \in Link \ {Inner(c)} : Same(pipe, pipe', l)
  <2>1. PICK abort \in BOOLEAN : abort = FALSE
    OBVIOUS
  <2> DEFINE qs == ClosedBy(pipe, Down(Inner(c)), Up(Inner(c)), abort)
  <2>2. PipesOK(qs) /\ \A l \in Link \ {Inner(c)} : Same(pipe, qs, l)
    BY <1>1, ClientCloses
  <2>3. pipe' = qs
    BY <2>1 DEF Insert, ClosedByClient
  <2> HIDE DEF qs
  <2> QED BY <2>2, <2>3
<1>5. Moves(c, t)
  BY <1>1, <1>2, <1>3, <1>4 DEF Moves, tinyVars
<1>6. Told(c)' = Told(c)
  BY <1>1, <1>4 DEF Told, Same, D
<1>7. FreshInv(c)' /\ RelayInv(c)' /\ AnswerInv(c)'
  BY <1>1, <1>2, <1>5, <1>6, LeavesLoop DEF Unconnected
<1>8. thread'[c] = t /\ \A d \in Client \ {c} : thread'[d] = thread[d]
  BY <1>5, MoveShape
<1>9. ServedInv' /\ \A d \in Relayed : Finished(Inner(d)) => Finished(Inner(d))'
  <2>1. \A d \in Relayed : Unconnected(d)' => Unconnected(d)
    BY <1>2, <1>8, ServableLinks DEF Unconnected
  <2> QED BY <1>1, <2>1, ServedKept DEF HInv, tinyVars
<1>10. CacheInv'
  <2> DEFINE u == s.uri
  <2>1. CASE s.cachable /\ u \notin DOMAIN cache /\ DOMAIN cache' = DOMAIN cache \cup {u}
             /\ (\A v \in DOMAIN cache : cache'[v] = cache[v]) /\ cache'[u] = s.obj
    <3>1. s.obj = sent[Inner(c)] /\ Finished(Inner(c))
      BY <1>1, <2>1 DEF HInv, RelayInv
    <3>2. /\ thread'[c].pc \in {"close", "done"} /\ thread'[c].uri = u
          /\ cache'[u] = sent'[Inner(c)] /\ Finished(Inner(c))'
      BY <1>1, <1>2, <1>8, <1>9, <2>1, <3>1 DEF tinyVars
    <3>3. \E d \in Relayed : /\ thread'[d].pc \in {"close", "done"} /\ thread'[d].uri = u
                             /\ cache'[u] = sent'[Inner(d)] /\ Finished(Inner(d))'
      BY <3>2
    <3>4. ASSUME NEW v \in DOMAIN cache
          PROVE  \E d \in Relayed : /\ thread'[d].pc \in {"close", "done"} /\ thread'[d].uri = v
                                    /\ cache'[v] = sent'[Inner(d)] /\ Finished(Inner(d))'
      <4>1. PICK d \in Relayed : Complete(d, v, cache[v])
        BY DEF HInv, CacheInv
      <4>2. d # c /\ thread'[d] = thread[d] /\ sent' = sent
        BY <1>1, <1>8, <4>1, ServableLinks DEF Complete, tinyVars
      <4> QED BY <1>9, <2>1, <4>1, <4>2 DEF Complete
    <3> HIDE DEF u
    <3> QED BY <2>1, <3>3, <3>4 DEF CacheInv, Complete
  <2>2. CASE cache' = cache
    <3>1. ASSUME NEW d \in Relayed, thread[d].pc \in {"close", "done"} PROVE thread'[d] = thread[d]
      BY <1>1, <1>8, <3>1, ServableLinks
    <3> QED BY <1>1, <1>9, <2>2, <3>1, CacheKept DEF HInv, tinyVars
  <2> QED BY <2>1, <2>2 DEF Insert, CacheKey
<1> QED BY <1>5, <1>7, <1>9, <1>10, MoveFrame

-----------------------------------------------------------------------------
(* The theorems                                                            *)

LEMMA InitHolds ==
  ASSUME Init
  PROVE  HInv
<1>1. /\ pipe = [p \in Link \X Way |->
                   [data |-> <<>>, fin |-> FALSE, rst |-> FALSE, gone |-> FALSE]]
      /\ backlog = <<>> /\ tiny = TinyIdle /\ sent = [l \in Link |-> <<>>]
      /\ thread = [c \in Client |-> ThreadStart] /\ DOMAIN cache = {}
      /\ client = [c \in Client |-> [pc |-> IF request[c] = <<>> THEN "done"
                                            ELSE IF c \in Direct THEN "connect" ELSE "send",
                                     left |-> request[c], got |-> <<>>]]
  BY DEF Init, PipeInit, TinyInit, ServeInit, Way
<1>2. \A l \in Link : D(l) = [data |-> <<>>, fin |-> FALSE, rst |-> FALSE, gone |-> FALSE]
  BY <1>1, Ends DEF D
<1>3. PipesOK(pipe)
  <2>1. \A l \in Link : D(l) \in DownPipe /\ Len(D(l).data) <= SOCKBUF
    <3>1. PICK none \in Bytes : none = <<>>
      BY NoBytes
    <3> DEFINE empty == [data |-> none, fin |-> FALSE, rst |-> FALSE, gone |-> FALSE]
    <3>2. empty \in DownPipe /\ empty.data = none
      BY DEF DownPipe
    <3>3. Len(none) <= SOCKBUF
      BY <3>1, NoBytes, RioAssumption
    <3>4. \A l \in Link : D(l) = empty
      BY <1>2, <3>1
    <3> HIDE DEF empty
    <3> QED BY <3>2, <3>3, <3>4
  <2> QED BY <1>1, <2>1 DEF PipesOK, D
<1>4. ThreadOK(ThreadStart) /\ ThreadStart.pc = "request" /\ ThreadStart.srio = rio_readinitb
      /\ ThreadStart.obj = <<>> /\ ThreadStart.part = <<>>
  BY NoBytes, TinyAssumption DEF ThreadStart, ThreadOK, ThreadFields, Reader, rio_readinitb
<1>5. TinyShape(TinyIdle) /\ TinyIdle.pc = "accept"
  BY DEF TinyIdle, TinyShape, TinyFields
<1>6. ClientOK
  BY <1>1, NoBytes DEF ClientOK
<1>7. ShapeOK
  BY <1>1, <1>3, <1>4, <1>5, <1>6, NoBytes DEF ShapeOK, PipeOK, TinyOK
<1>8. \A l : ~Waits(l)
  BY <1>1 DEF Waits
<1>9. ServedInv
  <2>1. backlog \in Seq(Servable)
    BY <1>1, EmptySeq
  <2>2. \A i, j \in DOMAIN backlog : i = j
    BY <1>1
  <2> QED BY <1>1, <1>5, <1>8, <2>1, <2>2, IdleLink DEF ServedInv
<1>10. Then(<<>>, <<>>) = <<>> /\ IsPrefix(<<>>, <<>>)
  BY NoBytes, ThenNothing, PrefixOrder
<1>11. \A c \in Client : Told(c) = <<>>
  BY <1>1, <1>2, <1>10, Links DEF Told
<1>12. \A c \in Relayed : FreshInv(c)
  BY <1>1, <1>2, <1>4, <1>11, Links, ServableLinks DEF FreshInv
<1>13. \A c \in Relayed : RelayInv(c)
  BY <1>1, <1>4, ServableLinks DEF RelayInv, Relaying
<1>14. ASSUME NEW c \in Relayed PROVE AnswerInv(c)
  <2>1. PICK code \in {"400", "501"} : ErrorPage(code) \in Bytes
    BY ErrorPages
  <2>2. IsPrefix(<<>>, ErrorPage(code))
    BY <2>1, PrefixOrder
  <2>3. Answer(c, <<>>)
    BY <2>2, Zenon DEF Answer
  <2> QED BY <1>1, <1>4, <1>11, <2>3, ServableLinks DEF AnswerInv
<1>15. \A c \in Direct : DirectInv(c)
  BY <1>1, <1>10, <1>11, Links, ServableLinks DEF DirectInv
<1>16. CacheInv
  BY <1>1 DEF CacheInv
<1> QED BY <1>7, <1>9, <1>12, <1>13, <1>14, <1>15, <1>16 DEF HInv

LEMMA ThreadKeeps ==
  ASSUME HInv, NEW c \in Client, ThreadStep(c)
  PROVE  HInv'
<1>1. c \in Relayed /\ UNCHANGED client /\ ServeNext(c)
  BY DEF ThreadStep, Relayed
<1>2. \/ ReadRequest(c) \/ ReadHeaders(c) \/ Lookup(c)
      \/ Connect(c) \/ Forward(c) \/ ForwardFails(c)
      \/ ReadResponse(c) \/ Reply(c) \/ ReplyFails(c) \/ Insert(c) \/ Close(c)
  BY <1>1 DEF ServeNext
<1>3. CASE ReadRequest(c) \/ ReadHeaders(c)
  BY <1>1, <1>3, RequestKeeps
<1>4. CASE Lookup(c)
  BY <1>1, <1>4, LookupKeeps
<1>5. CASE Connect(c)
  BY <1>1, <1>5, ReachKeeps
<1>6. CASE Forward(c)
  BY <1>1, <1>6, ForwardKeeps
<1>7. CASE ForwardFails(c) \/ ReplyFails(c) \/ Close(c)
  BY <1>1, <1>7, GiveUpKeeps
<1>8. CASE ReadResponse(c)
  BY <1>1, <1>8, ReadKeeps
<1>9. CASE Reply(c)
  BY <1>1, <1>9, ReplyKeeps
<1>10. CASE Insert(c)
  BY <1>1, <1>10, InsertKeeps
<1> QED BY <1>2, <1>3, <1>4, <1>5, <1>6, <1>7, <1>8, <1>9, <1>10

LEMMA NextKeeps ==
  ASSUME HInv, [Next]_vars
  PROVE  HInv'
<1>1. CASE UNCHANGED vars
  <2>1. ShapeOK'
    BY <1>1 DEF HInv, ShapeOK, PipeOK, TinyOK, ThreadOK, ClientOK, vars, tinyVars, serveVars
  <2>2. \A c \in Relayed : Unconnected(c)' => Unconnected(c)
    BY <1>1 DEF Unconnected, vars, serveVars
  <2>3. ServedInv' /\ \A c \in Relayed : Finished(Inner(c)) => Finished(Inner(c))'
    BY <1>1, <2>2, ServedKept DEF HInv, vars, tinyVars
  <2>4. \A c \in Client : Hears(c)
    BY <1>1, HearsNothing DEF HInv, D, vars
  <2>5. \A c \in Relayed : Untouched(c)
    BY <1>1, <2>3, <2>4, ServableLinks DEF Untouched, D, vars, tinyVars, serveVars
  <2> QED BY <1>1, <2>1, <2>3, <2>4, <2>5, QuietStep, ServableLinks DEF vars, tinyVars, serveVars
<1>2. CASE TinyStep
  BY <1>2, TinyKeeps
<1>3. ASSUME NEW c \in Client, ClientStep(c) PROVE HInv'
  <2>1. CASE ClientConnect(c)
    BY <2>1, ConnectKeeps
  <2>2. CASE ClientSend(c) \/ ClientSendFails(c)
    <3>1. UNCHANGED <<tinyVars, serveVars>>
      BY <2>2 DEF ClientSend, ClientSendFails
    <3> QED BY <2>2, <3>1, SendKeeps
  <2>3. CASE ClientReceive(c)
    BY <2>3, ReceiveKeeps
  <2> QED BY <1>3, <2>1, <2>2, <2>3 DEF ClientStep
<1>4. ASSUME NEW c \in Client, ClientGoes(c) PROVE HInv'
  BY <1>4, GoKeeps
<1>5. ASSUME NEW c \in Client, ThreadStep(c) PROVE HInv'
  BY <1>5, ThreadKeeps
<1> QED BY <1>1, <1>2, <1>3, <1>4, <1>5, Zenon DEF Next

(* In every state: what Tiny has sent on a connection of the proxy, the    *)
(* thread of serve has passed on or is about to, in order and whole; what  *)
(* it has copied for the cache is the same; a connection whose end it has  *)
(* seen is one that Tiny has finished.                                     *)
THEOREM StreamsInvariant == Spec => []HInv
<1>1. Init => HInv
  BY InitHolds
<1>2. HInv /\ [Next]_vars => HInv'
  BY NextKeeps
<1> QED BY <1>1, <1>2, PTL DEF Spec

LEMMA CacheInvSays ==
  ASSUME HInv
  PROVE  CachedIsComplete
<1> SUFFICES ASSUME NEW u \in DOMAIN cache
             PROVE  \E c \in Client \ Direct :
                      /\ thread[c].uri = u
                      /\ cache[u] = sent[Inner(c)]
                      /\ ~\E i \in DOMAIN backlog : backlog[i] = Inner(c)
                      /\ tiny.link = Inner(c) => tiny.pc = "dead"
  BY DEF CachedIsComplete
<1>1. PICK c \in Relayed : Complete(c, u, cache[u])
  BY DEF HInv, CacheInv
<1> QED BY <1>1 DEF Complete, Finished, Waits, Relayed

LEMMA StreamsSay ==
  ASSUME HInv
  PROVE  AnswersItsRequest
<1> SUFFICES ASSUME NEW c \in Client
             PROVE  \/ \E code \in {"400", "501"} : IsPrefix(client[c].got, ErrorPage(code))
                    \/ c \in Direct /\ IsPrefix(client[c].got, sent[Outer(c)])
                    \/ c \notin Direct /\ \E d \in Client \ Direct :
                         thread[d].uri = thread[c].uri /\ IsPrefix(client[c].got, sent[Inner(d)])
  BY DEF AnswersItsRequest
<1>1. PICK got \in Bytes, data \in Bytes, told \in Bytes, all \in Bytes :
         /\ got = client[c].got /\ data = D(Outer(c)).data /\ told = Told(c)
         /\ all = sent[Outer(c)]
  BY StreamTypes DEF HInv
<1>2. told = Then(got, data)
  BY <1>1 DEF Told
<1>3. IsPrefix(got, told)
  BY <1>2, PrefixThen
<1>4. CASE c \in Direct
  <2>1. IsPrefix(told, all)
    BY <1>1, <1>4 DEF HInv, DirectInv
  <2>2. IsPrefix(got, all)
    BY <1>3, <2>1, PrefixOrder
  <2> QED BY <1>1, <1>4, <2>2
<1>5. CASE c \notin Direct
  <2>1. c \in Relayed
    BY <1>5 DEF Relayed
  <2>2. Answer(c, told)
    BY <1>1, <2>1 DEF HInv, AnswerInv
  <2>3. Answer(c, got)
    BY <1>3, <2>1, <2>2, AnswerShorter DEF HInv
  <2> QED BY <1>1, <1>5, <2>3, Zenon DEF Answer, Relayed
<1> QED BY <1>4, <1>5

(* Whatever clients go, whenever Tiny is killed or a connection is reset:  *)
(* a response is in the cache only if it is all that Tiny and its child    *)
(* have written, and will write, on a connection for that uri.             *)
THEOREM OnlyWholeResponses == Spec => []CachedIsComplete
<1>1. HInv => CachedIsComplete
  BY CacheInvSays
<1> QED BY <1>1, StreamsInvariant, PTL

(* A client never receives a byte that is not in its place in an answer to *)
(* its own request: nothing of serve's response loop, of rio_readnb's      *)
(* buffer, of the cache or of the copy for it is lost, doubled or mixed.   *)
THEOREM NoStrangeBytes == Spec => []AnswersItsRequest
<1>1. HInv => AnswersItsRequest
  BY StreamsSay
<1> QED BY <1>1, StreamsInvariant, PTL

-----------------------------------------------------------------------------
(* The lines of a request                                                  *)

NoNewline(s) == \A i \in 1 .. Len(s) : ~IsNewline(s[i])
Never(s, h) == \A i \in 1 .. Len(s) : s[i] # h
Once(s, h) == \E i \in 1 .. Len(s) : \A j \in 1 .. Len(s) : s[j] = h <=> j = i
Nameless(s) == \A h \in OwnNames : Never(s, h)

(* One line and its newline.                                               *)
IsLine(s) ==
  /\ s # <<>> /\ IsNewline(s[Len(s)])
  /\ \A i \in 1 .. (Len(s) - 1) : ~IsNewline(s[i])
  /\ \A i \in 1 .. Len(s) : s[i] # NUL /\ (s[i] \in OwnNames => i = 1)

(* Lines one after the other, none of them empty.                          *)
FullLines(s) ==
  s # <<>> =>
    /\ ~IsNewline(s[1]) /\ IsNewline(s[Len(s)])
    /\ \A i \in 2 .. Len(s) : ~(IsNewline(s[i - 1]) /\ IsNewline(s[i]))

(* No line, or the one of the Host header.                                 *)
HostLine(s) ==
  s # <<>> => FullLines(s) /\ s[1] = "host:" /\ \A i \in 2 .. Len(s) : s[i] \notin OwnNames

WellFormed(s) == EndsOnce(s) /\ \A h \in OwnNames : Count(s, h) = 1

(* u is s and t, a and b bytes of it: where the bytes of either are.       *)
Joined(s, t, u, a, b) ==
  /\ u = Then(s, t) /\ a = Len(s) /\ b = Len(t) /\ Len(u) = a + b
  /\ \A i \in 1 .. a : u[i] = s[i]
  /\ \A i \in 1 .. b : u[a + i] = t[i]
  /\ \A i \in 1 .. a + b : \/ i \in 1 .. a /\ u[i] = s[i]
                           \/ i - a \in 1 .. b /\ u[i] = t[i - a]

LEMMA Places ==
  ASSUME NEW s \in Bytes, NEW t \in Bytes
  PROVE  \E u \in Bytes, a \in Nat, b \in Nat : Joined(s, t, u, a, b)
<1>1. PICK a \in Nat, b \in Nat : a = Len(s) /\ b = Len(t)
  BY Lengths
<1>2. /\ s \o t \in Seq(Byte) /\ Len(s \o t) = Len(s) + Len(t)
      /\ \A i \in 1 .. Len(s) + Len(t) : (s \o t)[i] = IF i <= Len(s) THEN s[i] ELSE t[i - Len(s)]
  BY ConcatProperties, Zenon DEF Bytes
<1>3. PICK u \in Bytes : u = s \o t
  BY <1>2 DEF Bytes
<1>4. u = Then(s, t) /\ Len(u) = a + b
  BY <1>1, <1>2, <1>3 DEF Then
<1>6. \A i \in 1 .. a + b : u[i] = IF i <= a THEN s[i] ELSE t[i - a]
  BY <1>1, <1>2, <1>3
<1>7. \A i \in 1 .. a : u[i] = s[i]
  BY <1>6
<1>8. \A i \in 1 .. b : u[a + i] = t[i]
  BY <1>6
<1>9. \A i \in 1 .. a + b : \/ i \in 1 .. a /\ u[i] = s[i]
                            \/ i - a \in 1 .. b /\ u[i] = t[i - a]
  BY <1>6
<1>10. Joined(s, t, u, a, b)
  BY <1>1, <1>4, <1>7, <1>8, <1>9 DEF Joined
<1> QED BY <1>10

LEMMA OnceThen ==
  ASSUME NEW s \in Bytes, NEW t \in Bytes, NEW h
  PROVE  /\ Never(s, h) /\ Never(t, h) => Never(Then(s, t), h)
         /\ Once(s, h) /\ Never(t, h) => Once(Then(s, t), h)
         /\ Never(s, h) /\ Once(t, h) => Once(Then(s, t), h)
<1>1. PICK u \in Bytes, a \in Nat, b \in Nat : Joined(s, t, u, a, b)
  BY Places
<1>3. ASSUME Never(s, h), Never(t, h) PROVE Never(u, h)
  BY <1>1, <1>3 DEF Never, Joined
<1>4. ASSUME Once(s, h), Never(t, h) PROVE Once(u, h)
  <2>1. PICK i \in 1 .. a : \A j \in 1 .. a : s[j] = h <=> j = i
    BY <1>1, <1>4 DEF Once, Joined
  <2>2. ASSUME NEW j \in 1 .. a + b PROVE u[j] = h <=> j = i
    <3>1. CASE j \in 1 .. a
      <4>1. u[j] = s[j]
        BY <1>1, <3>1 DEF Joined
      <4> QED BY <2>1, <3>1, <4>1
    <3>2. CASE j \notin 1 .. a
      <4>1. j - a \in 1 .. b /\ u[j] = t[j - a]
        BY <1>1, <3>2 DEF Joined
      <4>2. t[j - a] # h
        BY <1>1, <1>4, <4>1 DEF Never, Joined
      <4>3. j # i
        BY <3>2
      <4> QED BY <4>1, <4>2, <4>3
    <3> QED BY <3>1, <3>2
  <2>3. i \in 1 .. a + b
    OBVIOUS
  <2>4. \E n \in 1 .. a + b : \A j \in 1 .. a + b : u[j] = h <=> j = n
    BY <2>2, <2>3
  <2> QED BY <1>1, <2>4 DEF Once, Joined
<1>5. ASSUME Never(s, h), Once(t, h) PROVE Once(u, h)
  <2>1. PICK i \in 1 .. b : \A j \in 1 .. b : t[j] = h <=> j = i
    BY <1>1, <1>5 DEF Once, Joined
  <2>3. PICK k \in 1 .. a + b : k = a + i
    OBVIOUS
  <2>2. ASSUME NEW j \in 1 .. a + b PROVE u[j] = h <=> j = k
    <3>1. CASE j \in 1 .. a
      <4>1. u[j] = s[j]
        BY <1>1, <3>1 DEF Joined
      <4>2. s[j] # h
        BY <1>1, <1>5, <3>1 DEF Never, Joined
      <4>3. j # k
        BY <2>3, <3>1
      <4> QED BY <4>1, <4>2, <4>3
    <3>2. CASE j \notin 1 .. a
      <4>1. j - a \in 1 .. b /\ u[j] = t[j - a]
        BY <1>1, <3>2 DEF Joined
      <4>2. t[j - a] = h <=> j - a = i
        BY <2>1, <4>1
      <4>3. j - a = i <=> j = k
        BY <2>3
      <4> QED BY <4>1, <4>2, <4>3
    <3> QED BY <3>1, <3>2
  <2>4. \E n \in 1 .. a + b : \A j \in 1 .. a + b : u[j] = h <=> j = n
    BY <2>2, <2>3
  <2> QED BY <1>1, <2>4 DEF Once, Joined
<1> QED BY <1>1, <1>3, <1>4, <1>5 DEF Joined

(* Lines and lines are lines.                                              *)
LEMMA LinesThen ==
  ASSUME NEW s \in Bytes, NEW t \in Bytes, FullLines(s), FullLines(t)
  PROVE  FullLines(Then(s, t))
<1>1. CASE s = <<>> \/ t = <<>>
  BY <1>1, ThenNothing
<1>2. CASE s # <<>> /\ t # <<>>
  <2>1. PICK u \in Bytes, a \in Nat, b \in Nat : Joined(s, t, u, a, b)
    BY Places
  <2>2. a > 0 /\ b > 0
    BY <1>2, <2>1, Lengths DEF Joined
  <2>3. /\ ~IsNewline(s[1]) /\ IsNewline(s[a]) /\ ~IsNewline(t[1]) /\ IsNewline(t[b])
        /\ \A i \in 2 .. a : ~(IsNewline(s[i - 1]) /\ IsNewline(s[i]))
        /\ \A i \in 2 .. b : ~(IsNewline(t[i - 1]) /\ IsNewline(t[i]))
    BY <1>2, <2>1 DEF FullLines, Joined
  <2>4. ~IsNewline(u[1]) /\ IsNewline(u[a + b])
    BY <2>1, <2>2, <2>3 DEF Joined
  <2>5. ASSUME NEW i \in 2 .. a + b PROVE ~(IsNewline(u[i - 1]) /\ IsNewline(u[i]))
    <3>1. CASE i <= a
      <4>1. i \in 2 .. a /\ i \in 1 .. a /\ i - 1 \in 1 .. a
        BY <3>1
      <4>2. \A j \in 1 .. a : u[j] = s[j]
        BY <2>1 DEF Joined
      <4>3. u[i - 1] = s[i - 1] /\ u[i] = s[i]
        BY <4>1, <4>2
      <4> QED BY <2>3, <4>1, <4>3
    <3>2. CASE i = a + 1
      <4>1. u[i] = t[1]
        BY <2>1, <2>2, <3>2 DEF Joined
      <4> QED BY <2>3, <4>1
    <3>3. CASE i > a + 1
      <4>1. i - a \in 2 .. b /\ a + (i - a) = i /\ a + (i - a - 1) = i - 1 /\ i - a - 1 \in 1 .. b
        BY <3>3
      <4>2. \A j \in 1 .. b : u[a + j] = t[j]
        BY <2>1 DEF Joined
      <4>3. i - a \in 1 .. b
        BY <4>1
      <4>4. u[i] = t[i - a]
        BY <4>1, <4>2, <4>3
      <4>5. u[i - 1] = t[i - a - 1]
        BY <4>1, <4>2
      <4> QED BY <2>3, <4>1, <4>4, <4>5
    <3> QED BY <3>1, <3>2, <3>3
  <2> QED BY <2>1, <2>4, <2>5 DEF FullLines, Joined
<1> QED BY <1>1, <1>2

(* Lines with an empty line behind them have one at their end.             *)
LEMMA EmptyLineEnds ==
  ASSUME NEW s \in Bytes, FullLines(s), s # <<>>, NEW e \in Bytes, e = <<CRLF>>
  PROVE  EndsOnce(Then(s, e))
<1>1. Len(e) = 1 /\ e[1] = CRLF
  OBVIOUS
<1>2. PICK u \in Bytes, a \in Nat, b \in Nat : Joined(s, e, u, a, b)
  BY Places
<1>9. b = 1 /\ Len(u) = a + 1 /\ u[a + 1] = CRLF
  BY <1>1, <1>2 DEF Joined
<1>3. a > 0
  BY <1>2, Lengths DEF Joined
<1>4. IsNewline(s[a]) /\ \A i \in 2 .. a : ~(IsNewline(s[i - 1]) /\ IsNewline(s[i]))
  BY <1>2 DEF FullLines, Joined
<1>5. IsNewline(u[a]) /\ IsNewline(u[a + 1])
  BY <1>2, <1>9, <1>3, <1>4 DEF IsNewline, Joined
<1>6. ASSUME NEW i \in 2 .. a + 1, IsNewline(u[i - 1]), IsNewline(u[i]) PROVE i = a + 1
  <2> SUFFICES ASSUME i <= a PROVE FALSE
    OBVIOUS
  <2>1. i \in 2 .. a /\ i \in 1 .. a /\ i - 1 \in 1 .. a
    OBVIOUS
  <2>2. \A j \in 1 .. a : u[j] = s[j]
    BY <1>2 DEF Joined
  <2>3. u[i - 1] = s[i - 1] /\ u[i] = s[i]
    BY <2>1, <2>2
  <2> QED BY <1>4, <1>6, <2>1, <2>3
<1>7. (a + 1) - 1 = a /\ a + 1 \in 2 .. a + 1
  BY <1>3
<1>8. {i \in 2 .. a + 1 : IsNewline(u[i - 1]) /\ IsNewline(u[i])} = {a + 1}
  BY <1>5, <1>6, <1>7
<1> QED BY <1>2, <1>8, <1>9 DEF EndsOnce, Joined

LEMMA OnceCounts ==
  ASSUME NEW s \in Bytes, NEW h, Once(s, h)
  PROVE  Count(s, h) = 1
<1>1. DOMAIN s = 1 .. Len(s)
  BY LenProperties DEF Bytes
<1>2. PICK i \in 1 .. Len(s) : \A j \in 1 .. Len(s) : s[j] = h <=> j = i
  BY DEF Once
<1>3. {j \in DOMAIN s : s[j] = h} = {i}
  BY <1>1, <1>2
<1> QED BY <1>3, FS_Singleton DEF Count

-----------------------------------------------------------------------------
(* The headers that are kept                                               *)

(* The headers kept of the first n bytes of a request, its line included.  *)
KeptOK(t, n) ==
  /\ t.host \in Bytes /\ HostLine(t.host)
  /\ t.rest \in Bytes /\ FullLines(t.rest) /\ Nameless(t.rest)
  /\ Len(t.host) + Len(t.rest) + 3 <= n
  /\ t.uri \in DOMAIN Parsed

LEMMA LineFull ==
  ASSUME NEW s \in Bytes, IsLine(s), s # <<CRLF>>, s # <<LF>>
  PROVE  /\ Len(s) > 1 /\ FullLines(s)
         /\ s[1] = "host:" => HostLine(s)
         /\ s[1] \notin OwnNames => Nameless(s)
<1>1. PICK n \in Nat : n = Len(s)
  BY Lengths
<1>2. n > 0
  BY <1>1, Lengths DEF IsLine
<1>3. n # 1
  <2> SUFFICES ASSUME n = 1 PROVE FALSE
    OBVIOUS
  <2>1. s[1] = CRLF \/ s[1] = LF
    BY <1>1 DEF IsLine, IsNewline
  <2>2. s = <<s[1]>>
    <3>1. s[1] \in Byte /\ s \in Seq(Byte)
      BY <1>1, ElementOfSeq DEF Bytes
    <3>2. <<s[1]>> \in Seq(Byte) /\ Len(<<s[1]>>) = 1 /\ <<s[1]>>[1] = s[1]
      BY <3>1
    <3> QED BY <1>1, <3>1, <3>2, SeqEqual
  <2> QED BY <2>1, <2>2
<1>4. /\ ~IsNewline(s[1]) /\ IsNewline(s[n]) /\ \A i \in 1 .. (n - 1) : ~IsNewline(s[i])
      /\ \A i \in 1 .. n : s[i] \in OwnNames => i = 1
  BY <1>1, <1>2, <1>3 DEF IsLine
<1>5. \A i \in 2 .. n : ~(IsNewline(s[i - 1]) /\ IsNewline(s[i]))
  BY <1>4
<1>6. FullLines(s)
  BY <1>1, <1>4, <1>5 DEF FullLines
<1>7. \A i \in 2 .. n : s[i] \notin OwnNames
  BY <1>4
<1>8. HostLine(s) \/ s[1] # "host:"
  BY <1>1, <1>6, <1>7 DEF HostLine
<1>9. ASSUME s[1] \notin OwnNames PROVE Nameless(s)
  BY <1>1, <1>4, <1>9 DEF Nameless, Never
<1> QED BY <1>1, <1>2, <1>3, <1>6, <1>8, <1>9

(* A header becomes the Host header, joins the rest, or is left out; an    *)
(* empty line ends them.                                                   *)
LEMMA KeptKeeps ==
  ASSUME NEW t, DOMAIN t = ThreadFields, t.pc = "headers", NEW n \in Nat, KeptOK(t, n),
         NEW line \in Bytes, IsLine(line), NEW u, u = Kept(t, line)
  PROVE  /\ DOMAIN u = ThreadFields /\ u.rio = t.rio /\ u.buf = t.buf /\ u.req = t.req
         /\ \/ u.pc = "headers" /\ KeptOK(u, n + Len(line))
            \/ u.pc = "lookup" /\ KeptOK(u, n)
<1>1. CASE line = <<CRLF>> \/ line = <<LF>>
  <2>1. u = [t EXCEPT !.pc = "lookup"]
    <3>1. line[1] \notin OwnNames
      BY <1>1 DEF OwnNames, CRLF, LF
    <3> QED BY <1>1, <3>1 DEF Kept, OwnNames
  <2>2. DOMAIN u = ThreadFields /\ u.rio = t.rio /\ u.buf = t.buf /\ u.req = t.req /\ u.pc = "lookup"
        /\ u.host = t.host /\ u.rest = t.rest /\ u.uri = t.uri
    BY <2>1 DEF ThreadFields
  <2> QED BY <2>2 DEF KeptOK
<1>2. CASE line # <<CRLF>> /\ line # <<LF>>
  <2>1. /\ FullLines(line) /\ Len(line) > 1 /\ Len(line) \in Nat
        /\ line[1] = "host:" => HostLine(line)
        /\ line[1] \notin OwnNames => Nameless(line)
    BY <1>2, LineFull, Lengths
  <2>2. PICK a \in Nat, b \in Nat, m \in Nat :
          a = Len(t.host) /\ b = Len(t.rest) /\ m = Len(line) /\ m > 1 /\ a + b + 3 <= n
    BY <2>1, Lengths DEF KeptOK
  <2>7. m > 1 /\ a + b + 3 <= n
    BY <2>2
  <2>3. CASE line[1] = "host:"
    <3>1. u = [t EXCEPT !.host = line]
      BY <1>2, <2>3 DEF Kept
    <3>2. /\ DOMAIN u = ThreadFields /\ u.rio = t.rio /\ u.buf = t.buf /\ u.req = t.req
          /\ u.pc = "headers" /\ u.host = line /\ u.rest = t.rest /\ u.uri = t.uri
      BY <3>1 DEF ThreadFields
    <3>3. m + b + 3 <= n + m
      BY <2>7
    <3>4. HostLine(line)
      BY <2>1, <2>3
    <3>5. KeptOK(u, n + Len(line))
      BY <2>2, <3>2, <3>3, <3>4 DEF KeptOK
    <3> QED BY <3>2, <3>5
  <2>4. CASE u = t
    <3>1. a + b + 3 <= n + m
      BY <2>7
    <3> QED BY <2>2, <2>4, <3>1 DEF KeptOK
  <2>5. CASE line[1] \notin OwnNames /\ u = [t EXCEPT !.rest = Then(@, line)]
    <3>1. /\ DOMAIN u = ThreadFields /\ u.rio = t.rio /\ u.buf = t.buf /\ u.req = t.req
          /\ u.pc = "headers" /\ u.host = t.host /\ u.rest = Then(t.rest, line) /\ u.uri = t.uri
      BY <2>5 DEF ThreadFields
    <3>2. PICK rest \in Bytes : rest = t.rest /\ FullLines(rest) /\ Nameless(rest)
      BY DEF KeptOK
    <3>3. Then(rest, line) \in Bytes /\ Len(Then(rest, line)) = b + m
      BY <2>2, <3>2, ThenBytes, ThenLength
    <3>4. FullLines(Then(rest, line))
      BY <2>1, <3>2, LinesThen
    <3>5. Nameless(Then(rest, line))
      BY <2>1, <2>5, <3>2, OnceThen DEF Nameless
    <3>6. a + (b + m) + 3 <= n + m
      BY <2>7
    <3>7. KeptOK(u, n + Len(line))
      BY <2>2, <3>1, <3>2, <3>3, <3>4, <3>5, <3>6 DEF KeptOK
    <3> QED BY <3>1, <3>7
  <2>6. line[1] = "host:" \/ u = t \/ (line[1] \notin OwnNames /\ u = [t EXCEPT !.rest = Then(@, line)])
    BY <1>2 DEF Kept, Then, OwnNames
  <2> QED BY <2>3, <2>4, <2>5, <2>6
<1> QED BY <1>1, <1>2

(* The request that is forwarded.                                          *)
LEMMA WholeIsWellFormed ==
  ASSUME NEW t, NEW n \in Nat, KeptOK(t, n), n + 1 + Len(OwnHeaders) + 2 < MAXBUF
  PROVE  WellFormed(WholeRequest(t))
<1> DEFINE host == IF t.host # <<>> THEN t.host ELSE <<"host:", CRLF>>
           start == <<"GET", Parsed[t.uri].path, CRLF>>
<1>1. PICK p \in Byte : p = Parsed[t.uri].path /\ p \notin OwnNames /\ ~IsNewline(p)
  BY ProxyServeAssumption DEF KeptOK, Byte, IsNewline
<1>2. "GET" \in Byte /\ CRLF \in Byte /\ OwnNames \subseteq Byte
  BY DEF Byte
<1>3. PICK a \in Bytes : a = <<"GET", p, CRLF>>
  <2>1. <<"GET", p, CRLF>> \in Seq(Byte)
    BY <1>1, <1>2
  <2> QED BY <2>1 DEF Bytes
<1>4. Len(a) = 3 /\ a[1] = "GET" /\ a[2] = p /\ a[3] = CRLF /\ a # <<>>
  BY <1>3
<1>5. FullLines(a) /\ Nameless(a)
  <2>1. ~IsNewline("GET") /\ "GET" \notin OwnNames /\ CRLF \notin OwnNames /\ IsNewline(CRLF)
    BY DEF IsNewline, CRLF, LF, OwnNames
  <2> QED BY <1>1, <1>4, <2>1 DEF FullLines, Nameless, Never
<1>6. PICK h \in Bytes :
        /\ h = host /\ FullLines(h) /\ Len(h) <= Len(t.host) + 2
        /\ h # <<>> /\ h[1] = "host:" /\ \A i \in 2 .. Len(h) : h[i] \notin OwnNames
  <2>1. CASE t.host # <<>>
    BY <2>1, Lengths DEF KeptOK, HostLine
  <2>2. CASE t.host = <<>>
    <3>0. <<"host:", CRLF>> \in Seq(Byte)
      BY <1>2 DEF OwnNames
    <3>1. PICK h \in Bytes : h = <<"host:", CRLF>>
      BY <3>0 DEF Bytes
    <3>2. Len(h) = 2 /\ h[1] = "host:" /\ h[2] = CRLF /\ h # <<>> /\ Len(t.host) = 0
      BY <2>2, <3>1, NoBytes
    <3>3. ~IsNewline("host:") /\ CRLF \notin OwnNames /\ IsNewline(CRLF)
      BY DEF IsNewline, CRLF, LF, OwnNames
    <3>4. FullLines(h) /\ \A i \in 2 .. Len(h) : h[i] \notin OwnNames
      BY <3>2, <3>3 DEF FullLines
    <3>5. h = host /\ Len(h) <= Len(t.host) + 2
      BY <2>2, <3>1, <3>2
    <3> QED BY <3>2, <3>4, <3>5, Zenon
  <2> QED BY <2>1, <2>2
<1>7. Once(h, "host:") /\ \A x \in OwnNames \ {"host:"} : Never(h, x)
  <2>1. PICK m \in Nat : m = Len(h) /\ m > 0
    BY <1>6, Lengths
  <2>2. \A j \in 1 .. m : j = 1 \/ j \in 2 .. m
    OBVIOUS
  <2>3. \A j \in 1 .. m : h[j] = "host:" <=> j = 1
    BY <1>6, <2>1, <2>2 DEF OwnNames
  <2>4. 1 \in 1 .. m
    BY <2>1
  <2> QED BY <1>6, <2>1, <2>2, <2>3, <2>4 DEF Once, Never
<1>8. PICK o \in Bytes :
        /\ o = OwnHeaders /\ Len(o) = 6
        /\ o[1] = "user-agent:" /\ o[2] = CRLF /\ o[3] = "connection:" /\ o[4] = CRLF
        /\ o[5] = "proxy-connection:" /\ o[6] = CRLF
  <2>1. OwnHeaders \in Seq(Byte)
    BY <1>2 DEF OwnHeaders, OwnNames
  <2> QED BY <2>1 DEF OwnHeaders, Bytes
<1>9. /\ FullLines(o) /\ Never(o, "host:") /\ \A x \in OwnNames \ {"host:"} : Once(o, x)
  <2>0. \A i \in 1 .. 6 : i = 1 \/ i = 2 \/ i = 3 \/ i = 4 \/ i = 5 \/ i = 6
    OBVIOUS
  <2>1. FullLines(o)
    BY <1>8, <2>0 DEF FullLines, IsNewline, CRLF, LF
  <2>2. Never(o, "host:")
    BY <1>8, <2>0 DEF Never, CRLF
  <2>3. \A j \in 1 .. 6 : /\ o[j] = "user-agent:" <=> j = 1
                          /\ o[j] = "connection:" <=> j = 3
                          /\ o[j] = "proxy-connection:" <=> j = 5
    BY <1>8, <2>0 DEF CRLF
  <2>4. 1 \in 1 .. 6 /\ 3 \in 1 .. 6 /\ 5 \in 1 .. 6
    OBVIOUS
  <2>5. Once(o, "user-agent:") /\ Once(o, "connection:") /\ Once(o, "proxy-connection:")
    BY <1>8, <2>3, <2>4 DEF Once
  <2> QED BY <2>1, <2>2, <2>5 DEF OwnNames
<1>10. PICK r \in Bytes : r = t.rest /\ FullLines(r) /\ Nameless(r)
  BY DEF KeptOK
<1>11. PICK e \in Bytes : e = <<CRLF>>
  <2>1. <<CRLF>> \in Seq(Byte)
    BY <1>2
  <2> QED BY <2>1 DEF Bytes
<1>12. Len(e) = 1 /\ Nameless(e)
  <2>1. Len(e) = 1 /\ e[1] = CRLF
    BY <1>11
  <2> QED BY <2>1 DEF Nameless, Never, CRLF, OwnNames
<1> DEFINE body == Then(Then(Then(a, h), o), r)
           all == Then(body, e)
<1>13. /\ Then(a, h) \in Bytes /\ Then(Then(a, h), o) \in Bytes /\ body \in Bytes /\ all \in Bytes
  <2>1. Then(a, h) \in Bytes
    BY ThenBytes
  <2>2. Then(Then(a, h), o) \in Bytes
    BY <2>1, ThenBytes
  <2>3. body \in Bytes
    BY <2>2, ThenBytes
  <2>4. all \in Bytes
    BY <2>3, ThenBytes
  <2> QED BY <2>1, <2>2, <2>3, <2>4
<1>14. PICK nh \in Nat, nr \in Nat :
         /\ nh = Len(h) /\ nr = Len(r)
         /\ Len(body) = 3 + nh + 6 + nr /\ Len(all) = 3 + nh + 6 + nr + 1
  <2>1. PICK nh \in Nat, nr \in Nat : nh = Len(h) /\ nr = Len(r)
    BY Lengths
  <2>2. Len(Then(a, h)) = 3 + nh
    BY <1>4, <2>1, ThenLength
  <2>3. Len(Then(Then(a, h), o)) = 3 + nh + 6
    <3>1. Len(Then(Then(a, h), o)) = Len(Then(a, h)) + Len(o)
      BY <1>13, ThenLength
    <3> QED BY <1>8, <2>2, <3>1
  <2>4. Len(body) = 3 + nh + 6 + nr
    <3>1. Len(body) = Len(Then(Then(a, h), o)) + Len(r)
      BY <1>13, ThenLength
    <3> QED BY <2>1, <2>3, <3>1
  <2> HIDE DEF body
  <2>5. Len(all) = 3 + nh + 6 + nr + 1
    <3>1. Len(all) = Len(body) + Len(e)
      BY <1>13, ThenLength
    <3> HIDE DEF all
    <3> QED BY <1>12, <2>4, <3>1
  <2> QED BY <2>1, <2>4, <2>5
<1>15. FullLines(body)
  <2>1. FullLines(Then(a, h))
    BY <1>5, <1>6, LinesThen
  <2>2. FullLines(Then(Then(a, h), o))
    BY <1>9, <1>13, <2>1, LinesThen
  <2> QED BY <1>10, <1>13, <2>2, LinesThen
<1>16. body # <<>>
  <2> HIDE DEF body
  <2> QED BY <1>14, NoBytes
<1>17. EndsOnce(all)
  <2> HIDE DEF body
  <2> QED BY <1>11, <1>13, <1>15, <1>16, EmptyLineEnds
<1>18. Once(all, "host:")
  <2>1. Once(Then(a, h), "host:")
    BY <1>5, <1>7, OnceThen DEF Nameless, OwnNames
  <2>2. Once(Then(Then(a, h), o), "host:")
    BY <1>9, <1>13, <2>1, OnceThen
  <2>3. Once(body, "host:")
    BY <1>10, <1>13, <2>2, OnceThen DEF Nameless, OwnNames
  <2> HIDE DEF body
  <2> QED BY <1>12, <1>13, <2>3, OnceThen DEF Nameless, OwnNames
<1>19. ASSUME NEW x \in OwnNames \ {"host:"} PROVE Once(all, x)
  <2>1. Never(Then(a, h), x)
    BY <1>5, <1>7, OnceThen DEF Nameless
  <2>2. Once(Then(Then(a, h), o), x)
    BY <1>9, <1>13, <2>1, OnceThen
  <2>3. Once(body, x)
    BY <1>10, <1>13, <2>2, OnceThen DEF Nameless
  <2> HIDE DEF body
  <2> QED BY <1>12, <1>13, <2>3, OnceThen DEF Nameless
<1> HIDE DEF body
<1>20. \A x \in OwnNames : Count(all, x) = 1
  BY <1>13, <1>18, <1>19, OnceCounts
<1>21. WholeRequest(t) = all
  <2>1. WholeRequest(t) = SubSeq(all, 1, AtMost(Len(all), MAXBUF - 1))
    <3>1. all = ((((a \o h) \o o) \o r) \o e)
      BY DEF body, Then
    <3> HIDE DEF all
    <3> QED BY <1>1, <1>3, <1>6, <1>8, <1>10, <1>11, <3>1 DEF WholeRequest
  <2>2. PICK a1 \in Nat, b1 \in Nat :
          a1 = Len(t.host) /\ b1 = Len(t.rest) /\ a1 + b1 + 3 <= n
    BY Lengths DEF KeptOK
  <2>3. n + 9 < MAXBUF /\ MAXBUF \in Nat
    BY <1>8, ProxyServeAssumption
  <2>4. nh <= a1 + 2 /\ nr = b1
    BY <1>6, <1>10, <1>14, <2>2
  <2>5. PICK k \in Nat : k = 3 + nh + 6 + nr + 1
    OBVIOUS
  <2>9. a1 + b1 + 3 <= n
    BY <2>2
  <2>10. k <= MAXBUF - 1
    BY <2>3, <2>4, <2>5, <2>9
  <2>6. Len(all) <= MAXBUF - 1 /\ Len(all) \in Nat
    <3>1. Len(all) = k
      BY <1>14, <2>5
    <3> HIDE DEF all
    <3> QED BY <2>10, <3>1
  <2> HIDE DEF all
  <2>7. AtMost(Len(all), MAXBUF - 1) = Len(all)
    BY <2>3, <2>6 DEF AtMost
  <2>8. SubSeq(all, 1, Len(all)) = all
    BY <1>13, SubSeqFull DEF Bytes
  <2> QED BY <2>1, <2>7, <2>8
<1> HIDE DEF all
<1> QED BY <1>17, <1>20, <1>21 DEF WellFormed

-----------------------------------------------------------------------------
(* rio_readlineb on a connection that is open                              *)

(* A pipe that neither side has closed.                                    *)
OpenPipe == [data : Bytes, fin : {FALSE}, rst : {FALSE}, gone : {FALSE}]

LEMMA FirstOf ==
  ASSUME NEW S \in SUBSET Nat, S # {}
  PROVE  \E m \in S : \A k \in S : m <= k
<1> DEFINE R == {ss \in Nat \X Nat : ss[1] < ss[2]}
<1>1. IsWellFoundedOn(R, Nat)
  BY NatLessThanWellFounded DEF OpToRel
<1>2. PICK m \in S : \A k \in S : ~(<<k, m>> \in R)
  <2> HIDE DEF R
  <2> QED BY <1>1, WFMin
<1>3. \A k \in S : ~(k < m)
  BY <1>2
<1> QED BY <1>3

LEMMA LineEndIs ==
  ASSUME NEW s \in Bytes, s # <<>>
  PROVE  /\ LineEnd(s) \in 1 .. Len(s)
         /\ \A i \in 1 .. (LineEnd(s) - 1) : ~IsNewline(s[i])
         /\ IsNewline(s[LineEnd(s)]) \/ (LineEnd(s) = Len(s) /\ NoNewline(s))
<1>1. PICK n \in Nat : n = Len(s) /\ n > 0 /\ DOMAIN s = 1 .. n
  BY Lengths, LenProperties DEF Bytes
<1>2. CASE \E i \in DOMAIN s : IsNewline(s[i])
  <2> DEFINE S == {i \in 1 .. n : IsNewline(s[i])}
  <2>1. PICK m \in S : \A k \in S : m <= k
    <3>1. S \in SUBSET Nat /\ S # {}
      BY <1>1, <1>2
    <3> HIDE DEF S
    <3> QED BY <3>1, FirstOf
  <2>2. m \in DOMAIN s /\ IsNewline(s[m]) /\ \A j \in 1 .. (m - 1) : ~IsNewline(s[j])
    BY <1>1, <2>1
  <2>3. \E i \in DOMAIN s : IsNewline(s[i]) /\ \A j \in 1 .. (i - 1) : ~IsNewline(s[j])
    BY <2>2, Zenon
  <2>4. LineEnd(s) = CHOOSE i \in DOMAIN s : IsNewline(s[i]) /\ \A j \in 1 .. (i - 1) : ~IsNewline(s[j])
    BY <1>2, Zenon DEF LineEnd
  <2>5. /\ LineEnd(s) \in DOMAIN s /\ IsNewline(s[LineEnd(s)])
        /\ \A j \in 1 .. (LineEnd(s) - 1) : ~IsNewline(s[j])
    BY <2>3, <2>4, Zenon
  <2> QED BY <1>1, <2>5
<1>3. CASE ~\E i \in DOMAIN s : IsNewline(s[i])
  <2>1. LineEnd(s) = n
    BY <1>1, <1>3 DEF LineEnd
  <2> QED BY <1>1, <1>3, <2>1 DEF NoNewline
<1> QED BY <1>2, <1>3

(* The buffer is refilled, if it is empty, from the pipe.                  *)
LEMMA RefillOpen ==
  ASSUME NEW rp \in Reader, NEW p \in OpenPipe, Ready(rp, p), NEW f, f = Refill(rp, p)
  PROVE  /\ f.buf \in Bytes /\ f.buf # <<>> /\ f.p \in OpenPipe /\ f.rc = "bytes"
         /\ Then(f.buf, f.p.data) = Then(rp.buf, p.data)
         /\ Len(f.p.data) <= Len(p.data)
<1>1. CASE rp.buf # <<>>
  <2>1. f = [buf |-> rp.buf, p |-> p, rc |-> "bytes"]
    BY <1>1 DEF Refill
  <2>2. Len(p.data) \in Nat
    BY Lengths DEF OpenPipe
  <2>3. Len(p.data) <= Len(p.data)
    BY <2>2
  <2> QED BY <1>1, <2>1, <2>3 DEF Reader
<1>2. CASE rp.buf = <<>>
  <2> DEFINE cnt == IF Len(p.data) < RIO_BUFSIZE THEN Len(p.data) ELSE RIO_BUFSIZE
             q == [p EXCEPT !.data = Drop(@, cnt)]
  <2>0. p.data # <<>> /\ p.data \in Bytes
    BY <1>2 DEF Ready, Readable, OpenPipe
  <2>1. f = [buf |-> SubSeq(p.data, 1, cnt), p |-> q, rc |-> "bytes"]
    BY <1>2, <2>0 DEF Refill
  <2>2. cnt \in 0 .. Len(p.data) /\ cnt > 0
    <3>1. Len(p.data) \in Nat /\ Len(p.data) > 0
      BY <2>0, Lengths
    <3> QED BY <3>1, RioAssumption
  <2> HIDE DEF cnt
  <2>3. /\ SubSeq(p.data, 1, cnt) \in Bytes /\ Len(SubSeq(p.data, 1, cnt)) = cnt
        /\ Drop(p.data, cnt) \in Bytes /\ Len(Drop(p.data, cnt)) = Len(p.data) - cnt
        /\ Then(SubSeq(p.data, 1, cnt), Drop(p.data, cnt)) = p.data
    BY <2>0, <2>2, Cut
  <2>4. q \in OpenPipe /\ q.data = Drop(p.data, cnt)
    BY <2>3 DEF OpenPipe
  <2>5. SubSeq(p.data, 1, cnt) # <<>>
    BY <2>2, <2>3, NoBytes
  <2>6. Then(<<>>, p.data) = p.data
    BY <2>0, ThenNothing
  <2> HIDE DEF q
  <2>8. PICK a : a = SubSeq(p.data, 1, cnt)
    OBVIOUS
  <2>9. f = [buf |-> a, p |-> q, rc |-> "bytes"]
    BY <2>1, <2>8
  <2>10. PICK k : k = q
    OBVIOUS
  <2>11. f = [buf |-> a, p |-> k, rc |-> "bytes"]
    BY <2>9, <2>10
  <2>12. f.buf = a /\ f.p = k /\ f.rc = "bytes"
    BY <2>11
  <2>7. f.buf = SubSeq(p.data, 1, cnt) /\ f.p = q /\ f.rc = "bytes"
    BY <2>8, <2>10, <2>12
  <2>13. Len(Drop(p.data, cnt)) <= Len(p.data)
    <3>1. Len(p.data) \in Nat
      BY <2>0, Lengths
    <3> QED BY <2>2, <2>3, <3>1
  <2> QED BY <1>2, <2>3, <2>4, <2>5, <2>6, <2>7, <2>13
<1> QED BY <1>1, <1>2

(* A turn of the reader takes bytes as they come up to the end of the line *)
(* and no further; the others stay in their places.                        *)
LEMMA ReadLine ==
  ASSUME NEW rp \in Reader, NoNewline(rp.usr), Len(rp.usr) < MAXLINE - 1,
         NEW p \in OpenPipe, Ready(rp, p), NEW r, r = rio_readlineb(rp, p, MAXLINE)
  PROVE  /\ r.rp \in Reader /\ r.p \in OpenPipe /\ Len(r.p.data) <= Len(p.data)
         /\ Then(r.rp.usr, Then(r.rp.buf, r.p.data)) = Then(rp.usr, Then(rp.buf, p.data))
         /\ \A i \in 1 .. (Len(r.rp.usr) - 1) : ~IsNewline(r.rp.usr[i])
         /\ \/ r.rc = "more" /\ NoNewline(r.rp.usr) /\ Len(r.rp.usr) < MAXLINE - 1
            \/ /\ r.rc = "data" /\ r.rp.usr # <<>>
               /\ IsNewline(r.rp.usr[Len(r.rp.usr)]) \/ Len(r.rp.usr) = MAXLINE - 1
<1>1. PICK f : f = Refill(rp, p)
  OBVIOUS
<1>2. /\ f.buf \in Bytes /\ f.buf # <<>> /\ f.p \in OpenPipe /\ f.rc = "bytes"
      /\ Then(f.buf, f.p.data) = Then(rp.buf, p.data)
      /\ Len(f.p.data) <= Len(p.data)
  BY <1>1, RefillOpen
<1>3. PICK u \in Bytes, b \in Bytes, d \in Bytes :
         u = rp.usr /\ b = f.buf /\ d = f.p.data /\ b # <<>>
  BY <1>2 DEF OpenPipe, Reader
<1>4. PICK m \in Nat, e \in Nat :
        m = Len(u) /\ e = LineEnd(b) /\ m < MAXLINE - 1 /\ e >= 1 /\ e <= Len(b)
  BY <1>3, LineEndIs, Lengths
<1>5. /\ \A i \in 1 .. (e - 1) : ~IsNewline(b[i])
      /\ IsNewline(b[e]) \/ (e = Len(b) /\ NoNewline(b))
  BY <1>3, <1>4, LineEndIs
<1> DEFINE n == AtMost(e, MAXLINE - 1 - m)
<1>6. n \in 1 .. e /\ m + n <= MAXLINE - 1 /\ (n < e => m + n = MAXLINE - 1)
  <2>1. m < MAXLINE - 1 /\ e >= 1 /\ MAXLINE \in Nat
    BY <1>4, TinyAssumption
  <2> QED BY <2>1 DEF AtMost
<1> HIDE DEF n
<1>7. PICK s : s = SubSeq(b, 1, n)
  OBVIOUS
<1>8. n \in 0 .. Len(b)
  BY <1>4, <1>6, Lengths
<1>9. /\ s \in Bytes /\ Len(s) = n /\ \A i \in 1 .. n : s[i] = b[i]
  <2>1. s \in Bytes /\ Len(s) = n
    BY <1>7, <1>8, Cut
  <2>2. \A i \in 1 .. n : i \in 1 .. Len(b) /\ b[i] \in Byte
    <3>1. \A i \in 1 .. n : i \in 1 .. Len(b)
      BY <1>8, Lengths
    <3> QED BY <3>1, ElementOfSeq DEF Bytes
  <2>3. \A i \in 1 .. (n - 1 + 1) : s[i] = b[1 + i - 1]
    BY <1>6, <1>7, <2>2, SubSeqProperties
  <2> QED BY <1>6, <2>1, <2>3
<1>10. PICK v \in Bytes :
         /\ v = Then(u, s) /\ Len(v) = m + n
         /\ \A i \in 1 .. m : v[i] = u[i]
         /\ \A i \in 1 .. n : v[m + i] = b[i]
         /\ \A i \in 1 .. m + n : i \in 1 .. m \/ (i - m \in 1 .. n /\ v[i] = b[i - m])
  <2>1. PICK v \in Bytes, x \in Nat, y \in Nat : Joined(u, s, v, x, y)
    BY <1>9, Places
  <2>2. x = m /\ y = n
    BY <1>4, <1>9, <2>1 DEF Joined
  <2> QED BY <1>9, <2>1, <2>2 DEF Joined
<1>11. /\ Drop(b, n) \in Bytes /\ Then(v, Then(Drop(b, n), d)) = Then(u, Then(b, d))
  BY <1>7, <1>8, <1>10, Moved
<1>12. /\ r.rp = [buf |-> Drop(b, n), usr |-> v] /\ r.p = f.p
       /\ r.rc = IF Len(v) = MAXLINE - 1 \/ (v # <<>> /\ IsNewline(Last(v))) THEN "data" ELSE "more"
  <2>1. r = Turn(f, n, v, Len(v) = MAXLINE - 1 \/ (v # <<>> /\ IsNewline(Last(v))))
    BY <1>1, <1>3, <1>4, <1>7, <1>10 DEF rio_readlineb, n, Then
  <2> QED BY <1>2, <1>3, <2>1 DEF Turn
<1>13. \A i \in 1 .. m : ~IsNewline(u[i])
  BY <1>3, <1>4 DEF NoNewline
<1>14. \A i \in 1 .. (m + n - 1) : ~IsNewline(v[i])
  <2> TAKE i \in 1 .. (m + n - 1)
  <2>1. i \in 1 .. m + n
    BY <1>6
  <2>2. CASE i \in 1 .. m
    BY <1>10, <1>13, <2>2
  <2>3. CASE i - m \in 1 .. n /\ v[i] = b[i - m]
    <3>1. i - m \in 1 .. (e - 1)
      BY <1>6, <2>3
    <3> QED BY <1>5, <2>3, <3>1
  <2> QED BY <1>10, <2>1, <2>2, <2>3
<1>15. Last(v) = v[m + n] /\ v # <<>>
  <2>1. Len(v) > 0
    BY <1>6, <1>10
  <2> QED BY <1>10, <2>1, NoBytes DEF Last
<1>16. \/ r.rc = "more" /\ NoNewline(v) /\ Len(v) < MAXLINE - 1
       \/ r.rc = "data" /\ (IsNewline(v[m + n]) \/ m + n = MAXLINE - 1)
  <2>1. CASE Len(v) = MAXLINE - 1 \/ IsNewline(v[m + n])
    BY <1>10, <1>12, <1>15, <2>1
  <2>2. CASE ~(Len(v) = MAXLINE - 1 \/ IsNewline(v[m + n]))
    <3>1. r.rc = "more"
      BY <1>12, <1>15, <2>2
    <3>2. m + n < MAXLINE - 1
      BY <1>6, <1>10, <2>2, TinyAssumption
    <3>3. \A i \in 1 .. m + n : i \in 1 .. (m + n - 1) \/ i = m + n
      BY <1>6
    <3>4. NoNewline(v)
      BY <1>10, <1>14, <2>2, <3>3 DEF NoNewline
    <3> QED BY <1>10, <3>1, <3>2, <3>4
  <2> QED BY <2>1, <2>2
<1>17. r.rp \in Reader /\ r.rp.usr = v /\ r.rp.buf = Drop(b, n)
  BY <1>11, <1>12 DEF Reader
<1>18. Then(v, Then(Drop(b, n), r.p.data)) = Then(rp.usr, Then(rp.buf, p.data))
  BY <1>2, <1>3, <1>11, <1>12
<1>19. \A i \in 1 .. (Len(r.rp.usr) - 1) : ~IsNewline(r.rp.usr[i])
  <2>1. Len(v) = m + n /\ r.rp.usr = v
    BY <1>10, <1>17
  <2>2. \A i \in 1 .. (Len(v) - 1) : ~IsNewline(v[i])
    BY <1>6, <1>14, <2>1
  <2> QED BY <2>1, <2>2, Zenon
<1>20. \/ r.rc = "more" /\ NoNewline(r.rp.usr) /\ Len(r.rp.usr) < MAXLINE - 1
       \/ /\ r.rc = "data" /\ r.rp.usr # <<>>
          /\ IsNewline(r.rp.usr[Len(r.rp.usr)]) \/ Len(r.rp.usr) = MAXLINE - 1
  <2>1. Len(r.rp.usr) = m + n /\ r.rp.usr = v
    BY <1>10, <1>17
  <2> QED BY <1>15, <1>16, <2>1, Zenon
<1> QED BY <1>2, <1>12, <1>17, <1>18, <1>19, <1>20

-----------------------------------------------------------------------------
(* The line buffer                                                         *)

LEMMA OverBytes ==
  ASSUME NEW s \in Bytes, NEW buf \in Bytes
  PROVE  Over(s, buf) \in Bytes /\ \E d \in Bytes : Over(s, buf) = Then(s, d)
<1>1. AtMost(Len(s), Len(buf)) \in 0 .. Len(buf)
  BY Lengths DEF AtMost
<1>2. Drop(buf, AtMost(Len(s), Len(buf))) \in Bytes
  BY <1>1, Cut
<1>3. Over(s, buf) = Then(s, Drop(buf, AtMost(Len(s), Len(buf))))
  BY DEF Over, Then
<1> QED BY <1>2, <1>3, ThenBytes

(* A string that has been written with its end is the one that is read.    *)
LEMMA StringRead ==
  ASSUME NEW s \in Bytes, \A i \in 1 .. Len(s) : s[i] # NUL, NEW old \in Bytes,
         NEW buf, buf = Over(s \o <<NUL>>, old)
  PROVE  buf \in Bytes /\ Strings(buf) = {s}
<1>1. PICK z \in Bytes : z = <<NUL>> /\ Len(z) = 1 /\ z[1] = NUL
  <2>1. <<NUL>> \in Seq(Byte)
    BY DEF Byte
  <2> QED BY <2>1 DEF Bytes
<1>2. PICK sz \in Bytes : sz = Then(s, z) /\ sz = s \o <<NUL>>
  BY <1>1, ThenBytes DEF Then
<1>3. PICK d \in Bytes : buf \in Bytes /\ buf = Then(sz, d)
  BY <1>2, OverBytes
<1>4. PICK n \in Nat : n = Len(s)
  BY Lengths
<1>5. Len(sz) = n + 1 /\ sz[n + 1] = NUL /\ \A i \in 1 .. n : sz[i] = s[i]
  <2>1. PICK v \in Bytes, x \in Nat, y \in Nat : Joined(s, z, v, x, y)
    BY Places
  <2>2. v = sz /\ x = n /\ y = 1
    BY <1>1, <1>2, <1>4, <2>1 DEF Joined
  <2>3. v[x + 1] = z[1]
    BY <2>1, <2>2 DEF Joined
  <2>4. Len(sz) = n + 1
    BY <2>1, <2>2 DEF Joined
  <2>5. sz[n + 1] = NUL
    BY <1>1, <2>2, <2>3
  <2>6. \A i \in 1 .. n : sz[i] = s[i]
    BY <2>1, <2>2 DEF Joined
  <2> QED BY <2>4, <2>5, <2>6
<1>6. Len(buf) >= n + 1 /\ Len(buf) \in Nat /\ \A i \in 1 .. n + 1 : buf[i] = sz[i]
  <2>1. PICK v \in Bytes, x \in Nat, y \in Nat : Joined(sz, d, v, x, y)
    BY Places
  <2>2. v = buf /\ x = n + 1
    BY <1>3, <1>5, <2>1 DEF Joined
  <2> QED BY <2>1, <2>2 DEF Joined
<1>7. buf[n + 1] = NUL /\ \A i \in 1 .. n : buf[i] = s[i] /\ buf[i] # NUL
  BY <1>4, <1>5, <1>6
<1>8. n + 1 \in 1 .. Len(buf)
  BY <1>6
<1>9. Contains(buf, NUL)
  BY <1>7, <1>8 DEF Contains
<1> DEFINE I == {i \in 1 .. Len(buf) : buf[i] = NUL}
<1>10. n + 1 \in I /\ \A i \in I : n + 1 <= i
  <2>1. \A i \in I : i \in Nat /\ i >= 1 /\ i \notin 1 .. n
    BY <1>6, <1>7
  <2> QED BY <1>7, <1>8, <2>1
<1>11. SelectInSeq(buf, LAMBDA b : b = NUL) = n + 1
  <2>1. SelectInSeq(buf, LAMBDA b : b = NUL) = IF I # {} THEN Min(I) ELSE 0
    BY DEF SelectInSeq
  <2>2. I \subseteq Nat
    BY <1>6
  <2> HIDE DEF I
  <2>3. \A x \in I : (\A y \in I : x <= y) => x = n + 1
    BY <1>10, <2>2
  <2>4. Min(I) = n + 1
    BY <1>10, <2>3 DEF Min
  <2> QED BY <1>10, <2>1, <2>4
<1>12. SubSeq(buf, 1, n) = s
  <2>1. \A i \in 1 .. n : buf[i] \in Byte
    <3>1. \A i \in 1 .. n : i \in 1 .. Len(buf)
      BY <1>6
    <3> QED BY <1>3, <3>1, ElementOfSeq DEF Bytes
  <2>2. /\ SubSeq(buf, 1, n) \in Seq(Byte) /\ Len(SubSeq(buf, 1, n)) = n
        /\ \A i \in 1 .. n : SubSeq(buf, 1, n)[i] = buf[i]
    <3>1. /\ SubSeq(buf, 1, n) \in Seq(Byte)
          /\ Len(SubSeq(buf, 1, n)) = IF 1 <= n THEN n - 1 + 1 ELSE 0
          /\ \A i \in 1 .. n - 1 + 1 : SubSeq(buf, 1, n)[i] = buf[1 + i - 1]
      BY <2>1, SubSeqProperties
    <3> QED BY <3>1
  <2>3. PICK w \in Bytes : w = SubSeq(buf, 1, n) /\ Len(w) = n
    BY <2>2 DEF Bytes
  <2>4. Len(w) = Len(s) /\ \A i \in 1 .. Len(w) : w[i] = s[i]
    BY <1>4, <1>7, <2>2, <2>3
  <2>5. w = s
    BY <2>4, SeqEqual DEF Bytes
  <2> QED BY <2>3, <2>5
<1>13. (n + 1) - 1 = n
  OBVIOUS
<1>14. Strings(buf) = {SubSeq(buf, 1, SelectInSeq(buf, LAMBDA b : b = NUL) - 1)}
  BY <1>9 DEF Strings
<1> QED BY <1>3, <1>11, <1>12, <1>13, <1>14

-----------------------------------------------------------------------------
(* The request of a client, from its own buffer to the headers kept        *)

U(c) == pipe[Up(Outer(c))]

(* What the thread has not read of the request, the line under way too.    *)
Unread(c) ==
  Then(thread[c].rio.usr, Then(thread[c].rio.buf, Then(U(c).data, client[c].left)))

(* While the thread reads the request, k bytes of it are behind it, that   *)
(* end with a line, and the others are on their way to it in order; nobody *)
(* closes the connection.                                                  *)
Listening(c) ==
  /\ thread[c].rio \in Reader /\ thread[c].buf \in Bytes /\ client[c].left \in Bytes
  /\ U(c) \in OpenPipe /\ Len(U(c).data) <= SOCKBUF
  /\ ~D(Outer(c)).fin /\ ~D(Outer(c)).rst
  /\ NoNewline(thread[c].rio.usr) /\ Len(thread[c].rio.usr) < MAXLINE - 1
  /\ \E k \in 0 .. Len(request[c]) :
       /\ Unread(c) = Drop(request[c], k)
       /\ thread[c].pc = "request" => k = 0 /\ thread[c].host = <<>> /\ thread[c].rest = <<>>
       /\ thread[c].pc = "headers" => KeptOK(thread[c], k)

HeadersInv(c) ==
  Ordinary(c) =>
    /\ thread[c].pc \in {"request", "headers"} => Listening(c)
    /\ thread[c].pc = "lookup" => KeptOK(thread[c], Len(request[c]) - 1)
    /\ thread[c].req # <<>> => WellFormed(thread[c].req)

FInv ==
  /\ HInv
  /\ request \in Requests
  /\ \A c \in Relayed : HeadersInv(c)
  /\ \A c \in Direct : thread[c].req = <<>>

LEMMA RequestBytes ==
  ASSUME NEW r \in Requests, NEW c \in Client
  PROVE  r[c] \in Bytes
<1>1. r[c] \in Seq(Range(r[c]))
  BY RequestsAssumption
<1>2. Range(r[c]) \subseteq Byte
  <2>1. Range(r[c]) \subseteq Text
    BY DEF Text
  <2> QED BY <2>1 DEF Byte
<1> QED BY <1>1, <1>2, SeqMonotonic DEF Bytes

LEMMA Regroup ==
  ASSUME NEW u \in Bytes, NEW b \in Bytes, NEW d \in Bytes, NEW e \in Bytes
  PROVE  Then(u, Then(b, Then(d, e))) = Then(Then(u, Then(b, d)), e)
<1>1. Then(b, Then(d, e)) = Then(Then(b, d), e)
  BY Associates
<1>2. Then(b, d) \in Bytes
  BY ThenBytes
<1>3. Then(u, Then(Then(b, d), e)) = Then(Then(u, Then(b, d)), e)
  BY <1>2, Associates
<1> QED BY <1>1, <1>3

(* The bytes of what is left when k are gone.                              *)
LEMMA Dropped ==
  ASSUME NEW s \in Bytes, NEW k \in 0 .. Len(s)
  PROVE  /\ Drop(s, k) \in Bytes /\ Len(Drop(s, k)) = Len(s) - k
         /\ \A i \in 1 .. (Len(s) - k) : Drop(s, k)[i] = s[k + i]
<1>1. Drop(s, k) \in Bytes /\ Len(Drop(s, k)) = Len(s) - k
  BY Cut
<1>2. PICK n \in Nat : n = Len(s)
  BY Lengths
<1>3. \A i \in k + 1 .. n : s[i] \in Byte
  <2>1. \A i \in k + 1 .. n : i \in 1 .. Len(s)
    BY <1>2
  <2> QED BY <2>1, ElementOfSeq DEF Bytes
<1>4. \A i \in 1 .. n - (k + 1) + 1 : SubSeq(s, k + 1, n)[i] = s[(k + 1) + i - 1]
  <2>1. k + 1 \in Int /\ n \in Int
    OBVIOUS
  <2> QED BY <1>3, <2>1, SubSeqProperties
<1>5. \A i \in 1 .. (n - k) : i \in 1 .. n - (k + 1) + 1 /\ (k + 1) + i - 1 = k + i
  OBVIOUS
<1>6. \A i \in 1 .. (n - k) : SubSeq(s, k + 1, n)[i] = s[k + i]
  BY <1>4, <1>5
<1> QED BY <1>1, <1>2, <1>6 DEF Drop

(* What rio_readlineb has put together is the next line of the request.    *)
LEMMA NextLine ==
  ASSUME NEW s \in Bytes, InLines(s, MAXLINE), HeadersAreLines(s), NEW k \in 0 .. Len(s),
         NEW v \in Bytes, NEW w \in Bytes, Then(v, w) = Drop(s, k), v # <<>>,
         \A i \in 1 .. (Len(v) - 1) : ~IsNewline(v[i]),
         IsNewline(v[Len(v)]) \/ Len(v) = MAXLINE - 1
  PROVE  /\ IsLine(v) /\ k + Len(v) \in 0 .. Len(s) /\ w = Drop(s, k + Len(v))
         /\ \A i \in 1 .. Len(v) : v[i] = s[k + i]
<1>1. PICK n \in Nat, m \in Nat, l \in Nat :
        n = Len(s) /\ m = Len(v) /\ l = Len(w) /\ DOMAIN s = 1 .. n
  BY Lengths, LenProperties DEF Bytes
<1>2. m > 0
  BY <1>1, Lengths
<1>3. PICK d \in Bytes : d = Drop(s, k) /\ Len(d) = n - k /\ \A i \in 1 .. (n - k) : d[i] = s[k + i]
  BY <1>1, Dropped
<1>4. /\ m + l = n - k
      /\ \A i \in 1 .. m : v[i] = s[k + i]
      /\ \A i \in 1 .. l : w[i] = s[(k + m) + i]
  <2>1. PICK u \in Bytes, x \in Nat, y \in Nat : Joined(v, w, u, x, y)
    BY Places
  <2>2. x = m /\ y = l /\ u = d
    BY <1>1, <1>3, <2>1 DEF Joined
  <2>3. m + l = n - k
    BY <1>3, <2>1, <2>2 DEF Joined
  <2>4. \A i \in 1 .. m : d[i] = v[i]
    BY <2>1, <2>2 DEF Joined
  <2>5. \A i \in 1 .. l : d[m + i] = w[i]
    BY <2>1, <2>2 DEF Joined
  <2>6. \A i \in 1 .. m : v[i] = s[k + i]
    BY <1>3, <2>3, <2>4
  <2>7. \A i \in 1 .. l : w[i] = s[(k + m) + i]
    <3> TAKE i \in 1 .. l
    <3>1. m + i \in 1 .. (n - k) /\ k + (m + i) = (k + m) + i
      BY <2>3
    <3> QED BY <1>3, <2>5, <3>1
  <2> QED BY <2>3, <2>6, <2>7
<1>5. k + m \in 0 .. n
  BY <1>4
<1>6. w = Drop(s, k + m)
  <2>1. /\ Drop(s, k + m) \in Bytes /\ Len(Drop(s, k + m)) = n - (k + m)
        /\ \A i \in 1 .. (n - (k + m)) : Drop(s, k + m)[i] = s[(k + m) + i]
    BY <1>1, <1>5, Dropped
  <2>2. n - (k + m) = l
    BY <1>4
  <2>3. PICK e \in Bytes : /\ e = Drop(s, k + m) /\ Len(e) = l
                          /\ \A i \in 1 .. l : e[i] = s[(k + m) + i]
    BY <2>1, <2>2
  <2>4. Len(w) = Len(e) /\ \A i \in 1 .. Len(w) : w[i] = e[i]
    BY <1>1, <1>4, <2>3
  <2>5. w = e
    BY <2>4, SeqEqual DEF Bytes
  <2> QED BY <2>3, <2>5
<1>7. IsNewline(v[m])
  <2>1. CASE m = MAXLINE - 1
    <3>1. k + 1 \in DOMAIN s
      BY <1>1, <1>2, <1>4
    <3>2. PICK j \in (k + 1) .. AtMost(n, (k + 1) + MAXLINE - 2) : IsNewline(s[j])
      BY <1>1, <3>1 DEF InLines
    <3>3. j >= k + 1 /\ j <= (k + 1) + MAXLINE - 2 /\ j \in Int
      BY <1>1, TinyAssumption DEF AtMost
    <3>4. j - k \in 1 .. m /\ k + (j - k) = j
      BY <2>1, <3>3, TinyAssumption
    <3>5. IsNewline(v[j - k])
      BY <1>4, <3>2, <3>4
    <3>6. j - k \notin 1 .. (m - 1)
      BY <1>1, <3>5
    <3>7. j - k = m
      BY <3>4, <3>6
    <3> QED BY <3>5, <3>7
  <2> QED BY <1>1, <2>1
<1>8. ASSUME NEW i \in 1 .. m PROVE v[i] # NUL /\ (v[i] \in OwnNames => i = 1)
  <2>1. k + i \in DOMAIN s /\ v[i] = s[k + i]
    BY <1>1, <1>4
  <2>2. /\ v[i] # NUL
        /\ v[i] \in OwnNames => k + i = 1 \/ IsNewline(s[(k + i) - 1])
    BY <2>1 DEF HeadersAreLines
  <2>3. ASSUME v[i] \in OwnNames, i # 1 PROVE FALSE
    <3>1. k + i # 1 /\ i - 1 \in 1 .. (m - 1) /\ (k + i) - 1 = k + (i - 1) /\ i - 1 \in 1 .. m
      BY <2>3
    <3>2. IsNewline(v[i - 1])
      BY <1>4, <2>2, <2>3, <3>1
    <3> QED BY <1>1, <3>1, <3>2
  <2> QED BY <2>2, <2>3
<1> QED BY <1>1, <1>2, <1>4, <1>5, <1>6, <1>7, <1>8 DEF IsLine

-----------------------------------------------------------------------------
(* What the steps of the others leave of it                                *)

(* The pipes of l are the same.                                            *)
Apart(ps, qs, l) == qs[Up(l)] = ps[Up(l)] /\ qs[Down(l)] = ps[Down(l)]

LEMMA WrittenApart ==
  ASSUME NEW ps, PipesOK(ps), NEW k \in Link, NEW l \in Link, k # l, NEW bytes
  PROVE  Apart(ps, Written(ps, Up(k), bytes), l) /\ Apart(ps, Written(ps, Down(k), bytes), l)
BY DEF Apart, PipesOK, Written, OtherWay, Up, Down, Way

LEMMA ClosedApart ==
  ASSUME NEW ps, PipesOK(ps), NEW k \in Link, NEW l \in Link, k # l, NEW abort
  PROVE  /\ Apart(ps, ClosedBy(ps, Up(k), Down(k), abort), l)
         /\ Apart(ps, ClosedBy(ps, Down(k), Up(k), abort), l)
BY DEF Apart, PipesOK, ClosedBy, Up, Down, Way

LEMMA ReadApart ==
  ASSUME NEW ps, PipesOK(ps), NEW k \in Link, NEW l \in Link, k # l, NEW p
  PROVE  Apart(ps, [ps EXCEPT ![Up(k)] = p], l) /\ Apart(ps, [ps EXCEPT ![Down(k)] = p], l)
BY DEF Apart, PipesOK, Up, Down, Way

LEMMA ListeningKept ==
  ASSUME NEW c \in Client, Listening(c), request' = request, thread'[c] = thread[c],
         client'[c].left = client[c].left, U(c)' = U(c),
         D(Outer(c))'.fin = D(Outer(c)).fin, D(Outer(c))'.rst = D(Outer(c)).rst
  PROVE  Listening(c)'
<1>1. Unread(c)' = Unread(c)
  BY DEF Unread
<1>2. PICK k \in 0 .. Len(request[c]) :
        /\ Unread(c) = Drop(request[c], k)
        /\ thread[c].pc = "request" => k = 0 /\ thread[c].host = <<>> /\ thread[c].rest = <<>>
        /\ thread[c].pc = "headers" => KeptOK(thread[c], k)
  BY DEF Listening
<1>3. KeptOK(thread[c], k) => KeptOK(thread[c], k)'
  BY DEF KeptOK
<1>4. /\ Unread(c)' = Drop(request'[c], k)
      /\ thread'[c].pc = "request" => k = 0 /\ thread'[c].host = <<>> /\ thread'[c].rest = <<>>
      /\ thread'[c].pc = "headers" => KeptOK(thread[c], k)'
  BY <1>1, <1>2, <1>3
<1> QED BY <1>4 DEF Listening

(* A step that leaves the thread alone.                                    *)
LEMMA HeadersKept ==
  ASSUME NEW c \in Client, HeadersInv(c), request' = request, thread'[c] = thread[c],
         client[c].pc = "gone" => client'[c].pc = "gone",
         Ordinary(c)' /\ thread[c].pc \in {"request", "headers"} /\ Listening(c) => Listening(c)'
  PROVE  HeadersInv(c)'
<1>1. Ordinary(c)' => Ordinary(c)
  BY DEF Ordinary
<1>2. KeptOK(thread[c], Len(request[c]) - 1) => KeptOK(thread[c], Len(request[c]) - 1)'
  BY DEF KeptOK
<1>3. WellFormed(thread[c].req) => WellFormed(thread[c].req)'
  BY DEF WellFormed
<1> QED BY <1>1, <1>2, <1>3 DEF HeadersInv

LEMMA AwayKept ==
  ASSUME NEW c \in Client, HeadersInv(c), request' = request, thread'[c] = thread[c],
         client'[c] = client[c], Apart(pipe, pipe', Outer(c))
  PROVE  HeadersInv(c)'
<1>1. U(c)' = U(c) /\ D(Outer(c))' = D(Outer(c))
  BY DEF Apart, U, D
<1>2. Listening(c) => Listening(c)'
  BY <1>1, ListeningKept
<1> QED BY <1>2, HeadersKept

(* The thread has left its request behind.                                 *)
LEMMA LaterKept ==
  ASSUME NEW c \in Client, HeadersInv(c), request' = request, client'[c] = client[c],
         thread'[c].pc \notin {"request", "headers", "lookup"}, thread'[c].req = thread[c].req
  PROVE  HeadersInv(c)'
<1>1. Ordinary(c)' => Ordinary(c)
  BY DEF Ordinary
<1>2. WellFormed(thread[c].req) => WellFormed(thread[c].req)'
  BY DEF WellFormed
<1> QED BY <1>1, <1>2 DEF HeadersInv

(* Tiny has no hand on the connections of the clients of the proxy.        *)
LEMMA TinyApart ==
  ASSUME HInv, TinyNext, NEW c \in Relayed
  PROVE  Apart(pipe, pipe', Outer(c))
<1>1. /\ c \in Client /\ Outer(c) \in Link /\ Outer(c) \notin Servable /\ Servable \subseteq Link
      /\ PipesOK(pipe)
  BY Links, ServableLinks DEF HInv, ShapeOK, PipeOK
<1>2. tiny.pc # "accept" => tiny.link \in Link /\ tiny.link # Outer(c)
  BY <1>1 DEF HInv, ServedInv
<1>3. CASE UNCHANGED pipe
  BY <1>3 DEF Apart
<1>4. CASE TinyReadRequest \/ TinyReadHeaders
  <2>1. PICK p : pipe' = [pipe EXCEPT ![Up(tiny.link)] = p] /\ tiny.pc # "accept"
    BY <1>4 DEF TinyReadRequest, TinyReadHeaders
  <2>2. Apart(pipe, [pipe EXCEPT ![Up(tiny.link)] = p], Outer(c))
    BY <1>1, <1>2, <2>1, ReadApart
  <2> QED BY <2>1, <2>2
<1>5. CASE TinyWrite \/ CgiWrite
  <2>1. PICK n : pipe' = Written(pipe, Down(tiny.link), SubSeq(tiny.out, 1, n)) /\ tiny.pc # "accept"
    BY <1>5 DEF TinyWrite, CgiWrite, HInv, ShapeOK, TinyOK, TinyShape
  <2>2. Apart(pipe, Written(pipe, Down(tiny.link), SubSeq(tiny.out, 1, n)), Outer(c))
    BY <1>1, <1>2, <2>1, WrittenApart
  <2> QED BY <2>1, <2>2
<1>6. CASE TinyClose
  <2>1. pipe' = ClosedBy(pipe, Up(tiny.link), Down(tiny.link), FALSE) /\ tiny.pc # "accept"
    BY <1>6 DEF TinyClose, ClosedByServer
  <2>2. Apart(pipe, ClosedBy(pipe, Up(tiny.link), Down(tiny.link), FALSE), Outer(c))
    BY <1>1, <1>2, <2>1, ClosedApart
  <2> QED BY <2>1, <2>2
<1>7. CASE TinyKilled
  <2>1. tiny.link # Outer(c) /\ Outer(c) \notin {backlog[i] : i \in DOMAIN backlog}
    <3>1. \A i \in DOMAIN backlog : backlog[i] \in Servable
      BY ElementOfSeq, LenProperties DEF HInv, ServedInv
    <3> QED BY <1>1, <1>2, <1>7, <3>1 DEF TinyKilled
  <2>2. \A p \in DOMAIN pipe : p[1] = Outer(c) => pipe'[p] = pipe[p]
    BY <1>7, <2>1 DEF TinyKilled
  <2>3. /\ Up(Outer(c)) \in DOMAIN pipe /\ Up(Outer(c))[1] = Outer(c)
        /\ Down(Outer(c)) \in DOMAIN pipe /\ Down(Outer(c))[1] = Outer(c)
    BY <1>1, Ends DEF PipesOK, Up, Down
  <2> QED BY <2>2, <2>3 DEF Apart
<1> QED BY <1>3, <1>4, <1>5, <1>6, <1>7
        DEF TinyNext, TinyAccept, TinyParseUri, TinyWriteFails, TinyMapFile, TinyFork, CgiExit, TinyWait

(* Nor has the thread or the client of another connection.                 *)
LEMMA ThreadApart ==
  ASSUME HInv, NEW d \in Relayed, ServeNext(d), NEW c \in Client, c # d
  PROVE  Apart(pipe, pipe', Outer(c)) /\ thread'[c] = thread[c]
<1>1. /\ Outer(c) \in Link /\ Outer(d) \in Link /\ Inner(d) \in Link
      /\ Outer(c) # Outer(d) /\ Outer(c) # Inner(d) /\ PipesOK(pipe)
  BY Links, ServableLinks DEF HInv, ShapeOK, PipeOK
<1>2. thread'[c] = thread[c]
  <2>1. \E t : thread' = [thread EXCEPT ![d] = t]
    BY DEF ServeNext, ReadRequest, ReadHeaders, Lookup, Connect, Forward, ForwardFails,
           ReadResponse, Reply, ReplyFails, Insert, Close, Goes
  <2> QED BY <2>1 DEF HInv, ShapeOK
<1> SUFFICES Apart(pipe, pipe', Outer(c))
  BY <1>2
<1>3. CASE Lookup(d) \/ Connect(d) \/ ReplyFails(d)
  BY <1>3 DEF Lookup, Connect, ReplyFails, Apart
<1>4. CASE ReadRequest(d) \/ ReadHeaders(d) \/ ReadResponse(d)
  <2>1. PICK p : pipe' = [pipe EXCEPT ![Up(Outer(d))] = p] \/ pipe' = [pipe EXCEPT ![Down(Inner(d))] = p]
    BY <1>4 DEF ReadRequest, ReadHeaders, ReadResponse
  <2>2. /\ Apart(pipe, [pipe EXCEPT ![Up(Outer(d))] = p], Outer(c))
        /\ Apart(pipe, [pipe EXCEPT ![Down(Inner(d))] = p], Outer(c))
    BY <1>1, ReadApart
  <2> QED BY <2>1, <2>2
<1>5. CASE Forward(d) \/ Reply(d)
  <2>1. PICK bytes : \/ pipe' = Written(pipe, Up(Inner(d)), bytes)
                     \/ pipe' = Written(pipe, Down(Outer(d)), bytes)
    BY <1>5 DEF Forward, Reply
  <2>2. /\ Apart(pipe, Written(pipe, Up(Inner(d)), bytes), Outer(c))
        /\ Apart(pipe, Written(pipe, Down(Outer(d)), bytes), Outer(c))
    BY <1>1, WrittenApart
  <2> QED BY <2>1, <2>2
<1>6. CASE ForwardFails(d) \/ Insert(d) \/ Close(d)
  <2>1. \/ pipe' = ClosedBy(pipe, Down(Inner(d)), Up(Inner(d)), FALSE)
        \/ pipe' = ClosedBy(pipe, Up(Outer(d)), Down(Outer(d)), FALSE)
    BY <1>6 DEF ForwardFails, Insert, Close, ClosedByClient, ClosedByServer
  <2>2. /\ Apart(pipe, ClosedBy(pipe, Down(Inner(d)), Up(Inner(d)), FALSE), Outer(c))
        /\ Apart(pipe, ClosedBy(pipe, Up(Outer(d)), Down(Outer(d)), FALSE), Outer(c))
    BY <1>1, ClosedApart
  <2> QED BY <2>1, <2>2
<1> QED BY <1>3, <1>4, <1>5, <1>6 DEF ServeNext

LEMMA ClientApart ==
  ASSUME HInv, NEW d \in Client, ClientStep(d) \/ ClientGoes(d), NEW c \in Client, c # d
  PROVE  Apart(pipe, pipe', Outer(c)) /\ client'[c] = client[c]
<1>1. Outer(c) \in Link /\ Outer(d) \in Link /\ Outer(c) # Outer(d) /\ PipesOK(pipe)
  BY Links DEF HInv, ShapeOK, PipeOK
<1>2. client'[c] = client[c]
  <2>1. \E r : client' = [client EXCEPT ![d] = r]
    BY DEF ClientStep, ClientGoes, ClientConnect, ClientSend, ClientSendFails, ClientReceive, Is
  <2> QED BY <2>1 DEF HInv, ShapeOK, ClientOK
<1> SUFFICES Apart(pipe, pipe', Outer(c))
  BY <1>2
<1>3. CASE ClientConnect(d) \/ ClientSendFails(d)
  BY <1>3 DEF ClientConnect, ClientSendFails, Apart
<1>4. CASE ClientSend(d)
  <2>1. PICK bytes : pipe' = Written(pipe, Up(Outer(d)), bytes)
    BY <1>4 DEF ClientSend
  <2>2. Apart(pipe, Written(pipe, Up(Outer(d)), bytes), Outer(c))
    BY <1>1, WrittenApart
  <2> QED BY <2>1, <2>2
<1>5. ASSUME NEW abort, pipe' = ClosedBy(pipe, Down(Outer(d)), Up(Outer(d)), abort)
      PROVE  Apart(pipe, pipe', Outer(c))
  <2>1. Apart(pipe, ClosedBy(pipe, Down(Outer(d)), Up(Outer(d)), abort), Outer(c))
    BY <1>1, ClosedApart
  <2> QED BY <1>5, <2>1
<1>6. CASE ClientReceive(d)
  <2>1. CASE pipe[Down(Outer(d))].data = <<>>
    BY <1>5, <1>6, <2>1 DEF ClientReceive, ClosedByClient
  <2>2. CASE pipe[Down(Outer(d))].data # <<>>
    <3>1. PICK p : pipe' = [pipe EXCEPT ![Down(Outer(d))] = p]
      BY <1>6, <2>2 DEF ClientReceive
    <3>2. Apart(pipe, [pipe EXCEPT ![Down(Outer(d))] = p], Outer(c))
      BY <1>1, ReadApart
    <3> QED BY <3>1, <3>2
  <2> QED BY <2>1, <2>2
<1>7. CASE ClientGoes(d)
  <2>1. PICK abort : pipe' = ClosedBy(pipe, Down(Outer(d)), Up(Outer(d)), abort)
    BY <1>7 DEF ClientGoes
  <2> QED BY <1>5, <2>1
<1> QED BY <1>3, <1>4, <1>6, <1>7 DEF ClientStep

-----------------------------------------------------------------------------
(* What the client and its thread do                                       *)

LEMMA LaterSteps ==
  ASSUME HInv, NEW c \in Relayed, ServeNext(c), ~(ReadRequest(c) \/ ReadHeaders(c) \/ Lookup(c))
  PROVE  /\ thread'[c].pc \notin {"request", "headers", "lookup"}
         /\ thread'[c].req = thread[c].req
<1>1. ThreadOK(thread[c]) /\ DOMAIN thread[c] = ThreadFields /\ c \in DOMAIN thread
  BY ServableLinks DEF HInv, ShapeOK, ThreadOK
<1>2. CASE Connect(c)
  BY <1>1, <1>2 DEF Connect, Goes, ThreadFields
<1>3. CASE Forward(c) \/ ForwardFails(c)
  BY <1>1, <1>3 DEF Forward, ForwardFails, Goes, ThreadFields
<1>4. CASE ReadResponse(c)
  BY <1>1, <1>4 DEF ReadResponse, Goes, ThreadFields
<1>5. CASE Reply(c)
  <2>1. PICK n : thread' = [thread EXCEPT ![c] =
                   IF n < Len(thread[c].out)
                   THEN [thread[c] EXCEPT !.out = Drop(@, n)]
                   ELSE [Saved(thread[c]) EXCEPT !.out = <<>>, !.pc = thread[c].next]]
    BY <1>5 DEF Reply, Goes
  <2>2. DOMAIN Saved(thread[c]) = ThreadFields /\ Saved(thread[c]).req = thread[c].req
    BY <1>1 DEF Saved, ThreadFields
  <2>3. thread[c].pc = "reply" /\ thread[c].next \in {"close", "response"}
    BY <1>1, <1>5 DEF Reply, ThreadOK
  <2>4. PICK t : t = Saved(thread[c]) /\ DOMAIN t = ThreadFields /\ t.req = thread[c].req
    BY <2>2
  <2> QED BY <1>1, <2>1, <2>3, <2>4 DEF ThreadFields
<1>6. CASE ReplyFails(c)
  BY <1>1, <1>6 DEF ReplyFails, Goes, ThreadFields
<1>7. CASE Insert(c) \/ Close(c)
  BY <1>1, <1>7 DEF Insert, Close, Goes, ThreadFields
<1> QED BY <1>2, <1>3, <1>4, <1>5, <1>6, <1>7 DEF ServeNext

(* What the client of c sends is behind what is unread already.            *)
LEMMA SentOn ==
  ASSUME HInv, NEW c \in Relayed, Listening(c), ClientSend(c), thread' = thread, request' = request
  PROVE  Listening(c)' /\ client'[c].pc # "gone"
<1>1. /\ c \in Client /\ c \in DOMAIN client /\ DOMAIN client[c] = {"pc", "left", "got"}
      /\ Outer(c) \in Link /\ PipesOK(pipe) /\ DOMAIN pipe = Link \X Way
      /\ Up(Outer(c)) \in DOMAIN pipe /\ Up(Outer(c)) # Down(Outer(c)) /\ Down(Outer(c)) \in DOMAIN pipe
  BY Links, ServableLinks, Ends DEF HInv, ShapeOK, PipeOK, PipesOK, ClientOK
<1>2. PICK left \in Bytes, d \in Bytes, usr \in Bytes, buf \in Bytes :
        /\ left = client[c].left /\ d = U(c).data
        /\ usr = thread[c].rio.usr /\ buf = thread[c].rio.buf
  BY DEF Listening, OpenPipe, Reader
<1>3. PICK n : /\ n = Room(pipe, Up(Outer(c)), left) /\ n # 0
               /\ pipe' = Written(pipe, Up(Outer(c)), SubSeq(left, 1, n))
               /\ client' = [client EXCEPT ![c] =
                               [client[c] EXCEPT !.left = Drop(@, n),
                                                 !.pc = IF n = Len(left) THEN "receive" ELSE @]]
               /\ client[c].pc = "send"
  BY <1>2 DEF ClientSend, WriteSizes, Is
<1>4. PICK a \in Nat, b \in Nat : a = Len(d) /\ b = Len(left) /\ a <= SOCKBUF
  BY <1>2, Lengths DEF Listening
<1>5. n = AtMost(SOCKBUF - a, b) /\ U(c).gone = FALSE
  BY <1>2, <1>3, <1>4 DEF Room, U, Listening, OpenPipe
<1>6. n \in 0 .. b /\ a + n <= SOCKBUF
  BY <1>3, <1>4, <1>5, RioAssumption DEF AtMost
<1>7. n \in 0 .. Len(left)
  BY <1>4, <1>6
<1>8. /\ Then(d, SubSeq(left, 1, n)) \in Bytes /\ Len(Then(d, SubSeq(left, 1, n))) = a + n
      /\ Drop(left, n) \in Bytes
  BY <1>4, <1>7, Moved, NoBytes
<1>9. U(c)' = [U(c) EXCEPT !.data = Then(d, SubSeq(left, 1, n))] /\ D(Outer(c))' = D(Outer(c))
  BY <1>1, <1>2, <1>3, <1>5 DEF Written, U, D, Then
<1>10. U(c)' \in OpenPipe /\ U(c)'.data = Then(d, SubSeq(left, 1, n))
  BY <1>8, <1>9 DEF Listening, OpenPipe
<1>11. client'[c].left = Drop(left, n) /\ client'[c].pc # "gone"
  BY <1>1, <1>2, <1>3
<1>12. Len(U(c)'.data) <= SOCKBUF
  BY <1>6, <1>8, <1>10
<1>13. Unread(c)' = Unread(c)
  <2>1. PICK x \in Bytes, y \in Bytes, z \in Bytes :
          /\ x = SubSeq(left, 1, n) /\ y = Drop(left, n) /\ z = Then(d, x)
    BY <1>7, <1>8, Cut
  <2>2. Then(x, y) = left
    BY <1>7, <2>1, Cut
  <2>3. Then(z, y) = Then(d, left)
    BY <2>1, <2>2, Associates
  <2> QED BY <1>2, <1>10, <1>11, <2>1, <2>3 DEF Unread
<1>14. PICK k \in 0 .. Len(request[c]) :
        /\ Unread(c) = Drop(request[c], k)
        /\ thread[c].pc = "request" => k = 0 /\ thread[c].host = <<>> /\ thread[c].rest = <<>>
        /\ thread[c].pc = "headers" => KeptOK(thread[c], k)
  BY DEF Listening
<1>15. thread[c].pc = "headers" => KeptOK(thread[c], k)'
  BY <1>14 DEF KeptOK
<1>16. \E j \in 0 .. Len(request'[c]) :
        /\ Unread(c)' = Drop(request'[c], j)
        /\ thread'[c].pc = "request" => j = 0 /\ thread'[c].host = <<>> /\ thread'[c].rest = <<>>
        /\ thread'[c].pc = "headers" => KeptOK(thread[c], j)'
  BY <1>13, <1>14, <1>15
<1> QED BY <1>8, <1>9, <1>10, <1>11, <1>12, <1>16 DEF Listening

LEMMA OwnClientKeeps ==
  ASSUME HInv, NEW c \in Relayed, HeadersInv(c), ClientStep(c) \/ ClientGoes(c),
         thread' = thread, request' = request
  PROVE  HeadersInv(c)'
<1>1. c \in Client /\ c \in DOMAIN client /\ DOMAIN client[c] = {"pc", "left", "got"} /\ c \notin Direct
  BY ServableLinks DEF HInv, ShapeOK, ClientOK, Relayed
<1>2. CASE ClientGoes(c)
  <2>1. client'[c].pc = "gone"
    BY <1>1, <1>2 DEF ClientGoes, Is
  <2> QED BY <2>1 DEF HeadersInv, Ordinary
<1>3. CASE ClientConnect(c)
  BY <1>1, <1>3 DEF ClientConnect, HInv, ShapeOK, ClientOK
<1>4. CASE ClientSend(c)
  <2>1. client[c].pc # "gone" /\ (Listening(c) => Listening(c)')
    BY <1>4, SentOn DEF ClientSend
  <2> QED BY <1>1, <2>1, HeadersKept
<1>5. CASE ClientSendFails(c)
  <2>1. client[c].pc # "gone" /\ ~Listening(c)
    BY <1>5 DEF ClientSendFails, WriteFails, Listening, U, OpenPipe
  <2> QED BY <1>1, <2>1, HeadersKept
<1>6. CASE ClientReceive(c)
  <2>1. client[c].pc # "gone"
    BY <1>6 DEF ClientReceive
  <2>2. ASSUME Listening(c) PROVE Listening(c)'
    <3>1. D(Outer(c)).data # <<>>
      BY <1>6, <2>2 DEF ClientReceive, Readable, Listening, D
    <3>2. /\ pipe' = [pipe EXCEPT ![Down(Outer(c))].data = <<>>]
          /\ client' = [client EXCEPT ![c] = [client[c] EXCEPT !.got = @ \o D(Outer(c)).data]]
      BY <1>6, <3>1 DEF ClientReceive, Is, D
    <3>3. /\ Outer(c) \in Link /\ DOMAIN pipe = Link \X Way /\ D(Outer(c)) \in DownPipe
          /\ Up(Outer(c)) \in DOMAIN pipe /\ Up(Outer(c)) # Down(Outer(c)) /\ Down(Outer(c)) \in DOMAIN pipe
      BY <1>1, Links, Ends DEF HInv, ShapeOK, PipeOK, PipesOK, D
    <3>4. U(c)' = U(c) /\ client'[c].left = client[c].left
      BY <1>1, <3>2, <3>3 DEF U
    <3>5. D(Outer(c))'.fin = D(Outer(c)).fin /\ D(Outer(c))'.rst = D(Outer(c)).rst
      BY <3>2, <3>3 DEF D, DownPipe
    <3> QED BY <1>1, <2>2, <3>4, <3>5, ListeningKept
  <2> QED BY <1>1, <2>1, <2>2, HeadersKept
<1> QED BY <1>2, <1>3, <1>4, <1>5, <1>6 DEF ClientStep

(* After a turn of rio_readlineb the thread has more of a line, or one.    *)
ReadOn(c, r) ==
  /\ r.rp \in Reader /\ client'[c].left \in Bytes
  /\ U(c)' \in OpenPipe /\ Len(U(c)'.data) <= SOCKBUF
  /\ ~D(Outer(c))'.fin /\ ~D(Outer(c))'.rst
  /\ \E k \in 0 .. Len(request[c]), rest \in Bytes :
       /\ rest = Then(r.rp.buf, Then(U(c)'.data, client'[c].left))
       /\ thread[c].pc = "request" => k = 0 /\ thread[c].host = <<>> /\ thread[c].rest = <<>>
       /\ thread[c].pc = "headers" => KeptOK(thread[c], k)
       /\ \/ /\ r.rc = "more" /\ NoNewline(r.rp.usr) /\ Len(r.rp.usr) < MAXLINE - 1
             /\ Then(r.rp.usr, rest) = Drop(request[c], k)
          \/ /\ r.rc = "data" /\ IsLine(r.rp.usr)
             /\ k + Len(r.rp.usr) \in 0 .. Len(request[c])
             /\ rest = Drop(request[c], k + Len(r.rp.usr))
             /\ \A i \in 1 .. Len(r.rp.usr) : r.rp.usr[i] = request[c][k + i]

LEMMA LineRead ==
  ASSUME HInv, NEW c \in Relayed, Listening(c), Ordinary(c), request \in Requests,
         Ready(thread[c].rio, U(c)), NEW r, r = rio_readlineb(thread[c].rio, U(c), MAXLINE),
         pipe' = [pipe EXCEPT ![Up(Outer(c))] = r.p], client' = client, request' = request
  PROVE  ReadOn(c, r)
<1>1. PICK left \in Bytes, d \in Bytes, usr \in Bytes, buf \in Bytes :
        /\ left = client[c].left /\ d = U(c).data
        /\ usr = thread[c].rio.usr /\ buf = thread[c].rio.buf
  BY DEF Listening, OpenPipe, Reader
<1>2. /\ r.rp \in Reader /\ r.p \in OpenPipe /\ Len(r.p.data) <= Len(d)
      /\ Then(r.rp.usr, Then(r.rp.buf, r.p.data)) = Then(usr, Then(buf, d))
      /\ \A i \in 1 .. (Len(r.rp.usr) - 1) : ~IsNewline(r.rp.usr[i])
      /\ \/ r.rc = "more" /\ NoNewline(r.rp.usr) /\ Len(r.rp.usr) < MAXLINE - 1
         \/ /\ r.rc = "data" /\ r.rp.usr # <<>>
            /\ IsNewline(r.rp.usr[Len(r.rp.usr)]) \/ Len(r.rp.usr) = MAXLINE - 1
  BY <1>1, ReadLine DEF Listening
<1>3. /\ Outer(c) \in Link /\ Up(Outer(c)) \in DOMAIN pipe
      /\ Up(Outer(c)) # Down(Outer(c)) /\ Down(Outer(c)) \in DOMAIN pipe
  BY Links, ServableLinks, Ends DEF HInv, ShapeOK, PipeOK, PipesOK
<1>4. U(c)' = r.p /\ D(Outer(c))' = D(Outer(c)) /\ client'[c].left = left
  BY <1>1, <1>3 DEF U, D
<1>5. Len(U(c)'.data) <= SOCKBUF
  <2>1. Len(d) \in Nat /\ Len(d) <= SOCKBUF /\ Len(r.p.data) \in Nat
    BY <1>1, <1>2, Lengths DEF Listening, OpenPipe
  <2> QED BY <1>2, <1>4, <2>1, RioAssumption
<1>6. PICK k \in 0 .. Len(request[c]) :
        /\ Unread(c) = Drop(request[c], k)
        /\ thread[c].pc = "request" => k = 0 /\ thread[c].host = <<>> /\ thread[c].rest = <<>>
        /\ thread[c].pc = "headers" => KeptOK(thread[c], k)
  BY DEF Listening
<1>7. PICK nu \in Bytes, nb \in Bytes, nd \in Bytes :
        nu = r.rp.usr /\ nb = r.rp.buf /\ nd = r.p.data
  BY <1>2 DEF Reader, OpenPipe
<1>8. PICK rest \in Bytes : rest = Then(nb, Then(nd, left))
  BY ThenBytes
<1>9. Then(nu, rest) = Drop(request[c], k)
  <2>1. Then(nu, Then(nb, Then(nd, left))) = Then(Then(nu, Then(nb, nd)), left)
    BY Regroup
  <2>2. Then(usr, Then(buf, Then(d, left))) = Then(Then(usr, Then(buf, d)), left)
    BY Regroup
  <2>3. Then(nu, Then(nb, nd)) = Then(usr, Then(buf, d))
    BY <1>2, <1>7
  <2>4. Unread(c) = Then(usr, Then(buf, Then(d, left)))
    BY <1>1 DEF Unread
  <2> QED BY <1>6, <1>8, <2>1, <2>2, <2>3, <2>4
<1>10. rest = Then(r.rp.buf, Then(U(c)'.data, client'[c].left))
  BY <1>4, <1>7, <1>8
<1>11. CASE r.rc = "more" /\ NoNewline(r.rp.usr) /\ Len(r.rp.usr) < MAXLINE - 1
  <2>1. Then(r.rp.usr, rest) = Drop(request[c], k)
    BY <1>7, <1>9
  <2> QED BY <1>2, <1>4, <1>5, <1>6, <1>10, <1>11, <2>1 DEF Listening, ReadOn
<1>12. CASE /\ r.rc = "data" /\ r.rp.usr # <<>>
            /\ IsNewline(r.rp.usr[Len(r.rp.usr)]) \/ Len(r.rp.usr) = MAXLINE - 1
  <2>1. PICK s \in Bytes : s = request[c]
    BY RequestBytes, ServableLinks
  <2>2. InLines(s, MAXLINE) /\ HeadersAreLines(s) /\ k \in 0 .. Len(s)
    BY <2>1 DEF Ordinary
  <2>3. /\ Then(nu, rest) = Drop(s, k) /\ nu # <<>>
        /\ \A i \in 1 .. (Len(nu) - 1) : ~IsNewline(nu[i])
        /\ IsNewline(nu[Len(nu)]) \/ Len(nu) = MAXLINE - 1
    BY <1>2, <1>7, <1>9, <1>12, <2>1
  <2>4. /\ IsLine(nu) /\ k + Len(nu) \in 0 .. Len(s) /\ rest = Drop(s, k + Len(nu))
        /\ \A i \in 1 .. Len(nu) : nu[i] = s[k + i]
    BY <2>2, <2>3, NextLine
  <2>5. /\ IsLine(r.rp.usr) /\ k + Len(r.rp.usr) \in 0 .. Len(request[c])
        /\ rest = Drop(request[c], k + Len(r.rp.usr))
        /\ \A i \in 1 .. Len(r.rp.usr) : r.rp.usr[i] = request[c][k + i]
    BY <1>7, <2>1, <2>4
  <2> QED BY <1>2, <1>4, <1>5, <1>6, <1>10, <1>12, <2>5 DEF Listening, ReadOn
<1> QED BY <1>2, <1>11, <1>12

(* What is left to say of the thread after it.                             *)
LEMMA ListensOn ==
  ASSUME NEW c \in Relayed, NEW t, thread'[c] = t, t.rio \in Reader, t.buf \in Bytes,
         client'[c].left \in Bytes, U(c)' \in OpenPipe, Len(U(c)'.data) <= SOCKBUF,
         ~D(Outer(c))'.fin, ~D(Outer(c))'.rst,
         NoNewline(t.rio.usr), Len(t.rio.usr) < MAXLINE - 1, request' = request,
         NEW k \in 0 .. Len(request[c]),
         Then(t.rio.usr, Then(t.rio.buf, Then(U(c)'.data, client'[c].left))) = Drop(request[c], k),
         t.pc = "request" => k = 0 /\ t.host = <<>> /\ t.rest = <<>>,
         t.pc = "headers" => KeptOK(t, k)
  PROVE  Listening(c)'
<1>1. Unread(c)' = Drop(request'[c], k) /\ k \in 0 .. Len(request'[c])
  BY DEF Unread
<1>2. t.pc = "headers" => KeptOK(thread[c], k)'
  BY DEF KeptOK
<1>3. \E j \in 0 .. Len(request'[c]) :
        /\ Unread(c)' = Drop(request'[c], j)
        /\ thread'[c].pc = "request" => j = 0 /\ thread'[c].host = <<>> /\ thread'[c].rest = <<>>
        /\ thread'[c].pc = "headers" => KeptOK(thread[c], j)'
  BY <1>1, <1>2
<1> QED BY <1>3 DEF Listening

LEMMA Restarted ==
  ASSUME NEW rp \in Reader
  PROVE  /\ Restart(rp) \in Reader /\ Restart(rp).usr = <<>> /\ Restart(rp).buf = rp.buf
         /\ NoNewline(<<>>) /\ Len(<<>>) < MAXLINE - 1
<1>1. \A none \in Bytes : [rp EXCEPT !.usr = none] \in Reader /\ [rp EXCEPT !.usr = none].buf = rp.buf
                          /\ [rp EXCEPT !.usr = none].usr = none
  BY DEF Reader
<1>2. Len(<<>>) < MAXLINE - 1 /\ NoNewline(<<>>)
  BY NoBytes, TinyAssumption DEF NoNewline
<1> QED BY <1>1, <1>2, NoBytes DEF Restart

(* A step of the thread while it reads.                                    *)
LEMMA ReadingKept ==
  ASSUME NEW c \in Client, HeadersInv(c), request' = request, client' = client,
         thread'[c].req = thread[c].req,
         Ordinary(c) => /\ thread'[c].pc \in {"request", "headers"} => Listening(c)'
                        /\ thread'[c].pc = "lookup" => KeptOK(thread'[c], Len(request[c]) - 1)
  PROVE  HeadersInv(c)'
<1>1. Ordinary(c)' => Ordinary(c)
  BY DEF Ordinary
<1>2. WellFormed(thread[c].req) => WellFormed(thread[c].req)'
  BY DEF WellFormed
<1>3. KeptOK(thread'[c], Len(request[c]) - 1) => KeptOK(thread[c], Len(request[c]) - 1)'
  BY DEF KeptOK
<1> QED BY <1>1, <1>2, <1>3 DEF HeadersInv

LEMMA RequestHeadersKeep ==
  ASSUME HInv, NEW c \in Relayed, HeadersInv(c), request \in Requests,
         ReadRequest(c), client' = client, request' = request
  PROVE  HeadersInv(c)'
<1>1. /\ c \in Client /\ c \in DOMAIN thread /\ DOMAIN thread[c] = ThreadFields
      /\ thread[c].pc = "request" /\ c \notin Direct
  BY ServableLinks DEF HInv, ShapeOK, ThreadOK, ReadRequest, Relayed
<1>2. PICK r : r = rio_readlineb(thread[c].rio, U(c), MAXLINE)
  OBVIOUS
<1> DEFINE t == [thread[c] EXCEPT !.rio = r.rp]
<1>3. /\ Ready(thread[c].rio, U(c)) /\ pipe' = [pipe EXCEPT ![Up(Outer(c))] = r.p]
      /\ thread' = [thread EXCEPT ![c] = CASE r.rc = "more" -> t
                                           [] r.rc = "data" -> Judged(t, r.rp.usr)
                                           [] OTHER -> [t EXCEPT !.pc = "close"]]
  BY <1>2 DEF ReadRequest, Goes, U
<1>4. /\ DOMAIN t = ThreadFields /\ t.rio = r.rp /\ t.buf = thread[c].buf /\ t.pc = "request"
      /\ t.host = thread[c].host /\ t.rest = thread[c].rest /\ t.req = thread[c].req
  BY <1>1 DEF ThreadFields
<1>5. /\ DOMAIN t = ThreadFields /\ t.rio = r.rp /\ t.req = thread[c].req
      /\ thread'[c] \in {t, Judged(t, r.rp.usr), [t EXCEPT !.pc = "close"]}
  BY <1>1, <1>3, <1>4
<1> HIDE DEF t
<1> DEFINE line == r.rp.usr
           u == [t EXCEPT !.pc = "headers", !.uri = line[2], !.rio = Restart(@),
                          !.buf = Over(line \o <<NUL>>, @)]
<1>6. /\ DOMAIN u = ThreadFields /\ u.pc = "headers" /\ u.uri = line[2] /\ u.rio = Restart(r.rp)
      /\ u.buf = Over(line \o <<NUL>>, thread[c].buf)
      /\ u.host = t.host /\ u.rest = t.rest /\ u.req = t.req
  BY <1>4 DEF ThreadFields
<1>7. \/ Judged(t, line).pc = "reply" /\ Judged(t, line).req = t.req
      \/ Len(line) = 3 /\ line[1] = "GET" /\ Judged(t, line) = u
  <2>1. \A code : Refuse(t, code).pc = "reply" /\ Refuse(t, code).req = t.req
    BY <1>5 DEF Refuse, ThreadFields
  <2> HIDE DEF u, line
  <2> QED BY <2>1 DEF Judged, u
<1> HIDE DEF u, line
<1>8. thread'[c].req = thread[c].req
  <2>1. [t EXCEPT !.pc = "close"].req = t.req
    BY <1>5 DEF ThreadFields
  <2> QED BY <1>4, <1>5, <1>6, <1>7, <2>1 DEF line
<1>9. ASSUME Ordinary(c)
      PROVE  /\ thread'[c].pc \in {"request", "headers"} => Listening(c)'
             /\ thread'[c].pc # "lookup"
  <2>1. Listening(c)
    BY <1>1, <1>9 DEF HeadersInv
  <2>2. /\ ReadOn(c, r) /\ r.rp \in Reader /\ client'[c].left \in Bytes
        /\ U(c)' \in OpenPipe /\ Len(U(c)'.data) <= SOCKBUF
        /\ ~D(Outer(c))'.fin /\ ~D(Outer(c))'.rst
    <3>1. Ready(thread[c].rio, U(c)) /\ pipe' = [pipe EXCEPT ![Up(Outer(c))] = r.p]
      BY <1>3
    <3>2. ReadOn(c, r)
      BY <1>2, <1>9, <2>1, <3>1, LineRead
    <3> QED BY <3>2 DEF ReadOn
  <2>3. PICK k \in 0 .. Len(request[c]), rest \in Bytes :
             /\ rest = Then(r.rp.buf, Then(U(c)'.data, client'[c].left))
             /\ k = 0 /\ thread[c].host = <<>> /\ thread[c].rest = <<>>
             /\ \/ /\ r.rc = "more" /\ NoNewline(line) /\ Len(line) < MAXLINE - 1
                   /\ Then(line, rest) = Drop(request[c], k)
                \/ /\ r.rc = "data" /\ IsLine(line)
                   /\ k + Len(line) \in 0 .. Len(request[c])
                   /\ rest = Drop(request[c], k + Len(line))
                   /\ \A i \in 1 .. Len(line) : line[i] = request[c][k + i]
    BY <1>1, <2>2 DEF line, ReadOn
  <2>4. thread[c].buf \in Bytes
    BY <2>1 DEF Listening
  <2>5. CASE r.rc = "more"
    <3>1. thread'[c] = t
      BY <1>1, <1>3, <2>5
    <3>2. NoNewline(line) /\ Len(line) < MAXLINE - 1 /\ Then(line, rest) = Drop(request[c], k)
      BY <2>3, <2>5
    <3>3. /\ NoNewline(t.rio.usr) /\ Len(t.rio.usr) < MAXLINE - 1 /\ t.rio \in Reader /\ t.buf \in Bytes
          /\ Then(t.rio.usr, Then(t.rio.buf, Then(U(c)'.data, client'[c].left))) = Drop(request[c], k)
      BY <1>4, <2>2, <2>3, <2>4, <3>2 DEF line
    <3>4. t.pc = "request" /\ k = 0 /\ t.host = <<>> /\ t.rest = <<>>
      BY <1>4, <2>3
    <3>5. Listening(c)'
      BY <2>2, <3>1, <3>3, <3>4, ListensOn
    <3> QED BY <3>1, <3>4, <3>5
  <2>6. CASE r.rc = "data"
    <3>1. thread'[c] = Judged(t, line)
      BY <1>1, <1>3, <2>6 DEF line
    <3>2. CASE Judged(t, line).pc = "reply"
      BY <3>1, <3>2
    <3>3. CASE Len(line) = 3 /\ line[1] = "GET" /\ Judged(t, line) = u
      <4>1. /\ IsLine(line) /\ k = 0 /\ 3 \in 0 .. Len(request[c]) /\ rest = Drop(request[c], 3)
            /\ \A i \in 1 .. 3 : line[i] = request[c][i]
        BY <2>3, <2>6, <3>3
      <4>2. line \in Bytes /\ \A i \in 1 .. Len(line) : line[i] # NUL
        BY <2>2, <4>1 DEF Reader, line, IsLine
      <4>3. u.buf \in Bytes
        BY <1>6, <2>4, <4>2, StringRead
      <4>4. /\ u.rio \in Reader /\ NoNewline(u.rio.usr) /\ Len(u.rio.usr) < MAXLINE - 1
            /\ u.rio.usr = <<>> /\ u.rio.buf = r.rp.buf
        BY <1>6, <2>2, Restarted
      <4>5. Then(u.rio.usr, Then(u.rio.buf, Then(U(c)'.data, client'[c].left))) = Drop(request[c], 3)
        BY <2>3, <4>1, <4>4, ThenNothing
      <4>6. u.uri \in DOMAIN Parsed
        <5>1. line[1] = request[c][1] /\ line[2] = request[c][2] /\ Len(request[c]) > 2
          <6>1. 1 \in 1 .. 3 /\ 2 \in 1 .. 3 /\ Len(request[c]) \in Nat
            BY RequestBytes, Lengths, ServableLinks
          <6> QED BY <4>1, <6>1
        <5> QED BY <1>1, <1>6, <3>3, <5>1, RequestsAssumption
      <4>7. KeptOK(u, 3)
        <5>1. u.host = <<>> /\ u.rest = <<>>
          BY <1>4, <1>6, <2>3
        <5>2. HostLine(<<>>) /\ FullLines(<<>>) /\ Nameless(<<>>)
          BY NoBytes DEF HostLine, FullLines, Nameless, Never
        <5>3. Len(<<>>) + Len(<<>>) + 3 <= 3
          BY NoBytes
        <5> QED BY <4>6, <5>1, <5>2, <5>3, NoBytes DEF KeptOK
      <4>8. Listening(c)'
        <5>1. thread'[c] = u /\ u.pc = "headers"
          BY <1>6, <3>1, <3>3
        <5> QED BY <2>2, <4>1, <4>3, <4>4, <4>5, <4>7, <5>1, ListensOn
      <4> QED BY <1>6, <3>1, <3>3, <4>8
    <3> QED BY <1>7, <3>2, <3>3
  <2> QED BY <2>3, <2>5, <2>6
<1> QED BY <1>1, <1>8, <1>9, ReadingKept

LEMMA HeaderLinesKeep ==
  ASSUME HInv, NEW c \in Relayed, HeadersInv(c), request \in Requests,
         ReadHeaders(c), client' = client, request' = request
  PROVE  HeadersInv(c)'
<1>1. /\ c \in Client /\ c \in DOMAIN thread /\ DOMAIN thread[c] = ThreadFields
      /\ thread[c].pc = "headers"
  BY ServableLinks DEF HInv, ShapeOK, ThreadOK, ReadHeaders
<1>2. PICK r : r = rio_readlineb(thread[c].rio, U(c), MAXLINE)
  OBVIOUS
<1> DEFINE t == [thread[c] EXCEPT !.rio = Restart(r.rp)]
           wrong == Over(IF r.rc = "error" THEN r.rp.usr ELSE r.rp.usr \o <<NUL>>, t.buf)
<1>3. /\ Ready(thread[c].rio, U(c)) /\ pipe' = [pipe EXCEPT ![Up(Outer(c))] = r.p]
      /\ CASE r.rc = "more" -> thread' = [thread EXCEPT ![c] = [t EXCEPT !.rio = r.rp]]
           [] r.rc = "eof" -> thread' = [thread EXCEPT ![c] = [t EXCEPT !.pc = "lookup"]]
           [] OTHER -> \E line \in Strings(wrong) :
                         thread' = [thread EXCEPT ![c] = Kept([t EXCEPT !.buf = wrong], line)]
  BY <1>2 DEF ReadHeaders, Goes, U
<1>4. /\ DOMAIN t = ThreadFields /\ t.rio = Restart(r.rp) /\ t.buf = thread[c].buf /\ t.pc = "headers"
      /\ t.host = thread[c].host /\ t.rest = thread[c].rest /\ t.req = thread[c].req
      /\ t.uri = thread[c].uri
  BY <1>1 DEF ThreadFields
<1>5. PICK buf, line, u :
        /\ thread' = [thread EXCEPT ![c] = u]
        /\ r.rc = "more" => u = [t EXCEPT !.rio = r.rp]
        /\ r.rc = "data" => /\ buf = Over(r.rp.usr \o <<NUL>>, thread[c].buf)
                            /\ line \in Strings(buf) /\ u = Kept([t EXCEPT !.buf = buf], line)
        /\ \/ u = [t EXCEPT !.rio = r.rp] \/ u = [t EXCEPT !.pc = "lookup"]
           \/ u = Kept([t EXCEPT !.buf = buf], line)
  <2>1. CASE r.rc = "more"
    BY <1>3, <2>1
  <2>2. CASE r.rc = "eof"
    BY <1>3, <2>2
  <2>3. CASE r.rc \notin {"more", "eof"}
    <3>1. PICK line \in Strings(wrong) :
             thread' = [thread EXCEPT ![c] = Kept([t EXCEPT !.buf = wrong], line)]
      BY <1>3, <2>3
    <3>2. r.rc = "data" => wrong = Over(r.rp.usr \o <<NUL>>, thread[c].buf)
      BY <1>4
    <3> HIDE DEF wrong, t
    <3> QED BY <2>3, <3>1, <3>2
  <2> QED BY <2>1, <2>2, <2>3
<1> HIDE DEF t, wrong
<1>6. thread'[c] = u
  BY <1>1, <1>5
<1>7. \A b : /\ DOMAIN [t EXCEPT !.buf = b] = ThreadFields /\ [t EXCEPT !.buf = b].pc = "headers"
             /\ [t EXCEPT !.buf = b].rio = t.rio /\ [t EXCEPT !.buf = b].buf = b
             /\ [t EXCEPT !.buf = b].host = t.host /\ [t EXCEPT !.buf = b].rest = t.rest
             /\ [t EXCEPT !.buf = b].uri = t.uri /\ [t EXCEPT !.buf = b].req = t.req
  BY <1>4 DEF ThreadFields
<1>8. u.req = thread[c].req
  <2>1. \A s, l : DOMAIN s = ThreadFields => Kept(s, l).req = s.req
    BY DEF Kept, ThreadFields
  <2> QED BY <1>4, <1>5, <1>7, <2>1 DEF ThreadFields
<1>9. ASSUME Ordinary(c)
      PROVE  /\ u.pc \in {"request", "headers"} => Listening(c)'
             /\ u.pc = "lookup" => KeptOK(u, Len(request[c]) - 1)
  <2>1. Listening(c)
    BY <1>1, <1>9 DEF HeadersInv
  <2>2. /\ ReadOn(c, r) /\ r.rp \in Reader /\ client'[c].left \in Bytes
        /\ U(c)' \in OpenPipe /\ Len(U(c)'.data) <= SOCKBUF
        /\ ~D(Outer(c))'.fin /\ ~D(Outer(c))'.rst
    <3>1. Ready(thread[c].rio, U(c)) /\ pipe' = [pipe EXCEPT ![Up(Outer(c))] = r.p]
      BY <1>3
    <3>2. ReadOn(c, r)
      BY <1>2, <1>9, <2>1, <3>1, LineRead
    <3> QED BY <3>2 DEF ReadOn
  <2>3. PICK k \in 0 .. Len(request[c]), rest \in Bytes :
             /\ rest = Then(r.rp.buf, Then(U(c)'.data, client'[c].left))
             /\ KeptOK(thread[c], k)
             /\ \/ /\ r.rc = "more" /\ NoNewline(r.rp.usr) /\ Len(r.rp.usr) < MAXLINE - 1
                   /\ Then(r.rp.usr, rest) = Drop(request[c], k)
                \/ /\ r.rc = "data" /\ IsLine(r.rp.usr)
                   /\ k + Len(r.rp.usr) \in 0 .. Len(request[c])
                   /\ rest = Drop(request[c], k + Len(r.rp.usr))
    BY <1>1, <2>2 DEF ReadOn
  <2>4. thread[c].buf \in Bytes /\ Len(request[c]) \in Nat /\ k \in Nat
    BY <2>1, RequestBytes, Lengths, ServableLinks DEF Listening
  <2>5. CASE r.rc = "more"
    <3>1. /\ u.rio = r.rp /\ u.buf = thread[c].buf /\ u.pc = "headers"
          /\ u.host = thread[c].host /\ u.rest = thread[c].rest /\ u.uri = thread[c].uri
      BY <1>4, <1>5, <2>5 DEF ThreadFields
    <3>2. KeptOK(u, k)
      BY <2>3, <3>1 DEF KeptOK
    <3>3. /\ NoNewline(u.rio.usr) /\ Len(u.rio.usr) < MAXLINE - 1 /\ u.rio \in Reader /\ u.buf \in Bytes
          /\ Then(u.rio.usr, Then(u.rio.buf, Then(U(c)'.data, client'[c].left))) = Drop(request[c], k)
      BY <2>2, <2>3, <2>4, <2>5, <3>1
    <3>4. Listening(c)'
      BY <1>6, <2>2, <3>1, <3>2, <3>3, ListensOn
    <3> QED BY <3>1, <3>4
  <2>6. CASE r.rc = "data"
    <3>1. PICK n \in Nat, usr \in Bytes :
            /\ usr = r.rp.usr /\ n = Len(usr) /\ n > 0 /\ IsLine(usr)
            /\ k + n \in 0 .. Len(request[c]) /\ rest = Drop(request[c], k + n)
      <4>1. PICK usr \in Bytes : usr = r.rp.usr
        BY <2>2 DEF Reader
      <4>2. IsLine(usr) /\ Len(usr) \in Nat /\ Len(usr) # 0
        BY <2>3, <2>6, <4>1, Lengths DEF IsLine
      <4> QED BY <2>3, <2>6, <4>1, <4>2
    <3>2. buf \in Bytes /\ line = usr
      <4>1. buf = Over(usr \o <<NUL>>, thread[c].buf) /\ line \in Strings(buf)
        BY <1>5, <2>6, <3>1
      <4>2. \A i \in 1 .. Len(usr) : usr[i] # NUL
        BY <3>1 DEF IsLine
      <4> QED BY <2>4, <4>1, <4>2, StringRead
    <3>3. PICK s : s = [t EXCEPT !.buf = buf]
      OBVIOUS
    <3>4. /\ DOMAIN s = ThreadFields /\ s.pc = "headers" /\ s.rio = Restart(r.rp) /\ s.buf = buf
          /\ s.host = thread[c].host /\ s.rest = thread[c].rest /\ s.uri = thread[c].uri
      BY <1>4, <1>7, <3>3
    <3>5. KeptOK(s, k)
      BY <2>3, <3>4 DEF KeptOK
    <3>6. u = Kept(s, usr)
      BY <1>5, <2>6, <3>2, <3>3
    <3>7. /\ u.rio = s.rio /\ u.buf = s.buf
          /\ \/ u.pc = "headers" /\ KeptOK(u, k + n)
             \/ u.pc = "lookup" /\ KeptOK(u, k)
      BY <2>4, <3>1, <3>4, <3>5, <3>6, KeptKeeps
    <3>8. CASE u.pc = "headers" /\ KeptOK(u, k + n)
      <4>1. /\ u.rio \in Reader /\ NoNewline(u.rio.usr) /\ Len(u.rio.usr) < MAXLINE - 1
            /\ u.rio.usr = <<>> /\ u.rio.buf = r.rp.buf /\ u.buf \in Bytes
        BY <2>2, <3>2, <3>4, <3>7, Restarted
      <4>2. Then(u.rio.usr, Then(u.rio.buf, Then(U(c)'.data, client'[c].left))) = Drop(request[c], k + n)
        BY <2>3, <3>1, <4>1, ThenNothing
      <4>3. Listening(c)'
        BY <1>6, <2>2, <3>1, <3>8, <4>1, <4>2, ListensOn
      <4> QED BY <3>8, <4>3
    <3>9. CASE u.pc = "lookup" /\ KeptOK(u, k)
      <4>1. k <= Len(request[c]) - 1
        BY <2>4, <3>1
      <4>2. Len(u.host) + Len(u.rest) + 3 <= Len(request[c]) - 1
        <5>1. PICK a \in Nat, b \in Nat, m \in Nat :
                a = Len(u.host) /\ b = Len(u.rest) /\ m = Len(request[c]) /\ a + b + 3 <= k
          BY <2>4, <3>9, Lengths DEF KeptOK
        <5>2. k <= m - 1
          BY <4>1, <5>1
        <5>3. a + b + 3 <= m - 1
          <6>1. k \in Nat /\ a + b + 3 <= k
            BY <2>4, <5>1
          <6> QED BY <5>2, <6>1
        <5> QED BY <5>1, <5>3
      <4> QED BY <3>9, <4>2 DEF KeptOK
    <3> QED BY <3>7, <3>8, <3>9
  <2> QED BY <2>3, <2>5, <2>6
<1> QED BY <1>1, <1>6, <1>8, <1>9, ReadingKept

LEMMA LookupHeadersKeep ==
  ASSUME HInv, NEW c \in Relayed, HeadersInv(c), request \in Requests,
         Lookup(c), client' = client, request' = request
  PROVE  HeadersInv(c)'
<1>1. /\ c \in Client /\ c \in DOMAIN thread /\ DOMAIN thread[c] = ThreadFields
      /\ thread[c].pc = "lookup"
  BY ServableLinks DEF HInv, ShapeOK, ThreadOK, Lookup
<1>2. PICK t : /\ thread' = [thread EXCEPT ![c] = t]
               /\ \/ t = [thread[c] EXCEPT !.pc = "reply", !.out = cache[thread[c].uri], !.next = "close"]
                  \/ t = [thread[c] EXCEPT !.pc = "connect", !.req = WholeRequest(thread[c])]
  BY DEF Lookup, Goes, CacheKey
<1>3. /\ thread'[c] = t /\ t.pc \in {"reply", "connect"}
      /\ t.req = thread[c].req \/ t.req = WholeRequest(thread[c])
  BY <1>1, <1>2 DEF ThreadFields
<1>4. CASE t.req = thread[c].req
  BY <1>1, <1>3, <1>4, LaterKept
<1>5. CASE t.req = WholeRequest(thread[c])
  <2>1. ASSUME Ordinary(c) PROVE WellFormed(t.req)
    <3>1. PICK n \in Nat, m \in Nat : n = Len(request[c]) /\ m = Len(OwnHeaders)
      <4>1. Len(OwnHeaders) = 6
        BY DEF OwnHeaders
      <4> QED BY <4>1, RequestBytes, Lengths, ServableLinks
    <3>2. KeptOK(thread[c], n - 1) /\ n + m + 2 < MAXBUF
      BY <1>1, <2>1, <3>1 DEF HeadersInv, Ordinary
    <3>3. n - 1 \in Nat /\ (n - 1) + 1 + m + 2 < MAXBUF
      <4>1. PICK a \in Nat, b \in Nat : a + b + 3 <= n - 1
        <5>1. Len(thread[c].host) \in Nat /\ Len(thread[c].rest) \in Nat
          BY <3>2, Lengths DEF KeptOK
        <5> QED BY <3>2, <5>1 DEF KeptOK
      <4>2. n - 1 \in Nat /\ (n - 1) + 1 = n
        BY <4>1
      <4> QED BY <3>2, <4>2
    <3> QED BY <1>5, <3>1, <3>2, <3>3, WholeIsWellFormed
  <2>2. Ordinary(c)' => Ordinary(c)
    BY DEF Ordinary
  <2>3. WellFormed(t.req) => WellFormed(thread[c].req)'
    BY <1>3 DEF WellFormed
  <2> QED BY <1>3, <2>1, <2>2, <2>3 DEF HeadersInv
<1> QED BY <1>3, <1>4, <1>5

LEMMA HeadersInit ==
  ASSUME Init, HInv
  PROVE  FInv
<1>1. /\ pipe = [p \in Link \X Way |->
                   [data |-> <<>>, fin |-> FALSE, rst |-> FALSE, gone |-> FALSE]]
      /\ thread = [c \in Client |-> ThreadStart] /\ request \in Requests
      /\ client = [c \in Client |-> [pc |-> IF request[c] = <<>> THEN "done"
                                            ELSE IF c \in Direct THEN "connect" ELSE "send",
                                     left |-> request[c], got |-> <<>>]]
  BY DEF Init, PipeInit, ServeInit, Way
<1>2. ASSUME NEW c \in Client PROVE thread[c].req = <<>>
  BY <1>1 DEF ThreadStart
<1>3. ASSUME NEW c \in Relayed PROVE HeadersInv(c)
  <2>1. c \in Client /\ Outer(c) \in Link
    BY Links, ServableLinks
  <2>2. PICK none \in Bytes : none = <<>> /\ Len(none) = 0
    BY NoBytes
  <2>3. U(c) = [data |-> none, fin |-> FALSE, rst |-> FALSE, gone |-> FALSE]
    BY <1>1, <2>1, <2>2, Ends DEF U
  <2>4. U(c) \in OpenPipe /\ Len(U(c).data) <= SOCKBUF /\ U(c).data = none
    BY <2>2, <2>3, RioAssumption DEF OpenPipe
  <2>5. ~D(Outer(c)).fin /\ ~D(Outer(c)).rst
    BY <1>1, <2>1, Ends DEF D
  <2>6. /\ thread[c].rio = [buf |-> none, usr |-> none] /\ thread[c].buf = <<NUL>>
        /\ thread[c].pc = "request" /\ thread[c].host = <<>> /\ thread[c].rest = <<>>
    BY <1>1, <2>1, <2>2 DEF ThreadStart, rio_readinitb
  <2>7. thread[c].rio \in Reader /\ thread[c].rio.buf = none /\ thread[c].rio.usr = none
    BY <2>6 DEF Reader
  <2>8. thread[c].buf \in Bytes
    <3>1. <<NUL>> \in Seq(Byte)
      BY DEF Byte
    <3> QED BY <2>6, <3>1 DEF Bytes
  <2>9. NoNewline(none) /\ Len(none) < MAXLINE - 1
    BY <2>2, TinyAssumption DEF NoNewline
  <2>10. PICK s \in Bytes : s = request[c] /\ s = client[c].left /\ Len(s) \in Nat
    BY <1>1, <2>1, RequestBytes, Lengths
  <2>11. Unread(c) = Drop(request[c], 0)
    <3>1. Unread(c) = s
      BY <2>2, <2>4, <2>7, <2>10, ThenNothing DEF Unread
    <3>2. Drop(s, 0) = s
      BY <2>10, SubSeqFull DEF Drop, Bytes
    <3> QED BY <2>10, <3>1, <3>2
  <2>12. Listening(c)
    <3>1. 0 \in 0 .. Len(request[c])
      BY <2>10
    <3>2. thread[c].pc # "headers"
      BY <2>6
    <3> QED BY <2>4, <2>5, <2>6, <2>7, <2>8, <2>9, <2>10, <2>11, <3>1, <3>2 DEF Listening
  <2> QED BY <1>2, <2>1, <2>6, <2>12 DEF HeadersInv
<1> QED BY <1>1, <1>2, <1>3, ServableLinks DEF FInv

LEMMA HeadersNext ==
  ASSUME FInv, [Next]_vars, HInv'
  PROVE  FInv'
<1>1. request' = request
  BY DEF Next, vars, TinyStep, ThreadStep, ClientStep, ClientGoes,
         ClientConnect, ClientSend, ClientSendFails, ClientReceive
<1> SUFFICES ASSUME NEW c \in Client
             PROVE  /\ c \in Relayed => HeadersInv(c)'
                    /\ c \in Direct => thread'[c].req = <<>>
  BY <1>1, ServableLinks DEF FInv
<1>2. HInv /\ (c \in Relayed => HeadersInv(c)) /\ (c \in Direct => thread[c].req = <<>>)
  BY DEF FInv
<1>3. CASE UNCHANGED vars
  BY <1>1, <1>2, <1>3, AwayKept DEF vars, serveVars, Apart
<1>4. CASE TinyStep
  BY <1>1, <1>2, <1>4, TinyApart, AwayKept DEF TinyStep, serveVars
<1>5. ASSUME NEW d \in Client, ThreadStep(d)
      PROVE  /\ c \in Relayed => HeadersInv(c)'
             /\ c \in Direct => thread'[c].req = <<>>
  <2>1. d \in Relayed /\ ServeNext(d) /\ client' = client
    BY <1>5 DEF ThreadStep, Relayed
  <2>2. CASE c # d
    <3>1. Apart(pipe, pipe', Outer(c)) /\ thread'[c] = thread[c]
      BY <1>2, <2>1, <2>2, ThreadApart
    <3> QED BY <1>1, <1>2, <2>1, <3>1, AwayKept
  <2>3. CASE c = d
    <3>1. c \in Relayed /\ c \notin Direct /\ HeadersInv(c) /\ ServeNext(c) /\ request \in Requests
      BY <1>2, <2>1, <2>3 DEF Relayed, FInv
    <3>2. CASE ReadRequest(c)
      BY <1>1, <1>2, <2>1, <3>1, <3>2, RequestHeadersKeep
    <3>3. CASE ReadHeaders(c)
      BY <1>1, <1>2, <2>1, <3>1, <3>3, HeaderLinesKeep
    <3>4. CASE Lookup(c)
      BY <1>1, <1>2, <2>1, <3>1, <3>4, LookupHeadersKeep
    <3>5. CASE ~(ReadRequest(c) \/ ReadHeaders(c) \/ Lookup(c))
      BY <1>1, <1>2, <2>1, <3>1, <3>5, LaterSteps, LaterKept
    <3> QED BY <3>1, <3>2, <3>3, <3>4, <3>5
  <2> QED BY <2>2, <2>3
<1>6. ASSUME NEW d \in Client, ClientStep(d) \/ ClientGoes(d)
      PROVE  /\ c \in Relayed => HeadersInv(c)'
             /\ c \in Direct => thread'[c].req = <<>>
  <2>1. thread' = thread
    BY <1>6 DEF ClientStep, ClientGoes, ClientConnect, ClientSend, ClientSendFails,
                ClientReceive, serveVars
  <2>2. CASE c # d
    <3>1. Apart(pipe, pipe', Outer(c)) /\ client'[c] = client[c]
      BY <1>2, <1>6, <2>2, ClientApart
    <3> QED BY <1>1, <1>2, <2>1, <3>1, AwayKept
  <2>3. CASE c = d
    BY <1>1, <1>2, <1>6, <2>1, <2>3, OwnClientKeeps
  <2> QED BY <2>2, <2>3
<1> QED BY <1>3, <1>4, <1>5, <1>6 DEF Next

(* While the thread of a client that stays reads an ordinary request, what *)
(* it has kept of the headers and what it has not read are the request, in *)
(* whole lines and nothing lost: rio_readlineb's buffer, the line buffer   *)
(* that keeps the line before, and the loop of serve over the headers.     *)
THEOREM HeadersInvariant == Spec => []FInv
<1>1. Init => FInv
  BY InitHolds, HeadersInit
<1>2. FInv /\ [Next]_vars => FInv'
  <2>1. FInv => HInv
    BY DEF FInv
  <2> QED BY <2>1, NextKeeps, HeadersNext
<1> QED BY <1>1, <1>2, PTL DEF Spec

(* What the proxy forwards of an ordinary request ends with its only empty *)
(* line and has Host and the proxy's own headers once each, whatever the   *)
(* client's headers were, in whatever pieces they came.                    *)
THEOREM ForwardsWellFormed == Spec => []ForwardedWellFormed
<1>1. FInv => ForwardedWellFormed
  <2> SUFFICES ASSUME FInv, NEW c \in Client, Ordinary(c), thread[c].req # <<>>
               PROVE  /\ EndsOnce(thread[c].req)
                      /\ \A h \in OwnNames : Count(thread[c].req, h) = 1
    BY DEF ForwardedWellFormed
  <2>1. c \in Relayed
    BY DEF FInv, Relayed
  <2> QED BY <2>1 DEF FInv, HeadersInv, WellFormed
<1> QED BY <1>1, HeadersInvariant, PTL
=============================================================================
