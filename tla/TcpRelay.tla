------------------------------ MODULE TcpRelay ------------------------------
(***************************************************************************)
(* The TCP half of the engine: the session table, the epoll loop that      *)
(* drives it, and around it the parties it talks to: the device's TCP (the *)
(* client), which writes packets to the tunnel and reads the engine's, the *)
(* kernel's sockets, and the remote servers.                               *)
(*                                                                         *)
(* A handler runs with tcp_lock held on the one engine thread and is one   *)
(* action.  Client, kernel and servers move between any two of them.       *)
(*                                                                         *)
(* A flow is a 4-tuple.  A stream is the sequence of its bytes 1, 2, ...   *)
(* and a segment carries one byte: the client's SYN has number 0 and byte  *)
(* k has number k.  Bare ACKs of the client change nothing but last_active *)
(* and are left out.                                                       *)
(***************************************************************************)
EXTENDS Integers, Sequences, FiniteSets, SequencesExt

CONSTANTS
  Flows,        (* the client's connections                                 *)
  Fds,          (* descriptors socket() may return                          *)
  Faults,       (* what may go wrong around the engine, out of AllFaults    *)
  Isns,         (* initial sequence numbers the clock may give a session    *)
  MaxUp,        (* bound: bytes a client sends                              *)
  MaxDown,      (* bound: bytes a server sends on a connection              *)
  MaxResend,    (* bound: retransmissions of a client                       *)
  MaxRead,      (* most bytes one recv may return (the rate limit, or buf)  *)
  PendingMax,   (* bytes that pending_data holds (65536)                    *)
  BatchMax      (* events one epoll_wait may return (128)                   *)

AllFaults == {
  "unreachable",  \* connect() fails at once (ENETUNREACH)
  "refuse",       \* the connection attempt fails later
  "reset",        \* an established connection is reset
  "bufferFull",   \* send() takes less than it is given, or EAGAIN
  "unprotected",  \* VpnService.protect() returns false
  "retransmit",   \* a client retransmits a byte it has no ACK for
  "finWithData",  \* a client's last data segment carries its FIN
  "abort",        \* a client resets its connection
  "expire" }      \* a session is idle for TCP_SESSION_TIMEOUT

\* The tunnel's descriptor.
Tun == "tun"

ASSUME TcpRelayConstants ==
  /\ IsFiniteSet(Fds) /\ Tun \notin Fds
  /\ Faults \subseteq AllFaults
  /\ Isns \subseteq Nat
  /\ MaxUp \in Nat /\ MaxDown \in Nat /\ MaxResend \in Nat
  /\ MaxRead \in Nat \ {0} /\ PendingMax \in Nat /\ BatchMax \in Nat \ {0}

VARIABLES
  sess,      (* flow -> its tcp_session_t, or None                          *)
  sock,      (* fd -> the kernel's socket, or None                          *)
  batch,     (* the events of the last epoll_wait still to be handled       *)
  tunIn,     (* packets the device wrote to the tunnel                      *)
  tunOut,    (* flow -> segments the engine wrote to the tunnel             *)
  client,    (* flow -> the device's end of the connection                  *)
  server,    (* flow -> the remote end of the latest connection made for it *)
  far        (* flow -> how that connection ends there                      *)

vars == <<sess, sock, batch, tunIn, tunOut, client, server, far>>

None == [none |-> TRUE]

-----------------------------------------------------------------------------
\* Records and how they change.

Bytes(k) == [i \in 1 .. k |-> i]

NewClient ==
  [st |-> "new",        \* new, synSent, open, closed
   inc |-> 0,           \* the session whose SYN-ACK it took (only told apart)
   isn |-> 0,           \* that session's initial sequence number
   sent |-> 0,          \* bytes sent
   fin |-> FALSE,       \* FIN sent
   acked |-> 0,         \* how far bytes and FIN are acknowledged
   got |-> <<>>,        \* bytes received in order
   gotFin |-> FALSE,    \* FIN received
   resent |-> 0]        \* retransmissions

\* What the server has received and sent on the conns-th connection, and what
\* send() did not take.
NewServer(conns) == [conns |-> conns, got |-> <<>>, lost |-> {}, sent |-> 0]

NewFar(conn) ==
  [st |-> IF conn = "unconnected" THEN "broken" ELSE "writing",  \* or closed
   told |-> "none",     \* the end of the client's stream: none, eof, cut
   idle |-> FALSE]      \* the session timed out

\* Fault: the socket is added for EPOLLIN alone.
NewSocketUnwatched(f, conn) ==
  [flow |-> f, conn |-> conn, err |-> FALSE, eof |-> FALSE, rx |-> <<>>,
   watchOut |-> FALSE]

\* A socket right after connect(): under way, or, if that failed at once, not
\* connected and with no error left to read.
NewSocket(f, conn) ==
  [flow |-> f,
   conn |-> conn,       \* connecting, connected, refused, unconnected
   err |-> FALSE,       \* the connection was reset
   eof |-> FALSE,       \* the server closed
   rx |-> <<>>,         \* bytes received and not read
   watchOut |-> TRUE]   \* EPOLLOUT is in the interest set

\* client_seq is the client's ISN + 1; our_seq starts from a number the clock
\* gives: sessions of a flow made in the same second have the same, and of
\* neighbouring seconds near ones.  inc counts the flow's sessions: it tells
\* them apart in the properties, and no action looks at it.
NewSession(f, fd, isn) ==
  [fd |-> fd, state |-> "synSent", clientSeq |-> 1, inc |-> server[f].conns + 1,
   isn |-> isn, ourSeq |-> 0, pending |-> <<>>]

Open(f)     == sess[f] # None
OwnersOf(fd) == {f \in Flows : Open(f) /\ sess[f].fd = fd}

Packet(f, kind, seq, fin) == [flow |-> f, kind |-> kind, seq |-> seq, fin |-> fin]

\* write_tcp: a segment carries our_seq (isn + seq) and client_seq as they are;
\* our_seq then advances over SYN, FIN and payload.
Segment(s, kind, byte) ==
  [kind |-> kind, inc |-> s.inc, isn |-> s.isn, seq |-> s.ourSeq,
   ack |-> s.clientSeq, byte |-> byte]

\* Fault: our_seq stays.
AdvancedNot(s, n) == s

Advanced(s, n) == [s EXCEPT !.ourSeq = @ + n]

\* Fault: only the last chunk advances our_seq.
ChunksUnmoved(s, bytes) ==
  [i \in DOMAIN bytes |-> Segment(s, "data", bytes[i])]

\* write_tcp cuts its payload into one segment per chunk.
Chunks(s, bytes) ==
  [i \in DOMAIN bytes |-> Segment(Advanced(s, i - 1), "data", bytes[i])]

Write(f, segments) == tunOut' = [tunOut EXCEPT ![f] = @ \o segments]

SetSession(f, s) == sess' = [sess EXCEPT ![f] = s]

\* Fault: the descriptor is not closed.
ClosedLeak(f) == sock

\* tcp_remove closes the descriptor, which also leaves the epoll set.
Closed(f) == IF Open(f) THEN [sock EXCEPT ![sess[f].fd] = None] ELSE sock

TcpRemove(f) == SetSession(f, None) /\ sock' = Closed(f)

\* What close() tells the server: the end of the stream, or, with bytes of its
\* own still unread, a reset; after shutdown(), whichever reaches it first.
ServerHears(f, shut) ==
  IF ~Open(f) \/ sock[sess[f].fd].conn # "connected" \/ far[f].told # "none"
  THEN {far[f].told}
  ELSE LET unread == sock[sess[f].fd].rx # <<>> IN
       {how \in {"eof", "cut"} : IF how = "eof" THEN shut \/ ~unread ELSE unread}

HangUp(f, shut) == \E how \in ServerHears(f, shut) : far' = [far EXCEPT ![f].told = how]

-----------------------------------------------------------------------------

Init ==
  /\ sess = [f \in Flows |-> None]
  /\ sock = [fd \in Fds |-> None]
  /\ batch = <<>>
  /\ tunIn = <<>>
  /\ tunOut = [f \in Flows |-> <<>>]
  /\ client = [f \in Flows |-> NewClient]
  /\ server = [f \in Flows |-> NewServer(0)]
  /\ far = [f \in Flows |-> NewFar("connecting")]

-----------------------------------------------------------------------------
\* The device's TCP.

Send(packet) == tunIn' = Append(tunIn, packet)

\* A connection attempt, or a retransmission of its SYN.
ClientSyn(f) ==
  LET c == client[f] IN
  /\ \/ c.st = "new"
     \/ c.st = "synSent" /\ c.resent < MaxResend
  /\ client' = [client EXCEPT ![f].st = "synSent",
                              ![f].resent = IF c.st = "new" THEN 0 ELSE @ + 1]
  /\ Send(Packet(f, "syn", 0, FALSE))
  /\ UNCHANGED <<sess, sock, batch, tunOut, server, far>>

ClientData(f, fin) ==
  LET c == client[f] IN
  /\ c.st = "open" /\ ~c.fin
  /\ c.sent < MaxUp
  /\ fin => "finWithData" \in Faults
  /\ client' = [client EXCEPT ![f].sent = @ + 1, ![f].fin = fin]
  /\ Send(Packet(f, "data", c.sent + 1, fin))
  /\ UNCHANGED <<sess, sock, batch, tunOut, server, far>>

ClientFin(f) ==
  LET c == client[f] IN
  /\ c.st = "open" /\ ~c.fin
  /\ client' = [client EXCEPT ![f].fin = TRUE]
  /\ Send(Packet(f, "fin", c.sent + 1, TRUE))
  /\ UNCHANGED <<sess, sock, batch, tunOut, server, far>>

ClientRetransmit(f) ==
  LET c == client[f] IN
  /\ "retransmit" \in Faults
  /\ c.st = "open"
  /\ c.acked < c.sent
  /\ c.resent < MaxResend
  /\ client' = [client EXCEPT ![f].resent = @ + 1]
  /\ Send(Packet(f, "data", c.acked + 1, FALSE))
  /\ UNCHANGED <<sess, sock, batch, tunOut, server, far>>

ClientAbort(f) ==
  /\ "abort" \in Faults
  /\ client[f].st = "open"
  /\ client' = [client EXCEPT ![f].st = "closed"]
  /\ Send(Packet(f, "rst", 0, FALSE))
  /\ UNCHANGED <<sess, sock, batch, tunOut, server, far>>

Acked(c, m) == [c EXCEPT !.acked = IF m.ack - 1 > @ THEN m.ack - 1 ELSE @]

\* What the client makes of a segment: it takes the SYN-ACK of its attempt,
\* then what comes in order, by its sequence number alone, and ignores the rest.
\* A reset that acknowledges nothing means nothing to a client in SYN-SENT.
Received(c, m) ==
  IF c.st = "synSent" /\ m.kind = "synAck"
  THEN [c EXCEPT !.st = "open", !.inc = m.inc, !.isn = m.isn]
  ELSE IF c.st # "open" \/ m.isn + m.seq # c.isn + 1 + Len(c.got) \/ c.gotFin THEN c
  ELSE CASE m.kind = "data" -> Acked([c EXCEPT !.got = Append(@, m.byte)], m)
         [] m.kind = "ack"  -> Acked(c, m)
         [] m.kind = "fin"  -> Acked([c EXCEPT !.gotFin = TRUE], m)
         [] m.kind \in {"rst", "rstAck"} -> [c EXCEPT !.st = "closed"]
         [] OTHER -> c

ClientReceive(f) ==
  /\ tunOut[f] # <<>>
  /\ client' = [client EXCEPT ![f] = Received(@, Head(tunOut[f]))]
  /\ tunOut' = [tunOut EXCEPT ![f] = Tail(@)]
  /\ UNCHANGED <<sess, sock, batch, tunIn, server, far>>

-----------------------------------------------------------------------------
\* The kernel and the servers.

ConnectEnds(fd, how) ==
  /\ sock[fd] # None /\ sock[fd].conn = "connecting"
  /\ how = "refused" => "refuse" \in Faults
  /\ sock' = [sock EXCEPT ![fd].conn = how]
  /\ far' = [far EXCEPT ![sock[fd].flow].st = IF how = "refused" THEN "broken" ELSE @]
  /\ UNCHANGED <<sess, batch, tunIn, tunOut, client, server>>

Live(fd) ==
  /\ sock[fd] # None /\ sock[fd].conn = "connected"
  /\ ~sock[fd].eof /\ ~sock[fd].err

ServerSends(fd) ==
  /\ Live(fd)
  /\ LET f == sock[fd].flow
         n == server[f].sent + 1 IN
     /\ n <= MaxDown
     /\ sock' = [sock EXCEPT ![fd].rx = Append(@, n)]
     /\ server' = [server EXCEPT ![f].sent = n]
  /\ UNCHANGED <<sess, batch, tunIn, tunOut, client, far>>

ServerCloses(fd) ==
  /\ Live(fd)
  /\ sock' = [sock EXCEPT ![fd].eof = TRUE]
  /\ far' = [far EXCEPT ![sock[fd].flow].st = "closed"]
  /\ UNCHANGED <<sess, batch, tunIn, tunOut, client, server>>

ServerResets(fd) ==
  /\ "reset" \in Faults
  /\ Live(fd)
  /\ sock' = [sock EXCEPT ![fd].err = TRUE]
  /\ far' = [far EXCEPT ![sock[fd].flow].st = "broken", ![sock[fd].flow].told = "cut"]
  /\ UNCHANGED <<sess, batch, tunIn, tunOut, client, server>>

-----------------------------------------------------------------------------
\* The epoll loop.

Readable(k) == k.rx # <<>> \/ k.eof \/ k.err \/ k.conn = "refused"
Writable(k) == k.watchOut /\ k.conn # "connecting"

\* An unconnected socket is always reported (EPOLLHUP), and so is a UDP socket
\* with an error (EPOLLERR; module Relay).
Reported(k) == Readable(k) \/ Writable(k) \/ k.conn \in {"unconnected", "udpError"}

Ready ==
  {[fd |-> fd, in |-> Readable(sock[fd]), out |-> Writable(sock[fd])] :
     fd \in {x \in Fds : sock[x] # None /\ Reported(sock[x])}}
  \cup (IF tunIn # <<>> THEN {[fd |-> Tun, in |-> TRUE, out |-> FALSE]} ELSE {})

EpollWait ==
  /\ batch = <<>>
  /\ Ready # {}
  /\ \E order \in SetToSeqs(Ready) :
       batch' = SubSeq(order, 1, IF Len(order) < BatchMax THEN Len(order) ELSE BatchMax)
  /\ UNCHANGED <<sess, sock, tunIn, tunOut, client, server, far>>

\* The next event is the tunnel's and its packet is of this kind.
FromTun(kind) ==
  /\ batch # <<>> /\ Head(batch).fd = Tun
  /\ Head(tunIn).kind = kind
  /\ batch' = Tail(batch)
  /\ tunIn' = Tail(tunIn)

TunSyn(f) ==
  /\ FromTun("syn")
  /\ f = Head(tunIn).flow
  /\ \/ /\ "unprotected" \in Faults \/ \A fd \in Fds : Closed(f)[fd] # None
        /\ TcpRemove(f) /\ HangUp(f, FALSE)
        /\ UNCHANGED server
     \/ \E fd \in Fds, conn \in {"connecting", "unconnected"}, isn \in Isns :
          /\ conn = "unconnected" => "unreachable" \in Faults
          /\ Closed(f)[fd] = None
          /\ sock' = [Closed(f) EXCEPT ![fd] = NewSocket(f, conn)]
          /\ SetSession(f, NewSession(f, fd, isn))
          /\ server' = [server EXCEPT ![f] = NewServer(@.conns + 1)]
          /\ far' = [far EXCEPT ![f] = NewFar(conn)]
  /\ UNCHANGED <<tunOut, client>>

\* Packets other than SYN are nothing without a session.
TunNoSession(f) ==
  /\ \E kind \in {"data", "fin", "rst"} : FromTun(kind)
  /\ f = Head(tunIn).flow
  /\ ~Open(f)
  /\ UNCHANGED <<sess, sock, tunOut, client, server, far>>

TunRst(f) ==
  /\ FromTun("rst")
  /\ f = Head(tunIn).flow /\ Open(f)
  /\ TcpRemove(f) /\ HangUp(f, FALSE)
  /\ UNCHANGED <<tunOut, client, server>>

Accepts(k) == k.conn = "connected" /\ ~k.err

\* send() takes the bytes, or as many as there is room for: the engine does not
\* look how many.
Deliver(f, bytes) ==
  \E n \in 0 .. Len(bytes) :
    /\ n < Len(bytes) => "bufferFull" \in Faults
    /\ server' = [server EXCEPT
         ![f].got = @ \o SubSeq(bytes, 1, n),
         ![f].lost = @ \cup ToSet(SubSeq(bytes, n + 1, Len(bytes)))]

Kept(s, p) == IF Len(s.pending) < PendingMax THEN Append(s.pending, p.seq) ELSE s.pending

\* Data for a session still connecting is kept, up to PendingMax.
TunDataPending(f) ==
  LET p == Head(tunIn)  s == sess[f] IN
  /\ FromTun("data")
  /\ f = p.flow /\ Open(f) /\ s.state = "synSent" /\ ~p.fin
  /\ SetSession(f, [s EXCEPT !.clientSeq = p.seq + 1, !.pending = Kept(s, p)])
  /\ UNCHANGED <<sock, tunOut, client, server, far>>

\* client_seq follows whatever segment came last.
AfterData(s, p) == [s EXCEPT !.clientSeq = p.seq + 1]

\* Whether send() took the byte or not, it is ACKed.
TunDataSent(f) ==
  LET p == Head(tunIn)  s == AfterData(sess[f], p)  k == sock[sess[f].fd] IN
  /\ FromTun("data")
  /\ f = p.flow /\ Open(f) /\ s.state = "established" /\ ~p.fin
  /\ Accepts(k)
  /\ Deliver(f, <<p.seq>>)
  /\ Write(f, <<Segment(s, "ack", 0)>>)
  /\ SetSession(f, s)
  /\ UNCHANGED <<sock, client, far>>

\* Fault: a send() that fails is not looked at either.
TunDataUnchecked(f) ==
  LET p == Head(tunIn)  s == AfterData(sess[f], p) IN
  /\ FromTun("data")
  /\ f = p.flow /\ Open(f) /\ s.state = "established"
  /\ ~Accepts(sock[s.fd])
  /\ Write(f, <<Segment(s, "ack", 0)>>)
  /\ SetSession(f, s)
  /\ UNCHANGED <<sock, client, server, far>>

TunDataFailed(f) ==
  LET p == Head(tunIn)  s == AfterData(sess[f], p) IN
  /\ FromTun("data")
  /\ f = p.flow /\ Open(f) /\ s.state = "established"
  /\ ~Accepts(sock[s.fd])
  /\ Write(f, <<Segment(s, "rstAck", 0)>>)
  /\ TcpRemove(f) /\ HangUp(f, FALSE)
  /\ UNCHANGED <<client, server>>

\* client_seq is the number of the segment plus one, payload or not.
AfterFin(s, p) == [s EXCEPT !.clientSeq = p.seq + 1]

\* A FIN closes both directions: the engine answers ACK and FIN and closes the
\* socket.  A payload is sent first, and acknowledged if the state allows it.
TunFin(f) ==
  LET p == Head(tunIn)
      s == AfterFin(sess[f], p)
      sends == p.kind = "data" /\ s.state = "established" IN
  /\ \E kind \in {"data", "fin"} : FromTun(kind)
  /\ f = p.flow /\ Open(f) /\ p.fin
  /\ sends => Accepts(sock[s.fd])
  /\ IF sends THEN Deliver(f, <<p.seq>>) ELSE UNCHANGED server
  /\ Write(f, (IF sends THEN <<Segment(AfterData(s, p), "ack", 0)>> ELSE <<>>)
                \o <<Segment(s, "ack", 0), Segment(s, "fin", 0)>>)
  /\ TcpRemove(f) /\ HangUp(f, TRUE)
  /\ UNCHANGED client

-----------------------------------------------------------------------------
\* handle_socket_event: the session is looked up by the descriptor.

FromSocket(f) ==
  /\ batch # <<>> /\ Head(batch).fd # Tun
  /\ f \in OwnersOf(Head(batch).fd)
  /\ batch' = Tail(batch)

SocketNoSession ==
  /\ batch # <<>> /\ Head(batch).fd # Tun
  /\ OwnersOf(Head(batch).fd) = {}
  /\ batch' = Tail(batch)
  /\ UNCHANGED <<sess, sock, tunIn, tunOut, client, server, far>>

SoError(k) == k.conn = "refused" \/ k.err

\* The event is taken for the end of connect(), which SO_ERROR calls a success.
Completes(f) ==
  sess[f].state = "synSent" /\ Head(batch).out /\ ~SoError(sock[sess[f].fd])

\* SYN-ACK, then whatever was kept, whether or not send() takes it.
SocketConnected(f) ==
  LET s == sess[f]  s1 == Advanced(s, 1) IN
  /\ FromSocket(f)
  /\ Completes(f)
  /\ Write(f, <<Segment(s, "synAck", 0)>>
                \o (IF s.pending # <<>> THEN <<Segment(s1, "ack", 0)>> ELSE <<>>))
  /\ SetSession(f, [s1 EXCEPT !.state = "established", !.pending = <<>>])
  /\ sock' = [sock EXCEPT ![s.fd].watchOut = FALSE]
  /\ IF Accepts(sock[s.fd]) THEN Deliver(f, s.pending) ELSE UNCHANGED server
  /\ UNCHANGED <<tunIn, client, far>>

SocketRefused(f) ==
  /\ FromSocket(f)
  /\ sess[f].state = "synSent" /\ Head(batch).out /\ ~Completes(f)
  /\ Write(f, <<Segment(sess[f], "rst", 0)>>)
  /\ TcpRemove(f) /\ HangUp(f, FALSE)
  /\ UNCHANGED <<tunIn, client, server>>

\* The event is not the end of connect().
Reads(f) ==
  /\ FromSocket(f)
  /\ ~(sess[f].state = "synSent" /\ Head(batch).out)

SocketNotReadable(f) ==
  /\ Reads(f)
  /\ ~Head(batch).in
  /\ UNCHANGED <<sess, sock, tunIn, tunOut, client, server, far>>

\* recv takes what the rate limit allows; the rest stays readable.
SocketData(f, n) ==
  LET s == sess[f]  rx == sock[s.fd].rx IN
  /\ Reads(f) /\ Head(batch).in
  /\ n <= Len(rx)
  /\ Write(f, Chunks(s, SubSeq(rx, 1, n)))
  /\ SetSession(f, Advanced(s, n))
  /\ sock' = [sock EXCEPT ![s.fd].rx = SubSeq(@, n + 1, Len(@))]
  /\ UNCHANGED <<tunIn, client, server, far>>

\* Fault: a closed connection is answered before what it left is read.
DrainedNot(k) == TRUE

Drained(k) == k.rx = <<>>

\* recv returns 0.
SocketEof(f) ==
  LET s == sess[f]  k == sock[s.fd] IN
  /\ Reads(f) /\ Head(batch).in
  /\ Drained(k) /\ k.eof /\ ~SoError(k)
  /\ Write(f, <<Segment(s, "fin", 0)>>)
  /\ TcpRemove(f) /\ HangUp(f, FALSE)
  /\ UNCHANGED <<tunIn, client, server>>

\* recv fails: the connection was reset or refused, or never begun.
SocketError(f) ==
  LET s == sess[f]  k == sock[s.fd] IN
  /\ Reads(f) /\ Head(batch).in
  /\ Drained(k) /\ (SoError(k) \/ k.conn = "unconnected")
  /\ Write(f, <<Segment(s, "rst", 0)>>)
  /\ TcpRemove(f) /\ HangUp(f, FALSE)
  /\ UNCHANGED <<tunIn, client, server>>

\* recv would block: the event was for the session that this one replaced.
SocketAgain(f) ==
  LET k == sock[sess[f].fd] IN
  /\ Reads(f) /\ Head(batch).in
  /\ Drained(k) /\ ~k.eof /\ ~SoError(k) /\ k.conn # "unconnected"
  /\ UNCHANGED <<sess, sock, tunIn, tunOut, client, server, far>>

\* cleanup: between two batches, a session nothing has happened to for
\* TCP_SESSION_TIMEOUT goes without a word.
Expire(f) ==
  /\ "expire" \in Faults
  /\ batch = <<>>
  /\ Open(f)
  /\ TcpRemove(f)
  /\ \E how \in ServerHears(f, FALSE) :
       far' = [far EXCEPT ![f].told = how, ![f].idle = TRUE]
  /\ UNCHANGED <<batch, tunIn, tunOut, client, server>>

-----------------------------------------------------------------------------

Client(f) ==
  \/ ClientSyn(f)
  \/ \E fin \in BOOLEAN : ClientData(f, fin)
  \/ ClientFin(f)
  \/ ClientRetransmit(f)
  \/ ClientAbort(f)

Network(fd) ==
  \/ \E how \in {"connected", "refused"} : ConnectEnds(fd, how)
  \/ ServerSends(fd)
  \/ ServerCloses(fd)
  \/ ServerResets(fd)

Handle(f) ==
  \/ TunSyn(f) \/ TunNoSession(f) \/ TunRst(f) \/ TunFin(f)
  \/ TunDataPending(f) \/ TunDataSent(f) \/ TunDataFailed(f)
  \/ SocketConnected(f) \/ SocketRefused(f) \/ SocketNotReadable(f)
  \/ \E n \in 1 .. MaxRead : SocketData(f, n)
  \/ SocketEof(f) \/ SocketError(f) \/ SocketAgain(f)

Engine == EpollWait \/ SocketNoSession \/ \E f \in Flows : Handle(f)

Environment ==
  \/ \E f \in Flows : Client(f) \/ ClientReceive(f)
  \/ \E fd \in Fds : Network(fd)

Next == Environment \/ Engine \/ \E f \in Flows : Expire(f)

Spec == Init /\ [][Next]_vars

\* The engine thread runs (epoll_wait returns whenever something is ready), the
\* device reads its tunnel, and a connection attempt ends.
Fairness ==
  /\ WF_vars(Engine)
  /\ \A f \in Flows : WF_vars(ClientReceive(f))
  /\ \A fd \in Fds : WF_vars(\E how \in {"connected", "refused"} : ConnectEnds(fd, how))

FairSpec == Spec /\ Fairness

-----------------------------------------------------------------------------

Sessions ==
  [fd : Fds, state : {"synSent", "established"}, clientSeq : Nat, inc : Nat,
   isn : Nat, ourSeq : Nat, pending : Seq(1 .. MaxUp)]

Sockets ==
  [flow : Flows, conn : {"connecting", "connected", "refused", "unconnected"},
   err : BOOLEAN, eof : BOOLEAN, rx : Seq(1 .. MaxDown), watchOut : BOOLEAN]

TypeOK ==
  /\ \A f \in Flows : sess[f] = None \/ sess[f] \in Sessions
  /\ \A f \in Flows : Open(f) => Len(sess[f].pending) <= PendingMax
  /\ \A fd \in Fds : sock[fd] = None \/ sock[fd] \in Sockets
  /\ Len(batch) <= BatchMax
  /\ \A f \in Flows : client[f].st \in {"new", "synSent", "open", "closed"}

\* Every descriptor the engine holds belongs to exactly one session, the one
\* it was made for: none leaks when a session is replaced or removed, and none
\* is closed under a session that still uses it (tcp_create, tcp_remove).
FdsOwned ==
  /\ \A f \in Flows : Open(f) => sock[sess[f].fd] # None /\ sock[sess[f].fd].flow = f
  /\ \A fd \in Fds : sock[fd] # None => Cardinality(OwnersOf(fd)) = 1

\* The session table and the kernel agree: sessions are of their type, and own
\* the descriptors there are.
SessionsSound == TypeOK /\ FdsOwned

\* "NOW send SYN-ACK -- real connection is established": a session is
\* established only over a socket whose connect() succeeded.
SynAckMeansConnected ==
  \A f \in Flows :
    Open(f) /\ sess[f].state = "established" => sock[sess[f].fd].conn = "connected"

\* "ACK the received data": a byte the client has an ACK for was given to the
\* server's socket, which has it or, its buffer full, refused it.  This is for
\* the client that took the SYN-ACK of the latest session; one that a later
\* session has replaced hears of two connections and is promised nothing.
AckedIsSent ==
  \A f \in Flows :
    client[f].inc = server[f].conns =>
      \A k \in 1 .. client[f].sent :
        k <= client[f].acked => k \in ToSet(server[f].got) \cup server[f].lost

\* The segments on their way that carry the session's bytes.
InFlight(f) ==
  {i \in 1 .. Len(tunOut[f]) : tunOut[f][i].kind = "data" /\ tunOut[f][i].inc = sess[f].inc}

\* What the client has, what is on its way and what is still unread is all the
\* server has sent, in order; and the numbers the engine gives agree with the
\* client's.  This is for the client of the session there is, whatever segments
\* of earlier sessions, under the same numbers, went the same way before.
DownstreamIntact ==
  \A f \in Flows :
    client[f].st = "open" /\ Open(f) /\ client[f].inc = sess[f].inc =>
      LET out == tunOut[f]
          rx == sock[sess[f].fd].rx
          had == Len(client[f].got)
          next == sess[f].ourSeq
      IN  /\ had < next
          /\ client[f].got = Bytes(had)
          /\ {out[i].byte : i \in InFlight(f)} = had + 1 .. next - 1
          /\ \A i, j \in InFlight(f) : i < j => out[i].byte < out[j].byte
          /\ rx = [i \in 1 .. Len(rx) |-> next - 1 + i]
          /\ server[f].sent = next - 1 + Len(rx)

Streams == {"up", "down"} \X Flows
OtherWay == [s \in Streams |-> <<IF s[1] = "up" THEN "down" ELSE "up", s[2]>>]

\* Whether the client still writes.
UpState(f) ==
  IF client[f].st = "closed" \/ far[f].idle THEN "broken"
  ELSE IF client[f].fin THEN "closed" ELSE "writing"

\* What a client has been told of the end of the server's stream.
DownEnd(f) ==
  IF client[f].gotFin THEN "eof" ELSE IF client[f].st = "closed" THEN "cut" ELSE "none"

Wrote == [s \in Streams |-> Bytes(IF s[1] = "up" THEN client[s[2]].sent ELSE server[s[2]].sent)]
WriterOf == [s \in Streams |-> IF s[1] = "up" THEN UpState(s[2]) ELSE far[s[2]].st]
ReadOf == [s \in Streams |-> IF s[1] = "up" THEN server[s[2]].got ELSE client[s[2]].got]
EndOf == [s \in Streams |-> IF s[1] = "up" THEN far[s[2]].told ELSE DownEnd(s[2])]

Pipes == INSTANCE StreamPipe
           WITH wrote <- Wrote, writer <- WriterOf, read <- ReadOf, end <- EndOf

\* The relay is transparent but for half-closing: the client's and the server's
\* TCP connections and the engine between them behave as one stream in each
\* direction.
RelayIsTransparent == Pipes!Spec

\* No session stays half open: the end of its connect() is noticed, whichever
\* events carry it and whatever was handled before them.
HalfOpenEnds ==
  \A f \in Flows :
    Open(f) /\ sess[f].state = "synSent" ~> ~Open(f) \/ sess[f].state # "synSent"

\* The end of a server's stream reaches the client.
EofReachesClient ==
  \A f \in Flows :
    Open(f) /\ sess[f].state = "established" /\ sock[sess[f].fd].eof
      ~> client[f].gotFin \/ client[f].st = "closed"

\* A client that finishes learns that the connection is over: it gets the
\* engine's FIN, the answer to its own or one sent before, or a reset.
FinIsAnswered ==
  \A f \in Flows : client[f].fin ~> client[f].gotFin \/ client[f].st = "closed"

=============================================================================
