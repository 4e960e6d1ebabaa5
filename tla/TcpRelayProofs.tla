---------------------------- MODULE TcpRelayProofs ----------------------------
(***************************************************************************)
(* Proofs about TcpRelay for every set of flows and descriptors, every set *)
(* of faults and every bound.                                              *)
(*                                                                         *)
(* The first half, types and the ownership of descriptors, is also what    *)
(* RelayProofs needs of the TCP handlers.  There the kernel's sockets and  *)
(* the packets in the tunnel include those of UDP, which are parameters    *)
(* here: others is the set of the other sockets, mail of other packets.    *)
(***************************************************************************)
EXTENDS TcpRelay, FiniteSetTheorems, TLAPS

Packets ==
  [flow : Flows, kind : {"syn", "fin", "rst"}, seq : Nat, fin : BOOLEAN]
    \cup [flow : Flows, kind : {"data"}, seq : 1 .. MaxUp, fin : BOOLEAN]

Segments ==
  [kind : {"synAck", "ack", "data", "fin", "rst", "rstAck"}, inc : Nat, isn : Nat,
   seq : Nat, ack : Nat, byte : Nat]

Clients ==
  [st : {"new", "synSent", "open", "closed"}, inc : Nat, isn : Nat, sent : 0 .. MaxUp,
   fin : BOOLEAN, acked : Nat, got : Seq(Nat), gotFin : BOOLEAN, resent : Nat]

Servers == [conns : Nat, got : Seq(Nat), lost : SUBSET Nat, sent : 0 .. MaxDown]

Events == [fd : Fds \cup {Tun}, in : BOOLEAN, out : BOOLEAN]

\* A batch has one event per descriptor, and the tunnel's is not stale.
BatchOK ==
  /\ batch \in Seq(Events) /\ Len(batch) <= BatchMax
  /\ \A i, j \in 1 .. Len(batch) : batch[i].fd = batch[j].fd => i = j
  /\ \A i \in 1 .. Len(batch) : batch[i].fd = Tun => tunIn # <<>>

Typed(others, mail) ==
  /\ sess \in [Flows -> Sessions \cup {None}]
  /\ \A f \in Flows : Open(f) => Len(sess[f].pending) <= PendingMax
  /\ sock \in [Fds -> Sockets \cup others \cup {None}]
  /\ BatchOK
  /\ tunIn \in Seq(Packets \cup mail)
  /\ tunOut \in [Flows -> Seq(Segments)]
  /\ client \in [Flows -> Clients]
  /\ server \in [Flows -> Servers]

\* What is not TCP's is told apart from what is.
Foreign(others, mail) ==
  /\ None \notin others
  /\ \A k \in others : k.flow \notin Flows /\ k.conn \notin {"connecting", "connected"}
  /\ \A p \in mail : p.flow \notin Flows /\ p.kind \notin {"syn", "data", "fin", "rst"}

\* A session's descriptor is the one made for its flow, and a socket made for a
\* flow is its session's.
Owns ==
  \A f \in Flows : Open(f) => sock[sess[f].fd] # None /\ sock[sess[f].fd].flow = f
Held ==
  \A fd \in Fds : sock[fd] # None /\ sock[fd].flow \in Flows =>
    Open(sock[fd].flow) /\ sess[sock[fd].flow].fd = fd

-----------------------------------------------------------------------------
\* None is no session and no socket.
LEMMA NoneApart ==
  /\ None \notin Sessions /\ None \notin Sockets
  /\ \A f, fd, isn : NewSession(f, fd, isn) # None
  /\ \A f, conn : NewSocket(f, conn) # None
BY DEF None, Sessions, Sockets, NewSession, NewSocket

\* What is known of an open session and its socket.
LEMMA OpenTyped ==
  ASSUME NEW others, NEW mail, Typed(others, mail), Foreign(others, mail), Owns,
         NEW f \in Flows, Open(f)
  PROVE  /\ sess[f] \in Sessions /\ sess[f].fd \in Fds
         /\ Len(sess[f].pending) <= PendingMax
         /\ sock[sess[f].fd] \in Sockets /\ sock[sess[f].fd].flow = f
BY DEF Typed, Foreign, Owns, Open, Sessions

-----------------------------------------------------------------------------
\* Who owns which descriptor.

\* A step that makes and closes no socket, and gives no session another.
SameOwners ==
  /\ \A f \in Flows :
       /\ sess'[f] = None <=> sess[f] = None
       /\ sess[f] # None => sess'[f].fd = sess[f].fd
  /\ \A fd \in Fds :
       /\ sock'[fd] = None <=> sock[fd] = None
       /\ sock[fd] # None => sock'[fd].flow = sock[fd].flow

\* Ownership survives a step that leaves the owners alone.
LEMMA SameOwnersSound ==
  ASSUME NEW others, NEW mail, Typed(others, mail), Foreign(others, mail), Owns, Held,
         SameOwners
  PROVE  Owns' /\ Held'
<1>1. Owns'
  BY OpenTyped DEF SameOwners, Owns, Open
<1>2. Held'
  BY DEF SameOwners, Held, Open
<1> QED BY <1>1, <1>2

\* A session goes with its socket: no other session used it.
LEMMA RemoveSound ==
  ASSUME NEW others, NEW mail, Typed(others, mail), Foreign(others, mail), Owns, Held,
         NEW f \in Flows, TcpRemove(f)
  PROVE  /\ sess' \in [Flows -> Sessions \cup {None}]
         /\ \A g \in Flows : sess'[g] = IF g = f THEN None ELSE sess[g]
         /\ \A g \in Flows : Open(g)' => Len(sess'[g].pending) <= PendingMax
         /\ sock' \in [Fds -> Sockets \cup others \cup {None}]
         /\ \A fd \in Fds : sock'[fd] = sock[fd] \/ sock'[fd] = None
         /\ \A fd \in Fds : sock'[fd] # None => sock[fd] # None /\ sock[fd].flow # f
         /\ \A fd \in Fds : sock'[fd] # sock[fd] => Open(f) /\ sess[f].fd = fd
         /\ Owns' /\ Held'
<1>1. /\ sess' \in [Flows -> Sessions \cup {None}]
      /\ \A g \in Flows : sess'[g] = IF g = f THEN None ELSE sess[g]
      /\ \A g \in Flows : Open(g)' => Len(sess'[g].pending) <= PendingMax
  BY DEF TcpRemove, SetSession, Typed, Open
<1>2. CASE Open(f)
  <2>1. sess[f].fd \in Fds /\ sock[sess[f].fd].flow = f
    BY <1>2, OpenTyped
  <2>2. /\ sock' \in [Fds -> Sockets \cup others \cup {None}]
        /\ \A fd \in Fds : sock'[fd] = IF fd = sess[f].fd THEN None ELSE sock[fd]
    BY <1>2, <2>1 DEF TcpRemove, Closed, Typed
  <2>3. \A fd \in Fds : sock'[fd] # None => sock[fd] # None /\ sock[fd].flow # f
    BY <2>2 DEF Held
  <2>4. Owns'
    <3> SUFFICES ASSUME NEW g \in Flows, Open(g)'
                 PROVE  sock'[sess'[g].fd] # None /\ sock'[sess'[g].fd].flow = g
      BY DEF Owns
    <3>1. g # f /\ sess'[g] = sess[g] /\ Open(g)
      BY <1>1 DEF Open
    <3>2. sess[g].fd \in Fds /\ sock[sess[g].fd].flow = g /\ sock[sess[g].fd] # None
      BY <3>1, OpenTyped DEF Owns
    <3> QED BY <2>1, <2>2, <3>1, <3>2
  <2>5. Held'
    BY <1>1, <2>2, <2>3 DEF Held, Open
  <2> QED BY <1>1, <1>2, <2>2, <2>3, <2>4, <2>5
<1>3. CASE ~Open(f)
  <2>1. sock' = sock
    BY <1>3 DEF TcpRemove, Closed
  <2>2. \A g \in Flows : sess'[g] = sess[g]
    BY <1>1, <1>3 DEF Open
  <2>3. sock \in [Fds -> Sockets \cup others \cup {None}]
    BY DEF Typed
  <2>4. \A fd \in Fds : sock[fd] # None => sock[fd].flow # f
    BY <1>3 DEF Held
  <2>5. Owns' /\ Held'
    BY <2>1, <2>2 DEF Owns, Held, Open
  <2> QED BY <1>1, <2>1, <2>3, <2>4, <2>5
<1> QED BY <1>2, <1>3

\* What a SYN does to its session and to the descriptors: fd is free once the
\* old session is closed, and the new one has it.
Replaces(f, fd, conn, isn) ==
  /\ Closed(f)[fd] = None
  /\ sock' = [Closed(f) EXCEPT ![fd] = NewSocket(f, conn)]
  /\ SetSession(f, NewSession(f, fd, isn))

\* A new session gets a descriptor that is free once the old one is closed.
LEMMA ReplaceSound ==
  ASSUME NEW others, NEW mail, Typed(others, mail), Foreign(others, mail), Owns, Held,
         NEW f \in Flows, NEW fd \in Fds, NEW conn \in {"connecting", "unconnected"}, NEW isn \in Isns,
         Replaces(f, fd, conn, isn)
  PROVE  /\ sess' \in [Flows -> Sessions \cup {None}]
         /\ \A g \in Flows : sess'[g] = IF g = f THEN NewSession(f, fd, isn) ELSE sess[g]
         /\ \A g \in Flows : Open(g)' => Len(sess'[g].pending) <= PendingMax
         /\ sock' \in [Fds -> Sockets \cup others \cup {None}]
         /\ sock'[fd] = NewSocket(f, conn)
         /\ \A d \in Fds \ {fd} : sock'[d] = sock[d] \/ sock'[d] = None
         /\ \A d \in Fds \ {fd} : sock'[d] # None => sock[d] # None /\ sock[d].flow # f
         /\ \A d \in Fds \ {fd} : sock'[d] # sock[d] => Open(f) /\ sess[f].fd = d
         /\ sock[fd] = None \/ (Open(f) /\ sess[f].fd = fd)
         /\ Owns' /\ Held'
<1>1. /\ NewSession(f, fd, isn) \in Sessions /\ NewSession(f, fd, isn).fd = fd
      /\ NewSession(f, fd, isn).pending = <<>> /\ Len(<<>>) <= PendingMax
  BY TcpRelayConstants DEF NewSession, Sessions, Typed, Servers
<1>2. /\ sess' \in [Flows -> Sessions \cup {None}]
      /\ \A g \in Flows : sess'[g] = IF g = f THEN NewSession(f, fd, isn) ELSE sess[g]
      /\ \A g \in Flows : Open(g)' => Len(sess'[g].pending) <= PendingMax
  BY <1>1 DEF Replaces, SetSession, Typed, Open
<1>3. /\ NewSocket(f, conn) \in Sockets /\ NewSocket(f, conn).flow = f
      /\ NewSocket(f, conn) # None
  BY NoneApart DEF NewSocket, Sockets
<1>4. /\ Closed(f) \in [Fds -> Sockets \cup others \cup {None}]
      /\ \A d \in Fds : Closed(f)[d] = IF Open(f) /\ d = sess[f].fd THEN None ELSE sock[d]
  BY OpenTyped DEF Closed, Typed
<1>5. /\ sock' \in [Fds -> Sockets \cup others \cup {None}]
      /\ \A d \in Fds : sock'[d] = IF d = fd THEN NewSocket(f, conn) ELSE Closed(f)[d]
  BY <1>3, <1>4 DEF Replaces
<1>6. \A d \in Fds \ {fd} : sock'[d] # None => sock[d] # None /\ sock[d].flow # f
  BY <1>4, <1>5 DEF Held
<1>7. Owns'
  <2> SUFFICES ASSUME NEW g \in Flows, Open(g)'
               PROVE  sock'[sess'[g].fd] # None /\ sock'[sess'[g].fd].flow = g
    BY DEF Owns
  <2>1. CASE g = f
    BY <2>1, <1>1, <1>2, <1>3, <1>5
  <2>2. CASE g # f
    <3>1. sess'[g] = sess[g] /\ Open(g)
      BY <2>2, <1>2 DEF Open
    <3>2. sess[g].fd \in Fds /\ sock[sess[g].fd].flow = g /\ sock[sess[g].fd] # None
      BY <3>1, OpenTyped DEF Owns
    <3>3. Open(f) => sess[g].fd # sess[f].fd
      BY <2>2, <3>2, OpenTyped
    <3>4. Closed(f)[sess[g].fd] = sock[sess[g].fd] /\ sess[g].fd # fd
      BY <1>4, <3>2, <3>3 DEF Replaces
    <3> QED BY <1>5, <3>1, <3>2, <3>4
  <2> QED BY <2>1, <2>2
<1>8. Held'
  <2> SUFFICES ASSUME NEW d \in Fds, sock'[d] # None, sock'[d].flow \in Flows
               PROVE  sess'[sock'[d].flow] # None /\ sess'[sock'[d].flow].fd = d
    BY DEF Held, Open
  <2>1. CASE d = fd
    BY <2>1, <1>1, <1>2, <1>3, <1>5, NoneApart DEF Open
  <2>2. CASE d # fd
    <3>1. sock'[d] = sock[d] /\ sock[d].flow # f
      BY <2>2, <1>4, <1>5, <1>6
    <3> QED BY <3>1, <1>2 DEF Held, Open
  <2> QED BY <2>1, <2>2
<1> QED BY <1>2, <1>4, <1>5, <1>6, <1>7, <1>8 DEF Replaces

-----------------------------------------------------------------------------
\* The batch.

\* An event is taken from the batch.
LEMMA TailSound ==
  ASSUME BatchOK, batch # <<>>, batch' = Tail(batch),
         tunIn' = tunIn \/ Head(batch).fd = Tun
  PROVE  /\ BatchOK' /\ Head(batch) \in Events
         /\ \A i \in 1 .. Len(batch') : batch'[i] = batch[i + 1] /\ i + 1 \in 2 .. Len(batch)
<1>1. /\ batch \in Seq(Events) /\ Len(batch) \in Nat /\ 1 \in 1 .. Len(batch)
      /\ Head(batch) = batch[1] /\ Head(batch) \in Events
  BY DEF BatchOK
<1>2. /\ batch' \in Seq(Events) /\ Len(batch') = Len(batch) - 1
      /\ \A i \in 1 .. Len(batch') : batch'[i] = batch[i + 1] /\ i + 1 \in 2 .. Len(batch)
  BY <1>1
<1>3. Len(batch') <= BatchMax
  BY <1>1, <1>2, TcpRelayConstants DEF BatchOK
<1>4. \A i, j \in 1 .. Len(batch') : batch'[i].fd = batch'[j].fd => i = j
  BY <1>1, <1>2 DEF BatchOK
<1>5. ASSUME NEW i \in 1 .. Len(batch'), batch'[i].fd = Tun PROVE tunIn' # <<>>
  <2>1. i + 1 \in 1 .. Len(batch) /\ i + 1 # 1 /\ batch[i + 1].fd = Tun
    BY <1>1, <1>2, <1>5
  <2>2. Head(batch).fd # Tun
    BY <1>1, <2>1 DEF BatchOK
  <2> QED BY <2>1, <2>2 DEF BatchOK
<1> QED BY <1>1, <1>2, <1>3, <1>4, <1>5 DEF BatchOK

\* What epoll_wait may report is finite, and one event per descriptor.
LEMMA ReadyFinite ==
  ASSUME NEW others, NEW mail, Typed(others, mail)
  PROVE  /\ Ready \subseteq Events /\ Cardinality(Ready) \in Nat
         /\ \A e, d \in Ready : e.fd = d.fd => e = d
         /\ \A e \in Ready : e.fd = Tun => tunIn # <<>>
         /\ \A e \in Ready : e.fd # Tun =>
              e.fd \in Fds /\ sock[e.fd] # None /\ e.out = Writable(sock[e.fd])
<1> DEFINE S == {x \in Fds : sock[x] # None /\ Reported(sock[x])}
           E(fd) == [fd |-> fd, in |-> Readable(sock[fd]), out |-> Writable(sock[fd])]
           R == {E(fd) : fd \in S}
           T == [fd |-> Tun, in |-> TRUE, out |-> FALSE]
           f == [fd \in S |-> E(fd)]
<1>1. Ready = R \cup (IF tunIn # <<>> THEN {T} ELSE {})
  BY DEF Ready
<1>2. \A fd : Readable(sock[fd]) \in BOOLEAN /\ Writable(sock[fd]) \in BOOLEAN
  BY DEF Readable, Writable
<1>3. IsFiniteSet(R)
  <2>1. IsFiniteSet(S)
    BY TcpRelayConstants, FS_Subset
  <2>2. f \in Surjection(S, R)
    BY DEF Surjection
  <2> QED BY <2>1, <2>2, FS_Surjection
<1>4. IsFiniteSet(Ready)
  BY <1>1, <1>3, FS_AddElement
<1>5. \A fd \in S : /\ E(fd) \in Events /\ E(fd).fd = fd /\ fd # Tun /\ sock[fd] # None
                    /\ E(fd).out = Writable(sock[fd])
  BY <1>2, TcpRelayConstants DEF Events
<1>6. T \in Events /\ T.fd = Tun
  BY DEF Events
<1>7. \A e \in Ready : (\E fd \in S : e = E(fd)) \/ (e = T /\ tunIn # <<>>)
  <2> HIDE DEF S, E, T
  <2> QED BY <1>1
<1> HIDE DEF E, T
<1>8. Ready \subseteq Events /\ \A e, d \in Ready : e.fd = d.fd => e = d
  BY <1>5, <1>6, <1>7
<1>9. /\ \A e \in Ready : e.fd = Tun => tunIn # <<>>
      /\ \A e \in Ready : e.fd # Tun =>
              e.fd \in Fds /\ sock[e.fd] # None /\ e.out = Writable(sock[e.fd])
  BY <1>5, <1>6, <1>7
<1> QED BY <1>4, <1>8, <1>9, FS_CardinalityType

\* A batch is well formed, and of descriptors that are ready.
LEMMA EpollWaitSound ==
  ASSUME NEW others, NEW mail, Typed(others, mail), EpollWait
  PROVE  /\ BatchOK'
         /\ \A i \in 1 .. Len(batch') : batch'[i] \in Ready
<1>1. PICK order \in SetToSeqs(Ready) :
        batch' = SubSeq(order, 1, IF Len(order) < BatchMax THEN Len(order) ELSE BatchMax)
  BY DEF EpollWait
<1>2. /\ order \in Seq(Ready) /\ Len(order) \in Nat
      /\ \A i, j \in 1 .. Len(order) : i # j => order[i] # order[j]
      /\ \A i \in 1 .. Len(order) : order[i] \in Ready
  BY ReadyFinite DEF SetToSeqs
<1>3. PICK n \in 0 .. Len(order) : n <= BatchMax /\ batch' = SubSeq(order, 1, n)
  BY <1>1, <1>2, TcpRelayConstants
<1>4. /\ batch' \in Seq(Ready) /\ Len(batch') = n
      /\ \A i \in 1 .. n : batch'[i] = order[i] /\ order[i] \in Ready
  BY <1>2, <1>3
<1>5. batch' \in Seq(Events)
  BY <1>4, ReadyFinite
<1>6. \A i, j \in 1 .. Len(batch') : batch'[i].fd = batch'[j].fd => i = j
  BY <1>2, <1>4, ReadyFinite
<1>7. \A i \in 1 .. Len(batch') : batch'[i].fd = Tun => tunIn' # <<>>
  BY <1>4, ReadyFinite DEF EpollWait
<1> QED BY <1>3, <1>4, <1>5, <1>6, <1>7 DEF BatchOK

\* A packet is taken from the tunnel.
LEMMA FromTunSound ==
  ASSUME NEW others, NEW mail, Typed(others, mail), Foreign(others, mail),
         NEW kind, FromTun(kind)
  PROVE  /\ BatchOK' /\ tunIn # <<>> /\ tunIn' \in Seq(Packets \cup mail)
         /\ Head(tunIn) \in Packets \cup mail /\ Head(tunIn).kind = kind
         /\ Len(tunIn') = Len(tunIn) - 1
         /\ \A i \in 1 .. Len(tunIn') : tunIn'[i] = tunIn[i + 1]
         /\ kind \in {"syn", "data", "fin", "rst"} =>
              Head(tunIn).flow \in Flows /\ Head(tunIn).seq \in Nat /\ Head(tunIn).fin \in BOOLEAN
         /\ kind = "data" => Head(tunIn).seq \in 1 .. MaxUp
<1>1. BatchOK' /\ batch \in Seq(Events) /\ batch # <<>>
  BY TailSound DEF Typed, FromTun, BatchOK
<1>2. tunIn # <<>>
  <2>1. 1 \in 1 .. Len(batch) /\ Head(batch) = batch[1]
    BY <1>1
  <2> QED BY <2>1 DEF Typed, FromTun, BatchOK
<1>3. /\ tunIn' \in Seq(Packets \cup mail) /\ Head(tunIn) \in Packets \cup mail
      /\ Head(tunIn).kind = kind /\ Len(tunIn') = Len(tunIn) - 1
      /\ \A i \in 1 .. Len(tunIn') : tunIn'[i] = tunIn[i + 1]
  BY <1>2 DEF Typed, FromTun
<1>4. kind \in {"syn", "data", "fin", "rst"} => Head(tunIn) \in Packets
  BY <1>3 DEF Foreign
<1>5. \A p \in Packets :
        p.flow \in Flows /\ p.seq \in Nat /\ p.fin \in BOOLEAN /\ (p.kind = "data" => p.seq \in 1 .. MaxUp)
  BY TcpRelayConstants DEF Packets
<1> QED BY <1>1, <1>2, <1>3, <1>4, <1>5

\* A packet is written to the tunnel.
LEMMA SendSound ==
  ASSUME NEW others, NEW mail, Typed(others, mail), NEW p \in Packets \cup mail, Send(p),
         batch' = batch
  PROVE  BatchOK' /\ tunIn' \in Seq(Packets \cup mail)
<1>1. tunIn' \in Seq(Packets \cup mail) /\ tunIn' # <<>>
  BY DEF Typed, Send
<1> QED BY <1>1 DEF Typed, BatchOK

-----------------------------------------------------------------------------
\* Types and ownership: the device, the kernel and the servers.

Core(others, mail) == Typed(others, mail) /\ Owns /\ Held

\* The device writes a packet: nothing the engine has changes.
LEMMA ClientSound ==
  ASSUME NEW others, NEW mail, Core(others, mail), Foreign(others, mail),
         NEW f \in Flows, Client(f)
  PROVE  Core(others, mail)'
<1>1. /\ Typed(others, mail) /\ Owns /\ Held /\ client[f] \in Clients
  BY DEF Core, Typed
<1>2. UNCHANGED <<sess, sock, batch, tunOut, server>>
  BY DEF Client, ClientSyn, ClientData, ClientFin, ClientRetransmit, ClientAbort
<1>3. client' \in [Flows -> Clients]
  <2>1. CASE ClientSyn(f)
    <3> DEFINE c == [client[f] EXCEPT !.st = "synSent"]
               r == IF client[f].st = "new" THEN 0 ELSE client[f].resent + 1
    <3>1. c \in Clients
      BY <1>1 DEF Clients
    <3>2. r \in Nat
      BY <1>1 DEF Clients
    <3> HIDE DEF c, r
    <3>3. [c EXCEPT !.resent = r] \in Clients
      BY <3>1, <3>2 DEF Clients
    <3>4. client' = [client EXCEPT ![f] = [c EXCEPT !.resent = r]]
      BY <1>1, <2>1 DEF ClientSyn, Typed, c, r
    <3> QED BY <3>3, <3>4 DEF Typed, Core
  <2>2. ASSUME NEW fin \in BOOLEAN, ClientData(f, fin) PROVE client' \in [Flows -> Clients]
    <3> DEFINE c == [client[f] EXCEPT !.sent = client[f].sent + 1]
    <3>1. client[f].sent + 1 \in 0 .. MaxUp
      BY <1>1, <2>2, TcpRelayConstants, SMTT(40) DEF ClientData, Clients
    <3>2. c \in Clients
      BY <1>1, <3>1 DEF Clients
    <3> HIDE DEF c
    <3>3. [c EXCEPT !.fin = fin] \in Clients
      BY <3>2 DEF Clients
    <3>4. client' = [client EXCEPT ![f] = [c EXCEPT !.fin = fin]]
      BY <1>1, <2>2 DEF ClientData, Typed, c
    <3> QED BY <3>3, <3>4 DEF Typed, Core
  <2>3. CASE ClientFin(f) \/ ClientRetransmit(f) \/ ClientAbort(f)
    <3>1. [client[f] EXCEPT !.fin = TRUE] \in Clients
      BY <1>1 DEF Clients
    <3>2. [client[f] EXCEPT !.st = "closed"] \in Clients
      BY <1>1 DEF Clients
    <3>3. [client[f] EXCEPT !.resent = @ + 1] \in Clients
      <4>1. client[f].resent + 1 \in Nat
        BY <1>1 DEF Clients
      <4> QED BY <1>1, <4>1 DEF Clients
    <3> QED BY <1>1, <2>3, <3>1, <3>2, <3>3 DEF ClientFin, ClientRetransmit, ClientAbort, Typed
  <2> QED BY <2>1, <2>2, <2>3 DEF Client
<1>4. \E p \in Packets : Send(p)
  <2>1. CASE ClientSyn(f)
    <3>1. Packet(f, "syn", 0, FALSE) \in Packets
      BY DEF Packet, Packets
    <3> QED BY <2>1, <3>1 DEF ClientSyn
  <2>2. ASSUME NEW fin \in BOOLEAN, ClientData(f, fin) PROVE \E p \in Packets : Send(p)
    <3>1. client[f].sent + 1 \in 1 .. MaxUp
      BY <1>1, <2>2, TcpRelayConstants, SMTT(40) DEF ClientData, Clients
    <3>2. Packet(f, "data", client[f].sent + 1, fin) \in Packets
      BY <3>1 DEF Packet, Packets
    <3> QED BY <2>2, <3>2 DEF ClientData
  <2>3. CASE ClientFin(f)
    <3>1. Packet(f, "fin", client[f].sent + 1, TRUE) \in Packets
      BY <1>1 DEF Packet, Packets, Clients
    <3> QED BY <2>3, <3>1 DEF ClientFin
  <2>4. CASE ClientRetransmit(f)
    <3>1. client[f].acked + 1 \in 1 .. MaxUp
      BY <1>1, <2>4, TcpRelayConstants, SMTT(40) DEF ClientRetransmit, Clients
    <3>2. Packet(f, "data", client[f].acked + 1, FALSE) \in Packets
      BY <3>1 DEF Packet, Packets
    <3> QED BY <2>4, <3>2 DEF ClientRetransmit
  <2>5. CASE ClientAbort(f)
    <3>1. Packet(f, "rst", 0, FALSE) \in Packets
      BY DEF Packet, Packets
    <3> QED BY <2>5, <3>1 DEF ClientAbort
  <2> QED BY <2>1, <2>2, <2>3, <2>4, <2>5 DEF Client
<1>5. BatchOK' /\ tunIn' \in Seq(Packets \cup mail)
  BY <1>1, <1>2, <1>4, SendSound
<1>6. Owns' /\ Held'
  BY <1>1, <1>2 DEF Owns, Held, Open
<1>7. Typed(others, mail)'
  BY <1>1, <1>2, <1>3, <1>5 DEF Typed, Open
<1> QED BY <1>6, <1>7 DEF Core

\* A segment the client takes, or ignores.
LEMMA ReceivedTyped ==
  ASSUME NEW c \in Clients, NEW m \in Segments
  PROVE  Received(c, m) \in Clients
<1>1. m.ack \in Nat /\ m.inc \in Nat /\ m.isn \in Nat /\ m.byte \in Nat
  BY DEF Segments
<1>2. ASSUME NEW d \in Clients PROVE Acked(d, m) \in Clients
  <2>1. (IF m.ack - 1 > d.acked THEN m.ack - 1 ELSE d.acked) \in Nat
    BY <1>1, SMTT(40) DEF Clients
  <2> QED BY <2>1 DEF Acked, Clients
<1>3. [c EXCEPT !.st = "open", !.inc = m.inc, !.isn = m.isn] \in Clients
  BY <1>1 DEF Clients
<1>4. [c EXCEPT !.got = Append(@, m.byte)] \in Clients
  <2>1. Append(c.got, m.byte) \in Seq(Nat)
    BY <1>1 DEF Clients
  <2> QED BY <2>1 DEF Clients
<1>5. [c EXCEPT !.gotFin = TRUE] \in Clients /\ [c EXCEPT !.st = "closed"] \in Clients
  BY DEF Clients
<1> QED BY <1>2, <1>3, <1>4, <1>5 DEF Received

\* The client takes a segment, and sends no packet or one.
LEMMA ClientReceiveSound ==
  ASSUME NEW others, NEW mail, Core(others, mail), Foreign(others, mail),
         NEW f \in Flows, ClientReceive(f)
  PROVE  Core(others, mail)'
<1>1. /\ Typed(others, mail) /\ Owns /\ Held /\ client[f] \in Clients
      /\ tunOut[f] \in Seq(Segments) /\ tunOut[f] # <<>>
      /\ UNCHANGED <<sess, sock, batch, tunIn, server>>
  BY DEF Core, Typed, ClientReceive
<1>2. Head(tunOut[f]) \in Segments /\ Tail(tunOut[f]) \in Seq(Segments)
  BY <1>1
<1>3. client' \in [Flows -> Clients] /\ tunOut' \in [Flows -> Seq(Segments)]
  BY <1>1, <1>2, ReceivedTyped DEF ClientReceive, Typed
<1>4. Owns' /\ Held'
  BY <1>1 DEF Owns, Held, Open
<1>5. Typed(others, mail)'
  BY <1>1, <1>3 DEF Typed, BatchOK, Open
<1> QED BY <1>4, <1>5 DEF Core

\* What a socket is besides its owner may change; it belongs to a session.
LEMMA NetworkSound ==
  ASSUME NEW others, NEW mail, Core(others, mail), Foreign(others, mail),
         NEW fd \in Fds, Network(fd)
  PROVE  Core(others, mail)'
<1>1. /\ Typed(others, mail) /\ Owns /\ Held
      /\ sock[fd] # None /\ sock[fd].conn \in {"connecting", "connected"}
      /\ UNCHANGED <<sess, batch, tunIn, tunOut, client>>
  BY DEF Core, Network, ConnectEnds, ServerSends, ServerCloses, ServerResets, Live
<1>2. sock[fd] \in Sockets /\ sock[fd].flow \in Flows
  BY <1>1 DEF Typed, Foreign, Sockets
<1>3. \E k \in Sockets : k.flow = sock[fd].flow /\ sock' = [sock EXCEPT ![fd] = k]
  <2>1. ASSUME NEW how \in {"connected", "refused"}, ConnectEnds(fd, how)
        PROVE  \E k \in Sockets : k.flow = sock[fd].flow /\ sock' = [sock EXCEPT ![fd] = k]
    <3>1. [sock[fd] EXCEPT !.conn = how] \in Sockets
      BY <1>2 DEF Sockets
    <3> QED BY <1>2, <2>1, <3>1 DEF ConnectEnds, Sockets
  <2>2. CASE ServerSends(fd)
    <3> DEFINE n == server[sock[fd].flow].sent + 1
    <3>1. n \in 1 .. MaxDown
      BY <1>1, <1>2, <2>2, TcpRelayConstants DEF ServerSends, Typed, Servers
    <3>2. Append(sock[fd].rx, n) \in Seq(1 .. MaxDown)
      BY <1>2, <3>1 DEF Sockets
    <3> HIDE DEF n
    <3>3. [sock[fd] EXCEPT !.rx = Append(@, n)] \in Sockets
      BY <1>2, <3>2 DEF Sockets
    <3>4. sock' = [sock EXCEPT ![fd] = [sock[fd] EXCEPT !.rx = Append(@, n)]]
      BY <1>2, <2>2 DEF ServerSends, n
    <3> QED BY <1>2, <3>3, <3>4 DEF Sockets
  <2>3. CASE ServerCloses(fd)
    <3>1. [sock[fd] EXCEPT !.eof = TRUE] \in Sockets
      BY <1>2 DEF Sockets
    <3> QED BY <1>2, <2>3, <3>1 DEF ServerCloses, Sockets
  <2>4. CASE ServerResets(fd)
    <3>1. [sock[fd] EXCEPT !.err = TRUE] \in Sockets
      BY <1>2 DEF Sockets
    <3> QED BY <1>2, <2>4, <3>1 DEF ServerResets, Sockets
  <2> QED BY <2>1, <2>2, <2>3, <2>4 DEF Network
<1>4. /\ sock' \in [Fds -> Sockets \cup others \cup {None}]
      /\ \A d \in Fds : /\ sock'[d] = None <=> sock[d] = None
                        /\ sock[d] # None => sock'[d].flow = sock[d].flow
  BY <1>1, <1>2, <1>3, NoneApart DEF Typed
<1>5. server' \in [Flows -> Servers]
  <2>1. CASE ServerSends(fd)
    <3> DEFINE g == sock[fd].flow
    <3>1. server[g] \in Servers /\ server[g].sent + 1 \in 0 .. MaxDown
      BY <1>1, <1>2, <2>1, TcpRelayConstants DEF ServerSends, Typed, Servers
    <3>2. [server[g] EXCEPT !.sent = @ + 1] \in Servers
      BY <3>1 DEF Servers
    <3>3. server' = [server EXCEPT ![g] = [server[g] EXCEPT !.sent = @ + 1]]
      BY <1>1, <1>2, <2>1 DEF ServerSends, Typed
    <3> QED BY <1>1, <3>2, <3>3 DEF Typed
  <2> QED BY <1>1, <2>1 DEF Network, ConnectEnds, ServerCloses, ServerResets, Typed
<1>6. SameOwners
  <2>1. sess' = sess
    BY <1>1
  <2>2. \A d \in Fds : /\ sock'[d] = None <=> sock[d] = None
                       /\ sock[d] # None => sock'[d].flow = sock[d].flow
    BY <1>4
  <2> QED BY <2>1, <2>2 DEF SameOwners
<1>7. Owns' /\ Held'
  BY <1>1, <1>6, SameOwnersSound
<1>8. Typed(others, mail)'
  BY <1>1, <1>4, <1>5 DEF Typed, BatchOK, Open
<1> QED BY <1>7, <1>8 DEF Core

-----------------------------------------------------------------------------
\* Types and ownership: the handlers.

\* What a handler leaves typed around the tables.
Around(mail) ==
  /\ BatchOK' /\ tunIn' \in Seq(Packets \cup mail)
  /\ tunOut' \in [Flows -> Seq(Segments)]
  /\ client' \in [Flows -> Clients] /\ server' \in [Flows -> Servers]

\* A segment that the engine builds has the type of one.
LEMMA SegmentTyped ==
  ASSUME NEW s \in Sessions,
         NEW kind \in {"synAck", "ack", "data", "fin", "rst", "rstAck"}, NEW byte \in Nat
  PROVE  Segment(s, kind, byte) \in Segments
BY DEF Segment, Segments, Sessions

\* Writes to the tunnel keep the type of its output.
LEMMA WriteTyped ==
  ASSUME tunOut \in [Flows -> Seq(Segments)], NEW f \in Flows,
         NEW ms \in Seq(Segments), Write(f, ms)
  PROVE  tunOut' \in [Flows -> Seq(Segments)]
<1>1. tunOut[f] \o ms \in Seq(Segments)
  OBVIOUS
<1> QED BY <1>1 DEF Write

\* What is in two sequences joined.
LEMMA SetOfJoined ==
  ASSUME NEW S, NEW q \in Seq(S), NEW r \in Seq(S), NEW k
  PROVE  k \in ToSet(q \o r) <=> k \in ToSet(q) \/ k \in ToSet(r)
<1>1. /\ DOMAIN q = 1 .. Len(q) /\ DOMAIN r = 1 .. Len(r)
      /\ DOMAIN (q \o r) = 1 .. Len(q) + Len(r)
      /\ \A i \in 1 .. Len(q) : (q \o r)[i] = q[i] /\ i \in 1 .. Len(q) + Len(r)
      /\ \A i \in 1 .. Len(r) : (q \o r)[i + Len(q)] = r[i] /\ i + Len(q) \in 1 .. Len(q) + Len(r)
      /\ \A i \in 1 .. Len(q) + Len(r) :
           \/ i \in 1 .. Len(q) /\ (q \o r)[i] = q[i]
           \/ i - Len(q) \in 1 .. Len(r) /\ (q \o r)[i] = r[i - Len(q)]
  OBVIOUS
<1>2. /\ k \in ToSet(q) <=> \E i \in 1 .. Len(q) : q[i] = k
      /\ k \in ToSet(r) <=> \E i \in 1 .. Len(r) : r[i] = k
      /\ k \in ToSet(q \o r) <=> \E i \in 1 .. Len(q) + Len(r) : (q \o r)[i] = k
  BY <1>1 DEF ToSet
<1>3. ASSUME NEW i \in 1 .. Len(q), q[i] = k PROVE k \in ToSet(q \o r)
  BY <1>1, <1>2, <1>3
<1>4. ASSUME NEW i \in 1 .. Len(r), r[i] = k PROVE k \in ToSet(q \o r)
  <2>1. i + Len(q) \in 1 .. Len(q) + Len(r) /\ (q \o r)[i + Len(q)] = k
    BY <1>1, <1>4
  <2> QED BY <1>2, <2>1
<1>5. ASSUME NEW i \in 1 .. Len(q) + Len(r), (q \o r)[i] = k
      PROVE  k \in ToSet(q) \/ k \in ToSet(r)
  BY <1>1, <1>2, <1>5
<1> QED BY <1>2, <1>3, <1>4, <1>5

\* A sequence cut in two.
LEMMA CutInTwo ==
  ASSUME NEW S, NEW q \in Seq(S), NEW n \in 0 .. Len(q)
  PROVE  /\ SubSeq(q, 1, n) \in Seq(S) /\ Len(SubSeq(q, 1, n)) = n
         /\ \A i \in 1 .. n : SubSeq(q, 1, n)[i] = q[i] /\ q[i] \in S
         /\ SubSeq(q, n + 1, Len(q)) \in Seq(S)
         /\ Len(SubSeq(q, n + 1, Len(q))) = Len(q) - n
         /\ \A i \in 1 .. Len(q) - n : SubSeq(q, n + 1, Len(q))[i] = q[n + i]
OBVIOUS

\* Sequences with the same elements are the same.
LEMMA SameSeq ==
  ASSUME NEW S, NEW q \in Seq(S), NEW r \in Seq(S), Len(q) = Len(r),
         \A i \in 1 .. Len(q) : q[i] = r[i]
  PROVE  q = r
<1>1. q = [i \in 1 .. Len(q) |-> q[i]] /\ r = [i \in 1 .. Len(r) |-> r[i]]
  OBVIOUS
<1> QED BY <1>1

\* The two parts make up the sequence.
LEMMA CutJoined ==
  ASSUME NEW S, NEW q \in Seq(S), NEW n \in 0 .. Len(q)
  PROVE  SubSeq(q, 1, n) \o SubSeq(q, n + 1, Len(q)) = q
<1> DEFINE a == SubSeq(q, 1, n)
           b == SubSeq(q, n + 1, Len(q))
<1>1. /\ a \in Seq(S) /\ Len(a) = n /\ b \in Seq(S) /\ Len(b) = Len(q) - n
      /\ \A i \in 1 .. n : a[i] = q[i]
      /\ \A i \in 1 .. Len(q) - n : b[i] = q[n + i]
  BY CutInTwo
<1>2. Len(q) \in Nat /\ n \in Nat /\ n <= Len(q)
  OBVIOUS
<1> HIDE DEF a, b
<1>3. /\ a \o b \in Seq(S) /\ Len(a \o b) = Len(q)
      /\ \A i \in 1 .. Len(q) : (a \o b)[i] = IF i <= n THEN a[i] ELSE b[i - n]
  BY <1>1, <1>2
<1>4. \A i \in 1 .. Len(q) : (a \o b)[i] = q[i]
  <2>1. \A i \in 1 .. Len(q) : i > n => i - n \in 1 .. Len(q) - n /\ n + (i - n) = i
    BY <1>2
  <2>2. \A i \in 1 .. Len(q) : i <= n => i \in 1 .. n
    BY <1>2
  <2> QED BY <1>1, <1>2, <1>3, <2>1, <2>2
<1>5. a \o b = q
  BY <1>3, <1>4, SameSeq
<1> QED BY <1>5 DEF a, b

\* send() leaves every byte it is given with the server or with what is lost, and
\* with the server when there is room.
LEMMA DeliverTyped ==
  ASSUME server \in [Flows -> Servers], NEW f \in Flows, NEW bytes \in Seq(Nat),
         Deliver(f, bytes)
  PROVE  /\ server' \in [Flows -> Servers]
         /\ \A g \in Flows \ {f} : server'[g] = server[g]
         /\ server'[f].conns = server[f].conns /\ server'[f].sent = server[f].sent
         /\ \A k : k \in ToSet(server'[f].got) \cup server'[f].lost
                     <=> k \in ToSet(server[f].got) \cup server[f].lost \/ k \in ToSet(bytes)
         /\ "bufferFull" \notin Faults => server'[f].got = server[f].got \o bytes
<1> DEFINE took(n) == SubSeq(bytes, 1, n)
           left(n) == SubSeq(bytes, n + 1, Len(bytes))
           x == server[f]
<1>1. PICK n \in 0 .. Len(bytes) :
        /\ n < Len(bytes) => "bufferFull" \in Faults
        /\ server' = [server EXCEPT ![f].got = @ \o took(n), ![f].lost = @ \cup ToSet(left(n))]
  BY DEF Deliver
<1>2. /\ took(n) \in Seq(Nat) /\ left(n) \in Seq(Nat) /\ took(n) \o left(n) = bytes
      /\ n = Len(bytes) => took(n) = bytes
  <2>1. /\ took(n) \in Seq(Nat) /\ Len(took(n)) = n /\ left(n) \in Seq(Nat)
        /\ \A i \in 1 .. n : took(n)[i] = bytes[i]
    BY CutInTwo
  <2>2. took(n) \o left(n) = bytes
    BY CutJoined
  <2> HIDE DEF took, left
  <2>3. n = Len(bytes) => took(n) = bytes
    BY <2>1, SameSeq
  <2> QED BY <2>1, <2>2, <2>3
<1> HIDE DEF took, left
<1>3. ToSet(left(n)) \subseteq Nat
  BY <1>2 DEF ToSet
<1>4. x \in Servers /\ x.got \in Seq(Nat) /\ x.lost \subseteq Nat /\ x.got \o took(n) \in Seq(Nat)
  BY <1>2 DEF Servers
<1>5. server' = [server EXCEPT ![f] =
                   [x EXCEPT !.got = @ \o took(n), !.lost = @ \cup ToSet(left(n))]]
  BY <1>1
<1>6. /\ server'[f] = [x EXCEPT !.got = @ \o took(n), !.lost = @ \cup ToSet(left(n))]
      /\ \A g \in Flows \ {f} : server'[g] = server[g]
  BY <1>5
<1>7. /\ server'[f].got = x.got \o took(n) /\ server'[f].lost = x.lost \cup ToSet(left(n))
      /\ server'[f].conns = x.conns /\ server'[f].sent = x.sent /\ server'[f] \in Servers
  BY <1>3, <1>4, <1>6 DEF Servers
<1>8. server' \in [Flows -> Servers]
  BY <1>5, <1>6, <1>7
<1>9. ASSUME NEW k
      PROVE  k \in ToSet(server'[f].got) \cup server'[f].lost
               <=> k \in ToSet(x.got) \cup x.lost \/ k \in ToSet(bytes)
  <2>1. /\ k \in ToSet(x.got \o took(n)) <=> k \in ToSet(x.got) \/ k \in ToSet(took(n))
        /\ k \in ToSet(bytes) <=> k \in ToSet(took(n)) \/ k \in ToSet(left(n))
    BY <1>2, <1>4, SetOfJoined
  <2> QED BY <1>7, <2>1
<1>10. "bufferFull" \notin Faults => server'[f].got = x.got \o bytes
  <2>1. ~(n < Len(bytes)) => n = Len(bytes)
    OBVIOUS
  <2> QED BY <1>1, <1>2, <1>7, <2>1
<1> QED BY <1>6, <1>7, <1>8, <1>9, <1>10

\* Handlers that end a session.
LEMMA GoneSound ==
  ASSUME NEW others, NEW mail, Core(others, mail), Foreign(others, mail),
         NEW f \in Flows, TcpRemove(f), Around(mail)
  PROVE  Core(others, mail)'
<1>1. Typed(others, mail) /\ Owns /\ Held
  BY DEF Core
<1>2. /\ sess' \in [Flows -> Sessions \cup {None}]
      /\ \A g \in Flows : Open(g)' => Len(sess'[g].pending) <= PendingMax
      /\ sock' \in [Fds -> Sockets \cup others \cup {None}]
      /\ Owns' /\ Held'
  BY <1>1, RemoveSound
<1> QED BY <1>2 DEF Core, Typed, Around

\* Handlers that change a session, and at most what its socket holds.
LEMMA StaysSound ==
  ASSUME NEW others, NEW mail, Core(others, mail), Foreign(others, mail),
         NEW f \in Flows, Open(f), Around(mail),
         NEW s \in Sessions, s.fd = sess[f].fd, Len(s.pending) <= PendingMax,
         SetSession(f, s),
         NEW k \in Sockets, k.flow = f,
         sock' = sock \/ sock' = [sock EXCEPT ![sess[f].fd] = k]
  PROVE  Core(others, mail)'
<1>1. Typed(others, mail) /\ Owns /\ Held
  BY DEF Core
<1>2. sess[f].fd \in Fds /\ sock[sess[f].fd] \in Sockets /\ sock[sess[f].fd].flow = f
  BY <1>1, OpenTyped
<1>3. /\ sess' \in [Flows -> Sessions \cup {None}]
      /\ \A g \in Flows : sess'[g] = IF g = f THEN s ELSE sess[g]
  BY <1>1 DEF SetSession, Typed
<1>4. \A g \in Flows : Open(g)' => Len(sess'[g].pending) <= PendingMax
  BY <1>1, <1>3 DEF Typed, Open
<1>5. sock' \in [Fds -> Sockets \cup others \cup {None}]
  BY <1>1 DEF Typed
<1>6. SameOwners
  <2>1. \A g \in Flows : /\ sess'[g] = None <=> sess[g] = None
                         /\ sess[g] # None => sess'[g].fd = sess[g].fd
    BY <1>3, NoneApart DEF Open
  <2>2. \A d \in Fds : /\ sock'[d] = None <=> sock[d] = None
                       /\ sock[d] # None => sock'[d].flow = sock[d].flow
    <3>1. CASE sock' = sock
      BY <3>1
    <3>2. CASE sock' = [sock EXCEPT ![sess[f].fd] = k]
      BY <1>1, <1>2, <3>2, NoneApart DEF Typed
    <3> QED BY <3>1, <3>2
  <2> QED BY <2>1, <2>2 DEF SameOwners
<1>7. Owns' /\ Held'
  BY <1>1, <1>6, SameOwnersSound
<1> QED BY <1>3, <1>4, <1>5, <1>7 DEF Core, Typed, Around

\* An event that changes neither table.
LEMMA UnchangedSound ==
  ASSUME NEW others, NEW mail, Core(others, mail), Around(mail), UNCHANGED <<sess, sock>>
  PROVE  Core(others, mail)'
BY DEF Core, Typed, Owns, Held, Open, Around

\* The next event is for an open session's socket.
LEMMA FromSocketSound ==
  ASSUME NEW others, NEW mail, Core(others, mail), Foreign(others, mail),
         NEW f \in Flows, FromSocket(f), tunIn' = tunIn
  PROVE  /\ BatchOK' /\ tunIn' \in Seq(Packets \cup mail)
         /\ Open(f) /\ Head(batch).fd = sess[f].fd /\ Head(batch) \in Events
         /\ sess[f] \in Sessions /\ sess[f].fd \in Fds
         /\ sock[sess[f].fd] \in Sockets /\ sock[sess[f].fd].flow = f
<1>1. Typed(others, mail) /\ Owns
  BY DEF Core
<1>2. BatchOK' /\ Head(batch) \in Events
  BY <1>1, TailSound DEF FromSocket, Typed
<1>3. Open(f) /\ Head(batch).fd = sess[f].fd
  BY DEF FromSocket, OwnersOf
<1> QED BY <1>1, <1>2, <1>3, OpenTyped DEF Typed

\* handle_tun_packet, SYN: tcp_create after tcp_remove.
LEMMA TunSynSound ==
  ASSUME NEW others, NEW mail, Core(others, mail), Foreign(others, mail),
         NEW f \in Flows, TunSyn(f)
  PROVE  Core(others, mail)'
<1>1. Typed(others, mail) /\ Owns /\ Held
  BY DEF Core
<1>2. BatchOK' /\ tunIn' \in Seq(Packets \cup mail)
  BY <1>1, FromTunSound DEF TunSyn
<1>3. CASE TcpRemove(f) /\ UNCHANGED server
  <2>1. Around(mail)
    BY <1>1, <1>2, <1>3 DEF TunSyn, Around, Typed
  <2> QED BY <1>3, <2>1, GoneSound
<1>4. ASSUME NEW fd \in Fds, NEW conn \in {"connecting", "unconnected"}, NEW isn \in Isns,
             Closed(f)[fd] = None,
             sock' = [Closed(f) EXCEPT ![fd] = NewSocket(f, conn)],
             SetSession(f, NewSession(f, fd, isn)),
             server' = [server EXCEPT ![f] = NewServer(@.conns + 1)]
      PROVE  Core(others, mail)'
  <2>1. /\ sess' \in [Flows -> Sessions \cup {None}]
        /\ \A g \in Flows : Open(g)' => Len(sess'[g].pending) <= PendingMax
        /\ sock' \in [Fds -> Sockets \cup others \cup {None}]
        /\ Owns' /\ Held'
    <3>1. Replaces(f, fd, conn, isn)
      BY <1>4 DEF Replaces
    <3> QED BY <1>1, <3>1, ReplaceSound
  <2>2. NewServer(server[f].conns + 1) \in Servers
    BY <1>1, TcpRelayConstants DEF NewServer, Servers, Typed
  <2>3. server' \in [Flows -> Servers]
    BY <1>1, <1>4, <2>2 DEF Typed
  <2> QED BY <1>1, <1>2, <2>1, <2>3 DEF TunSyn, Core, Typed
<1> QED BY <1>3, <1>4 DEF TunSyn

\* A packet without a session is answered with a RST.
LEMMA TunNoSessionSound ==
  ASSUME NEW others, NEW mail, Core(others, mail), Foreign(others, mail),
         NEW f \in Flows, TunNoSession(f)
  PROVE  Core(others, mail)'
<1>1. Around(mail)
  BY FromTunSound DEF TunNoSession, Around, Core, Typed
<1> QED BY <1>1, UnchangedSound DEF TunNoSession

\* A RST of the client removes its session.
LEMMA TunRstSound ==
  ASSUME NEW others, NEW mail, Core(others, mail), Foreign(others, mail),
         NEW f \in Flows, TunRst(f)
  PROVE  Core(others, mail)'
<1>1. Around(mail)
  BY FromTunSound DEF TunRst, Around, Core, Typed
<1> QED BY <1>1, GoneSound DEF TunRst

\* Data before the connection is there is only noted.
LEMMA TunDataPendingSound ==
  ASSUME NEW others, NEW mail, Core(others, mail), Foreign(others, mail),
         NEW f \in Flows, TunDataPending(f)
  PROVE  Core(others, mail)'
<1> DEFINE p == Head(tunIn)
           s == sess[f]
           t == [s EXCEPT !.clientSeq = p.seq + 1, !.pending = Kept(s, p)]
<1>1. /\ Typed(others, mail) /\ Owns /\ FromTun("data") /\ Open(f) /\ SetSession(f, t)
      /\ UNCHANGED <<sock, tunOut, client, server>>
  BY DEF TunDataPending, Core
<1>2. Around(mail)
  BY <1>1, FromTunSound DEF Around, Typed
<1>3. p.seq \in 1 .. MaxUp /\ p.seq + 1 \in Nat
  <2>1. p.seq \in 1 .. MaxUp
    BY <1>1, FromTunSound
  <2> QED BY <2>1, TcpRelayConstants
<1>4. s \in Sessions /\ Len(s.pending) <= PendingMax /\ s.pending \in Seq(1 .. MaxUp)
      /\ sock[s.fd] \in Sockets /\ sock[s.fd].flow = f
  BY <1>1, OpenTyped DEF Sessions
<1>5. Kept(s, p) \in Seq(1 .. MaxUp) /\ Len(Kept(s, p)) <= PendingMax
  <2>1. /\ Append(s.pending, p.seq) \in Seq(1 .. MaxUp)
        /\ Len(Append(s.pending, p.seq)) = Len(s.pending) + 1 /\ Len(s.pending) \in Nat
    BY <1>3, <1>4
  <2>2. CASE Len(s.pending) < PendingMax
    <3>1. Kept(s, p) = Append(s.pending, p.seq)
      BY <2>2 DEF Kept
    <3>2. Len(s.pending) + 1 <= PendingMax
      BY <2>1, <2>2, TcpRelayConstants
    <3> QED BY <2>1, <3>1, <3>2, Zenon
  <2>3. CASE ~(Len(s.pending) < PendingMax)
    BY <1>4, <2>3 DEF Kept
  <2> QED BY <2>2, <2>3
<1> HIDE DEF s, p
<1>6. t \in Sessions /\ t.fd = s.fd /\ t.pending = Kept(s, p)
  BY <1>3, <1>4, <1>5 DEF Sessions
<1> HIDE DEF t
<1> QED BY <1>1, <1>2, <1>4, <1>5, <1>6, StaysSound DEF s

\* The segment of data for an established session.
LEMMA AfterDataTyped ==
  ASSUME NEW s \in Sessions, NEW p, p.seq \in Nat
  PROVE  AfterData(s, p) \in Sessions /\ AfterData(s, p) = [s EXCEPT !.clientSeq = p.seq + 1]
BY DEF AfterData, Sessions

\* Data that send() takes is acknowledged.
LEMMA TunDataSentSound ==
  ASSUME NEW others, NEW mail, Core(others, mail), Foreign(others, mail),
         NEW f \in Flows, TunDataSent(f)
  PROVE  Core(others, mail)'
<1> DEFINE p == Head(tunIn)
           s == AfterData(sess[f], p)
<1>1. /\ Typed(others, mail) /\ Owns /\ FromTun("data") /\ Open(f) /\ SetSession(f, s)
      /\ Deliver(f, <<p.seq>>) /\ Write(f, <<Segment(s, "ack", 0)>>)
      /\ UNCHANGED <<sock, client>>
  BY DEF TunDataSent, Core
<1>2. p.seq \in Nat
  BY <1>1, FromTunSound
<1>3. /\ sess[f] \in Sessions /\ Len(sess[f].pending) <= PendingMax
      /\ sock[sess[f].fd] \in Sockets /\ sock[sess[f].fd].flow = f
  BY <1>1, OpenTyped
<1>4. s \in Sessions /\ s.fd = sess[f].fd /\ s.pending = sess[f].pending
  BY <1>2, <1>3, AfterDataTyped DEF AfterData, Sessions
<1>5. <<Segment(s, "ack", 0)>> \in Seq(Segments) /\ <<p.seq>> \in Seq(Nat)
  BY <1>2, <1>4, SegmentTyped
<1>6. Around(mail)
  BY <1>1, <1>5, FromTunSound, WriteTyped, DeliverTyped DEF Around, Typed
<1> HIDE DEF s
<1> QED BY <1>1, <1>3, <1>4, <1>6, StaysSound

\* Data that send() does not take.
LEMMA TunDataFailedSound ==
  ASSUME NEW others, NEW mail, Core(others, mail), Foreign(others, mail),
         NEW f \in Flows, TunDataFailed(f)
  PROVE  Core(others, mail)'
<1> DEFINE s == AfterData(sess[f], Head(tunIn))
<1>1. /\ Typed(others, mail) /\ Owns /\ FromTun("data") /\ Open(f)
      /\ Write(f, <<Segment(s, "rstAck", 0)>>) /\ TcpRemove(f) /\ UNCHANGED <<client, server>>
  BY DEF TunDataFailed, Core
<1>2. Head(tunIn).seq \in Nat /\ sess[f] \in Sessions
  BY <1>1, FromTunSound, OpenTyped
<1>3. <<Segment(s, "rstAck", 0)>> \in Seq(Segments)
  BY <1>2, AfterDataTyped, SegmentTyped
<1>4. Around(mail)
  BY <1>1, <1>3, FromTunSound, WriteTyped DEF Around, Typed
<1> QED BY <1>1, <1>4, GoneSound

\* A FIN of the client.
LEMMA TunFinSound ==
  ASSUME NEW others, NEW mail, Core(others, mail), Foreign(others, mail),
         NEW f \in Flows, TunFin(f)
  PROVE  Core(others, mail)'
<1> DEFINE p == Head(tunIn)
           s == AfterFin(sess[f], p)
           sends == p.kind = "data" /\ s.state = "established"
           ms == (IF sends THEN <<Segment(AfterData(s, p), "ack", 0)>> ELSE <<>>)
                   \o <<Segment(s, "ack", 0), Segment(s, "fin", 0)>>
<1>2. /\ Typed(others, mail) /\ Owns /\ (FromTun("data") \/ FromTun("fin")) /\ Open(f)
      /\ IF sends THEN Deliver(f, <<p.seq>>) ELSE UNCHANGED server
      /\ Write(f, ms) /\ TcpRemove(f) /\ UNCHANGED client
  BY DEF TunFin, Core
<1>3. p.seq \in Nat /\ sess[f] \in Sessions
  BY <1>2, FromTunSound, OpenTyped
<1>4. s \in Sessions /\ AfterData(s, p) \in Sessions
  BY <1>3, AfterDataTyped DEF AfterFin, AfterData
<1>5. <<p.seq>> \in Seq(Nat) /\ ms \in Seq(Segments)
  <2>1. /\ Segment(AfterData(s, p), "ack", 0) \in Segments
        /\ Segment(s, "ack", 0) \in Segments /\ Segment(s, "fin", 0) \in Segments
    BY <1>4, SegmentTyped
  <2> QED BY <1>3, <2>1
<1> HIDE DEF ms, sends
<1>6. server' \in [Flows -> Servers]
  BY <1>2, <1>5, DeliverTyped DEF Typed
<1>7. BatchOK' /\ tunIn' \in Seq(Packets \cup mail)
  BY <1>2, FromTunSound
<1>8. tunOut' \in [Flows -> Seq(Segments)]
  BY <1>2, <1>5, WriteTyped DEF Typed
<1>9. Around(mail)
  BY <1>2, <1>6, <1>7, <1>8 DEF Around, Typed
<1> QED BY <1>2, <1>9, GoneSound

\* our_seq moves on, and nothing else.
LEMMA AdvancedTyped ==
  ASSUME NEW s \in Sessions, NEW n \in Nat
  PROVE  /\ Advanced(s, n) \in Sessions
         /\ Advanced(s, n).ourSeq = s.ourSeq + n /\ Advanced(s, n).fd = s.fd
         /\ Advanced(s, n).pending = s.pending /\ Advanced(s, n).state = s.state
         /\ Advanced(s, n).inc = s.inc /\ Advanced(s, n).clientSeq = s.clientSeq
<1>1. s.ourSeq + n \in Nat
  BY DEF Sessions
<1> QED BY <1>1 DEF Advanced, Sessions

\* handle_socket_event.
LEMMA SocketConnectedSound ==
  ASSUME NEW others, NEW mail, Core(others, mail), Foreign(others, mail),
         NEW f \in Flows, SocketConnected(f)
  PROVE  Core(others, mail)'
<1> DEFINE s == sess[f]
           s1 == Advanced(s, 1)
           t == [s1 EXCEPT !.state = "established", !.pending = <<>>]
           k == [sock[s.fd] EXCEPT !.watchOut = FALSE]
           ms == <<Segment(s, "synAck", 0)>>
                   \o (IF s.pending # <<>> THEN <<Segment(s1, "ack", 0)>> ELSE <<>>)
<1>1. /\ Typed(others, mail) /\ FromSocket(f) /\ Write(f, ms) /\ SetSession(f, t)
      /\ sock' = [sock EXCEPT ![s.fd] = k]
      /\ IF Accepts(sock[s.fd]) THEN Deliver(f, s.pending) ELSE UNCHANGED server
      /\ UNCHANGED <<tunIn, client>>
  BY DEF SocketConnected, Core
<1>2. /\ BatchOK' /\ tunIn' \in Seq(Packets \cup mail)
      /\ Open(f) /\ s \in Sessions /\ sock[s.fd] \in Sockets /\ sock[s.fd].flow = f
  BY <1>1, FromSocketSound
<1>3. k \in Sockets /\ k.flow = f
  BY <1>2 DEF Sockets
<1>4. s1 \in Sessions
  BY <1>2, AdvancedTyped
<1>5. t \in Sessions /\ t.fd = s.fd /\ t.pending = <<>>
  <2>1. s1.fd = s.fd
    BY <1>2, AdvancedTyped
  <2>2. <<>> \in Seq(1 .. MaxUp)
    OBVIOUS
  <2> HIDE DEF s1
  <2>3. [s1 EXCEPT !.state = "established"] \in Sessions
    BY <1>4 DEF Sessions
  <2> QED BY <1>4, <2>1, <2>2, <2>3 DEF Sessions
<1>6. Len(t.pending) <= PendingMax
  BY <1>5, TcpRelayConstants
<1>7. ms \in Seq(Segments)
  <2>1. Segment(s, "synAck", 0) \in Segments /\ Segment(s1, "ack", 0) \in Segments
    BY <1>2, <1>4, SegmentTyped
  <2> QED BY <2>1
<1>8. s.pending \in Seq(Nat)
  BY <1>2, TcpRelayConstants DEF Sessions
<1>9. Around(mail)
  BY <1>1, <1>2, <1>7, <1>8, WriteTyped, DeliverTyped DEF Around, Typed
<1> HIDE DEF t, k
<1> QED BY <1>1, <1>2, <1>3, <1>5, <1>6, <1>9, StaysSound

\* The three ways in which a handler gives a session up with one last segment.
LEMMA LastWordSound ==
  ASSUME NEW others, NEW mail, Core(others, mail), Foreign(others, mail),
         NEW f \in Flows, FromSocket(f), NEW kind \in {"rst", "fin"},
         Write(f, <<Segment(sess[f], kind, 0)>>), TcpRemove(f),
         UNCHANGED <<tunIn, client, server>>
  PROVE  Core(others, mail)'
<1>1. BatchOK' /\ tunIn' \in Seq(Packets \cup mail) /\ sess[f] \in Sessions
  BY FromSocketSound
<1>2. <<Segment(sess[f], kind, 0)>> \in Seq(Segments)
  BY <1>1, SegmentTyped
<1>3. Around(mail)
  BY <1>1, <1>2, WriteTyped DEF Around, Core, Typed
<1> QED BY <1>3, GoneSound

\* A socket that is refused, at its end or in error loses its session.
LEMMA SocketEndsSound ==
  ASSUME NEW others, NEW mail, Core(others, mail), Foreign(others, mail),
         NEW f \in Flows, SocketRefused(f) \/ SocketEof(f) \/ SocketError(f)
  PROVE  Core(others, mail)'
BY LastWordSound DEF SocketRefused, SocketEof, SocketError, Reads

\* A socket event that brings no data.
LEMMA SocketIdleSound ==
  ASSUME NEW others, NEW mail, Core(others, mail), Foreign(others, mail),
         NEW f \in Flows, SocketNotReadable(f) \/ SocketAgain(f)
  PROVE  Core(others, mail)'
<1>1. FromSocket(f) /\ UNCHANGED <<sess, sock, tunIn, tunOut, client, server>>
  BY DEF SocketNotReadable, SocketAgain, Reads
<1>2. Around(mail)
  BY <1>1, FromSocketSound DEF Around, Core, Typed
<1> QED BY <1>1, <1>2, UnchangedSound

\* Data of the server goes to the tunnel.
LEMMA SocketDataSound ==
  ASSUME NEW others, NEW mail, Core(others, mail), Foreign(others, mail),
         NEW f \in Flows, NEW n \in 1 .. MaxRead, SocketData(f, n)
  PROVE  Core(others, mail)'
<1> DEFINE s == sess[f]
           rx == sock[s.fd].rx
           bytes == SubSeq(rx, 1, n)
           t == Advanced(s, n)
           k == [sock[s.fd] EXCEPT !.rx = SubSeq(rx, n + 1, Len(rx))]
<1>1. /\ Typed(others, mail) /\ FromSocket(f) /\ Write(f, Chunks(s, bytes)) /\ SetSession(f, t)
      /\ sock' = [sock EXCEPT ![s.fd] = k] /\ n <= Len(rx)
      /\ UNCHANGED <<tunIn, client, server>>
  BY DEF SocketData, Reads, Core
<1>2. /\ BatchOK' /\ tunIn' \in Seq(Packets \cup mail)
      /\ Open(f) /\ s \in Sessions /\ sock[s.fd] \in Sockets /\ sock[s.fd].flow = f
  BY <1>1, FromSocketSound
<1>3. rx \in Seq(1 .. MaxDown) /\ n \in Nat /\ n \in 0 .. Len(rx)
  BY <1>1, <1>2, TcpRelayConstants DEF Sockets
<1>4. /\ SubSeq(rx, n + 1, Len(rx)) \in Seq(1 .. MaxDown)
      /\ bytes \in Seq(1 .. MaxDown) /\ Len(bytes) = n
      /\ \A i \in 1 .. n : bytes[i] \in 1 .. MaxDown
  <2> HIDE DEF rx
  <2>1. /\ SubSeq(rx, n + 1, Len(rx)) \in Seq(1 .. MaxDown)
        /\ bytes \in Seq(1 .. MaxDown) /\ Len(bytes) = n
    BY <1>3, CutInTwo, ZenonT(60)
  <2>2. \A i \in 1 .. n : bytes[i] \in 1 .. MaxDown
    <3> DEFINE S == 1 .. MaxDown
    <3>1. rx \in Seq(S)
      BY <1>3
    <3> HIDE DEF S
    <3>2. \A i \in 1 .. n : SubSeq(rx, 1, n)[i] \in S
      BY <1>3, <3>1, CutInTwo
    <3> QED BY <3>2 DEF S
  <2> QED BY <2>1, <2>2
<1>5. k \in Sockets /\ k.flow = f
  BY <1>2, <1>4 DEF Sockets
<1>6. t \in Sessions /\ t.fd = s.fd /\ t.pending = s.pending
  BY <1>2, <1>3, AdvancedTyped
<1> HIDE DEF bytes
<1>7. DOMAIN bytes = 1 .. n /\ \A i \in 1 .. n : bytes[i] \in Nat
  BY <1>4, TcpRelayConstants
<1>8. Chunks(s, bytes) \in Seq(Segments)
  <2>1. ASSUME NEW i \in 1 .. n PROVE Segment(Advanced(s, i - 1), "data", bytes[i]) \in Segments
    <3>1. Advanced(s, i - 1) \in Sessions
      BY <1>2, <1>3, AdvancedTyped
    <3> QED BY <1>7, <3>1, SegmentTyped
  <2>2. Chunks(s, bytes) = [i \in 1 .. n |-> Segment(Advanced(s, i - 1), "data", bytes[i])]
    BY <1>7 DEF Chunks
  <2> QED BY <1>3, <2>1, <2>2
<1>9. Len(t.pending) <= PendingMax
  BY <1>2, <1>6, OpenTyped DEF Core
<1>10. Around(mail)
  BY <1>1, <1>2, <1>8, WriteTyped DEF Around, Typed
<1> HIDE DEF t, k, rx
<1> QED BY <1>1, <1>2, <1>5, <1>6, <1>9, <1>10, StaysSound

\* cleanup removes an idle session.
LEMMA ExpireSound ==
  ASSUME NEW others, NEW mail, Core(others, mail), Foreign(others, mail),
         NEW f \in Flows, Expire(f)
  PROVE  Core(others, mail)'
<1>1. Around(mail)
  BY DEF Expire, Around, Core, Typed, BatchOK
<1> QED BY <1>1, GoneSound DEF Expire

\* Every handler of the TCP half, and the loop around them.
LEMMA HandleSound ==
  ASSUME NEW others, NEW mail, Core(others, mail), Foreign(others, mail),
         NEW f \in Flows, Handle(f)
  PROVE  Core(others, mail)'
BY TunSynSound, TunNoSessionSound, TunRstSound, TunFinSound, TunDataPendingSound,
   TunDataSentSound, TunDataFailedSound, SocketConnectedSound, SocketEndsSound,
   SocketIdleSound, SocketDataSound DEF Handle

\* The event loop takes a batch, or steps over an event without a session.
LEMMA LoopSound ==
  ASSUME NEW others, NEW mail, Core(others, mail), Foreign(others, mail),
         EpollWait \/ SocketNoSession
  PROVE  Core(others, mail)'
<1>1. Typed(others, mail) /\ UNCHANGED <<sess, sock, tunIn, tunOut, client, server>>
  BY DEF Core, EpollWait, SocketNoSession
<1>2. BatchOK'
  <2>1. CASE EpollWait
    BY <1>1, <2>1, EpollWaitSound
  <2>2. CASE SocketNoSession
    BY <1>1, <2>2, TailSound DEF SocketNoSession, Typed
  <2> QED BY <2>1, <2>2
<1>3. Around(mail)
  BY <1>1, <1>2 DEF Around, Typed
<1> QED BY <1>1, <1>3, UnchangedSound

-----------------------------------------------------------------------------
(***************************************************************************)
(* TcpRelay alone has no other sockets and no other packets.  What follows *)
(* asks for no more than that those there are can be told apart.           *)
(***************************************************************************)

Alone == Core({}, {})

Owned == \E others, mail : Foreign(others, mail) /\ Core(others, mail)

LEMMA AloneOwned == Alone => Owned
<1>1. Foreign({}, {})
  BY DEF Foreign
<1> QED BY <1>1 DEF Alone, Owned

\* At the start nothing is open.
LEMMA InitAlone == Init => Alone
<1> SUFFICES ASSUME Init PROVE Alone
  OBVIOUS
<1>1. /\ NewClient \in Clients /\ NewServer(0) \in Servers
      /\ \A f \in Flows : ~Open(f)
  BY TcpRelayConstants DEF Init, NewClient, NewServer, Clients, Servers, Open
<1>2. BatchOK
  BY TcpRelayConstants DEF Init, BatchOK
<1>3. Typed({}, {})
  BY <1>1, <1>2 DEF Init, Typed
<1>4. Owns /\ Held
  BY <1>1 DEF Init, Owns, Held
<1> QED BY <1>3, <1>4 DEF Alone, Core

LEMMA InitOwned == Init => Owned
BY InitAlone, AloneOwned

\* One step preserves the types and the ownership of the descriptors.
LEMMA NextCore ==
  ASSUME NEW others, NEW mail, Core(others, mail), Foreign(others, mail), [Next]_vars
  PROVE  Core(others, mail)'
<1>1. CASE \E f \in Flows : Client(f)
  BY <1>1, ClientSound
<1>2. CASE \E f \in Flows : ClientReceive(f)
  BY <1>2, ClientReceiveSound
<1>3. CASE \E fd \in Fds : Network(fd)
  BY <1>3, NetworkSound
<1>4. CASE EpollWait \/ SocketNoSession
  BY <1>4, LoopSound
<1>5. CASE \E f \in Flows : Handle(f)
  BY <1>5, HandleSound
<1>6. CASE \E f \in Flows : Expire(f)
  BY <1>6, ExpireSound
<1>7. CASE UNCHANGED vars
  BY <1>7 DEF vars, Core, Typed, BatchOK, Owns, Held, Open
<1> QED BY <1>1, <1>2, <1>3, <1>4, <1>5, <1>6, <1>7 DEF Next, Environment, Engine

LEMMA NextAlone == Alone /\ [Next]_vars => Alone'
<1>1. Foreign({}, {})
  BY DEF Foreign
<1> QED BY <1>1, NextCore DEF Alone

LEMMA NextOwned == Owned /\ [Next]_vars => Owned'
<1> SUFFICES ASSUME Owned, [Next]_vars PROVE Owned'
  OBVIOUS
<1>1. PICK others, mail : Foreign(others, mail) /\ Core(others, mail)
  BY DEF Owned
<1>2. Core(others, mail)'
  BY <1>1, NextCore
<1> QED BY <1>1, <1>2 DEF Owned

\* What is in the tunnel: TCP's packets and others, which are told apart.
Letters == Packets \cup {tunIn[i] : i \in 1 .. Len(tunIn)}

LEMMA LettersSound ==
  ASSUME Owned
  PROVE  /\ tunIn \in Seq(Letters) /\ Packets \subseteq Letters
         /\ \A p \in Letters :
              p.flow \in Flows \/ p.kind \in {"syn", "data", "fin", "rst"} => p \in Packets
<1>1. PICK others, mail : Foreign(others, mail) /\ tunIn \in Seq(Packets \cup mail)
  BY DEF Owned, Core, Typed
<1>2. \A i \in 1 .. Len(tunIn) : tunIn[i] \in Packets \cup mail
  BY <1>1
<1>3. tunIn \in Seq(Letters)
  BY <1>1 DEF Letters
<1> QED BY <1>1, <1>2, <1>3 DEF Letters, Foreign

LEMMA PacketsSound ==
  ASSUME Owned, NEW i \in 1 .. Len(tunIn),
         tunIn[i].flow \in Flows \/ tunIn[i].kind \in {"syn", "data", "fin", "rst"}
  PROVE  tunIn[i] \in Packets
<1>1. tunIn[i] \in Letters
  BY LettersSound
<1> QED BY <1>1, LettersSound

\* The network acts on TCP's sockets only.
LEMMA NetworkOurs ==
  ASSUME Owned, NEW fd \in Fds, Network(fd)
  PROVE  sock[fd] # None /\ sock[fd] \in Sockets /\ sock[fd].flow \in Flows
<1>1. PICK others, mail :
        Foreign(others, mail) /\ sock \in [Fds -> Sockets \cup others \cup {None}]
  BY DEF Owned, Core, Typed
<1>2. sock[fd] # None /\ sock[fd].conn \in {"connecting", "connected"}
  BY DEF Network, ConnectEnds, ServerSends, ServerCloses, ServerResets, Live
<1>3. sock[fd] \in Sockets
  BY <1>1, <1>2 DEF Foreign
<1> QED BY <1>2, <1>3 DEF Sockets

\* A descriptor that is in use has the one owner its socket was made for.
LEMMA AloneSound == Alone => SessionsSound
<1> SUFFICES ASSUME Alone PROVE SessionsSound
  OBVIOUS
<1>1. TypeOK
  BY DEF Alone, Core, Typed, BatchOK, TypeOK, Clients
<1>2. ASSUME NEW fd \in Fds, sock[fd] # None PROVE Cardinality(OwnersOf(fd)) = 1
  <2>1. sock[fd].flow \in Flows
    BY <1>2 DEF Alone, Core, Typed, Sockets
  <2>2. OwnersOf(fd) = {sock[fd].flow}
    BY <1>2, <2>1 DEF OwnersOf, Alone, Core, Owns, Held
  <2> QED BY <2>2, FS_Singleton
<1>3. FdsOwned
  BY <1>2 DEF FdsOwned, Alone, Core, Owns
<1> QED BY <1>1, <1>3 DEF SessionsSound

\* Whatever is replaced, removed, refused, reset or expired, every descriptor
\* the kernel gave the engine belongs to exactly one session, the one it was
\* made for (tcp_create, tcp_remove, tcp_destroy).
THEOREM DescriptorsOwned == Spec => []SessionsSound
<1>1. Init => Alone
  BY InitAlone
<1>2. Alone /\ [Next]_vars => Alone'
  BY NextAlone
<1>3. Alone => SessionsSound
  BY AloneSound
<1> QED BY <1>1, <1>2, <1>3, PTL DEF Spec

-----------------------------------------------------------------------------
(***************************************************************************)
(* Sessions of a flow may have the same initial sequence number.  The      *)
(* client takes the SYN-ACK that comes first; as the segments of sessions  *)
(* come in the order the sessions were made, and those of one session      *)
(* under one number, a client of the latest session has nothing on its way *)
(* to it but what that session sent.                                       *)
(***************************************************************************)

Asked(f) == client[f].st \in {"open", "closed"}

\* The client's connection is the latest the engine made for it.
Current(f) == Asked(f) /\ client[f].inc = server[f].conns

\* Whatever bears a session's number.
Bearers(f) ==
  ToSet(tunOut[f]) \cup {x \in {sess[f]} : Open(f)} \cup {x \in {client[f]} : Asked(f)}

InOrder(f) ==
  /\ Open(f) => sess[f].inc = server[f].conns
  /\ \A x \in Bearers(f) : x.inc <= server[f].conns
  /\ \A i, j \in 1 .. Len(tunOut[f]) : i < j => tunOut[f][i].inc <= tunOut[f][j].inc
  /\ Asked(f) => \A i \in 1 .. Len(tunOut[f]) : client[f].inc <= tunOut[f][i].inc

OneIsn(f) == \A x, y \in Bearers(f) : x.inc = y.inc => x.isn = y.isn

Lined == \A f \in Flows : InOrder(f) /\ OneIsn(f)

\* What a step that makes no session may do: the session there is writes some
\* more, or ends.
Utters(f) ==
  /\ client'[f].inc = client[f].inc /\ client'[f].isn = client[f].isn
  /\ Asked(f)' = Asked(f)
  /\ server'[f].conns = server[f].conns
  /\ Open(f)' => Open(f) /\ sess'[f].inc = sess[f].inc /\ sess'[f].isn = sess[f].isn
  /\ \/ tunOut'[f] = tunOut[f]
     \/ /\ Open(f)
        /\ \E ms \in Seq(Segments) :
             /\ tunOut'[f] = tunOut[f] \o ms
             /\ \A i \in 1 .. Len(ms) : ms[i].inc = sess[f].inc /\ ms[i].isn = sess[f].isn

\* Segments that have numbers are typed, and so is what else bears one.
LEMMA BearersTyped ==
  ASSUME Owned, NEW f \in Flows
  PROVE  /\ server[f].conns \in Nat
         /\ \A x \in Bearers(f) : x.inc \in Nat
         /\ DOMAIN tunOut[f] = 1 .. Len(tunOut[f]) /\ Len(tunOut[f]) \in Nat
         /\ \A i \in 1 .. Len(tunOut[f]) :
              tunOut[f][i] \in Bearers(f) /\ tunOut[f][i] \in Segments
<1>1. /\ tunOut[f] \in Seq(Segments) /\ client[f] \in Clients /\ server[f] \in Servers
      /\ Open(f) => sess[f] \in Sessions
  BY DEF Owned, Core, Typed, Open
<1>2. /\ DOMAIN tunOut[f] = 1 .. Len(tunOut[f]) /\ Len(tunOut[f]) \in Nat
      /\ \A i \in 1 .. Len(tunOut[f]) : tunOut[f][i] \in Segments
  BY <1>1
<1>3. \A i \in 1 .. Len(tunOut[f]) : tunOut[f][i] \in ToSet(tunOut[f])
  BY <1>2 DEF ToSet
<1>4. \A x \in ToSet(tunOut[f]) : x \in Segments
  BY <1>2 DEF ToSet
<1>5. \A x \in Bearers(f) : x.inc \in Nat
  BY <1>1, <1>4 DEF Bearers, Segments, Sessions, Clients
<1> QED BY <1>1, <1>2, <1>3, <1>5 DEF Bearers, Servers

\* A session that writes keeps the numbers in line.
LEMMA UttersLined ==
  ASSUME Owned, NEW f \in Flows, InOrder(f), OneIsn(f), Utters(f)
  PROVE  InOrder(f)' /\ OneIsn(f)'
<1> DEFINE n == Len(tunOut[f])
           conns == server[f].conns
<1>1. /\ tunOut[f] \in Seq(Segments) /\ n \in Nat /\ conns \in Nat
      /\ \A x \in Bearers(f) : x.inc \in Nat
      /\ \A i \in 1 .. n : tunOut[f][i] \in Bearers(f)
  BY BearersTyped DEF Owned, Core, Typed
<1>2. PICK ms \in Seq(Segments) :
        /\ tunOut'[f] = tunOut[f] \o ms
        /\ \A i \in 1 .. Len(ms) : Open(f) /\ ms[i].inc = sess[f].inc /\ ms[i].isn = sess[f].isn
  <2>1. CASE tunOut'[f] = tunOut[f]
    <3> DEFINE ms == <<>>
    <3>1. tunOut[f] \o ms = tunOut[f] /\ ms \in Seq(Segments) /\ Len(ms) = 0
      BY <1>1
    <3> HIDE DEF ms
    <3>2. \A i \in 1 .. Len(ms) : FALSE
      BY <3>1
    <3> QED BY <2>1, <3>1, <3>2
  <2>2. CASE tunOut'[f] # tunOut[f]
    BY <2>2 DEF Utters
  <2> QED BY <2>1, <2>2
<1>3. \A i \in 1 .. Len(tunOut'[f]) :
        \/ i \in 1 .. n /\ tunOut'[f][i] = tunOut[f][i]
        \/ i > n /\ \E j \in 1 .. Len(ms) : tunOut'[f][i] = ms[j]
  <2> DEFINE out == tunOut[f]
  <2>1. out \in Seq(Segments) /\ ms \in Seq(Segments) /\ n = Len(out) /\ tunOut'[f] = out \o ms
    BY <1>1, <1>2
  <2> HIDE DEF out
  <2>2. /\ Len(out \o ms) = n + Len(ms) /\ Len(ms) \in Nat
        /\ \A i \in 1 .. n + Len(ms) : (out \o ms)[i] = IF i <= n THEN out[i] ELSE ms[i - n]
    BY <2>1
  <2>3. \A i \in 1 .. n + Len(ms) : i > n => i - n \in 1 .. Len(ms)
    BY <1>1, <2>2
  <2>4. \A i \in 1 .. n + Len(ms) : i > n \/ i \in 1 .. n
    BY <1>1, <2>2
  <2> QED BY <1>1, <2>1, <2>2, <2>3, <2>4 DEF out
<1>4. Open(f) => sess[f] \in Bearers(f) /\ sess[f].inc = conns
  BY DEF Bearers, InOrder
<1>5. \A i \in 1 .. Len(tunOut'[f]) :
        \/ i \in 1 .. n /\ tunOut'[f][i] = tunOut[f][i]
        \/ /\ i > n /\ Open(f)
           /\ tunOut'[f][i].inc = sess[f].inc /\ tunOut'[f][i].isn = sess[f].isn
  BY <1>2, <1>3
<1>6. \A x \in Bearers(f)' : \E y \in Bearers(f) : x.inc = y.inc /\ x.isn = y.isn
  <2>1. ASSUME NEW x \in ToSet(tunOut'[f])
        PROVE  \E y \in Bearers(f) : x.inc = y.inc /\ x.isn = y.isn
    <3>1. PICK i \in 1 .. Len(tunOut'[f]) : x = tunOut'[f][i]
      <4>1. DOMAIN tunOut'[f] = 1 .. Len(tunOut'[f])
        BY <1>1, <1>2
      <4> QED BY <2>1, <4>1 DEF ToSet
    <3> QED BY <1>1, <1>4, <1>5, <3>1
  <2>2. Open(f)' => \E y \in Bearers(f) : sess'[f].inc = y.inc /\ sess'[f].isn = y.isn
    BY <1>4 DEF Utters
  <2>3. Asked(f)' => \E y \in Bearers(f) : client'[f].inc = y.inc /\ client'[f].isn = y.isn
    BY DEF Utters, Bearers
  <2> QED BY <2>1, <2>2, <2>3 DEF Bearers
<1>7. InOrder(f)'
  <2>1. Open(f)' => sess'[f].inc = server'[f].conns
    BY DEF InOrder, Utters
  <2>2. \A x \in Bearers(f)' : x.inc <= server'[f].conns
    BY <1>6 DEF InOrder, Utters
  <2>3. ASSUME NEW i \in 1 .. Len(tunOut'[f]), NEW j \in 1 .. Len(tunOut'[f]), i < j
        PROVE  tunOut'[f][i].inc <= tunOut'[f][j].inc
    <3>1. CASE j \in 1 .. n /\ tunOut'[f][j] = tunOut[f][j]
      <4>1. i \in 1 .. n /\ tunOut'[f][i] = tunOut[f][i]
        BY <1>1, <1>5, <2>3, <3>1
      <4> QED BY <2>3, <3>1, <4>1 DEF InOrder
    <3>2. CASE Open(f) /\ tunOut'[f][j].inc = sess[f].inc
      <4>1. tunOut'[f][i].inc = sess[f].inc \/ tunOut'[f][i].inc <= conns
        BY <1>1, <1>5 DEF InOrder
      <4> QED BY <1>1, <1>4, <3>2, <4>1
    <3> QED BY <1>5, <3>1, <3>2
  <2>4. ASSUME Asked(f)', NEW i \in 1 .. Len(tunOut'[f])
        PROVE  client'[f].inc <= tunOut'[f][i].inc
    <3>1. Asked(f) /\ client[f] \in Bearers(f) /\ client'[f].inc = client[f].inc
      BY <2>4 DEF Utters, Bearers
    <3>2. client[f].inc <= conns
      BY <3>1 DEF InOrder
    <3> QED BY <1>4, <1>5, <3>1, <3>2 DEF InOrder
  <2> QED BY <2>1, <2>2, <2>3, <2>4 DEF InOrder
<1>8. OneIsn(f)'
  BY <1>6 DEF OneIsn
<1> QED BY <1>7, <1>8

\* A new session has a number above all others'.
LEMMA ReplaceLined ==
  ASSUME Owned, NEW f \in Flows, InOrder(f), OneIsn(f),
         NEW fd, NEW isn, sess'[f] = NewSession(f, fd, isn), Open(f)',
         server'[f].conns = server[f].conns + 1,
         client'[f] = client[f], tunOut'[f] = tunOut[f]
  PROVE  InOrder(f)' /\ OneIsn(f)'
<1>1. /\ server[f].conns \in Nat
      /\ \A x \in Bearers(f) : x.inc \in Nat /\ x.inc <= server[f].conns
  BY BearersTyped DEF InOrder
<1>2. sess'[f].inc = server[f].conns + 1
  BY DEF NewSession
<1>3. \A x \in Bearers(f)' : x \in Bearers(f) \/ x = sess'[f]
  BY DEF Bearers, Asked
<1>4. InOrder(f)'
  BY <1>1, <1>2, <1>3 DEF InOrder, Asked
<1>5. \A x \in Bearers(f) : x.inc # sess'[f].inc
  BY <1>1, <1>2
<1>6. OneIsn(f)'
  BY <1>3, <1>5 DEF OneIsn
<1> QED BY <1>4, <1>6

\* The client takes the first segment: the SYN-ACK it waits for, or another.
LEMMA ReceiveLined ==
  ASSUME Owned, NEW f \in Flows, InOrder(f), OneIsn(f), tunOut[f] # <<>>,
         tunOut'[f] = Tail(tunOut[f]), sess'[f] = sess[f], server'[f] = server[f],
         LET m == Head(tunOut[f]) IN
           \/ /\ ~Asked(f) /\ client'[f].inc = m.inc /\ client'[f].isn = m.isn
           \/ /\ client'[f].inc = client[f].inc /\ client'[f].isn = client[f].isn
              /\ Asked(f)' = Asked(f)
  PROVE  InOrder(f)' /\ OneIsn(f)'
<1> DEFINE n == Len(tunOut[f])
           m == Head(tunOut[f])
<1>1. /\ tunOut[f] \in Seq(Segments) /\ n \in Nat
      /\ \A x \in Bearers(f) : x.inc \in Nat
      /\ \A i \in 1 .. n : tunOut[f][i] \in Bearers(f)
  BY BearersTyped DEF Owned, Core, Typed
<1>2. /\ m = tunOut[f][1] /\ 1 \in 1 .. n
      /\ DOMAIN tunOut'[f] = 1 .. Len(tunOut'[f])
      /\ \A i \in 1 .. Len(tunOut'[f]) :
           i + 1 \in 1 .. n /\ 1 < i + 1 /\ tunOut'[f][i] = tunOut[f][i + 1]
  BY <1>1
<1> HIDE DEF n, m
<1>3. \A x \in ToSet(tunOut'[f]) : x \in Bearers(f)
  BY <1>1, <1>2 DEF ToSet
<1>4. Open(f)' = Open(f) /\ (Open(f) => sess[f] \in Bearers(f))
  BY DEF Open, Bearers
<1>5. m \in Bearers(f)
  BY <1>1, <1>2
<1>6. \A x \in Bearers(f)' : \E y \in Bearers(f) : x.inc = y.inc /\ x.isn = y.isn
  <2>1. Asked(f)' => \E y \in Bearers(f) : client'[f].inc = y.inc /\ client'[f].isn = y.isn
    BY <1>5 DEF Bearers, m
  <2> QED BY <1>3, <1>4, <2>1 DEF Bearers
<1>7. InOrder(f)'
  <2>1. ASSUME NEW i \in 1 .. Len(tunOut'[f]), NEW j \in 1 .. Len(tunOut'[f]), i < j
        PROVE  tunOut'[f][i].inc <= tunOut'[f][j].inc
    <3>1. i + 1 < j + 1
      BY <2>1
    <3> QED BY <1>2, <3>1 DEF InOrder, n
  <2>2. ASSUME Asked(f)', NEW i \in 1 .. Len(tunOut'[f])
        PROVE  client'[f].inc <= tunOut'[f][i].inc
    <3>1. CASE client'[f].inc = client[f].inc /\ Asked(f)
      BY <1>2, <3>1 DEF InOrder, n
    <3>2. CASE client'[f].inc = m.inc
      BY <1>2, <3>2 DEF InOrder, n
    <3> QED BY <2>2, <3>1, <3>2 DEF m
  <2>3. \A x \in Bearers(f)' : x.inc <= server'[f].conns
    BY <1>6 DEF InOrder
  <2> QED BY <1>4, <2>1, <2>2, <2>3 DEF InOrder
<1>8. OneIsn(f)'
  BY <1>6 DEF OneIsn
<1> QED BY <1>7, <1>8

\* All that is on its way to a client of the latest session is that session's.
LEMMA Recognised ==
  ASSUME Owned, NEW f \in Flows, InOrder(f), OneIsn(f), Current(f), NEW m \in ToSet(tunOut[f])
  PROVE  m.inc = client[f].inc /\ m.isn = client[f].isn
<1>1. PICK i \in 1 .. Len(tunOut[f]) : m = tunOut[f][i]
  BY BearersTyped DEF ToSet
<1>2. /\ m \in Bearers(f) /\ client[f] \in Bearers(f)
      /\ m.inc \in Nat /\ client[f].inc \in Nat /\ server[f].conns \in Nat
  BY <1>1, BearersTyped DEF Bearers, Current
<1>3. client[f].inc <= m.inc /\ m.inc <= server[f].conns
  BY <1>1, <1>2 DEF InOrder, Current
<1>4. m.inc = client[f].inc
  BY <1>2, <1>3 DEF Current
<1> QED BY <1>2, <1>4 DEF OneIsn

\* A handler that writes what its session says.
LEMMA WritesUtters ==
  ASSUME Owned, NEW f \in Flows, Open(f), client' = client,
         NEW ms \in Seq(Segments), Write(f, ms),
         \A i \in 1 .. Len(ms) : ms[i].inc = sess[f].inc /\ ms[i].isn = sess[f].isn,
         \A g \in Flows : server'[g].conns = server[g].conns,
         \A g \in Flows \ {f} : sess'[g] = sess[g],
         \/ sess'[f] = None
         \/ sess'[f].inc = sess[f].inc /\ sess'[f].isn = sess[f].isn
  PROVE  \A g \in Flows : Utters(g)
<1>1. tunOut \in [Flows -> Seq(Segments)]
  BY DEF Owned, Core, Typed
<1>2. tunOut'[f] = tunOut[f] \o ms /\ \A g \in Flows \ {f} : tunOut'[g] = tunOut[g]
  BY <1>1 DEF Write
<1>3. Utters(f)
  <2>1. \E w \in Seq(Segments) :
          /\ tunOut'[f] = tunOut[f] \o w
          /\ \A i \in 1 .. Len(w) : w[i].inc = sess[f].inc /\ w[i].isn = sess[f].isn
    BY <1>2
  <2>2. Open(f)' => sess'[f].inc = sess[f].inc /\ sess'[f].isn = sess[f].isn
    BY DEF Open
  <2>3. Asked(f)' = Asked(f)
    BY DEF Asked
  <2>4. client'[f].inc = client[f].inc /\ client'[f].isn = client[f].isn
    OBVIOUS
  <2>5. server'[f].conns = server[f].conns
    OBVIOUS
  <2> QED BY <2>1, <2>2, <2>3, <2>4, <2>5, Zenon DEF Utters
<1>4. ASSUME NEW g \in Flows \ {f} PROVE Utters(g)
  BY <1>2 DEF Utters, Asked, Open
<1> QED BY <1>3, <1>4

\* One that writes nothing.
LEMMA QuietUtters ==
  ASSUME client' = client, tunOut' = tunOut,
         \A g \in Flows : /\ server'[g].conns = server[g].conns
                          /\ Open(g)' => /\ Open(g) /\ sess'[g].inc = sess[g].inc
                                         /\ sess'[g].isn = sess[g].isn
  PROVE  \A g \in Flows : Utters(g)
BY DEF Utters, Asked

\* The sessions a handler makes of the one it finds have its number, and so have
\* the segments made of them.
LEMMA SameNumber ==
  ASSUME NEW s \in Sessions, NEW p, p.seq \in Nat, NEW n \in Nat
  PROVE  /\ AfterData(s, p) \in Sessions
         /\ AfterData(s, p).inc = s.inc /\ AfterData(s, p).isn = s.isn
         /\ AfterFin(s, p) \in Sessions
         /\ AfterFin(s, p).inc = s.inc /\ AfterFin(s, p).isn = s.isn
         /\ AfterFin(s, p).state = s.state
         /\ Advanced(s, n) \in Sessions
         /\ Advanced(s, n).inc = s.inc /\ Advanced(s, n).isn = s.isn
<1>1. p.seq + 1 \in Nat /\ s.ourSeq + n \in Nat
  BY DEF Sessions
<1>2. /\ [s EXCEPT !.clientSeq = p.seq + 1] \in Sessions
      /\ [s EXCEPT !.clientSeq = p.seq + 1].inc = s.inc
      /\ [s EXCEPT !.clientSeq = p.seq + 1].isn = s.isn
      /\ [s EXCEPT !.clientSeq = p.seq + 1].state = s.state
  BY <1>1 DEF Sessions
<1>3. /\ [s EXCEPT !.ourSeq = @ + n] \in Sessions
      /\ [s EXCEPT !.ourSeq = @ + n].inc = s.inc /\ [s EXCEPT !.ourSeq = @ + n].isn = s.isn
  BY <1>1 DEF Sessions
<1> QED BY <1>2, <1>3 DEF AfterData, AfterFin, Advanced

LEMMA SegmentNumber ==
  ASSUME NEW s, NEW kind, NEW byte
  PROVE  Segment(s, kind, byte).inc = s.inc /\ Segment(s, kind, byte).isn = s.isn
BY DEF Segment

\* A sequence of segments made of some.
LEMMA SaysAll ==
  ASSUME NEW S, NEW a \in S, NEW b \in S, NEW c \in S
  PROVE  /\ <<a>> \in Seq(S) /\ \A i \in 1 .. Len(<<a>>) : <<a>>[i] \in {a}
         /\ <<>> \o <<a, b>> \in Seq(S)
         /\ \A i \in 1 .. Len(<<>> \o <<a, b>>) : (<<>> \o <<a, b>>)[i] \in {a, b}
         /\ <<a>> \o <<>> \in Seq(S) /\ \A i \in 1 .. Len(<<a>> \o <<>>) : (<<a>> \o <<>>)[i] \in {a}
         /\ <<a>> \o <<b>> \in Seq(S)
         /\ \A i \in 1 .. Len(<<a>> \o <<b>>) : (<<a>> \o <<b>>)[i] \in {a, b}
         /\ <<a>> \o <<b, c>> \in Seq(S)
         /\ \A i \in 1 .. Len(<<a>> \o <<b, c>>) : (<<a>> \o <<b, c>>)[i] \in {a, b, c}
<1>1. <<a>> \in Seq(S) /\ \A i \in 1 .. Len(<<a>>) : <<a>>[i] \in {a}
  OBVIOUS
<1>2. <<b>> \in Seq(S) /\ \A i \in 1 .. Len(<<b>>) : <<b>>[i] \in {b}
  OBVIOUS
<1>3. ASSUME NEW x \in S, NEW y \in S
      PROVE  <<x, y>> \in Seq(S) /\ \A i \in 1 .. Len(<<x, y>>) : <<x, y>>[i] \in {x, y}
  <2>1. <<x, y>> \in Seq(S) /\ Len(<<x, y>>) = 2 /\ <<x, y>>[1] = x /\ <<x, y>>[2] = y
    OBVIOUS
  <2>2. \A i \in 1 .. 2 : i = 1 \/ i = 2
    OBVIOUS
  <2> QED BY <2>1, <2>2
<1>4. <<>> \in Seq(S) /\ \A i \in 1 .. Len(<<>>) : FALSE
  OBVIOUS
<1>5. ASSUME NEW q \in Seq(S), NEW r \in Seq(S), NEW Q, NEW R,
             \A i \in 1 .. Len(q) : q[i] \in Q, \A i \in 1 .. Len(r) : r[i] \in R
      PROVE  q \o r \in Seq(S) /\ \A i \in 1 .. Len(q \o r) : (q \o r)[i] \in Q \cup R
  <2>1. /\ q \o r \in Seq(S)
        /\ \A i \in 1 .. Len(q \o r) :
             \/ i \in 1 .. Len(q) /\ (q \o r)[i] = q[i]
             \/ i - Len(q) \in 1 .. Len(r) /\ (q \o r)[i] = r[i - Len(q)]
    OBVIOUS
  <2>2. ASSUME NEW i \in 1 .. Len(q \o r) PROVE (q \o r)[i] \in Q \cup R
    <3>1. CASE i \in 1 .. Len(q) /\ (q \o r)[i] = q[i]
      BY <1>5, <3>1
    <3>2. CASE i - Len(q) \in 1 .. Len(r) /\ (q \o r)[i] = r[i - Len(q)]
      BY <1>5, <3>2
    <3> QED BY <2>1, <3>1, <3>2
  <2> QED BY <2>1, <2>2
<1>6. <<b, c>> \in Seq(S) /\ \A i \in 1 .. Len(<<b, c>>) : <<b, c>>[i] \in {b, c}
  BY <1>3
<1>7. <<a, b>> \in Seq(S) /\ \A i \in 1 .. Len(<<a, b>>) : <<a, b>>[i] \in {a, b}
  BY <1>3
<1> DEFINE all(q, Q) == q \in Seq(S) /\ \A i \in 1 .. Len(q) : q[i] \in Q
<1>8. all(<<a>>, {a}) /\ all(<<b>>, {b}) /\ all(<<a, b>>, {a, b}) /\ all(<<b, c>>, {b, c})
      /\ all(<<>>, {})
  BY <1>1, <1>2, <1>4, <1>6, <1>7
<1>9. \A q, r, Q, R : all(q, Q) /\ all(r, R) => all(q \o r, Q \cup R)
  BY <1>5
<1> HIDE DEF all
<1>10. /\ all(<<>> \o <<a, b>>, {} \cup {a, b}) /\ all(<<a>> \o <<>>, {a} \cup {})
       /\ all(<<a>> \o <<b>>, {a} \cup {b}) /\ all(<<a>> \o <<b, c>>, {a} \cup {b, c})
  BY <1>8, <1>9
<1>11. {} \cup {a, b} = {a, b} /\ {a} \cup {} = {a} /\ {a} \cup {b} = {a, b}
       /\ {a} \cup {b, c} = {a, b, c}
  OBVIOUS
<1> QED BY <1>1, <1>10, <1>11 DEF all

\* What a client makes of a segment, as far as numbers go.
LEMMA ReceivedNumber ==
  ASSUME NEW c \in Clients, NEW m \in Segments
  PROVE  LET r == Received(c, m) IN
         \/ c.st = "synSent" /\ r.inc = m.inc /\ r.isn = m.isn
         \/ /\ r.inc = c.inc /\ r.isn = c.isn
            /\ r.st = c.st \/ (c.st = "open" /\ r.st = "closed")
<1> DEFINE Rest(d) == d.inc = c.inc /\ d.isn = c.isn /\ d.st = c.st
<1>1. ASSUME NEW d \in Clients, Rest(d) PROVE Rest(Acked(d, m))
  BY <1>1 DEF Acked, Clients
<1>2. /\ [c EXCEPT !.got = Append(@, m.byte)] \in Clients
      /\ Rest([c EXCEPT !.got = Append(@, m.byte)])
  <2>1. Append(c.got, m.byte) \in Seq(Nat)
    BY DEF Clients, Segments
  <2> QED BY <2>1 DEF Clients
<1>3. [c EXCEPT !.gotFin = TRUE] \in Clients /\ Rest([c EXCEPT !.gotFin = TRUE])
  BY DEF Clients
<1>4. Rest(c)
  OBVIOUS
<1> HIDE DEF Rest
<1>5. CASE c.st = "synSent" /\ m.kind = "synAck"
  BY <1>5 DEF Received, Clients
<1>6. CASE ~(c.st = "synSent" /\ m.kind = "synAck")
  <2>1. \/ Received(c, m) = c
        \/ Received(c, m) = Acked([c EXCEPT !.got = Append(@, m.byte)], m)
        \/ Received(c, m) = Acked(c, m)
        \/ Received(c, m) = Acked([c EXCEPT !.gotFin = TRUE], m)
        \/ c.st = "open" /\ Received(c, m) = [c EXCEPT !.st = "closed"]
    BY <1>6 DEF Received
  <2>2. Rest(Received(c, m)) \/ (c.st = "open" /\ Received(c, m) = [c EXCEPT !.st = "closed"])
    BY <1>1, <1>2, <1>3, <1>4, <2>1
  <2>3. [c EXCEPT !.st = "closed"].inc = c.inc /\ [c EXCEPT !.st = "closed"].isn = c.isn
        /\ [c EXCEPT !.st = "closed"].st = "closed"
    BY DEF Clients
  <2> QED BY <2>2, <2>3 DEF Rest
<1> QED BY <1>5, <1>6

\* The handlers of data, of a FIN and of a socket's events.
LEMMA TunUtters ==
  ASSUME Owned, NEW f \in Flows, TunDataSent(f) \/ TunDataFailed(f) \/ TunFin(f)
  PROVE  \A g \in Flows : Utters(g)
<1> DEFINE p == Head(tunIn)
           s == sess[f]
           t == AfterFin(s, p)
           u == AfterData(s, p)
           a == Segment(AfterData(t, p), "ack", 0)
           b == Segment(t, "ack", 0)
           c == Segment(t, "fin", 0)
           d == Segment(u, "ack", 0)
           e == Segment(u, "rstAck", 0)
<1>1. PICK others, mail :
      /\ Typed(others, mail) /\ Foreign(others, mail)
      /\ sess \in [Flows -> Sessions \cup {None}] /\ server \in [Flows -> Servers]
  BY DEF Owned, Core, Typed
<1>2. /\ Open(f) /\ s \in Sessions /\ client' = client
      /\ \E kind \in {"data", "fin"} : FromTun(kind)
  BY <1>1 DEF TunDataSent, TunDataFailed, TunFin, Open
<1>3. p.seq \in Nat
  BY <1>1, <1>2, FromTunSound
<1>4. /\ t \in Sessions /\ t.inc = s.inc /\ t.isn = s.isn
      /\ u \in Sessions /\ u.inc = s.inc /\ u.isn = s.isn
  BY <1>2, <1>3, SameNumber
<1>5. AfterData(t, p) \in Sessions /\ AfterData(t, p).inc = s.inc /\ AfterData(t, p).isn = s.isn
  <2> HIDE DEF t, p
  <2> QED BY <1>3, <1>4, SameNumber
<1> HIDE DEF t, u
<1>6. \A m \in {a, b, c, d, e} : m \in Segments /\ m.inc = s.inc /\ m.isn = s.isn
  BY <1>4, <1>5, SegmentTyped, SegmentNumber
<1>7. \A g \in Flows : server'[g].conns = server[g].conns
  <2>1. <<p.seq>> \in Seq(Nat)
    BY <1>3
  <2> QED BY <1>1, <2>1, DeliverTyped DEF TunDataSent, TunDataFailed, TunFin
<1>8. /\ \A g \in Flows \ {f} : sess'[g] = sess[g]
      /\ sess'[f] \in {None, u}
  BY <1>1 DEF TunDataSent, TunDataFailed, TunFin, TcpRemove, SetSession, u
<1>9. \E ms \in Seq(Segments) : Write(f, ms) /\ \A i \in 1 .. Len(ms) : ms[i] \in {a, b, c, d, e}
  <2>1. CASE TunDataSent(f)
    <3>1. Write(f, <<d>>)
      BY <2>1 DEF TunDataSent, u
    <3> HIDE DEF a, b, c, d, e
    <3>2. <<d>> \in Seq(Segments) /\ \A i \in 1 .. Len(<<d>>) : <<d>>[i] \in {d}
      BY <1>6, SaysAll
    <3> QED BY <3>1, <3>2
  <2>2. CASE TunDataFailed(f)
    <3>1. Write(f, <<e>>)
      BY <2>2 DEF TunDataFailed, u
    <3> HIDE DEF a, b, c, d, e
    <3>2. <<e>> \in Seq(Segments) /\ \A i \in 1 .. Len(<<e>>) : <<e>>[i] \in {e}
      BY <1>6, SaysAll
    <3> QED BY <3>1, <3>2
  <2>3. CASE TunFin(f)
    <3>1. Write(f, <<a>> \o <<b, c>>) \/ Write(f, <<>> \o <<b, c>>)
      BY <2>3 DEF TunFin, t
    <3> HIDE DEF a, b, c, d, e
    <3>2. /\ <<a>> \o <<b, c>> \in Seq(Segments)
          /\ \A i \in 1 .. Len(<<a>> \o <<b, c>>) : (<<a>> \o <<b, c>>)[i] \in {a, b, c}
          /\ <<>> \o <<b, c>> \in Seq(Segments)
          /\ \A i \in 1 .. Len(<<>> \o <<b, c>>) : (<<>> \o <<b, c>>)[i] \in {b, c}
      BY <1>6, SaysAll
    <3> QED BY <3>1, <3>2
  <2> QED BY <1>2, <2>1, <2>2, <2>3
<1> HIDE DEF a, b, c, d, e
<1>10. PICK ms \in Seq(Segments) :
         Write(f, ms) /\ \A i \in 1 .. Len(ms) : ms[i].inc = s.inc /\ ms[i].isn = s.isn
  BY <1>6, <1>9
<1>11. sess'[f] = None \/ (sess'[f].inc = s.inc /\ sess'[f].isn = s.isn)
  BY <1>4, <1>8
<1> QED BY <1>2, <1>7, <1>8, <1>10, <1>11, WritesUtters

LEMMA SocketUtters ==
  ASSUME Owned, NEW f \in Flows,
         \/ SocketConnected(f) \/ SocketRefused(f) \/ SocketEof(f) \/ SocketError(f)
         \/ \E n \in 1 .. MaxRead : SocketData(f, n)
  PROVE  \A g \in Flows : Utters(g)
<1> DEFINE s == sess[f]
<1>1. PICK others, mail :
      /\ Core(others, mail) /\ Typed(others, mail) /\ Foreign(others, mail)
      /\ sess \in [Flows -> Sessions \cup {None}] /\ server \in [Flows -> Servers]
  BY DEF Owned, Core, Typed
<1>2. FromSocket(f) /\ client' = client /\ tunIn' = tunIn
  BY DEF SocketConnected, SocketRefused, SocketEof, SocketError, SocketData, Reads
<1>3. Open(f) /\ s \in Sessions /\ sock[s.fd] \in Sockets
  BY <1>1, <1>2, FromSocketSound
<1>4. CASE SocketRefused(f) \/ SocketEof(f) \/ SocketError(f)
  <2>1. PICK kind \in {"rst", "fin"} : Write(f, <<Segment(s, kind, 0)>>)
    BY <1>4 DEF SocketRefused, SocketEof, SocketError
  <2> DEFINE m == Segment(s, kind, 0)
  <2>2. m \in Segments /\ m.inc = s.inc /\ m.isn = s.isn
    BY <1>3, SegmentTyped, SegmentNumber
  <2> HIDE DEF m
  <2>3. <<m>> \in Seq(Segments) /\ \A i \in 1 .. Len(<<m>>) : <<m>>[i] \in {m}
    BY <2>2, SaysAll
  <2>4. PICK ms \in Seq(Segments) :
          Write(f, ms) /\ \A i \in 1 .. Len(ms) : ms[i].inc = s.inc /\ ms[i].isn = s.isn
    BY <2>1, <2>2, <2>3 DEF m
  <2>5. server' = server /\ sess'[f] = None /\ \A g \in Flows \ {f} : sess'[g] = sess[g]
    BY <1>1, <1>4 DEF SocketRefused, SocketEof, SocketError, TcpRemove, SetSession
  <2> QED BY <1>2, <1>3, <2>4, <2>5, WritesUtters
<1>5. CASE SocketConnected(f)
  <2> DEFINE s1 == Advanced(s, 1)
             t == [s1 EXCEPT !.state = "established", !.pending = <<>>]
             a == Segment(s, "synAck", 0)
             b == Segment(s1, "ack", 0)
  <2>1. /\ Write(f, <<a>> \o <<b>>) \/ Write(f, <<a>> \o <<>>)
        /\ SetSession(f, t)
        /\ IF Accepts(sock[s.fd]) THEN Deliver(f, s.pending) ELSE UNCHANGED server
    BY <1>5 DEF SocketConnected
  <2>2. s1 \in Sessions /\ s1.inc = s.inc /\ s1.isn = s.isn
    <3>1. [seq |-> 0].seq \in Nat /\ 1 \in Nat
      OBVIOUS
    <3> QED BY <1>3, <3>1, SameNumber
  <2> HIDE DEF s1
  <2>3. t.inc = s.inc /\ t.isn = s.isn
    BY <2>2 DEF Sessions
  <2>4. \A m \in {a, b} : m \in Segments /\ m.inc = s.inc /\ m.isn = s.isn
    BY <1>3, <2>2, SegmentTyped, SegmentNumber
  <2> HIDE DEF a, b, t
  <2>5. /\ <<a>> \o <<b>> \in Seq(Segments)
        /\ \A i \in 1 .. Len(<<a>> \o <<b>>) : (<<a>> \o <<b>>)[i] \in {a, b}
        /\ <<a>> \o <<>> \in Seq(Segments)
        /\ \A i \in 1 .. Len(<<a>> \o <<>>) : (<<a>> \o <<>>)[i] \in {a}
    BY <2>4, SaysAll
  <2>6. PICK ms \in Seq(Segments) :
          Write(f, ms) /\ \A i \in 1 .. Len(ms) : ms[i].inc = s.inc /\ ms[i].isn = s.isn
    BY <2>1, <2>4, <2>5
  <2>7. sess'[f] = t /\ \A g \in Flows \ {f} : sess'[g] = sess[g]
    BY <1>1, <2>1 DEF SetSession
  <2>8. \A g \in Flows : server'[g].conns = server[g].conns
    <3>1. s.pending \in Seq(Nat)
      BY <1>3, TcpRelayConstants DEF Sessions
    <3> QED BY <1>1, <2>1, <3>1, DeliverTyped
  <2> QED BY <1>2, <1>3, <2>3, <2>6, <2>7, <2>8, WritesUtters
<1>6. ASSUME NEW n \in 1 .. MaxRead, SocketData(f, n) PROVE \A g \in Flows : Utters(g)
  <2> DEFINE bytes == SubSeq(sock[s.fd].rx, 1, n)
             ms == Chunks(s, bytes)
  <2>1. Write(f, ms) /\ SetSession(f, Advanced(s, n)) /\ server' = server /\ n <= Len(sock[s.fd].rx)
    BY <1>6 DEF SocketData
  <2>2. sock[s.fd].rx \in Seq(1 .. MaxDown) /\ n \in 0 .. Len(sock[s.fd].rx) /\ n \in Nat
    BY <1>3, <2>1, TcpRelayConstants DEF Sockets
  <2>3. DOMAIN bytes = 1 .. n /\ \A i \in 1 .. n : bytes[i] \in Nat
    <3> DEFINE S == 1 .. MaxDown
    <3>1. sock[s.fd].rx \in Seq(S) /\ S \subseteq Nat
      BY <2>2, TcpRelayConstants
    <3> HIDE DEF S
    <3>2. Len(bytes) = n /\ bytes \in Seq(S) /\ \A i \in 1 .. n : bytes[i] \in S
      BY <2>2, <3>1, CutInTwo
    <3>3. DOMAIN bytes = 1 .. n
      BY <3>2
    <3> QED BY <3>1, <3>2, <3>3
  <2> HIDE DEF bytes
  <2>4. \A k \in 0 .. n : /\ Advanced(s, k) \in Sessions
                          /\ Advanced(s, k).inc = s.inc /\ Advanced(s, k).isn = s.isn
    <3>1. [seq |-> 0].seq \in Nat /\ 0 .. n \subseteq Nat
      OBVIOUS
    <3> QED BY <1>3, <3>1, SameNumber
  <2>5. ASSUME NEW i \in 1 .. n
        PROVE  LET m == Segment(Advanced(s, i - 1), "data", bytes[i]) IN
               m \in Segments /\ m.inc = s.inc /\ m.isn = s.isn
    <3>1. i - 1 \in 0 .. n
      BY <2>2
    <3> QED BY <2>3, <2>4, <3>1, SegmentTyped, SegmentNumber
  <2>6. ms = [i \in 1 .. n |-> Segment(Advanced(s, i - 1), "data", bytes[i])]
    BY <2>3 DEF Chunks
  <2> HIDE DEF ms
  <2>7. /\ ms \in Seq(Segments)
        /\ \A i \in 1 .. Len(ms) : ms[i].inc = s.inc /\ ms[i].isn = s.isn
    BY <2>2, <2>5, <2>6
  <2>8. sess'[f] = Advanced(s, n) /\ \A g \in Flows \ {f} : sess'[g] = sess[g]
    BY <1>1, <2>1 DEF SetSession
  <2>9. sess'[f].inc = s.inc /\ sess'[f].isn = s.isn
    BY <2>2, <2>4, <2>8
  <2> QED BY <1>2, <1>3, <2>1, <2>7, <2>8, <2>9, WritesUtters
<1> QED BY <1>4, <1>5, <1>6

\* One step keeps the numbers in line.
LEMMA NextLined ==
  ASSUME Owned, Owned', Lined, [Next]_vars
  PROVE  Lined'
<1>1. PICK others, mail :
      /\ Typed(others, mail) /\ Foreign(others, mail)
      /\ sess \in [Flows -> Sessions \cup {None}] /\ server \in [Flows -> Servers]
      /\ client \in [Flows -> Clients] /\ tunOut \in [Flows -> Seq(Segments)]
  BY DEF Owned, Core, Typed
<1>2. (\A g \in Flows : Utters(g)) => Lined'
  BY UttersLined DEF Lined
<1>3. ASSUME NEW f \in Flows, Client(f) PROVE \A g \in Flows : Utters(g)
  <2>1. UNCHANGED <<sess, server, tunOut>>
    BY <1>3 DEF Client, ClientSyn, ClientData, ClientFin, ClientRetransmit, ClientAbort
  <2>2. \A g \in Flows \ {f} : client'[g] = client[g]
    BY <1>1, <1>3 DEF Client, ClientSyn, ClientData, ClientFin, ClientRetransmit, ClientAbort
  <2>3. client'[f].inc = client[f].inc /\ client'[f].isn = client[f].isn /\ Asked(f)' = Asked(f)
    <3>1. client[f] \in Clients
      BY <1>1
    <3>2. CASE ClientSyn(f)
      BY <1>1, <3>1, <3>2 DEF ClientSyn, Clients, Asked
    <3>3. CASE \E fin \in BOOLEAN : ClientData(f, fin)
      BY <1>1, <3>1, <3>3 DEF ClientData, Clients, Asked
    <3>4. CASE ClientFin(f) \/ ClientRetransmit(f)
      BY <1>1, <3>1, <3>4 DEF ClientFin, ClientRetransmit, Clients, Asked
    <3>5. CASE ClientAbort(f)
      BY <1>1, <3>1, <3>5 DEF ClientAbort, Clients, Asked
    <3> QED BY <1>3, <3>2, <3>3, <3>4, <3>5 DEF Client
  <2>4. ASSUME NEW g \in Flows \ {f} PROVE Utters(g)
    <3>1. client'[g] = client[g]
      BY <2>2
    <3>2. Asked(g)' = Asked(g)
      BY <3>1 DEF Asked
    <3> QED BY <2>1, <3>1, <3>2 DEF Utters, Open
  <2>5. Utters(f)
    BY <2>1, <2>3 DEF Utters, Open
  <2> QED BY <2>4, <2>5
<1>4. ASSUME NEW f \in Flows, ClientReceive(f) PROVE Lined'
  <2> DEFINE c == client[f]
             m == Head(tunOut[f])
  <2>1. /\ tunOut[f] # <<>> /\ UNCHANGED <<sess, server>>
        /\ client'[f] = Received(c, m) /\ tunOut'[f] = Tail(tunOut[f])
        /\ \A g \in Flows \ {f} : client'[g] = client[g] /\ tunOut'[g] = tunOut[g]
    BY <1>1, <1>4 DEF ClientReceive
  <2>2. c \in Clients /\ m \in Segments
    BY <1>1, <2>1
  <2> HIDE DEF c, m
  <2>3. \/ c.st = "synSent" /\ Received(c, m).inc = m.inc /\ Received(c, m).isn = m.isn
        \/ /\ Received(c, m).inc = c.inc /\ Received(c, m).isn = c.isn
           /\ Received(c, m).st = c.st \/ (c.st = "open" /\ Received(c, m).st = "closed")
    BY <2>2, ReceivedNumber
  <2>4. InOrder(f)' /\ OneIsn(f)'
    <3>1. \/ /\ ~Asked(f) /\ client'[f].inc = m.inc /\ client'[f].isn = m.isn
          \/ /\ client'[f].inc = client[f].inc /\ client'[f].isn = client[f].isn
             /\ Asked(f)' = Asked(f)
      BY <2>1, <2>3 DEF Asked, c
    <3> QED BY <2>1, <3>1, ReceiveLined DEF Lined, m
  <2>5. ASSUME NEW g \in Flows \ {f} PROVE Utters(g)
    BY <2>1 DEF Utters, Asked, Open
  <2> QED BY <2>4, <2>5, UttersLined DEF Lined
<1>5. CASE \/ EpollWait \/ SocketNoSession \/ UNCHANGED vars
           \/ \E fd \in Fds : Network(fd)
  <2>1. UNCHANGED <<sess, tunOut, client>>
    BY <1>5 DEF EpollWait, SocketNoSession, vars, Network, ConnectEnds, ServerSends, ServerCloses,
       ServerResets
  <2>2. \A g \in Flows : server'[g].conns = server[g].conns
    <3>1. ASSUME NEW fd \in Fds, ServerSends(fd) PROVE \A g \in Flows : server'[g].conns = server[g].conns
      <4> DEFINE n == server[sock[fd].flow].sent + 1
      <4>1. \A g \in Flows : server'[g] = server[g] \/ server'[g] = [server[g] EXCEPT !.sent = n]
        BY <1>1, <3>1 DEF ServerSends
      <4> HIDE DEF n
      <4> QED BY <1>1, <4>1 DEF Servers
    <3> QED BY <1>5, <3>1 DEF EpollWait, SocketNoSession, vars, Network, ConnectEnds,
            ServerCloses, ServerResets
  <2> QED BY <1>2, <2>1, <2>2, QuietUtters DEF Open
<1>6. ASSUME NEW f \in Flows, Handle(f) PROVE Lined'
  <2>1. CASE \/ TunNoSession(f) \/ TunRst(f) \/ SocketNotReadable(f) \/ SocketAgain(f)
             \/ (TunSyn(f) /\ TcpRemove(f) /\ UNCHANGED server)
    <3>1. UNCHANGED <<tunOut, client, server>>
      BY <2>1 DEF TunNoSession, TunRst, SocketNotReadable, SocketAgain, TunSyn
    <3>2. \A g \in Flows : sess'[g] = sess[g] \/ sess'[g] = None
      BY <1>1, <2>1 DEF TunNoSession, TunRst, SocketNotReadable, SocketAgain, TunSyn, TcpRemove,
         SetSession
    <3> QED BY <1>2, <3>1, <3>2, QuietUtters DEF Open
  <2>2. CASE TunDataPending(f)
    <3> DEFINE p == Head(tunIn)
               t == [sess[f] EXCEPT !.clientSeq = p.seq + 1, !.pending = Kept(sess[f], p)]
    <3>1. /\ Open(f) /\ SetSession(f, t) /\ UNCHANGED <<tunOut, client, server>>
          /\ sess[f] \in Sessions
      BY <1>1, <2>2 DEF TunDataPending, Open
    <3>2. t.inc = sess[f].inc /\ t.isn = sess[f].isn
      BY <3>1 DEF Sessions
    <3> HIDE DEF t
    <3>3. sess'[f] = t /\ \A g \in Flows \ {f} : sess'[g] = sess[g]
      BY <1>1, <3>1 DEF SetSession
    <3> QED BY <1>2, <3>1, <3>2, <3>3, QuietUtters DEF Open
  <2>3. CASE TunDataSent(f) \/ TunDataFailed(f) \/ TunFin(f)
    BY <1>2, <2>3, TunUtters
  <2>4. CASE \/ SocketConnected(f) \/ SocketRefused(f) \/ SocketEof(f) \/ SocketError(f)
             \/ \E n \in 1 .. MaxRead : SocketData(f, n)
    BY <1>2, <2>4, SocketUtters
  <2>5. ASSUME TunSyn(f), NEW fd \in Fds, NEW isn \in Isns,
               SetSession(f, NewSession(f, fd, isn)),
               server' = [server EXCEPT ![f] = NewServer(@.conns + 1)]
        PROVE  Lined'
    <3>1. UNCHANGED <<tunOut, client>>
      BY <2>5 DEF TunSyn
    <3>2. /\ sess'[f] = NewSession(f, fd, isn)
          /\ \A g \in Flows \ {f} : sess'[g] = sess[g]
          /\ server'[f] = NewServer(server[f].conns + 1)
          /\ \A g \in Flows \ {f} : server'[g] = server[g]
      BY <1>1, <2>5 DEF SetSession
    <3>3. server'[f].conns = server[f].conns + 1
      BY <3>2 DEF NewServer
    <3>4. InOrder(f)' /\ OneIsn(f)'
      <4>1. CASE Open(f)'
        BY <3>1, <3>2, <3>3, <4>1, ReplaceLined DEF Lined
      <4>2. CASE ~Open(f)'
        <5>1. sess'[f].inc = server[f].conns + 1 /\ server[f].conns \in Nat
          BY <3>2, BearersTyped DEF NewSession
        <5>2. Bearers(f)' \subseteq Bearers(f)
          BY <3>1, <4>2 DEF Bearers, Asked
        <5>3. \A x \in Bearers(f) : x.inc \in Nat /\ x.inc <= server[f].conns
          BY BearersTyped DEF Lined, InOrder
        <5> QED BY <3>1, <3>3, <4>2, <5>1, <5>2, <5>3 DEF Lined, InOrder, OneIsn, Asked
      <4> QED BY <4>1, <4>2
    <3>5. ASSUME NEW g \in Flows \ {f} PROVE Utters(g)
      BY <3>1, <3>2 DEF Utters, Asked, Open
    <3> QED BY <3>4, <3>5, UttersLined DEF Lined
  <2> QED BY <1>6, <2>1, <2>2, <2>3, <2>4, <2>5 DEF Handle, TunSyn
<1>7. ASSUME NEW f \in Flows, Expire(f) PROVE \A g \in Flows : Utters(g)
  <2>1. UNCHANGED <<tunOut, client, server>>
    BY <1>7 DEF Expire
  <2>2. \A g \in Flows : sess'[g] = sess[g] \/ sess'[g] = None
    BY <1>1, <1>7 DEF Expire, TcpRemove, SetSession
  <2> QED BY <2>1, <2>2, QuietUtters DEF Open
<1> QED BY <1>2, <1>3, <1>4, <1>5, <1>6, <1>7 DEF Next, Environment, Engine

-----------------------------------------------------------------------------
(***************************************************************************)
(* "ACK the received data".  The engine acknowledges the segment that came *)
(* last whether or not those before it did, so an ACK is true only because *)
(* of the order in which segments wait in the tunnel: ahead of one that    *)
(* carries a byte is one for every byte before it that the server has not  *)
(* got.  That holds of a flow as long as its session is the one its client *)
(* took the SYN-ACK of; of an earlier one the client is not Current.       *)
(***************************************************************************)

\* The byte was given to send().
Has(f, k) == k \in ToSet(server[f].got) \cup server[f].lost

\* All that an acknowledgement of this number says is so, and will be.
Truthful(f, n) ==
  /\ n <= client[f].sent + 1 \/ client[f].fin
  /\ \A k \in 1 .. client[f].sent : k < n => Has(f, k)

\* The server has the byte, or one of the first n packets in the tunnel carries it.
Expected(f, k, n) ==
  \/ Has(f, k)
  \/ \E i \in 1 .. n : tunIn[i].flow = f /\ tunIn[i].kind = "data" /\ tunIn[i].seq = k

Unasked(f) ==
  ~Asked(f) =>
    /\ client[f].sent = 0 /\ client[f].acked = 0
    /\ \A i \in 1 .. Len(tunIn) : tunIn[i].flow = f => tunIn[i].kind = "syn"
    /\ Open(f) => sess[f].clientSeq = 1
    /\ \A m \in ToSet(tunOut[f]) : m.ack = 1

Numbered(f) ==
  /\ client[f].inc <= server[f].conns
  /\ Open(f) => sess[f].inc = server[f].conns
  /\ \A m \in ToSet(tunOut[f]) : m.inc <= server[f].conns
  /\ \A m \in ToSet(tunOut[f]) :
       Open(f) /\ m.kind = "synAck" /\ m.inc = server[f].conns => sess[f].state = "established"

\* A reset is no acknowledgement: the client only closes on it.
Told(f) ==
  Current(f) =>
    /\ Truthful(f, client[f].acked + 1)
    /\ \A m \in ToSet(tunOut[f]) :
         m.kind \notin {"rst", "rstAck"} /\ m.inc = server[f].conns => Truthful(f, m.ack)

Coming(f) ==
  Current(f) /\ Open(f) =>
    /\ sess[f].state = "established"
    /\ Truthful(f, sess[f].clientSeq)
    /\ \A k \in 1 .. client[f].sent : Expected(f, k, Len(tunIn))
    /\ \A i \in 1 .. Len(tunIn) : tunIn[i].flow = f /\ tunIn[i].kind \in {"data", "fin"} =>
         /\ tunIn[i].kind = "data" => tunIn[i].seq <= client[f].sent
         /\ tunIn[i].kind = "fin" => client[f].fin /\ tunIn[i].seq = client[f].sent + 1
         /\ \A k \in 1 .. client[f].sent : k < tunIn[i].seq => Expected(f, k, i - 1)

Honest(f) == Unasked(f) /\ Numbered(f) /\ Told(f) /\ Coming(f)

AckInv == Owned /\ Lined /\ \A f \in Flows : Honest(f)

\* What a step of the engine may do to a flow whose connection stays: send
\* truthful segments, take a packet the server then has the byte of, or end the
\* session.
Keeps(f) ==
  /\ client'[f] = client[f]
  /\ server'[f].conns = server[f].conns
  /\ \A k \in 1 .. client[f].sent : Has(f, k) => Has(f, k)'
  /\ \/ tunIn' = tunIn
     \/ /\ tunIn # <<>> /\ tunIn' = Tail(tunIn)
        /\ \/ Head(tunIn).flow # f
           \/ ~Open(f)'
           \/ Head(tunIn).kind = "data" => \E b : Head(tunIn).seq = b /\ Has(f, b)'
  /\ \A m \in ToSet(tunOut'[f]) :
       \/ m \in ToSet(tunOut[f])
       \/ /\ m.inc = server[f].conns
          /\ ~Asked(f) => m.ack = 1
          /\ Current(f) /\ m.kind \notin {"rst", "rstAck"} => Truthful(f, m.ack)'
          /\ Open(f)' /\ m.kind = "synAck" => sess'[f].state = "established"
  /\ Open(f)' =>
       /\ Open(f) /\ sess'[f].inc = sess[f].inc
       /\ sess'[f].state \in {sess[f].state, "established"}
       /\ ~Asked(f) => sess'[f].clientSeq = 1
       /\ Current(f) => Truthful(f, sess[f].clientSeq)'

\* A packet of the tunnel, and where it is after the first was taken.
LEMMA TakenAhead ==
  ASSUME NEW S, tunIn \in Seq(S), tunIn # <<>>, tunIn' = Tail(tunIn)
  PROVE  /\ Len(tunIn) \in Nat /\ Len(tunIn') = Len(tunIn) - 1
         /\ 1 \in 1 .. Len(tunIn) /\ Head(tunIn) = tunIn[1]
         /\ \A i \in 1 .. Len(tunIn') :
              tunIn'[i] = tunIn[i + 1] /\ i + 1 \in 1 .. Len(tunIn) /\ (i + 1) - 1 = i
         /\ \A i \in 2 .. Len(tunIn) : i - 1 \in 1 .. Len(tunIn') /\ tunIn'[i - 1] = tunIn[i]
OBVIOUS

\* A byte expected is still expected when the packet ahead is taken.
LEMMA ExpectedAhead ==
  ASSUME NEW S, tunIn \in Seq(S), tunIn # <<>>, tunIn' = Tail(tunIn),
         NEW f \in Flows, NEW k, Has(f, k) => Has(f, k)',
         \/ Head(tunIn).flow # f
         \/ Head(tunIn).kind = "data" => \E b : Head(tunIn).seq = b /\ Has(f, b)',
         NEW n \in 1 .. Len(tunIn), Expected(f, k, n)
  PROVE  Expected(f, k, n - 1)'
<1>1. CASE Has(f, k)
  BY <1>1 DEF Expected
<1>2. ASSUME NEW i \in 1 .. n, tunIn[i].flow = f, tunIn[i].kind = "data", tunIn[i].seq = k
      PROVE  Expected(f, k, n - 1)'
  <2>1. CASE i = 1
    <3>1. Head(tunIn) = tunIn[i]
      BY <2>1, TakenAhead
    <3>2. Has(f, k)'
      BY <1>2, <3>1
    <3> QED BY <3>2 DEF Expected
  <2>2. CASE i # 1
    <3>1. i - 1 \in 1 .. n - 1 /\ tunIn'[i - 1] = tunIn[i]
      BY <2>2, TakenAhead
    <3> QED BY <1>2, <3>1 DEF Expected
  <2> QED BY <2>1, <2>2
<1> QED BY <1>1, <1>2 DEF Expected

\* A step that keeps a flow preserves what is said of it.
LEMMA KeepsSound ==
  ASSUME Owned, NEW f \in Flows, Honest(f), Keeps(f)
  PROVE  Honest(f)'
<1> DEFINE n == Len(tunIn)
           ahead == tunIn # <<>> /\ tunIn' = Tail(tunIn)
<1>1. /\ client[f] \in Clients /\ server[f] \in Servers /\ tunIn \in Seq(Letters)
      /\ tunOut[f] \in Seq(Segments) /\ Open(f) => sess[f] \in Sessions
  BY LettersSound DEF Owned, Core, Typed, Open
<1>2. /\ client'[f] = client[f] /\ Asked(f)' = Asked(f) /\ Current(f)' = Current(f)
      /\ server'[f].conns = server[f].conns
  BY DEF Keeps, Asked, Current
<1>3. ASSUME NEW a, Truthful(f, a) PROVE Truthful(f, a)'
  BY <1>2, <1>3 DEF Keeps, Truthful
<1>4. tunIn' = tunIn \/ ahead
  BY DEF Keeps
<1>5. \A i \in 1 .. Len(tunIn') : \/ tunIn' = tunIn /\ i \in 1 .. n
                                  \/ ahead /\ i + 1 \in 1 .. n /\ tunIn'[i] = tunIn[i + 1]
  BY <1>1, <1>4, TakenAhead
<1>6. Unasked(f)'
  <2>1. \A i \in 1 .. Len(tunIn') : \E j \in 1 .. n : tunIn'[i] = tunIn[j]
    BY <1>5
  <2>2. ASSUME ~Asked(f), NEW i \in 1 .. Len(tunIn'), tunIn'[i].flow = f
        PROVE  tunIn'[i].kind = "syn"
    BY <2>1, <2>2 DEF Honest, Unasked
  <2>3. ASSUME ~Asked(f), NEW m \in ToSet(tunOut'[f]) PROVE m.ack = 1
    BY <2>3 DEF Honest, Unasked, Keeps
  <2>4. ASSUME ~Asked(f), Open(f)' PROVE sess'[f].clientSeq = 1
    BY <2>4 DEF Keeps
  <2> QED BY <1>2, <2>2, <2>3, <2>4 DEF Honest, Unasked
<1>7. Numbered(f)'
  <2>1. ASSUME Open(f)' PROVE Open(f) /\ sess'[f].inc = server[f].conns
    BY <2>1 DEF Honest, Numbered, Keeps
  <2>2. ASSUME NEW m \in ToSet(tunOut'[f]) PROVE m.inc <= server[f].conns
    BY <1>1, <2>2 DEF Honest, Numbered, Keeps, Servers
  <2>3. ASSUME NEW m \in ToSet(tunOut'[f]), Open(f)', m.kind = "synAck", m.inc = server[f].conns
        PROVE  sess'[f].state = "established"
    BY <2>3 DEF Honest, Numbered, Keeps
  <2> QED BY <1>2, <2>1, <2>2, <2>3 DEF Honest, Numbered
<1>8. Told(f)'
  <2>1. ASSUME Current(f) PROVE Truthful(f, client[f].acked + 1)'
    BY <1>2, <1>3, <2>1 DEF Honest, Told
  <2>2. ASSUME Current(f), NEW m \in ToSet(tunOut'[f]), m.kind \notin {"rst", "rstAck"},
               m.inc = server[f].conns
        PROVE  Truthful(f, m.ack)'
    BY <1>3, <2>2 DEF Honest, Told, Keeps
  <2> QED BY <1>2, <2>1, <2>2 DEF Told
<1>9. Coming(f)'
  <2> SUFFICES ASSUME Current(f), Open(f)' PROVE Coming(f)'
    BY <1>2 DEF Coming
  <2>1. Open(f) /\ sess'[f].state = "established" /\ Truthful(f, sess[f].clientSeq)'
    BY DEF Honest, Coming, Keeps
  <2>2. \A k \in 1 .. client[f].sent : Has(f, k) => Has(f, k)'
    BY DEF Keeps
  <2>3. CASE tunIn' = tunIn
    <3>1. \A i : \A k \in 1 .. client[f].sent : Expected(f, k, i) => Expected(f, k, i)'
      BY <2>2, <2>3 DEF Expected
    <3> QED BY <1>2, <2>1, <2>3, <3>1 DEF Honest, Coming
  <2>4. CASE ahead
    <3>1. \/ Head(tunIn).flow # f
          \/ Head(tunIn).kind = "data" => \E b : Head(tunIn).seq = b /\ Has(f, b)'
      <4>1. tunIn' # tunIn
        BY <1>1, <2>4
      <4> QED BY <4>1 DEF Keeps
    <3>2. \A k \in 1 .. client[f].sent, i \in 1 .. n : Expected(f, k, i) => Expected(f, k, i - 1)'
      BY <1>1, <2>2, <2>4, <3>1, ExpectedAhead
    <3>3. Len(tunIn') = n - 1 /\ n \in 1 .. n
      BY <1>1, <2>4, TakenAhead
    <3>4. ASSUME NEW k \in 1 .. client[f].sent PROVE Expected(f, k, Len(tunIn))'
      <4>1. Expected(f, k, n)
        BY <2>1 DEF Honest, Coming
      <4>2. \E i \in 1 .. n : i - 1 = Len(tunIn') /\ Expected(f, k, i)
        BY <3>3, <4>1
      <4> QED BY <3>2, <4>2
    <3>5. ASSUME NEW i \in 1 .. Len(tunIn'), tunIn'[i].flow = f, tunIn'[i].kind \in {"data", "fin"}
          PROVE  /\ tunIn'[i].kind = "data" => tunIn'[i].seq <= client[f].sent
                 /\ tunIn'[i].kind = "fin" => client[f].fin /\ tunIn'[i].seq = client[f].sent + 1
                 /\ \A k \in 1 .. client[f].sent : k < tunIn'[i].seq => Expected(f, k, i - 1)'
      <4>1. i + 1 \in 1 .. n /\ tunIn'[i] = tunIn[i + 1] /\ (i + 1) - 1 = i /\ i \in 1 .. n
        BY <1>1, <2>4, TakenAhead
      <4>2. /\ tunIn[i + 1].kind = "data" => tunIn[i + 1].seq <= client[f].sent
            /\ tunIn[i + 1].kind = "fin" => client[f].fin /\ tunIn[i + 1].seq = client[f].sent + 1
            /\ \A k \in 1 .. client[f].sent : k < tunIn[i + 1].seq => Expected(f, k, i)
        BY <2>1, <3>5, <4>1 DEF Honest, Coming
      <4> QED BY <3>2, <4>1, <4>2
    <3> QED BY <1>2, <2>1, <3>3, <3>4, <3>5 DEF Coming
  <2> QED BY <1>4, <2>3, <2>4
<1> QED BY <1>6, <1>7, <1>8, <1>9 DEF Honest

\* What stays as it is stays honest.
LEMMA RestsSound ==
  ASSUME Owned, NEW g \in Flows, Honest(g),
         client'[g] = client[g],
         server'[g].conns = server[g].conns, server'[g].got = server[g].got,
         server'[g].lost = server[g].lost,
         sess'[g] = sess[g] \/ sess'[g] = None,
         tunOut'[g] = tunOut[g],
         \/ tunIn' = tunIn
         \/ tunIn # <<>> /\ tunIn' = Tail(tunIn) /\ (Head(tunIn).flow # g \/ ~Open(g)')
  PROVE  Honest(g)'
<1>1. \A k : Has(g, k) => Has(g, k)'
  BY DEF Has
<1>2. ASSUME Open(g)'
      PROVE  /\ Open(g) /\ sess'[g] = sess[g]
             /\ ~Asked(g) => sess'[g].clientSeq = 1
             /\ Current(g) => Truthful(g, sess[g].clientSeq)'
  <2>1. Open(g) /\ sess'[g] = sess[g]
    BY <1>2 DEF Open
  <2>2. Truthful(g, sess[g].clientSeq) => Truthful(g, sess[g].clientSeq)'
    BY <1>1, <2>1 DEF Truthful
  <2> QED BY <2>1, <2>2 DEF Honest, Unasked, Coming
<1>3. Keeps(g)
  BY <1>1, <1>2 DEF Keeps
<1> QED BY <1>3, KeepsSound

\* What is in the tunnel after a handler wrote to it.
LEMMA WroteOut ==
  ASSUME Owned, NEW f \in Flows, NEW ms \in Seq(Segments), Write(f, ms)
  PROVE  /\ \A g \in Flows \ {f} : tunOut'[g] = tunOut[g]
         /\ \A m \in ToSet(tunOut'[f]) :
              m \in ToSet(tunOut[f]) \/ \E i \in 1 .. Len(ms) : m = ms[i]
<1>1. tunOut \in [Flows -> Seq(Segments)]
  BY DEF Owned, Core, Typed
<1>2. tunOut'[f] = tunOut[f] \o ms /\ \A g \in Flows \ {f} : tunOut'[g] = tunOut[g]
  BY <1>1 DEF Write
<1>3. /\ Len(tunOut'[f]) = Len(tunOut[f]) + Len(ms)
      /\ \A i \in 1 .. Len(tunOut'[f]) :
           \/ i \in 1 .. Len(tunOut[f]) /\ tunOut'[f][i] = tunOut[f][i]
           \/ i - Len(tunOut[f]) \in 1 .. Len(ms) /\ tunOut'[f][i] = ms[i - Len(tunOut[f])]
      /\ DOMAIN tunOut'[f] = 1 .. Len(tunOut'[f]) /\ DOMAIN tunOut[f] = 1 .. Len(tunOut[f])
  BY <1>1, <1>2
<1>4. \A m \in ToSet(tunOut'[f]) : \E i \in 1 .. Len(tunOut'[f]) : m = tunOut'[f][i]
  BY <1>3 DEF ToSet
<1>5. \A i \in 1 .. Len(tunOut[f]) : tunOut[f][i] \in ToSet(tunOut[f])
  BY <1>3 DEF ToSet
<1> QED BY <1>2, <1>3, <1>4, <1>5

\* One segment written is one segment more on its flow.
LEMMA WroteOne ==
  ASSUME Owned, NEW f \in Flows, NEW w \in Segments, Write(f, <<w>>)
  PROVE  /\ \A g \in Flows \ {f} : tunOut'[g] = tunOut[g]
         /\ \A m \in ToSet(tunOut'[f]) : m \in ToSet(tunOut[f]) \/ m = w
<1> DEFINE ms == <<w>>
<1>1. ms \in Seq(Segments) /\ \A i \in 1 .. Len(ms) : ms[i] = w
  OBVIOUS
<1>2. Write(f, ms)
  OBVIOUS
<1> HIDE DEF ms
<1> QED BY <1>1, <1>2, WroteOut

\* What has come of a flow's bytes after send() was given some more.
LEMMA Delivered ==
  ASSUME Owned, NEW f \in Flows, NEW bytes \in Seq(Nat), Deliver(f, bytes)
  PROVE  /\ server'[f].conns = server[f].conns
         /\ \A g \in Flows \ {f} : server'[g] = server[g]
         /\ \A k : Has(f, k)' <=> Has(f, k) \/ k \in ToSet(bytes)
<1>1. server \in [Flows -> Servers]
  BY DEF Owned, Core, Typed
<1> QED BY <1>1, DeliverTyped DEF Has

\* A packet that has come to the end of its wait.
LEMMA Arrived ==
  ASSUME Owned, NEW f \in Flows, Honest(f), NEW kind \in {"data", "fin"}, FromTun(kind),
         Head(tunIn).flow = f
  PROVE  /\ tunIn # <<>> /\ tunIn' = Tail(tunIn) /\ Asked(f) /\ Head(tunIn).seq \in Nat
         /\ Current(f) /\ Open(f) =>
              /\ sess[f].state = "established"
              /\ kind = "data" => Head(tunIn).seq <= client[f].sent
              /\ kind = "fin" => client[f].fin /\ Head(tunIn).seq = client[f].sent + 1
              /\ \A k \in 1 .. client[f].sent : k < Head(tunIn).seq => Has(f, k)
<1>1. PICK others, mail : Typed(others, mail) /\ Foreign(others, mail)
  BY DEF Owned, Core
<1>2. /\ tunIn # <<>> /\ Head(tunIn).kind = kind /\ Head(tunIn).seq \in Nat
      /\ tunIn' = Tail(tunIn)
  BY <1>1, FromTunSound DEF FromTun
<1>3. Head(tunIn) = tunIn[1] /\ 1 \in 1 .. Len(tunIn)
  BY <1>1, <1>2, TakenAhead
<1>4. Asked(f)
  BY <1>2, <1>3 DEF Honest, Unasked
<1>5. \A k : Expected(f, k, 0) => Has(f, k)
  BY DEF Expected
<1> QED BY <1>2, <1>3, <1>4, <1>5 DEF Honest, Coming

\* A handler of one flow is none of another's.
LEMMA OthersHonest ==
  ASSUME AckInv, NEW f \in Flows,
         \/ tunIn' = tunIn
         \/ tunIn # <<>> /\ tunIn' = Tail(tunIn) /\ Head(tunIn).flow = f,
         client' = client,
         \A g \in Flows \ {f} :
           sess'[g] = sess[g] /\ server'[g] = server[g] /\ tunOut'[g] = tunOut[g],
         Honest(f)'
  PROVE  \A g \in Flows : Honest(g)'
<1> SUFFICES ASSUME NEW g \in Flows, g # f PROVE Honest(g)'
  OBVIOUS
<1> QED BY RestsSound DEF AckInv

\* What a segment made from a session says.
LEMMA SegmentSays ==
  ASSUME NEW s, NEW kind, NEW byte
  PROVE  /\ Segment(s, kind, byte).kind = kind /\ Segment(s, kind, byte).inc = s.inc
         /\ Segment(s, kind, byte).ack = s.clientSeq
BY DEF Segment

\* What a session says of its flow at any time may be said.
LEMMA SessionSays ==
  ASSUME Owned, NEW f \in Flows, Honest(f), Open(f), client' = client,
         \A k : Has(f, k) => Has(f, k)'
  PROVE  /\ sess[f].inc = server[f].conns
         /\ ~Asked(f) => sess[f].clientSeq = 1
         /\ \A c : Current(f) /\ c = sess[f].clientSeq => Truthful(f, c)'
<1>1. \A c : Truthful(f, c) => Truthful(f, c)'
  BY DEF Truthful
<1> QED BY <1>1 DEF Honest, Numbered, Unasked, Coming

\* The handlers that leave nothing of a session but a last segment.
LEMMA LastWordHonest ==
  ASSUME AckInv, NEW f \in Flows, Open(f), TcpRemove(f), UNCHANGED <<client, server>>,
         NEW kind \in {"rst", "fin"},
         Write(f, <<Segment(sess[f], kind, 0)>>),
         tunIn' = tunIn
  PROVE  \A g \in Flows : Honest(g)'
<1>1. /\ Owned /\ Honest(f) /\ sess \in [Flows -> Sessions \cup {None}] /\ sess[f] \in Sessions
  BY DEF AckInv, Owned, Core, Typed, Open
<1>2. Segment(sess[f], kind, 0) \in Segments
  BY <1>1, SegmentTyped
<1>3. /\ \A g \in Flows \ {f} : tunOut'[g] = tunOut[g]
      /\ \A m \in ToSet(tunOut'[f]) : m \in ToSet(tunOut[f]) \/ m = Segment(sess[f], kind, 0)
  BY <1>1, <1>2, WroteOne
<1>4. sess'[f] = None /\ \A g \in Flows \ {f} : sess'[g] = sess[g]
  BY <1>1 DEF TcpRemove, SetSession
<1>5. \A k : Has(f, k) => Has(f, k)'
  BY DEF Has
<1>6. Keeps(f)
  BY <1>1, <1>3, <1>4, <1>5, SessionSays, SegmentSays DEF Keeps, Open
<1> QED BY <1>1, <1>3, <1>4, <1>6, KeepsSound, OthersHonest

\* The handlers that write nothing, and at most end the session.
LEMMA SilentHonest ==
  ASSUME AckInv, NEW f \in Flows,
         \/ TunNoSession(f) \/ TunRst(f) \/ SocketNotReadable(f) \/ SocketAgain(f)
         \/ (TunSyn(f) /\ TcpRemove(f) /\ UNCHANGED server)
  PROVE  \A g \in Flows : Honest(g)'
<1>1. PICK others, mail :
      /\ Owned /\ Typed(others, mail) /\ Foreign(others, mail) /\ Core(others, mail)
      /\ sess \in [Flows -> Sessions \cup {None}]
  BY DEF AckInv, Owned, Core, Typed
<1>2. UNCHANGED <<tunOut, client, server>>
  BY DEF TunNoSession, TunRst, SocketNotReadable, SocketAgain, TunSyn
<1>3. \/ tunIn' = tunIn
      \/ tunIn # <<>> /\ tunIn' = Tail(tunIn) /\ Head(tunIn).flow = f /\ sess'[f] = None
  <2>1. CASE SocketNotReadable(f) \/ SocketAgain(f)
    BY <2>1 DEF SocketNotReadable, SocketAgain
  <2>2. CASE TunNoSession(f)
    BY <1>1, <2>2, FromTunSound DEF TunNoSession, FromTun, Open
  <2>3. CASE TunRst(f)
    BY <1>1, <2>3, FromTunSound, SMTT(40) DEF TunRst, FromTun, TcpRemove, SetSession
  <2>4. CASE TunSyn(f) /\ TcpRemove(f)
    BY <1>1, <2>4, FromTunSound DEF TunSyn, FromTun, TcpRemove, SetSession
  <2> QED BY <2>1, <2>2, <2>3, <2>4
<1>4. \A g \in Flows : sess'[g] = sess[g] \/ (g = f /\ sess'[g] = None)
  BY <1>1 DEF TunNoSession, TunRst, SocketNotReadable, SocketAgain, TunSyn, TcpRemove, SetSession
<1> QED BY <1>1, <1>2, <1>3, <1>4, RestsSound DEF AckInv, Open

\* A byte the session holds back is not acknowledged, and one of another
\* connection is nothing to the client.
LEMMA TunDataPendingHonest ==
  ASSUME AckInv, NEW f \in Flows, TunDataPending(f)
  PROVE  \A g \in Flows : Honest(g)'
<1> DEFINE p == Head(tunIn)
           t == [sess[f] EXCEPT !.clientSeq = p.seq + 1, !.pending = Kept(sess[f], p)]
<1>1. /\ Owned /\ Honest(f) /\ FromTun("data") /\ p.flow = f /\ Open(f)
      /\ sess[f].state = "synSent" /\ SetSession(f, t)
      /\ sess \in [Flows -> Sessions \cup {None}] /\ UNCHANGED <<tunOut, client, server>>
  BY DEF AckInv, TunDataPending, Owned, Core, Typed
<1>2. tunIn # <<>> /\ tunIn' = Tail(tunIn) /\ Asked(f) /\ ~Current(f)
  BY <1>1, Arrived
<1>3. sess'[f] = t /\ \A g \in Flows \ {f} : sess'[g] = sess[g]
  BY <1>1 DEF SetSession
<1>4. t.inc = sess[f].inc /\ t.state = sess[f].state
  <2>1. sess[f] \in Sessions
    BY <1>1 DEF Open
  <2> QED BY <2>1 DEF Sessions
<1> HIDE DEF t
<1>5. Has(f, p.seq) => Has(f, p.seq)
  OBVIOUS
<1>6. Honest(f)'
  <2>1. Asked(f)' /\ ~Current(f)'
    BY <1>1, <1>2 DEF Asked, Current
  <2>2. Numbered(f)'
    BY <1>1, <1>3, <1>4 DEF Honest, Numbered, Open
  <2> QED BY <2>1, <2>2 DEF Honest, Unasked, Told, Coming
<1> QED BY <1>1, <1>2, <1>3, <1>6, OthersHonest

\* Data that send() takes is acknowledged, and the server has it.
LEMMA TunDataSentHonest ==
  ASSUME AckInv, NEW f \in Flows, TunDataSent(f)
  PROVE  \A g \in Flows : Honest(g)'
<1> DEFINE p == Head(tunIn)
           t == AfterData(sess[f], p)
<1>1. /\ Owned /\ Honest(f) /\ FromTun("data") /\ p.flow = f /\ Open(f)
      /\ SetSession(f, t) /\ Deliver(f, <<p.seq>>) /\ Write(f, <<Segment(t, "ack", 0)>>)
      /\ sess \in [Flows -> Sessions \cup {None}] /\ sess[f] \in Sessions /\ client' = client
  BY DEF AckInv, TunDataSent, Owned, Core, Typed, Open
<1>2. /\ tunIn # <<>> /\ tunIn' = Tail(tunIn) /\ Asked(f) /\ p.seq \in Nat
      /\ Current(f) =>
           /\ p.seq <= client[f].sent
           /\ \A k \in 1 .. client[f].sent : k < p.seq => Has(f, k)
  BY <1>1, Arrived
<1>3. sess'[f] = t /\ \A g \in Flows \ {f} : sess'[g] = sess[g]
  BY <1>1 DEF SetSession
<1>4. /\ server'[f].conns = server[f].conns
      /\ \A g \in Flows \ {f} : server'[g] = server[g]
      /\ \A k : Has(f, k)' <=> Has(f, k) \/ k = p.seq
  <2>1. <<p.seq>> \in Seq(Nat) /\ \A k : k \in ToSet(<<p.seq>>) <=> k = p.seq
    BY <1>2 DEF ToSet
  <2> QED BY <1>1, <2>1, Delivered
<1>5. /\ t \in Sessions /\ t.inc = sess[f].inc /\ t.state = sess[f].state
      /\ t.clientSeq = p.seq + 1
  <2>1. p.seq + 1 \in Nat
    BY <1>2
  <2> QED BY <1>1, <2>1 DEF AfterData, Sessions
<1> HIDE DEF t
<1>6. /\ \A g \in Flows \ {f} : tunOut'[g] = tunOut[g]
      /\ \A m \in ToSet(tunOut'[f]) : m \in ToSet(tunOut[f]) \/ m = Segment(t, "ack", 0)
  <2>1. Segment(t, "ack", 0) \in Segments
    BY <1>5, SegmentTyped
  <2> QED BY <1>1, <2>1, WroteOne
<1>7. ASSUME Current(f), NEW c, c = p.seq + 1 PROVE Truthful(f, c)'
  <2>1. client[f].sent \in Nat
    BY <1>1, TcpRelayConstants DEF Owned, Core, Typed, Clients
  <2>2. c <= client[f].sent + 1
    BY <1>2, <1>7, <2>1
  <2>3. ASSUME NEW k \in 1 .. client[f].sent, k < c PROVE Has(f, k)'
    <3>1. k < p.seq \/ k = p.seq
      BY <1>2, <1>7, <2>1, <2>3
    <3> QED BY <1>2, <1>4, <1>7, <3>1
  <2> QED BY <1>1, <2>2, <2>3 DEF Truthful
<1>8. Segment(t, "ack", 0).inc = server[f].conns /\ Segment(t, "ack", 0).ack = p.seq + 1
      /\ Segment(t, "ack", 0).kind # "synAck"
  BY <1>1, <1>5, SegmentSays DEF Honest, Numbered
<1>9. Keeps(f)
  <2>1. \E b : p.seq = b /\ Has(f, b)'
    BY <1>4
  <2>2. Current(f) => Truthful(f, sess[f].clientSeq)'
    BY <1>3, <1>5, <1>7 DEF Truthful, Has
  <2> QED BY <1>1, <1>2, <1>3, <1>4, <1>5, <1>6, <1>7, <1>8, <2>1, <2>2 DEF Keeps
<1> QED BY <1>1, <1>2, <1>3, <1>4, <1>6, <1>9, KeepsSound, OthersHonest

\* Data that send() does not take is not acknowledged.
LEMMA TunDataFailedHonest ==
  ASSUME AckInv, NEW f \in Flows, TunDataFailed(f)
  PROVE  \A g \in Flows : Honest(g)'
<1> DEFINE p == Head(tunIn)
           t == AfterData(sess[f], p)
<1>1. /\ Owned /\ Honest(f) /\ FromTun("data") /\ p.flow = f /\ Open(f)
      /\ TcpRemove(f) /\ Write(f, <<Segment(t, "rstAck", 0)>>)
      /\ sess \in [Flows -> Sessions \cup {None}] /\ sess[f] \in Sessions
      /\ UNCHANGED <<client, server>>
  BY DEF AckInv, TunDataFailed, Owned, Core, Typed, Open
<1>2. tunIn # <<>> /\ tunIn' = Tail(tunIn) /\ Asked(f) /\ p.seq \in Nat
  BY <1>1, Arrived
<1>3. sess'[f] = None /\ \A g \in Flows \ {f} : sess'[g] = sess[g]
  BY <1>1 DEF TcpRemove, SetSession
<1>4. t \in Sessions /\ t.inc = sess[f].inc
  <2>1. p.seq + 1 \in Nat
    BY <1>2
  <2> QED BY <1>1, <2>1 DEF AfterData, Sessions
<1> HIDE DEF t
<1>5. /\ \A g \in Flows \ {f} : tunOut'[g] = tunOut[g]
      /\ \A m \in ToSet(tunOut'[f]) : m \in ToSet(tunOut[f]) \/ m = Segment(t, "rstAck", 0)
  <2>1. Segment(t, "rstAck", 0) \in Segments
    BY <1>4, SegmentTyped
  <2> QED BY <1>1, <2>1, WroteOne
<1>6. /\ Segment(t, "rstAck", 0).inc = server[f].conns
      /\ Segment(t, "rstAck", 0).kind = "rstAck"
  BY <1>1, <1>4, SegmentSays DEF Honest, Numbered
<1>7. Keeps(f)
  BY <1>1, <1>2, <1>3, <1>5, <1>6 DEF Keeps, Has, Open
<1> QED BY <1>1, <1>2, <1>3, <1>5, <1>7, KeepsSound, OthersHonest

\* What holds of the segments of two writes holds of the segments of both.
LEMMA Joined ==
  ASSUME NEW S, NEW q \in Seq(S), NEW w \in Seq(S)
  PROVE  /\ q \o w \in Seq(S)
         /\ \A i \in 1 .. Len(q \o w) :
              \/ \E j \in 1 .. Len(q) : (q \o w)[i] = q[j]
              \/ \E j \in 1 .. Len(w) : (q \o w)[i] = w[j]
<1>1. /\ q \o w \in Seq(S)
      /\ \A i \in 1 .. Len(q \o w) :
           \/ i \in 1 .. Len(q) /\ (q \o w)[i] = q[i]
           \/ i - Len(q) \in 1 .. Len(w) /\ (q \o w)[i] = w[i - Len(q)]
  OBVIOUS
<1> QED BY <1>1

\* A FIN is acknowledged when the server has all that came before it; its
\* segments are those that may follow an established session's payload.
LEMMA TunFinHonest ==
  ASSUME AckInv, NEW f \in Flows, TunFin(f)
  PROVE  \A g \in Flows : Honest(g)'
<1> DEFINE p == Head(tunIn)
           t == AfterFin(sess[f], p)
           sends == p.kind = "data" /\ t.state = "established"
           ms == (IF sends THEN <<Segment(AfterData(t, p), "ack", 0)>> ELSE <<>>)
                   \o <<Segment(t, "ack", 0), Segment(t, "fin", 0)>>
<1>1. /\ Owned /\ Honest(f) /\ p.flow = f /\ Open(f) /\ TcpRemove(f) /\ Write(f, ms)
      /\ IF sends THEN Deliver(f, <<p.seq>>) ELSE UNCHANGED server
      /\ sess \in [Flows -> Sessions \cup {None}] /\ sess[f] \in Sessions /\ client' = client
  BY DEF AckInv, TunFin, Owned, Core, Typed, Open
<1>2. PICK kind \in {"data", "fin"} : FromTun(kind)
  BY DEF TunFin
<1>3. /\ tunIn # <<>> /\ tunIn' = Tail(tunIn) /\ Asked(f) /\ p.seq \in Nat /\ p.kind = kind
      /\ Current(f) =>
           /\ sess[f].state = "established"
           /\ kind = "data" => p.seq <= client[f].sent
           /\ kind = "fin" => client[f].fin /\ p.seq = client[f].sent + 1
           /\ \A k \in 1 .. client[f].sent : k < p.seq => Has(f, k)
  BY <1>1, <1>2, Arrived DEF FromTun
<1>4. sess'[f] = None /\ \A g \in Flows \ {f} : sess'[g] = sess[g]
  BY <1>1 DEF TcpRemove, SetSession
<1>5. /\ t \in Sessions /\ t.inc = sess[f].inc /\ t.state = sess[f].state
      /\ t.clientSeq = p.seq + 1 /\ AfterData(t, p) \in Sessions
      /\ AfterData(t, p).inc = sess[f].inc /\ AfterData(t, p).clientSeq = p.seq + 1
  <2>1. p.seq + 1 \in Nat
    BY <1>3
  <2>2. /\ t \in Sessions /\ t.inc = sess[f].inc /\ t.state = sess[f].state
        /\ t.clientSeq = p.seq + 1
    BY <1>1, <2>1 DEF AfterFin, Sessions
  <2> HIDE DEF t
  <2> QED BY <2>1, <2>2 DEF AfterData, Sessions
<1>6. /\ server'[f].conns = server[f].conns
      /\ \A g \in Flows \ {f} : server'[g] = server[g]
      /\ \A k : Has(f, k) => Has(f, k)'
      /\ sends => \A k : k = p.seq => Has(f, k)'
  <2>1. <<p.seq>> \in Seq(Nat) /\ \A k : k \in ToSet(<<p.seq>>) <=> k = p.seq
    BY <1>3 DEF ToSet
  <2>2. CASE sends
    BY <1>1, <2>1, <2>2, Delivered
  <2>3. CASE ~sends
    BY <1>1, <2>3 DEF Has
  <2> QED BY <2>2, <2>3
<1> DEFINE Says(m) == m.inc = server[f].conns /\ m.ack = p.seq + 1 /\ m.kind # "synAck"
<1>7. /\ ms \in Seq(Segments)
      /\ \A i \in 1 .. Len(ms) : Says(ms[i])
  <2> DEFINE a == Segment(AfterData(t, p), "ack", 0)
             b == Segment(t, "ack", 0)
             c == Segment(t, "fin", 0)
  <2>1. a \in Segments /\ b \in Segments /\ c \in Segments
    BY <1>5, SegmentTyped
  <2>2. sess[f].inc = server[f].conns
    BY <1>1 DEF Honest, Numbered
  <2>3. Says(a) /\ Says(b) /\ Says(c)
    BY <1>5, <2>2, SegmentSays
  <2> DEFINE q == IF sends THEN <<a>> ELSE <<>>
             w == <<b, c>>
  <2>4. ms = q \o w
    OBVIOUS
  <2> HIDE DEF a, b, c, Says
  <2>5. /\ q \in Seq(Segments) /\ \A i \in 1 .. Len(q) : q[i] = a
        /\ w \in Seq(Segments) /\ \A i \in 1 .. Len(w) : w[i] \in {b, c}
    BY <2>1
  <2> HIDE DEF q, w, ms
  <2>6. ms \in Seq(Segments) /\ \A i \in 1 .. Len(ms) : ms[i] \in {a, b, c}
    BY <2>4, <2>5, Joined
  <2> QED BY <2>3, <2>6
<1> HIDE DEF ms
<1>8. /\ \A g \in Flows \ {f} : tunOut'[g] = tunOut[g]
      /\ \A m \in ToSet(tunOut'[f]) : m \in ToSet(tunOut[f]) \/ Says(m)
  <2>1. Owned /\ Write(f, ms)
    BY <1>1
  <2> HIDE DEF Says
  <2> QED BY <1>7, <2>1, WroteOut
<1>9. ASSUME Current(f), NEW c, c = p.seq + 1 PROVE Truthful(f, c)'
  <2>1. client[f].sent \in Nat
    BY <1>1, TcpRelayConstants DEF Owned, Core, Typed, Clients
  <2>2. c <= client[f].sent + 1 \/ client[f].fin
    BY <1>3, <1>9, <2>1
  <2>3. ASSUME NEW k \in 1 .. client[f].sent, k < c PROVE Has(f, k)'
    <3>1. k < p.seq \/ (k = p.seq /\ kind = "data")
      BY <1>3, <1>9, <2>1, <2>3
    <3>2. kind = "data" => sends
      BY <1>3, <1>5, <1>9
    <3> QED BY <1>3, <1>6, <1>9, <3>1, <3>2
  <2> QED BY <1>1, <2>2, <2>3 DEF Truthful
<1>10. Keeps(f)
  BY <1>1, <1>3, <1>4, <1>6, <1>8, <1>9 DEF Keeps, Open
<1> QED BY <1>1, <1>3, <1>4, <1>6, <1>8, <1>10, KeepsSound, OthersHonest

\* The SYN-ACK is the first a client hears of its session, so what the session
\* held back is not its.
LEMMA SocketConnectedHonest ==
  ASSUME AckInv, NEW f \in Flows, SocketConnected(f)
  PROVE  \A g \in Flows : Honest(g)'
<1> DEFINE s == sess[f]
           s1 == Advanced(s, 1)
           t == [s1 EXCEPT !.state = "established", !.pending = <<>>]
           a == Segment(s, "synAck", 0)
           b == Segment(s1, "ack", 0)
           ms == <<a>> \o (IF s.pending # <<>> THEN <<b>> ELSE <<>>)
<1>1. /\ Owned /\ Honest(f) /\ Open(f) /\ s.state = "synSent" /\ SetSession(f, t) /\ Write(f, ms)
      /\ IF Accepts(sock[s.fd]) THEN Deliver(f, s.pending) ELSE UNCHANGED server
      /\ sess \in [Flows -> Sessions \cup {None}] /\ s \in Sessions
      /\ client' = client /\ tunIn' = tunIn
  BY DEF AckInv, SocketConnected, FromSocket, OwnersOf, Completes, Owned, Core, Typed, Open
<1>2. ~Current(f)
  BY <1>1 DEF Honest, Coming
<1>3. /\ s1 \in Sessions /\ s1.inc = s.inc /\ s1.clientSeq = s.clientSeq
      /\ s1.state = s.state
  BY <1>1, AdvancedTyped DEF Advanced, Sessions
<1> HIDE DEF s1
<1>4. t.inc = s.inc /\ t.clientSeq = s.clientSeq /\ t.state = "established"
  BY <1>3 DEF Sessions
<1>5. sess'[f] = t /\ \A g \in Flows \ {f} : sess'[g] = sess[g]
  BY <1>1 DEF SetSession
<1>6. /\ server'[f].conns = server[f].conns
      /\ \A g \in Flows \ {f} : server'[g] = server[g]
      /\ \A k : Has(f, k) => Has(f, k)'
  <2>1. s.pending \in Seq(Nat)
    BY <1>1, TcpRelayConstants DEF Sessions
  <2>2. CASE Accepts(sock[s.fd])
    BY <1>1, <2>1, <2>2, Delivered
  <2>3. CASE ~Accepts(sock[s.fd])
    BY <1>1, <2>3 DEF Has
  <2> QED BY <2>2, <2>3
<1> DEFINE Says(m) == m.inc = server[f].conns /\ m.ack = s.clientSeq
<1>7. /\ ms \in Seq(Segments)
      /\ \A i \in 1 .. Len(ms) : Says(ms[i])
  <2>1. a \in Segments /\ b \in Segments
    BY <1>1, <1>3, SegmentTyped
  <2>2. s.inc = server[f].conns
    BY <1>1 DEF Honest, Numbered
  <2>3. Says(a) /\ Says(b)
    BY <1>3, <2>2, SegmentSays
  <2> HIDE DEF a, b, Says
  <2> DEFINE q == <<a>>
             w == IF s.pending # <<>> THEN <<b>> ELSE <<>>
  <2>4. /\ q \in Seq(Segments) /\ \A i \in 1 .. Len(q) : q[i] = a
        /\ w \in Seq(Segments) /\ \A i \in 1 .. Len(w) : w[i] = b
    <3>1. /\ <<b>> \in Seq(Segments) /\ \A i \in 1 .. Len(<<b>>) : <<b>>[i] = b
          /\ <<a>> \in Seq(Segments) /\ \A i \in 1 .. Len(<<a>>) : <<a>>[i] = a
      BY <2>1
    <3>2. <<>> \in Seq(Segments) /\ Len(<<>>) = 0
      OBVIOUS
    <3>3. q = <<a>> /\ (w = <<b>> \/ w = <<>>)
      OBVIOUS
    <3> HIDE DEF q, w
    <3>4. \A i \in 1 .. Len(w) : w[i] = b
      BY <3>1, <3>2, <3>3
    <3> QED BY <3>1, <3>2, <3>3, <3>4
  <2>5. ms = q \o w
    OBVIOUS
  <2> HIDE DEF q, w, ms
  <2>6. ms \in Seq(Segments) /\ \A i \in 1 .. Len(ms) : ms[i] \in {a, b}
    BY <2>4, <2>5, Joined
  <2> QED BY <2>3, <2>6
<1> HIDE DEF ms, t
<1>8. /\ \A g \in Flows \ {f} : tunOut'[g] = tunOut[g]
      /\ \A m \in ToSet(tunOut'[f]) : m \in ToSet(tunOut[f]) \/ Says(m)
  <2>1. Owned /\ Write(f, ms)
    BY <1>1
  <2> HIDE DEF Says
  <2> QED BY <1>7, <2>1, WroteOut
<1>9. ~Asked(f) => s.clientSeq = 1
  BY <1>1 DEF Honest, Unasked
<1>10. Keeps(f)
  BY <1>1, <1>2, <1>4, <1>5, <1>6, <1>8, <1>9 DEF Keeps
<1> QED BY <1>1, <1>5, <1>6, <1>8, <1>10, KeepsSound, OthersHonest

\* Data of the server repeats the acknowledgement the session has.
LEMMA SocketDataHonest ==
  ASSUME AckInv, NEW f \in Flows, NEW n \in 1 .. MaxRead, SocketData(f, n)
  PROVE  \A g \in Flows : Honest(g)'
<1> DEFINE s == sess[f]
           bytes == SubSeq(sock[s.fd].rx, 1, n)
           t == Advanced(s, n)
           ms == Chunks(s, bytes)
<1>1. PICK others, mail :
      /\ Owned /\ Core(others, mail) /\ Foreign(others, mail) /\ Honest(f) /\ FromSocket(f)
      /\ SetSession(f, t) /\ Write(f, ms) /\ n <= Len(sock[s.fd].rx)
      /\ sess \in [Flows -> Sessions \cup {None}] /\ UNCHANGED <<tunIn, client, server>>
  BY DEF AckInv, SocketData, Reads, Owned, Core, Typed
<1>2. Open(f) /\ s \in Sessions /\ sock[s.fd] \in Sockets
  BY <1>1, FromSocketSound
<1>3. \A k \in 0 .. n : Advanced(s, k) \in Sessions
  BY <1>2, AdvancedTyped
<1>4. \A k : Advanced(s, k).inc = s.inc /\ Advanced(s, k).clientSeq = s.clientSeq
             /\ Advanced(s, k).state = s.state
  BY <1>2 DEF Advanced, Sessions
<1>5. sess'[f] = t /\ \A g \in Flows \ {f} : sess'[g] = sess[g]
  BY <1>1 DEF SetSession
<1>6. \A k : Has(f, k) => Has(f, k)'
  BY <1>1 DEF Has
<1> DEFINE Says(m) == m.inc = s.inc /\ m.ack = s.clientSeq /\ m.kind = "data"
<1>7. ms \in Seq(Segments) /\ \A i \in 1 .. Len(ms) : Says(ms[i])
  <2>1. sock[s.fd].rx \in Seq(1 .. MaxDown) /\ n \in 0 .. Len(sock[s.fd].rx) /\ n \in Nat
    BY <1>1, <1>2, TcpRelayConstants DEF Sockets
  <2>2. DOMAIN bytes = 1 .. n /\ \A i \in 1 .. n : bytes[i] \in Nat
    <3> DEFINE S == 1 .. MaxDown
    <3>1. sock[s.fd].rx \in Seq(S) /\ S \subseteq Nat
      BY <2>1, TcpRelayConstants
    <3> HIDE DEF S
    <3>2. /\ Len(bytes) = n /\ bytes \in Seq(S)
          /\ \A i \in 1 .. n : bytes[i] \in S
      BY <2>1, <3>1, CutInTwo
    <3>3. DOMAIN bytes = 1 .. n
      BY <3>2
    <3> QED BY <3>1, <3>2, <3>3
  <2> HIDE DEF bytes
  <2>3. ASSUME NEW i \in 1 .. n
        PROVE  /\ Segment(Advanced(s, i - 1), "data", bytes[i]) \in Segments
               /\ Says(Segment(Advanced(s, i - 1), "data", bytes[i]))
    <3>1. i - 1 \in 0 .. n
      BY <2>1
    <3> QED BY <1>3, <1>4, <2>2, <3>1, SegmentTyped, SegmentSays
  <2>4. ms = [i \in 1 .. n |-> Segment(Advanced(s, i - 1), "data", bytes[i])]
    BY <2>2 DEF Chunks
  <2> HIDE DEF ms, Says
  <2>5. ms \in Seq(Segments) /\ Len(ms) = n
    BY <2>1, <2>3, <2>4
  <2> QED BY <2>3, <2>4, <2>5
<1> HIDE DEF ms, bytes, t
<1>8. /\ \A g \in Flows \ {f} : tunOut'[g] = tunOut[g]
      /\ \A m \in ToSet(tunOut'[f]) : m \in ToSet(tunOut[f]) \/ Says(m)
  <2>1. Owned /\ Write(f, ms)
    BY <1>1
  <2> HIDE DEF Says
  <2> QED BY <1>7, <2>1, WroteOut
<1>9. /\ s.inc = server[f].conns
      /\ ~Asked(f) => s.clientSeq = 1
      /\ \A c : Current(f) /\ c = s.clientSeq => Truthful(f, c)'
  BY <1>1, <1>2, <1>6, SessionSays
<1>10. t.inc = s.inc /\ t.clientSeq = s.clientSeq /\ t.state = s.state
  BY <1>4 DEF t
<1>11. Keeps(f)
  <2>1. \A m : Says(m) /\ Current(f) => Truthful(f, m.ack)'
    BY <1>9
  <2>2. Current(f) => Truthful(f, sess[f].clientSeq)'
    <3>1. \A c : c = sess'[f].clientSeq => c = s.clientSeq
      BY <1>5, <1>10
    <3> QED BY <1>9, <3>1
  <2> QED BY <1>1, <1>2, <1>5, <1>6, <1>8, <1>9, <1>10, <2>1, <2>2 DEF Keeps
<1> QED BY <1>1, <1>5, <1>8, <1>11, KeepsSound, OthersHonest

\* A new connection: what its client had was of another.
LEMMA ReplaceHonest ==
  ASSUME AckInv, NEW f \in Flows, TunSyn(f), NEW fd \in Fds, NEW isn \in Isns,
         SetSession(f, NewSession(f, fd, isn)),
         server' = [server EXCEPT ![f] = NewServer(@.conns + 1)]
  PROVE  \A g \in Flows : Honest(g)'
<1>1. PICK others, mail :
      /\ Owned /\ Typed(others, mail) /\ Foreign(others, mail) /\ FromTun("syn") /\ Head(tunIn).flow = f
      /\ UNCHANGED <<tunOut, client>> /\ Honest(f)
      /\ sess \in [Flows -> Sessions \cup {None}] /\ server \in [Flows -> Servers]
      /\ client[f] \in Clients /\ tunOut[f] \in Seq(Segments) /\ tunIn \in Seq(Letters)
  BY LettersSound DEF AckInv, Owned, Core, Typed, TunSyn
<1>2. tunIn # <<>> /\ tunIn' = Tail(tunIn)
  BY <1>1, FromTunSound DEF FromTun
<1>3. /\ sess'[f] = NewSession(f, fd, isn)
      /\ \A g \in Flows \ {f} : sess'[g] = sess[g]
      /\ server'[f] = NewServer(server[f].conns + 1)
      /\ \A g \in Flows \ {f} : server'[g] = server[g]
  BY <1>1 DEF SetSession
<1>4. /\ server'[f].conns = server[f].conns + 1 /\ server[f].conns \in Nat
      /\ sess'[f].inc = server[f].conns + 1 /\ sess'[f].clientSeq = 1
  BY <1>1, <1>3 DEF NewServer, NewSession, Servers
<1>5. client[f].inc <= server[f].conns /\ \A m \in ToSet(tunOut[f]) : m.inc <= server[f].conns
  BY <1>1 DEF Honest, Numbered
<1>6. client[f].inc \in Nat /\ \A m \in ToSet(tunOut[f]) : m.inc \in Nat
  <2>1. \A m \in ToSet(tunOut[f]) : m \in Segments
    BY <1>1 DEF ToSet
  <2> QED BY <1>1, <2>1 DEF Clients, Segments
<1>7. ~Current(f)'
  BY <1>1, <1>4, <1>5, <1>6 DEF Current
<1>8. Numbered(f)'
  <2>1. \A m \in ToSet(tunOut[f]) : m.inc <= server'[f].conns /\ m.inc # server'[f].conns
    BY <1>4, <1>5, <1>6
  <2> QED BY <1>1, <1>4, <1>5, <1>6, <2>1 DEF Numbered
<1>9. Unasked(f)'
  <2>1. \A i \in 1 .. Len(tunIn') : \E j \in 1 .. Len(tunIn) : tunIn'[i] = tunIn[j]
    BY <1>1, <1>2, TakenAhead
  <2>2. Asked(f)' = Asked(f)
    BY <1>1 DEF Asked
  <2>3. ASSUME ~Asked(f), NEW i \in 1 .. Len(tunIn'), tunIn'[i].flow = f
        PROVE  tunIn'[i].kind = "syn"
    BY <1>1, <2>1, <2>3 DEF Honest, Unasked
  <2> QED BY <1>1, <1>4, <2>2, <2>3 DEF Honest, Unasked
<1>10. Honest(f)'
  BY <1>7, <1>8, <1>9 DEF Honest, Told, Coming
<1> QED BY <1>1, <1>2, <1>3, <1>10, OthersHonest

\* A packet joins the tail of the queue.  Its sender may go on by one byte, which
\* the packet carries, or by its FIN.
Sends(g, p) ==
  /\ Send(p) /\ UNCHANGED <<sess, server, tunOut>>
  /\ Asked(g)' = Asked(g)
  /\ client'[g].inc = client[g].inc /\ client'[g].acked = client[g].acked
  /\ ~Asked(g) => client'[g].sent = client[g].sent /\ (p.flow = g => p.kind = "syn")
  /\ client[g].sent <= client'[g].sent
  /\ client[g].fin => client'[g].fin /\ client'[g].sent = client[g].sent
  /\ \A k \in 1 .. client'[g].sent :
       k <= client[g].sent \/ (p.flow = g /\ p.kind = "data" /\ p.seq = k)
  /\ p.flow = g =>
       /\ p.kind \in {"data", "fin"} => p.seq \in 1 .. client[g].sent + 1
       /\ p.kind = "data" => p.seq <= client'[g].sent
       /\ p.kind = "fin" => client'[g].fin /\ p.seq = client'[g].sent + 1

\* A packet that the client sends preserves what is said of its flow.
LEMMA SendsSound ==
  ASSUME Owned, Owned', NEW g \in Flows, Honest(g), NEW p, Sends(g, p)
  PROVE  Honest(g)'
<1> DEFINE n == Len(tunIn)
<1>1. /\ client[g].sent \in Nat /\ client'[g].sent \in Nat /\ tunIn \in Seq(Letters)
      /\ client[g].acked \in Nat
  <2>1. client[g] \in Clients /\ client'[g] \in Clients
    BY DEF Owned, Core, Typed
  <2>2. client[g].sent \in Nat /\ client'[g].sent \in Nat /\ client[g].acked \in Nat
    BY <2>1, TcpRelayConstants DEF Clients
  <2> QED BY <2>2, LettersSound
<1>2. /\ n \in Nat /\ Len(tunIn') = n + 1 /\ tunIn'[n + 1] = p
      /\ \A i \in 1 .. n : tunIn'[i] = tunIn[i]
      /\ \A i \in 1 .. n + 1 : i \in 1 .. n \/ i = n + 1
  BY <1>1 DEF Sends, Send
<1>3. Current(g)' = Current(g) /\ Open(g)' = Open(g) /\ Asked(g)' = Asked(g)
  BY DEF Sends, Current, Open
<1>4. ASSUME NEW c \in Int, Truthful(g, c) PROVE Truthful(g, c)'
  <2>1. CASE client[g].fin
    BY <1>4, <2>1 DEF Sends, Truthful, Has
  <2>2. CASE ~client[g].fin /\ c <= client[g].sent + 1
    <3>1. client[g].sent <= client'[g].sent
      BY DEF Sends
    <3>2. c <= client'[g].sent + 1
      BY <1>1, <1>4, <2>2, <3>1
    <3>3. ASSUME NEW k \in 1 .. client'[g].sent, k < c PROVE Has(g, k)'
      <4>1. k <= client[g].sent /\ k \in 1 .. client[g].sent
        BY <1>1, <1>4, <2>2, <3>3
      <4> QED BY <1>1, <1>4, <3>3, <4>1 DEF Truthful, Has, Sends
    <3> QED BY <3>2, <3>3 DEF Truthful
  <2> QED BY <1>4, <2>1, <2>2 DEF Truthful
<1>5. \A k, i \in Int : i <= n /\ Expected(g, k, i) => Expected(g, k, i)'
  <2> SUFFICES ASSUME NEW k \in Int, NEW i \in Int, i <= n, Expected(g, k, i)
               PROVE  Expected(g, k, i)'
    OBVIOUS
  <2>1. \A j \in 1 .. i : tunIn'[j] = tunIn[j]
    BY <1>2
  <2> QED BY <2>1 DEF Expected, Has, Sends
<1>6. Unasked(g)'
  <2>1. ASSUME ~Asked(g), NEW i \in 1 .. Len(tunIn'), tunIn'[i].flow = g
        PROVE  tunIn'[i].kind = "syn"
    BY <1>2, <2>1 DEF Honest, Unasked, Sends
  <2>2. client'[g].acked = client[g].acked /\ (~Asked(g) => client'[g].sent = client[g].sent)
    BY DEF Sends
  <2> QED BY <1>3, <2>1, <2>2 DEF Honest, Unasked, Sends
<1>7. Numbered(g)'
  BY <1>3 DEF Honest, Numbered, Sends
<1>8. Told(g)'
  <2>1. \A m \in ToSet(tunOut[g]) : m.ack \in Int
    <3>1. \A m \in ToSet(tunOut[g]) : m \in Segments
      BY DEF Owned, Core, Typed, ToSet
    <3> QED BY <3>1 DEF Segments
  <2>2. client'[g].acked = client[g].acked /\ client[g].acked + 1 \in Int
    BY <1>1 DEF Sends
  <2>3. ASSUME Current(g) PROVE Truthful(g, client[g].acked + 1)'
    <3>1. \A c \in Int : c = client[g].acked + 1 => Truthful(g, c)'
      BY <1>4, <2>3 DEF Honest, Told
    <3> QED BY <2>2, <3>1
  <2>4. ASSUME Current(g), NEW m \in ToSet(tunOut[g]), m.kind \notin {"rst", "rstAck"},
               m.inc = server[g].conns
        PROVE  Truthful(g, m.ack)'
    BY <1>4, <2>1, <2>4 DEF Honest, Told
  <2>5. tunOut' = tunOut /\ server' = server
    BY DEF Sends
  <2> QED BY <1>3, <2>3, <2>4, <2>5 DEF Told
<1>9. Coming(g)'
  <2> SUFFICES ASSUME Current(g), Open(g) PROVE Coming(g)'
    BY <1>3 DEF Coming
  <2>1. sess' = sess /\ sess[g] \in Sessions /\ sess[g].clientSeq \in Int
    BY DEF Sends, Owned, Core, Typed, Open, Sessions
  <2>2. sess[g].state = "established" /\ Truthful(g, sess[g].clientSeq)'
    <3>1. sess[g].state = "established" /\ Truthful(g, sess[g].clientSeq)
      BY DEF Honest, Coming
    <3>2. \A c \in Int : c = sess[g].clientSeq => Truthful(g, c)'
      BY <1>4, <3>1
    <3> QED BY <2>1, <3>1, <3>2
  <2>3. ASSUME NEW k \in 1 .. client[g].sent PROVE Expected(g, k, Len(tunIn))' /\ \A i \in Int : i = n => Expected(g, k, i)'
    <3>1. Expected(g, k, n)
      BY DEF Honest, Coming
    <3>2. \A i \in Int : i = n => Expected(g, k, i)'
      BY <1>1, <1>2, <1>5, <3>1
    <3>3. \E i \in Int : i = n /\ Expected(g, k, i)'
      BY <1>2, <3>2
    <3> QED BY <1>2, <3>2, <3>3 DEF Expected
  <2>4. ASSUME NEW k \in 1 .. client'[g].sent PROVE Expected(g, k, Len(tunIn))'
    <3>1. CASE k <= client[g].sent
      BY <1>1, <2>3, <3>1
    <3>2. CASE p.flow = g /\ p.kind = "data" /\ p.seq = k
      <4>1. n + 1 \in 1 .. Len(tunIn')
        BY <1>2
      <4> QED BY <1>2, <3>2, <4>1 DEF Expected
    <3> QED BY <3>1, <3>2 DEF Sends
  <2>5. ASSUME NEW i \in 1 .. Len(tunIn'), tunIn'[i].flow = g, tunIn'[i].kind \in {"data", "fin"}
        PROVE  /\ tunIn'[i].kind = "data" => tunIn'[i].seq <= client'[g].sent
               /\ tunIn'[i].kind = "fin" => client'[g].fin /\ tunIn'[i].seq = client'[g].sent + 1
               /\ \A k \in 1 .. client'[g].sent : k < tunIn'[i].seq => Expected(g, k, i - 1)'
    <3>1. CASE i \in 1 .. n
      <4>1. /\ tunIn'[i] = tunIn[i]
            /\ tunIn[i].kind = "data" => tunIn[i].seq <= client[g].sent
            /\ tunIn[i].kind = "fin" => client[g].fin /\ tunIn[i].seq = client[g].sent + 1
            /\ \A k \in 1 .. client[g].sent : k < tunIn[i].seq => Expected(g, k, i - 1)
        BY <1>2, <2>5, <3>1 DEF Honest, Coming
      <4>2. tunIn[i].seq \in Nat /\ i - 1 \in Int /\ i - 1 <= n
        <5>1. tunIn[i] \in Packets
          BY <1>2, <2>5, <3>1, PacketsSound
        <5> QED BY <1>2, <3>1, <5>1, TcpRelayConstants DEF Packets
      <4>3. ASSUME NEW k \in 1 .. client'[g].sent, k < tunIn[i].seq PROVE Expected(g, k, i - 1)'
        <5>1. k \in 1 .. client[g].sent
          BY <1>1, <2>5, <4>1, <4>2, <4>3
        <5> QED BY <1>5, <4>1, <4>2, <4>3, <5>1
      <4>4. tunIn[i].kind = "data" => tunIn[i].seq <= client'[g].sent
        BY <1>1, <4>1, <4>2 DEF Sends
      <4>5. tunIn[i].kind = "fin" => client'[g].fin /\ tunIn[i].seq = client'[g].sent + 1
        BY <4>1 DEF Sends
      <4> QED BY <4>1, <4>3, <4>4, <4>5
    <3>2. CASE i = n + 1
      <4>1. /\ tunIn'[i] = p /\ p.seq \in 1 .. client[g].sent + 1
            /\ p.kind = "data" => p.seq <= client'[g].sent
            /\ p.kind = "fin" => client'[g].fin /\ p.seq = client'[g].sent + 1
        BY <1>2, <2>5, <3>2 DEF Sends
      <4>2. ASSUME NEW k \in 1 .. client'[g].sent, k < p.seq PROVE Expected(g, k, i - 1)'
        <5>1. k \in 1 .. client[g].sent /\ i - 1 \in Int /\ i - 1 = n
          BY <1>1, <1>2, <3>2, <4>1, <4>2
        <5> QED BY <2>3, <5>1
      <4> QED BY <4>1, <4>2
    <3> QED BY <1>2, <3>1, <3>2
  <2> QED BY <2>1, <2>2, <2>4, <2>5 DEF Coming
<1> QED BY <1>6, <1>7, <1>8, <1>9 DEF Honest

\* What the device's TCP writes is in order, or a byte it has no ACK for.
LEMMA ClientHonest ==
  ASSUME AckInv, Owned', NEW f \in Flows, Client(f)
  PROVE  \A g \in Flows : Honest(g)'
<1>1. /\ Owned /\ client \in [Flows -> Clients] /\ client[f] \in Clients /\ MaxUp \in Nat
      /\ client[f].sent \in Nat /\ client[f].acked \in Nat /\ Honest(f)
  <2>1. /\ Owned /\ client \in [Flows -> Clients] /\ client[f] \in Clients /\ MaxUp \in Nat
        /\ Honest(f)
    BY TcpRelayConstants DEF AckInv, Owned, Core, Typed
  <2> QED BY <2>1 DEF Clients
<1>2. UNCHANGED <<sess, server, tunOut>>
  BY DEF Client, ClientSyn, ClientData, ClientFin, ClientRetransmit, ClientAbort
<1>3. \A g \in Flows : g # f => client'[g] = client[g]
  BY <1>1 DEF Client, ClientSyn, ClientData, ClientFin, ClientRetransmit, ClientAbort
<1>4. \A k \in 1 .. client[f].sent : k <= client[f].sent
  BY <1>1
<1>5. \E p : p.flow = f /\ Sends(f, p)
  <2>1. CASE ClientSyn(f)
    <3> DEFINE p == Packet(f, "syn", 0, FALSE)
    <3>1. p.flow = f /\ p.kind = "syn"
      BY DEF Packet
    <3>2. /\ client[f].st \in {"new", "synSent"} /\ client'[f].st = "synSent"
          /\ client'[f].inc = client[f].inc /\ client'[f].acked = client[f].acked
          /\ client'[f].sent = client[f].sent /\ client'[f].fin = client[f].fin
      BY <1>1, <2>1 DEF ClientSyn, Clients
    <3>3. ~Asked(f) /\ Asked(f)' = Asked(f)
      BY <3>2 DEF Asked
    <3>4. Send(p)
      BY <2>1 DEF ClientSyn
    <3> HIDE DEF p
    <3>5. Sends(f, p)
      BY <1>1, <1>2, <1>4, <3>1, <3>2, <3>3, <3>4 DEF Sends
    <3> QED BY <3>1, <3>5
  <2>2. ASSUME NEW fin \in BOOLEAN, ClientData(f, fin) PROVE \E p : p.flow = f /\ Sends(f, p)
    <3> DEFINE p == Packet(f, "data", client[f].sent + 1, fin)
    <3>1. p.flow = f /\ p.kind = "data" /\ p.seq = client[f].sent + 1
      BY DEF Packet
    <3>2. /\ client[f].st = "open" /\ client'[f].st = "open" /\ ~client[f].fin
          /\ client'[f].inc = client[f].inc /\ client'[f].acked = client[f].acked
          /\ client'[f].sent = client[f].sent + 1
      BY <1>1, <2>2 DEF ClientData, Clients
    <3>3. Asked(f) /\ Asked(f)' = Asked(f)
      BY <3>2 DEF Asked
    <3>4. Send(p)
      BY <2>2 DEF ClientData
    <3> HIDE DEF p
    <3>5. Sends(f, p)
      BY <1>1, <1>2, <1>4, <3>1, <3>2, <3>3, <3>4 DEF Sends
    <3> QED BY <3>1, <3>5
  <2>3. CASE ClientFin(f)
    <3> DEFINE p == Packet(f, "fin", client[f].sent + 1, TRUE)
    <3>1. p.flow = f /\ p.kind = "fin" /\ p.seq = client[f].sent + 1
      BY DEF Packet
    <3>2. /\ client[f].st = "open" /\ client'[f].st = "open" /\ client'[f].fin
          /\ client'[f].inc = client[f].inc /\ client'[f].acked = client[f].acked
          /\ client'[f].sent = client[f].sent
      BY <1>1, <2>3 DEF ClientFin, Clients
    <3>3. Asked(f) /\ Asked(f)' = Asked(f)
      BY <3>2 DEF Asked
    <3>4. Send(p)
      BY <2>3 DEF ClientFin
    <3> HIDE DEF p
    <3>5. Sends(f, p)
      BY <1>1, <1>2, <1>4, <3>1, <3>2, <3>3, <3>4 DEF Sends
    <3> QED BY <3>1, <3>5
  <2>4. CASE ClientRetransmit(f)
    <3> DEFINE p == Packet(f, "data", client[f].acked + 1, FALSE)
    <3>1. p.flow = f /\ p.kind = "data" /\ p.seq = client[f].acked + 1
      BY DEF Packet
    <3>2. /\ client[f].st = "open" /\ client'[f].st = "open" /\ client'[f].fin = client[f].fin
          /\ client'[f].inc = client[f].inc /\ client'[f].acked = client[f].acked
          /\ client'[f].sent = client[f].sent /\ client[f].acked < client[f].sent
      BY <1>1, <2>4 DEF ClientRetransmit, Clients
    <3>3. Asked(f) /\ Asked(f)' = Asked(f)
      BY <3>2 DEF Asked
    <3>4. Send(p)
      BY <2>4 DEF ClientRetransmit
    <3> HIDE DEF p
    <3>5. Sends(f, p)
      BY <1>1, <1>2, <1>4, <3>1, <3>2, <3>3, <3>4 DEF Sends
    <3> QED BY <3>1, <3>5
  <2>5. CASE ClientAbort(f)
    <3> DEFINE p == Packet(f, "rst", 0, FALSE)
    <3>1. p.flow = f /\ p.kind = "rst"
      BY DEF Packet
    <3>2. /\ client[f].st = "open" /\ client'[f].st = "closed" /\ client'[f].fin = client[f].fin
          /\ client'[f].inc = client[f].inc /\ client'[f].acked = client[f].acked
          /\ client'[f].sent = client[f].sent
      BY <1>1, <2>5 DEF ClientAbort, Clients
    <3>3. Asked(f) /\ Asked(f)' = Asked(f)
      BY <3>2 DEF Asked
    <3>4. Send(p)
      BY <2>5 DEF ClientAbort
    <3> HIDE DEF p
    <3>5. Sends(f, p)
      BY <1>1, <1>2, <1>4, <3>1, <3>2, <3>3, <3>4 DEF Sends
    <3> QED BY <3>1, <3>5
  <2> QED BY <2>1, <2>2, <2>3, <2>4, <2>5 DEF Client
<1>6. PICK p : p.flow = f /\ Sends(f, p)
  BY <1>5
<1>7. ASSUME NEW g \in Flows, g # f PROVE Sends(g, p)
  <2>1. client'[g] = client[g] /\ client[g].sent \in Nat
    BY <1>1, <1>3, <1>7 DEF Clients
  <2>2. Asked(g)' = Asked(g)
    BY <2>1 DEF Asked
  <2> QED BY <1>2, <1>6, <1>7, <2>1, <2>2 DEF Sends
<1>8. ASSUME NEW g \in Flows PROVE Honest(g)'
  <2>1. Sends(g, p)
    BY <1>6, <1>7
  <2> QED BY <1>1, <2>1, SendsSound DEF AckInv
<1> QED BY <1>8

\* What a client makes of a segment, as far as acknowledgements go.
LEMMA ReceivedSays ==
  ASSUME NEW c \in Clients, NEW m \in Segments
  PROVE  LET r == Received(c, m) IN
         /\ r.sent = c.sent /\ r.fin = c.fin
         /\ \/ /\ c.st = "synSent" /\ m.kind = "synAck"
               /\ r.st = "open" /\ r.inc = m.inc /\ r.acked = c.acked
            \/ /\ r.inc = c.inc
               /\ r.st = c.st \/ (c.st = "open" /\ r.st = "closed")
               /\ \/ r.acked = c.acked
                  \/ c.st = "open" /\ m.kind \in {"data", "ack", "fin"} /\ r.acked = m.ack - 1
<1> DEFINE Rest(d) == d.sent = c.sent /\ d.fin = c.fin /\ d.inc = c.inc /\ d.st = c.st
<1>1. ASSUME NEW d \in Clients, Rest(d), d.acked = c.acked
      PROVE  /\ Rest(Acked(d, m))
             /\ Acked(d, m).acked = c.acked \/ Acked(d, m).acked = m.ack - 1
  BY <1>1 DEF Acked, Clients
<1>2. /\ [c EXCEPT !.got = Append(@, m.byte)] \in Clients
      /\ Rest([c EXCEPT !.got = Append(@, m.byte)])
      /\ [c EXCEPT !.got = Append(@, m.byte)].acked = c.acked
  <2>1. Append(c.got, m.byte) \in Seq(Nat)
    BY DEF Clients, Segments
  <2> QED BY <2>1 DEF Clients
<1>3. /\ [c EXCEPT !.gotFin = TRUE] \in Clients
      /\ Rest([c EXCEPT !.gotFin = TRUE]) /\ [c EXCEPT !.gotFin = TRUE].acked = c.acked
  BY DEF Clients
<1>4. Rest(c)
  OBVIOUS
<1> HIDE DEF Rest
<1>5. CASE c.st = "synSent" /\ m.kind = "synAck"
  BY <1>5 DEF Received, Clients
<1>6. CASE ~(c.st = "synSent" /\ m.kind = "synAck") /\ Received(c, m) = c
  BY <1>6
<1>7. CASE ~(c.st = "synSent" /\ m.kind = "synAck") /\ Received(c, m) # c
  <2>1. c.st = "open"
    BY <1>7 DEF Received
  <2>2. \/ m.kind = "data" /\ Received(c, m) = Acked([c EXCEPT !.got = Append(@, m.byte)], m)
        \/ m.kind = "ack" /\ Received(c, m) = Acked(c, m)
        \/ m.kind = "fin" /\ Received(c, m) = Acked([c EXCEPT !.gotFin = TRUE], m)
        \/ Received(c, m) = [c EXCEPT !.st = "closed"]
    BY <1>7, <2>1 DEF Received
  <2>3. CASE Received(c, m) = [c EXCEPT !.st = "closed"]
    BY <2>1, <2>3 DEF Clients
  <2>4. CASE Received(c, m) # [c EXCEPT !.st = "closed"]
    <3>1. /\ Rest(Received(c, m)) /\ m.kind \in {"data", "ack", "fin"}
          /\ Received(c, m).acked = c.acked \/ Received(c, m).acked = m.ack - 1
      BY <1>1, <1>2, <1>3, <1>4, <2>2, <2>4
    <3> QED BY <2>1, <3>1 DEF Rest
  <2> QED BY <2>3, <2>4
<1> QED BY <1>5, <1>6, <1>7

\* The client reads a segment, which told the truth when it was written.
LEMMA ClientReceiveHonest ==
  ASSUME AckInv, Owned', NEW f \in Flows, ClientReceive(f)
  PROVE  \A g \in Flows : Honest(g)'
<1> DEFINE c == client[f]
           m == Head(tunOut[f])
           r == Received(c, m)
<1>1. /\ Owned /\ client \in [Flows -> Clients] /\ c \in Clients /\ Honest(f)
      /\ tunOut \in [Flows -> Seq(Segments)] /\ tunOut[f] \in Seq(Segments) /\ tunOut[f] # <<>>
      /\ UNCHANGED <<sess, server, tunIn>>
  BY DEF AckInv, Owned, Core, Typed, ClientReceive
<1>2. /\ m \in Segments /\ m \in ToSet(tunOut[f])
      /\ \A x \in ToSet(Tail(tunOut[f])) : x \in ToSet(tunOut[f])
  <2>1. /\ m \in Segments /\ m = tunOut[f][1] /\ 1 \in DOMAIN tunOut[f]
        /\ \A i \in DOMAIN Tail(tunOut[f]) :
             i + 1 \in DOMAIN tunOut[f] /\ Tail(tunOut[f])[i] = tunOut[f][i + 1]
    BY <1>1
  <2> HIDE DEF m
  <2> QED BY <2>1 DEF ToSet
<1>3. /\ client'[f] = r /\ tunOut'[f] = Tail(tunOut[f])
      /\ \A g \in Flows : g # f => client'[g] = client[g] /\ tunOut'[g] = tunOut[g]
  BY <1>1 DEF ClientReceive
<1>4. /\ r.sent = c.sent /\ r.fin = c.fin
      /\ \/ /\ c.st = "synSent" /\ m.kind = "synAck"
            /\ r.st = "open" /\ r.inc = m.inc /\ r.acked = c.acked
         \/ /\ r.inc = c.inc
            /\ r.st = c.st \/ (c.st = "open" /\ r.st = "closed")
            /\ \/ r.acked = c.acked
               \/ c.st = "open" /\ m.kind \in {"data", "ack", "fin"} /\ r.acked = m.ack - 1
  BY <1>1, <1>2, ReceivedSays
<1>5. /\ m.ack \in Nat /\ c.acked \in Nat
      /\ \A x \in ToSet(tunOut'[f]) : x \in ToSet(tunOut[f])
  BY <1>1, <1>2, <1>3 DEF Segments, Clients
<1>11. Current(f) => m.inc = server[f].conns
  BY <1>1, <1>2, Recognised DEF AckInv, Lined, Current
<1> HIDE DEF r, c, m
<1>6. \A a : Truthful(f, a) => Truthful(f, a)'
  BY <1>1, <1>3, <1>4 DEF Truthful, Has, c
<1>7. ASSUME r.inc = c.inc,
             r.st = c.st \/ (c.st = "open" /\ r.st = "closed"),
             \/ r.acked = c.acked
             \/ c.st = "open" /\ m.kind \in {"data", "ack", "fin"} /\ r.acked = m.ack - 1
      PROVE  Honest(f)'
  <2>1. Asked(f)' = Asked(f) /\ Current(f)' = Current(f)
    BY <1>1, <1>3, <1>7 DEF Asked, Current, c
  <2>2. Unasked(f)'
    <3>1. ~Asked(f) => client'[f].acked = client[f].acked
      BY <1>3, <1>7 DEF Asked, c
    <3> QED BY <1>1, <1>3, <1>4, <1>5, <2>1, <3>1 DEF Honest, Unasked, c, Open
  <2>3. Numbered(f)'
    BY <1>1, <1>3, <1>5, <1>7 DEF Honest, Numbered, c, Open
  <2>4. Told(f)'
    <3>1. ASSUME Current(f), r.acked = c.acked PROVE Truthful(f, client[f].acked + 1)'
      <4>1. \A a : a = client[f].acked + 1 => Truthful(f, a)'
        BY <1>1, <1>6, <3>1 DEF Honest, Told
      <4> QED BY <1>3, <3>1, <4>1 DEF c
    <3>2. ASSUME Current(f), m.kind \in {"data", "ack", "fin"}, r.acked = m.ack - 1
          PROVE  Truthful(f, client[f].acked + 1)'
      <4>1. Truthful(f, m.ack)
        BY <1>1, <1>2, <1>11, <3>2 DEF Honest, Told
      <4>2. client'[f].acked + 1 = m.ack
        BY <1>3, <1>5, <3>2
      <4>3. \A a : a = m.ack => Truthful(f, a)'
        BY <1>6, <4>1
      <4> QED BY <4>2, <4>3
    <3>3. ASSUME Current(f), NEW x \in ToSet(tunOut'[f]), x.kind \notin {"rst", "rstAck"},
                 x.inc = server'[f].conns
          PROVE  Truthful(f, x.ack)'
      BY <1>1, <1>5, <1>6, <3>3 DEF Honest, Told
    <3> QED BY <1>7, <2>1, <3>1, <3>2, <3>3 DEF Told
  <2>5. Coming(f)'
    <3> SUFFICES ASSUME Current(f), Open(f) PROVE Coming(f)'
      BY <1>1, <2>1 DEF Coming, Open
    <3>1. \A k, n : Expected(f, k, n) => Expected(f, k, n)'
      BY <1>1 DEF Expected, Has
    <3>2. Truthful(f, sess[f].clientSeq)'
      BY <1>1, <1>6 DEF Honest, Coming
    <3> QED BY <1>1, <1>3, <1>4, <3>1, <3>2, ZenonT(60) DEF Honest, Coming, c
  <2> QED BY <2>2, <2>3, <2>4, <2>5 DEF Honest
<1>8. ASSUME c.st = "synSent", m.kind = "synAck",
             r.st = "open", r.inc = m.inc, r.acked = c.acked
      PROVE  Honest(f)'
  <2>1. /\ ~Asked(f) /\ Asked(f)' /\ client'[f].sent = 0 /\ client'[f].acked = 0
        /\ Open(f) => sess[f].clientSeq = 1
        /\ \A x \in ToSet(tunOut[f]) : x.ack = 1
        /\ \A i \in 1 .. Len(tunIn) : tunIn[i].flow = f => tunIn[i].kind = "syn"
    BY <1>1, <1>3, <1>4, <1>8 DEF Asked, c, Honest, Unasked
  <2>2. \A a \in {0 + 1, 1} : Truthful(f, a)'
    BY <2>1 DEF Truthful
  <2>3. Unasked(f)'
    BY <2>1 DEF Unasked
  <2>4. Numbered(f)'
    BY <1>1, <1>2, <1>3, <1>5, <1>8 DEF Honest, Numbered, Open
  <2>5. Told(f)'
    <3>1. Truthful(f, client[f].acked + 1)'
      BY <2>1, <2>2
    <3>2. \A x \in ToSet(tunOut'[f]) : Truthful(f, x.ack)'
      <4>1. \A x \in ToSet(tunOut'[f]) : x.ack = 1
        BY <1>5, <2>1
      <4> QED BY <2>2, <4>1
    <3> QED BY <3>1, <3>2 DEF Told
  <2>6. Coming(f)'
    <3> SUFFICES ASSUME Current(f)', Open(f) PROVE Coming(f)'
      BY <1>1 DEF Coming, Open
    <3>1. m.inc = server[f].conns
      BY <1>1, <1>3, <1>8 DEF Current
    <3>2. sess[f].state = "established"
      BY <1>1, <1>2, <1>8, <3>1 DEF Honest, Numbered
    <3>3. Truthful(f, sess[f].clientSeq)'
      BY <1>1, <2>1, <2>2
    <3> QED BY <1>1, <2>1, <3>2, <3>3 DEF Coming
  <2> QED BY <2>3, <2>4, <2>5, <2>6 DEF Honest
<1>9. Honest(f)'
  BY <1>4, <1>7, <1>8
<1>10. ASSUME NEW g \in Flows, g # f PROVE Honest(g)'
  BY <1>1, <1>3, <1>10, RestsSound DEF AckInv
<1> QED BY <1>9, <1>10

\* One handler preserves the truth of every flow's acknowledgements.
LEMMA HandleHonest ==
  ASSUME AckInv, NEW f \in Flows, Handle(f)
  PROVE  \A g \in Flows : Honest(g)'
<1>1. CASE TunSyn(f)
  BY <1>1, SilentHonest, ReplaceHonest DEF TunSyn
<1>2. CASE SocketRefused(f) \/ SocketEof(f) \/ SocketError(f)
  <2>1. Open(f)
    BY <1>2 DEF SocketRefused, SocketEof, SocketError, Reads, FromSocket, OwnersOf
  <2> QED BY <1>2, <2>1, LastWordHonest DEF SocketRefused, SocketEof, SocketError
<1>3. CASE TunNoSession(f) \/ TunRst(f) \/ SocketNotReadable(f) \/ SocketAgain(f)
  BY <1>3, SilentHonest
<1>4. CASE TunFin(f)
  BY <1>4, TunFinHonest
<1>5. CASE TunDataPending(f) \/ TunDataSent(f) \/ TunDataFailed(f)
  BY <1>5, TunDataPendingHonest, TunDataSentHonest, TunDataFailedHonest
<1>6. CASE SocketConnected(f)
  BY <1>6, SocketConnectedHonest
<1>7. ASSUME NEW n \in 1 .. MaxRead, SocketData(f, n) PROVE \A g \in Flows : Honest(g)'
  BY <1>7, SocketDataHonest
<1> QED BY <1>1, <1>2, <1>3, <1>4, <1>5, <1>6, <1>7 DEF Handle

\* One step preserves the truth of the acknowledgements.
LEMMA NextHonest ==
  ASSUME AckInv, [Next]_vars
  PROVE  AckInv'
<1>1. Owned /\ Owned' /\ server \in [Flows -> Servers] /\ sess \in [Flows -> Sessions \cup {None}]
  BY NextOwned DEF AckInv, Owned, Core, Typed
<1>8. Lined'
  BY <1>1, NextLined DEF AckInv
<1>2. CASE \E f \in Flows : Client(f)
  BY <1>1, <1>8, <1>2, ClientHonest DEF AckInv
<1>3. CASE \E f \in Flows : ClientReceive(f)
  BY <1>1, <1>8, <1>3, ClientReceiveHonest DEF AckInv
<1>4. ASSUME NEW fd \in Fds, Network(fd) PROVE AckInv'
  <2>1. UNCHANGED <<sess, tunIn, tunOut, client>>
    BY <1>4 DEF Network, ConnectEnds, ServerSends, ServerCloses, ServerResets
  <2>2. \A g \in Flows : /\ server'[g].conns = server[g].conns
                        /\ server'[g].got = server[g].got /\ server'[g].lost = server[g].lost
    <3>1. CASE ServerSends(fd)
      <4> DEFINE n == server[sock[fd].flow].sent + 1
      <4>1. \A g \in Flows : server'[g] = server[g] \/ server'[g] = [server[g] EXCEPT !.sent = n]
        BY <1>1, <1>8, <3>1 DEF ServerSends
      <4> HIDE DEF n
      <4> QED BY <1>1, <1>8, <4>1 DEF Servers
    <3>2. CASE ~ServerSends(fd)
      BY <1>4, <3>2 DEF Network, ConnectEnds, ServerCloses, ServerResets
    <3> QED BY <3>1, <3>2
  <2> QED BY <1>1, <1>8, <2>1, <2>2, RestsSound DEF AckInv
<1>5. CASE EpollWait \/ SocketNoSession \/ UNCHANGED vars
  <2>1. UNCHANGED <<sess, tunIn, tunOut, client, server>>
    BY <1>5 DEF EpollWait, SocketNoSession, vars
  <2> QED BY <1>1, <1>8, <2>1, RestsSound DEF AckInv
<1>6. CASE \E f \in Flows : Handle(f)
  BY <1>1, <1>8, <1>6, HandleHonest DEF AckInv
<1>7. ASSUME NEW f \in Flows, Expire(f) PROVE AckInv'
  <2>1. UNCHANGED <<tunIn, tunOut, client, server>>
    BY <1>7 DEF Expire
  <2>2. \A g \in Flows : sess'[g] = sess[g] \/ sess'[g] = None
    BY <1>1, <1>8, <1>7 DEF Expire, TcpRemove, SetSession
  <2> QED BY <1>1, <1>8, <2>1, <2>2, RestsSound DEF AckInv
<1> QED BY <1>2, <1>3, <1>4, <1>5, <1>6, <1>7 DEF Next, Environment, Engine

\* At the start nothing is acknowledged.
LEMMA InitHonest == Init => AckInv
<1> SUFFICES ASSUME Init, NEW f \in Flows PROVE Honest(f) /\ InOrder(f) /\ OneIsn(f)
  BY InitOwned DEF AckInv, Lined
<1>1. /\ client[f] = NewClient /\ server[f] = NewServer(0) /\ ~Open(f)
      /\ tunIn = <<>> /\ tunOut[f] = <<>>
  BY DEF Init, Open
<1>2. ToSet(tunOut[f]) = {}
  BY <1>1 DEF ToSet
<1>3. ~Asked(f) /\ client[f].sent = 0 /\ client[f].acked = 0 /\ client[f].inc = 0 /\ server[f].conns = 0
  BY <1>1 DEF Asked, NewClient, NewServer
<1>4. Bearers(f) = {} /\ Len(tunOut[f]) = 0
  BY <1>1, <1>2, <1>3 DEF Bearers
<1>5. InOrder(f) /\ OneIsn(f)
  BY <1>1, <1>3, <1>4 DEF InOrder, OneIsn
<1> QED BY <1>1, <1>2, <1>3, <1>5 DEF Honest, Unasked, Numbered, Told, Coming, Current

\* A client that took its ACKs from the latest session believes what is so.
LEMMA HonestDelivered == AckInv => AckedIsSent
<1> SUFFICES ASSUME AckInv, NEW f \in Flows, client[f].inc = server[f].conns,
                    NEW k \in 1 .. client[f].sent, k <= client[f].acked
             PROVE  Has(f, k)
  BY DEF AckedIsSent, Has
<1>1. Honest(f) /\ client[f].sent \in Nat /\ client[f].acked \in Nat /\ client[f] \in Clients
  <2>1. client[f] \in Clients
    BY DEF AckInv, Owned, Core, Typed
  <2> QED BY <2>1, TcpRelayConstants DEF AckInv, Clients
<1>2. Asked(f)
  BY <1>1 DEF Honest, Unasked
<1>3. Truthful(f, client[f].acked + 1)
  BY <1>1, <1>2 DEF Honest, Told, Current
<1> QED BY <1>1, <1>3 DEF Truthful, Has

\* What the relay acknowledges is true: a byte that the client of the latest
\* connection has an ACK for was given to send(), however segments are repeated
\* and sessions replaced or given up, whatever the session kept back before it
\* was connected, and however little send() takes.
THEOREM AcksTrue == Spec => []AckedIsSent
<1>1. Init => AckInv
  BY InitHonest
<1>2. AckInv /\ [Next]_vars => AckInv'
  BY NextHonest
<1>3. AckInv => AckedIsSent
  BY HonestDelivered
<1> QED BY <1>1, <1>2, <1>3, PTL DEF Spec

-----------------------------------------------------------------------------
(***************************************************************************)
(* The way down.  Of a flow whose client has, or will take, the session's  *)
(* ISN, the segments under that ISN are the SYN-ACK and after it each byte *)
(* once, in order, up to our_seq; what the socket holds comes next.  A     *)
(* session that is still connecting has sent nothing, because no event     *)
(* makes the engine read its socket: only one that is out of date could,   *)
(* and then the flow had a session before and its client another ISN.      *)
(***************************************************************************)

\* The data segments of an ISN.
Of(out, inc) == {i \in 1 .. Len(out) : out[i].kind = "data" /\ out[i].inc = inc}

\* They carry each byte after had and before next, once and in order.
Carries(out, inc, had, next) ==
  /\ had < next
  /\ \A i \in Of(out, inc) :
       out[i].seq = out[i].byte /\ had < out[i].byte /\ out[i].byte < next
  /\ \A i, j \in Of(out, inc) : i < j => out[i].byte < out[j].byte
  /\ \A k \in Nat : had < k /\ k < next => \E i \in Of(out, inc) : out[i].byte = k

\* A SYN-ACK goes before them.
Heralded(out, inc) ==
  \E i \in 1 .. Len(out) :
    out[i].kind = "synAck" /\ out[i].inc = inc /\ \A j \in Of(out, inc) : i < j

\* Two sequences, one after the other.
LEMMA Appended ==
  ASSUME NEW S, NEW q \in Seq(S), NEW r \in Seq(S)
  PROVE  /\ q \o r \in Seq(S) /\ Len(q) \in Nat /\ Len(r) \in Nat
         /\ Len(q \o r) = Len(q) + Len(r)
         /\ \A i \in 1 .. Len(q) : i \in 1 .. Len(q \o r) /\ (q \o r)[i] = q[i]
         /\ \A i \in 1 .. Len(r) : i + Len(q) \in 1 .. Len(q \o r) /\ (q \o r)[i + Len(q)] = r[i]
         /\ \A i \in 1 .. Len(q \o r) :
              \/ i \in 1 .. Len(q) /\ (q \o r)[i] = q[i]
              \/ i - Len(q) \in 1 .. Len(r) /\ Len(q) < i /\ (q \o r)[i] = r[i - Len(q)]
OBVIOUS

\* A sequence without its first element.
LEMMA Rest ==
  ASSUME NEW S, NEW q \in Seq(S), q # <<>>
  PROVE  /\ Tail(q) \in Seq(S) /\ Len(q) \in Nat /\ Len(Tail(q)) = Len(q) - 1
         /\ 1 \in 1 .. Len(q) /\ Head(q) = q[1] /\ Head(q) \in S
         /\ \A i \in 1 .. Len(Tail(q)) : i + 1 \in 1 .. Len(q) /\ Tail(q)[i] = q[i + 1]
         /\ \A i \in 1 .. Len(q) : i # 1 => i - 1 \in 1 .. Len(Tail(q)) /\ Tail(q)[i - 1] = q[i]
OBVIOUS

\* Segments of another kind or ISN make no difference.
LEMMA CarriesMore ==
  ASSUME NEW out \in Seq(Segments), NEW ms \in Seq(Segments), NEW inc, NEW had, NEW next,
         Carries(out, inc, had, next),
         \A i \in 1 .. Len(ms) : ms[i].kind # "data" \/ ms[i].inc # inc
  PROVE  Carries(out \o ms, inc, had, next)
<1> DEFINE all == out \o ms
<1>1. \A i \in Of(out, inc) : i \in Of(all, inc) /\ all[i] = out[i]
  BY Appended DEF Of
<1>2. \A i \in Of(all, inc) : i \in Of(out, inc)
  BY Appended DEF Of
<1> HIDE DEF all
<1>3. Carries(all, inc, had, next)
  BY <1>1, <1>2 DEF Carries
<1> QED BY <1>3 DEF all

\* Chunks that begin with next carry on from there.
LEMMA CarriesOn ==
  ASSUME NEW out \in Seq(Segments), NEW ms \in Seq(Segments), NEW inc,
         NEW had \in Nat, NEW next \in Nat, Carries(out, inc, had, next),
         \A i \in 1 .. Len(ms) :
           /\ ms[i].kind = "data" /\ ms[i].inc = inc
           /\ ms[i].seq = next - 1 + i /\ ms[i].byte = next - 1 + i
  PROVE  Carries(out \o ms, inc, had, next + Len(ms))
<1> DEFINE all == out \o ms
           n == Len(ms)
<1>1. n \in Nat /\ Len(out) \in Nat
  OBVIOUS
<1>2. \A i \in Of(out, inc) : i \in Of(all, inc) /\ all[i] = out[i] /\ i \in 1 .. Len(out)
  BY Appended DEF Of
<1>3. \A i \in 1 .. n : i + Len(out) \in Of(all, inc) /\ all[i + Len(out)] = ms[i]
  BY Appended DEF Of
<1>4. \A i \in Of(all, inc) :
        \/ i \in Of(out, inc) /\ all[i] = out[i] /\ i \in 1 .. Len(out)
        \/ i - Len(out) \in 1 .. n /\ all[i] = ms[i - Len(out)] /\ Len(out) < i /\ i \in Nat
  BY Appended DEF Of
<1>5. \A i \in Of(out, inc) :
        out[i].byte \in Nat /\ out[i].seq = out[i].byte /\ had < out[i].byte /\ out[i].byte < next
  <2>1. \A i \in Of(out, inc) : out[i] \in Segments
    BY DEF Of
  <2> QED BY <2>1 DEF Segments, Carries
<1> HIDE DEF all, n
<1>6. had < next + n
  BY <1>1 DEF Carries
<1>7. ASSUME NEW i \in Of(all, inc)
      PROVE  all[i].seq = all[i].byte /\ had < all[i].byte /\ all[i].byte < next + n
  <2>1. CASE i \in Of(out, inc) /\ all[i] = out[i]
    BY <1>1, <1>5, <2>1
  <2>2. CASE i - Len(out) \in 1 .. n /\ all[i] = ms[i - Len(out)]
    <3>1. PICK j \in 1 .. n : all[i] = ms[j]
      BY <2>2
    <3>2. all[i].seq = next - 1 + j /\ all[i].byte = next - 1 + j
      BY <3>1 DEF n
    <3> QED BY <1>1, <3>2 DEF Carries
  <2> QED BY <1>4, <2>1, <2>2
<1>8. ASSUME NEW i \in Of(all, inc), NEW j \in Of(all, inc), i < j
      PROVE  all[i].byte < all[j].byte
  <2>1. CASE i \in Of(out, inc) /\ j \in Of(out, inc)
    BY <1>2, <1>8, <2>1 DEF Carries
  <2>2. CASE i \in Of(out, inc) /\ j \notin Of(out, inc)
    <3>1. PICK k \in 1 .. n : all[j] = ms[k]
      BY <1>4, <2>2
    <3>2. all[j].byte = next - 1 + k
      BY <3>1 DEF n
    <3>3. all[i].byte \in Nat /\ all[i].byte < next
      BY <1>2, <1>5, <2>2
    <3> QED BY <1>1, <3>2, <3>3
  <2>3. CASE i \notin Of(out, inc) /\ j \in Of(out, inc)
    <3>1. Len(out) < i /\ i \in Nat
      BY <1>4, <2>3
    <3>2. j \in 1 .. Len(out)
      BY <1>2, <2>3
    <3> QED BY <1>1, <1>8, <3>1, <3>2
  <2>4. CASE i \notin Of(out, inc) /\ j \notin Of(out, inc)
    <3>1. /\ i \in Nat /\ j \in Nat /\ i - Len(out) \in 1 .. n /\ j - Len(out) \in 1 .. n
          /\ all[i] = ms[i - Len(out)] /\ all[j] = ms[j - Len(out)]
      BY <1>4, <2>4
    <3>2. all[i].byte = next - 1 + (i - Len(out)) /\ all[j].byte = next - 1 + (j - Len(out))
      BY <3>1 DEF n
    <3> QED BY <1>1, <1>8, <3>1, <3>2
  <2> QED BY <2>1, <2>2, <2>3, <2>4
<1>9. ASSUME NEW k \in Nat, had < k, k < next + n
      PROVE  \E i \in Of(all, inc) : all[i].byte = k
  <2>1. CASE k < next
    BY <1>2, <1>9, <2>1 DEF Carries
  <2>2. CASE ~(k < next)
    <3>1. k - next + 1 \in 1 .. n
      BY <1>1, <1>9, <2>2
    <3>2. ms[k - next + 1].byte = next - 1 + (k - next + 1)
      BY <3>1 DEF n
    <3>3. next - 1 + (k - next + 1) = k
      BY <1>1, <1>9
    <3>4. PICK i \in Of(all, inc) : all[i] = ms[k - next + 1]
      BY <1>3, <3>1
    <3> QED BY <3>2, <3>3, <3>4
  <2> QED BY <2>1, <2>2
<1>10. Carries(all, inc, had, next + n)
  BY <1>6, <1>7, <1>8, <1>9 DEF Carries
<1> QED BY <1>10 DEF all, n

\* The client takes a segment of another kind or ISN: the bytes are the same.
LEMMA CarriesRest ==
  ASSUME NEW out \in Seq(Segments), out # <<>>, NEW inc, NEW had, NEW next,
         Carries(out, inc, had, next),
         Head(out).kind # "data" \/ Head(out).inc # inc
  PROVE  Carries(Tail(out), inc, had, next)
<1> DEFINE rest == Tail(out)
<1>1. \A i \in Of(rest, inc) : i + 1 \in Of(out, inc) /\ rest[i] = out[i + 1] /\ i \in Nat
  BY Rest DEF Of
<1>2. \A i \in Of(out, inc) : i - 1 \in Of(rest, inc) /\ rest[i - 1] = out[i]
  BY Rest DEF Of
<1> HIDE DEF rest
<1>3. \A i, j \in Of(rest, inc) : i < j => rest[i].byte < rest[j].byte
  BY <1>1 DEF Carries
<1>4. Carries(rest, inc, had, next)
  BY <1>1, <1>2, <1>3 DEF Carries
<1> QED BY <1>4 DEF rest

\* The first data segment carries the byte the client waits for.
LEMMA CarriesNext ==
  ASSUME NEW out \in Seq(Segments), out # <<>>, NEW inc, NEW had \in Nat, NEW next \in Nat,
         Carries(out, inc, had, next), Head(out).kind = "data", Head(out).inc = inc
  PROVE  /\ Head(out).seq = had + 1 /\ Head(out).byte = had + 1
         /\ Carries(Tail(out), inc, had + 1, next)
<1> DEFINE rest == Tail(out)
<1>1. /\ 1 \in Of(out, inc) /\ Head(out) = out[1]
      /\ \A i \in Of(out, inc) : i = 1 \/ 1 < i
      /\ \A i \in Of(out, inc) : out[i].byte \in Nat
  <2>1. \A i \in Of(out, inc) : out[i] \in Segments
    BY DEF Of
  <2>2. \A i \in Of(out, inc) : out[i].byte \in Nat
    BY <2>1 DEF Segments
  <2> QED BY <2>2, Rest DEF Of
<1>2. \A i \in Of(rest, inc) : i + 1 \in Of(out, inc) /\ rest[i] = out[i + 1] /\ i \in Nat /\ 1 < i + 1
  BY Rest DEF Of
<1>3. \A i \in Of(out, inc) : i # 1 => i - 1 \in Of(rest, inc) /\ rest[i - 1] = out[i]
  BY Rest DEF Of
<1> HIDE DEF rest
<1>4. out[1].seq = out[1].byte /\ had < out[1].byte /\ out[1].byte < next
  BY <1>1 DEF Carries
<1>5. out[1].byte = had + 1
  <2>1. PICK i \in Of(out, inc) : out[i].byte = had + 1
    <3>1. had + 1 \in Nat /\ had < had + 1 /\ had + 1 < next
      BY <1>1, <1>4
    <3> QED BY <3>1 DEF Carries
  <2>2. i # 1 => out[1].byte < had + 1
    BY <1>1, <2>1 DEF Carries
  <2> QED BY <1>1, <1>4, <2>1, <2>2
<1>6. had + 1 < next
  BY <1>4, <1>5
<1>7. ASSUME NEW i \in Of(rest, inc)
      PROVE  rest[i].seq = rest[i].byte /\ had + 1 < rest[i].byte /\ rest[i].byte < next
  BY <1>1, <1>2, <1>5, <1>7 DEF Carries
<1>8. \A i, j \in Of(rest, inc) : i < j => rest[i].byte < rest[j].byte
  BY <1>2 DEF Carries
<1>9. ASSUME NEW k \in Nat, had + 1 < k, k < next
      PROVE  \E i \in Of(rest, inc) : rest[i].byte = k
  <2>1. PICK i \in Of(out, inc) : out[i].byte = k
    BY <1>9 DEF Carries
  <2>2. i # 1
    BY <1>5, <1>9, <2>1
  <2> QED BY <1>3, <2>1, <2>2
<1>10. Carries(rest, inc, had + 1, next)
  BY <1>6, <1>7, <1>8, <1>9 DEF Carries
<1> QED BY <1>1, <1>4, <1>5, <1>10 DEF rest

\* The herald stays ahead, until it is the one taken.
LEMMA HeraldedStays ==
  ASSUME NEW out \in Seq(Segments), NEW inc, Heralded(out, inc)
  PROVE  /\ \A ms \in Seq(Segments) : Heralded(out \o ms, inc)
         /\ out # <<>>
         /\ ~(Head(out).kind = "data" /\ Head(out).inc = inc)
         /\ ~(Head(out).kind = "synAck" /\ Head(out).inc = inc) => Heralded(Tail(out), inc)
<1>1. PICK h \in 1 .. Len(out) :
        out[h].kind = "synAck" /\ out[h].inc = inc /\ \A j \in Of(out, inc) : h < j
  BY DEF Heralded
<1>2. ASSUME NEW ms \in Seq(Segments) PROVE Heralded(out \o ms, inc)
  <2> DEFINE all == out \o ms
  <2>1. h \in 1 .. Len(all) /\ all[h] = out[h]
    BY Appended
  <2>2. \A j \in Of(all, inc) : j \in Of(out, inc) \/ h < j
    BY Appended DEF Of
  <2> HIDE DEF all
  <2>3. Heralded(all, inc)
    BY <1>1, <2>1, <2>2 DEF Heralded
  <2> QED BY <2>3 DEF all
<1>3. out # <<>>
  BY <1>1
<1>4. ~(Head(out).kind = "data" /\ Head(out).inc = inc)
  BY <1>1, <1>3, Rest DEF Of
<1>5. ASSUME ~(Head(out).kind = "synAck" /\ Head(out).inc = inc)
      PROVE  Heralded(Tail(out), inc)
  <2> DEFINE rest == Tail(out)
  <2>1. h # 1 /\ h - 1 \in 1 .. Len(rest) /\ rest[h - 1] = out[h]
    BY <1>1, <1>3, <1>5, Rest
  <2>2. \A j \in Of(rest, inc) : j + 1 \in Of(out, inc) /\ j \in Nat
    BY <1>3, Rest DEF Of
  <2>3. \A j \in Of(rest, inc) : h - 1 < j
    BY <1>1, <2>2
  <2> HIDE DEF rest
  <2>4. Heralded(rest, inc)
    BY <1>1, <2>1, <2>3 DEF Heralded
  <2> QED BY <2>4 DEF rest
<1> QED BY <1>2, <1>3, <1>4, <1>5

\* A flow's ISNs follow one another.
InSequence(f) ==
  /\ client[f].inc <= server[f].conns
  /\ Open(f) => sess[f].inc = server[f].conns
  /\ \A i \in 1 .. Len(tunOut[f]) : tunOut[f][i].inc <= server[f].conns
  /\ \A i, j \in 1 .. Len(tunOut[f]) : i < j => tunOut[f][i].inc <= tunOut[f][j].inc

\* Nobody has heard of a client that has not asked, nor has it heard anything.
Unheard(f) ==
  /\ client[f].st = "new" =>
       /\ ~Open(f) /\ tunOut[f] = <<>>
       /\ \A i \in 1 .. Len(tunIn) : tunIn[i].flow # f
  /\ ~Asked(f) => client[f].got = <<>> /\ ~client[f].gotFin

\* The client has taken the session's ISN, or no SYN-ACK of another is ahead.
Ours(f) ==
  /\ Open(f)
  /\ Asked(f) => client[f].st = "open" /\ client[f].inc = sess[f].inc
  /\ ~Asked(f) =>
       \A i \in 1 .. Len(tunOut[f]) : tunOut[f][i].kind = "synAck" => tunOut[f][i].inc = sess[f].inc

\* The number of the next byte; the SYN-ACK has number 0.
NextByte(f) == IF sess[f].state = "synSent" THEN 1 ELSE sess[f].ourSeq

Rx(f) == sock[sess[f].fd].rx

\* A session that is connecting has written nothing, the ISN is not known.
Awaits(f) ==
  sess[f].state = "synSent" =>
    /\ ~Asked(f) /\ sess[f].ourSeq = 0
    /\ \A i \in 1 .. Len(tunOut[f]) : tunOut[f][i].inc # sess[f].inc

\* The client takes the SYN-ACK before the bytes, and no end before the session's.
Opens(f) ==
  /\ sess[f].state = "established" /\ ~Asked(f) => Heralded(tunOut[f], sess[f].inc)
  /\ ~client[f].gotFin
  /\ \A i \in 1 .. Len(tunOut[f]) : tunOut[f][i].inc = sess[f].inc =>
       tunOut[f][i].kind \in {"synAck", "ack", "data"}

\* Read by the client, on its way, and unread by the engine.
Flowing(f) ==
  /\ \A i \in 1 .. Len(client[f].got) : client[f].got[i] = i
  /\ Carries(tunOut[f], sess[f].inc, Len(client[f].got), NextByte(f))
  /\ \A i \in 1 .. Len(Rx(f)) : Rx(f)[i] = NextByte(f) - 1 + i
  /\ server[f].sent = NextByte(f) - 1 + Len(Rx(f))

Down(f) == InSequence(f) /\ Unheard(f) /\ (Ours(f) => Awaits(f) /\ Opens(f) /\ Flowing(f))

\* A socket still connecting is watched for its end, and has nothing to read.
Watched ==
  /\ \A f \in Flows : Open(f) /\ sess[f].state = "synSent" => sock[sess[f].fd].watchOut
  /\ \A fd \in Fds : sock[fd] # None /\ sock[fd].conn = "connecting" => ~Readable(sock[fd])

\* An event that is not the end of connect() finds a session still connecting
\* only if the flow had one before.  Until the tunnel's event is handled no
\* event of the batch is for a descriptor that is free.
Fresh ==
  /\ \A i, j \in 1 .. Len(batch) :
       batch[i].fd = Tun /\ batch[j].fd # Tun => sock[batch[j].fd] # None
  /\ \A i \in 1 .. Len(batch) : \A f \in Flows :
       batch[i].in /\ ~batch[i].out /\ Open(f) /\ sess[f].fd = batch[i].fd =>
         sess[f].state = "established" \/ ~Ours(f)

DownInv == Owned /\ Lined /\ Watched /\ Fresh /\ \A f \in Flows : Down(f)

\* Types of what the invariant is about.
LEMMA DownTyped ==
  ASSUME Owned, NEW f \in Flows
  PROVE  /\ client[f] \in Clients /\ server[f] \in Servers /\ tunOut[f] \in Seq(Segments)
         /\ client[f].got \in Seq(Nat) /\ Len(client[f].got) \in Nat /\ server[f].sent \in Nat
         /\ server[f].conns \in Nat /\ Len(tunOut[f]) \in Nat /\ tunIn \in Seq(Letters)
         /\ \A i \in 1 .. Len(tunOut[f]) : tunOut[f][i] \in Segments
         /\ Open(f) => /\ sess[f] \in Sessions /\ sess[f].fd \in Fds
                       /\ sess[f].inc \in Nat /\ sess[f].ourSeq \in Nat /\ NextByte(f) \in Nat
                       /\ sock[sess[f].fd] \in Sockets /\ sock[sess[f].fd].flow = f
                       /\ Rx(f) \in Seq(1 .. MaxDown) /\ Len(Rx(f)) \in Nat
<1>1. PICK others, mail : Typed(others, mail) /\ Foreign(others, mail) /\ Owns
  BY DEF Owned, Core
<1>2. client[f] \in Clients /\ server[f] \in Servers /\ tunOut[f] \in Seq(Segments) /\ tunIn \in Seq(Letters)
  BY <1>1, LettersSound DEF Typed
<1>3. client[f].got \in Seq(Nat) /\ Len(client[f].got) \in Nat /\ server[f].conns \in Nat
  BY <1>2 DEF Clients, Servers
<1>4. server[f].sent \in Nat
  BY <1>2, TcpRelayConstants DEF Servers
<1>5. Len(tunOut[f]) \in Nat /\ \A i \in 1 .. Len(tunOut[f]) : tunOut[f][i] \in Segments
  BY <1>2
<1>6. ASSUME Open(f)
      PROVE  /\ sess[f] \in Sessions /\ sess[f].fd \in Fds
             /\ sess[f].inc \in Nat /\ sess[f].ourSeq \in Nat /\ NextByte(f) \in Nat
             /\ sock[sess[f].fd] \in Sockets /\ sock[sess[f].fd].flow = f
             /\ Rx(f) \in Seq(1 .. MaxDown) /\ Len(Rx(f)) \in Nat
  <2>1. /\ sess[f] \in Sessions /\ sess[f].fd \in Fds
        /\ sock[sess[f].fd] \in Sockets /\ sock[sess[f].fd].flow = f
    BY <1>1, <1>6, OpenTyped
  <2>2. sess[f].inc \in Nat /\ sess[f].ourSeq \in Nat /\ NextByte(f) \in Nat
    BY <2>1 DEF Sessions, NextByte
  <2>3. Rx(f) \in Seq(1 .. MaxDown)
    BY <2>1 DEF Sockets, Rx
  <2> QED BY <2>1, <2>2, <2>3
<1> QED BY <1>2, <1>3, <1>4, <1>5, <1>6

\* What a step of the engine that neither connects nor reads does to a flow: it
\* may take a packet, send ACKs of an established session, or end the session,
\* whatever it sends then.
Leaves(f) ==
  /\ client'[f] = client[f]
  /\ server'[f].conns = server[f].conns /\ server'[f].sent = server[f].sent
  /\ tunIn' = tunIn \/ (tunIn # <<>> /\ tunIn' = Tail(tunIn))
  /\ \E ms \in Seq(Segments) :
       /\ tunOut'[f] = tunOut[f] \o ms
       /\ ms # <<>> => Open(f)
       /\ \A i \in 1 .. Len(ms) :
            /\ ms[i].inc = sess[f].inc
            /\ Open(f)' => ms[i].kind = "ack" /\ sess[f].state = "established"
  /\ Open(f)' =>
       /\ Open(f)
       /\ sess'[f].inc = sess[f].inc /\ sess'[f].state = sess[f].state
       /\ sess'[f].ourSeq = sess[f].ourSeq /\ Rx(f)' = Rx(f)

\* Segments of the session's ISN, appended, keep the ISNs in sequence.
LEMMA InSequenceMore ==
  ASSUME Owned, NEW f \in Flows, InSequence(f), NEW ms \in Seq(Segments),
         tunOut'[f] = tunOut[f] \o ms, ms # <<>> => Open(f),
         \A i \in 1 .. Len(ms) : ms[i].inc = sess[f].inc,
         server'[f].conns = server[f].conns, client'[f].inc <= server[f].conns,
         Open(f)' => sess'[f].inc = server[f].conns
  PROVE  InSequence(f)'
<1> DEFINE out == tunOut[f]
           all == out \o ms
<1>1. /\ out \in Seq(Segments) /\ server[f].conns \in Nat
      /\ \A i \in 1 .. Len(out) : out[i].inc \in Nat
  BY DownTyped DEF Segments
<1>2. \A i \in 1 .. Len(ms) : ms[i].inc = server[f].conns
  BY DEF InSequence
<1>3. \A i \in 1 .. Len(all) :
        \/ i \in 1 .. Len(out) /\ all[i] = out[i] /\ all[i].inc <= server[f].conns
        \/ Len(out) < i /\ all[i].inc = server[f].conns
  <2>1. \A i \in 1 .. Len(all) :
          \/ i \in 1 .. Len(out) /\ all[i] = out[i]
          \/ i - Len(out) \in 1 .. Len(ms) /\ Len(out) < i /\ all[i] = ms[i - Len(out)]
    BY <1>1, Appended
  <2>2. \A i \in 1 .. Len(out) : out[i].inc <= server[f].conns
    BY DEF InSequence
  <2> HIDE DEF out, all
  <2> QED BY <1>2, <2>1, <2>2
<1>4. Len(out) \in Nat /\ Len(all) \in Nat
  BY <1>1, Appended
<1>5. \A i, j \in 1 .. Len(out) : i < j => out[i].inc <= out[j].inc
  BY DEF InSequence
<1> HIDE DEF out, all
<1>6. \A i \in 1 .. Len(all) : all[i].inc <= server[f].conns
  BY <1>1, <1>3
<1>7. ASSUME NEW i \in 1 .. Len(all), NEW j \in 1 .. Len(all), i < j
      PROVE  all[i].inc <= all[j].inc
  <2>1. CASE j \in 1 .. Len(out) /\ all[j] = out[j]
    <3>1. i \in 1 .. Len(out) /\ all[i] = out[i]
      BY <1>3, <1>4, <1>7, <2>1
    <3> QED BY <1>5, <1>7, <2>1, <3>1
  <2>2. CASE all[j].inc = server[f].conns
    BY <1>6, <2>2
  <2> QED BY <1>3, <2>1, <2>2
<1>8. tunOut'[f] = all
  BY DEF all, out
<1> QED BY <1>6, <1>7, <1>8 DEF InSequence

\* A step that leaves a flow preserves what is said of it.
LEMMA LeavesSound ==
  ASSUME Owned, NEW f \in Flows, Down(f), Leaves(f)
  PROVE  /\ Down(f)'
         /\ Ours(f)' => Ours(f)
<1> DEFINE out == tunOut[f]
           n == Len(tunOut[f])
<1>1. PICK ms \in Seq(Segments) :
        /\ tunOut'[f] = out \o ms
        /\ ms # <<>> => Open(f)
        /\ \A i \in 1 .. Len(ms) :
             /\ ms[i].inc = sess[f].inc
             /\ Open(f)' => ms[i].kind = "ack" /\ sess[f].state = "established"
  BY DEF Leaves
<1>2. /\ out \in Seq(Segments) /\ client'[f] = client[f]
      /\ Asked(f)' = Asked(f)
      /\ server'[f].conns = server[f].conns /\ server'[f].sent = server[f].sent
      /\ InSequence(f) /\ Unheard(f)
  BY DownTyped DEF Leaves, Asked, Down
<1>3. /\ \A i \in 1 .. n : i \in 1 .. Len(tunOut'[f]) /\ tunOut'[f][i] = out[i]
      /\ \A i \in 1 .. Len(tunOut'[f]) :
           \/ i \in 1 .. n /\ tunOut'[f][i] = out[i]
           \/ \E j \in 1 .. Len(ms) : tunOut'[f][i] = ms[j]
  BY <1>1, <1>2, Appended, SMTT(40)
<1>4. Open(f)' => Open(f) /\ sess'[f].inc = sess[f].inc
  BY DEF Leaves
<1>5. Ours(f)' => Ours(f)
  BY <1>2, <1>3, <1>4 DEF Ours
<1>6. InSequence(f)'
  <2>1. client'[f].inc <= server[f].conns /\ (Open(f)' => sess'[f].inc = server[f].conns)
    BY <1>2, <1>4 DEF InSequence
  <2> QED BY <1>1, <1>2, <2>1, InSequenceMore
<1>7. Unheard(f)'
  <2>1. ASSUME client[f].st = "new"
        PROVE  /\ ~Open(f)' /\ tunOut'[f] = <<>>
               /\ \A i \in 1 .. Len(tunIn') : tunIn'[i].flow # f
    <3>1. ~Open(f) /\ out = <<>> /\ \A i \in 1 .. Len(tunIn) : tunIn[i].flow # f
      BY <1>2, <2>1 DEF Unheard
    <3>2. ms = <<>> /\ tunOut'[f] = <<>>
      BY <1>1, <3>1
    <3>3. \A i \in 1 .. Len(tunIn') : \E j \in 1 .. Len(tunIn) : tunIn'[i] = tunIn[j]
      BY DownTyped, TakenAhead DEF Leaves
    <3> QED BY <1>4, <3>1, <3>2, <3>3
  <2> QED BY <1>2, <2>1 DEF Unheard
<1>8. ASSUME Ours(f)' PROVE Awaits(f)' /\ Opens(f)' /\ Flowing(f)'
  <2>1. /\ Open(f)' /\ Open(f) /\ Ours(f) /\ Awaits(f) /\ Opens(f) /\ Flowing(f)
        /\ sess'[f].inc = sess[f].inc /\ sess'[f].state = sess[f].state
        /\ sess'[f].ourSeq = sess[f].ourSeq /\ Rx(f)' = Rx(f) /\ NextByte(f)' = NextByte(f)
    BY <1>5, <1>8 DEF Leaves, Down, Ours, NextByte
  <2>2. \A i \in 1 .. Len(tunOut'[f]) :
          \/ i \in 1 .. n /\ tunOut'[f][i] = out[i]
          \/ tunOut'[f][i].kind = "ack" /\ sess[f].state = "established"
    BY <1>1, <1>3, <2>1
  <2>3. Awaits(f)'
    BY <1>2, <2>1, <2>2 DEF Awaits, Sessions
  <2>4. Opens(f)'
    <3>1. Heralded(out, sess[f].inc) => Heralded(out \o ms, sess[f].inc)
      BY <1>2, HeraldedStays
    <3> QED BY <1>1, <1>2, <2>1, <2>2, <3>1 DEF Opens
  <2>5. Flowing(f)'
    <3>1. \A i \in 1 .. Len(ms) : ms[i].kind # "data" \/ ms[i].inc # sess[f].inc
      BY <1>1, <2>1
    <3>2. Carries(out \o ms, sess[f].inc, Len(client[f].got), NextByte(f))
      BY <1>2, <2>1, <3>1, CarriesMore DEF Flowing
    <3> QED BY <1>1, <1>2, <2>1, <3>2 DEF Flowing
  <2> QED BY <2>3, <2>4, <2>5
<1> QED BY <1>5, <1>6, <1>7, <1>8 DEF Down


\* A flow nothing happens to is left.
LEMMA RestsDown ==
  ASSUME Owned, NEW g \in Flows, Down(g),
         client'[g] = client[g], server'[g].conns = server[g].conns, server'[g].sent = server[g].sent,
         tunOut'[g] = tunOut[g], tunIn' = tunIn \/ (tunIn # <<>> /\ tunIn' = Tail(tunIn)),
         sess'[g] = None \/ (sess'[g] = sess[g] /\ (Open(g) => Rx(g)' = Rx(g)))
  PROVE  Down(g)' /\ (Ours(g)' => Ours(g))
<1> DEFINE ms == << >>
<1>1. ms \in Seq(Segments) /\ tunOut'[g] = tunOut[g] \o ms /\ Len(ms) = 0 /\ ms = << >>
  BY DownTyped
<1> HIDE DEF ms
<1>2. \A i \in 1 .. Len(ms) : FALSE
  BY <1>1
<1>3. Leaves(g)
  BY <1>1, <1>2 DEF Leaves, Open
<1> QED BY <1>3, LeavesSound

\* A batch that stays is as fresh as it was.
LEMMA FreshStays ==
  ASSUME Owned, Fresh, batch' = batch, sess' = sess,
         \A fd \in Fds : sock'[fd] = None => sock[fd] = None,
         \A g \in Flows : Ours(g)' => Ours(g)
  PROVE  Fresh'
<1>1. \A i \in 1 .. Len(batch) : batch[i].fd # Tun => batch[i].fd \in Fds
  <2>1. \A i \in 1 .. Len(batch) : batch[i] \in Events
    BY DEF Owned, Core, Typed, BatchOK
  <2> QED BY <2>1 DEF Events
<1> QED BY <1>1 DEF Fresh, Open

\* What the client writes changes nothing on the way down.
LEMMA ClientDown ==
  ASSUME DownInv, NEW f \in Flows, Client(f)
  PROVE  Fresh' /\ Watched' /\ \A g \in Flows : Down(g)'
<1>1. Owned /\ Watched /\ Fresh /\ \A g \in Flows : Down(g)
  BY DEF DownInv
<1>2. UNCHANGED <<sess, sock, batch, tunOut, server>>
  BY DEF Client, ClientSyn, ClientData, ClientFin, ClientRetransmit, ClientAbort
<1>3. client[f] \in Clients /\ client \in [Flows -> Clients] /\ tunIn \in Seq(Letters)
  BY <1>1, LettersSound DEF Owned, Core, Typed
<1>4. /\ \A g \in Flows \ {f} : client'[g] = client[g]
      /\ client'[f].inc = client[f].inc /\ client'[f].got = client[f].got
      /\ client'[f].gotFin = client[f].gotFin /\ client'[f].st # "new"
      /\ Asked(f)' = Asked(f) /\ (client'[f].st = "open" => client[f].st = "open")
  <2> DEFINE c == client[f]
             Alike(d) == /\ d.inc = c.inc /\ d.got = c.got /\ d.gotFin = c.gotFin
                         /\ \/ d.st = c.st /\ c.st = "open"
                            \/ d.st = "synSent" /\ c.st \in {"new", "synSent"}
                            \/ d.st = "closed" /\ c.st = "open"
  <2>1. \E d : Alike(d) /\ client' = [client EXCEPT ![f] = d]
    <3>1. CASE ClientSyn(f)
      <4> DEFINE r == IF c.st = "new" THEN 0 ELSE c.resent + 1
                 d == [c EXCEPT !.st = "synSent", !.resent = r]
      <4>1. client' = [client EXCEPT ![f] = d]
        BY <1>3, <3>1 DEF ClientSyn
      <4>2. Alike(d)
        BY <1>3, <3>1 DEF ClientSyn, Clients
      <4> QED BY <4>1, <4>2
    <3>2. ASSUME NEW fin \in BOOLEAN, ClientData(f, fin)
          PROVE  \E d : Alike(d) /\ client' = [client EXCEPT ![f] = d]
      <4> DEFINE d == [c EXCEPT !.sent = c.sent + 1, !.fin = fin]
      <4>1. client' = [client EXCEPT ![f] = d]
        BY <1>3, <3>2 DEF ClientData
      <4>2. Alike(d)
        BY <1>3, <3>2 DEF ClientData, Clients
      <4> QED BY <4>1, <4>2
    <3>3. CASE ClientFin(f)
      <4>1. client' = [client EXCEPT ![f] = [c EXCEPT !.fin = TRUE]]
        BY <1>3, <3>3 DEF ClientFin
      <4>2. Alike([c EXCEPT !.fin = TRUE])
        BY <1>3, <3>3 DEF ClientFin, Clients
      <4> QED BY <4>1, <4>2
    <3>4. CASE ClientRetransmit(f)
      <4>1. client' = [client EXCEPT ![f] = [c EXCEPT !.resent = c.resent + 1]]
        BY <1>3, <3>4 DEF ClientRetransmit
      <4>2. Alike([c EXCEPT !.resent = c.resent + 1])
        BY <1>3, <3>4 DEF ClientRetransmit, Clients
      <4> QED BY <4>1, <4>2
    <3>5. CASE ClientAbort(f)
      <4>1. client' = [client EXCEPT ![f] = [c EXCEPT !.st = "closed"]]
        BY <1>3, <3>5 DEF ClientAbort
      <4>2. Alike([c EXCEPT !.st = "closed"])
        BY <1>3, <3>5 DEF ClientAbort, Clients
      <4> QED BY <4>1, <4>2
    <3> HIDE DEF Alike
    <3> QED BY <3>1, <3>2, <3>3, <3>4, <3>5 DEF Client
  <2> QED BY <1>3, <2>1 DEF Asked
<1>5. \E p : p.flow = f /\ tunIn' = Append(tunIn, p)
  BY DEF Client, ClientSyn, ClientData, ClientFin, ClientRetransmit, ClientAbort, Send, Packet
<1>6. \A i \in 1 .. Len(tunIn') : tunIn'[i].flow = f \/ (i \in 1 .. Len(tunIn) /\ tunIn'[i] = tunIn[i])
  <2>1. PICK p : p.flow = f /\ tunIn' = Append(tunIn, p)
    BY <1>5
  <2> QED BY <1>3, <2>1
<1>7. ASSUME NEW g \in Flows PROVE Down(g)' /\ (Ours(g)' => Ours(g))
  <2>1. Down(g)
    BY <1>1
  <2>2. CASE g # f
    <3>1. UNCHANGED <<client[g], tunOut[g], server[g], sess, sock>>
      BY <1>2, <1>4, <2>2
    <3>2. InSequence(g)' /\ (Ours(g)' <=> Ours(g))
      BY <2>1, <3>1 DEF Down, InSequence, Ours, Open, Asked
    <3>3. Unheard(g)'
      BY <1>6, <2>1, <2>2, <3>1 DEF Down, Unheard, Open, Asked
    <3>4. Ours(g) => Awaits(g)' /\ Opens(g)' /\ Flowing(g)'
      BY <2>1, <3>1 DEF Down, Awaits, Opens, Flowing, NextByte, Rx, Asked
    <3> QED BY <3>2, <3>3, <3>4 DEF Down
  <2>3. CASE g = f
    <3>1. InSequence(f)' /\ Unheard(f)' /\ (Ours(f)' => Ours(f))
      BY <1>2, <1>4, <2>1, <2>3 DEF Down, InSequence, Ours, Open, Asked, Unheard
    <3>2. Ours(f) => Awaits(f)' /\ Opens(f)' /\ Flowing(f)'
      BY <1>2, <1>4, <2>1, <2>3 DEF Down, Awaits, Opens, Flowing, NextByte, Rx
    <3> QED BY <2>3, <3>1, <3>2 DEF Down
  <2> QED BY <2>2, <2>3
<1>8. Fresh'
  BY <1>1, <1>2, <1>7, FreshStays
<1>9. Watched'
  BY <1>1, <1>2 DEF Watched, Open
<1> QED BY <1>7, <1>8, <1>9

\* A sequence that counts, with its next number.
LEMMA CountsOn ==
  ASSUME NEW s \in Seq(Nat), \A i \in 1 .. Len(s) : s[i] = i
  PROVE  LET t == Append(s, Len(s) + 1) IN
         Len(t) = Len(s) + 1 /\ \A i \in 1 .. Len(s) + 1 : t[i] = i
OBVIOUS

\* What the client makes of a segment, as far as the way down goes.
LEMMA ReceivedDown ==
  ASSUME NEW c \in Clients, NEW m \in Segments, NEW d, d = Received(c, m)
  PROVE  /\ c.st = "synSent" /\ m.kind = "synAck" =>
              d.st = "open" /\ d.inc = m.inc /\ d.got = c.got /\ d.gotFin = c.gotFin
         /\ c.st # "open" /\ ~(c.st = "synSent" /\ m.kind = "synAck") => d = c
         /\ c.st = "open" => d.inc = c.inc /\ d.st \in {"open", "closed"}
         /\ c.st = "open" /\ m.kind \in {"synAck", "ack"} =>
              d.st = "open" /\ d.got = c.got /\ d.gotFin = c.gotFin
         /\ c.st = "open" /\ m.isn = c.isn /\ m.kind = "data" /\ m.seq = 1 + Len(c.got) /\ ~c.gotFin =>
              d.st = "open" /\ d.got = Append(c.got, m.byte) /\ d.gotFin = c.gotFin
<1>1. ASSUME NEW e \in Clients
      PROVE  /\ Acked(e, m).st = e.st /\ Acked(e, m).inc = e.inc
             /\ Acked(e, m).got = e.got /\ Acked(e, m).gotFin = e.gotFin
  BY DEF Acked, Clients
<1>2. m.byte \in Nat /\ m.kind \in {"synAck", "ack", "data", "fin", "rst", "rstAck"}
  BY DEF Segments
<1> DEFINE more == [c EXCEPT !.got = Append(@, m.byte)]
           ended == [c EXCEPT !.gotFin = TRUE]
<1>3. more \in Clients /\ more.st = c.st /\ more.inc = c.inc
      /\ more.got = Append(c.got, m.byte) /\ more.gotFin = c.gotFin
  <2>1. Append(c.got, m.byte) \in Seq(Nat)
    BY <1>2 DEF Clients
  <2> QED BY <2>1 DEF Clients
<1>4. ended \in Clients /\ ended.st = c.st /\ ended.inc = c.inc
  BY DEF Clients
<1>8. m.isn = c.isn /\ m.seq = 1 + Len(c.got) => m.isn + m.seq = c.isn + 1 + Len(c.got)
  <2>1. c.isn \in Nat /\ Len(c.got) \in Nat
    BY DEF Clients
  <2> QED BY <2>1
<1>5. CASE c.st = "synSent" /\ m.kind = "synAck"
  <2>1. d = [c EXCEPT !.st = "open", !.inc = m.inc, !.isn = m.isn]
    BY <1>5 DEF Received
  <2> QED BY <1>5, <2>1 DEF Clients
<1>6. CASE ~(c.st = "synSent" /\ m.kind = "synAck")
           /\ (c.st # "open" \/ m.isn + m.seq # c.isn + 1 + Len(c.got) \/ c.gotFin)
  <2>1. d = c
    BY <1>6 DEF Received
  <2> QED BY <1>6, <1>8, <2>1
<1>7. CASE c.st = "open" /\ m.isn + m.seq = c.isn + 1 + Len(c.got) /\ ~c.gotFin
  <2>1. d = CASE m.kind = "data" -> Acked(more, m)
              [] m.kind = "ack"  -> Acked(c, m)
              [] m.kind = "fin"  -> Acked(ended, m)
              [] m.kind \in {"rst", "rstAck"} -> [c EXCEPT !.st = "closed"]
              [] OTHER -> c
    BY <1>7 DEF Received
  <2> HIDE DEF more, ended
  <2>2. CASE m.kind = "data"
    BY <1>1, <1>3, <1>7, <2>1, <2>2
  <2>3. CASE m.kind = "ack"
    BY <1>1, <1>7, <2>1, <2>3
  <2>4. CASE m.kind = "fin"
    BY <1>1, <1>4, <1>7, <2>1, <2>4
  <2>5. CASE m.kind \in {"rst", "rstAck"}
    <3>1. d = [c EXCEPT !.st = "closed"]
      BY <2>1, <2>5
    <3> QED BY <1>7, <2>5, <3>1 DEF Clients
  <2>6. CASE m.kind = "synAck"
    <3>1. d = c
      BY <2>1, <2>6
    <3> QED BY <1>7, <2>6, <3>1
  <2> QED BY <1>2, <2>2, <2>3, <2>4, <2>5, <2>6
<1> QED BY <1>5, <1>6, <1>7


\* The client takes a segment: what is on its way is one segment less, and if
\* it is one of the session's bytes the client has one more.
LEMMA TakesDown ==
  ASSUME Owned, NEW f \in Flows, InOrder(f), OneIsn(f), Down(f), ClientReceive(f)
  PROVE  Down(f)' /\ (Ours(f)' => Ours(f))
<1> DEFINE c == client[f]
           out == tunOut[f]
           m == Head(tunOut[f])
           n == Len(tunOut[f])
           had == Len(client[f].got)
<1>1. /\ c \in Clients /\ out \in Seq(Segments) /\ out # <<>> /\ n \in Nat
      /\ c.got \in Seq(Nat) /\ had \in Nat /\ server[f].conns \in Nat
      /\ m \in Segments /\ m.inc \in Nat /\ m = out[1] /\ 1 \in 1 .. n
      /\ \A i \in 1 .. n : out[i].inc \in Nat
      /\ UNCHANGED <<sess, sock, tunIn, server>>
  <2>1. \A s \in Segments : s.inc \in Nat
    BY DEF Segments
  <2> QED BY <2>1, DownTyped, Rest DEF ClientReceive
<1>2. client'[f] = Received(c, m) /\ tunOut'[f] = Tail(out)
  BY DEF ClientReceive, Owned, Core, Typed
<1>3. /\ \A i \in 1 .. Len(tunOut'[f]) : i + 1 \in 1 .. n /\ tunOut'[f][i] = out[i + 1] /\ i \in Nat
      /\ \A i \in 1 .. n : i = 1 \/ \E j \in 1 .. Len(tunOut'[f]) : tunOut'[f][j] = out[i]
  <2> DEFINE rest == Tail(out)
  <2>1. /\ \A i \in 1 .. Len(rest) : i + 1 \in 1 .. n /\ rest[i] = out[i + 1] /\ i \in Nat
        /\ \A i \in 1 .. n : i # 1 => i - 1 \in 1 .. Len(rest) /\ rest[i - 1] = out[i]
    BY <1>1, Rest
  <2>2. rest = tunOut'[f]
    BY <1>2
  <2> HIDE DEF rest
  <2> QED BY <2>1, <2>2
<1>4. InSequence(f) /\ Unheard(f) /\ c.st # "new"
  BY <1>1 DEF Down, Unheard
<1>5. \/ /\ c.st = "synSent" /\ m.kind = "synAck"
         /\ client'[f].st = "open" /\ client'[f].inc = m.inc
         /\ client'[f].got = c.got /\ client'[f].gotFin = c.gotFin
      \/ /\ ~(c.st = "synSent" /\ m.kind = "synAck")
         /\ c.st # "open" => client'[f] = c
         /\ c.st = "open" => client'[f].inc = c.inc /\ client'[f].st \in {"open", "closed"}
  BY <1>1, <1>2, ReceivedDown
<1>6. c.st \in {"synSent", "open", "closed"}
  BY <1>1, <1>4 DEF Clients
<1>7. InSequence(f)'
  <2>1. client'[f].inc <= server[f].conns
    BY <1>1, <1>4, <1>5, <1>6 DEF InSequence
  <2>2. \A i \in 1 .. Len(tunOut'[f]) : tunOut'[f][i].inc <= server[f].conns
    BY <1>3, <1>4 DEF InSequence
  <2>3. ASSUME NEW i \in 1 .. Len(tunOut'[f]), NEW j \in 1 .. Len(tunOut'[f]), i < j
        PROVE  tunOut'[f][i].inc <= tunOut'[f][j].inc
    <3>1. i + 1 < j + 1
      BY <2>3
    <3> QED BY <1>3, <1>4, <3>1 DEF InSequence
  <2> QED BY <1>1, <1>4, <2>1, <2>2, <2>3 DEF InSequence, Open
<1>8. Unheard(f)'
  BY <1>4, <1>5, <1>6 DEF Unheard, Asked
<1>9. ASSUME Ours(f)' PROVE Ours(f)
  <2>1. Open(f)
    BY <1>1, <1>9 DEF Ours, Open
  <2>2. CASE c.st = "synSent" /\ m.kind = "synAck"
    <3>1. m.inc = sess[f].inc
      BY <1>1, <1>5, <1>9, <2>2 DEF Ours, Asked
    <3>2. sess[f].inc = server[f].conns
      BY <1>4, <2>1 DEF InSequence
    <3>3. \A i \in 1 .. n : i = 1 \/ 1 < i
      BY <1>1
    <3>4. \A i \in 1 .. n : m.inc <= out[i].inc /\ out[i].inc <= server[f].conns
      BY <1>1, <1>4, <3>3 DEF InSequence
    <3>5. \A i \in 1 .. n : out[i].inc = sess[f].inc
      BY <1>1, <3>1, <3>2, <3>4
    <3> QED BY <2>1, <2>2, <3>5 DEF Ours, Asked
  <2>3. CASE c.st = "synSent" /\ m.kind # "synAck"
    <3>1. client'[f] = c
      BY <1>5, <2>3
    <3> QED BY <1>1, <1>3, <1>9, <2>1, <2>3, <3>1, ZenonT(60) DEF Ours, Asked
  <2>4. CASE c.st \in {"open", "closed"}
    BY <1>1, <1>5, <1>9, <2>1, <2>4 DEF Ours, Asked
  <2> QED BY <1>6, <2>2, <2>3, <2>4
<1>10. ASSUME Ours(f)' PROVE Awaits(f)' /\ Opens(f)' /\ Flowing(f)'
  <2> DEFINE inc == sess[f].inc
             next == NextByte(f)
  <2>1. /\ Ours(f) /\ Open(f) /\ Awaits(f) /\ Opens(f) /\ Flowing(f)
        /\ sess'[f] = sess[f] /\ NextByte(f)' = next /\ Rx(f)' = Rx(f)
        /\ sess[f].state \in {"synSent", "established"} /\ next \in Nat
    <3>1. Ours(f) /\ Open(f)
      BY <1>9, <1>10 DEF Ours
    <3> QED BY <1>1, <3>1, DownTyped DEF Down, NextByte, Rx, Sessions
  <2>2. /\ Carries(out, inc, had, next) /\ server'[f].sent = server[f].sent
        /\ \A i \in 1 .. had : c.got[i] = i
    BY <1>1, <2>1 DEF Flowing
  <2>3. Awaits(f)'
    <3> SUFFICES ASSUME sess[f].state = "synSent"
                 PROVE  ~Asked(f)' /\ \A i \in 1 .. Len(tunOut'[f]) : tunOut'[f][i].inc # inc
      BY <2>1 DEF Awaits
    <3>1. ~Asked(f) /\ \A i \in 1 .. n : out[i].inc # inc
      BY <2>1 DEF Awaits
    <3>2. ~Asked(f)'
      BY <1>1, <1>5, <1>6, <1>10, <2>1, <3>1 DEF Ours, Asked
    <3> QED BY <1>3, <3>1, <3>2, ZenonT(60)
  <2>4. CASE c.st = "synSent" /\ m.kind = "synAck"
    <3>1. Carries(Tail(out), inc, had, next)
      BY <1>1, <2>2, <2>4, CarriesRest
    <3>2. Flowing(f)'
      BY <1>2, <1>5, <2>1, <2>2, <2>4, <3>1 DEF Flowing
    <3>3. Opens(f)'
      BY <1>3, <1>5, <2>1, <2>4 DEF Opens, Asked
    <3> QED BY <2>3, <3>2, <3>3
  <2>5. CASE c.st = "synSent" /\ m.kind # "synAck"
    <3>1. client'[f] = c /\ ~Asked(f)
      BY <1>5, <2>5 DEF Asked
    <3>2. m.kind # "data" \/ m.inc # inc
      <4>1. CASE sess[f].state = "synSent"
        BY <1>1, <2>1, <4>1 DEF Awaits
      <4>2. CASE sess[f].state = "established"
        BY <1>1, <2>1, <3>1, <4>2, HeraldedStays DEF Opens
      <4> QED BY <2>1, <4>1, <4>2
    <3>3. Carries(Tail(out), inc, had, next)
      BY <1>1, <2>2, <3>2, CarriesRest
    <3>4. Flowing(f)'
      BY <1>2, <2>1, <2>2, <3>1, <3>3 DEF Flowing
    <3>5. sess[f].state = "established" => Heralded(Tail(out), inc)
      BY <1>1, <2>1, <2>5, <3>1, HeraldedStays DEF Opens
    <3>6. Opens(f)'
      BY <1>2, <1>3, <2>1, <3>1, <3>5 DEF Opens
    <3> QED BY <2>3, <3>4, <3>6
  <2>6. CASE c.st = "open"
    <3>1. Asked(f) /\ Asked(f)' /\ c.inc = inc /\ ~c.gotFin
      BY <1>5, <2>1, <2>6 DEF Asked, Ours, Opens
    <3>5. m.inc = inc /\ m.isn = c.isn
      <4>1. Current(f)
        BY <2>1, <3>1 DEF InOrder, Current
      <4>2. m \in ToSet(out)
        BY <1>1, BearersTyped DEF ToSet
      <4> QED BY <3>1, <4>1, <4>2, Recognised
    <3>2. \A i \in 1 .. Len(tunOut'[f]) : tunOut'[f][i].inc = inc =>
            tunOut'[f][i].kind \in {"synAck", "ack", "data"}
      BY <1>3, <2>1 DEF Opens
    <3>3. CASE m.kind # "data"
      <4>1. m.kind \in {"synAck", "ack"}
        BY <1>1, <2>1, <3>3, <3>5 DEF Opens
      <4>2. client'[f].got = c.got /\ ~client'[f].gotFin
        BY <1>1, <1>2, <2>6, <3>1, <4>1, ReceivedDown, SMTT(40)
      <4>3. Carries(Tail(out), inc, had, next)
        BY <1>1, <2>2, <3>3, CarriesRest
      <4>4. Flowing(f)'
        BY <1>2, <2>1, <2>2, <4>2, <4>3 DEF Flowing
      <4>5. Opens(f)'
        BY <2>1, <3>1, <3>2, <4>2 DEF Opens
      <4> QED BY <2>3, <4>4, <4>5
    <3>4. CASE m.kind = "data"
      <4>1. /\ m.seq = 1 + had /\ m.byte = had + 1
            /\ Carries(Tail(out), inc, had + 1, next)
        BY <1>1, <2>1, <2>2, <3>4, <3>5, CarriesNext, SMTT(40)
      <4>2. client'[f].got = Append(c.got, had + 1) /\ ~client'[f].gotFin
        <5>1. m.seq = 1 + Len(c.got) /\ m.isn = c.isn
          BY <3>5, <4>1
        <5>2. client'[f].got = Append(c.got, m.byte) /\ client'[f].gotFin = c.gotFin
          <6> HIDE DEF c, m, out, n, had, inc, next
          <6>1. c \in Clients /\ m \in Segments /\ client'[f] = Received(c, m)
            BY <1>1, <1>2
          <6> QED BY <2>6, <3>1, <3>4, <5>1, <6>1, ReceivedDown
        <5> QED BY <3>1, <4>1, <5>2
      <4>3. Len(client'[f].got) = had + 1 /\ \A i \in 1 .. had + 1 : client'[f].got[i] = i
        BY <1>1, <2>2, <4>2, CountsOn
      <4>4. Flowing(f)'
        BY <1>2, <2>1, <2>2, <4>1, <4>3 DEF Flowing
      <4>5. Opens(f)'
        BY <2>1, <3>1, <3>2, <4>2 DEF Opens
      <4> QED BY <2>3, <4>4, <4>5
    <3> QED BY <3>3, <3>4
  <2>7. c.st # "closed"
    BY <1>5, <1>10 DEF Ours, Asked
  <2> QED BY <1>6, <2>4, <2>5, <2>6, <2>7
<1> QED BY <1>7, <1>8, <1>9, <1>10 DEF Down

\* The other flows do not notice.
LEMMA ClientReceiveDown ==
  ASSUME DownInv, NEW f \in Flows, ClientReceive(f)
  PROVE  Fresh' /\ Watched' /\ \A g \in Flows : Down(g)'
<1>1. Owned /\ Lined /\ Watched /\ Fresh /\ \A g \in Flows : Down(g)
  BY DEF DownInv
<1>2. UNCHANGED <<sess, sock, batch, tunIn, server>>
  BY DEF ClientReceive
<1>3. ASSUME NEW g \in Flows PROVE Down(g)' /\ (Ours(g)' => Ours(g))
  <2>1. CASE g = f
    BY <1>1, <2>1, TakesDown DEF Lined
  <2>2. CASE g # f
    <3>1. client'[g] = client[g] /\ tunOut'[g] = tunOut[g]
      BY <1>1, <2>2 DEF ClientReceive, Owned, Core, Typed
    <3> QED BY <1>1, <1>2, <3>1, RestsDown DEF Rx
  <2> QED BY <2>1, <2>2
<1>4. Fresh'
  BY <1>1, <1>2, <1>3, FreshStays
<1>5. Watched'
  BY <1>1, <1>2 DEF Watched, Open
<1> QED BY <1>3, <1>4, <1>5


\* A server sends: its byte is the next one the engine will read.
LEMMA ServerSendsDown ==
  ASSUME DownInv, NEW fd \in Fds, ServerSends(fd), NEW f, f = sock[fd].flow
  PROVE  Watched' /\ \A g \in Flows : Down(g)' /\ (Ours(g)' => Ours(g))
<1> DEFINE n == server[f].sent + 1
<1>1. PICK others, mail :
      /\ Owned /\ Watched /\ \A g \in Flows : Down(g)
      /\ Typed(others, mail) /\ Foreign(others, mail) /\ Owns /\ Held
      /\ sock \in [Fds -> Sockets \cup others \cup {None}] /\ server \in [Flows -> Servers]
  BY DEF DownInv, Owned, Core, Typed
<1>2. /\ sock[fd] \in Sockets /\ f \in Flows /\ sock[fd].conn = "connected"
      /\ UNCHANGED <<sess, batch, tunIn, tunOut, client>>
  BY <1>1, NetworkOurs DEF Network, ServerSends, Live
<1>3. Open(f) /\ sess[f].fd = fd /\ \A g \in Flows : Open(g) /\ g # f => sess[g].fd # fd
  BY <1>1, <1>2, NoneApart DEF Held, Owns
<1>4. PICK k : /\ sock' = [sock EXCEPT ![fd] = k]
               /\ k.rx = Append(sock[fd].rx, n) /\ k.conn = "connected"
               /\ k.watchOut = sock[fd].watchOut
  <2> DEFINE k == [sock[fd] EXCEPT !.rx = Append(sock[fd].rx, n)]
  <2>1. sock' = [sock EXCEPT ![fd] = k]
    BY <1>1, <1>2 DEF ServerSends
  <2>2. k.rx = Append(sock[fd].rx, n) /\ k.conn = "connected" /\ k.watchOut = sock[fd].watchOut
    BY <1>2 DEF Sockets
  <2> HIDE DEF k
  <2> QED BY <2>1, <2>2
<1>5. server' = [server EXCEPT ![f] = [server[f] EXCEPT !.sent = n]]
  BY <1>1, <1>2 DEF ServerSends
<1>6. server'[f].conns = server[f].conns /\ server'[f].sent = n
  BY <1>1, <1>2, <1>5 DEF Servers
<1>7. ASSUME NEW g \in Flows PROVE Down(g)' /\ (Ours(g)' => Ours(g))
  <2>1. CASE g # f
    <3>1. server'[g] = server[g] /\ (Open(g) => Rx(g)' = Rx(g))
      BY <1>1, <1>2, <1>3, <1>4, <1>5, <2>1, DownTyped DEF Rx
    <3> QED BY <1>1, <1>2, <2>1, <3>1, RestsDown
  <2>2. CASE g = f
    <3>1. Ours(f)' <=> Ours(f)
      BY <1>2 DEF Ours, Open, Asked
    <3>2. InSequence(f)' /\ Unheard(f)'
      BY <1>1, <1>2, <1>6 DEF Down, InSequence, Unheard, Open, Asked
    <3>3. ASSUME Ours(f) PROVE Awaits(f)' /\ Opens(f)' /\ Flowing(f)'
      <4>1. Awaits(f)' /\ Opens(f)' /\ NextByte(f)' = NextByte(f)
        BY <1>1, <1>2, <3>3 DEF Down, Awaits, Opens, Asked, NextByte
      <4>2. Flowing(f)
        BY <1>1, <1>2, <3>3 DEF Down
      <4>3. /\ Rx(f) \in Seq(1 .. MaxDown) /\ NextByte(f) \in Nat /\ server[f].sent \in Nat
            /\ Rx(f)' = Append(Rx(f), n)
        BY <1>1, <1>2, <1>3, <1>4, DownTyped DEF Rx
      <4>4. /\ Len(Rx(f)') = Len(Rx(f)) + 1 /\ Len(Rx(f)) \in Nat
            /\ \A i \in 1 .. Len(Rx(f)) : Rx(f)'[i] = Rx(f)[i]
            /\ Rx(f)'[Len(Rx(f)) + 1] = n
        BY <4>3
      <4>5. n = NextByte(f) - 1 + Len(Rx(f)')
        BY <4>2, <4>3, <4>4 DEF Flowing
      <4>6. \A i \in 1 .. Len(Rx(f)') : Rx(f)'[i] = NextByte(f) - 1 + i
        BY <4>2, <4>4, <4>5 DEF Flowing
      <4>7. Flowing(f)'
        BY <1>2, <1>6, <4>1, <4>2, <4>5, <4>6 DEF Flowing
      <4> QED BY <4>1, <4>7
    <3> QED BY <2>2, <3>1, <3>2, <3>3 DEF Down
  <2> QED BY <2>1, <2>2
<1>8. Watched'
  BY <1>1, <1>2, <1>4, DownTyped DEF Watched, Open
<1> QED BY <1>7, <1>8

\* What the network does to a socket besides leaves what it holds.
LEMMA NetworkDown ==
  ASSUME DownInv, NEW fd \in Fds, Network(fd)
  PROVE  Fresh' /\ Watched' /\ \A g \in Flows : Down(g)'
<1>1. PICK others, mail :
      /\ Core(others, mail) /\ Foreign(others, mail)
      /\ Owned /\ Watched /\ Fresh /\ \A g \in Flows : Down(g)
      /\ sock \in [Fds -> Sockets \cup others \cup {None}]
  BY DEF DownInv, Owned, Core, Typed
<1>2. /\ sock[fd] \in Sockets /\ UNCHANGED <<sess, batch, tunIn, tunOut, client>>
  BY <1>1, NetworkOurs DEF Network, ConnectEnds, ServerSends, ServerCloses, ServerResets, Live
<1>3. \A d \in Fds : sock'[d] = None => sock[d] = None
  <2>1. Open(sock[fd].flow) /\ sess[sock[fd].flow].fd = fd /\ sock[fd].flow \in Flows
    BY <1>1, NetworkOurs DEF Core, Held
  <2>2. Owns'
    BY <1>1, NetworkSound DEF Core
  <2>3. sock'[fd] # None
    BY <1>2, <2>1, <2>2 DEF Owns, Open
  <2>4. \A d \in Fds : d # fd => sock'[d] = sock[d]
    BY <1>1 DEF Network, ConnectEnds, ServerSends, ServerCloses, ServerResets
  <2> QED BY <2>3, <2>4
<1>4. CASE ServerSends(fd)
  BY <1>1, <1>2, <1>3, <1>4, ServerSendsDown, FreshStays
<1>5. CASE ~ServerSends(fd)
  <2> DEFINE Alike(k) == /\ k.rx = sock[fd].rx /\ k.watchOut = sock[fd].watchOut
                         /\ k.conn # "connecting"
  <2>1. PICK k : Alike(k) /\ sock' = [sock EXCEPT ![fd] = k] /\ server' = server
    <3>1. ASSUME NEW how \in {"connected", "refused"}, ConnectEnds(fd, how)
          PROVE  \E k : Alike(k) /\ sock' = [sock EXCEPT ![fd] = k] /\ server' = server
      <4>1. sock' = [sock EXCEPT ![fd] = [sock[fd] EXCEPT !.conn = how]] /\ server' = server
        BY <1>1, <3>1 DEF ConnectEnds
      <4>2. Alike([sock[fd] EXCEPT !.conn = how])
        BY <1>2 DEF Sockets
      <4> QED BY <4>1, <4>2
    <3>2. CASE ServerCloses(fd)
      <4>1. sock' = [sock EXCEPT ![fd] = [sock[fd] EXCEPT !.eof = TRUE]] /\ server' = server
        BY <1>1, <3>2 DEF ServerCloses
      <4>2. Alike([sock[fd] EXCEPT !.eof = TRUE])
        BY <1>2, <3>2 DEF Sockets, ServerCloses, Live
      <4> QED BY <4>1, <4>2
    <3>3. CASE ServerResets(fd)
      <4>1. sock' = [sock EXCEPT ![fd] = [sock[fd] EXCEPT !.err = TRUE]] /\ server' = server
        BY <1>1, <3>3 DEF ServerResets
      <4>2. Alike([sock[fd] EXCEPT !.err = TRUE])
        BY <1>2, <3>3 DEF Sockets, ServerResets, Live
      <4> QED BY <4>1, <4>2
    <3> HIDE DEF Alike
    <3> QED BY <1>5, <3>1, <3>2, <3>3 DEF Network
  <2>2. ASSUME NEW g \in Flows PROVE Down(g)' /\ (Ours(g)' => Ours(g))
    <3>1. Open(g) => Rx(g)' = Rx(g)
      BY <1>1, <1>2, <2>1, DownTyped DEF Rx
    <3> QED BY <1>1, <1>2, <2>1, <3>1, RestsDown
  <2>3. Watched'
    BY <1>1, <1>2, <2>1, DownTyped DEF Watched, Open
  <2> QED BY <1>1, <1>2, <1>3, <2>2, <2>3, FreshStays
<1> QED BY <1>4, <1>5

\* The events of a batch, when epoll_wait returns it.
LEMMA EpollWaitDown ==
  ASSUME DownInv, EpollWait
  PROVE  Fresh' /\ Watched' /\ \A g \in Flows : Down(g)'
<1>1. PICK others, mail :
      /\ Owned /\ Watched /\ \A g \in Flows : Down(g)
      /\ Typed(others, mail) /\ Foreign(others, mail) /\ Owns
      /\ UNCHANGED <<sess, sock, tunIn, tunOut, client, server>>
  BY DEF DownInv, Owned, Core, EpollWait
<1>2. /\ \A i \in 1 .. Len(batch') : batch'[i] \in Ready
      /\ \A e \in Ready : e.fd # Tun => e.fd \in Fds /\ sock[e.fd] # None
  BY <1>1, EpollWaitSound, ReadyFinite
<1>3. \A e \in Ready : e.fd # Tun => e.in = Readable(sock[e.fd]) /\ e.out = Writable(sock[e.fd])
  BY DEF Ready
<1>4. ASSUME NEW i \in 1 .. Len(batch'), NEW f \in Flows, batch'[i].in, ~batch'[i].out,
             Open(f)', sess'[f].fd = batch'[i].fd
      PROVE  sess'[f].state = "established" \/ ~Ours(f)'
  <2>1. Open(f) /\ sess[f] \in Sessions /\ sess[f].fd \in Fds /\ sess[f].fd # Tun
    BY <1>1, <1>4, DownTyped, TcpRelayConstants DEF Open
  <2>2. Readable(sock[sess[f].fd]) /\ ~Writable(sock[sess[f].fd])
    BY <1>1, <1>2, <1>3, <1>4, <2>1
  <2>3. sess[f].state # "synSent"
    BY <1>1, <2>1, <2>2 DEF Watched, Writable, Owns
  <2> QED BY <1>1, <2>1, <2>3 DEF Sessions
<1>5. Fresh'
  BY <1>1, <1>2, <1>4 DEF Fresh
<1>6. Watched'
  BY <1>1 DEF Watched, Open
<1>7. \A g \in Flows : Down(g)'
  BY <1>1, RestsDown DEF Rx
<1> QED BY <1>5, <1>6, <1>7


\* A handler that makes no socket, and takes nothing for a connection that it
\* does not establish.
Calms ==
  /\ batch # <<>> /\ batch' = Tail(batch)
  /\ \A g \in Flows : Open(g)' =>
       /\ Open(g) /\ sess'[g].fd = sess[g].fd
       /\ sess'[g].state = "synSent" =>
            /\ sess[g].state = "synSent"
            /\ sock'[sess[g].fd].watchOut = sock[sess[g].fd].watchOut
  /\ \A fd \in Fds : sock'[fd] # None =>
       /\ sock[fd] # None /\ sock'[fd].conn = sock[fd].conn
       /\ Readable(sock'[fd]) => Readable(sock[fd])
  /\ \A fd \in Fds : sock'[fd] = None /\ sock[fd] # None => Head(batch).fd \in {Tun, fd}

\* The rest of a batch, and the kernel, after such a handler.
LEMMA CalmsSound ==
  ASSUME DownInv, Owned', Calms, \A g \in Flows : Ours(g)' => Ours(g)
  PROVE  Fresh' /\ Watched'
<1>1. /\ batch \in Seq(Events) /\ Len(batch) \in Nat
      /\ Head(batch) = batch[1] /\ 1 \in 1 .. Len(batch)
      /\ \A i, j \in 1 .. Len(batch) : batch[i].fd = batch[j].fd => i = j
  BY DEF DownInv, Owned, Core, Typed, BatchOK, Calms
<1>2. /\ Len(batch') = Len(batch) - 1
      /\ \A i \in 1 .. Len(batch') : batch'[i] = batch[i + 1] /\ i + 1 \in 1 .. Len(batch) /\ i + 1 # 1
  BY <1>1 DEF Calms
<1>3. \A i \in 1 .. Len(batch) : batch[i].fd # Tun => batch[i].fd \in Fds
  <2>1. \A i \in 1 .. Len(batch) : batch[i] \in Events
    BY <1>1
  <2> QED BY <2>1 DEF Events
<1>4. ASSUME NEW i \in 1 .. Len(batch'), NEW j \in 1 .. Len(batch'),
             batch'[i].fd = Tun, batch'[j].fd # Tun
      PROVE  sock'[batch'[j].fd] # None
  <2>1. sock[batch[j + 1].fd] # None /\ batch[j + 1].fd \in Fds
    BY <1>2, <1>3, <1>4 DEF DownInv, Fresh
  <2>2. Head(batch).fd # Tun /\ Head(batch).fd # batch[j + 1].fd
    BY <1>1, <1>2, <1>4
  <2> QED BY <1>2, <2>1, <2>2 DEF Calms
<1>5. ASSUME NEW i \in 1 .. Len(batch'), NEW g \in Flows, batch'[i].in, ~batch'[i].out,
             Open(g)', sess'[g].fd = batch'[i].fd
      PROVE  sess'[g].state = "established" \/ ~Ours(g)'
  <2>1. sess'[g].state \in {"synSent", "established"}
    BY <1>5 DEF Owned, Core, Typed, Open, Sessions
  <2>2. CASE sess'[g].state = "synSent"
    <3>1. Open(g) /\ sess[g].fd = batch[i + 1].fd /\ sess[g].state = "synSent"
      BY <1>2, <1>5, <2>2 DEF Calms
    <3>2. ~Ours(g)
      BY <1>2, <1>5, <3>1 DEF DownInv, Fresh
    <3> QED BY <3>2
  <2> QED BY <2>1, <2>2
<1>6. Fresh'
  BY <1>4, <1>5 DEF Fresh
<1>7. Watched'
  BY DEF DownInv, Watched, Calms
<1> QED BY <1>6, <1>7

\* What a handler does to the flows: it writes to one, and ends or keeps its
\* session.
LEMMA FlowsDown ==
  ASSUME DownInv, NEW f \in Flows, client' = client,
         tunIn' = tunIn \/ (tunIn # <<>> /\ tunIn' = Tail(tunIn)),
         \A g \in Flows : server'[g].conns = server[g].conns /\ server'[g].sent = server[g].sent,
         NEW ms \in Seq(Segments), Write(f, ms), ms # <<>> => Open(f),
         \A i \in 1 .. Len(ms) : ms[i].inc = sess[f].inc,
         \/ TcpRemove(f)
         \/ /\ sock' = sock
            /\ \E s \in Sessions : /\ SetSession(f, s)
                                   /\ s.inc = sess[f].inc /\ s.state = sess[f].state
                                   /\ s.ourSeq = sess[f].ourSeq /\ s.fd = sess[f].fd
            /\ Open(f)
            /\ \A i \in 1 .. Len(ms) : ms[i].kind = "ack" /\ sess[f].state = "established"
  PROVE  \A g \in Flows : Down(g)' /\ (Ours(g)' => Ours(g))
<1>1. PICK others, mail :
      /\ Owned /\ \A g \in Flows : Down(g)
      /\ Typed(others, mail) /\ Foreign(others, mail) /\ Owns /\ Held
  BY DEF DownInv, Owned, Core
<1>2. tunOut'[f] = tunOut[f] \o ms /\ \A g \in Flows \ {f} : tunOut'[g] = tunOut[g]
  BY <1>1 DEF Write, Typed
<1>3. ASSUME NEW g \in Flows \ {f} PROVE Down(g)' /\ (Ours(g)' => Ours(g))
  <2>1. sess'[g] = sess[g]
    <3>1. CASE TcpRemove(f)
      BY <1>1, <3>1, RemoveSound
    <3>2. CASE ~TcpRemove(f)
      BY <1>1, <3>2 DEF SetSession, Typed
    <3> QED BY <3>1, <3>2
  <2>2. Open(g) => Rx(g)' = Rx(g)
    <3> SUFFICES ASSUME Open(g) PROVE sock'[sess[g].fd] = sock[sess[g].fd]
      BY <2>1 DEF Rx
    <3>1. sess[g].fd \in Fds /\ sock[sess[g].fd].flow = g
      BY <1>1, DownTyped
    <3>2. Open(f) => sess[f].fd # sess[g].fd
      BY <1>1, <3>1 DEF Owns
    <3> QED BY <1>1, <3>1, <3>2, RemoveSound
  <2> QED BY <1>1, <1>2, <2>1, <2>2, RestsDown
<1>4. CASE TcpRemove(f)
  <2>1. ~Open(f)'
    BY <1>1, <1>4, RemoveSound DEF Open
  <2>2. Leaves(f)
    BY <1>2, <2>1 DEF Leaves
  <2> QED BY <1>1, <1>3, <2>2, LeavesSound
<1>5. CASE ~TcpRemove(f)
  <2>1. PICK s \in Sessions : /\ SetSession(f, s)
                              /\ s.inc = sess[f].inc /\ s.state = sess[f].state
                              /\ s.ourSeq = sess[f].ourSeq /\ s.fd = sess[f].fd
    BY <1>5
  <2>2. sess'[f] = s /\ sock' = sock /\ Open(f)
    BY <1>1, <1>5, <2>1 DEF SetSession, Typed
  <2>3. Rx(f)' = Rx(f)
    BY <2>1, <2>2 DEF Rx
  <2>4. \A i \in 1 .. Len(ms) : ms[i].kind = "ack" /\ sess[f].state = "established"
    BY <1>5
  <2>5. Leaves(f)
    BY <1>2, <2>1, <2>2, <2>3, <2>4 DEF Leaves
  <2> QED BY <1>1, <1>3, <2>5, LeavesSound
<1> QED BY <1>4, <1>5

\* Which event a handler has taken, and from where.
Taken(f) ==
  /\ batch # <<>> /\ batch' = Tail(batch) /\ client' = client
  /\ \/ Head(batch).fd = Tun /\ tunIn # <<>> /\ tunIn' = Tail(tunIn)
     \/ Open(f) /\ Head(batch).fd = sess[f].fd /\ tunIn' = tunIn

\* A handler takes the first packet, or its event of the batch.
LEMMA TakenSound ==
  ASSUME Owned, NEW f \in Flows, client' = client,
         (\E kind : FromTun(kind)) \/ (FromSocket(f) /\ tunIn' = tunIn)
  PROVE  Taken(f)
<1>1. PICK others, mail : Typed(others, mail) /\ Foreign(others, mail) /\ Core(others, mail)
  BY DEF Owned, Core
<1>2. CASE \E kind : FromTun(kind)
  BY <1>1, <1>2, FromTunSound DEF Taken, FromTun
<1>3. CASE FromSocket(f) /\ tunIn' = tunIn
  BY <1>1, <1>3, FromSocketSound DEF Taken, FromSocket
<1> QED BY <1>2, <1>3

\* A session removed takes only its own descriptor along.
LEMMA GoneCalms ==
  ASSUME Owned, NEW f \in Flows, Taken(f), TcpRemove(f)
  PROVE  Calms
<1>1. PICK others, mail : Typed(others, mail) /\ Foreign(others, mail) /\ Owns /\ Held
  BY DEF Owned, Core
<1>2. /\ \A g \in Flows : sess'[g] = IF g = f THEN None ELSE sess[g]
      /\ \A fd \in Fds : sock'[fd] = sock[fd] \/ sock'[fd] = None
      /\ \A fd \in Fds : sock'[fd] # sock[fd] => Open(f) /\ sess[f].fd = fd
  BY <1>1, RemoveSound
<1>3. \A g \in Flows : Open(g)' => /\ g # f /\ Open(g) /\ sess'[g] = sess[g]
                                   /\ sock'[sess[g].fd] = sock[sess[g].fd]
  <2> SUFFICES ASSUME NEW g \in Flows, Open(g)'
               PROVE  g # f /\ Open(g) /\ sess'[g] = sess[g] /\ sock'[sess[g].fd] = sock[sess[g].fd]
    OBVIOUS
  <2>1. g # f /\ Open(g) /\ sess'[g] = sess[g]
    BY <1>2 DEF Open
  <2>2. sess[g].fd \in Fds /\ sock[sess[g].fd].flow = g
    BY <2>1, DownTyped
  <2>3. ~(Open(f) /\ sess[f].fd = sess[g].fd)
    BY <1>1, <2>1, <2>2 DEF Owns
  <2> QED BY <1>2, <2>1, <2>2, <2>3
<1> QED BY <1>2, <1>3 DEF Calms, Taken

\* What is delivered is no business of the way down.
LEMMA DeliverDown ==
  ASSUME Owned, NEW f \in Flows, NEW bytes \in Seq(Nat), Deliver(f, bytes)
  PROVE  \A g \in Flows : server'[g].conns = server[g].conns /\ server'[g].sent = server[g].sent
<1>1. server \in [Flows -> Servers]
  BY DEF Owned, Core, Typed
<1> QED BY <1>1, DeliverTyped

\* A handler that ends the session, whatever it writes.
LEMMA GoneDown ==
  ASSUME DownInv, Owned', NEW f \in Flows, Taken(f), TcpRemove(f),
         \A g \in Flows : server'[g].conns = server[g].conns /\ server'[g].sent = server[g].sent,
         NEW ms \in Seq(Segments), Write(f, ms), ms # <<>> => Open(f),
         \A i \in 1 .. Len(ms) : ms[i].inc = sess[f].inc
  PROVE  Fresh' /\ Watched' /\ \A g \in Flows : Down(g)'
<1>1. Owned /\ Calms
  BY GoneCalms DEF DownInv
<1>2. \A g \in Flows : Down(g)' /\ (Ours(g)' => Ours(g))
  BY FlowsDown DEF Taken
<1> QED BY <1>1, <1>2, CalmsSound

\* Handlers that end a session.
LEMMA EndsDown ==
  ASSUME DownInv, Owned', NEW f \in Flows,
         \/ TunSyn(f) /\ TcpRemove(f) /\ UNCHANGED server
         \/ TunRst(f) \/ TunFin(f) \/ TunDataFailed(f)
         \/ SocketRefused(f) \/ SocketEof(f) \/ SocketError(f)
  PROVE  Fresh' /\ Watched' /\ \A g \in Flows : Down(g)'
<1>1. PICK others, mail :
      /\ Owned /\ Core(others, mail) /\ Typed(others, mail) /\ Foreign(others, mail) /\ Owns
      /\ tunOut \in [Flows -> Seq(Segments)]
  BY DEF DownInv, Owned, Core, Typed
<1>2. CASE (TunSyn(f) /\ TcpRemove(f) /\ UNCHANGED server) \/ TunRst(f)
  <2> DEFINE ms == << >>
  <2>1. Taken(f) /\ TcpRemove(f) /\ server' = server /\ tunOut' = tunOut
    BY <1>1, <1>2, TakenSound DEF TunSyn, TunRst
  <2>2. /\ ms \in Seq(Segments) /\ tunOut[f] \o ms = tunOut[f] /\ ms = << >>
        /\ \A i \in 1 .. Len(ms) : FALSE
    BY <1>1
  <2> HIDE DEF ms
  <2>3. Write(f, ms)
    BY <1>1, <2>1, <2>2 DEF Write
  <2> QED BY <2>1, <2>2, <2>3, GoneDown
<1>3. CASE TunDataFailed(f)
  <2> DEFINE s == AfterData(sess[f], Head(tunIn))
             m == Segment(s, "rstAck", 0)
             ms == <<m>>
  <2>1. /\ Taken(f) /\ TcpRemove(f) /\ server' = server /\ Open(f) /\ Write(f, ms)
    BY <1>1, <1>3, TakenSound DEF TunDataFailed
  <2>2. sess[f] \in Sessions /\ Head(tunIn).seq \in Nat
    BY <1>1, <1>3, <2>1, DownTyped, FromTunSound DEF TunDataFailed
  <2>3. m \in Segments /\ m.inc = sess[f].inc
    <3>1. s \in Sessions /\ s.inc = sess[f].inc
      BY <2>2 DEF AfterData, Sessions
    <3> HIDE DEF s
    <3> QED BY <3>1, SegmentTyped DEF Segment
  <2> HIDE DEF m
  <2>4. ms \in Seq(Segments) /\ \A i \in 1 .. Len(ms) : ms[i].inc = sess[f].inc
    BY <2>3
  <2> HIDE DEF ms
  <2> QED BY <2>1, <2>4, GoneDown
<1>4. ASSUME NEW kind \in {"rst", "fin"}, Write(f, <<Segment(sess[f], kind, 0)>>),
             Taken(f), TcpRemove(f), server' = server, Open(f)
      PROVE  Fresh' /\ Watched' /\ \A g \in Flows : Down(g)'
  <2> DEFINE m == Segment(sess[f], kind, 0)
             ms == <<m>>
  <2>1. m \in Segments /\ m.inc = sess[f].inc
    BY <1>1, <1>4, DownTyped, SegmentTyped DEF Segment
  <2> HIDE DEF m
  <2>2. ms \in Seq(Segments) /\ \A i \in 1 .. Len(ms) : ms[i].inc = sess[f].inc
    BY <2>1
  <2>3. Write(f, ms)
    BY <1>4 DEF m
  <2> HIDE DEF ms
  <2> QED BY <1>4, <2>2, <2>3, GoneDown
<1>5. CASE SocketRefused(f) \/ SocketEof(f) \/ SocketError(f)
  <2>1. FromSocket(f) /\ UNCHANGED <<tunIn, client, server>> /\ TcpRemove(f)
    BY <1>5 DEF SocketRefused, SocketEof, SocketError, Reads
  <2>2. Taken(f) /\ Open(f)
    BY <1>1, <2>1, TakenSound, FromSocketSound
  <2>3. \E kind \in {"rst", "fin"} : Write(f, <<Segment(sess[f], kind, 0)>>)
    BY <1>5 DEF SocketRefused, SocketEof, SocketError
  <2> QED BY <1>4, <2>1, <2>2, <2>3
<1>6. CASE TunFin(f)
  <2> DEFINE p == Head(tunIn)
             s == AfterFin(sess[f], p)
             sends == p.kind = "data" /\ s.state = "established"
             a == Segment(AfterData(s, p), "ack", 0)
             b == Segment(s, "ack", 0)
             c == Segment(s, "fin", 0)
             ms == (IF sends THEN <<a>> ELSE <<>>) \o <<b, c>>
  <2>1. /\ FromTun("data") \/ FromTun("fin")
        /\ Open(f) /\ TcpRemove(f) /\ client' = client /\ Write(f, ms)
        /\ IF sends THEN Deliver(f, <<p.seq>>) ELSE UNCHANGED server
    BY <1>6 DEF TunFin
  <2>2. Taken(f)
    BY <1>1, <2>1, TakenSound
  <2>4. sess[f] \in Sessions /\ p.seq \in Nat
    BY <1>1, <2>1, DownTyped, FromTunSound
  <2>3. \A g \in Flows : server'[g].conns = server[g].conns /\ server'[g].sent = server[g].sent
    <3>1. <<p.seq>> \in Seq(Nat)
      BY <2>4
    <3> QED BY <1>1, <2>1, <3>1, DeliverDown
  <2>5. s \in Sessions /\ s.inc = sess[f].inc
    BY <2>4 DEF AfterFin, Sessions
  <2> HIDE DEF s
  <2>6. AfterData(s, p) \in Sessions /\ AfterData(s, p).inc = s.inc
    <3>1. /\ AfterData(s, p) \in Sessions
          /\ AfterData(s, p) = [s EXCEPT !.clientSeq = p.seq + 1]
      <4> HIDE DEF p
      <4> QED BY <2>4, <2>5, AfterDataTyped
    <3> HIDE DEF p
    <3> QED BY <2>5, <3>1 DEF Sessions
  <2>7. \A m \in {a, b, c} : m \in Segments /\ m.inc = sess[f].inc
    BY <2>5, <2>6, SegmentTyped DEF Segment
  <2> HIDE DEF a, b, c
  <2>8. ms \in Seq(Segments) /\ \A i \in 1 .. Len(ms) : ms[i].inc = sess[f].inc
    <3> DEFINE u == IF sends THEN <<a>> ELSE <<>>
               v == <<b, c>>
    <3>1. u \in Seq(Segments) /\ \A i \in 1 .. Len(u) : u[i] = a
      BY <2>7
    <3>2. v \in Seq(Segments) /\ \A i \in 1 .. Len(v) : v[i] \in {b, c}
      BY <2>7
    <3>3. ms = u \o v
      OBVIOUS
    <3> HIDE DEF u, v, ms
    <3>4. ms \in Seq(Segments) /\ \A i \in 1 .. Len(ms) : ms[i] \in {a, b, c}
      BY <3>1, <3>2, <3>3, Appended
    <3> QED BY <2>7, <3>4
  <2> HIDE DEF ms
  <2> QED BY <2>1, <2>2, <2>3, <2>8, GoneDown
<1> QED BY <1>2, <1>3, <1>5, <1>6


\* A handler that does nothing but take its event.
LEMMA StillDown ==
  ASSUME DownInv, Owned', batch # <<>>, batch' = Tail(batch),
         tunIn' = tunIn \/ (tunIn # <<>> /\ tunIn' = Tail(tunIn)),
         UNCHANGED <<sess, sock, tunOut, client, server>>
  PROVE  Fresh' /\ Watched' /\ \A g \in Flows : Down(g)'
<1>1. Owned /\ \A g \in Flows : Down(g)
  BY DEF DownInv
<1>2. \A g \in Flows : Down(g)' /\ (Ours(g)' => Ours(g))
  BY <1>1, RestsDown DEF Rx
<1>3. Calms
  BY DEF Calms, Open
<1> QED BY <1>2, <1>3, CalmsSound

\* A handler that keeps the session and sends at most ACKs.
LEMMA StaysDown ==
  ASSUME DownInv, Owned', NEW f \in Flows, Taken(f), Open(f),
         NEW s \in Sessions, SetSession(f, s), s.inc = sess[f].inc, s.state = sess[f].state,
         s.ourSeq = sess[f].ourSeq, s.fd = sess[f].fd, sock' = sock,
         \A g \in Flows : server'[g].conns = server[g].conns /\ server'[g].sent = server[g].sent,
         NEW ms \in Seq(Segments), Write(f, ms),
         \A i \in 1 .. Len(ms) :
           ms[i].inc = sess[f].inc /\ ms[i].kind = "ack" /\ sess[f].state = "established"
  PROVE  Fresh' /\ Watched' /\ \A g \in Flows : Down(g)'
<1>1. Owned /\ sess[f].fd \in Fds /\ sock[sess[f].fd] \in Sockets
  BY DownTyped DEF DownInv
<1>2. \A g \in Flows : Down(g)' /\ (Ours(g)' => Ours(g))
  BY FlowsDown DEF Taken
<1>3. \A g \in Flows : sess'[g] = IF g = f THEN s ELSE sess[g]
  BY <1>1 DEF SetSession, Owned, Core, Typed
<1>4. Calms
  BY <1>3 DEF Calms, Taken, Open
<1> QED BY <1>2, <1>4, CalmsSound

\* Handlers that keep a session as it is, or have none.
LEMMA KeepsDown ==
  ASSUME DownInv, Owned', NEW f \in Flows,
         \/ TunNoSession(f) \/ SocketNotReadable(f) \/ SocketAgain(f)
         \/ TunDataPending(f) \/ TunDataSent(f)
  PROVE  Fresh' /\ Watched' /\ \A g \in Flows : Down(g)'
<1>1. PICK others, mail :
      /\ Owned /\ Core(others, mail) /\ Typed(others, mail) /\ Foreign(others, mail) /\ Owns
      /\ tunOut \in [Flows -> Seq(Segments)]
  BY DEF DownInv, Owned, Core, Typed
<1>2. CASE TunNoSession(f) \/ SocketNotReadable(f) \/ SocketAgain(f)
  <2>1. Taken(f) /\ UNCHANGED <<sess, sock, tunOut, client, server>>
    BY <1>1, <1>2, TakenSound DEF TunNoSession, SocketNotReadable, SocketAgain, Reads
  <2> QED BY <2>1, StillDown DEF Taken
<1>3. CASE TunDataPending(f)
  <2> DEFINE p == Head(tunIn)
             t == [sess[f] EXCEPT !.clientSeq = p.seq + 1, !.pending = Kept(sess[f], p)]
             ms == << >>
  <2>1. /\ Taken(f) /\ Open(f) /\ SetSession(f, t) /\ sock' = sock
        /\ tunOut' = tunOut /\ server' = server
    BY <1>1, <1>3, TakenSound DEF TunDataPending
  <2>2. sess[f] \in Sessions
    BY <1>1, <2>1, DownTyped
  <2>3. /\ t.fd = sess[f].fd /\ t.state = sess[f].state /\ t.inc = sess[f].inc
        /\ t.ourSeq = sess[f].ourSeq /\ t # None
    BY <2>2 DEF Sessions, None
  <2> HIDE DEF t
  <2>4. t \in Sessions
    BY <1>1, <2>1, <2>3 DEF SetSession, Typed, Owned, Core
  <2>5. /\ ms \in Seq(Segments) /\ tunOut[f] \o ms = tunOut[f]
        /\ \A i \in 1 .. Len(ms) : FALSE
    BY <1>1
  <2> HIDE DEF ms
  <2>6. Write(f, ms)
    BY <1>1, <2>1, <2>5 DEF Write
  <2> QED BY <2>1, <2>3, <2>4, <2>5, <2>6, StaysDown
<1>4. CASE TunDataSent(f)
  <2> DEFINE s == AfterData(sess[f], Head(tunIn))
             m == Segment(s, "ack", 0)
             ms == <<m>>
  <2>1. /\ Taken(f) /\ Open(f) /\ SetSession(f, s) /\ sock' = sock /\ Write(f, ms)
        /\ Deliver(f, <<Head(tunIn).seq>>) /\ s.state = "established"
    BY <1>1, <1>4, TakenSound, SMTT(40) DEF TunDataSent
  <2>2. sess[f] \in Sessions /\ Head(tunIn).seq \in Nat
    BY <1>1, <1>4, <2>1, DownTyped, FromTunSound DEF TunDataSent
  <2>3. /\ s \in Sessions /\ s.inc = sess[f].inc /\ s.state = sess[f].state
        /\ s.ourSeq = sess[f].ourSeq /\ s.fd = sess[f].fd
    BY <2>2, SMTT(40) DEF AfterData, Sessions
  <2> HIDE DEF s
  <2>4. m \in Segments /\ m.inc = sess[f].inc /\ m.kind = "ack"
    BY <2>3, SegmentTyped DEF Segment
  <2> HIDE DEF m
  <2>5. /\ ms \in Seq(Segments)
        /\ \A i \in 1 .. Len(ms) :
             ms[i].inc = sess[f].inc /\ ms[i].kind = "ack" /\ sess[f].state = "established"
    BY <2>1, <2>3, <2>4
  <2> HIDE DEF ms
  <2>6. \A g \in Flows : server'[g].conns = server[g].conns /\ server'[g].sent = server[g].sent
    <3>1. <<Head(tunIn).seq>> \in Seq(Nat)
      BY <2>2
    <3> QED BY <1>1, <2>1, <3>1, DeliverDown
  <2> QED BY <2>1, <2>3, <2>5, <2>6, StaysDown
<1> QED BY <1>2, <1>3, <1>4

\* A session that is forgotten.
LEMMA ExpireDown ==
  ASSUME DownInv, Owned', NEW f \in Flows, Expire(f)
  PROVE  Fresh' /\ Watched' /\ \A g \in Flows : Down(g)'
<1> DEFINE ms == << >>
<1>1. PICK others, mail :
      /\ Owned /\ Typed(others, mail) /\ Foreign(others, mail) /\ Owns /\ Held /\ Watched
      /\ tunOut \in [Flows -> Seq(Segments)]
  BY DEF DownInv, Owned, Core, Typed
<1>2. TcpRemove(f) /\ UNCHANGED <<batch, tunIn, tunOut, client, server>> /\ batch = <<>>
  BY DEF Expire
<1>3. /\ ms \in Seq(Segments) /\ tunOut[f] \o ms = tunOut[f] /\ ms = << >>
      /\ \A i \in 1 .. Len(ms) : FALSE
  BY <1>1
<1> HIDE DEF ms
<1>4. Write(f, ms)
  BY <1>1, <1>2, <1>3 DEF Write
<1>5. \A g \in Flows : Down(g)'
  BY <1>2, <1>3, <1>4, FlowsDown
<1>6. Fresh'
  BY <1>2 DEF Fresh
<1>7. Watched'
  <2>1. /\ \A g \in Flows : sess'[g] = IF g = f THEN None ELSE sess[g]
        /\ \A fd \in Fds : sock'[fd] = sock[fd] \/ sock'[fd] = None
    BY <1>1, <1>2, RemoveSound
  <2>2. ASSUME NEW g \in Flows, Open(g)', sess'[g].state = "synSent"
        PROVE  sock'[sess'[g].fd].watchOut
    <3>1. sess'[g] = sess[g] /\ Open(g) /\ sock[sess[g].fd].watchOut /\ sess[g].fd \in Fds
      BY <1>1, <2>1, <2>2, DownTyped DEF Open, Watched
    <3>2. sock'[sess[g].fd] # None
      BY <2>2, <3>1 DEF Owned, Core, Owns
    <3> QED BY <2>1, <3>1, <3>2
  <2> QED BY <1>1, <2>1, <2>2 DEF Watched
<1> QED BY <1>5, <1>6, <1>7


\* The connection is there: the SYN-ACK, and no byte of the session before it.
LEMMA ConnectedDown ==
  ASSUME DownInv, Owned', NEW f \in Flows, SocketConnected(f)
  PROVE  Fresh' /\ Watched' /\ \A g \in Flows : Down(g)'
<1> DEFINE s == sess[f]
           s1 == Advanced(s, 1)
           t == [s1 EXCEPT !.state = "established", !.pending = <<>>]
           k == [sock[s.fd] EXCEPT !.watchOut = FALSE]
           a == Segment(s, "synAck", 0)
           b == Segment(s1, "ack", 0)
           u == IF s.pending # <<>> THEN <<b>> ELSE <<>>
           ms == <<a>> \o u
           out == tunOut[f]
<1>1. PICK others, mail :
      /\ Owned /\ Core(others, mail) /\ Typed(others, mail) /\ Foreign(others, mail) /\ Owns /\ Held
      /\ \A g \in Flows : Down(g)
  BY DEF DownInv, Owned, Core
<1>2. /\ FromSocket(f) /\ tunIn' = tunIn /\ client' = client
      /\ s.state = "synSent" /\ Write(f, ms) /\ SetSession(f, t)
      /\ sock' = [sock EXCEPT ![s.fd] = k]
  BY DEF SocketConnected, Completes
<1>3. Taken(f) /\ Open(f)
  BY <1>1, <1>2, TakenSound, FromSocketSound
<1>5. s \in Sessions /\ sock[s.fd] \in Sockets /\ s.fd \in Fds /\ sock[s.fd].flow = f
  BY <1>1, <1>3, DownTyped
<1>4. \A g \in Flows : server'[g].conns = server[g].conns /\ server'[g].sent = server[g].sent
  <2>1. s.pending \in Seq(Nat)
    BY <1>5, TcpRelayConstants DEF Sessions
  <2>2. Deliver(f, s.pending) \/ UNCHANGED server
    BY DEF SocketConnected
  <2> QED BY <1>1, <2>1, <2>2, DeliverDown
<1>6. /\ s1 \in Sessions /\ s1.inc = s.inc /\ s1.fd = s.fd /\ s1.ourSeq = s.ourSeq + 1
  BY <1>5, AdvancedTyped
<1>7. /\ t.fd = s.fd /\ t.inc = s.inc /\ t.state = "established" /\ t.ourSeq = s.ourSeq + 1
      /\ t # None
  BY <1>6 DEF Sessions, None
<1>8. /\ a \in Segments /\ a.kind = "synAck" /\ a.inc = s.inc
      /\ b \in Segments /\ b.kind = "ack" /\ b.inc = s.inc
  BY <1>5, <1>6, SegmentTyped DEF Segment
<1>9. /\ k.conn = sock[s.fd].conn /\ k.rx = sock[s.fd].rx /\ k # None
      /\ Readable(k) => Readable(sock[s.fd])
  BY <1>5 DEF Sockets, None, Readable
<1> HIDE DEF t, k, a, b
<1>10. u \in Seq(Segments) /\ \A i \in 1 .. Len(u) : u[i] = b
  BY <1>8
<1> HIDE DEF u
<1>11. /\ ms \in Seq(Segments) /\ Len(ms) \in Nat /\ 1 \in 1 .. Len(ms) /\ ms[1] = a
       /\ \A i \in 1 .. Len(ms) : ms[i] \in {a, b}
  <2> DEFINE v == <<a>>
  <2>1. v \in Seq(Segments) /\ Len(v) = 1 /\ v[1] = a /\ \A i \in 1 .. Len(v) : v[i] = a
    BY <1>8
  <2>2. ms = v \o u
    OBVIOUS
  <2> HIDE DEF v, ms
  <2>3. /\ ms \in Seq(Segments) /\ Len(ms) = Len(v) + Len(u) /\ Len(u) \in Nat
        /\ \A i \in 1 .. Len(v) : ms[i] = v[i]
        /\ \A i \in 1 .. Len(ms) : \/ i \in 1 .. Len(v) /\ ms[i] = v[i]
                                   \/ i - Len(v) \in 1 .. Len(u) /\ ms[i] = u[i - Len(v)]
    <3>1. u \in Seq(Segments) /\ v \in Seq(Segments)
      BY <1>10, <2>1
    <3>2. /\ v \o u \in Seq(Segments) /\ Len(u) \in Nat /\ Len(v \o u) = Len(v) + Len(u)
          /\ \A i \in 1 .. Len(v) : (v \o u)[i] = v[i]
          /\ \A i \in 1 .. Len(v \o u) :
               \/ i \in 1 .. Len(v) /\ (v \o u)[i] = v[i]
               \/ i - Len(v) \in 1 .. Len(u) /\ (v \o u)[i] = u[i - Len(v)]
      BY <3>1, Appended
    <3> QED BY <2>2, <3>2
  <2>4. Len(ms) \in Nat /\ 1 \in 1 .. Len(ms) /\ 1 \in 1 .. Len(v)
    BY <2>1, <2>3
  <2>5. \A i \in 1 .. Len(ms) : ms[i] \in {a, b}
    BY <1>10, <2>1, <2>3
  <2> QED BY <2>1, <2>3, <2>4, <2>5
<1> HIDE DEF ms, s1
<1>12. Calms
  <2>1. \A g \in Flows : sess'[g] = IF g = f THEN t ELSE sess[g]
    BY <1>1, <1>2 DEF SetSession, Typed
  <2>2. \A fd \in Fds : sock'[fd] = IF fd = s.fd THEN k ELSE sock[fd]
    BY <1>1, <1>2, <1>5 DEF Typed
  <2>3. \A g \in Flows : g # f /\ Open(g) => sess[g].fd \in Fds /\ sess[g].fd # s.fd
    BY <1>1, <1>5, DownTyped
  <2>4. sock[s.fd] # None
    BY <1>5, NoneApart
  <2>5. \A g \in Flows : Open(g)' => Open(g)
    BY <1>3, <2>1 DEF Open
  <2>6. ASSUME NEW g \in Flows, Open(g)'
        PROVE  /\ sess'[g].fd = sess[g].fd
               /\ sess'[g].state = "synSent" =>
                    /\ sess[g].state = "synSent"
                    /\ sock'[sess[g].fd].watchOut = sock[sess[g].fd].watchOut
    BY <1>7, <2>1, <2>2, <2>3, <2>5, <2>6
  <2> QED BY <1>9, <2>2, <2>4, <2>5, <2>6, <1>3 DEF Calms, Taken
<1>13. ASSUME NEW g \in Flows \ {f} PROVE Down(g)' /\ (Ours(g)' => Ours(g))
  <2>1. sess'[g] = sess[g] /\ tunOut'[g] = tunOut[g]
    BY <1>1, <1>2 DEF SetSession, Write, Typed
  <2>2. Open(g) => Rx(g)' = Rx(g)
    BY <1>1, <1>2, <1>5, <2>1, DownTyped DEF Rx
  <2> QED BY <1>1, <1>2, <1>4, <2>1, <2>2, RestsDown
<1>14. /\ sess'[f] = t /\ tunOut'[f] = out \o ms /\ Rx(f)' = Rx(f)
       /\ Open(f)' /\ out \in Seq(Segments) /\ Len(out) \in Nat
  <2>1. sess'[f] = t /\ tunOut'[f] = out \o ms /\ sock'[s.fd] = k
    BY <1>1, <1>2, <1>5 DEF SetSession, Write, Typed
  <2> QED BY <1>1, <1>3, <1>7, <1>9, <2>1, DownTyped DEF Rx, Open
<1>15. /\ \A i \in 1 .. Len(out) : i \in 1 .. Len(tunOut'[f]) /\ tunOut'[f][i] = out[i]
       /\ \A i \in 1 .. Len(ms) :
            i + Len(out) \in 1 .. Len(tunOut'[f]) /\ tunOut'[f][i + Len(out)] = ms[i]
       /\ \A i \in 1 .. Len(tunOut'[f]) :
            \/ i \in 1 .. Len(out) /\ tunOut'[f][i] = out[i]
            \/ Len(out) < i /\ tunOut'[f][i] \in {a, b}
  <2> DEFINE all == out \o ms
  <2>1. /\ \A i \in 1 .. Len(out) : i \in 1 .. Len(all) /\ all[i] = out[i]
        /\ \A i \in 1 .. Len(ms) : i + Len(out) \in 1 .. Len(all) /\ all[i + Len(out)] = ms[i]
        /\ \A i \in 1 .. Len(all) :
             \/ i \in 1 .. Len(out) /\ all[i] = out[i]
             \/ i - Len(out) \in 1 .. Len(ms) /\ Len(out) < i /\ all[i] = ms[i - Len(out)]
    BY <1>11, <1>14, Appended
  <2>2. all = tunOut'[f]
    BY <1>14
  <2> HIDE DEF all
  <2> QED BY <1>11, <2>1, <2>2
<1>16. Ours(f)' => Ours(f)
  BY <1>2, <1>3, <1>7, <1>14, <1>15 DEF Ours, Asked
<1>17. InSequence(f)'
  <2>1. \A i \in 1 .. Len(ms) : ms[i].inc = sess[f].inc
    BY <1>8, <1>11
  <2>2. client'[f].inc <= server[f].conns /\ sess'[f].inc = server[f].conns
    BY <1>1, <1>2, <1>3, <1>7, <1>14 DEF Down, InSequence
  <2> QED BY <1>1, <1>3, <1>4, <1>11, <1>14, <2>1, <2>2, InSequenceMore DEF Down
<1>18. Unheard(f)'
  BY <1>1, <1>2, <1>3 DEF Down, Unheard, Asked
<1>19. ASSUME Ours(f)' PROVE Awaits(f)' /\ Opens(f)' /\ Flowing(f)'
  <2>1. Ours(f) /\ Awaits(f) /\ Opens(f) /\ Flowing(f)
    BY <1>1, <1>16, <1>19 DEF Down
  <2>2. /\ ~Asked(f) /\ s.ourSeq = 0 /\ \A i \in 1 .. Len(out) : out[i].inc # s.inc
    BY <1>2, <2>1 DEF Awaits
  <2>3. NextByte(f) = 1 /\ NextByte(f)' = 1
    BY <1>2, <1>7, <1>14, <2>2 DEF NextByte
  <2>4. Awaits(f)'
    BY <1>7, <1>14 DEF Awaits
  <2>5. Heralded(tunOut'[f], s.inc)
    <3>1. PICK h \in 1 .. Len(tunOut'[f]) : h = 1 + Len(out) /\ tunOut'[f][h] = a
      BY <1>11, <1>15
    <3>2. \A j \in Of(tunOut'[f], s.inc) : FALSE
      BY <1>8, <1>15, <2>2 DEF Of
    <3> QED BY <1>8, <3>1, <3>2 DEF Heralded
  <2>6. Opens(f)'
    BY <1>2, <1>7, <1>8, <1>14, <1>15, <2>1, <2>2, <2>5 DEF Opens
  <2>7. Flowing(f)'
    <3>1. \A i \in 1 .. Len(ms) : ms[i].kind # "data" \/ ms[i].inc # s.inc
      BY <1>8, <1>11
    <3>2. Carries(tunOut'[f], s.inc, Len(client[f].got), 1)
      BY <1>11, <1>14, <2>1, <2>3, <3>1, CarriesMore DEF Flowing
    <3> QED BY <1>2, <1>4, <1>7, <1>14, <2>1, <2>3, <3>2 DEF Flowing
  <2> QED BY <2>4, <2>6, <2>7
<1>20. \A g \in Flows : Down(g)' /\ (Ours(g)' => Ours(g))
  BY <1>13, <1>16, <1>17, <1>18, <1>19 DEF Down
<1> QED BY <1>12, <1>20, CalmsSound

\* The segments of one recv().
LEMMA ChunksSay ==
  ASSUME NEW s \in Sessions, NEW rx \in Seq(1 .. MaxDown), NEW n \in 0 .. Len(rx),
         NEW ms, ms = Chunks(s, SubSeq(rx, 1, n))
  PROVE  /\ ms \in Seq(Segments) /\ Len(ms) = n
         /\ \A i \in 1 .. n : /\ ms[i].kind = "data" /\ ms[i].inc = s.inc
                              /\ ms[i].seq = s.ourSeq + (i - 1) /\ ms[i].byte = rx[i]
<1> DEFINE bytes == SubSeq(rx, 1, n)
<1>1. DOMAIN bytes = 1 .. n /\ \A i \in 1 .. n : bytes[i] = rx[i] /\ bytes[i] \in Nat
  <2> DEFINE S == 1 .. MaxDown
  <2>1. rx \in Seq(S) /\ \A i \in S : i \in Nat
    BY TcpRelayConstants
  <2> HIDE DEF S
  <2>2. Len(bytes) = n /\ \A i \in 1 .. n : bytes[i] = rx[i] /\ rx[i] \in S
    BY <2>1, CutInTwo
  <2>3. DOMAIN bytes = 1 .. n
    BY <2>1, CutInTwo
  <2> HIDE DEF bytes
  <2> QED BY <2>1, <2>2, <2>3
<1> HIDE DEF bytes
<1>2. ms = [i \in 1 .. n |-> Segment(Advanced(s, i - 1), "data", bytes[i])]
  BY <1>1 DEF Chunks, bytes
<1>3. ASSUME NEW i \in 1 .. n
      PROVE  LET m == Segment(Advanced(s, i - 1), "data", bytes[i])
             IN  /\ m \in Segments /\ m.kind = "data" /\ m.inc = s.inc
                 /\ m.seq = s.ourSeq + (i - 1) /\ m.byte = rx[i]
  <2>1. i - 1 \in Nat
    OBVIOUS
  <2>2. /\ Advanced(s, i - 1) \in Sessions /\ Advanced(s, i - 1).inc = s.inc
        /\ Advanced(s, i - 1).ourSeq = s.ourSeq + (i - 1)
    BY <2>1, AdvancedTyped
  <2> QED BY <1>1, <2>2, SegmentTyped DEF Segment
<1>4. n \in Nat
  OBVIOUS
<1>5. \A i \in 1 .. n : ms[i] \in Segments
  BY <1>2, <1>3
<1>6. ms \in [1 .. n -> Segments]
  BY <1>2, <1>5
<1>7. ms \in Seq(Segments) /\ Len(ms) = n
  BY <1>4, <1>6
<1> QED BY <1>2, <1>3, <1>7

\* The engine reads: the chunks it writes carry on where it was.
LEMMA ReadsDown ==
  ASSUME DownInv, Owned', NEW f \in Flows, NEW n \in 1 .. MaxRead, SocketData(f, n)
  PROVE  Fresh' /\ Watched' /\ \A g \in Flows : Down(g)'
<1> DEFINE s == sess[f]
           rx == sock[s.fd].rx
           t == Advanced(s, n)
           more == SubSeq(rx, n + 1, Len(rx))
           k == [sock[s.fd] EXCEPT !.rx = more]
           ms == Chunks(s, SubSeq(rx, 1, n))
           out == tunOut[f]
<1>1. PICK others, mail :
      /\ Owned /\ Core(others, mail) /\ Typed(others, mail) /\ Foreign(others, mail) /\ Owns /\ Held
      /\ Fresh /\ \A g \in Flows : Down(g)
  BY DEF DownInv, Owned, Core
<1>2. /\ FromSocket(f) /\ UNCHANGED <<tunIn, client, server>>
      /\ ~(s.state = "synSent" /\ Head(batch).out) /\ Head(batch).in
      /\ n <= Len(rx) /\ Write(f, ms) /\ SetSession(f, t)
      /\ sock' = [sock EXCEPT ![s.fd] = k]
  BY DEF SocketData, Reads
<1>3. Taken(f) /\ Open(f) /\ Head(batch).fd = s.fd
  BY <1>1, <1>2, TakenSound, FromSocketSound
<1>4. s \in Sessions /\ sock[s.fd] \in Sockets /\ s.fd \in Fds /\ sock[s.fd].flow = f
  BY <1>1, <1>3, DownTyped
<1>5. n \in Nat /\ n \in 1 .. Len(rx) /\ n \in 0 .. Len(rx) /\ rx \in Seq(1 .. MaxDown)
  <2>1. rx \in Seq(1 .. MaxDown) /\ n <= Len(rx)
    BY <1>2, <1>4 DEF Sockets
  <2>2. Len(rx) \in Nat /\ n \in Nat /\ 1 <= n
    <3> HIDE DEF rx
    <3> QED BY <2>1, TcpRelayConstants
  <2> HIDE DEF rx
  <2> QED BY <2>1, <2>2
<1>6. /\ t \in Sessions /\ t.ourSeq = s.ourSeq + n /\ t.fd = s.fd /\ t.state = s.state
      /\ t.inc = s.inc /\ t # None
  BY <1>4, <1>5, AdvancedTyped, NoneApart
<1>7. Len(more) = Len(rx) - n /\ \A i \in 1 .. Len(more) : more[i] = rx[n + i]
  <2> HIDE DEF rx
  <2> QED BY <1>5, CutInTwo
<1>8. /\ k.conn = sock[s.fd].conn /\ k.rx = more /\ k.watchOut = sock[s.fd].watchOut
      /\ k # None /\ (Readable(k) => Readable(sock[s.fd]))
  <2>1. rx # <<>>
    BY <1>5
  <2> QED BY <1>4, <2>1 DEF Sockets, None, Readable
<1> HIDE DEF t, k, more
<1>9. /\ ms \in Seq(Segments) /\ Len(ms) = n
      /\ \A i \in 1 .. n : /\ ms[i].kind = "data" /\ ms[i].inc = s.inc
                           /\ ms[i].seq = s.ourSeq + (i - 1) /\ ms[i].byte = rx[i]
  BY <1>4, <1>5, ChunksSay
<1> HIDE DEF ms
<1>10. /\ \A g \in Flows : sess'[g] = IF g = f THEN t ELSE sess[g]
       /\ \A fd \in Fds : sock'[fd] = IF fd = s.fd THEN k ELSE sock[fd]
       /\ tunOut'[f] = out \o ms /\ \A g \in Flows \ {f} : tunOut'[g] = tunOut[g]
  BY <1>1, <1>2, <1>4 DEF SetSession, Write, Typed
<1>11. \A g \in Flows : g # f /\ Open(g) => sess[g].fd \in Fds /\ sess[g].fd # s.fd
  BY <1>1, <1>4, DownTyped
<1>12. Calms
  <2>1. sock[s.fd] # None
    BY <1>4, NoneApart
  <2>2. \A g \in Flows : Open(g)' => Open(g)
    BY <1>3, <1>10 DEF Open
  <2>3. ASSUME NEW g \in Flows, Open(g)'
        PROVE  /\ sess'[g].fd = sess[g].fd
               /\ sess'[g].state = "synSent" =>
                    /\ sess[g].state = "synSent"
                    /\ sock'[sess[g].fd].watchOut = sock[sess[g].fd].watchOut
    BY <1>4, <1>6, <1>8, <1>10, <1>11, <2>2, <2>3
  <2> QED BY <1>3, <1>8, <1>10, <2>1, <2>2, <2>3 DEF Calms, Taken
<1>13. ASSUME NEW g \in Flows \ {f} PROVE Down(g)' /\ (Ours(g)' => Ours(g))
  <2>1. Open(g) => Rx(g)' = Rx(g)
    BY <1>10, <1>11 DEF Rx
  <2> QED BY <1>1, <1>2, <1>10, <2>1, RestsDown
<1>14. /\ sess'[f] = t /\ Open(f)' /\ Rx(f)' = more /\ Rx(f) = rx
       /\ out \in Seq(Segments) /\ Len(out) \in Nat
  BY <1>1, <1>4, <1>6, <1>8, <1>10, DownTyped DEF Rx, Open
<1>15. /\ \A i \in 1 .. Len(out) : i \in 1 .. Len(tunOut'[f]) /\ tunOut'[f][i] = out[i]
       /\ \A i \in 1 .. Len(tunOut'[f]) :
            \/ i \in 1 .. Len(out) /\ tunOut'[f][i] = out[i]
            \/ tunOut'[f][i].kind = "data"
  <2> DEFINE all == out \o ms
  <2>1. /\ \A i \in 1 .. Len(out) : i \in 1 .. Len(all) /\ all[i] = out[i]
        /\ \A i \in 1 .. Len(all) :
             \/ i \in 1 .. Len(out) /\ all[i] = out[i]
             \/ i - Len(out) \in 1 .. Len(ms) /\ all[i] = ms[i - Len(out)]
    BY <1>9, <1>14, Appended
  <2>2. all = tunOut'[f]
    BY <1>10
  <2> HIDE DEF all
  <2> QED BY <1>9, <2>1, <2>2, ZenonT(60)
<1>16. Ours(f)' => Ours(f)
  BY <1>2, <1>3, <1>6, <1>14, <1>15 DEF Ours, Asked
<1>17. InSequence(f)'
  <2>1. client'[f].inc <= server[f].conns /\ sess'[f].inc = server[f].conns
    BY <1>1, <1>2, <1>3, <1>6, <1>14 DEF Down, InSequence
  <2> QED BY <1>1, <1>2, <1>3, <1>9, <1>10, <1>14, <2>1, InSequenceMore DEF Down
<1>18. Unheard(f)'
  BY <1>1, <1>2, <1>3 DEF Down, Unheard, Asked
<1>19. ASSUME Ours(f)' PROVE Awaits(f)' /\ Opens(f)' /\ Flowing(f)'
  <2>1. Ours(f) /\ Opens(f) /\ Flowing(f)
    BY <1>1, <1>16, <1>19 DEF Down
  <2>2. s.state = "established"
    <3>1. Head(batch) = batch[1] /\ 1 \in 1 .. Len(batch)
      BY <1>1, <1>3 DEF Taken, Typed, BatchOK
    <3>2. CASE Head(batch).out
      BY <1>2, <1>4, <3>2 DEF Sessions
    <3>3. CASE ~Head(batch).out
      BY <1>1, <1>2, <1>3, <2>1, <3>1, <3>3 DEF Fresh
    <3> QED BY <3>2, <3>3
  <2>3. /\ NextByte(f) = s.ourSeq /\ NextByte(f)' = s.ourSeq + n
        /\ s.ourSeq \in Nat /\ Len(client[f].got) \in Nat
    BY <1>1, <1>3, <1>6, <1>14, <2>2, DownTyped DEF NextByte
  <2>4. Awaits(f)'
    BY <1>6, <1>14, <2>2 DEF Awaits
  <2>5. Opens(f)'
    <3>1. Heralded(out, s.inc) => Heralded(out \o ms, s.inc)
      BY <1>9, <1>14, HeraldedStays
    <3> QED BY <1>2, <1>6, <1>10, <1>14, <1>15, <2>1, <2>2, <3>1 DEF Opens, Asked
  <2>6. \A i \in 1 .. Len(rx) : rx[i] = s.ourSeq - 1 + i
    BY <1>14, <2>1, <2>3 DEF Flowing
  <2>7. Carries(out \o ms, s.inc, Len(client[f].got), s.ourSeq + n)
    <3>1. Carries(out, s.inc, Len(client[f].got), s.ourSeq)
      BY <2>1, <2>3 DEF Flowing
    <3>2. ASSUME NEW i \in 1 .. Len(ms)
          PROVE  /\ ms[i].kind = "data" /\ ms[i].inc = s.inc
                 /\ ms[i].seq = s.ourSeq - 1 + i /\ ms[i].byte = s.ourSeq - 1 + i
      <4>1. i \in 1 .. n /\ i \in 1 .. Len(rx) /\ i \in Int
        BY <1>5, <1>9
      <4>2. /\ ms[i].kind = "data" /\ ms[i].inc = s.inc
            /\ ms[i].seq = s.ourSeq + (i - 1) /\ ms[i].byte = rx[i]
        BY <1>9, <4>1
      <4>3. s.ourSeq + (i - 1) = s.ourSeq - 1 + i
        BY <2>3, <4>1
      <4> QED BY <2>6, <4>1, <4>2, <4>3
    <3> QED BY <1>9, <1>14, <2>3, <3>1, <3>2, CarriesOn
  <2>8. Flowing(f)'
    <3>1. \A i \in 1 .. Len(more) : more[i] = s.ourSeq + n - 1 + i
      <4> SUFFICES ASSUME NEW i \in 1 .. Len(more) PROVE more[i] = s.ourSeq + n - 1 + i
        OBVIOUS
      <4>1. n + i \in 1 .. Len(rx) /\ i \in Nat
        BY <1>5, <1>7
      <4>2. more[i] = rx[n + i]
        BY <1>7
      <4>3. rx[n + i] = s.ourSeq - 1 + (n + i)
        BY <2>6, <4>1
      <4>4. s.ourSeq - 1 + (n + i) = s.ourSeq + n - 1 + i
        BY <1>5, <2>3, <4>1
      <4> QED BY <4>2, <4>3, <4>4
    <3>2. server[f].sent = s.ourSeq + n - 1 + Len(more)
      <4>1. server[f].sent = s.ourSeq - 1 + Len(rx)
        BY <1>14, <2>1, <2>3 DEF Flowing
      <4>2. Len(rx) \in Nat /\ Len(more) = Len(rx) - n
        BY <1>5, <1>7
      <4>3. \A a, l \in Nat : a - 1 + l = a + n - 1 + (l - n)
        BY <1>5
      <4> QED BY <2>3, <4>1, <4>2, <4>3
    <3> QED BY <1>2, <1>6, <1>10, <1>14, <2>1, <2>3, <2>7, <3>1, <3>2 DEF Flowing
  <2> QED BY <2>4, <2>5, <2>8
<1>20. \A g \in Flows : Down(g)' /\ (Ours(g)' => Ours(g))
  BY <1>13, <1>16, <1>17, <1>18, <1>19 DEF Down
<1> QED BY <1>12, <1>20, CalmsSound


\* A new session begins a new ISN, which its client has not taken, and will not
\* if it has the SYN-ACK of an earlier one before it.
LEMMA BeginsDown ==
  ASSUME DownInv, Owned', NEW f \in Flows, TunSyn(f),
         NEW fd \in Fds, NEW conn \in {"connecting", "unconnected"}, NEW isn \in Isns, Closed(f)[fd] = None,
         sock' = [Closed(f) EXCEPT ![fd] = NewSocket(f, conn)],
         SetSession(f, NewSession(f, fd, isn)),
         server' = [server EXCEPT ![f] = NewServer(@.conns + 1)]
  PROVE  Fresh' /\ Watched' /\ \A g \in Flows : Down(g)'
<1> DEFINE out == tunOut[f]
           n == server[f].conns
<1>1. PICK others, mail :
      /\ Owned /\ Core(others, mail) /\ Typed(others, mail) /\ Foreign(others, mail) /\ Owns /\ Held
      /\ Fresh /\ Watched /\ \A g \in Flows : Down(g)
      /\ n \in Nat /\ client[f] \in Clients
  BY DownTyped DEF DownInv, Owned, Core
<1>2. /\ FromTun("syn") /\ Head(tunIn).flow = f /\ tunOut' = tunOut /\ client' = client
      /\ batch # <<>> /\ batch' = Tail(batch) /\ Head(batch).fd = Tun
      /\ tunIn # <<>> /\ tunIn' = Tail(tunIn) /\ Head(tunIn) = tunIn[1] /\ 1 \in 1 .. Len(tunIn)
  <2>1. FromTun("syn") /\ f = Head(tunIn).flow /\ tunOut' = tunOut /\ client' = client
    BY DEF TunSyn
  <2>2. tunIn # <<>>
    BY <1>1, <2>1, FromTunSound
  <2> QED BY <1>1, <2>1, <2>2, TakenAhead DEF FromTun, Typed
<1>3. /\ \A g \in Flows : sess'[g] = IF g = f THEN NewSession(f, fd, isn) ELSE sess[g]
      /\ sock'[fd] = NewSocket(f, conn)
      /\ \A d \in Fds \ {fd} : sock'[d] = sock[d] \/ sock'[d] = None
      /\ \A d \in Fds \ {fd} : sock'[d] # sock[d] => Open(f) /\ sess[f].fd = d
      /\ sock[fd] = None \/ (Open(f) /\ sess[f].fd = fd)
  <2>1. Replaces(f, fd, conn, isn)
    BY DEF Replaces
  <2> QED BY <1>1, <2>1, ReplaceSound
<1>4. /\ sess'[f].fd = fd /\ sess'[f].state = "synSent" /\ sess'[f].inc = n + 1
      /\ sess'[f].ourSeq = 0 /\ Open(f)'
      /\ Rx(f)' = <<>> /\ sock'[fd].watchOut /\ ~Readable(sock'[fd])
  BY <1>3, NoneApart DEF NewSession, NewSocket, Open, Rx, Readable
<1>5. /\ server'[f].conns = n + 1 /\ server'[f].sent = 0
      /\ \A g \in Flows \ {f} : server'[g] = server[g]
  BY <1>1 DEF NewServer, Typed
<1>6. /\ client[f].st # "new" /\ client[f].inc <= n
      /\ ~Asked(f) => client[f].got = <<>> /\ ~client[f].gotFin
      /\ \A i \in 1 .. Len(out) : out[i].inc \in Nat /\ out[i].inc <= n
  <2>1. InSequence(f) /\ Unheard(f)
    BY <1>1 DEF Down
  <2>2. \A i \in 1 .. Len(out) : out[i].inc \in Nat
    BY <1>1, DownTyped DEF Segments
  <2> QED BY <1>2, <2>1, <2>2 DEF InSequence, Unheard
<1>7. \A i \in 1 .. Len(out) : out[i].inc # n + 1 /\ out[i].inc <= n + 1
  BY <1>1, <1>6
<1>8. /\ client[f].inc # n + 1 /\ client[f].inc <= n + 1
  BY <1>1, <1>6 DEF Clients
<1>9. InSequence(f)' /\ Unheard(f)'
  <2>1. InSequence(f)'
    <3>1. \A i, j \in 1 .. Len(out) : i < j => out[i].inc <= out[j].inc
      BY <1>1 DEF Down, InSequence
    <3>2. client'[f].inc <= server'[f].conns /\ sess'[f].inc = server'[f].conns
      BY <1>2, <1>4, <1>5, <1>8
    <3>3. tunOut'[f] = out /\ \A i \in 1 .. Len(out) : out[i].inc <= server'[f].conns
      BY <1>2, <1>5, <1>7
    <3> HIDE DEF out, n
    <3> QED BY <3>1, <3>2, <3>3 DEF InSequence
  <2>2. Asked(f)' = Asked(f)
    BY <1>2 DEF Asked
  <2>3. Unheard(f)'
    BY <1>2, <1>6, <2>2 DEF Unheard
  <2> QED BY <2>1, <2>3
<1>10. ASSUME Ours(f)'
       PROVE  /\ ~Asked(f) /\ \A i \in 1 .. Len(out) : out[i].kind # "synAck"
              /\ Awaits(f)' /\ Opens(f)' /\ Flowing(f)'
  <2>1. ~Asked(f) /\ client[f].got = <<>> /\ ~client[f].gotFin
    BY <1>2, <1>4, <1>6, <1>8, <1>10 DEF Ours, Asked
  <2>2. \A i \in 1 .. Len(out) : out[i].kind # "synAck"
    BY <1>2, <1>4, <1>7, <1>10, <2>1 DEF Ours, Asked
  <2>3. Awaits(f)'
    BY <1>2, <1>4, <1>7, <2>1 DEF Awaits, Asked
  <2>4. Opens(f)'
    BY <1>2, <1>4, <1>7, <2>1 DEF Opens
  <2>5. Carries(out, n + 1, 0, 1)
    <3>1. \A i \in Of(out, n + 1) : FALSE
      BY <1>7 DEF Of
    <3>2. \A k \in Nat : ~(0 < k /\ k < 1)
      OBVIOUS
    <3> QED BY <3>1, <3>2 DEF Carries
  <2>6. Flowing(f)'
    <3>1. NextByte(f)' = 1 /\ Len(Rx(f)') = 0 /\ Len(client'[f].got) = 0
      BY <1>2, <1>4, <2>1 DEF NextByte
    <3> QED BY <1>2, <1>4, <1>5, <2>5, <3>1 DEF Flowing
  <2> QED BY <2>1, <2>2, <2>3, <2>4, <2>6
<1>11. ASSUME NEW g \in Flows \ {f}
       PROVE  /\ Down(g)' /\ (Ours(g)' => Ours(g)) /\ sess'[g] = sess[g]
              /\ Open(g) => /\ sess[g].fd \in Fds /\ sess[g].fd # fd
                            /\ sock'[sess[g].fd] = sock[sess[g].fd]
  <2>1. sess'[g] = sess[g]
    BY <1>3
  <2>2. ASSUME Open(g)
        PROVE  sess[g].fd \in Fds /\ sess[g].fd # fd /\ sock'[sess[g].fd] = sock[sess[g].fd]
    <3>1. sess[g].fd \in Fds /\ sock[sess[g].fd] # None /\ sock[sess[g].fd].flow = g
      BY <1>1, <2>2, DownTyped DEF Owns
    <3>2. ~(Open(f) /\ sess[f].fd = sess[g].fd)
      BY <1>1, <3>1 DEF Owns
    <3> QED BY <1>3, <3>1, <3>2
  <2>3. Open(g) => Rx(g)' = Rx(g)
    BY <2>1, <2>2 DEF Rx
  <2>4. Down(g)' /\ (Ours(g)' => Ours(g))
    BY <1>1, <1>2, <1>5, <2>1, <2>3, RestsDown
  <2> QED BY <2>1, <2>2, <2>4
<1>12. \A g \in Flows : Down(g)'
  BY <1>9, <1>10, <1>11 DEF Down
<1>13. Fresh'
  <2>1. /\ batch \in Seq(Events) /\ Len(batch) \in Nat
        /\ Head(batch) = batch[1] /\ 1 \in 1 .. Len(batch)
        /\ \A i, j \in 1 .. Len(batch) : batch[i].fd = batch[j].fd => i = j
    BY <1>1, <1>2 DEF Typed, BatchOK
  <2>2. \A i \in 1 .. Len(batch') :
          /\ batch'[i] = batch[i + 1] /\ i + 1 \in 1 .. Len(batch)
          /\ i + 1 # 1 /\ batch'[i].fd # Tun
    <3>1. \A i \in 1 .. Len(batch') : batch'[i] = batch[i + 1] /\ i + 1 \in 1 .. Len(batch) /\ i + 1 # 1
      BY <1>2, <2>1
    <3> QED BY <1>2, <2>1, <3>1
  <2>3. ASSUME NEW i \in 1 .. Len(batch'), NEW g \in Flows, batch'[i].in, ~batch'[i].out,
               Open(g)', sess'[g].fd = batch'[i].fd
        PROVE  sess'[g].state = "established" \/ ~Ours(g)'
    <3>1. CASE g # f
      <4>1. Open(g) /\ sess'[g] = sess[g] /\ (Ours(g)' => Ours(g))
        BY <1>11, <2>3, <3>1 DEF Open
      <4> QED BY <1>1, <2>2, <2>3, <4>1 DEF Fresh
    <3>2. CASE g = f
      <4> SUFFICES ASSUME Ours(f)' PROVE FALSE
        BY <3>2
      <4>1. sock[fd] # None
        <5>1. /\ batch[i + 1].fd = fd /\ batch[i + 1].fd # Tun /\ i + 1 \in 1 .. Len(batch)
              /\ batch[1].fd = Tun
          BY <1>2, <1>4, <2>1, <2>2, <2>3, <3>2
        <5> QED BY <1>1, <2>1, <5>1 DEF Fresh
      <4>2. Open(f) /\ sess[f].fd = batch[i + 1].fd
        BY <1>3, <1>4, <2>2, <2>3, <3>2, <4>1
      <4>3. ~Asked(f) /\ \A j \in 1 .. Len(out) : out[j].kind # "synAck"
        BY <1>10
      <4>4. Ours(f)
        BY <4>2, <4>3 DEF Ours
      <4>5. sess[f].state = "established"
        BY <1>1, <2>2, <2>3, <4>2, <4>4 DEF Fresh
      <4>6. Heralded(out, sess[f].inc)
        BY <1>1, <4>3, <4>4, <4>5 DEF Down, Opens
      <4> QED BY <4>3, <4>6 DEF Heralded
    <3> QED BY <3>1, <3>2
  <2> QED BY <2>2, <2>3 DEF Fresh
<1>14. Watched'
  <2>1. ASSUME NEW g \in Flows, Open(g)', sess'[g].state = "synSent"
        PROVE  sock'[sess'[g].fd].watchOut
    <3>1. CASE g = f
      BY <1>4, <3>1
    <3>2. CASE g # f
      BY <1>1, <1>11, <2>1, <3>2 DEF Open, Watched
    <3> QED BY <3>1, <3>2
  <2>2. ASSUME NEW d \in Fds, sock'[d] # None, sock'[d].conn = "connecting"
        PROVE  ~Readable(sock'[d])
    <3>1. CASE d = fd
      BY <1>4, <3>1
    <3>2. CASE d # fd
      BY <1>1, <1>3, <2>2, <3>2 DEF Watched
    <3> QED BY <3>1, <3>2
  <2> QED BY <2>1, <2>2 DEF Watched
<1> QED BY <1>12, <1>13, <1>14

\* What holds at first.
LEMMA InitDown == Init => DownInv
<1> SUFFICES ASSUME Init PROVE DownInv
  OBVIOUS
<1>1. /\ \A f \in Flows : ~Open(f) /\ client[f] = NewClient /\ tunOut[f] = <<>>
      /\ \A f \in Flows : server[f] = NewServer(0)
      /\ \A fd \in Fds : sock[fd] = None
      /\ batch = <<>> /\ tunIn = <<>>
  BY DEF Init, Open
<1>2. \A f \in Flows : Down(f)
  BY <1>1 DEF Down, InSequence, Unheard, Ours, Asked, NewClient, NewServer
<1>3. Fresh /\ Watched
  BY <1>1 DEF Fresh, Watched
<1> QED BY <1>2, <1>3, InitHonest DEF DownInv, AckInv

\* Every step keeps the way down in order.
LEMMA NextDown == DownInv /\ [Next]_vars => DownInv'
<1> SUFFICES ASSUME DownInv, [Next]_vars PROVE DownInv'
  OBVIOUS
<1>1. Owned /\ Owned' /\ Lined'
  BY NextOwned, NextLined DEF DownInv
<1> SUFFICES Fresh' /\ Watched' /\ \A g \in Flows : Down(g)'
  BY <1>1 DEF DownInv
<1>2. CASE \E f \in Flows : Client(f)
  BY <1>2, ClientDown
<1>3. CASE \E f \in Flows : ClientReceive(f)
  BY <1>3, ClientReceiveDown
<1>4. CASE \E fd \in Fds : Network(fd)
  BY <1>4, NetworkDown
<1>5. CASE EpollWait
  BY <1>5, EpollWaitDown
<1>6. CASE SocketNoSession
  BY <1>1, <1>6, StillDown DEF SocketNoSession
<1>7. ASSUME NEW f \in Flows, Handle(f)
      PROVE  Fresh' /\ Watched' /\ \A g \in Flows : Down(g)'
  <2>1. CASE TunSyn(f)
    <3>1. CASE TcpRemove(f) /\ UNCHANGED server
      BY <1>1, <2>1, <3>1, EndsDown
    <3>2. CASE ~(TcpRemove(f) /\ UNCHANGED server)
      <4>1. \E fd \in Fds, conn \in {"connecting", "unconnected"}, isn \in Isns :
              /\ Closed(f)[fd] = None
              /\ sock' = [Closed(f) EXCEPT ![fd] = NewSocket(f, conn)]
              /\ SetSession(f, NewSession(f, fd, isn))
              /\ server' = [server EXCEPT ![f] = NewServer(@.conns + 1)]
        BY <2>1, <3>2 DEF TunSyn
      <4> QED BY <1>1, <2>1, <4>1, BeginsDown
    <3> QED BY <3>1, <3>2
  <2>2. CASE \/ TunRst(f) \/ TunFin(f) \/ TunDataFailed(f)
             \/ SocketRefused(f) \/ SocketEof(f) \/ SocketError(f)
    BY <1>1, <2>2, EndsDown
  <2>3. CASE \/ TunNoSession(f) \/ SocketNotReadable(f) \/ SocketAgain(f)
             \/ TunDataPending(f) \/ TunDataSent(f)
    BY <1>1, <2>3, KeepsDown
  <2>4. CASE SocketConnected(f)
    BY <1>1, <2>4, ConnectedDown
  <2>5. CASE \E n \in 1 .. MaxRead : SocketData(f, n)
    BY <1>1, <2>5, ReadsDown
  <2> QED BY <1>7, <2>1, <2>2, <2>3, <2>4, <2>5 DEF Handle
<1>8. CASE \E f \in Flows : Expire(f)
  BY <1>1, <1>8, ExpireDown
<1>9. CASE UNCHANGED vars
  <2>1. \A g \in Flows : Down(g)'
    BY <1>1, <1>9, RestsDown DEF vars, Rx, DownInv
  <2>2. Fresh' /\ Watched'
    BY <1>9 DEF vars, DownInv, Fresh, Watched, Ours, Open, Asked
  <2> QED BY <2>1, <2>2
<1> QED BY <1>2, <1>3, <1>4, <1>5, <1>6, <1>7, <1>8, <1>9 DEF Next, Environment, Engine

\* What the invariant says of a client that has the session's ISN.
LEMMA DownIntact == DownInv => DownstreamIntact
<1> SUFFICES ASSUME DownInv, NEW f \in Flows,
                    client[f].st = "open", Open(f), client[f].inc = sess[f].inc
             PROVE  LET out == tunOut[f]
                        rx == sock[sess[f].fd].rx
                        had == Len(client[f].got)
                        next == sess[f].ourSeq
                    IN  /\ had < next
                        /\ client[f].got = Bytes(had)
                        /\ {out[i].byte : i \in InFlight(f)} = had + 1 .. next - 1
                        /\ \A i, j \in InFlight(f) : i < j => out[i].byte < out[j].byte
                        /\ rx = [i \in 1 .. Len(rx) |-> next - 1 + i]
                        /\ server[f].sent = next - 1 + Len(rx)
  BY DEF DownstreamIntact
<1> DEFINE out == tunOut[f]
           rx == Rx(f)
           had == Len(client[f].got)
           next == sess[f].ourSeq
           sent == {out[i].byte : i \in InFlight(f)}
<1>1. Ours(f) /\ Asked(f)
  BY DEF Ours, Asked
<1>2. Owned /\ Awaits(f) /\ Flowing(f)
  BY <1>1 DEF DownInv, Down
<1>3. /\ sess[f] \in Sessions /\ had \in Nat /\ next \in Nat
      /\ client[f].got \in Seq(Nat) /\ rx \in Seq(1 .. MaxDown)
      /\ \A i \in InFlight(f) : out[i].byte \in Nat
  <2>1. \A i \in InFlight(f) : out[i] \in Segments
    BY <1>2, DownTyped DEF InFlight
  <2> QED BY <1>2, <2>1, DownTyped DEF Segments
<1>4. NextByte(f) = next
  BY <1>1, <1>2, <1>3 DEF Awaits, NextByte
<1>5. InFlight(f) = Of(out, sess[f].inc) /\ Carries(out, sess[f].inc, had, next)
  BY <1>2, <1>4 DEF InFlight, Of, Flowing
<1>6. client[f].got = Bytes(had)
  <2>1. client[f].got = [i \in 1 .. had |-> client[f].got[i]]
    BY <1>3
  <2>2. \A i \in 1 .. had : client[f].got[i] = i
    BY <1>2 DEF Flowing
  <2> QED BY <2>1, <2>2, Zenon DEF Bytes
<1>7. sent = had + 1 .. next - 1
  <2>1. ASSUME NEW i \in InFlight(f) PROVE out[i].byte \in had + 1 .. next - 1
    BY <1>3, <1>5, <2>1 DEF Carries
  <2>2. ASSUME NEW k \in had + 1 .. next - 1 PROVE \E i \in InFlight(f) : out[i].byte = k
    <3>1. k \in Nat /\ had < k /\ k < next
      BY <1>3, <2>2
    <3>2. \A m \in Nat : had < m /\ m < next => \E i \in Of(out, sess[f].inc) : out[i].byte = m
      BY <1>5 DEF Carries
    <3> HIDE DEF out, had, next
    <3> QED BY <1>5, <3>1, <3>2
  <2> QED BY <2>1, <2>2
<1>8. rx = [i \in 1 .. Len(rx) |-> next - 1 + i]
  BY <1>2, <1>3, <1>4 DEF Flowing
<1> QED BY <1>2, <1>4, <1>5, <1>6, <1>7, <1>8 DEF Carries, Flowing, Rx

\* The bytes of a server reach its client once, in order and under the numbers
\* the client expects, or are still on their way: whatever goes wrong around the
\* engine, however far ahead of each other epoll_wait and the handlers are, and
\* however often a descriptor changes hands.
THEOREM BytesArrive == Spec => []DownstreamIntact
BY DownIntact, InitDown, NextDown, PTL DEF Spec

=============================================================================
