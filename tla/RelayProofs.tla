----------------------------- MODULE RelayProofs -----------------------------
(***************************************************************************)
(* Proofs about Relay, the TCP and the UDP half over the same descriptors, *)
(* tunnel and epoll batch, for every set of flows and descriptors, every   *)
(* set of faults and every bound.                                          *)
(*                                                                         *)
(* TcpRelayProofs has shown that a step of the TCP half keeps Core: the    *)
(* types, and the ownership of the sockets of TCP flows.  Here its others  *)
(* are the UDP sockets and its mail is the datagrams; what is left is that *)
(* a TCP step does not touch a UDP socket, and a UDP step no other's.      *)
(*                                                                         *)
(* What is proved of the TCP half in TcpRelayProofs is then shown of the   *)
(* composition: a step of Relay is a TCP step, or leaves the TCP half      *)
(* aside and keeps each of its invariants, whose datagrams, events and     *)
(* descriptors of UDP flows are of no concern to them.                     *)
(***************************************************************************)
EXTENDS Relay, TcpRelayProofs

UdpSockets ==
  [flow : UdpFlows, conn : {"udp", "udpError", "udpUnconnected"}, err : {FALSE},
   eof : {FALSE}, rx : Seq(0 .. MaxReply), watchOut : {FALSE}]

Datagrams == [flow : UdpFlows, kind : {"udp"}, seq : 1 .. MaxAsk, fin : {FALSE}]

UdpSessions == [fd : Fds, replied : 0 .. MaxReply, got : Nat]

Devices == [asked : 0 .. MaxAsk, got : Seq(1 .. MaxReply)]

Peers ==
  [got : Seq(1 .. MaxAsk), replied : 0 .. MaxReply, knows : BOOLEAN, errors : Nat]

UdpTyped ==
  /\ usess \in [UdpFlows -> UdpSessions \cup {None}]
  /\ device \in [UdpFlows -> Devices]
  /\ peer \in [UdpFlows -> Peers]

\* As Owns and Held, for the sockets of UDP flows.
UdpOwns ==
  \A u \in UdpFlows : UdpOpen(u) => sock[usess[u].fd] # None /\ sock[usess[u].fd].flow = u
UdpHeld ==
  \A fd \in Fds : sock[fd] # None /\ sock[fd].flow \in UdpFlows =>
    UdpOpen(sock[fd].flow) /\ usess[sock[fd].flow].fd = fd

\* The datagrams of a device are numbered as it wrote them; those in the tunnel
\* are behind those its peer has.
AsksInOrder(u) ==
  /\ \A i, j \in 1 .. Len(peer[u].got) : i < j => peer[u].got[i] < peer[u].got[j]
  /\ \A i \in 1 .. Len(peer[u].got) : peer[u].got[i] <= device[u].asked
  /\ \A i \in 1 .. Len(tunIn) : tunIn[i].flow = u =>
       /\ tunIn[i].seq <= device[u].asked
       /\ \A j \in 1 .. Len(peer[u].got) : peer[u].got[j] < tunIn[i].seq
  /\ \A i, j \in 1 .. Len(tunIn) :
       i < j /\ tunIn[i].flow = u /\ tunIn[j].flow = u => tunIn[i].seq < tunIn[j].seq

\* RepliesIntact for one flow: its session s, what its socket holds, what its
\* device has and how far its peer is.
IntactFor(s, rx, got, replied) ==
  LET last == s.replied + Len(got) - s.got IN
  /\ s.got <= Len(got) /\ last <= replied
  /\ \A i \in s.got + 1 .. Len(got) : got[i] = s.replied + i - s.got
  /\ ToSet(rx) \ {0} = last + 1 .. replied
  /\ \A i, j \in 1 .. Len(rx) : i < j /\ rx[j] # 0 => rx[i] < rx[j]

Intact(u) ==
  IntactFor(usess[u], sock[usess[u].fd].rx, device[u].got, peer[u].replied)

RelayInv ==
  /\ Core(UdpSockets, Datagrams)
  /\ UdpTyped /\ UdpOwns /\ UdpHeld
  /\ \A u \in UdpFlows : AsksInOrder(u) /\ (UdpOpen(u) => Intact(u))

-----------------------------------------------------------------------------
\* UDP sockets and datagrams are not taken for TCP's.
LEMMA UdpForeign == Foreign(UdpSockets, Datagrams)
BY RelayConstants DEF Foreign, UdpSockets, Datagrams, None

\* What is known of an open UDP session and its socket.
LEMMA UdpOpenTyped ==
  ASSUME RelayInv, NEW u \in UdpFlows, UdpOpen(u)
  PROVE  /\ usess[u] \in UdpSessions /\ usess[u].fd \in Fds
         /\ sock[usess[u].fd] \in UdpSockets /\ sock[usess[u].fd].flow = u
         /\ Intact(u)
<1>1. /\ usess[u] \in UdpSessions /\ usess[u].fd \in Fds /\ Intact(u)
      /\ sock[usess[u].fd] # None /\ sock[usess[u].fd].flow = u
  BY DEF RelayInv, UdpTyped, UdpOwns, UdpOpen, UdpSessions
<1>2. sock[usess[u].fd] \in Sockets \cup UdpSockets \cup {None}
  BY <1>1 DEF RelayInv, Core, Typed
<1> QED BY <1>1, <1>2, RelayConstants DEF Sockets

\* Sockets of UDP flows come and go with none but the UDP half's steps.
UdpKept ==
  \A fd \in Fds : sock'[fd] = sock[fd] \/
    /\ sock[fd] # None => sock[fd].flow \in Flows
    /\ sock'[fd] # None => sock'[fd].flow \in Flows

\* A handler that ends a TCP session.
LEMMA RemoveKeepsUdp ==
  ASSUME Core(UdpSockets, Datagrams), NEW f \in Flows, TcpRemove(f)
  PROVE  UdpKept
<1>1. Typed(UdpSockets, Datagrams) /\ Owns /\ Held /\ Foreign(UdpSockets, Datagrams)
  BY UdpForeign DEF Core
<1>2. /\ \A fd \in Fds : sock'[fd] = sock[fd] \/ sock'[fd] = None
      /\ \A fd \in Fds : sock'[fd] # sock[fd] => Open(f) /\ sess[f].fd = fd
  BY <1>1, RemoveSound
<1>3. Open(f) => sock[sess[f].fd].flow = f
  BY <1>1, OpenTyped
<1> QED BY <1>2, <1>3 DEF UdpKept

\* A SYN, which may replace a session.
LEMMA SynKeepsUdp ==
  ASSUME Core(UdpSockets, Datagrams), NEW f \in Flows, TunSyn(f)
  PROVE  UdpKept
<1>1. Typed(UdpSockets, Datagrams) /\ Owns /\ Held /\ Foreign(UdpSockets, Datagrams)
  BY UdpForeign DEF Core
<1>2. ASSUME NEW fd \in Fds, NEW conn \in {"connecting", "unconnected"},
             Closed(f)[fd] = None,
             sock' = [Closed(f) EXCEPT ![fd] = NewSocket(f, conn)],
             NEW isn \in Isns, SetSession(f, NewSession(f, fd, isn))
      PROVE  UdpKept
  <2>1. /\ sock'[fd] = NewSocket(f, conn)
        /\ \A d \in Fds \ {fd} : sock'[d] = sock[d] \/ sock'[d] = None
        /\ \A d \in Fds \ {fd} : sock'[d] # sock[d] => Open(f) /\ sess[f].fd = d
        /\ sock[fd] = None \/ (Open(f) /\ sess[f].fd = fd)
    <3>1. Replaces(f, fd, conn, isn)
      BY <1>2 DEF Replaces
    <3> QED BY <1>1, <3>1, ReplaceSound
  <2>2. Open(f) => sock[sess[f].fd].flow = f
    BY <1>1, OpenTyped
  <2>3. NewSocket(f, conn).flow = f
    BY DEF NewSocket
  <2> QED BY <2>1, <2>2, <2>3 DEF UdpKept
<1> QED BY <1>2, RemoveKeepsUdp DEF TunSyn

\* A handler that changes what its session's socket holds.
LEMMA ChangeKeepsUdp ==
  ASSUME Core(UdpSockets, Datagrams), NEW f \in Flows, Open(f), NEW k, k.flow = f,
         sock' = [sock EXCEPT ![sess[f].fd] = k]
  PROVE  UdpKept
<1>1. sess[f].fd \in Fds /\ sock[sess[f].fd].flow = f
  BY UdpForeign, OpenTyped DEF Core
<1>2. sock \in [Fds -> Sockets \cup UdpSockets \cup {None}]
  BY DEF Core, Typed
<1>3. \A d \in Fds : sock'[d] = IF d = sess[f].fd THEN k ELSE sock[d]
  BY <1>1, <1>2
<1> QED BY <1>1, <1>3 DEF UdpKept

\* Every step of the TCP half.
LEMMA HandleKeepsUdp ==
  ASSUME Core(UdpSockets, Datagrams), NEW f \in Flows, Handle(f)
  PROVE  UdpKept
<1>1. CASE TunSyn(f)
  BY <1>1, SynKeepsUdp
<1>2. CASE \/ TunRst(f) \/ TunFin(f) \/ TunDataFailed(f)
           \/ SocketRefused(f) \/ SocketEof(f) \/ SocketError(f)
  BY <1>2, RemoveKeepsUdp
     DEF TunRst, TunFin, TunDataFailed, SocketRefused, SocketEof, SocketError
<1>3. CASE \/ TunNoSession(f) \/ TunDataPending(f) \/ TunDataSent(f)
           \/ SocketNotReadable(f) \/ SocketAgain(f)
  BY <1>3 DEF TunNoSession, TunDataPending, TunDataSent, SocketNotReadable, SocketAgain, UdpKept
<1>4. CASE SocketConnected(f)
  <2> DEFINE k == [sock[sess[f].fd] EXCEPT !.watchOut = FALSE]
  <2>1. Open(f) /\ sock[sess[f].fd] \in Sockets /\ sock[sess[f].fd].flow = f
    BY <1>4, FromSocketSound, UdpForeign DEF SocketConnected
  <2>2. k.flow = f
    BY <2>1 DEF Sockets
  <2>3. sock' = [sock EXCEPT ![sess[f].fd] = k]
    BY <1>4 DEF SocketConnected
  <2> HIDE DEF k
  <2> QED BY <2>1, <2>2, <2>3, ChangeKeepsUdp
<1>5. ASSUME NEW n \in 1 .. MaxRead, SocketData(f, n) PROVE UdpKept
  <2> DEFINE k == [sock[sess[f].fd] EXCEPT !.rx = SubSeq(@, n + 1, Len(@))]
  <2>1. Open(f) /\ sock[sess[f].fd] \in Sockets /\ sock[sess[f].fd].flow = f
    BY <1>5, FromSocketSound, UdpForeign DEF SocketData, Reads
  <2>2. k.flow = f
    BY <2>1 DEF Sockets
  <2>3. sock' = [sock EXCEPT ![sess[f].fd] = k]
    BY <1>5 DEF SocketData
  <2> HIDE DEF k
  <2> QED BY <2>1, <2>2, <2>3, ChangeKeepsUdp
<1> QED BY <1>1, <1>2, <1>3, <1>4, <1>5 DEF Handle

\* The kernel's steps on a TCP socket.
LEMMA NetworkKeepsUdp ==
  ASSUME Core(UdpSockets, Datagrams), NEW fd \in Fds, Network(fd)
  PROVE  UdpKept
<1>1. /\ sock \in [Fds -> Sockets \cup UdpSockets \cup {None}]
      /\ sock[fd] # None /\ sock[fd].conn \in {"connecting", "connected"}
  BY DEF Core, Typed, Network, ConnectEnds, ServerSends, ServerCloses, ServerResets, Live
<1>2. sock[fd] \in Sockets
  BY <1>1, UdpForeign DEF Foreign
<1>3. /\ \A d \in Fds \ {fd} : sock'[d] = sock[d]
      /\ sock'[fd].flow = sock[fd].flow
  BY <1>1, <1>2 DEF Network, ConnectEnds, ServerSends, ServerCloses, ServerResets, Sockets
<1> QED BY <1>2, <1>3 DEF UdpKept, Sockets

-----------------------------------------------------------------------------
\* The tunnel loses its first packet or gets one that is not of this flow.
TunKept(u) ==
  \/ tunIn' = tunIn
  \/ tunIn # <<>> /\ tunIn' = Tail(tunIn)
  \/ \E p \in Packets \cup Datagrams : p.flow # u /\ Send(p)

\* Then the datagrams of the flow stay in order.
LEMMA OrderKept ==
  ASSUME tunIn \in Seq(Packets \cup Datagrams), NEW u \in UdpFlows, TunKept(u), AsksInOrder(u),
         device'[u].asked = device[u].asked, peer'[u].got = peer[u].got
  PROVE  AsksInOrder(u)'
<1>1. CASE tunIn' = tunIn
  BY <1>1 DEF AsksInOrder
<1>2. CASE tunIn # <<>> /\ tunIn' = Tail(tunIn)
  <2>1. /\ Len(tunIn) \in Nat /\ Len(tunIn') = Len(tunIn) - 1
        /\ \A i \in 1 .. Len(tunIn') : tunIn'[i] = tunIn[i + 1] /\ i + 1 \in 1 .. Len(tunIn)
    BY <1>2
  <2>2. ASSUME NEW i \in 1 .. Len(tunIn'), tunIn'[i].flow = u
        PROVE  /\ tunIn'[i].seq <= device'[u].asked
               /\ \A j \in 1 .. Len(peer'[u].got) : peer'[u].got[j] < tunIn'[i].seq
    BY <2>1, <2>2 DEF AsksInOrder
  <2>3. ASSUME NEW i \in 1 .. Len(tunIn'), NEW j \in 1 .. Len(tunIn'), i < j,
               tunIn'[i].flow = u, tunIn'[j].flow = u
        PROVE  tunIn'[i].seq < tunIn'[j].seq
    <3>1. i + 1 < j + 1
      BY <2>1, <2>3
    <3> QED BY <2>1, <2>3, <3>1 DEF AsksInOrder
  <2>4. /\ \A i, j \in 1 .. Len(peer'[u].got) : i < j => peer'[u].got[i] < peer'[u].got[j]
        /\ \A i \in 1 .. Len(peer'[u].got) : peer'[u].got[i] <= device'[u].asked
    BY DEF AsksInOrder
  <2> QED BY <2>2, <2>3, <2>4, Zenon DEF AsksInOrder
<1>3. ASSUME NEW p \in Packets \cup Datagrams, p.flow # u, Send(p) PROVE AsksInOrder(u)'
  <2>1. /\ Len(tunIn) \in Nat /\ Len(tunIn') = Len(tunIn) + 1
        /\ \A i \in 1 .. Len(tunIn) : tunIn'[i] = tunIn[i]
        /\ tunIn'[Len(tunIn) + 1] = p
    BY <1>3 DEF Send
  <2>2. \A i \in 1 .. Len(tunIn') :
          tunIn'[i].flow = u => i \in 1 .. Len(tunIn) /\ tunIn'[i] = tunIn[i]
    BY <1>3, <2>1
  <2>3. ASSUME NEW i \in 1 .. Len(tunIn'), tunIn'[i].flow = u
        PROVE  /\ tunIn'[i].seq <= device'[u].asked
               /\ \A j \in 1 .. Len(peer'[u].got) : peer'[u].got[j] < tunIn'[i].seq
    BY <2>2, <2>3 DEF AsksInOrder
  <2>4. ASSUME NEW i \in 1 .. Len(tunIn'), NEW j \in 1 .. Len(tunIn'), i < j,
               tunIn'[i].flow = u, tunIn'[j].flow = u
        PROVE  tunIn'[i].seq < tunIn'[j].seq
    BY <2>2, <2>4 DEF AsksInOrder
  <2>5. /\ \A i, j \in 1 .. Len(peer'[u].got) : i < j => peer'[u].got[i] < peer'[u].got[j]
        /\ \A i \in 1 .. Len(peer'[u].got) : peer'[u].got[i] <= device'[u].asked
    BY DEF AsksInOrder
  <2> QED BY <2>3, <2>4, <2>5, Zenon DEF AsksInOrder
<1> QED BY <1>1, <1>2, <1>3 DEF TunKept

\* A step of the TCP half.
LEMMA TcpKeepsInv ==
  ASSUME RelayInv, Core(UdpSockets, Datagrams)', UdpKept,
         \A u \in UdpFlows : TunKept(u), UNCHANGED udpVars
  PROVE  RelayInv'
<1>1. /\ tunIn \in Seq(Packets \cup Datagrams) /\ UNCHANGED <<usess, device, peer>>
      /\ UdpTyped /\ UdpOwns /\ UdpHeld
  BY DEF RelayInv, Core, Typed, udpVars
<1>2. \A fd \in Fds :
        \/ sock[fd] # None /\ sock[fd].flow \in UdpFlows
        \/ sock'[fd] # None /\ sock'[fd].flow \in UdpFlows
        => sock'[fd] = sock[fd]
  BY RelayConstants DEF UdpKept
<1>3. ASSUME NEW u \in UdpFlows, UdpOpen(u)
      PROVE  usess[u].fd \in Fds /\ sock'[usess[u].fd] = sock[usess[u].fd]
  BY <1>2, <1>3, UdpOpenTyped DEF RelayInv, UdpOwns
<1>4. UdpTyped'
  BY <1>1 DEF UdpTyped
<1>5. UdpOwns' /\ UdpHeld'
  BY <1>1, <1>2, <1>3 DEF UdpOwns, UdpHeld, UdpOpen
<1>6. ASSUME NEW u \in UdpFlows PROVE AsksInOrder(u)' /\ (UdpOpen(u) => Intact(u))'
  <2>1. AsksInOrder(u)'
    BY <1>1, OrderKept DEF RelayInv
  <2>2. ASSUME UdpOpen(u) PROVE Intact(u)'
    BY <1>1, <1>3, <2>2, UdpOpenTyped, SMTT(40) DEF Intact
  <2> QED BY <1>1, <2>1, <2>2 DEF UdpOpen
<1> QED BY <1>4, <1>5, <1>6 DEF RelayInv

\* What the handlers do to the tunnel.
LEMMA HandleKeepsTun ==
  ASSUME Core(UdpSockets, Datagrams), NEW f \in Flows, Handle(f), NEW u \in UdpFlows
  PROVE  TunKept(u)
<1>1. CASE \E kind : FromTun(kind)
  BY <1>1, FromTunSound, UdpForeign DEF Core, FromTun, TunKept
<1>2. CASE tunIn' = tunIn
  BY <1>2 DEF TunKept
<1> QED BY <1>1, <1>2
  DEF Handle, TunSyn, TunNoSession, TunRst, TunFin, TunDataPending, TunDataSent,
      TunDataFailed, SocketConnected, SocketRefused, SocketNotReadable, SocketData,
      SocketEof, SocketError, SocketAgain

\* A packet of a TCP client is no datagram.
LEMMA ClientKeepsTun ==
  ASSUME Core(UdpSockets, Datagrams), NEW f \in Flows, Client(f), NEW u \in UdpFlows
  PROVE  TunKept(u) /\ sock' = sock
<1>1. /\ sock' = sock
      /\ \E kind, seq, fin : tunIn' = Append(tunIn, Packet(f, kind, seq, fin))
  BY DEF Client, ClientSyn, ClientData, ClientFin, ClientRetransmit, ClientAbort, Send
<1>2. PICK p : p.flow = f /\ tunIn' = Append(tunIn, p)
  BY <1>1 DEF Packet
<1>3. p \in Packets \cup Datagrams
  <2>1. Core(UdpSockets, Datagrams)'
    BY ClientSound, UdpForeign
  <2>2. /\ tunIn \in Seq(Packets \cup Datagrams) /\ tunIn' \in Seq(Packets \cup Datagrams)
    BY <2>1 DEF Core, Typed
  <2>3. Len(tunIn) \in Nat /\ Len(tunIn') = Len(tunIn) + 1 /\ tunIn'[Len(tunIn) + 1] = p
    BY <1>2, <2>2
  <2>4. tunIn'[Len(tunIn) + 1] \in Packets \cup Datagrams
    BY <2>2, <2>3
  <2> QED BY <2>3, <2>4
<1>4. f # u
  BY RelayConstants
<1> QED BY <1>1, <1>2, <1>3, <1>4 DEF TunKept, Send

-----------------------------------------------------------------------------
\* A step of the UDP half keeps what belongs to the TCP half.
LEMMA UdpStepCore ==
  ASSUME Core(UdpSockets, Datagrams), UNCHANGED tcpVars,
         BatchOK', tunIn' \in Seq(Packets \cup Datagrams),
         sock' \in [Fds -> Sockets \cup UdpSockets \cup {None}],
         \A fd \in Fds : sock'[fd] = sock[fd] \/
           (sock[fd] \in UdpSockets \cup {None} /\ sock'[fd] \in UdpSockets \cup {None})
  PROVE  Core(UdpSockets, Datagrams)'
<1>1. /\ Typed(UdpSockets, Datagrams) /\ Owns /\ Held
      /\ UNCHANGED <<sess, tunOut, client, server>>
  BY DEF Core, tcpVars
<1>2. \A k \in UdpSockets \cup {None} : k # None => k.flow \notin Flows
  BY RelayConstants DEF UdpSockets
<1>3. ASSUME NEW f \in Flows, Open(f)
      PROVE  sess[f].fd \in Fds /\ sock'[sess[f].fd] = sock[sess[f].fd]
  <2>1. sess[f].fd \in Fds /\ sock[sess[f].fd] # None /\ sock[sess[f].fd].flow = f
    BY <1>1, <1>3, OpenTyped, UdpForeign DEF Owns
  <2>2. sock[sess[f].fd] \notin UdpSockets \cup {None}
    BY <1>2, <2>1
  <2> QED BY <2>1, <2>2
<1>4. Owns'
  BY <1>1, <1>3 DEF Owns, Open
<1>5. Held'
  <2> SUFFICES ASSUME NEW fd \in Fds, sock'[fd] # None, sock'[fd].flow \in Flows
               PROVE  sess'[sock'[fd].flow] # None /\ sess'[sock'[fd].flow].fd = fd
    BY DEF Held, Open
  <2>1. sock'[fd] = sock[fd]
    BY <1>2
  <2> QED BY <1>1, <2>1 DEF Held, Open
<1>6. Typed(UdpSockets, Datagrams)'
  BY <1>1 DEF Typed, Open
<1> QED BY <1>4, <1>5, <1>6 DEF Core

\* A step that keeps every UDP session, and changes what one socket holds, one
\* device or one peer.
LEMMA UdpStays ==
  ASSUME RelayInv, UNCHANGED <<tcpVars, usess>>,
         BatchOK', tunIn' \in Seq(Packets \cup Datagrams), UdpTyped',
         NEW u \in UdpFlows, UdpOpen(u),
         NEW k \in UdpSockets, k.flow = u, sock' = [sock EXCEPT ![usess[u].fd] = k],
         \A v \in UdpFlows \ {u} : device'[v] = device[v] /\ peer'[v] = peer[v],
         \A v \in UdpFlows : AsksInOrder(v)',
         IntactFor(usess[u], k.rx, device'[u].got, peer'[u].replied)
  PROVE  RelayInv'
<1>1. /\ usess[u].fd \in Fds /\ sock[usess[u].fd] \in UdpSockets
      /\ sock[usess[u].fd].flow = u /\ usess' = usess
  BY UdpOpenTyped
<1>2. /\ Core(UdpSockets, Datagrams) /\ UdpOwns /\ UdpHeld
      /\ sock \in [Fds -> Sockets \cup UdpSockets \cup {None}]
  BY DEF RelayInv, Core, Typed
<1>3. /\ sock' \in [Fds -> Sockets \cup UdpSockets \cup {None}]
      /\ \A fd \in Fds : sock'[fd] = IF fd = usess[u].fd THEN k ELSE sock[fd]
  BY <1>1, <1>2
<1>4. Core(UdpSockets, Datagrams)'
  <2>1. \A fd \in Fds : sock'[fd] = sock[fd] \/
           (sock[fd] \in UdpSockets \cup {None} /\ sock'[fd] \in UdpSockets \cup {None})
    BY <1>1, <1>3
  <2> QED BY <1>2, <1>3, <2>1, UdpStepCore
<1>5. k # None
  BY UdpForeign DEF Foreign
<1>6. \A fd \in Fds : /\ sock'[fd] = None <=> sock[fd] = None
                      /\ sock[fd] # None => sock'[fd].flow = sock[fd].flow
  BY <1>1, <1>2, <1>3, <1>5, UdpForeign DEF Foreign
<1>7. UdpOwns'
  BY <1>1, <1>2, <1>6, UdpOpenTyped DEF UdpOwns, UdpOpen
<1>8. UdpHeld'
  BY <1>1, <1>2, <1>6 DEF UdpHeld, UdpOpen
<1>9. ASSUME NEW v \in UdpFlows, UdpOpen(v) PROVE Intact(v)'
  <2>1. CASE v = u
    <3>1. sock'[usess'[u].fd] = k
      BY <1>1, <1>3
    <3> QED BY <1>1, <2>1, <3>1 DEF Intact
  <2>2. CASE v # u
    <3>1. /\ usess[v].fd \in Fds /\ sock[usess[v].fd].flow = v /\ Intact(v)
      BY <1>9, UdpOpenTyped
    <3>2. sock'[usess'[v].fd] = sock[usess[v].fd]
      BY <1>1, <1>3, <2>2, <3>1
    <3> QED BY <1>1, <2>2, <3>1, <3>2 DEF Intact
  <2> QED BY <2>1, <2>2
<1>10. \A v \in UdpFlows : AsksInOrder(v)' /\ (UdpOpen(v) => Intact(v))'
  BY <1>1, <1>9 DEF UdpOpen
<1> QED BY <1>4, <1>7, <1>8, <1>10 DEF RelayInv

-----------------------------------------------------------------------------
\* The device, the peers and the network.
LEMMA DeviceAsksSound ==
  ASSUME RelayInv, NEW u \in UdpFlows, DeviceAsks(u)
  PROVE  RelayInv'
<1> DEFINE n == device[u].asked + 1
           p == Packet(u, "udp", n, FALSE)
<1>1. /\ device[u] \in Devices /\ device[u].asked < MaxAsk /\ Send(p)
      /\ device' = [device EXCEPT ![u].asked = device[u].asked + 1]
      /\ UNCHANGED <<tcpVars, sock, batch, usess, peer>>
      /\ Core(UdpSockets, Datagrams) /\ UdpTyped /\ UdpOwns /\ UdpHeld
  BY DEF DeviceAsks, RelayInv, UdpTyped
<1>2. n \in 1 .. MaxAsk /\ device[u].asked \in Nat
  BY <1>1, RelayConstants DEF Devices
<1>3. p \in Datagrams /\ p.flow = u /\ p.seq = n
  BY <1>2 DEF Packet, Datagrams
<1>4. /\ Typed(UdpSockets, Datagrams) /\ tunIn \in Seq(Packets \cup Datagrams)
      /\ sock \in [Fds -> Sockets \cup UdpSockets \cup {None}]
  BY <1>1 DEF Core, Typed
<1> HIDE DEF p, n
<1>5. BatchOK' /\ tunIn' \in Seq(Packets \cup Datagrams)
  BY <1>1, <1>3, <1>4, SendSound
<1>6. Core(UdpSockets, Datagrams)'
  BY <1>1, <1>4, <1>5, UdpStepCore
<1>7. /\ device' \in [UdpFlows -> Devices]
      /\ device'[u].asked = n
      /\ \A v \in UdpFlows : device'[v].got = device[v].got
      /\ \A v \in UdpFlows \ {u} : device'[v] = device[v]
  <2>1. [device[u] EXCEPT !.asked = n] \in Devices
    BY <1>1, <1>2 DEF Devices
  <2>2. device' = [device EXCEPT ![u] = [device[u] EXCEPT !.asked = n]]
    BY <1>1 DEF UdpTyped, n
  <2>3. /\ device' \in [UdpFlows -> Devices]
        /\ \A v \in UdpFlows :
             device'[v] = IF v = u THEN [device[u] EXCEPT !.asked = n] ELSE device[v]
    BY <1>1, <2>1, <2>2 DEF UdpTyped
  <2>4. /\ [device[u] EXCEPT !.asked = n].asked = n
        /\ [device[u] EXCEPT !.asked = n].got = device[u].got
    BY <1>1 DEF Devices
  <2> QED BY <2>3, <2>4
<1>8. UdpTyped' /\ UdpOwns' /\ UdpHeld'
  BY <1>1, <1>7 DEF UdpTyped, UdpOwns, UdpHeld, UdpOpen
<1>9. AsksInOrder(u)'
  <2>1. /\ AsksInOrder(u) /\ n > device[u].asked /\ peer' = peer
    BY <1>1, <1>2 DEF RelayInv, n
  <2>2. /\ Len(tunIn) \in Nat /\ Len(tunIn') = Len(tunIn) + 1
        /\ \A i \in 1 .. Len(tunIn) : tunIn'[i] = tunIn[i]
        /\ tunIn'[Len(tunIn) + 1] = p
    BY <1>1, <1>4 DEF Send
  <2>3. \A i \in 1 .. Len(peer[u].got) : peer[u].got[i] \in Nat
    BY <1>1, RelayConstants DEF UdpTyped, Peers
  <2>4. \A i \in 1 .. Len(tunIn) : tunIn[i].flow = u => tunIn[i].seq \in Nat
    <3>1. \A q \in Packets \cup Datagrams : q.seq \in Nat
      <4>1. \A q \in Packets : q.seq \in Nat
        BY TcpRelayConstants DEF Packets
      <4>2. \A q \in Datagrams : q.seq \in Nat
        BY RelayConstants DEF Datagrams
      <4> QED BY <4>1, <4>2
    <3> QED BY <1>4, <3>1
  <2>5. \A i \in 1 .. Len(tunIn') :
          \/ i \in 1 .. Len(tunIn) /\ tunIn'[i] = tunIn[i]
          \/ i = Len(tunIn) + 1 /\ tunIn'[i] = p
    BY <2>2
  <2>6. /\ \A i, j \in 1 .. Len(peer'[u].got) : i < j => peer'[u].got[i] < peer'[u].got[j]
        /\ \A i \in 1 .. Len(peer'[u].got) : peer'[u].got[i] <= device'[u].asked
    BY <1>2, <1>7, <2>1, <2>3 DEF AsksInOrder
  <2>7. ASSUME NEW i \in 1 .. Len(tunIn'), tunIn'[i].flow = u
        PROVE  /\ tunIn'[i].seq <= device'[u].asked
               /\ \A j \in 1 .. Len(peer'[u].got) : peer'[u].got[j] < tunIn'[i].seq
    <3>1. CASE i \in 1 .. Len(tunIn) /\ tunIn'[i] = tunIn[i]
      <4>1. /\ tunIn[i].seq \in Nat /\ tunIn[i].seq <= device[u].asked
            /\ \A j \in 1 .. Len(peer[u].got) : peer[u].got[j] < tunIn[i].seq
        BY <2>1, <2>4, <2>7, <3>1 DEF AsksInOrder
      <4>2. tunIn[i].seq <= n
        BY <1>2, <2>1, <4>1
      <4> QED BY <1>7, <2>1, <3>1, <4>1, <4>2
    <3>2. CASE tunIn'[i] = p
      <4>1. \A j \in 1 .. Len(peer[u].got) : peer[u].got[j] < n
        BY <1>2, <2>1, <2>3 DEF AsksInOrder
      <4> QED BY <1>2, <1>3, <1>7, <2>1, <3>2, <4>1
    <3> QED BY <2>5, <3>1, <3>2
  <2>8. ASSUME NEW i \in 1 .. Len(tunIn'), NEW j \in 1 .. Len(tunIn'), i < j,
               tunIn'[i].flow = u, tunIn'[j].flow = u
        PROVE  tunIn'[i].seq < tunIn'[j].seq
    <3>1. i \in 1 .. Len(tunIn) /\ tunIn'[i] = tunIn[i]
      BY <2>2, <2>5, <2>8
    <3>2. tunIn[i].seq \in Nat /\ tunIn[i].seq <= device[u].asked
      BY <2>1, <2>4, <2>8, <3>1 DEF AsksInOrder
    <3>3. CASE j \in 1 .. Len(tunIn) /\ tunIn'[j] = tunIn[j]
      BY <2>1, <2>8, <3>1, <3>3 DEF AsksInOrder
    <3>4. CASE tunIn'[j] = p
      BY <1>2, <1>3, <2>1, <3>1, <3>2, <3>4
    <3> QED BY <2>5, <3>3, <3>4
  <2> QED BY <2>6, <2>7, <2>8, Zenon DEF AsksInOrder
<1>10. ASSUME NEW v \in UdpFlows \ {u} PROVE AsksInOrder(v)'
  <2>1. TunKept(v)
    BY <1>1, <1>3 DEF TunKept
  <2> QED BY <1>1, <1>4, <1>7, <2>1, OrderKept DEF RelayInv
<1>11. ASSUME NEW v \in UdpFlows PROVE UdpOpen(v)' => Intact(v)'
  BY <1>1, <1>7 DEF RelayInv, Intact, UdpOpen
<1> QED BY <1>6, <1>8, <1>9, <1>10, <1>11 DEF RelayInv

\* What is passed over leaves both tables.
LEMMA BatchKeeps ==
  ASSUME RelayInv, UNCHANGED <<tcpVars, sock, udpVars>>, BatchOK',
         tunIn' \in Seq(Packets \cup Datagrams), \A u \in UdpFlows : TunKept(u)
  PROVE  RelayInv'
<1>1. /\ Core(UdpSockets, Datagrams)
      /\ sock' \in [Fds -> Sockets \cup UdpSockets \cup {None}]
  BY DEF RelayInv, Core, Typed
<1>2. Core(UdpSockets, Datagrams)'
  BY <1>1, UdpStepCore
<1> QED BY <1>2, TcpKeepsInv DEF UdpKept

-----------------------------------------------------------------------------
\* What a queue holds when it grows and shrinks.
LEMMA ToSetAppend ==
  ASSUME NEW S, NEW q \in Seq(S), NEW x \in S
  PROVE  /\ Append(q, x) \in Seq(S) /\ Len(Append(q, x)) = Len(q) + 1
         /\ \A i \in 1 .. Len(q) + 1 :
              Append(q, x)[i] = IF i = Len(q) + 1 THEN x ELSE q[i]
         /\ ToSet(Append(q, x)) = ToSet(q) \cup {x}
<1>1. /\ DOMAIN q = 1 .. Len(q) /\ DOMAIN Append(q, x) = 1 .. Len(q) + 1 /\ Len(q) \in Nat
      /\ Append(q, x) \in Seq(S) /\ Len(Append(q, x)) = Len(q) + 1
      /\ \A i \in 1 .. Len(q) + 1 :
              Append(q, x)[i] = IF i = Len(q) + 1 THEN x ELSE q[i]
  OBVIOUS
<1>2. ToSet(Append(q, x)) \subseteq ToSet(q) \cup {x}
  <2> SUFFICES ASSUME NEW i \in 1 .. Len(q) + 1
               PROVE  Append(q, x)[i] \in ToSet(q) \cup {x}
    BY <1>1 DEF ToSet
  <2>1. i # Len(q) + 1 => i \in 1 .. Len(q)
    BY <1>1
  <2> QED BY <1>1, <2>1 DEF ToSet
<1>3. x \in ToSet(Append(q, x))
  <2>1. Len(q) + 1 \in 1 .. Len(q) + 1
    BY <1>1
  <2> QED BY <1>1, <2>1 DEF ToSet
<1>4. ToSet(q) \subseteq ToSet(Append(q, x))
  <2> SUFFICES ASSUME NEW i \in 1 .. Len(q) PROVE q[i] \in ToSet(Append(q, x))
    BY <1>1 DEF ToSet
  <2>1. i \in 1 .. Len(q) + 1 /\ i # Len(q) + 1
    BY <1>1
  <2> QED BY <1>1, <2>1 DEF ToSet
<1> QED BY <1>1, <1>2, <1>3, <1>4

\* What the tail of a queue is, and what it leaves out.
LEMMA ToSetTail ==
  ASSUME NEW S, NEW q \in Seq(S), q # <<>>
  PROVE  /\ Tail(q) \in Seq(S) /\ Len(Tail(q)) = Len(q) - 1 /\ Len(q) \in Nat
         /\ Head(q) = q[1] /\ Head(q) \in S /\ 1 \in 1 .. Len(q)
         /\ \A i \in 1 .. Len(q) - 1 : Tail(q)[i] = q[i + 1] /\ i + 1 \in 2 .. Len(q)
         /\ ToSet(q) = {Head(q)} \cup ToSet(Tail(q))
<1>1. /\ Tail(q) \in Seq(S) /\ Len(Tail(q)) = Len(q) - 1 /\ Len(q) \in Nat
      /\ Head(q) = q[1] /\ Head(q) \in S /\ 1 \in 1 .. Len(q)
      /\ DOMAIN q = 1 .. Len(q) /\ DOMAIN Tail(q) = 1 .. Len(q) - 1
      /\ \A i \in 1 .. Len(q) - 1 : Tail(q)[i] = q[i + 1] /\ i + 1 \in 2 .. Len(q)
  OBVIOUS
<1>2. ToSet(q) \subseteq {Head(q)} \cup ToSet(Tail(q))
  <2> SUFFICES ASSUME NEW i \in 1 .. Len(q) PROVE q[i] \in {Head(q)} \cup ToSet(Tail(q))
    BY <1>1 DEF ToSet
  <2>1. i # 1 => i - 1 \in 1 .. Len(q) - 1 /\ Tail(q)[i - 1] = q[i]
    BY <1>1
  <2> QED BY <1>1, <2>1 DEF ToSet
<1>3. ToSet(Tail(q)) \subseteq ToSet(q)
  <2> SUFFICES ASSUME NEW i \in 1 .. Len(q) - 1 PROVE Tail(q)[i] \in ToSet(q)
    BY <1>1 DEF ToSet
  <2>1. i + 1 \in 1 .. Len(q) /\ Tail(q)[i] = q[i + 1]
    BY <1>1
  <2> QED BY <1>1, <2>1 DEF ToSet
<1>4. Head(q) \in ToSet(q)
  BY <1>1 DEF ToSet
<1> QED BY <1>1, <1>2, <1>3, <1>4

\* A reply arrives.
LEMMA ReplyArrives ==
  ASSUME NEW s \in UdpSessions, NEW rx \in Seq(0 .. MaxReply), NEW got \in Seq(1 .. MaxReply),
         NEW replied \in 0 .. MaxReply, IntactFor(s, rx, got, replied),
         NEW n \in 0 .. MaxReply, n = 0 \/ n = replied + 1
  PROVE  IntactFor(s, Append(rx, n), got, IF n = 0 THEN replied ELSE n)
<1> DEFINE last == s.replied + Len(got) - s.got
           w == IF n = 0 THEN replied ELSE n
           S == 0 .. MaxReply
<1>1. /\ last \in Int /\ replied \in Nat /\ n \in Nat /\ last <= replied /\ s.got <= Len(got)
      /\ \A i \in s.got + 1 .. Len(got) : got[i] = s.replied + i - s.got
      /\ ToSet(rx) \ {0} = last + 1 .. replied
      /\ \A i, j \in 1 .. Len(rx) : i < j /\ rx[j] # 0 => rx[i] < rx[j]
      /\ w \in Nat /\ last >= 0
  BY RelayConstants DEF IntactFor, UdpSessions
<1>2. rx \in Seq(S) /\ n \in S
  OBVIOUS
<1> HIDE DEF S
<1>3. \A i \in 1 .. Len(rx) : rx[i] \in S
  BY <1>2
<1>4. /\ Len(Append(rx, n)) = Len(rx) + 1 /\ Len(rx) \in Nat
      /\ \A i \in 1 .. Len(rx) + 1 : Append(rx, n)[i] = IF i = Len(rx) + 1 THEN n ELSE rx[i]
      /\ ToSet(Append(rx, n)) = ToSet(rx) \cup {n}
  BY <1>2, ToSetAppend
<1>5. \A i \in 1 .. Len(rx) : rx[i] \in Nat /\ rx[i] <= replied
  <2> SUFFICES ASSUME NEW i \in 1 .. Len(rx) PROVE rx[i] \in Nat /\ rx[i] <= replied
    OBVIOUS
  <2>1. rx[i] \in Nat
    BY <1>3, RelayConstants DEF S
  <2>2. rx[i] \in ToSet(rx)
    BY DEF ToSet
  <2>3. rx[i] # 0 => rx[i] \in last + 1 .. replied
    BY <1>1, <2>2
  <2> QED BY <1>1, <2>1, <2>3
<1>6. ToSet(Append(rx, n)) \ {0} = last + 1 .. w
  <2>1. n = 0 => ToSet(Append(rx, n)) \ {0} = ToSet(rx) \ {0}
    BY <1>4
  <2>2. n # 0 => ToSet(Append(rx, n)) \ {0} = (ToSet(rx) \ {0}) \cup {replied + 1}
    BY <1>4
  <2>3. n # 0 => last + 1 .. w = (last + 1 .. replied) \cup {replied + 1}
    BY <1>1
  <2> QED BY <1>1, <2>1, <2>2, <2>3
<1>7. ASSUME NEW i \in 1 .. Len(Append(rx, n)), NEW j \in 1 .. Len(Append(rx, n)),
             i < j, Append(rx, n)[j] # 0
      PROVE  Append(rx, n)[i] < Append(rx, n)[j]
  <2>1. i \in 1 .. Len(rx) /\ Append(rx, n)[i] = rx[i]
    BY <1>4, <1>7
  <2>2. CASE j = Len(rx) + 1
    <3>1. Append(rx, n)[j] = n /\ n = replied + 1
      BY <1>4, <1>7, <2>2
    <3>2. rx[i] \in Nat /\ rx[i] <= replied
      BY <1>5, <2>1
    <3>3. rx[i] < n
      BY <1>1, <3>1, <3>2
    <3> QED BY <2>1, <3>1, <3>3
  <2>3. CASE j # Len(rx) + 1
    <3>1. j \in 1 .. Len(rx) /\ Append(rx, n)[j] = rx[j]
      BY <1>4, <1>7, <2>3
    <3> QED BY <1>1, <1>7, <2>1, <3>1
  <2> QED BY <2>2, <2>3
<1>8. last <= w
  BY <1>1
<1> QED BY <1>1, <1>6, <1>7, <1>8 DEF IntactFor

\* A reply is read; an empty one is dropped.
LEMMA ReplyRead ==
  ASSUME NEW s \in UdpSessions, NEW rx \in Seq(0 .. MaxReply), NEW got \in Seq(1 .. MaxReply),
         NEW replied \in 0 .. MaxReply, IntactFor(s, rx, got, replied), rx # <<>>
  PROVE  IntactFor(s, Tail(rx), IF Head(rx) = 0 THEN got ELSE Append(got, Head(rx)), replied)
<1> DEFINE last == s.replied + Len(got) - s.got
           m == Head(rx)
           S == 0 .. MaxReply
<1>1. /\ last \in Int /\ replied \in Nat /\ last <= replied /\ s.got <= Len(got)
      /\ s.got \in Nat /\ s.replied \in Nat /\ Len(got) \in Nat
      /\ \A i \in s.got + 1 .. Len(got) : got[i] = s.replied + i - s.got
      /\ ToSet(rx) \ {0} = last + 1 .. replied
      /\ \A i, j \in 1 .. Len(rx) : i < j /\ rx[j] # 0 => rx[i] < rx[j]
      /\ last >= 0
  BY RelayConstants DEF IntactFor, UdpSessions
<1>2. rx \in Seq(S)
  OBVIOUS
<1> HIDE DEF S
<1>3. /\ Len(Tail(rx)) = Len(rx) - 1 /\ Len(rx) \in Nat
      /\ m = rx[1] /\ m \in S /\ 1 \in 1 .. Len(rx)
      /\ \A i \in 1 .. Len(rx) - 1 : Tail(rx)[i] = rx[i + 1] /\ i + 1 \in 2 .. Len(rx)
      /\ ToSet(rx) = {m} \cup ToSet(Tail(rx))
  BY <1>2, ToSetTail
<1>4. \A i, j \in 1 .. Len(Tail(rx)) : i < j /\ Tail(rx)[j] # 0 => Tail(rx)[i] < Tail(rx)[j]
  <2> SUFFICES ASSUME NEW i \in 1 .. Len(Tail(rx)), NEW j \in 1 .. Len(Tail(rx)), i < j,
                      Tail(rx)[j] # 0
               PROVE  Tail(rx)[i] < Tail(rx)[j]
    OBVIOUS
  <2>1. /\ Tail(rx)[i] = rx[i + 1] /\ Tail(rx)[j] = rx[j + 1] /\ i + 1 < j + 1
        /\ i + 1 \in 1 .. Len(rx) /\ j + 1 \in 1 .. Len(rx)
    BY <1>3
  <2> QED BY <1>1, <2>1
<1>5. m \in Nat
  BY <1>3, RelayConstants DEF S
<1>6. CASE m = 0
  <2>1. ToSet(Tail(rx)) \ {0} = ToSet(rx) \ {0}
    BY <1>3, <1>6
  <2> QED BY <1>1, <1>4, <1>6, <2>1 DEF IntactFor
<1>7. CASE m # 0
  <2>1. m \in last + 1 .. replied
    BY <1>1, <1>3, <1>7
  <2>2. \A i \in 2 .. Len(rx) : rx[i] # 0 => m < rx[i]
    BY <1>1, <1>3
  <2>3. \A x \in ToSet(Tail(rx)) : \E i \in 2 .. Len(rx) : rx[i] = x
    <3>1. DOMAIN Tail(rx) = 1 .. Len(rx) - 1
      BY <1>2, <1>3, ToSetTail
    <3> QED BY <1>3, <3>1 DEF ToSet
  <2>4. \A x \in ToSet(Tail(rx)) : x # 0 => m < x
    BY <2>2, <2>3
  <2>5. m = last + 1
    <3>1. last + 1 \in last + 1 .. replied
      BY <1>1, <2>1
    <3>2. last + 1 \in {m} \cup ToSet(Tail(rx)) /\ last + 1 # 0
      BY <1>1, <1>3, <3>1
    <3> QED BY <1>1, <2>1, <2>4, <3>2
  <2>6. ToSet(Tail(rx)) \ {0} = last + 2 .. replied
    <3>1. m \notin ToSet(Tail(rx))
      BY <1>5, <1>7, <2>4
    <3>2. ToSet(Tail(rx)) \ {0} = (last + 1 .. replied) \ {last + 1}
      BY <1>1, <1>3, <1>7, <2>5, <3>1
    <3> QED BY <1>1, <3>2, SMTT(40)
  <2> DEFINE T == 1 .. MaxReply
  <2>7. m \in T /\ got \in Seq(T)
    BY <1>1, <2>1, RelayConstants, SMTT(40)
  <2> HIDE DEF T
  <2>8. /\ Len(Append(got, m)) = Len(got) + 1
        /\ \A i \in 1 .. Len(got) + 1 : Append(got, m)[i] = IF i = Len(got) + 1 THEN m ELSE got[i]
    BY <2>7, ToSetAppend
  <2>9. \A i \in s.got + 1 .. Len(got) + 1 : Append(got, m)[i] = s.replied + i - s.got
    <3> SUFFICES ASSUME NEW i \in s.got + 1 .. Len(got) + 1
                 PROVE  Append(got, m)[i] = s.replied + i - s.got
      OBVIOUS
    <3>1. i \in 1 .. Len(got) + 1
      BY <1>1
    <3>2. CASE i = Len(got) + 1
      <4>1. Append(got, m)[i] = s.replied + Len(got) - s.got + 1
        BY <2>5, <2>8, <3>1, <3>2
      <4>2. \A a, b, c \in Nat : a + b - c + 1 = a + (b + 1) - c
        OBVIOUS
      <4> QED BY <1>1, <3>2, <4>1, <4>2
    <3>3. CASE i # Len(got) + 1
      <4>1. i \in s.got + 1 .. Len(got)
        BY <1>1, <3>3
      <4>2. Append(got, m)[i] = got[i]
        BY <2>8, <3>1, <3>3
      <4> QED BY <1>1, <4>1, <4>2
    <3> QED BY <3>2, <3>3
  <2>10. /\ s.replied + (Len(got) + 1) - s.got = last + 1 /\ last + 1 <= replied
         /\ (last + 1) + 1 = last + 2 /\ s.got <= Len(got) + 1
    <3>1. \A a, b, c \in Nat : a + (b + 1) - c = (a + b - c) + 1
      OBVIOUS
    <3>2. s.replied + (Len(got) + 1) - s.got = last + 1
      BY <1>1, <3>1
    <3> HIDE DEF last
    <3>3. last + 1 <= replied /\ (last + 1) + 1 = last + 2 /\ s.got <= Len(got) + 1
      BY <1>1, <2>1
    <3> QED BY <3>2, <3>3
  <2> QED BY <1>4, <1>7, <2>6, <2>8, <2>9, <2>10 DEF IntactFor
<1> QED BY <1>6, <1>7

-----------------------------------------------------------------------------
\* The parts of a UDP socket that change.
LEMMA UdpSocketTyped ==
  ASSUME NEW k \in UdpSockets
  PROVE  /\ k.rx \in Seq(0 .. MaxReply) /\ k.conn \in {"udp", "udpError", "udpUnconnected"}
         /\ \A conn \in {"udp", "udpError", "udpUnconnected"} :
              /\ [k EXCEPT !.conn = conn] \in UdpSockets
              /\ [k EXCEPT !.conn = conn].flow = k.flow
              /\ [k EXCEPT !.conn = conn].rx = k.rx
         /\ \A rx \in Seq(0 .. MaxReply) :
              /\ [k EXCEPT !.rx = rx] \in UdpSockets
              /\ [k EXCEPT !.rx = rx].flow = k.flow
              /\ [k EXCEPT !.rx = rx].rx = rx
BY DEF UdpSockets

\* What the invariant says about one UDP flow and what surrounds it.
LEMMA RelayTyped ==
  ASSUME RelayInv
  PROVE  /\ Core(UdpSockets, Datagrams) /\ Typed(UdpSockets, Datagrams) /\ BatchOK
         /\ tunIn \in Seq(Packets \cup Datagrams)
         /\ sock \in [Fds -> Sockets \cup UdpSockets \cup {None}]
         /\ UdpTyped /\ UdpOwns /\ UdpHeld
         /\ device \in [UdpFlows -> Devices] /\ peer \in [UdpFlows -> Peers]
         /\ usess \in [UdpFlows -> UdpSessions \cup {None}]
         /\ \A u \in UdpFlows : /\ device[u] \in Devices /\ device[u].got \in Seq(1 .. MaxReply)
                                /\ peer[u] \in Peers /\ peer[u].replied \in 0 .. MaxReply
                                /\ AsksInOrder(u)
BY DEF RelayInv, Core, Typed, UdpTyped, Devices, Peers

\* A datagram of a peer arrives at its socket.
LEMMA PeerRepliesSound ==
  ASSUME RelayInv, NEW u \in UdpFlows, NEW n \in 0 .. MaxReply, PeerReplies(u, n)
  PROVE  RelayInv'
<1> DEFINE q == sock[usess[u].fd]
           k == [q EXCEPT !.rx = Append(q.rx, n)]
           w == IF n = 0 THEN peer[u].replied ELSE n
<1>1. /\ UdpOpen(u) /\ (n = 0 \/ n = peer[u].replied + 1)
      /\ UNCHANGED <<tcpVars, batch, tunIn, usess, device>>
      /\ sock' = [sock EXCEPT ![usess[u].fd].rx = Append(@, n)]
      /\ peer' = [peer EXCEPT ![u].replied = w]
  BY DEF PeerReplies
<1>2. /\ usess[u] \in UdpSessions /\ usess[u].fd \in Fds /\ q \in UdpSockets /\ q.flow = u
      /\ IntactFor(usess[u], q.rx, device[u].got, peer[u].replied)
  BY <1>1, UdpOpenTyped DEF Intact
<1>3. Append(q.rx, n) \in Seq(0 .. MaxReply) /\ q.rx \in Seq(0 .. MaxReply)
  <2>1. q.rx \in Seq(0 .. MaxReply)
    BY <1>2, UdpSocketTyped
  <2> HIDE DEF q
  <2> QED BY <2>1
<1>4. k \in UdpSockets /\ k.flow = u /\ k.rx = Append(q.rx, n)
  BY <1>2, <1>3, UdpSocketTyped
<1>5. sock' = [sock EXCEPT ![usess[u].fd] = k]
  BY <1>1, <1>2, RelayTyped
<1>6. /\ peer' \in [UdpFlows -> Peers] /\ peer'[u].replied = w
      /\ \A v \in UdpFlows : peer'[v].got = peer[v].got
      /\ \A v \in UdpFlows \ {u} : peer'[v] = peer[v]
  <2>1. w \in 0 .. MaxReply
    BY RelayTyped
  <2> HIDE DEF w
  <2>2. [peer[u] EXCEPT !.replied = w] \in Peers
    BY <2>1, RelayTyped DEF Peers
  <2>3. \A v \in UdpFlows : peer'[v] = IF v = u THEN [peer[u] EXCEPT !.replied = w] ELSE peer[v]
    BY <1>1, RelayTyped
  <2>4. /\ [peer[u] EXCEPT !.replied = w].replied = w
        /\ [peer[u] EXCEPT !.replied = w].got = peer[u].got
    BY RelayTyped DEF Peers
  <2> QED BY <1>1, <2>2, <2>3, <2>4, RelayTyped
<1>7. IntactFor(usess[u], k.rx, device'[u].got, peer'[u].replied)
  <2> HIDE DEF q, k, w
  <2>1. IntactFor(usess[u], Append(q.rx, n), device[u].got, IF n = 0 THEN peer[u].replied ELSE n)
    BY <1>1, <1>2, <1>3, RelayTyped, ReplyArrives
  <2> QED BY <1>1, <1>4, <1>6, <2>1 DEF w
<1>8. \A v \in UdpFlows : AsksInOrder(v)'
  BY <1>1, <1>6, RelayTyped DEF AsksInOrder
<1>9. BatchOK' /\ tunIn' \in Seq(Packets \cup Datagrams) /\ UdpTyped'
  BY <1>1, <1>6, RelayTyped DEF BatchOK, UdpTyped
<1> HIDE DEF k, q, w
<1> QED BY <1>1, <1>4, <1>5, <1>6, <1>7, <1>8, <1>9, UdpStays

\* The network reports an error.
LEMMA IcmpErrorSound ==
  ASSUME RelayInv, NEW u \in UdpFlows, IcmpError(u)
  PROVE  RelayInv'
<1> DEFINE q == sock[usess[u].fd]
           k == [q EXCEPT !.conn = "udpError"]
<1>1. /\ UdpOpen(u) /\ UNCHANGED <<tcpVars, batch, tunIn, usess, device>>
      /\ sock' = [sock EXCEPT ![usess[u].fd].conn = "udpError"]
      /\ peer' = [peer EXCEPT ![u].errors = @ + 1]
  BY DEF IcmpError
<1>2. /\ usess[u].fd \in Fds /\ q \in UdpSockets /\ q.flow = u
      /\ IntactFor(usess[u], q.rx, device[u].got, peer[u].replied)
  BY <1>1, UdpOpenTyped DEF Intact
<1>3. k \in UdpSockets /\ k.flow = u /\ k.rx = q.rx
  BY <1>2, UdpSocketTyped
<1>4. sock' = [sock EXCEPT ![usess[u].fd] = k]
  BY <1>1, <1>2, RelayTyped
<1>5. /\ peer' \in [UdpFlows -> Peers] /\ peer'[u].replied = peer[u].replied
      /\ \A v \in UdpFlows : peer'[v].got = peer[v].got
      /\ \A v \in UdpFlows \ {u} : peer'[v] = peer[v]
  <2> DEFINE w == peer[u].errors + 1
  <2>1. w \in Nat
    BY RelayTyped DEF Peers
  <2> HIDE DEF w
  <2>2. [peer[u] EXCEPT !.errors = w] \in Peers
    BY <2>1, RelayTyped DEF Peers
  <2>3. \A v \in UdpFlows : peer'[v] = IF v = u THEN [peer[u] EXCEPT !.errors = w] ELSE peer[v]
    BY <1>1, RelayTyped DEF w
  <2>4. /\ [peer[u] EXCEPT !.errors = w].replied = peer[u].replied
        /\ [peer[u] EXCEPT !.errors = w].got = peer[u].got
    BY RelayTyped DEF Peers
  <2> QED BY <1>1, <2>2, <2>3, <2>4, RelayTyped
<1>6. \A v \in UdpFlows : AsksInOrder(v)'
  BY <1>1, <1>5, RelayTyped DEF AsksInOrder
<1>7. BatchOK' /\ tunIn' \in Seq(Packets \cup Datagrams) /\ UdpTyped'
  BY <1>1, <1>5, RelayTyped DEF BatchOK, UdpTyped
<1> HIDE DEF k, q
<1> QED BY <1>1, <1>2, <1>3, <1>4, <1>5, <1>6, <1>7, UdpStays

-----------------------------------------------------------------------------
\* handle_udp_tun.

\* A datagram is taken from the tunnel.
LEMMA FromUdpTun ==
  ASSUME RelayInv, FromTun("udp")
  PROVE  /\ BatchOK' /\ tunIn' \in Seq(Packets \cup Datagrams) /\ tunIn # <<>>
         /\ tunIn' = Tail(tunIn) /\ Head(tunIn) = tunIn[1] /\ 1 \in 1 .. Len(tunIn)
         /\ Len(tunIn) \in Nat /\ Len(tunIn') = Len(tunIn) - 1
         /\ \A i \in 1 .. Len(tunIn') : tunIn'[i] = tunIn[i + 1] /\ i + 1 \in 2 .. Len(tunIn)
         /\ Head(tunIn).seq \in 1 .. MaxAsk /\ \A u \in UdpFlows : TunKept(u)
<1>1. /\ BatchOK' /\ tunIn' \in Seq(Packets \cup Datagrams) /\ tunIn # <<>>
      /\ Head(tunIn) \in Packets \cup Datagrams /\ Head(tunIn).kind = "udp"
      /\ tunIn' = Tail(tunIn)
  BY RelayTyped, UdpForeign, FromTunSound DEF FromTun
<1>2. Head(tunIn).seq \in 1 .. MaxAsk
  BY <1>1 DEF Packets, Datagrams
<1>3. /\ Head(tunIn) = tunIn[1] /\ 1 \in 1 .. Len(tunIn)
      /\ Len(tunIn) \in Nat /\ Len(tunIn') = Len(tunIn) - 1
      /\ \A i \in 1 .. Len(tunIn') : tunIn'[i] = tunIn[i + 1] /\ i + 1 \in 2 .. Len(tunIn)
  BY <1>1, RelayTyped
<1> QED BY <1>1, <1>2, <1>3 DEF TunKept

\* r is q with n at its end.
Longer(r, q, n) ==
  /\ Len(q) \in Nat /\ Len(r) = Len(q) + 1
  /\ \A i \in 1 .. Len(q) + 1 : r[i] = IF i = Len(q) + 1 THEN n ELSE q[i]

\* Appending makes it so.
LEMMA AppendLonger ==
  ASSUME NEW S, NEW q \in Seq(S), NEW x \in S
  PROVE  Longer(Append(q, x), q, x)
<1>1. Len(q) \in Nat
  OBVIOUS
<1> QED BY <1>1, ToSetAppend DEF Longer

\* A number above all that a sequence holds, at its end.
LEMMA Climbs ==
  ASSUME NEW r, NEW q, NEW n, NEW top, Longer(r, q, n),
         \A i, j \in 1 .. Len(q) : i < j => q[i] < q[j],
         \A i \in 1 .. Len(q) : q[i] < n /\ q[i] <= top, n <= top
  PROVE  /\ \A i, j \in 1 .. Len(r) : i < j => r[i] < r[j]
         /\ \A i \in 1 .. Len(r) : r[i] <= top
         /\ \A m : n < m /\ (\A j \in 1 .. Len(q) : q[j] < m) =>
              \A j \in 1 .. Len(r) : r[j] < m
<1> DEFINE l == Len(q)
<1>1. l \in Nat /\ Len(r) = l + 1
  BY DEF Longer
<1>2. \A i \in 1 .. l + 1 : (i \in 1 .. l /\ r[i] = q[i]) \/ (i = l + 1 /\ r[i] = n)
  <2>1. \A i \in 1 .. l + 1 : r[i] = IF i = l + 1 THEN n ELSE q[i]
    BY DEF Longer
  <2> HIDE DEF l
  <2> SUFFICES ASSUME NEW i \in 1 .. l + 1
               PROVE  (i \in 1 .. l /\ r[i] = q[i]) \/ (i = l + 1 /\ r[i] = n)
    OBVIOUS
  <2>2. r[i] = IF i = l + 1 THEN n ELSE q[i]
    BY <2>1
  <2>3. i # l + 1 => i \in 1 .. l
    BY <1>1
  <2> QED BY <2>2, <2>3
<1> HIDE DEF l
<1>3. ASSUME NEW i \in 1 .. l + 1, NEW j \in 1 .. l + 1, i < j PROVE r[i] < r[j]
  <2>1. i # l + 1
    BY <1>1, <1>3
  <2>2. i \in 1 .. l /\ r[i] = q[i]
    BY <1>2, <2>1
  <2>3. CASE j = l + 1
    BY <1>2, <2>2, <2>3 DEF l
  <2>4. CASE j # l + 1
    BY <1>2, <1>3, <2>2, <2>4 DEF l
  <2> QED BY <2>3, <2>4
<1>4. \A i \in 1 .. l + 1 : r[i] <= top
  BY <1>2 DEF l
<1>5. ASSUME NEW m, n < m, \A j \in 1 .. Len(q) : q[j] < m, NEW j \in 1 .. l + 1 PROVE r[j] < m
  BY <1>2, <1>5 DEF l
<1> QED BY <1>1, <1>3, <1>4, <1>5 DEF l

\* A datagram that reaches its peer is the next one.
LEMMA OrderSent ==
  ASSUME RelayInv, FromTun("udp"), NEW u \in UdpFlows, u = Head(tunIn).flow,
         device' = device, Longer(peer'[u].got, peer[u].got, Head(tunIn).seq)
  PROVE  AsksInOrder(u)'
<1> DEFINE n == Head(tunIn).seq
           got == peer[u].got
           top == device[u].asked
<1>1. AsksInOrder(u) /\ tunIn[1].flow = u /\ tunIn[1].seq = n
  BY RelayTyped, FromUdpTun
<1>2. /\ 1 \in 1 .. Len(tunIn)
      /\ \A i \in 1 .. Len(tunIn') :
           tunIn'[i] = tunIn[i + 1] /\ i + 1 \in 1 .. Len(tunIn) /\ 1 < i + 1
  BY FromUdpTun
<1>3. Longer(peer'[u].got, got, n) /\ device'[u].asked = top
  OBVIOUS
<1>4. /\ \A i, j \in 1 .. Len(got) : i < j => got[i] < got[j]
      /\ \A i \in 1 .. Len(got) : got[i] < n /\ got[i] <= top
      /\ n <= top
  <2>1. \A i \in 1 .. Len(tunIn) : tunIn[i].flow = u =>
          /\ tunIn[i].seq <= top
          /\ \A j \in 1 .. Len(got) : got[j] < tunIn[i].seq
    BY <1>1 DEF AsksInOrder
  <2>2. /\ \A i, j \in 1 .. Len(got) : i < j => got[i] < got[j]
        /\ \A i \in 1 .. Len(got) : got[i] <= top
    BY <1>1 DEF AsksInOrder
  <2> HIDE DEF n, got, top
  <2> QED BY <1>1, <1>2, <2>1, <2>2
<1>5. \A i \in 1 .. Len(tunIn') : tunIn'[i].flow = u =>
        /\ n < tunIn'[i].seq /\ tunIn'[i].seq <= top
        /\ \A j \in 1 .. Len(got) : got[j] < tunIn'[i].seq
  <2>1. \A i \in 1 .. Len(tunIn) : tunIn[i].flow = u =>
          /\ tunIn[i].seq <= top
          /\ \A j \in 1 .. Len(got) : got[j] < tunIn[i].seq
    BY <1>1 DEF AsksInOrder
  <2>2. \A i, j \in 1 .. Len(tunIn) :
          i < j /\ tunIn[i].flow = u /\ tunIn[j].flow = u => tunIn[i].seq < tunIn[j].seq
    BY <1>1 DEF AsksInOrder
  <2> HIDE DEF n, got, top
  <2> QED BY <1>1, <1>2, <2>1, <2>2
<1>6. \A i, j \in 1 .. Len(tunIn') :
        i < j /\ tunIn'[i].flow = u /\ tunIn'[j].flow = u => tunIn'[i].seq < tunIn'[j].seq
  <2>1. \A i, j \in 1 .. Len(tunIn) :
          i < j /\ tunIn[i].flow = u /\ tunIn[j].flow = u => tunIn[i].seq < tunIn[j].seq
    BY <1>1 DEF AsksInOrder
  <2>2. ASSUME NEW i \in 1 .. Len(tunIn'), NEW j \in 1 .. Len(tunIn'), i < j
        PROVE  i + 1 < j + 1
    BY <2>2
  <2> QED BY <1>2, <2>1, <2>2
<1> DEFINE after == peer'[u].got
<1>7. Longer(after, got, n)
  BY <1>3
<1> HIDE DEF n, got, top, after
<1>8. /\ \A i, j \in 1 .. Len(after) : i < j => after[i] < after[j]
      /\ \A i \in 1 .. Len(after) : after[i] <= top
      /\ \A m : n < m /\ (\A j \in 1 .. Len(got) : got[j] < m) =>
           \A j \in 1 .. Len(after) : after[j] < m
  BY <1>4, <1>7, Climbs
<1>9. \A i \in 1 .. Len(tunIn') : tunIn'[i].flow = u =>
        /\ tunIn'[i].seq <= top
        /\ \A j \in 1 .. Len(after) : after[j] < tunIn'[i].seq
  BY <1>5, <1>8
<1> QED BY <1>3, <1>6, <1>8, <1>9 DEF AsksInOrder, after

\* What a send leaves its peer with.
LEMMA UdpSendSound ==
  ASSUME RelayInv, FromTun("udp"), NEW u \in UdpFlows, u = Head(tunIn).flow,
         NEW fd, NEW k, UdpSend(u, fd, k), device' = device
  PROVE  /\ peer' \in [UdpFlows -> Peers] /\ peer'[u].replied = peer[u].replied
         /\ \A v \in UdpFlows \ {u} : peer'[v] = peer[v]
         /\ \A v \in UdpFlows : AsksInOrder(v)'
<1> DEFINE n == Head(tunIn).seq
<1>1. \A v \in UdpFlows : AsksInOrder(v) /\ TunKept(v)
  BY RelayTyped, FromUdpTun
<1>2. tunIn \in Seq(Packets \cup Datagrams) /\ peer[u] \in Peers /\ peer \in [UdpFlows -> Peers]
  BY RelayTyped
<1>3. CASE UNCHANGED peer
  BY <1>1, <1>2, <1>3, OrderKept
<1>4. ASSUME NEW got \in UdpSent(u, n),
             peer' = [peer EXCEPT ![u].got = got, ![u].knows = @ \/ got # peer[u].got]
      PROVE  /\ peer' \in [UdpFlows -> Peers] /\ peer'[u].replied = peer[u].replied
             /\ \A v \in UdpFlows \ {u} : peer'[v] = peer[v]
             /\ \A v \in UdpFlows : AsksInOrder(v)'
  <2> DEFINE knows == peer[u].knows \/ got # peer[u].got
             p == [peer[u] EXCEPT !.got = got]
  <2>1. got = Append(peer[u].got, n) \/ got = peer[u].got
    BY <1>4 DEF UdpSent
  <2>2. got \in Seq(1 .. MaxAsk)
    <3> DEFINE S == 1 .. MaxAsk
    <3>1. n \in S /\ peer[u].got \in Seq(S)
      BY <1>2, FromUdpTun DEF Peers
    <3> HIDE DEF n, S
    <3>2. Append(peer[u].got, n) \in Seq(S)
      BY <3>1, ToSetAppend
    <3>3. got \in Seq(S)
      BY <2>1, <3>1, <3>2
    <3> QED BY <3>3 DEF S
  <2>3. p \in Peers /\ p.got = got /\ p.replied = peer[u].replied
    BY <1>2, <2>2 DEF Peers
  <2>4. knows \in BOOLEAN
    OBVIOUS
  <2>5. \A v \in UdpFlows : peer'[v] = IF v = u THEN [p EXCEPT !.knows = knows] ELSE peer[v]
    BY <1>2, <1>4
  <2> HIDE DEF p, knows
  <2>6. /\ [p EXCEPT !.knows = knows] \in Peers
        /\ [p EXCEPT !.knows = knows].got = got
        /\ [p EXCEPT !.knows = knows].replied = peer[u].replied
    BY <2>3, <2>4 DEF Peers
  <2>7. peer' \in [UdpFlows -> Peers]
    BY <1>2, <1>4, <2>5, <2>6
  <2>8. AsksInOrder(u)'
    <3>1. peer'[u].got = got
      BY <2>5, <2>6
    <3>2. CASE got = peer[u].got
      BY <1>1, <1>2, <3>1, <3>2, OrderKept
    <3>3. CASE got = Append(peer[u].got, n)
      <4> DEFINE S == 1 .. MaxAsk
      <4>1. n \in S /\ peer[u].got \in Seq(S)
        BY <1>2, FromUdpTun DEF Peers
      <4> HIDE DEF S, n
      <4>2. Longer(Append(peer[u].got, n), peer[u].got, n)
        BY <4>1, AppendLonger
      <4>3. Longer(got, peer[u].got, n)
        BY <3>3, <4>2, Zenon
      <4> QED BY <3>1, <4>3, OrderSent DEF n
    <3> QED BY <2>1, <3>2, <3>3
  <2>9. \A v \in UdpFlows \ {u} : AsksInOrder(v)'
    BY <1>1, <1>2, <2>5, OrderKept
  <2> QED BY <2>5, <2>6, <2>7, <2>8, <2>9
<1> QED BY <1>3, <1>4 DEF UdpSend

\* A datagram of a flow that has a session.
LEMMA UdpTunKnownSound ==
  ASSUME RelayInv, NEW u \in UdpFlows, UdpTunKnown(u)
  PROVE  RelayInv'
<1> DEFINE q == sock[usess[u].fd]
           conn == IF q.conn = "udpError" THEN "udp" ELSE q.conn
           k == [q EXCEPT !.conn = conn]
<1>1. /\ FromTun("udp") /\ u = Head(tunIn).flow /\ UdpOpen(u)
      /\ UdpSend(u, usess[u].fd, q) /\ UNCHANGED <<tcpVars, usess, device>>
      /\ sock' = [sock EXCEPT ![usess[u].fd] = k]
  BY DEF UdpTunKnown, UdpSend
<1>2. /\ q \in UdpSockets /\ q.flow = u
      /\ IntactFor(usess[u], q.rx, device[u].got, peer[u].replied)
  BY <1>1, UdpOpenTyped DEF Intact
<1>3. k \in UdpSockets /\ k.flow = u /\ k.rx = q.rx
  <2>1. conn \in {"udp", "udpError", "udpUnconnected"}
    BY <1>2, UdpSocketTyped
  <2> HIDE DEF conn
  <2> QED BY <1>2, <2>1, UdpSocketTyped
<1>4. /\ peer' \in [UdpFlows -> Peers] /\ peer'[u].replied = peer[u].replied
      /\ \A v \in UdpFlows \ {u} : peer'[v] = peer[v]
      /\ \A v \in UdpFlows : AsksInOrder(v)'
  BY <1>1, UdpSendSound
<1>5. BatchOK' /\ tunIn' \in Seq(Packets \cup Datagrams) /\ UdpTyped'
  BY <1>1, <1>4, FromUdpTun, RelayTyped DEF UdpTyped
<1> HIDE DEF k, q
<1> QED BY <1>1, <1>2, <1>3, <1>4, <1>5, UdpStays

\* A flow's first datagram gets it a session over a free descriptor.
LEMMA UdpMade ==
  ASSUME RelayInv, NEW u \in UdpFlows, FromTun("udp"), u = Head(tunIn).flow, ~UdpOpen(u),
         NEW fd \in Fds, NEW conn \in {"udp", "udpUnconnected"}, sock[fd] = None,
         usess' = [usess EXCEPT ![u] = NewUdpSession(u, fd)],
         UdpSend(u, fd, NewUdpSocket(u, conn)), UNCHANGED <<tcpVars, device>>
  PROVE  RelayInv'
<1> DEFINE s == NewUdpSession(u, fd)
           q == NewUdpSocket(u, conn)
           k == [q EXCEPT !.conn = IF @ = "udpError" THEN "udp" ELSE @]
<1>1. /\ q.conn = conn /\ q \in UdpSockets /\ q.flow = u /\ q.rx = <<>>
  BY DEF NewUdpSocket, UdpSockets
<1>2. k \in UdpSockets /\ k.flow = u /\ k.rx = <<>>
  <2>1. k = [q EXCEPT !.conn = conn]
    BY <1>1 DEF NewUdpSocket
  <2> HIDE DEF q
  <2> QED BY <1>1, <2>1, UdpSocketTyped, ZenonT(60)
<1>3. k # None
  BY <1>2, UdpForeign DEF Foreign
<1>4. s \in UdpSessions /\ s # None /\ s.fd = fd
      /\ s.replied = peer[u].replied /\ s.got = Len(device[u].got)
  <2>1. peer[u].replied \in 0 .. MaxReply /\ Len(device[u].got) \in Nat
    BY RelayTyped
  <2> QED BY <2>1 DEF NewUdpSession, UdpSessions, None
<1>5. sock' = [sock EXCEPT ![fd] = k]
  BY DEF UdpSend
<1> HIDE DEF k, q, s
<1>6. /\ sock' \in [Fds -> Sockets \cup UdpSockets \cup {None}]
      /\ \A d \in Fds : sock'[d] = IF d = fd THEN k ELSE sock[d]
      /\ usess' \in [UdpFlows -> UdpSessions \cup {None}]
      /\ \A v \in UdpFlows : usess'[v] = IF v = u THEN s ELSE usess[v]
  BY <1>2, <1>4, <1>5, RelayTyped DEF s
<1>7. /\ peer' \in [UdpFlows -> Peers] /\ peer'[u].replied = peer[u].replied
      /\ \A v \in UdpFlows \ {u} : peer'[v] = peer[v]
      /\ \A v \in UdpFlows : AsksInOrder(v)'
  BY UdpSendSound
<1>8. BatchOK' /\ tunIn' \in Seq(Packets \cup Datagrams) /\ UdpTyped'
  BY <1>6, <1>7, FromUdpTun, RelayTyped DEF UdpTyped
<1>9. Core(UdpSockets, Datagrams)'
  <2>1. \A d \in Fds : sock'[d] = sock[d] \/
           (sock[d] \in UdpSockets \cup {None} /\ sock'[d] \in UdpSockets \cup {None})
    BY <1>2, <1>6
  <2> QED BY <1>6, <1>8, <2>1, RelayTyped, UdpStepCore
<1>10. ASSUME NEW v \in UdpFlows \ {u}, UdpOpen(v)
       PROVE  usess[v].fd \in Fds /\ usess[v].fd # fd /\ sock'[usess[v].fd] = sock[usess[v].fd]
  BY <1>6, <1>10, UdpOpenTyped, UdpForeign DEF Foreign
<1>11. UdpOwns'
  <2> SUFFICES ASSUME NEW v \in UdpFlows, UdpOpen(v)'
               PROVE  sock'[usess'[v].fd] # None /\ sock'[usess'[v].fd].flow = v
    BY DEF UdpOwns
  <2>1. CASE v = u
    BY <1>2, <1>3, <1>4, <1>6, <2>1
  <2>2. CASE v # u
    BY <1>6, <1>10, <2>2, RelayTyped DEF UdpOwns, UdpOpen
  <2> QED BY <2>1, <2>2
<1>12. UdpHeld'
  <2> SUFFICES ASSUME NEW d \in Fds, sock'[d] # None, sock'[d].flow \in UdpFlows
               PROVE  usess'[sock'[d].flow] # None /\ usess'[sock'[d].flow].fd = d
    BY DEF UdpHeld, UdpOpen
  <2>1. CASE d = fd
    BY <1>2, <1>4, <1>6, <2>1
  <2>2. CASE d # fd
    BY <1>6, <2>2, RelayTyped DEF UdpHeld, UdpOpen
  <2> QED BY <2>1, <2>2
<1>13. ASSUME NEW v \in UdpFlows, UdpOpen(v)' PROVE Intact(v)'
  <2>1. CASE v = u
    <3>1. /\ sock'[usess'[u].fd].rx = <<>> /\ usess'[u] = s
          /\ device' = device /\ peer'[u].replied = peer[u].replied
      BY <1>2, <1>4, <1>6, <1>7
    <3>2. peer[u].replied \in Nat /\ Len(device[u].got) \in Nat
      BY RelayTyped, RelayConstants
    <3>3. IntactFor(s, <<>>, device[u].got, peer[u].replied)
      BY <1>4, <3>2 DEF IntactFor, ToSet
    <3> QED BY <2>1, <3>1, <3>3 DEF Intact
  <2>2. CASE v # u
    <3>1. UdpOpen(v) /\ usess'[v] = usess[v]
      BY <1>6, <1>13, <2>2 DEF UdpOpen
    <3>2. sock'[usess'[v].fd] = sock[usess[v].fd] /\ Intact(v) /\ peer'[v] = peer[v]
      BY <1>7, <1>10, <2>2, <3>1, UdpOpenTyped
    <3> QED BY <3>1, <3>2 DEF Intact
  <2> QED BY <2>1, <2>2
<1> QED BY <1>7, <1>8, <1>9, <1>11, <1>12, <1>13 DEF RelayInv

\* A datagram of a flow that has none.
LEMMA UdpTunNewSound ==
  ASSUME RelayInv, NEW u \in UdpFlows, UdpTunNew(u)
  PROVE  RelayInv'
<1>1. /\ FromTun("udp") /\ u = Head(tunIn).flow /\ ~UdpOpen(u) /\ UNCHANGED <<tcpVars, device>>
  BY DEF UdpTunNew, UdpMissing
<1>2. CASE UNCHANGED <<sock, usess, peer>>
  BY <1>1, <1>2, FromUdpTun, BatchKeeps DEF udpVars
<1>3. ASSUME NEW fd \in Fds, NEW conn \in {"udp", "udpUnconnected"}, sock[fd] = None,
             usess' = [usess EXCEPT ![u] = NewUdpSession(u, fd)],
             UdpSend(u, fd, NewUdpSocket(u, conn))
      PROVE  RelayInv'
  BY <1>1, <1>3, UdpMade
<1> QED BY <1>2, <1>3 DEF UdpTunNew

-----------------------------------------------------------------------------
\* handle_socket_event.

\* The next event is for a UDP session's socket.
LEMMA FromUdpSocketSound ==
  ASSUME RelayInv, NEW u \in UdpFlows, FromUdpSocket(u), tunIn' = tunIn
  PROVE  /\ BatchOK' /\ tunIn' \in Seq(Packets \cup Datagrams) /\ UdpOpen(u)
         /\ \A v \in UdpFlows : TunKept(v)
         /\ usess[u] \in UdpSessions /\ usess[u].fd \in Fds
         /\ sock[usess[u].fd] \in UdpSockets /\ sock[usess[u].fd].flow = u
         /\ IntactFor(usess[u], sock[usess[u].fd].rx, device[u].got, peer[u].replied)
<1>1. UdpOpen(u)
  BY DEF FromUdpSocket, UdpOwnersOf
<1>2. BatchOK'
  BY RelayTyped, TailSound DEF FromUdpSocket
<1> QED BY <1>1, <1>2, RelayTyped, UdpOpenTyped DEF Intact, TunKept

\* A reply is passed on.
LEMMA UdpReadSound ==
  ASSUME RelayInv, NEW u \in UdpFlows, UdpRead(u)
  PROVE  RelayInv'
<1> DEFINE q == sock[usess[u].fd]
           k == [q EXCEPT !.rx = Tail(q.rx)]
           m == Head(q.rx)
           got == device[u].got
           w == IF m = 0 THEN got ELSE Append(got, m)
<1>1. /\ FromUdpSocket(u) /\ q.rx # <<>> /\ UNCHANGED <<tcpVars, tunIn, usess, peer>>
      /\ sock' = [sock EXCEPT ![usess[u].fd].rx = Tail(@)]
      /\ device' = IF m = 0 THEN device ELSE [device EXCEPT ![u].got = Append(@, m)]
  BY DEF UdpRead, UdpPasses
<1>2. /\ BatchOK' /\ tunIn' \in Seq(Packets \cup Datagrams) /\ UdpOpen(u)
      /\ \A v \in UdpFlows : TunKept(v)
      /\ usess[u] \in UdpSessions /\ usess[u].fd \in Fds /\ q \in UdpSockets /\ q.flow = u
      /\ IntactFor(usess[u], q.rx, got, peer[u].replied)
  BY <1>1, FromUdpSocketSound
<1>3. q.rx \in Seq(0 .. MaxReply)
  BY <1>2, UdpSocketTyped
<1>4. Tail(q.rx) \in Seq(0 .. MaxReply) /\ m \in 0 .. MaxReply
  <2> DEFINE S == 0 .. MaxReply
             rx == q.rx
  <2>1. rx \in Seq(S) /\ rx # <<>>
    BY <1>1, <1>3
  <2> HIDE DEF S, rx
  <2>2. Tail(rx) \in Seq(S) /\ Head(rx) \in S
    BY <2>1, ToSetTail
  <2> QED BY <2>2 DEF S, rx
<1>5. k \in UdpSockets /\ k.flow = u /\ k.rx = Tail(q.rx)
  BY <1>2, <1>4, UdpSocketTyped
<1>6. sock' = [sock EXCEPT ![usess[u].fd] = k]
  BY <1>1, <1>2, RelayTyped
<1>7. w \in Seq(1 .. MaxReply)
  <2> DEFINE S == 1 .. MaxReply
  <2>1. got \in Seq(S) /\ (m # 0 => m \in S)
    BY <1>4, RelayTyped, RelayConstants
  <2> HIDE DEF S, m, got
  <2>2. m # 0 => Append(got, m) \in Seq(S)
    BY <2>1, ToSetAppend
  <2> QED BY <2>1, <2>2 DEF S
<1>8. /\ device' \in [UdpFlows -> Devices] /\ device'[u].got = w
      /\ \A v \in UdpFlows : device'[v].asked = device[v].asked
      /\ \A v \in UdpFlows \ {u} : device'[v] = device[v]
  <2> DEFINE d == [device[u] EXCEPT !.got = w]
  <2>1. device[u] \in Devices /\ device \in [UdpFlows -> Devices]
    BY RelayTyped
  <2> HIDE DEF w
  <2>2. d \in Devices /\ d.got = w /\ d.asked = device[u].asked
    BY <1>7, <2>1 DEF Devices
  <2>3. device' = [device EXCEPT ![u] = d]
    <3>1. CASE m = 0
      <4>1. d = device[u]
        BY <2>1, <3>1 DEF Devices, w
      <4> HIDE DEF d
      <4> QED BY <1>1, <2>1, <3>1, <4>1
    <3>2. CASE m # 0
      BY <1>1, <3>2 DEF w
    <3> QED BY <3>1, <3>2
  <2> HIDE DEF d
  <2>4. \A v \in UdpFlows : device'[v] = IF v = u THEN d ELSE device[v]
    BY <2>1, <2>3
  <2> QED BY <2>1, <2>2, <2>3, <2>4
<1>9. IntactFor(usess[u], k.rx, device'[u].got, peer'[u].replied)
  <2>1. IntactFor(usess[u], Tail(q.rx), w, peer[u].replied)
    BY <1>1, <1>2, <1>3, RelayTyped, ReplyRead
  <2> HIDE DEF k, w, q
  <2> QED BY <1>1, <1>5, <1>8, <2>1
<1>10. \A v \in UdpFlows : AsksInOrder(v)'
  BY <1>1, <1>2, <1>8, RelayTyped, OrderKept
<1>11. UdpTyped'
  BY <1>1, <1>8, RelayTyped DEF UdpTyped
<1> HIDE DEF k, q, m, w
<1> QED BY <1>1, <1>2, <1>5, <1>6, <1>8, <1>9, <1>10, <1>11, UdpStays

\* A reported error is taken note of.
LEMMA UdpReadErrorSound ==
  ASSUME RelayInv, NEW u \in UdpFlows, UdpReadError(u)
  PROVE  RelayInv'
<1> DEFINE q == sock[usess[u].fd]
           k == [q EXCEPT !.conn = "udp"]
<1>1. /\ FromUdpSocket(u) /\ UNCHANGED <<tcpVars, tunIn, usess, device, peer>>
      /\ sock' = [sock EXCEPT ![usess[u].fd].conn = "udp"]
  BY DEF UdpReadError, udpVars
<1>2. /\ BatchOK' /\ tunIn' \in Seq(Packets \cup Datagrams) /\ UdpOpen(u)
      /\ \A v \in UdpFlows : TunKept(v)
      /\ usess[u].fd \in Fds /\ q \in UdpSockets /\ q.flow = u
      /\ IntactFor(usess[u], q.rx, device[u].got, peer[u].replied)
  BY <1>1, FromUdpSocketSound
<1>3. k \in UdpSockets /\ k.flow = u /\ k.rx = q.rx
  BY <1>2, UdpSocketTyped
<1>4. sock' = [sock EXCEPT ![usess[u].fd] = k]
  BY <1>1, <1>2, RelayTyped
<1>5. \A v \in UdpFlows : AsksInOrder(v)'
  BY <1>1, <1>2, RelayTyped, OrderKept
<1>6. UdpTyped'
  BY <1>1, RelayTyped DEF UdpTyped
<1> HIDE DEF k, q
<1> QED BY <1>1, <1>2, <1>3, <1>4, <1>5, <1>6, UdpStays

\* An event with nothing to read.
LEMMA UdpNothingSound ==
  ASSUME RelayInv, NEW u \in UdpFlows, UdpNothing(u)
  PROVE  RelayInv'
BY FromUdpSocketSound, BatchKeeps DEF UdpNothing

\* cleanup: a session goes with its socket.
LEMMA UdpExpireSound ==
  ASSUME RelayInv, NEW u \in UdpFlows, UdpExpire(u)
  PROVE  RelayInv'
<1> DEFINE fd == usess[u].fd
<1>1. /\ UdpOpen(u) /\ UNCHANGED <<tcpVars, batch, tunIn, device>>
      /\ usess' = [usess EXCEPT ![u] = None]
      /\ sock' = [sock EXCEPT ![fd] = None]
      /\ peer' = [peer EXCEPT ![u].knows = FALSE]
  BY DEF UdpExpire, UdpClosed
<1>2. fd \in Fds /\ sock[fd] \in UdpSockets /\ sock[fd].flow = u
  BY <1>1, UdpOpenTyped
<1>3. /\ sock' \in [Fds -> Sockets \cup UdpSockets \cup {None}]
      /\ \A d \in Fds : sock'[d] = IF d = fd THEN None ELSE sock[d]
      /\ usess' \in [UdpFlows -> UdpSessions \cup {None}]
      /\ \A v \in UdpFlows : usess'[v] = IF v = u THEN None ELSE usess[v]
  BY <1>1, <1>2, RelayTyped
<1>4. /\ peer' \in [UdpFlows -> Peers]
      /\ \A v \in UdpFlows : peer'[v].got = peer[v].got /\ peer'[v].replied = peer[v].replied
  <2> DEFINE p == [peer[u] EXCEPT !.knows = FALSE]
  <2>1. p \in Peers /\ p.got = peer[u].got /\ p.replied = peer[u].replied
    BY RelayTyped DEF Peers
  <2>2. \A v \in UdpFlows : peer'[v] = IF v = u THEN p ELSE peer[v]
    BY <1>1, RelayTyped
  <2> HIDE DEF p
  <2> QED BY <1>1, <2>1, <2>2, RelayTyped
<1>5. BatchOK' /\ tunIn' \in Seq(Packets \cup Datagrams) /\ UdpTyped'
  BY <1>1, <1>3, <1>4, RelayTyped DEF BatchOK, UdpTyped
<1>6. Core(UdpSockets, Datagrams)'
  <2>1. \A d \in Fds : sock'[d] = sock[d] \/
           (sock[d] \in UdpSockets \cup {None} /\ sock'[d] \in UdpSockets \cup {None})
    BY <1>2, <1>3
  <2> QED BY <1>1, <1>3, <1>5, <2>1, RelayTyped, UdpStepCore
<1> HIDE DEF fd
<1>7. ASSUME NEW v \in UdpFlows, UdpOpen(v)'
      PROVE  /\ v # u /\ UdpOpen(v) /\ usess'[v] = usess[v] /\ usess[v].fd \in Fds
             /\ usess[v].fd # fd /\ sock'[usess[v].fd] = sock[usess[v].fd] /\ Intact(v)
             /\ sock[usess[v].fd] # None /\ sock[usess[v].fd].flow = v
  <2>1. v # u /\ UdpOpen(v) /\ usess'[v] = usess[v]
    BY <1>3, <1>7 DEF UdpOpen
  <2>2. /\ usess[v].fd \in Fds /\ sock[usess[v].fd].flow = v /\ Intact(v)
        /\ sock[usess[v].fd] # None
    BY <2>1, UdpOpenTyped, UdpForeign DEF Foreign
  <2> QED BY <1>2, <1>3, <2>1, <2>2
<1>8. UdpOwns'
  BY <1>7 DEF UdpOwns
<1>9. UdpHeld'
  <2> SUFFICES ASSUME NEW d \in Fds, sock'[d] # None, sock'[d].flow \in UdpFlows
               PROVE  usess'[sock'[d].flow] # None /\ usess'[sock'[d].flow].fd = d
    BY DEF UdpHeld, UdpOpen
  <2>1. d # fd /\ sock'[d] = sock[d]
    BY <1>3
  <2>2. usess[sock[d].flow] # None /\ usess[sock[d].flow].fd = d
    BY <2>1, RelayTyped DEF UdpHeld, UdpOpen
  <2>3. sock[d].flow # u
    BY <2>1, <2>2 DEF fd
  <2> QED BY <1>3, <2>1, <2>2, <2>3
<1>10. \A v \in UdpFlows : AsksInOrder(v)'
  BY <1>1, <1>4, RelayTyped DEF AsksInOrder
<1>11. \A v \in UdpFlows : UdpOpen(v)' => Intact(v)'
  BY <1>1, <1>4, <1>7 DEF Intact
<1> QED BY <1>5, <1>6, <1>8, <1>9, <1>10, <1>11 DEF RelayInv

-----------------------------------------------------------------------------
\* Initially there is nothing.
LEMMA InitRelay == RelayInit => RelayInv
<1> SUFFICES ASSUME RelayInit PROVE RelayInv
  OBVIOUS
<1>1. /\ Typed({}, {}) /\ Owns /\ Held /\ Init
  BY InitAlone DEF RelayInit, Alone, Core
<1>2. /\ tunIn = <<>> /\ \A fd \in Fds : sock[fd] = None
      /\ sock \in [Fds -> Sockets \cup UdpSockets \cup {None}]
  BY <1>1 DEF Init
<1>3. Typed(UdpSockets, Datagrams)
  BY <1>1, <1>2 DEF Typed
<1>4. /\ \A u \in UdpFlows : /\ usess[u] = None /\ device[u] = [asked |-> 0, got |-> <<>>]
                             /\ peer[u] = [got |-> <<>>, replied |-> 0, knows |-> FALSE, errors |-> 0]
      /\ usess \in [UdpFlows -> UdpSessions \cup {None}]
  BY DEF RelayInit
<1>5. /\ [asked |-> 0, got |-> <<>>] \in Devices
      /\ [got |-> <<>>, replied |-> 0, knows |-> FALSE, errors |-> 0] \in Peers
  BY RelayConstants DEF Devices, Peers
<1>6. UdpTyped
  BY <1>5, <1>4 DEF UdpTyped, RelayInit
<1>7. UdpOwns /\ UdpHeld
  BY <1>2, <1>4 DEF UdpOwns, UdpHeld, UdpOpen
<1>8. ASSUME NEW u \in UdpFlows PROVE AsksInOrder(u) /\ ~UdpOpen(u)
  BY <1>2, <1>4 DEF AsksInOrder, UdpOpen
<1> QED BY <1>1, <1>3, <1>6, <1>7, <1>8 DEF RelayInv, Core

\* A step of the TCP half.
LEMMA TcpStepSound ==
  ASSUME RelayInv, UNCHANGED udpVars,
         \/ EpollWait \/ SocketNoSession \/ \E f \in Flows : Handle(f)
         \/ Environment \/ \E f \in Flows : Expire(f)
  PROVE  RelayInv'
<1>1. Core(UdpSockets, Datagrams) /\ Foreign(UdpSockets, Datagrams)
  BY RelayTyped, UdpForeign
<1>2. CASE EpollWait \/ SocketNoSession
  <2>1. UNCHANGED <<sess, sock, tunIn, tunOut, client, server>>
    BY <1>2 DEF EpollWait, SocketNoSession
  <2> QED BY <1>1, <1>2, <2>1, LoopSound, TcpKeepsInv DEF UdpKept, TunKept
<1>3. ASSUME NEW f \in Flows, Handle(f) PROVE RelayInv'
  BY <1>1, <1>3, HandleSound, HandleKeepsUdp, HandleKeepsTun, TcpKeepsInv
<1>4. ASSUME NEW f \in Flows, Client(f) PROVE RelayInv'
  <2>1. sock' = sock /\ \A u \in UdpFlows : TunKept(u)
    BY <1>1, <1>4, ClientKeepsTun DEF Client, ClientSyn, ClientData, ClientFin,
       ClientRetransmit, ClientAbort
  <2>2. Core(UdpSockets, Datagrams)'
    BY <1>1, <1>4, ClientSound
  <2> QED BY <2>1, <2>2, TcpKeepsInv DEF UdpKept
<1>5. ASSUME NEW f \in Flows, ClientReceive(f) PROVE RelayInv'
  <2>1. sock' = sock /\ tunIn' = tunIn
    BY <1>5 DEF ClientReceive
  <2> QED BY <1>1, <1>5, <2>1, ClientReceiveSound, TcpKeepsInv DEF UdpKept, TunKept
<1>6. ASSUME NEW fd \in Fds, Network(fd) PROVE RelayInv'
  <2>1. tunIn' = tunIn
    BY <1>6 DEF Network, ConnectEnds, ServerSends, ServerCloses, ServerResets
  <2> QED BY <1>1, <1>6, <2>1, NetworkSound, NetworkKeepsUdp, TcpKeepsInv DEF TunKept
<1>7. ASSUME NEW f \in Flows, Expire(f) PROVE RelayInv'
  <2>1. tunIn' = tunIn /\ TcpRemove(f)
    BY <1>7 DEF Expire
  <2> QED BY <1>1, <1>7, <2>1, ExpireSound, RemoveKeepsUdp, TcpKeepsInv DEF TunKept
<1> QED BY <1>2, <1>3, <1>4, <1>5, <1>6, <1>7 DEF Environment

\* Every step keeps the invariant.
LEMMA NextRelay == RelayInv /\ [RelayNext]_relayVars => RelayInv'
<1> SUFFICES ASSUME RelayInv, [RelayNext]_relayVars PROVE RelayInv'
  OBVIOUS
<1>1. CASE UNCHANGED relayVars
  <2>1. /\ UNCHANGED <<sess, sock, batch, tunIn, tunOut, client, server, far, usess, device, peer>>
    BY <1>1 DEF relayVars, vars, udpVars
  <2>2. BatchOK'
    BY <2>1, RelayTyped DEF BatchOK
  <2>3. UNCHANGED <<tcpVars, sock, udpVars>> /\ \A u \in UdpFlows : TunKept(u)
    BY <2>1 DEF tcpVars, udpVars, TunKept
  <2> QED BY <2>1, <2>2, <2>3, RelayTyped, BatchKeeps
<1>2. CASE RelayEngine
  <2>1. ASSUME NEW u \in UdpFlows,
               \/ UdpTunKnown(u) \/ UdpTunNew(u)
               \/ UdpRead(u) \/ UdpReadError(u) \/ UdpNothing(u)
        PROVE  RelayInv'
    BY <2>1, UdpTunKnownSound, UdpTunNewSound, UdpReadSound, UdpReadErrorSound, UdpNothingSound
  <2> QED BY <1>2, <2>1, TcpStepSound DEF RelayEngine
<1>3. CASE (Environment \/ \E f \in Flows : Expire(f)) /\ UNCHANGED udpVars
  BY <1>3, TcpStepSound
<1>4. ASSUME NEW u \in UdpFlows,
             \/ DeviceAsks(u) \/ \E n \in 0 .. MaxReply : PeerReplies(u, n)
             \/ IcmpError(u) \/ UdpExpire(u)
      PROVE  RelayInv'
  BY <1>4, DeviceAsksSound, PeerRepliesSound, IcmpErrorSound, UdpExpireSound
<1> QED BY <1>1, <1>2, <1>3, <1>4 DEF RelayNext

\* A descriptor in use has one owner, in one of the tables.
LEMMA RelayInvOwned == RelayInv => RelaySound
<1> SUFFICES ASSUME RelayInv PROVE RelaySound
  OBVIOUS
<1>1. /\ Typed(UdpSockets, Datagrams) /\ Owns /\ Held /\ UdpTyped /\ UdpOwns /\ UdpHeld
  BY RelayTyped DEF Core
<1>2. RelayTypeOK
  BY <1>1 DEF RelayTypeOK, Typed, BatchOK, UdpTyped, UdpOpen, UdpSessions, Devices
<1>3. ASSUME NEW fd \in Fds, sock[fd] # None
      PROVE  Cardinality(OwnersOf(fd)) + Cardinality(UdpOwnersOf(fd)) = 1
  <2>1. /\ sock[fd].flow \in Flows \cup UdpFlows
        /\ \A f \in OwnersOf(fd) : f = sock[fd].flow /\ f \in Flows
        /\ \A u \in UdpOwnersOf(fd) : u = sock[fd].flow /\ u \in UdpFlows
    <3>1. sock[fd] \in Sockets \cup UdpSockets
      BY <1>1, <1>3 DEF Typed
    <3>2. sock[fd].flow \in Flows \cup UdpFlows
      BY <3>1 DEF Sockets, UdpSockets
    <3>3. \A f \in OwnersOf(fd) : f = sock[fd].flow /\ f \in Flows
      BY <1>1, <1>3 DEF Owns, OwnersOf
    <3>4. \A u \in UdpOwnersOf(fd) : u = sock[fd].flow /\ u \in UdpFlows
      BY <1>1, <1>3 DEF UdpOwns, UdpOwnersOf
    <3> QED BY <3>2, <3>3, <3>4
  <2>2. CASE sock[fd].flow \in Flows
    <3>1. OwnersOf(fd) = {sock[fd].flow} /\ UdpOwnersOf(fd) = {}
      BY <1>1, <1>3, <2>1, <2>2, RelayConstants DEF OwnersOf, Held
    <3>2. Cardinality(OwnersOf(fd)) = 1 /\ Cardinality(UdpOwnersOf(fd)) = 0
      BY <3>1, FS_Singleton, FS_EmptySet, Zenon
    <3> QED BY <3>2
  <2>3. CASE sock[fd].flow \in UdpFlows
    <3>1. OwnersOf(fd) = {} /\ UdpOwnersOf(fd) = {sock[fd].flow}
      BY <1>1, <1>3, <2>1, <2>3, RelayConstants DEF UdpOwnersOf, UdpHeld
    <3>2. Cardinality(OwnersOf(fd)) = 0 /\ Cardinality(UdpOwnersOf(fd)) = 1
      BY <3>1, FS_Singleton, FS_EmptySet, Zenon
    <3> QED BY <3>2
  <2> QED BY <2>1, <2>2, <2>3
<1> QED BY <1>1, <1>2, <1>3 DEF RelaySound, EveryFdOwned, Owns, UdpOwns

\* What the invariant says of the datagrams.
LEMMA RelayInvIntact == RelayInv => DatagramsIntact
<1> SUFFICES ASSUME RelayInv PROVE DatagramsIntact
  OBVIOUS
<1>1. RepliesIntact
  <2> SUFFICES ASSUME NEW u \in UdpFlows, UdpOpen(u)
               PROVE  LET s == usess[u]
                          rx == sock[s.fd].rx
                          last == s.replied + Len(device[u].got) - s.got IN
        /\ \A i \in s.got + 1 .. Len(device[u].got) : device[u].got[i] = s.replied + i - s.got
        /\ ToSet(rx) \ {0} = last + 1 .. peer[u].replied
        /\ \A i, j \in DOMAIN rx : i < j /\ rx[j] # 0 => rx[i] < rx[j]
    BY DEF RepliesIntact
  <2>1. sock[usess[u].fd].rx \in Seq(0 .. MaxReply) /\ Intact(u)
    BY UdpOpenTyped, UdpSocketTyped
  <2>2. DOMAIN sock[usess[u].fd].rx = 1 .. Len(sock[usess[u].fd].rx)
    BY <2>1
  <2> QED BY <2>1, <2>2 DEF Intact, IntactFor
<1>2. RequestsInOrder
  <2>1. \A u \in UdpFlows : DOMAIN peer[u].got = 1 .. Len(peer[u].got) /\ AsksInOrder(u)
    BY RelayTyped DEF Peers
  <2> QED BY <2>1 DEF AsksInOrder, RequestsInOrder
<1> QED BY <1>1, <1>2 DEF DatagramsIntact

\* The two halves share the descriptors soundly: whichever session is made,
\* replaced, refused or expired, and however the kernel hands descriptors out
\* again, each belongs to exactly one session of one of the tables.
THEOREM DescriptorsShared == RelaySpec => []RelaySound
BY InitRelay, NextRelay, RelayInvOwned, PTL DEF RelaySpec

\* No reply is lost, repeated or reordered between the socket and the device,
\* and no request repeated or reordered on its way to the peer, whatever events
\* are stale and whatever errors the network reports.
THEOREM DatagramsKept == RelaySpec => []DatagramsIntact
BY InitRelay, NextRelay, RelayInvIntact, PTL DEF RelaySpec

-----------------------------------------------------------------------------
(***************************************************************************)
(* What TcpRelayProofs proves of the TCP half alone holds beside the UDP   *)
(* half as well.  A step of the relay is one of the TCP half, which        *)
(* TcpRelayProofs shows to keep AckInv and DownInv, or one aside: a        *)
(* datagram joins or leaves the tunnel, an event is taken from the batch,  *)
(* a descriptor that is free or a UDP session's changes.  The UDP half     *)
(* frees none while events wait.                                           *)
(***************************************************************************)
Aside ==
  /\ UNCHANGED tcpVars
  /\ \/ tunIn' = tunIn
     \/ tunIn # <<>> /\ Head(tunIn).flow \notin Flows /\ tunIn' = Tail(tunIn)
     \/ \E p \in Datagrams : Send(p)
  /\ batch' = batch \/ (batch # <<>> /\ batch' = Tail(batch))
  /\ \A fd \in Fds : sock'[fd] = sock[fd] \/
       (sock[fd] \in UdpSockets \cup {None} /\ sock'[fd] \in UdpSockets \cup {None})
  /\ batch = <<>> \/ \A fd \in Fds : sock'[fd] = None => sock[fd] = None

\* The TCP half's own invariant of the descriptors.
LEMMA RelayInvTcp == RelayInv => Owned
BY UdpForeign DEF RelayInv, Owned

\* A step that changes one UDP socket, and frees none.
LEMMA AsideSocket ==
  ASSUME RelayInv, NEW fd \in Fds, sock[fd] \in UdpSockets \cup {None}, NEW k \in UdpSockets,
         sock' = [sock EXCEPT ![fd] = k]
  PROVE  /\ \A d \in Fds : sock'[d] = sock[d] \/
              (sock[d] \in UdpSockets \cup {None} /\ sock'[d] \in UdpSockets \cup {None})
         /\ \A d \in Fds : sock'[d] = None => sock[d] = None
<1>1. \A d \in Fds : sock'[d] = IF d = fd THEN k ELSE sock[d]
  BY RelayTyped
<1>2. k # None
  BY UdpForeign DEF Foreign
<1> QED BY <1>1, <1>2

\* The datagram that a UDP handler takes.
LEMMA AsideTun ==
  ASSUME RelayInv, FromTun("udp")
  PROVE  /\ tunIn # <<>> /\ Head(tunIn).flow \notin Flows /\ tunIn' = Tail(tunIn)
         /\ batch # <<>> /\ batch' = Tail(batch)
<1>1. Head(tunIn) \in Packets \cup Datagrams /\ Head(tunIn).kind = "udp" /\ tunIn # <<>>
  BY RelayTyped, UdpForeign, FromTunSound
<1> QED BY <1>1, RelayConstants DEF FromTun, Packets, Datagrams

\* Every step of the UDP half is one aside.
LEMMA UdpAside ==
  ASSUME RelayInv, NEW u \in UdpFlows,
         \/ UdpTunKnown(u) \/ UdpTunNew(u)
         \/ UdpRead(u) \/ UdpReadError(u) \/ UdpNothing(u)
         \/ DeviceAsks(u) \/ (\E n \in 0 .. MaxReply : PeerReplies(u, n))
         \/ IcmpError(u) \/ UdpExpire(u)
  PROVE  Aside
<1> DEFINE fd == usess[u].fd
           q == sock[fd]
<1>1. UdpOpen(u) => fd \in Fds /\ q \in UdpSockets
  BY UdpOpenTyped
<1>2. ASSUME UdpOpen(u), NEW conn \in {"udp", "udpError", "udpUnconnected"}
      PROVE  [q EXCEPT !.conn = conn] \in UdpSockets
  BY <1>1, <1>2, UdpSocketTyped
<1>3. CASE UdpTunKnown(u)
  <2> DEFINE conn == IF q.conn = "udpError" THEN "udp" ELSE q.conn
  <2>1. /\ FromTun("udp") /\ UNCHANGED tcpVars /\ UdpOpen(u)
        /\ sock' = [sock EXCEPT ![fd] = [q EXCEPT !.conn = conn]]
    BY <1>3 DEF UdpTunKnown, UdpSend
  <2>2. conn \in {"udp", "udpError", "udpUnconnected"}
    BY <1>1, <2>1, UdpSocketTyped
  <2> HIDE DEF conn, q, fd
  <2>3. [q EXCEPT !.conn = conn] \in UdpSockets
    BY <1>2, <2>1, <2>2
  <2> QED BY <1>1, <2>1, <2>3, AsideSocket, AsideTun DEF Aside, q
<1>4. CASE UdpTunNew(u)
  <2>1. FromTun("udp") /\ UNCHANGED tcpVars
    BY <1>4 DEF UdpTunNew
  <2>2. CASE UNCHANGED <<sock, usess, peer>>
    BY <2>1, <2>2, AsideTun DEF Aside
  <2>3. ASSUME NEW d \in Fds, NEW conn \in {"udp", "udpUnconnected"}, sock[d] = None,
               UdpSend(u, d, NewUdpSocket(u, conn))
        PROVE  Aside
    <3> DEFINE w == NewUdpSocket(u, conn)
               k == [w EXCEPT !.conn = IF @ = "udpError" THEN "udp" ELSE @]
    <3>1. w \in UdpSockets /\ w.conn = conn
      BY DEF NewUdpSocket, UdpSockets
    <3>2. k = [w EXCEPT !.conn = conn]
      BY <3>1 DEF NewUdpSocket
    <3>3. sock' = [sock EXCEPT ![d] = k]
      BY <2>3 DEF UdpSend
    <3> HIDE DEF w
    <3>4. k \in UdpSockets
      BY <3>1, <3>2, UdpSocketTyped, ZenonT(60)
    <3> HIDE DEF k
    <3> QED BY <2>1, <2>3, <3>3, <3>4, AsideSocket, AsideTun DEF Aside
  <2> QED BY <1>4, <2>2, <2>3 DEF UdpTunNew
<1>5. CASE UdpRead(u) \/ UdpReadError(u)
  <2>1. /\ UNCHANGED <<tcpVars, tunIn>> /\ batch # <<>> /\ batch' = Tail(batch) /\ UdpOpen(u)
    BY <1>5 DEF UdpRead, UdpReadError, FromUdpSocket, UdpOwnersOf
  <2>2. \E k \in UdpSockets : sock' = [sock EXCEPT ![fd] = k]
    <3>1. CASE UdpReadError(u)
      <4>1. sock' = [sock EXCEPT ![fd] = [q EXCEPT !.conn = "udp"]]
        BY <3>1 DEF UdpReadError
      <4> QED BY <1>2, <2>1, <4>1
    <3>2. CASE UdpRead(u)
      <4> DEFINE S == 0 .. MaxReply
      <4>1. q.rx # <<>> /\ sock' = [sock EXCEPT ![fd] = [q EXCEPT !.rx = Tail(q.rx)]]
        BY <3>2 DEF UdpRead
      <4>2. q \in UdpSockets /\ q.rx \in Seq(S)
        BY <1>1, <2>1, UdpSocketTyped
      <4> HIDE DEF S, q
      <4>3. Tail(q.rx) \in Seq(S)
        BY <4>1, <4>2
      <4>4. [q EXCEPT !.rx = Tail(q.rx)] \in UdpSockets
        BY <4>2, <4>3, UdpSocketTyped DEF S
      <4> QED BY <4>1, <4>4
    <3> QED BY <1>5, <3>1, <3>2
  <2> QED BY <1>1, <2>1, <2>2, AsideSocket DEF Aside
<1>6. CASE UdpNothing(u)
  BY <1>6 DEF UdpNothing, FromUdpSocket, Aside
<1>7. CASE DeviceAsks(u)
  <2> DEFINE n == device[u].asked + 1
  <2>1. Send(Packet(u, "udp", n, FALSE)) /\ UNCHANGED <<tcpVars, sock, batch>>
    BY <1>7 DEF DeviceAsks
  <2>2. n \in 1 .. MaxAsk
    BY <1>7, RelayTyped, RelayConstants DEF DeviceAsks, Devices
  <2>3. Packet(u, "udp", n, FALSE) \in Datagrams
    BY <2>2 DEF Packet, Datagrams
  <2> QED BY <2>1, <2>3 DEF Aside
<1>8. ASSUME NEW n \in 0 .. MaxReply, PeerReplies(u, n) PROVE Aside
  <2> DEFINE S == 0 .. MaxReply
  <2>1. /\ UdpOpen(u) /\ UNCHANGED <<tcpVars, batch, tunIn>>
        /\ sock' = [sock EXCEPT ![fd] = [q EXCEPT !.rx = Append(q.rx, n)]]
    BY <1>8 DEF PeerReplies
  <2>2. q \in UdpSockets /\ q.rx \in Seq(S) /\ n \in S
    BY <1>1, <2>1, UdpSocketTyped
  <2> HIDE DEF S, q, fd
  <2>3. Append(q.rx, n) \in Seq(S)
    BY <2>2, ToSetAppend
  <2>4. [q EXCEPT !.rx = Append(q.rx, n)] \in UdpSockets
    BY <2>2, <2>3, UdpSocketTyped DEF S
  <2> QED BY <1>1, <2>1, <2>4, AsideSocket DEF Aside, q
<1>9. CASE IcmpError(u)
  <2>1. /\ UdpOpen(u) /\ UNCHANGED <<tcpVars, batch, tunIn>>
        /\ sock' = [sock EXCEPT ![fd] = [q EXCEPT !.conn = "udpError"]]
    BY <1>9 DEF IcmpError
  <2> HIDE DEF q, fd
  <2> QED BY <1>1, <1>2, <2>1, AsideSocket DEF Aside, q
<1>10. CASE UdpExpire(u)
  <2>1. /\ UdpOpen(u) /\ UNCHANGED <<tcpVars, batch, tunIn>> /\ batch = <<>>
        /\ sock' = [sock EXCEPT ![fd] = None]
    BY <1>10 DEF UdpExpire, UdpClosed
  <2>2. \A d \in Fds : sock'[d] = IF d = fd THEN None ELSE sock[d]
    BY <2>1, RelayTyped
  <2> QED BY <1>1, <2>1, <2>2 DEF Aside
<1> QED BY <1>3, <1>4, <1>5, <1>6, <1>7, <1>8, <1>9, <1>10

\* A step of the relay, seen from the TCP half.
LEMMA NextAside == RelayInv /\ [RelayNext]_relayVars => [Next]_vars \/ Aside
<1> SUFFICES ASSUME RelayInv, [RelayNext]_relayVars PROVE [Next]_vars \/ Aside
  OBVIOUS
<1>1. CASE UNCHANGED relayVars
  BY <1>1 DEF relayVars
<1>2. CASE \/ EpollWait \/ SocketNoSession \/ \E f \in Flows : Handle(f)
           \/ Environment \/ \E f \in Flows : Expire(f)
  BY <1>2 DEF Next, Engine
<1> QED BY <1>1, <1>2, UdpAside DEF RelayNext, RelayEngine

\* What a step aside leaves a TCP flow.
LEMMA AsideKeeps ==
  ASSUME RelayInv, Aside
  PROVE  /\ UNCHANGED <<sess, tunOut, client, server>> /\ Owned
         /\ \A f \in Flows :
              Open(f) => sess[f].fd \in Fds /\ sock'[sess[f].fd] = sock[sess[f].fd]
<1>1. Owned /\ UNCHANGED <<sess, tunOut, client, server>>
  BY RelayInvTcp DEF Aside, tcpVars
<1>2. ASSUME NEW f \in Flows, Open(f)
      PROVE  sess[f].fd \in Fds /\ sock'[sess[f].fd] = sock[sess[f].fd]
  <2>1. sess[f].fd \in Fds /\ sock[sess[f].fd] \in Sockets /\ sock[sess[f].fd].flow = f
    BY <1>1, <1>2, DownTyped
  <2>2. sock[sess[f].fd] \notin UdpSockets \cup {None}
    BY <2>1, NoneApart, RelayConstants DEF UdpSockets, Sockets
  <2> QED BY <2>1, <2>2 DEF Aside
<1> QED BY <1>1, <1>2

\* A datagram joins the tunnel: whatever is said of TCP's packets stays.
Joins ==
  /\ Len(tunIn') = Len(tunIn) + 1 /\ Len(tunIn) \in Nat
  /\ \A i \in 1 .. Len(tunIn) : tunIn'[i] = tunIn[i]
  /\ \A i \in 1 .. Len(tunIn') : tunIn'[i].flow \in Flows \/ tunIn'[i].kind # "udp" =>
       i \in 1 .. Len(tunIn) /\ tunIn'[i] = tunIn[i]
  /\ \E p \in Datagrams : Send(p)

LEMMA AsideTunnel ==
  ASSUME RelayInv, Aside
  PROVE  \/ tunIn' = tunIn
         \/ tunIn # <<>> /\ Head(tunIn).flow \notin Flows /\ tunIn' = Tail(tunIn)
         \/ Joins
<1>1. ASSUME NEW p \in Datagrams, Send(p) PROVE Joins
  <2>1. tunIn \in Seq(Packets \cup Datagrams)
    BY RelayTyped
  <2>2. /\ Len(tunIn') = Len(tunIn) + 1 /\ Len(tunIn) \in Nat
        /\ \A i \in 1 .. Len(tunIn) : tunIn'[i] = tunIn[i]
        /\ tunIn'[Len(tunIn) + 1] = p
    BY <1>1, <2>1 DEF Send
  <2>3. p.flow \notin Flows /\ p.kind = "udp"
    BY RelayConstants DEF Datagrams
  <2> QED BY <1>1, <2>2, <2>3 DEF Joins
<1> QED BY <1>1 DEF Aside

\* What is left of the batch.
LEMMA AsideBatch ==
  ASSUME RelayInv, Aside
  PROVE  /\ \E n \in {0, 1} : \A i \in 1 .. Len(batch') :
              batch'[i] = batch[i + n] /\ i + n \in 1 .. Len(batch)
         /\ \A i \in 1 .. Len(batch) : batch[i].fd # Tun => batch[i].fd \in Fds
<1>1. batch \in Seq(Events) /\ \A i \in 1 .. Len(batch) : batch[i] \in Events
  BY RelayTyped DEF BatchOK
<1>2. \E n \in {0, 1} : \A i \in 1 .. Len(batch') :
        batch'[i] = batch[i + n] /\ i + n \in 1 .. Len(batch)
  <2>1. CASE batch' = batch
    BY <1>1, <2>1
  <2>2. CASE batch # <<>> /\ batch' = Tail(batch)
    BY <1>1, <2>2
  <2> QED BY <2>1, <2>2 DEF Aside
<1> QED BY <1>1, <1>2 DEF Events

\* The numbers of the sessions.
LEMMA AsideLined ==
  ASSUME RelayInv, Aside, Lined
  PROVE  Lined'
<1>1. UNCHANGED <<sess, tunOut, client, server>>
  BY AsideKeeps
<1> QED BY <1>1 DEF Lined, InOrder, OneIsn, Bearers, Open, Asked

\* The acknowledgements.
LEMMA AsideHonest ==
  ASSUME RelayInv, Aside, AckInv, Owned'
  PROVE  AckInv'
<1>1. Owned /\ UNCHANGED <<sess, tunOut, client, server>>
  BY AsideKeeps
<1>2. ASSUME NEW g \in Flows PROVE Honest(g)'
  <2>1. Honest(g)
    BY DEF AckInv
  <2>2. CASE Joins
    <3>1. PICK p \in Datagrams : Send(p)
      BY <2>2 DEF Joins
    <3>2. p.flow # g /\ client[g].sent \in Nat
      <4>1. client[g] \in Clients
        BY <1>1, DownTyped
      <4> QED BY <4>1, RelayConstants, TcpRelayConstants DEF Datagrams, Clients
    <3>3. Sends(g, p)
      BY <1>1, <3>1, <3>2 DEF Sends, Asked
    <3> QED BY <1>1, <2>1, <3>3, SendsSound
  <2>3. CASE ~Joins
    BY <1>1, <2>1, <2>3, AsideTunnel, RestsSound
  <2> QED BY <2>2, <2>3
<1>3. Lined'
  BY AsideLined DEF AckInv
<1> QED BY <1>2, <1>3 DEF AckInv

\* The way down.
LEMMA AsideDown ==
  ASSUME RelayInv, Aside, DownInv, Owned'
  PROVE  DownInv'
<1>1. /\ UNCHANGED <<sess, tunOut, client, server>> /\ Owned
      /\ \A f \in Flows :
           Open(f) => sess[f].fd \in Fds /\ sock'[sess[f].fd] = sock[sess[f].fd]
  BY AsideKeeps
<1>2. ASSUME NEW g \in Flows PROVE Down(g)' /\ (Ours(g)' => Ours(g))
  <2>1. Open(g) => Rx(g)' = Rx(g)
    BY <1>1 DEF Rx
  <2>2. CASE Joins
    <3>1. /\ InSequence(g)' = InSequence(g) /\ Ours(g)' = Ours(g) /\ Awaits(g)' = Awaits(g)
          /\ Opens(g)' = Opens(g)
      BY <1>1 DEF InSequence, Ours, Awaits, Opens, Open, Asked
    <3>2. Unheard(g)'
      BY <1>1, <2>2 DEF Joins, DownInv, Down, Unheard, Open, Asked
    <3>3. Open(g) /\ Flowing(g) => Flowing(g)'
      BY <1>1, <2>1 DEF Flowing, NextByte
    <3> QED BY <3>1, <3>2, <3>3 DEF DownInv, Down, Ours
  <2>3. CASE ~Joins
    <3>1. tunIn' = tunIn \/ (tunIn # <<>> /\ tunIn' = Tail(tunIn))
      BY <2>3, AsideTunnel
    <3> QED BY <1>1, <2>1, <3>1, RestsDown DEF DownInv
  <2> QED BY <2>2, <2>3
<1>3. Watched'
  <2>1. ASSUME NEW fd \in Fds, sock'[fd] # None, sock'[fd].conn = "connecting"
        PROVE  ~Readable(sock'[fd])
    <3>1. sock'[fd] = sock[fd]
      BY <2>1 DEF Aside, UdpSockets
    <3> QED BY <2>1, <3>1 DEF DownInv, Watched
  <2> QED BY <1>1, <2>1 DEF DownInv, Watched, Open
<1>4. Fresh'
  <2>1. PICK n \in {0, 1} : \A i \in 1 .. Len(batch') :
          batch'[i] = batch[i + n] /\ i + n \in 1 .. Len(batch)
    BY AsideBatch
  <2>2. ASSUME NEW i \in 1 .. Len(batch'), NEW j \in 1 .. Len(batch'),
               batch'[i].fd = Tun, batch'[j].fd # Tun
        PROVE  sock'[batch'[j].fd] # None
    <3>1. sock[batch[j + n].fd] # None /\ batch[j + n].fd \in Fds
      BY <2>1, <2>2, AsideBatch DEF DownInv, Fresh
    <3>2. batch # <<>>
      BY <2>1, <2>2
    <3> QED BY <2>1, <3>1, <3>2 DEF Aside
  <2>3. ASSUME NEW i \in 1 .. Len(batch'), NEW f \in Flows, batch'[i].in, ~batch'[i].out,
               Open(f)', sess'[f].fd = batch'[i].fd
        PROVE  sess'[f].state = "established" \/ ~Ours(f)'
    <3>1. sess[f].state = "established" \/ ~Ours(f)
      BY <1>1, <2>1, <2>3 DEF DownInv, Fresh, Open
    <3> QED BY <1>1, <1>2, <3>1
  <2> QED BY <2>2, <2>3 DEF Fresh
<1>5. Lined'
  BY AsideLined DEF DownInv
<1> QED BY <1>2, <1>3, <1>4, <1>5 DEF DownInv

-----------------------------------------------------------------------------
\* A byte acknowledged is one the server's socket was given, whatever datagrams
\* are between a flow's segments in the tunnel.
THEOREM RelayAcksTrue == RelaySpec => []AckedIsSent
<1>1. RelayInit => RelayInv /\ AckInv
  BY InitRelay, InitHonest DEF RelayInit
<1>2. RelayInv /\ AckInv /\ [RelayNext]_relayVars => (RelayInv /\ AckInv)'
  <2>1. RelayInv' => Owned'
    BY RelayInvTcp, PTL
  <2> QED BY <2>1, NextRelay, NextAside, NextHonest, AsideHonest
<1> QED BY <1>1, <1>2, HonestDelivered, PTL DEF RelaySpec

\* The bytes of a server reach its client once and in order, or are still on
\* their way, whatever goes wrong around either half.
THEOREM RelayBytesArrive == RelaySpec => []DownstreamIntact
<1>1. RelayInit => RelayInv /\ DownInv
  BY InitRelay, InitDown DEF RelayInit
<1>2. RelayInv /\ DownInv /\ [RelayNext]_relayVars => (RelayInv /\ DownInv)'
  <2>1. RelayInv' => Owned'
    BY RelayInvTcp, PTL
  <2> QED BY <2>1, NextRelay, NextAside, NextDown, AsideDown
<1> QED BY <1>1, <1>2, DownIntact, PTL DEF RelaySpec

=============================================================================
