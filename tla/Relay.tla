-------------------------------- MODULE Relay --------------------------------
(***************************************************************************)
(* The whole relay: the TCP half of TcpRelay and the UDP half, which share *)
(* the tunnel, the epoll batch and the descriptors that the kernel hands   *)
(* out.  An event is for the TCP session with its descriptor, else for the *)
(* UDP session with it.                                                    *)
(*                                                                         *)
(* A UDP flow is a 4-tuple.  The datagrams of its device are numbered, and *)
(* so are those of its peer that reach the socket; 0 is an empty one.      *)
(***************************************************************************)
EXTENDS TcpRelay

CONSTANTS
  UdpFlows,     (* the device's UDP flows                                  *)
  UdpFaults,    (* out of AllUdpFaults                                     *)
  MaxAsk,       (* bound: datagrams a device sends                         *)
  MaxReply      (* bound: datagrams a peer sends, empty ones not counted   *)

AllUdpFaults == {
  "lost",   \* a datagram gets lost on its way to the peer
  "icmp",   \* the network reports an error for an earlier datagram
  "noRoute"}  \* connect() fails at once

ASSUME RelayConstants ==
  /\ UdpFaults \subseteq AllUdpFaults
  /\ UdpFlows \cap Flows = {}
  /\ MaxAsk \in Nat /\ MaxReply \in Nat

VARIABLES
  usess,    (* UDP flow -> its udp_session_t, or None                      *)
  device,   (* UDP flow -> what the device has sent and received           *)
  peer      (* UDP flow -> what its peer has received and sent             *)

tcpVars == <<sess, tunOut, client, server, far>>
udpVars == <<usess, device, peer>>
relayVars == <<vars, udpVars>>

UdpOpen(u)      == usess[u] # None
UdpOwnersOf(fd) == {u \in UdpFlows : UdpOpen(u) /\ usess[u].fd = fd}

\* Sockets of both kinds are in sock.
NewUdpSocket(u, conn) ==
  [flow |-> u, conn |-> conn,    \* udp, udpError (one is pending), udpUnconnected
   err |-> FALSE, eof |-> FALSE, rx |-> <<>>, watchOut |-> FALSE]

\* The session, and what had come to pass when it was made (for the properties).
NewUdpSession(u, fd) ==
  [fd |-> fd, replied |-> peer[u].replied, got |-> Len(device[u].got)]

RelayInit ==
  /\ Init
  /\ usess = [u \in UdpFlows |-> None]
  /\ device = [u \in UdpFlows |-> [asked |-> 0, got |-> <<>>]]
  /\ peer = [u \in UdpFlows |-> [got |-> <<>>, replied |-> 0, knows |-> FALSE, errors |-> 0]]

-----------------------------------------------------------------------------
\* The device, the peers and the network.

DeviceAsks(u) ==
  /\ device[u].asked < MaxAsk
  /\ device' = [device EXCEPT ![u].asked = @ + 1]
  /\ Send(Packet(u, "udp", device[u].asked + 1, FALSE))
  /\ UNCHANGED <<tcpVars, sock, batch, usess, peer>>

\* A peer answers the port it has heard from.
PeerReplies(u, n) ==
  /\ UdpOpen(u) /\ peer[u].knows
  /\ n = 0 \/ (n = peer[u].replied + 1 /\ n <= MaxReply)
  /\ n = 0 => 0 \notin ToSet(sock[usess[u].fd].rx)
  /\ sock' = [sock EXCEPT ![usess[u].fd].rx = Append(@, n)]
  /\ peer' = [peer EXCEPT ![u].replied = IF n = 0 THEN @ ELSE n]
  /\ UNCHANGED <<tcpVars, batch, tunIn, usess, device>>

\* An error answers one of the device's datagrams.
IcmpError(u) ==
  /\ "icmp" \in UdpFaults
  /\ peer[u].errors < device[u].asked
  /\ UdpOpen(u) /\ sock[usess[u].fd].conn = "udp"
  /\ sock' = [sock EXCEPT ![usess[u].fd].conn = "udpError"]
  /\ peer' = [peer EXCEPT ![u].errors = @ + 1]
  /\ UNCHANGED <<tcpVars, batch, tunIn, usess, device>>

-----------------------------------------------------------------------------
\* handle_udp_tun.

\* What the peer may have after a send() on a connected socket.
UdpSent(u, n) ==
  {Append(peer[u].got, n)} \cup (IF "lost" \in UdpFaults THEN {peer[u].got} ELSE {})

\* A send fails, and reports a pending error by failing, without a retry.
UdpSend(u, fd, k) ==
  LET n == Head(tunIn).seq IN
  /\ sock' = [sock EXCEPT ![fd] =
                [k EXCEPT !.conn = IF @ = "udpError" THEN "udp" ELSE @]]
  /\ IF k.conn # "udp" THEN UNCHANGED peer ELSE
       \E got \in UdpSent(u, n) :
         peer' = [peer EXCEPT ![u].got = got, ![u].knows = @ \/ got # peer[u].got]

UdpTunKnown(u) ==
  /\ FromTun("udp")
  /\ u = Head(tunIn).flow /\ UdpOpen(u)
  /\ UdpSend(u, usess[u].fd, sock[usess[u].fd])
  /\ UNCHANGED <<tcpVars, usess, device>>

UdpMissing(u) == ~UdpOpen(u)

\* The first datagram of a flow makes its session, unless socket() or protect()
\* fails.  A connect() that fails at once leaves a session whose sends all fail.
UdpTunNew(u) ==
  /\ FromTun("udp")
  /\ u = Head(tunIn).flow /\ UdpMissing(u)
  /\ \/ /\ "unprotected" \in Faults \/ \A fd \in Fds : sock[fd] # None
        /\ UNCHANGED <<sock, usess, peer>>
     \/ \E fd \in Fds, conn \in {"udp", "udpUnconnected"} :
          /\ conn = "udpUnconnected" => "noRoute" \in UdpFaults
          /\ sock[fd] = None
          /\ usess' = [usess EXCEPT ![u] = NewUdpSession(u, fd)]
          /\ UdpSend(u, fd, NewUdpSocket(u, conn))
  /\ UNCHANGED <<tcpVars, device>>

-----------------------------------------------------------------------------
\* handle_socket_event for a descriptor without a TCP session.

FromUdpSocket(u) ==
  /\ batch # <<>> /\ Head(batch).fd # Tun
  /\ OwnersOf(Head(batch).fd) = {}
  /\ u \in UdpOwnersOf(Head(batch).fd)
  /\ batch' = Tail(batch)

\* Fault: a datagram that did not fit is completed with the next one.
UdpPassesJoined(u, n) == [device EXCEPT ![u].got = @ \o <<n, n + 1>>]

\* An empty datagram is not passed on: recv's 0 is taken for nothing.
UdpPasses(u, n) == IF n = 0 THEN device ELSE [device EXCEPT ![u].got = Append(@, n)]

\* recv takes a whole datagram, whatever part of it there was room for.
UdpRead(u) ==
  LET fd == usess[u].fd  k == sock[fd] IN
  /\ FromUdpSocket(u)
  /\ Head(batch).in /\ k.conn # "udpError" /\ k.rx # <<>>
  /\ sock' = [sock EXCEPT ![fd].rx = Tail(@)]
  /\ device' = UdpPasses(u, Head(k.rx))
  /\ UNCHANGED <<tcpVars, tunIn, usess, peer>>

\* The first recv after an error reports it, and the datagrams stay.
UdpReadError(u) ==
  LET fd == usess[u].fd IN
  /\ FromUdpSocket(u)
  /\ Head(batch).in /\ sock[fd].conn = "udpError"
  /\ sock' = [sock EXCEPT ![fd].conn = "udp"]
  /\ UNCHANGED <<tcpVars, tunIn, udpVars>>

\* Nothing to read: the event carries an error alone.
UdpNothing(u) ==
  /\ FromUdpSocket(u)
  /\ ~Head(batch).in \/ (sock[usess[u].fd].rx = <<>> /\ sock[usess[u].fd].conn # "udpError")
  /\ UNCHANGED <<tcpVars, sock, tunIn, udpVars>>

\* Fault: the descriptor is not closed.
UdpClosedLeak(u) == sock

UdpClosed(u) == [sock EXCEPT ![usess[u].fd] = None]

\* cleanup, the UDP table: after UDP_SESSION_TIMEOUT without a datagram.
UdpExpire(u) ==
  /\ "expire" \in Faults
  /\ batch = <<>>
  /\ UdpOpen(u)
  /\ usess' = [usess EXCEPT ![u] = None]
  /\ sock' = UdpClosed(u)
  /\ peer' = [peer EXCEPT ![u].knows = FALSE]
  /\ UNCHANGED <<tcpVars, batch, tunIn, device>>

-----------------------------------------------------------------------------

\* Fault: the UDP table is not looked at.
NoUdpSessionEither == TRUE

NoUdpSession == UdpOwnersOf(Head(batch).fd) = {}

RelayEngine ==
  \/ /\ EpollWait \/ (SocketNoSession /\ NoUdpSession) \/ \E f \in Flows : Handle(f)
     /\ UNCHANGED udpVars
  \/ \E u \in UdpFlows :
       \/ UdpTunKnown(u) \/ UdpTunNew(u)
       \/ UdpRead(u) \/ UdpReadError(u) \/ UdpNothing(u)

RelayNext ==
  \/ RelayEngine
  \/ (Environment \/ \E f \in Flows : Expire(f)) /\ UNCHANGED udpVars
  \/ \E u \in UdpFlows :
       \/ DeviceAsks(u) \/ \E n \in 0 .. MaxReply : PeerReplies(u, n)
       \/ IcmpError(u) \/ UdpExpire(u)

RelaySpec == RelayInit /\ [][RelayNext]_relayVars /\ WF_relayVars(RelayEngine)

-----------------------------------------------------------------------------

RelayTypeOK ==
  /\ \A f \in Flows : sess[f] = None \/ sess[f] \in Sessions
  /\ \A u \in UdpFlows : UdpOpen(u) => usess[u].fd \in Fds
  /\ Len(batch) <= BatchMax
  /\ \A u \in UdpFlows : device[u].got \in Seq(1 .. MaxReply)

\* Every descriptor the engine holds belongs to exactly one session of either
\* table, the one it was made for: none leaks, and no session reads or closes
\* another's, also when the kernel gives a closed one out again.
EveryFdOwned ==
  /\ \A f \in Flows : Open(f) => sock[sess[f].fd] # None /\ sock[sess[f].fd].flow = f
  /\ \A u \in UdpFlows : UdpOpen(u) => sock[usess[u].fd] # None /\ sock[usess[u].fd].flow = u
  /\ \A fd \in Fds : sock[fd] # None =>
       Cardinality(OwnersOf(fd)) + Cardinality(UdpOwnersOf(fd)) = 1

\* Both tables are of their type and share the descriptors soundly.
RelaySound == RelayTypeOK /\ EveryFdOwned

\* What a device has from a session and what its socket still holds is all that
\* the peer sent to it, in order and once: no event or error costs or repeats a
\* datagram while the session lasts.
RepliesIntact ==
  \A u \in UdpFlows : UdpOpen(u) =>
    LET s == usess[u]
        rx == sock[s.fd].rx
        last == s.replied + Len(device[u].got) - s.got IN
    /\ \A i \in s.got + 1 .. Len(device[u].got) : device[u].got[i] = s.replied + i - s.got
    /\ ToSet(rx) \ {0} = last + 1 .. peer[u].replied
    /\ \A i, j \in DOMAIN rx : i < j /\ rx[j] # 0 => rx[i] < rx[j]

\* A peer receives each datagram of the device at most once, and in order.
RequestsInOrder ==
  \A u \in UdpFlows :
    \A i, j \in DOMAIN peer[u].got : i < j => peer[u].got[i] < peer[u].got[j]

\* Neither direction of a UDP flow repeats or reorders datagrams, and none of the
\* replies to a session is lost before it times out.
DatagramsIntact == RepliesIntact /\ RequestsInOrder

\* A datagram that has arrived is passed on, whatever else is ready.
ReplyReachesDevice ==
  \A u \in UdpFlows :
    (UdpOpen(u) /\ sock[usess[u].fd].rx # <<>>) ~>
      (UdpOpen(u) => sock[usess[u].fd].rx = <<>>)

=============================================================================
