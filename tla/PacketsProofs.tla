---------------------------- MODULE PacketsProofs ----------------------------
(***************************************************************************)
(* Proofs about Packets, for every packet that read() may return, every    *)
(* call of write_tcp and write_udp, every MTU that fits pkt, and every     *)
(* size of the sequence space.  That the checksums verify rests on a       *)
(* recursive sum and stays with TLC.                                       *)
(***************************************************************************)
EXTENDS Packets, TLAPS

Packet ==
  [len : Int, version : 0 .. 15, ihl : 0 .. 15, proto : Nat, off : 0 .. 15,
   udpLen : Nat]

Calls ==
  [proto : {"tcp", "udp"}, version : {4, 6}, mtu : Int, seq : 0 .. SeqSpace - 1,
   words : Nat, flags : SUBSET AllFlags, payload : Seq(Nat)]

Nowhere == [from |-> 0, len |-> 0]

-----------------------------------------------------------------------------
(***************************************************************************)
(* Taking a packet apart: once the IP header is known to fit, it says      *)
(* where the transport header is.                                          *)
(***************************************************************************)

Parsed ==
  /\ job \in Reads /\ offset = 0 /\ ourSeq = 0 /\ written = <<>>
  /\ hdrLen \in 0 .. 60 /\ touched \in Int /\ payload.from \in Nat /\ payload.len \in Nat
  /\ touched <= Greater(job.len, 0)
  /\ pc = "transport" =>
       /\ job.version \in {4, 6} /\ hdrLen = IpHeaderLen(job)
       /\ hdrLen >= 20 /\ hdrLen <= job.len
  /\ WholePacketsTaken

\* The other half of the behaviours: a call that writes.
Writing == pc \in {"write", "written"}

ParseInv ==
  /\ pc \in {"parse", "transport", "taken", "dropped", "write", "written"}
  /\ ~Writing => Parsed

\* The fields of a packet are numbers of their widths.
LEMMA PacketFields ==
  ASSUME NEW p \in Reads
  PROVE  /\ p.len \in Int /\ p.version \in Nat /\ p.proto \in Nat
         /\ p.ihl \in 0 .. 15 /\ p.off \in 0 .. 15 /\ p.udpLen \in Nat
         /\ IpHeaderLen(p) \in 0 .. 60
  <1>1. Reads \subseteq Packet
    BY PacketsConstants, Zenon DEF Packet
  <1>2. p \in Packet
    BY <1>1
  <1>3. /\ p.len \in Int /\ p.version \in 0 .. 15 /\ p.proto \in Nat
        /\ p.ihl \in 0 .. 15 /\ p.off \in 0 .. 15 /\ p.udpLen \in Nat
    BY <1>2 DEF Packet
  <1> QED
    BY <1>3 DEF IpHeaderLen

\* engine_loop: a header that fits, or a packet that no device makes.
LEMMA ParseIpSound ==
  ASSUME ParseInv, ParseIp
  PROVE  ParseInv'
  <1>0. pc = "parse" /\ Parsed /\ job' = job /\ UNCHANGED outVars
    BY DEF ParseInv, ParseIp, Writing
  <1>1. /\ job.len \in Int /\ job.version \in Nat /\ job.ihl \in 0 .. 15
        /\ IpHeaderLen(job) \in 0 .. 60 /\ job.off \in 0 .. 15 /\ job.udpLen \in Nat
    BY <1>0, PacketFields DEF Parsed
  <1>2. CASE pc' = "transport"
    <2>1. /\ hdrLen' = IpHeaderLen(job) /\ payload' = payload
          /\ touched' = (IF job.version = 4 THEN 20 ELSE 40)
          /\ job.version \in {4, 6} /\ touched' <= job.len
          /\ job.version = 4 => IpHeaderLen(job) >= 20 /\ job.len >= IpHeaderLen(job)
      BY <1>0, <1>1, <1>2 DEF ParseIp, Drop, IpHeaderFits
    <2> QED
      BY <1>0, <1>1, <1>2, <2>1 DEF ParseInv, Parsed, Writing, WholePacketsTaken, IpHeaderLen,
         Greater, outVars
  <1>3. CASE pc' = "dropped"
    <2>1. hdrLen' = hdrLen /\ payload' = payload
      BY <1>0, <1>3 DEF ParseIp, Drop
    <2>2. touched' <= Greater(job.len, 0) /\ touched' \in Int
      BY <1>0, <1>1, <1>3 DEF ParseIp, Drop, Lesser, Greater
    <2>3. \/ job.len <= 0 \/ job.version \notin {4, 6}
          \/ job.len < (IF job.version = 4 THEN 20 ELSE 40)
          \/ job.version = 4 /\ (job.ihl * 4 < 20 \/ job.len < job.ihl * 4)
      BY <1>0, <1>1, <1>3 DEF ParseIp, Drop, IpHeaderFits, IpHeaderLen
    <2>4. ASSUME NEW n \in 0 .. job.len, MadeOf(job, n)
          PROVE  FALSE
      BY <1>1, <2>3, <2>4 DEF MadeOf
    <2> QED
      BY <1>0, <1>3, <2>1, <2>2, <2>4 DEF ParseInv, Parsed, Writing, WholePacketsTaken, MadeOf,
         outVars
  <1> QED
    BY <1>0, <1>2, <1>3 DEF ParseIp, Drop

\* handle_tcp_tun: what is left of a segment behind its header and its options.
LEMMA ParseTcpSound ==
  ASSUME ParseInv, ParseTcp
  PROVE  ParseInv'
  <1>0. pc = "transport" /\ Parsed /\ job' = job /\ UNCHANGED outVars /\ job.proto = 6
    BY DEF ParseInv, ParseTcp, Writing
  <1>1. /\ job.len \in Int /\ job.ihl \in 0 .. 15 /\ job.off \in 0 .. 15 /\ job.udpLen \in Nat
        /\ job.version \in {4, 6} /\ hdrLen = IpHeaderLen(job)
        /\ hdrLen \in 20 .. 60 /\ hdrLen <= job.len
    <2>1. job \in Reads
      BY <1>0 DEF Parsed
    <2>2. /\ job.version \in {4, 6} /\ hdrLen = IpHeaderLen(job)
          /\ hdrLen >= 20 /\ hdrLen <= job.len /\ hdrLen \in 0 .. 60
      BY <1>0 DEF Parsed
    <2>3. /\ job.len \in Int /\ job.ihl \in 0 .. 15 /\ job.off \in 0 .. 15
          /\ job.udpLen \in Nat
      BY <2>1, PacketFields
    <2> QED
      BY <2>2, <2>3
  <1> DEFINE n == job.off * 4
             s == job.len - hdrLen
  <1>2. CASE s >= 20 /\ TcpHeaderFits(s, n)
    <2>1. /\ pc' = "taken" /\ hdrLen' = hdrLen
          /\ payload' = [from |-> hdrLen + n, len |-> s - n]
          /\ touched' = Greater(hdrLen + 8, job.len)
      BY <1>0, <1>1, <1>2 DEF ParseTcp, Take
    <2>2. payload'.from = hdrLen + n /\ payload'.len = s - n
      BY <2>1
    <2>3. s - n \in Nat /\ hdrLen + n \in Nat /\ touched' = job.len
      BY <1>1, <1>2, <2>1 DEF TcpHeaderFits, Greater
    <2>4. ASSUME NEW m \in 0 .. job.len, MadeOf(job, m)
          PROVE  payload' = [from |-> job.len - m, len |-> m]
      <3>1. m = s - n
        BY <1>0, <1>1, <2>4 DEF MadeOf, IpHeaderLen
      <3> QED
        BY <1>1, <2>1, <3>1
    <2> QED
      BY <1>0, <1>1, <2>1, <2>2, <2>3, <2>4 DEF ParseInv, Parsed, Writing, WholePacketsTaken,
         MadeOf, Greater, outVars
  <1>3. CASE ~(s >= 20 /\ TcpHeaderFits(s, n))
    <2>1. /\ pc' = "dropped" /\ hdrLen' = hdrLen /\ payload' = payload
          /\ touched' = IF s >= 20 THEN hdrLen + 20 ELSE touched
      BY <1>0, <1>3 DEF ParseTcp, Drop
    <2>2. touched' <= Greater(job.len, 0) /\ touched' \in Int
      BY <1>0, <1>1, <2>1 DEF Greater, Parsed
    <2>3. ASSUME NEW m \in 0 .. job.len, MadeOf(job, m)
          PROVE  FALSE
      <3>1. job.off >= 5 /\ job.len = hdrLen + n + m
        BY <1>0, <1>1, <2>3 DEF MadeOf, IpHeaderLen
      <3> QED
        BY <1>1, <1>3, <3>1 DEF TcpHeaderFits
    <2> QED
      BY <1>0, <2>1, <2>2, <2>3 DEF ParseInv, Parsed, Writing, WholePacketsTaken, MadeOf, outVars
  <1> QED
    BY <1>2, <1>3

\* handle_udp_tun: the payload is what the length field says.
LEMMA ParseUdpSound ==
  ASSUME ParseInv, ParseUdp
  PROVE  ParseInv'
  <1>0. pc = "transport" /\ Parsed /\ job' = job /\ UNCHANGED outVars /\ job.proto = 17
    BY DEF ParseInv, ParseUdp, Writing
  <1>1. /\ job.len \in Int /\ job.ihl \in 0 .. 15 /\ job.off \in 0 .. 15 /\ job.udpLen \in Nat
        /\ job.version \in {4, 6} /\ hdrLen = IpHeaderLen(job)
        /\ hdrLen \in 20 .. 60 /\ hdrLen <= job.len
    <2>1. job \in Reads
      BY <1>0 DEF Parsed
    <2>2. /\ job.version \in {4, 6} /\ hdrLen = IpHeaderLen(job)
          /\ hdrLen >= 20 /\ hdrLen <= job.len /\ hdrLen \in 0 .. 60
      BY <1>0 DEF Parsed
    <2>3. /\ job.len \in Int /\ job.ihl \in 0 .. 15 /\ job.off \in 0 .. 15
          /\ job.udpLen \in Nat
      BY <2>1, PacketFields
    <2> QED
      BY <2>2, <2>3
  <1> DEFINE n == job.udpLen - 8
             s == job.len - hdrLen
  <1>2. CASE s >= 8 /\ UdpPayloadFits(s, n)
    <2>1. /\ pc' = "taken" /\ hdrLen' = hdrLen
          /\ payload' = [from |-> hdrLen + 8, len |-> n]
          /\ touched' = Greater(hdrLen + 8, hdrLen + 8 + n)
      BY <1>0, <1>2 DEF ParseUdp, Take
    <2>2. payload'.from = hdrLen + 8 /\ payload'.len = n
      BY <2>1
    <2>3. n \in Nat /\ hdrLen + 8 \in Nat /\ touched' <= job.len /\ touched' \in Int
      BY <1>1, <1>2, <2>1 DEF UdpPayloadFits, Greater
    <2>4. ASSUME NEW m \in 0 .. job.len, MadeOf(job, m)
          PROVE  payload' = [from |-> job.len - m, len |-> m]
      <3>1. m = n /\ job.len - m = hdrLen + 8
        BY <1>0, <1>1, <2>4 DEF MadeOf, IpHeaderLen
      <3> QED
        BY <1>1, <2>1, <3>1
    <2> QED
      BY <1>0, <1>1, <2>1, <2>2, <2>3, <2>4 DEF ParseInv, Parsed, Writing, WholePacketsTaken,
         MadeOf, Greater, outVars
  <1>3. CASE ~(s >= 8 /\ UdpPayloadFits(s, n))
    <2>1. /\ pc' = "dropped" /\ hdrLen' = hdrLen /\ payload' = payload
          /\ touched' = IF s >= 8 THEN hdrLen + 8 ELSE touched
      BY <1>0, <1>3 DEF ParseUdp, Drop
    <2>2. touched' <= Greater(job.len, 0) /\ touched' \in Int
      BY <1>0, <1>1, <2>1 DEF Greater, Parsed
    <2>3. ASSUME NEW m \in 0 .. job.len, MadeOf(job, m)
          PROVE  FALSE
      <3>1. n = m /\ job.len = hdrLen + 8 + m
        BY <1>0, <1>1, <2>3 DEF MadeOf, IpHeaderLen
      <3> QED
        BY <1>1, <1>3, <3>1 DEF UdpPayloadFits
    <2> QED
      BY <1>0, <2>1, <2>2, <2>3 DEF ParseInv, Parsed, Writing, WholePacketsTaken, MadeOf, outVars
  <1> QED
    BY <1>2, <1>3

\* Every step keeps the parser's invariant; a call that writes never parses.
LEMMA NextParsed ==
  ASSUME ParseInv, [Next]_vars
  PROVE  ParseInv'
  <1>1. CASE ParseOther
    <2>1. /\ pc' = "dropped" /\ job.proto \notin {6, 17} /\ Parsed
          /\ UNCHANGED <<job, hdrLen, payload, touched>> /\ UNCHANGED outVars
      BY <1>1 DEF ParseInv, ParseOther, Drop, Writing
    <2> QED
      BY <2>1 DEF ParseInv, Parsed, Writing, WholePacketsTaken, MadeOf, outVars
  <1>2. CASE WriteChunk \/ WriteDatagram
    <2>1. pc' \in {"write", "written"}
      BY <1>2 DEF WriteChunk, WriteDatagram
    <2> QED
      BY <2>1 DEF ParseInv, Writing
  <1>3. CASE UNCHANGED vars
    BY <1>3 DEF vars, inVars, outVars, ParseInv, Parsed, Writing, WholePacketsTaken, MadeOf
  <1> QED
    BY <1>1, <1>2, <1>3, ParseIpSound, ParseTcpSound, ParseUdpSound DEF Next

\* At the start nothing is looked at.
LEMMA InitParsed == Init => ParseInv
  <1> SUFFICES ASSUME Init, pc = "parse" PROVE Parsed
    BY DEF Init, ParseInv, Writing
  <1>1. job \in Reads /\ job.len \in Int
    BY PacketFields DEF Init
  <1> QED
    BY <1>1 DEF Init, Parsed, WholePacketsTaken, Greater

\* No packet that a device makes is dropped, and its payload is taken exactly,
\* whatever options its headers have.
THEOREM PacketsTakenWhole == Spec => []WholePacketsTaken
  <1>1. ParseInv => WholePacketsTaken
    BY DEF ParseInv, Parsed, Writing, WholePacketsTaken
  <1> QED
    BY <1>1, InitParsed, NextParsed, PTL DEF Spec

-----------------------------------------------------------------------------
(***************************************************************************)
(* Putting packets together: before a call is done, every segment written  *)
(* so far ends where the next one begins, and none has the flags that go   *)
(* with the last.                                                          *)
(***************************************************************************)

\* The flags that are sent once.
Once == {"SYN", "FIN", "PSH"}

\* Another turn of the loop has something to send.
More == offset < Len(job.payload) \/ (offset = 0 /\ Len(job.payload) = 0 /\ written = <<>>)

WriteTyped ==
  /\ job \in Writes /\ hdrLen = 0 /\ touched = 0 /\ payload = Nowhere
  /\ offset \in 0 .. Len(job.payload) /\ ourSeq \in 0 .. SeqSpace - 1
  /\ \E P : written \in Seq(P)

SegmentsSent ==
  job.proto = "tcp" =>
    /\ written = <<>> => ourSeq = job.seq
    /\ pc = "write" => /\ More
                       /\ \A i \in DOMAIN written : written[i].flags \cap Once = {}

WriteInv == Writing => WriteTyped /\ SegmentsSent /\ SequenceRuns /\ SegmentsWhole

\* The arguments of a call.
LEMMA CallFields ==
  ASSUME NEW w \in Writes
  PROVE  /\ w.proto \in {"tcp", "udp"} /\ w.version \in {4, 6} /\ w.mtu \in Int
         /\ w.seq \in 0 .. SeqSpace - 1 /\ w.flags \subseteq AllFlags
         /\ w.payload \in Seq(Nat) /\ Len(w.payload) \in Nat
         /\ "SYN" \in w.flags => w.payload = <<>> /\ Len(w.payload) = 0 /\ "FIN" \notin w.flags
         /\ w.proto = "tcp" => IpLen(w.version) + 20 + Mss(w.version, w.mtu) <= MaxPacket
         /\ SeqSpace \in Nat /\ SeqSpace > 0
  <1>1. Writes \subseteq Calls
    BY PacketsConstants, Zenon DEF Calls
  <1>2. w \in Calls
    BY <1>1
  <1>3. /\ w.proto \in {"tcp", "udp"} /\ w.version \in {4, 6} /\ w.mtu \in Int
        /\ w.seq \in 0 .. SeqSpace - 1 /\ w.flags \subseteq AllFlags
        /\ w.payload \in Seq(Nat)
    BY <1>2 DEF Calls
  <1>4. "SYN" \in w.flags => w.payload = <<>> /\ "FIN" \notin w.flags
    BY PacketsConstants, Zenon
  <1>5. w.proto = "tcp" => IpLen(w.version) + 20 + Mss(w.version, w.mtu) <= MaxPacket
    BY SegmentsFitPkt
  <1>6. SeqSpace \in Nat /\ SeqSpace > 0
    <2>1. SeqSpace \in Nat \ {0}
      BY PacketsConstants, Zenon
    <2> QED
      BY <2>1
  <1>7. Len(w.payload) \in Nat /\ (w.payload = <<>> => Len(w.payload) = 0)
    BY <1>3
  <1> QED
    BY <1>3, <1>4, <1>5, <1>6, <1>7

\* Segments are at least a byte long, and of the MTU where that leaves one.
LEMMA MssIs ==
  ASSUME NEW v \in {4, 6}, NEW mtu \in Int
  PROVE  /\ Mss(v, mtu) \in Nat /\ Mss(v, mtu) > 0 /\ IpLen(v) \in {20, 40}
         /\ mtu > IpLen(v) + 20 => IpLen(v) + 20 + Mss(v, mtu) <= mtu
  BY DEF Mss, IpLen

\* A turn of the loop of write_tcp.
LEMMA WriteChunkSound ==
  ASSUME WriteInv, WriteChunk
  PROVE  WriteInv'
  <1> DEFINE len == Len(job.payload)
             mss == Mss(job.version, job.mtu)
             ip == IpLen(job.version)
             n == Lesser(len - offset, mss)
             bytes == SubSeq(job.payload, offset + 1, offset + n)
             last == offset + n = len
             flags == ChunkFlags(job.flags, last)
             total == ip + 20 + Len(bytes)
             csum == Checksum(TransportSum(bytes, 20 + n))
             r == [seq |-> ourSeq, flags |-> flags, bytes |-> bytes, total |-> total,
                   csum |-> csum, sum |-> TransportSum(bytes, 20 + Len(bytes)),
                   ipSum |-> IpSum(total),
                   ipCsum |-> IF job.version = 4 THEN Checksum(IpSum(total)) ELSE 0]
  <1>0. /\ pc = "write" /\ job.proto = "tcp" /\ Writing /\ job' = job /\ UNCHANGED inVars
        /\ WriteTyped /\ SegmentsSent /\ SequenceRuns /\ SegmentsWhole /\ More
    BY DEF WriteInv, WriteChunk, Writing, SegmentsSent
  <1>1. /\ job.version \in {4, 6} /\ job.mtu \in Int /\ job.seq \in 0 .. SeqSpace - 1
        /\ job.flags \subseteq AllFlags /\ job.payload \in Seq(Nat) /\ len \in Nat
        /\ "SYN" \in job.flags => len = 0 /\ "FIN" \notin job.flags
        /\ ip + 20 + mss <= MaxPacket /\ SeqSpace \in Nat /\ SeqSpace > 0
    BY <1>0, CallFields DEF WriteTyped
  <1>2. /\ mss \in Nat /\ mss > 0 /\ ip \in {20, 40}
        /\ job.mtu > ip + 20 => ip + 20 + mss <= job.mtu
    BY <1>1, MssIs
  <1>3. offset \in 0 .. len /\ ourSeq \in 0 .. SeqSpace - 1
    BY <1>0 DEF WriteTyped
  <1>4. ~(ip + 20 + n > MaxPacket)
    <2>1. MaxPacket \in Nat
      BY PacketsConstants, Zenon
    <2> HIDE DEF len, mss, ip
    <2>2. n \in Int /\ n <= mss
      BY <1>1, <1>2, <1>3 DEF Lesser
    <2> HIDE DEF n
    <2> QED
      BY <1>1, <1>2, <2>1, <2>2
  <1>5. /\ written' = Append(written, r) /\ ourSeq' = Wrapped(ourSeq + Span(flags, n))
        /\ offset' = offset + n /\ pc' = (IF last THEN "written" ELSE pc)
    BY <1>4 DEF WriteChunk, Written
  <1>6. r.seq = ourSeq /\ r.flags = flags /\ r.bytes = bytes /\ r.total = total
    OBVIOUS
  <1> HIDE DEF r, csum
  <1>7. /\ n \in 0 .. len - offset /\ n <= mss /\ (~last => n > 0)
    <2> HIDE DEF len, mss
    <2> QED
      BY <1>1, <1>2, <1>3 DEF Lesser
  <1> HIDE DEF n
  <1>8. Len(bytes) = n
    BY <1>1, <1>3, <1>7
  <1> HIDE DEF bytes
  <1>9. PICK P : written \in Seq(P)
    BY <1>0 DEF WriteTyped
  <1>10. /\ written' \in Seq(P \cup {r}) /\ Len(written) \in Nat
         /\ Len(written') = Len(written) + 1 /\ DOMAIN written' = 1 .. Len(written) + 1
         /\ DOMAIN written = 1 .. Len(written)
         /\ written'[Len(written) + 1] = r /\ \A i \in DOMAIN written : written'[i] = written[i]
         /\ written' # <<>> /\ (written = <<>> <=> Len(written) = 0)
         /\ Last(written') = r
    <2>1. written' \in Seq(P \cup {r}) /\ written \in Seq(P \cup {r})
      BY <1>5, <1>9
    <2> QED
      BY <1>5, <2>1 DEF Last
  <1>11. flags = IF last THEN job.flags ELSE job.flags \ {"PSH", "FIN"}
    BY DEF ChunkFlags
  <1> HIDE DEF flags
  <1>12. "SYN" \in job.flags => last /\ offset = 0
    <2> HIDE DEF len
    <2> QED
      BY <1>1, <1>3, <1>7
  <1>13. Span(flags, n) = n + (IF flags \cap {"SYN", "FIN"} = {} THEN 0 ELSE 1)
    <2>1. ~("SYN" \in flags /\ "FIN" \in flags) /\ ("SYN" \in flags => offset = 0)
      BY <1>1, <1>11, <1>12
    <2> QED
      BY <1>7, <2>1 DEF Span
  <1>14. ourSeq' = After(r)
    <2> DEFINE x == IF flags \cap {"SYN", "FIN"} = {} THEN 0 ELSE 1
    <2>1. x \in Nat /\ n \in Nat /\ ourSeq \in Nat
      BY <1>3, <1>7
    <2>2. After(r) = (ourSeq + n + x) % SeqSpace
      BY <1>6, <1>8 DEF After
    <2>3. ourSeq' = (ourSeq + (n + x)) % SeqSpace
      BY <1>5, <1>13 DEF Wrapped
    <2> HIDE DEF x
    <2>4. ourSeq + (n + x) = ourSeq + n + x
      BY <2>1
    <2> QED
      BY <2>2, <2>3, <2>4
  <1>15. WriteTyped'
    <2>1. ourSeq' \in 0 .. SeqSpace - 1
      <3>1. Span(flags, n) \in Nat /\ ourSeq + Span(flags, n) \in Nat
        BY <1>3, <1>7, <1>13
      <3> QED
        BY <1>1, <1>5, <3>1 DEF Wrapped
    <2>2. offset' \in 0 .. len
      BY <1>1, <1>3, <1>5, <1>7
    <2> QED
      BY <1>0, <1>10, <2>1, <2>2 DEF WriteTyped, inVars
  <1>16. SegmentsSent'
    <2>1. pc' = "write" => /\ ~last /\ flags \cap Once = {} /\ offset' < len
      <3> SUFFICES ASSUME pc' = "write" PROVE ~last /\ flags \cap Once = {} /\ offset' < len
        OBVIOUS
      <3>1. ~last
        BY <1>5
      <3>2. offset + n < len
        <4> HIDE DEF len
        <4> QED
          BY <1>1, <1>3, <1>7, <3>1
      <3> QED
        BY <1>5, <1>11, <1>12, <3>1, <3>2 DEF Once
    <2>2. pc' = "write" => \A i \in DOMAIN written' : written'[i].flags \cap Once = {}
      <3> SUFFICES ASSUME pc' = "write", NEW i \in DOMAIN written'
                   PROVE  written'[i].flags \cap Once = {}
        OBVIOUS
      <3>1. CASE i = Len(written) + 1
        BY <1>6, <1>10, <2>1, <3>1
      <3>2. CASE i \in DOMAIN written
        BY <1>0, <1>10, <3>2 DEF SegmentsSent
      <3> QED
        BY <1>10, <3>1, <3>2
    <2> QED
      BY <1>0, <1>10, <2>1, <2>2 DEF SegmentsSent, More
  <1>17. SequenceRuns'
    <2>1. written'[1].seq = job.seq
      <3>1. CASE written = <<>>
        BY <1>0, <1>6, <1>10, <3>1 DEF SegmentsSent
      <3>2. CASE written # <<>>
        <4>1. 1 \in DOMAIN written
          BY <1>10, <3>2
        <4> QED
          BY <1>0, <1>10, <3>2, <4>1 DEF SequenceRuns
      <3> QED
        BY <3>1, <3>2
    <2>2. ASSUME NEW i \in 2 .. Len(written')
          PROVE  written'[i].seq = After(written'[i - 1])
      <3>1. CASE i = Len(written) + 1
        <4>1. /\ written # <<>> /\ i - 1 = Len(written) /\ i - 1 \in DOMAIN written
          BY <1>10, <3>1
        <4>2. ourSeq = After(Last(written)) /\ Last(written) = written[i - 1]
          BY <1>0, <4>1 DEF SequenceRuns, Last
        <4> QED
          BY <1>6, <1>10, <3>1, <4>1, <4>2
      <3>2. CASE i \in 2 .. Len(written)
        <4>1. written # <<>> /\ i \in DOMAIN written /\ i - 1 \in DOMAIN written
          BY <1>10, <3>2
        <4>2. written[i].seq = After(written[i - 1])
          BY <1>0, <3>2, <4>1 DEF SequenceRuns
        <4> QED
          BY <1>10, <4>1, <4>2
      <3> QED
        BY <1>10, <3>1, <3>2
    <2> QED
      BY <1>0, <1>10, <1>14, <2>1, <2>2 DEF SequenceRuns
  <1>18. WrittenWhole'
    <2> SUFFICES ASSUME pc' = "written"
                 PROVE  /\ offset' = len
                        /\ \A i \in DOMAIN written', flag \in Once :
                             flag \in written'[i].flags <=> flag \in job.flags /\ i = Len(written')
      BY <1>0 DEF WrittenWhole, Once
    <2>1. last
      BY <1>0, <1>5
    <2>2. ASSUME NEW i \in DOMAIN written', NEW flag \in Once
          PROVE  flag \in written'[i].flags <=> flag \in job.flags /\ i = Len(written')
      <3>1. CASE i = Len(written) + 1
        BY <1>6, <1>10, <1>11, <2>1, <3>1
      <3>2. CASE i \in DOMAIN written
        <4>1. flag \notin written[i].flags /\ i # Len(written')
          BY <1>0, <1>10, <3>2 DEF SegmentsSent
        <4> QED
          BY <1>10, <3>2, <4>1
      <3> QED
        BY <1>10, <3>1, <3>2
    <2> QED
      BY <1>5, <2>1, <2>2
  <1>19. SegmentsFitMtu'
    <2> SUFFICES ASSUME job.mtu > ip + 20, NEW i \in DOMAIN written'
                 PROVE  written'[i].total <= job.mtu
      BY <1>0 DEF SegmentsFitMtu
    <2>1. CASE i = Len(written) + 1
      <3>1. total <= job.mtu
        BY <1>1, <1>2, <1>7, <1>8
      <3> QED
        BY <1>6, <1>10, <2>1, <3>1
    <2>2. CASE i \in DOMAIN written
      BY <1>0, <1>10, <2>2 DEF SegmentsWhole, SegmentsFitMtu, Writing
    <2> QED
      BY <1>10, <2>1, <2>2
  <1> QED
    BY <1>15, <1>16, <1>17, <1>18, <1>19 DEF WriteInv, SegmentsWhole

\* write_udp: one packet, or none.
LEMMA WriteDatagramSound ==
  ASSUME WriteInv, WriteDatagram
  PROVE  WriteInv'
  <1>0. /\ pc' = "written" /\ job.proto = "udp" /\ job' = job /\ UNCHANGED inVars /\ WriteTyped
    BY DEF WriteInv, WriteDatagram, Writing
  <1>1. Len(job.payload) \in Nat
    BY <1>0, CallFields DEF WriteTyped
  <1>2. offset' \in 0 .. Len(job.payload) /\ ourSeq' = ourSeq
    BY <1>0, <1>1 DEF WriteDatagram, WriteTyped, outVars
  <1>3. \E P : written' \in Seq(P)
    <2>1. PICK P : written \in Seq(P)
      BY <1>0 DEF WriteTyped
    <2>2. written' = written \/ \E x : written' = Append(written, x)
      BY DEF WriteDatagram, Written, outVars
    <2>3. ASSUME NEW x PROVE Append(written, x) \in Seq(P \cup {x})
      BY <2>1
    <2> QED
      BY <2>1, <2>2, <2>3
  <1>4. WriteTyped'
    BY <1>0, <1>2, <1>3 DEF WriteTyped, inVars
  <1> QED
    BY <1>0, <1>4 DEF WriteInv, SegmentsSent, SequenceRuns, SegmentsWhole, WrittenWhole,
       SegmentsFitMtu

\* Every step keeps the writer's invariant; a packet that is parsed never writes.
LEMMA NextWritten ==
  ASSUME ParseInv, WriteInv, [Next]_vars
  PROVE  WriteInv'
  <1>1. CASE ParseIp \/ ParseTcp \/ ParseUdp \/ ParseOther
    <2>1. pc' \in {"transport", "taken", "dropped"}
      BY <1>1 DEF ParseIp, ParseTcp, ParseUdp, ParseOther, Drop, Take
    <2> QED
      BY <2>1 DEF WriteInv, Writing
  <1>2. CASE UNCHANGED vars
    BY <1>2 DEF vars, inVars, outVars, WriteInv, Writing, WriteTyped, SegmentsSent, More,
       SequenceRuns, SegmentsWhole, WrittenWhole, SegmentsFitMtu
  <1> QED
    BY <1>1, <1>2, WriteChunkSound, WriteDatagramSound DEF Next

\* At the start of a call nothing is written.
LEMMA InitWritten == Init => WriteInv
  <1> SUFFICES ASSUME Init, pc = "write" PROVE WriteInv
    BY DEF Init, WriteInv, Writing
  <1>1. job \in Writes /\ ourSeq = job.seq /\ written = <<>> /\ offset = 0
    BY DEF Init
  <1>2. job.seq \in 0 .. SeqSpace - 1 /\ Len(job.payload) \in Nat
    BY <1>1, CallFields
  <1>3. written \in Seq({})
    BY <1>1
  <1>4. WriteTyped
    BY <1>1, <1>2, <1>3 DEF Init, WriteTyped, Nowhere
  <1>5. SegmentsSent
    BY <1>1, <1>2 DEF SegmentsSent, More
  <1> QED
    BY <1>1, <1>4, <1>5 DEF WriteInv, SequenceRuns, SegmentsWhole, WrittenWhole, SegmentsFitMtu

\* Whatever the fields of a packet say, the engine looks at and passes on only
\* bytes that read() gave it.
THEOREM ParsingIsSound == Spec => []ParseSound
  <1>1. ParseInv /\ WriteInv => ParseSound
    <2> SUFFICES ASSUME ParseInv, WriteInv PROVE ParseSound
      OBVIOUS
    <2>0. SeqSpace \in Nat /\ SeqSpace > 0
      <3>1. SeqSpace \in Nat \ {0}
        BY PacketsConstants, Zenon
      <3> QED
        BY <3>1
    <2>1. CASE Writing
      BY <2>1 DEF ParseInv, WriteInv, WriteTyped, Writing, Nowhere, ParseSound, TypeOK, InBounds
    <2>2. CASE ~Writing
      BY <2>0, <2>2 DEF ParseInv, Parsed, Writing, ParseSound, TypeOK, InBounds
    <2> QED
      BY <2>1, <2>2
  <1> QED
    BY <1>1, InitParsed, NextParsed, InitWritten, NextWritten, PTL DEF Spec

\* A call of write_tcp sends its whole payload, in segments that fit the MTU,
\* and its SYN, FIN or PSH once, with the last segment.
THEOREM CallsSentWhole == Spec => []SegmentsWhole
  <1>1. WriteInv => SegmentsWhole
    BY DEF WriteInv, Writing, SegmentsWhole, WrittenWhole, SegmentsFitMtu
  <1> QED
    BY <1>1, InitParsed, NextParsed, InitWritten, NextWritten, PTL DEF Spec

\* The segments of a call are one run of the sequence space, and the next call
\* goes on where it ends.
THEOREM SegmentsRunOn == Spec => []SequenceRuns
  <1>1. WriteInv => SequenceRuns
    BY DEF WriteInv, Writing, SequenceRuns
  <1> QED
    BY <1>1, InitParsed, NextParsed, InitWritten, NextWritten, PTL DEF Spec

=============================================================================
