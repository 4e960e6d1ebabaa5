------------------------------- MODULE Packets -------------------------------
(***************************************************************************)
(* The packets at the tunnel: how the engine takes apart what it reads     *)
(* (engine_loop, the heads of handle_tcp_tun and handle_udp_tun) and how   *)
(* it puts together what it writes (write_tcp, write_udp, the checksums).  *)
(*                                                                         *)
(* A behaviour is one packet taken apart or one write_tcp or write_udp     *)
(* call, from every input.  Sizes and 16-bit words are the program's;      *)
(* MaxPacket and SeqSpace (2^32) are smaller in an instance.               *)
(***************************************************************************)
EXTENDS Integers, Sequences, SequencesExt

CONSTANTS
  Reads,      (* what read() may leave in pkt, the fields the code looks at *)
  Writes,     (* calls of write_tcp and write_udp                           *)
  MaxPacket,  (* MAX_PACKET_SIZE                                            *)
  SeqSpace    (* sequence numbers are modulo this                           *)

AllFlags == {"SYN", "ACK", "PSH", "FIN", "RST"}

\* A SYN goes out alone: no call of write_tcp gives it a payload or a FIN.
ASSUME PacketsConstants ==
  /\ Reads \subseteq [len : Int, version : 0 .. 15, ihl : 0 .. 15, proto : Nat,
                      off : 0 .. 15, udpLen : Nat]
  /\ Writes \subseteq [proto : {"tcp", "udp"}, version : {4, 6}, mtu : Int,
                       seq : 0 .. SeqSpace - 1, words : Nat, flags : SUBSET AllFlags,
                       payload : Seq(Nat)]
  /\ \A w \in Writes : "SYN" \in w.flags => w.payload = <<>> /\ "FIN" \notin w.flags
  /\ MaxPacket \in Nat /\ SeqSpace \in Nat \ {0}

VARIABLES
  pc,         (* parse, transport, taken, dropped; write, written           *)
  job,        (* the input: a member of Reads or Writes                     *)
  hdrLen,     (* parsing: length of the IP header                           *)
  touched,    (* parsing: how many bytes of pkt have been looked at         *)
  payload,    (* parsing: where the payload starts and how long it is       *)
  offset,     (* writing: bytes of the payload already written              *)
  ourSeq,     (* writing: our_seq                                           *)
  written     (* writing: the packets written                               *)

inVars == <<hdrLen, touched, payload>>
outVars == <<offset, ourSeq, written>>
vars == <<pc, job, inVars, outVars>>

Lesser(a, b) == IF a < b THEN a ELSE b
Greater(a, b) == IF a < b THEN b ELSE a

Init ==
  /\ hdrLen = 0 /\ touched = 0 /\ payload = [from |-> 0, len |-> 0]
  /\ offset = 0 /\ written = <<>>
  /\ \/ pc = "parse" /\ job \in Reads /\ ourSeq = 0
     \/ pc = "write" /\ job \in Writes /\ ourSeq = job.seq

-----------------------------------------------------------------------------
\* Taking a packet apart.

Drop == pc' = "dropped" /\ UNCHANGED <<hdrLen, payload>>

\* Fault: an IPv4 header is taken to have no options.
IpOptionsForgotten(p) == IF p.version = 4 THEN 20 ELSE 40

IpHeaderLen(p) == IF p.version = 4 THEN p.ihl * 4 ELSE 40

IpHeaderFits(len, n) == n >= 20 /\ len >= n

\* engine_loop: pkt[0] is looked at first, then the whole fixed header.
ParseIp ==
  /\ pc = "parse"
  /\ LET len == job.len
         n == IpHeaderLen(job)
         fixed == IF job.version = 4 THEN 20 ELSE 40 IN
     IF len > 0 /\ job.version \in {4, 6} /\ len >= fixed
     THEN /\ touched' = fixed
          /\ IF job.version = 4 => IpHeaderFits(len, n)
             THEN pc' = "transport" /\ hdrLen' = n /\ UNCHANGED payload
             ELSE Drop
     ELSE touched' = Lesser(1, len) /\ Drop
  /\ UNCHANGED <<job, outVars>>

Take(from, len) ==
  /\ pc' = "taken"
  /\ payload' = [from |-> from, len |-> len]
  /\ touched' = Greater(hdrLen + 8, from + len)
  /\ UNCHANGED hdrLen

\* Fault: the options of the TCP header may reach past the segment.
TcpOptionsUnchecked(segLen, n) == n >= 20

TcpHeaderFits(segLen, n) == n >= 20 /\ segLen >= n

ParseTcp ==
  /\ pc = "transport" /\ job.proto = 6
  /\ LET segLen == job.len - hdrLen  n == job.off * 4 IN
     IF segLen >= 20 /\ TcpHeaderFits(segLen, n)
     THEN Take(hdrLen + n, segLen - n)
     ELSE Drop /\ touched' = IF segLen >= 20 THEN hdrLen + 20 ELSE touched
  /\ UNCHANGED <<job, outVars>>

UdpPayloadFits(segLen, n) == n >= 0 /\ n <= segLen - 8

\* The payload is what the length field says, the rest of the packet is not.
ParseUdp ==
  /\ pc = "transport" /\ job.proto = 17
  /\ LET segLen == job.len - hdrLen  n == job.udpLen - 8 IN
     IF segLen >= 8 /\ UdpPayloadFits(segLen, n)
     THEN Take(hdrLen + 8, n)
     ELSE Drop /\ touched' = IF segLen >= 8 THEN hdrLen + 8 ELSE touched
  /\ UNCHANGED <<job, outVars>>

ParseOther ==
  /\ pc = "transport" /\ job.proto \notin {6, 17}
  /\ Drop
  /\ UNCHANGED <<job, touched, outVars>>

-----------------------------------------------------------------------------
\* Checksums.

\* A trailing odd byte is the high half of a word.
WordSum(bytes) ==
  FoldLeft(LAMBDA sum, i : sum + bytes[i] * (IF i % 2 = 1 THEN 256 ELSE 1),
           0, [i \in DOMAIN bytes |-> i])

\* Fault: carries are added once.
FoldedOnce(sum) == (sum % 65536) + (sum \div 65536)

\* Carries are added until none is left.
Folded(sum) ==
  LET fold[s \in Nat] == IF s < 65536 THEN s ELSE fold[(s % 65536) + (s \div 65536)]
  IN  fold[sum]

\* checksum_compute, and the transport checksums over a pseudo-header: sum is
\* that of every word the checksum covers, its own field being 0.
Checksum(sum) == 65535 - (Folded(sum) % 65536)

\* A UDP checksum of 0 would mean that there is none.
UdpChecksum(sum) == IF Checksum(sum) = 0 THEN 65535 ELSE Checksum(sum)

-----------------------------------------------------------------------------
\* Putting packets together.

IpLen(version) == IF version = 4 THEN 20 ELSE 40

Mss(version, mtu) ==
  LET mss == mtu - IpLen(version) - 20 IN
  IF mss > 0 THEN mss ELSE IF version = 4 THEN 1460 ELSE 1440

\* No segment of the tunnel's MTU is too long for pkt.
ASSUME SegmentsFitPkt ==
  \A w \in Writes : w.proto = "tcp" => IpLen(w.version) + 20 + Mss(w.version, w.mtu) <= MaxPacket

\* The sums of the words the two checksums cover; job.words stands for the
\* addresses, the ports and the other words that are the same in every chunk.
IpSum(total) == job.words + total + (IF job.proto = "tcp" THEN ourSeq ELSE 0)

TransportSum(bytes, len) ==
  job.words + len + WordSum(bytes) + (IF job.proto = "tcp" THEN ourSeq ELSE 0)

\* Fault: a flag of the call goes out with every chunk.
FlagsKept(flags, last) == flags

ChunkFlags(flags, last) == IF last THEN flags ELSE flags \ {"PSH", "FIN"}

\* Fault: FIN takes no sequence number.
SpanWithoutFin(flags, len) == (IF "SYN" \in flags /\ offset = 0 THEN 1 ELSE 0) + len

\* What a segment takes of the sequence space.
Span(flags, len) ==
  (IF "SYN" \in flags /\ offset = 0 THEN 1 ELSE 0) + len + (IF "FIN" \in flags THEN 1 ELSE 0)

\* uint32_t arithmetic.
Wrapped(seq) == seq % SeqSpace

Written(flags, bytes, transportLen, csum) ==
  LET total == IpLen(job.version) + transportLen + Len(bytes) IN
  written' = Append(written,
    [seq |-> ourSeq, flags |-> flags, bytes |-> bytes, total |-> total, csum |-> csum,
     sum |-> TransportSum(bytes, transportLen + Len(bytes)),
     ipSum |-> IpSum(total),
     ipCsum |-> IF job.version = 4 THEN Checksum(IpSum(total)) ELSE 0])

\* One turn of the loop of write_tcp_v4 or write_tcp_v6.
WriteChunk ==
  /\ pc = "write" /\ job.proto = "tcp"
  /\ LET n == Lesser(Len(job.payload) - offset, Mss(job.version, job.mtu))
         bytes == SubSeq(job.payload, offset + 1, offset + n)
         last == offset + n = Len(job.payload)
         flags == ChunkFlags(job.flags, last) IN
     IF IpLen(job.version) + 20 + n > MaxPacket
     THEN pc' = "written" /\ UNCHANGED outVars
     ELSE /\ Written(flags, bytes, 20, Checksum(TransportSum(bytes, 20 + n)))
          /\ ourSeq' = Wrapped(ourSeq + Span(flags, n))
          /\ offset' = offset + n
          /\ pc' = IF last THEN "written" ELSE pc
  /\ UNCHANGED <<job, inVars>>

\* write_udp: a datagram that does not fit pkt is forgotten.
WriteDatagram ==
  /\ pc = "write" /\ job.proto = "udp"
  /\ LET n == Len(job.payload) IN
     IF IpLen(job.version) + 8 + n > MaxPacket
     THEN UNCHANGED outVars
     ELSE /\ Written({}, job.payload, 8, UdpChecksum(TransportSum(job.payload, 8 + n)))
          /\ offset' = n
          /\ UNCHANGED ourSeq
  /\ pc' = "written"
  /\ UNCHANGED <<job, inVars>>

Next == ParseIp \/ ParseTcp \/ ParseUdp \/ ParseOther \/ WriteChunk \/ WriteDatagram

Spec == Init /\ [][Next]_vars

-----------------------------------------------------------------------------

TypeOK ==
  /\ pc \in {"parse", "transport", "taken", "dropped", "write", "written"}
  /\ hdrLen \in 0 .. 60
  /\ payload.from \in Nat
  /\ offset \in 0 .. (IF pc \in {"write", "written"} THEN Len(job.payload) ELSE 0)
  /\ ourSeq \in 0 .. SeqSpace - 1

\* Whatever the fields of a packet say, the engine looks at and passes on only
\* bytes that read() gave it; pkt still holds older packets beyond them.
InBounds ==
  pc \notin {"write", "written"} => touched <= Greater(job.len, 0) /\ payload.len >= 0

\* Parsing (engine_loop, handle_tcp_tun, handle_udp_tun) stays within what was
\* read, and its lengths within their types.
ParseSound == TypeOK /\ InBounds

\* A packet made of its headers and a payload, as a device builds it.
MadeOf(p, n) ==
  LET ip == IF p.version = 4 THEN p.ihl * 4 ELSE 40 IN
  /\ p.version = 6 \/ (p.version = 4 /\ p.ihl >= 5)
  /\ \/ p.proto = 6 /\ p.off >= 5 /\ p.len = ip + p.off * 4 + n
     \/ p.proto = 17 /\ p.udpLen = 8 + n /\ p.len = ip + p.udpLen

\* No such packet is dropped, and its payload is taken exactly, whatever
\* options its headers have.
WholePacketsTaken ==
  pc \in {"taken", "dropped"} =>
    \A n \in 0 .. job.len : MadeOf(job, n) =>
      pc = "taken" /\ payload = [from |-> job.len - n, len |-> n]

\* How a receiver checks: the one's complement sum is all ones.
Verifies(sum) == sum > 0 /\ sum % 65535 = 0

\* The device accepts every packet the engine writes: both checksums verify,
\* and a datagram's never claims to be absent (RFC 768, RFC 8200).
ChecksumsVerify ==
  \A i \in DOMAIN written :
    LET w == written[i] IN
    /\ Verifies(w.sum + w.csum)
    /\ job.version = 4 => Verifies(w.ipSum + w.ipCsum)
    /\ job.proto = "udp" => w.csum # 0

\* Where the sequence space goes on after a segment.
After(w) ==
  (w.seq + Len(w.bytes) + (IF w.flags \cap {"SYN", "FIN"} = {} THEN 0 ELSE 1)) % SeqSpace

\* The segments of one call are one run of the sequence space, and our_seq is
\* where the next call goes on.
SequenceRuns ==
  pc \in {"write", "written"} /\ job.proto = "tcp" /\ written # <<>> =>
    /\ written[1].seq = job.seq
    /\ \A i \in 2 .. Len(written) : written[i].seq = After(written[i - 1])
    /\ ourSeq = After(Last(written))

\* ... and they carry the payload, once and in order.
BytesRun ==
  pc \in {"write", "written"} /\ job.proto = "tcp" =>
    FlattenSeq([i \in DOMAIN written |-> written[i].bytes]) = SubSeq(job.payload, 1, offset)

\* Of what write_tcp sends, the receiver misses and repeats nothing.
SegmentsAdjoin == SequenceRuns /\ BytesRun

\* A call sends its whole payload, and its SYN or FIN once; PSH goes with the
\* last segment, so that the device hands up the stream when it is complete.
WrittenWhole ==
  pc = "written" /\ job.proto = "tcp" =>
    /\ offset = Len(job.payload)
    /\ \A i \in DOMAIN written :
         \A flag \in {"SYN", "FIN", "PSH"} :
           flag \in written[i].flags <=> flag \in job.flags /\ i = Len(written)

\* No segment exceeds the MTU of the tunnel, when a byte fits at all.
SegmentsFitMtu ==
  pc \in {"write", "written"} /\ job.proto = "tcp" /\ job.mtu > IpLen(job.version) + 20 =>
    \A i \in DOMAIN written : written[i].total <= job.mtu

\* What write_tcp sends of a call is all of it, in segments that fit.
SegmentsWhole == WrittenWhole /\ SegmentsFitMtu

=============================================================================
