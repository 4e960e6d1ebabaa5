------------------------------ MODULE MCPackets ------------------------------
(***************************************************************************)
(* Lengths on both sides of every comparison of the code; payloads of a    *)
(* few bytes in chunks of one to three, whose sums carry; sequence numbers *)
(* that wrap.                                                              *)
(***************************************************************************)
EXTENDS Packets

MCReads ==
  [len : {0, 1, 19, 20, 24, 27, 28, 29, 31, 32, 39, 40, 41, 44, 47, 48, 49, 59, 60, 61, 64, 65, 120},
   version : {4, 5, 6}, ihl : {0, 4, 5, 6, 15}, proto : {1, 6, 17},
   off : {0, 4, 5, 6, 15}, udpLen : {0, 7, 8, 9, 12, 13, 21}]

MCPayloads == UNION {[1 .. n -> {0, 1, 255}] : n \in 1 .. 5}

\* With the headers of IPv6 this one exceeds MaxPacket.
MCJumbo == [i \in 1 .. 16 |-> 255]

MCWords == {1, 65511, 65534, 131069, 983025}

\* The calls the engine makes: flags alone, or PSH and ACK with a payload.
MCCalls ==
  [flags : {{"SYN", "ACK"}, {"ACK"}, {"FIN", "ACK"}, {"RST"}}, payload : {<<>>}]
    \cup [flags : {{"PSH", "ACK"}}, payload : MCPayloads]

MCWrites ==
  {[proto |-> "tcp", version |-> v, mtu |-> IpLen(v) + 20 + mss, seq |-> seq, words |-> words,
    flags |-> c.flags, payload |-> c.payload] :
     v \in {4, 6}, mss \in {1, 2, 3}, seq \in {0, SeqSpace - 2}, words \in MCWords,
     c \in MCCalls}
  \cup
  {[proto |-> "udp", version |-> v, mtu |-> 0, seq |-> 0, words |-> words, flags |-> {},
    payload |-> p] : v \in {4, 6}, words \in MCWords, p \in MCPayloads \cup {MCJumbo}}

=============================================================================
