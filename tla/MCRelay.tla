------------------------------- MODULE MCRelay -------------------------------
(***************************************************************************)
(* One TCP flow and one UDP flow over two descriptors, with every fault of *)
(* the UDP half and those of the TCP half that give a descriptor back.     *)
(***************************************************************************)
EXTENDS Relay

MCReuse == {"refuse", "abort", "expire", "unprotected"}

MCAllUdp == AllUdpFaults

=============================================================================
