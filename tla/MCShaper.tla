------------------------------ MODULE MCShaper ------------------------------
(***************************************************************************)
(* One clock tick is 1 ms and one token 500 bytes, so an MTU is 3 tokens   *)
(* and a rate is in half kilobytes per second; the buffer, the burst and   *)
(* the upload's longest sleep are scaled down.                             *)
(***************************************************************************)
EXTENDS Shaper

\* 2.4 Mbit/s and 4 Mbit/s.
MCRates == {600, 1000}

MCUlSizes == {1, 3}

=============================================================================
