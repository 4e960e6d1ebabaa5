--------------------------- MODULE MCSessionTable ---------------------------
(***************************************************************************)
(* Three of four keys share a bucket.                                      *)
(***************************************************************************)
EXTENDS SessionTable

CONSTANTS k1, k2, k3, k4

MCHash == [k \in Keys |-> IF k = k4 THEN 1 ELSE 0]

=============================================================================
