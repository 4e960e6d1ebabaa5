--------------------------- MODULE MCRateLimiter ---------------------------
(***************************************************************************)
(* A scaled limiter: a second is 10 clock units and 10 wait units.  The    *)
(* rates are: none, two that divide the second unevenly, one that divides  *)
(* it evenly and one above a token per clock unit.                         *)
(***************************************************************************)
EXTENDS RateLimiter

MCRates == {0, 3, 5, 7, 25}

MCPacketSizes == {1, 4, 9}

=============================================================================
