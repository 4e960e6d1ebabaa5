---------------------------- MODULE MCCapControl ----------------------------
(***************************************************************************)
(* A speed test that measures both directions and one whose upload fails.  *)
(***************************************************************************)
EXTENDS CapControl

MCSpeeds == {[d \in Dirs |-> IF d = "dl" THEN 10 ELSE ul] : ul \in {0, 4}}

=============================================================================
