----------------------------- MODULE MCTcpRelay -----------------------------
(***************************************************************************)
(* Small instances of TcpRelay.  An instance names the faults around the   *)
(* engine that it allows, so that a property and the fault that breaks it  *)
(* are told apart.                                                         *)
(***************************************************************************)
EXTENDS TcpRelay, TLC

\* What a connection always has to reckon with.
MCBenign == {"unreachable", "refuse", "reset", "finWithData", "abort"}

\* Everything that can go wrong at once.
MCAll == AllFaults

MCSymmetry == Permutations(Flows) \cup Permutations(Fds)

=============================================================================
