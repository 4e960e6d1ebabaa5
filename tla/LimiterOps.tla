----------------------------- MODULE LimiterOps -----------------------------
(***************************************************************************)
(* The token-bucket arithmetic of rate_limiter.c as operators on a limiter *)
(* record.  Every C function holds rl->lock from its first to its last     *)
(* access, so each is one atomic operation on the record.                  *)
(*                                                                         *)
(* int64_t products are computed at machine width: a product beyond        *)
(* WordMax overflows a signed type, which C leaves undefined.  A build     *)
(* either keeps the low bits as a signed word, or, having inferred that    *)
(* both factors are positive, divides the low bits as an unsigned word.    *)
(* Refilled is therefore the set of limiters a refill may leave behind.    *)
(*                                                                         *)
(* An operator whose comment begins with "Fault" is the one after it with  *)
(* one mistake in it; no specification uses it.                            *)
(***************************************************************************)
EXTENDS Integers

CONSTANTS
  NsPerSec,           (* clock units in a second (1000000000)               *)
  UsPerSec,           (* wait units in a second (1000000)                   *)
  BurstDivisor,       (* capacity is rate / BurstDivisor (50: 20 ms)        *)
  MinCapacity,        (* least capacity, one MTU (1500)                     *)
  MinWait,            (* shorter waits are returned as 0 (2000)             *)
  MaxWait,            (* longer waits are returned as MaxWait (50000)       *)
  SmallPktThreshold,  (* SMALL_PKT_THRESHOLD (128)                          *)
  WordMax             (* INT64_MAX, the largest product that does not wrap  *)

ASSUME LimiterConstants ==
  /\ NsPerSec \in Nat \ {0}
  /\ UsPerSec \in Nat \ {0}
  /\ BurstDivisor \in Nat \ {0}
  /\ MinCapacity \in Nat \ {0}
  /\ MinWait \in Nat \ {0}
  /\ MaxWait \in Nat \ {0}
  /\ SmallPktThreshold \in Nat
  /\ WordMax \in Nat \ {0}

Limiter == [tokens : Int, capacity : Nat, rate : Nat, last : Int]

CapacityOf(bps) ==
  IF bps \div BurstDivisor < MinCapacity THEN MinCapacity ELSE bps \div BurstDivisor

\* A limiter whose bucket starts full at time t.
InitLimiter(bps, t) ==
  [tokens |-> CapacityOf(bps), capacity |-> CapacityOf(bps), rate |-> bps, last |-> t]

\* Fault: the resized bucket keeps tokens that no longer fit.
UpdatedNoSpill(rl, bps) ==
  [rl EXCEPT !.rate = bps, !.capacity = CapacityOf(bps)]

\* A new rate resizes the bucket and spills what no longer fits.  The time
\* since the last refill is not settled at the old rate first.
Updated(rl, bps) ==
  [rl EXCEPT !.rate     = bps,
             !.capacity = CapacityOf(bps),
             !.tokens   = IF @ > CapacityOf(bps) THEN CapacityOf(bps) ELSE @]

-----------------------------------------------------------------------------

WordSize == 2 * (WordMax + 1)

SignedWord(x) == LET u == x % WordSize IN IF u > WordMax THEN u - WordSize ELSE u

\* What the machine may hold after a signed multiplication whose exact
\* value is x >= 0.
Products(x) == IF x <= WordMax THEN {x} ELSE {SignedWord(x), x % WordSize}

\* C division truncates toward zero.
Quotient(a, b) == IF a >= 0 THEN a \div b ELSE -((-a) \div b)

\* A bucket that fills at time t drops the remainder and restarts its clock.
FilledUp(rl, t) == [rl EXCEPT !.tokens = rl.capacity, !.last = t]

\* Fault: the clock is set to t, which forfeits the fraction of a token.
TopUpRestarted(rl, t, added) ==
  {[rl EXCEPT !.tokens = @ + added, !.last = t]}

\* Fault: the clock does not move, so the same time is credited again.
TopUpUnmoved(rl, t, added) ==
  {[rl EXCEPT !.tokens = @ + added]}

\* A bucket that does not fill advances its clock by the time that `added`
\* whole tokens take to earn.
TopUp(rl, t, added) ==
  {[rl EXCEPT !.tokens = @ + added, !.last = @ + Quotient(p, rl.rate)] :
     p \in Products(added * NsPerSec)}

Credited(rl, t, added) ==
  IF added <= 0 THEN {rl}
  ELSE IF rl.tokens + added >= rl.capacity THEN {FilledUp(rl, t)}
  ELSE TopUp(rl, t, added)

\* The refill that rate_limiter_consume and rate_limiter_available share.
Refilled(rl, t) ==
  IF t > rl.last /\ rl.rate > 0
  THEN UNION {Credited(rl, t, Quotient(p, NsPerSec)) :
                p \in Products((t - rl.last) * rl.rate)}
  ELSE {rl}

-----------------------------------------------------------------------------

\* Packets of at most SmallPktThreshold bytes are charged about half.
Cost(bytes) == IF bytes <= SmallPktThreshold THEN bytes \div 2 + 1 ELSE bytes

Charged(rl, bytes) == [rl EXCEPT !.tokens = @ - Cost(bytes)]

RepayTime(rl, deficit) ==
  IF rl.rate > 0 THEN (deficit * UsPerSec) \div rl.rate ELSE 0

\* Fault: long waits are not capped.
AdviceUncapped(wait) == IF wait < MinWait THEN 0 ELSE wait

\* Fault: waits at the batching threshold and just above it are batched too.
AdviceCoarse(wait) ==
  IF wait <= MinWait + 1 THEN 0 ELSE IF wait > MaxWait THEN MaxWait ELSE wait

\* Short waits are batched away, long ones are capped.
Advice(wait) ==
  IF wait < MinWait THEN 0 ELSE IF wait > MaxWait THEN MaxWait ELSE wait

\* The advisory wait returned for `bytes`, charged to the refilled limiter rl.
WaitFor(rl, bytes) ==
  IF rl.tokens >= Cost(bytes) THEN 0
  ELSE Advice(RepayTime(rl, Cost(bytes) - rl.tokens))

=============================================================================
