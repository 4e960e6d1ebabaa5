----------------------------- MODULE RateLimiter -----------------------------
(***************************************************************************)
(* One rate_limiter_t shared by the engine thread, which consumes and asks *)
(* for what is available, and by the JNI threads, which change the rate.   *)
(* The lock makes the calls atomic; any of them may come at any time, with *)
(* any amount of idle time between two calls.                              *)
(***************************************************************************)
EXTENDS LimiterOps

CONSTANTS
  Rates,        (* the rates a JNI thread may set, in bytes per second     *)
  InitialRate,  (* the rate of engine_start                                *)
  PacketSizes,  (* the sizes of the packets that are charged               *)
  MaxTime,      (* bound on the clock                                      *)
  MaxDebt       (* bound on the debt: no packet is offered beyond it       *)

ASSUME RateLimiterConstants ==
  /\ Rates \subseteq Nat
  /\ InitialRate \in Rates
  /\ PacketSizes \subseteq Nat
  /\ MaxTime \in Nat
  /\ MaxDebt \in Nat

VARIABLES
  rl,   (* the limiter                                                     *)
  now,  (* CLOCK_MONOTONIC                                                 *)
  ret   (* what the last call did: its kind, its charge, its answer        *)

vars == <<rl, now, ret>>

\* What a call may answer: consume advises a wait of at most MaxWait.
Results ==
  [op : {"init", "update"}, cost : {0}, answer : {0}]
    \cup [op : {"consume"}, cost : Nat, answer : 0 .. MaxWait]
    \cup [op : {"available"}, cost : {0}, answer : Int]

\* The limiter and the answers keep their types: no wait exceeds MaxWait
\* (rate_limiter_consume), whatever a product that overflows becomes.
TypeOK ==
  /\ rl \in Limiter
  /\ now \in Nat
  /\ ret \in Results

Init ==
  /\ now = 0
  /\ rl = InitLimiter(InitialRate, now)
  /\ ret = [op |-> "init", cost |-> 0, answer |-> 0]

-----------------------------------------------------------------------------

Tick ==
  /\ now < MaxTime
  /\ now' = now + 1
  /\ UNCHANGED <<rl, ret>>

Update(bps) ==
  /\ rl' = Updated(rl, bps)
  /\ ret' = [op |-> "update", cost |-> 0, answer |-> 0]
  /\ UNCHANGED now

\* The tokens are taken whether or not they are there.
Consume(bytes) ==
  /\ rl.tokens > -MaxDebt
  /\ \E r \in Refilled(rl, now) :
       /\ rl' = Charged(r, bytes)
       /\ ret' = [op |-> "consume", cost |-> Cost(bytes), answer |-> WaitFor(r, bytes)]
  /\ UNCHANGED now

Available ==
  /\ \E r \in Refilled(rl, now) :
       /\ rl' = r
       /\ ret' = [op |-> "available", cost |-> 0, answer |-> r.tokens]
  /\ UNCHANGED now

Next ==
  \/ Tick
  \/ \E bps \in Rates : Update(bps)
  \/ \E bytes \in PacketSizes : Consume(bytes)
  \/ Available

Spec == Init /\ [][Next]_vars

-----------------------------------------------------------------------------

\* The bucket never holds more than the burst its current rate allows, across
\* refills and across rate changes that shrink it (rate_limiter_update clamps,
\* the refill clamps).
BurstCapped == rl.tokens <= rl.capacity

\* The refill clock never runs ahead of the real one, so no call credits time
\* that has not passed, whatever rounding last_refill_ns went through.
ClockNotAhead == rl.last <= now

\* Neither a long idle time nor a change of the rate, and no overflow, takes the
\* limiter out of its bounds.
WithinBounds == BurstCapped /\ ClockNotAhead

\* A call of rate_limiter_consume or rate_limiter_available.
RefillStep == now' = now /\ ret'.op \in {"consume", "available"}

Gain == rl'.tokens + ret'.cost - rl.tokens

\* The product of the next refill fits a signed word: the limiter has not been
\* idle for longer than WordMax / rate clock units (73 s at 1 Gbit/s).
ProductFits == (now - rl.last) * rl.rate <= WordMax

\* A refill that does not fill the bucket charges the refill clock for the
\* tokens it gives: never more time than they are worth, and at most one clock
\* unit less (the truncation of added * 1e9 / rate_per_sec).  After a longer
\* idle time the product overflows and this is not so.
RefillExactStep ==
  RefillStep /\ rl.rate > 0 /\ ProductFits /\ rl.tokens + Gain < rl.capacity =>
    /\ (rl'.last - rl.last) * rl.rate <= Gain * NsPerSec
    /\ Gain * NsPerSec < (rl'.last - rl.last + 1) * rl.rate

RefillExact == [][RefillExactStep]_vars

\* The bucket refills at a steady rate: after a call whose product fits, the
\* time not yet turned into tokens is worth less than one token and one clock
\* unit.
SteadyRefillStep ==
  RefillStep /\ rl.rate > 0 /\ ProductFits =>
    (now - rl'.last) * rl.rate < NsPerSec + rl.rate

SteadyRefill == [][SteadyRefillStep]_vars

\* The answer of consume bounds the debt it leaves: 0 leaves less than the
\* batching threshold, and a wait below the cap repays the debt to within one
\* wait unit.
WaitRepaysDebtStep ==
  RefillStep /\ ret'.op = "consume" /\ rl.rate > 0 =>
    LET debt == -rl'.tokens IN
    /\ ret'.answer = 0 => debt <= 0 \/ debt * UsPerSec < MinWait * rl.rate
    /\ 0 < ret'.answer /\ ret'.answer < MaxWait =>
         /\ ret'.answer * rl.rate <= debt * UsPerSec
         /\ debt * UsPerSec < (ret'.answer + 1) * rl.rate

WaitRepaysDebt == [][WaitRepaysDebtStep]_vars

=============================================================================
