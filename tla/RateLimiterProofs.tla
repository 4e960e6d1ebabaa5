-------------------------- MODULE RateLimiterProofs --------------------------
(***************************************************************************)
(* Proofs about RateLimiter for every rate, packet size, clock resolution, *)
(* word width and bound.                                                   *)
(***************************************************************************)
EXTENDS RateLimiter, TLAPS

\* What integer division returns.
LEMMA DivBounds ==
  ASSUME NEW a \in Nat, NEW b \in Nat \ {0}
  PROVE  /\ a \div b \in Nat
         /\ (a \div b) * b <= a
         /\ a < (a \div b + 1) * b
<1>1. a \div b \in Nat
  BY SMT
<1>2. a = b * (a \div b) + (a % b) /\ 0 <= a % b /\ a % b < b
  BY SMT
<1>3. (a \div b) * b <= a
  BY <1>1, <1>2, SMT
<1>4. a < (a \div b + 1) * b
  BY <1>1, <1>2, SMT
<1> QED BY <1>1, <1>3, <1>4

\* What the remainder returns.
LEMMA ModBounds ==
  ASSUME NEW a \in Nat, NEW b \in Nat \ {0}
  PROVE  a % b \in Nat /\ a % b <= a
BY DivBounds, SMT

\* A product of C is never above the exact one, wrapped or not.
LEMMA ProductsBounded ==
  ASSUME NEW x \in Nat, NEW p \in Products(x)
  PROVE  p \in Int /\ p <= x
<1> DEFINE u == x % WordSize
<1>1. WordSize \in Nat \ {0} /\ WordMax \in Nat
  BY LimiterConstants DEF WordSize
<1>2. u \in Nat /\ u <= x
  BY <1>1, ModBounds
<1>3. p \in {x, u, u - WordSize}
  BY DEF Products, SignedWord
<1> QED BY <1>1, <1>2, <1>3, SMT

\* A product that fits the word is exact.
LEMMA ProductsExact ==
  ASSUME NEW x \in Nat, x <= WordMax
  PROVE  Products(x) = {x}
BY DEF Products

\* C division of integers is an integer.
LEMMA QuotientInt ==
  ASSUME NEW a \in Int, NEW b \in Nat \ {0}
  PROVE  Quotient(a, b) \in Int
<1>1. CASE a >= 0
  BY <1>1, DivBounds DEF Quotient
<1>2. CASE ~(a >= 0)
  <2>1. -a \in Nat
    BY <1>2, SMT
  <2>2. (-a) \div b \in Nat
    BY <2>1, DivBounds
  <2> QED BY <1>2, <2>2 DEF Quotient
<1> QED BY <1>1, <1>2

\* C division does not exceed the exact quotient.
LEMMA QuotientBounded ==
  ASSUME NEW a \in Int, NEW b \in Nat \ {0}, NEW c \in Nat, a <= c * b
  PROVE  Quotient(a, b) \in Int /\ Quotient(a, b) <= c
<1>1. CASE a >= 0
  <2>1. a \div b \in Nat /\ (a \div b) * b <= a
    BY <1>1, DivBounds
  <2>2. (a \div b) * b <= c * b
    BY <2>1, SMT
  <2>3. a \div b <= c
    BY <2>1, <2>2, SMT
  <2> QED BY <1>1, <2>1, <2>3 DEF Quotient
<1>2. CASE ~(a >= 0)
  <2>1. -a \in Nat
    BY <1>2, SMT
  <2>2. (-a) \div b \in Nat
    BY <2>1, DivBounds
  <2>3. Quotient(a, b) = -((-a) \div b)
    BY <1>2 DEF Quotient
  <2> QED BY <2>2, <2>3, SMT
<1> QED BY <1>1, <1>2

-----------------------------------------------------------------------------

\* What a refill may do to a limiter whose clock is not ahead: it keeps the
\* rate and the capacity, gives no token beyond the capacity, takes none away,
\* and leaves the clock between where wrapping may put it and t.
LEMMA RefilledSafe ==
  ASSUME NEW l \in Limiter, NEW t \in Nat, l.last <= t, l.tokens <= l.capacity,
         NEW r \in Refilled(l, t)
  PROVE  /\ r \in Limiter
         /\ r.rate = l.rate
         /\ r.capacity = l.capacity
         /\ r.tokens <= r.capacity
         /\ r.tokens >= l.tokens
         /\ r.last <= t
<1> USE DEF Limiter
<1>1. CASE r = l
  BY <1>1, SMT
<1>2. CASE r # l
  <2>1. t > l.last /\ l.rate > 0
    BY <1>2 DEF Refilled
  <2> DEFINE e == t - l.last
  <2>2. e \in Nat /\ l.rate \in Nat \ {0} /\ NsPerSec \in Nat \ {0}
    BY <2>1, LimiterConstants
  <2>3. e * l.rate \in Nat
    BY <2>2, SMT
  <2>4. PICK p \in Products(e * l.rate) : r \in Credited(l, t, Quotient(p, NsPerSec))
    BY <2>1 DEF Refilled
  <2>5. p \in Int /\ p <= e * l.rate
    BY <2>3, <2>4, ProductsBounded
  <2> DEFINE a == Quotient(p, NsPerSec)
  <2>6. a > 0
    <3>1. a \in Int
      BY <2>2, <2>5, QuotientInt
    <3>2. ~(a <= 0)
      BY <1>2, <2>4 DEF Credited
    <3> HIDE DEF a
    <3> QED BY <3>1, <3>2, SMT
  <2>7. p >= 0
    <3>1. CASE p < 0
      <4>1. p <= 0 * NsPerSec
        BY <2>2, <2>5, <3>1, SMT
      <4>2. a <= 0 /\ a \in Int
        BY <2>2, <2>5, <4>1, QuotientBounded
      <4> QED BY <2>6, <4>2, SMT
    <3> QED BY <2>5, <3>1, SMT
  <2>8. a \in Nat /\ a * NsPerSec <= p
    BY <2>2, <2>5, <2>7, DivBounds DEF Quotient
  <2>9. CASE r = FilledUp(l, t)
    <3>1. r = [tokens |-> l.capacity, capacity |-> l.capacity, rate |-> l.rate, last |-> t]
      BY <2>9 DEF FilledUp
    <3> QED BY <3>1
  <2>10. CASE l.tokens + a < l.capacity /\ r \in TopUp(l, t, a)
    <3>1. PICK q \in Products(a * NsPerSec) :
            r = [l EXCEPT !.tokens = @ + a, !.last = @ + Quotient(q, l.rate)]
      BY <2>10 DEF TopUp
    <3>2. a * NsPerSec \in Nat
      BY <2>2, <2>8, SMT
    <3>3. q \in Int /\ q <= a * NsPerSec
      BY <3>1, <3>2, ProductsBounded
    <3>4. q <= e * l.rate
      BY <2>3, <2>5, <2>8, <3>2, <3>3, SMT
    <3>5. Quotient(q, l.rate) \in Int /\ Quotient(q, l.rate) <= e
      BY <2>2, <3>3, <3>4, QuotientBounded
    <3>6. r = [tokens |-> l.tokens + a, capacity |-> l.capacity,
               rate |-> l.rate, last |-> l.last + Quotient(q, l.rate)]
      BY <3>1
    <3> HIDE DEF a
    <3> QED BY <2>8, <2>10, <3>5, <3>6, SMT
  <2>11. l.tokens + a >= l.capacity => r = FilledUp(l, t)
    BY <2>4, <2>6, <2>8 DEF Credited
  <2>12. ~(l.tokens + a >= l.capacity) => r \in TopUp(l, t, a)
    BY <2>4, <2>6, <2>8 DEF Credited
  <2> HIDE DEF a
  <2> QED BY <2>8, <2>9, <2>10, <2>11, <2>12, SMT
<1> QED BY <1>1, <1>2

\* Charges and advice have the types the callers rely on.
LEMMA CostNat ==
  ASSUME NEW bytes \in PacketSizes
  PROVE  Cost(bytes) \in Nat
BY RateLimiterConstants, LimiterConstants, DivBounds DEF Cost

\* The advice for a charge is between 0 and MaxWait.
LEMMA WaitForType ==
  ASSUME NEW l \in Limiter, NEW bytes \in PacketSizes
  PROVE  WaitFor(l, bytes) \in 0 .. MaxWait
<1> DEFINE d == Cost(bytes) - l.tokens
<1>1. Cost(bytes) \in Nat /\ l.tokens \in Int /\ l.rate \in Nat
  BY CostNat DEF Limiter
<1>2. MinWait \in Nat /\ MaxWait \in Nat /\ UsPerSec \in Nat
  BY LimiterConstants
<1>3. CASE l.tokens >= Cost(bytes)
  BY <1>2, <1>3 DEF WaitFor
<1>4. CASE ~(l.tokens >= Cost(bytes))
  <2>1. d \in Nat
    BY <1>1, <1>4, SMT
  <2>2. d * UsPerSec \in Nat
    BY <1>2, <2>1, SMT
  <2>3. RepayTime(l, d) \in Nat
    BY <1>1, <2>2, DivBounds DEF RepayTime
  <2>4. WaitFor(l, bytes) = Advice(RepayTime(l, d))
    BY <1>4 DEF WaitFor
  <2> HIDE DEF d
  <2> QED BY <1>2, <2>3, <2>4, SMT DEF Advice
<1> QED BY <1>3, <1>4

\* A bucket's capacity is a number.
LEMMA CapacityNat ==
  ASSUME NEW bps \in Nat
  PROVE  CapacityOf(bps) \in Nat
BY LimiterConstants, DivBounds DEF CapacityOf

-----------------------------------------------------------------------------

\* The inductive invariant: the three parts need one another only through
\* TypeOK and the two that Refilled needs of the limiter it starts from.
IInv == TypeOK /\ BurstCapped /\ ClockNotAhead

\* A bucket that starts full satisfies the invariant.
LEMMA InitIInv == Init => IInv
<1> SUFFICES ASSUME Init PROVE IInv
  OBVIOUS
<1>1. InitialRate \in Nat
  BY RateLimiterConstants
<1>2. CapacityOf(InitialRate) \in Nat
  BY <1>1, CapacityNat
<1> QED BY <1>1, <1>2 DEF Init, IInv, TypeOK, BurstCapped, ClockNotAhead,
                          InitLimiter, Limiter, Results

\* rate_limiter_update: the resized bucket spills what no longer fits.
LEMMA UpdateIInv ==
  ASSUME IInv, NEW bps \in Rates, Update(bps)
  PROVE  IInv'
<1> DEFINE cap == CapacityOf(bps)
<1>1. bps \in Nat
  BY RateLimiterConstants
<1>2. cap \in Nat
  BY <1>1, CapacityNat
<1>3. rl \in Limiter /\ now \in Nat
  BY DEF IInv, TypeOK
<1>4. rl' = [tokens |-> IF rl.tokens > cap THEN cap ELSE rl.tokens,
             capacity |-> cap, rate |-> bps, last |-> rl.last]
  BY <1>3 DEF Update, Updated, Limiter
<1>5. rl' \in Limiter /\ rl'.tokens <= rl'.capacity /\ rl'.last = rl.last
  <2> HIDE DEF cap
  <2> QED BY <1>1, <1>2, <1>3, <1>4 DEF Limiter
<1>6. ret' \in Results
  BY DEF Update, Results
<1> QED BY <1>3, <1>5, <1>6 DEF Update, IInv, TypeOK, BurstCapped, ClockNotAhead

\* rate_limiter_consume: a refill, and a charge that only lowers the tokens.
LEMMA ConsumeIInv ==
  ASSUME IInv, NEW bytes \in PacketSizes, Consume(bytes)
  PROVE  IInv'
<1>1. PICK r \in Refilled(rl, now) :
        /\ rl' = Charged(r, bytes)
        /\ ret' = [op |-> "consume", cost |-> Cost(bytes), answer |-> WaitFor(r, bytes)]
  BY DEF Consume
<1>2. r \in Limiter /\ r.tokens <= r.capacity /\ r.last <= now
  BY RefilledSafe DEF IInv, TypeOK, BurstCapped, ClockNotAhead
<1>3. Cost(bytes) \in Nat
  BY CostNat
<1>4. rl' \in Limiter /\ rl'.tokens <= rl'.capacity /\ rl'.last = r.last
  BY <1>1, <1>2, <1>3 DEF Charged, Limiter
<1>5. ret' \in Results
  BY <1>1, <1>2, <1>3, WaitForType DEF Results
<1> QED BY <1>2, <1>4, <1>5 DEF Consume, IInv, TypeOK, BurstCapped, ClockNotAhead

\* rate_limiter_available: a refill alone.
LEMMA AvailableIInv == IInv /\ Available => IInv'
<1> SUFFICES ASSUME IInv, Available PROVE IInv'
  OBVIOUS
<1>1. PICK r \in Refilled(rl, now) :
        /\ rl' = r
        /\ ret' = [op |-> "available", cost |-> 0, answer |-> r.tokens]
  BY DEF Available
<1>2. r \in Limiter /\ r.tokens <= r.capacity /\ r.last <= now
  BY RefilledSafe DEF IInv, TypeOK, BurstCapped, ClockNotAhead
<1>3. ret' \in Results
  BY <1>1, <1>2 DEF Results, Limiter
<1> QED BY <1>1, <1>2, <1>3 DEF Available, IInv, TypeOK, BurstCapped, ClockNotAhead

\* One step preserves the invariant.
LEMMA NextIInv == IInv /\ [Next]_vars => IInv'
<1> SUFFICES ASSUME IInv, [Next]_vars PROVE IInv'
  OBVIOUS
<1>1. CASE Tick
  BY <1>1 DEF Tick, IInv, TypeOK, BurstCapped, ClockNotAhead, Limiter
<1>2. ASSUME NEW bps \in Rates, Update(bps) PROVE IInv'
  BY <1>2, UpdateIInv
<1>3. ASSUME NEW bytes \in PacketSizes, Consume(bytes) PROVE IInv'
  BY <1>3, ConsumeIInv
<1>4. CASE Available
  BY <1>4, AvailableIInv
<1>5. CASE UNCHANGED vars
  BY <1>5 DEF vars, IInv, TypeOK, BurstCapped, ClockNotAhead
<1> QED BY <1>1, <1>2, <1>3, <1>4, <1>5 DEF Next

\* The invariant holds in every reachable state.
LEMMA SpecIInv == Spec => []IInv
BY InitIInv, NextIInv, PTL DEF Spec

\* Every state and every answer of the limiter has its type; in particular the
\* advice of rate_limiter_consume never exceeds the 50 ms cap.
THEOREM TypeCorrect == Spec => []TypeOK
<1>1. IInv => TypeOK
  BY DEF IInv
<1> QED BY <1>1, SpecIInv, PTL

\* The bucket never holds more than the burst of the current rate, and
\* last_refill_ns never passes CLOCK_MONOTONIC: no time is credited before it
\* has passed, even when a product wraps.
THEOREM StaysWithinBounds == Spec => []WithinBounds
<1>1. IInv => WithinBounds
  BY DEF IInv, WithinBounds
<1> QED BY <1>1, SpecIInv, PTL

-----------------------------------------------------------------------------

\* A refill whose product fits gives a = e * rate / NsPerSec tokens, rounded
\* down, and pays for them with the clock; or it fills the bucket.
LEMMA RefilledExact ==
  ASSUME NEW l \in Limiter, NEW t \in Nat, l.last <= t, l.rate > 0,
         (t - l.last) * l.rate <= WordMax,
         NEW r \in Refilled(l, t)
  PROVE  \/ /\ r = l
            /\ (t - l.last) * l.rate < NsPerSec
         \/ r.tokens = l.capacity /\ r.last = t
         \/ \E a \in Nat, q \in Nat :
              /\ r.tokens = l.tokens + a
              /\ r.last = l.last + q
              /\ a * NsPerSec <= (t - l.last) * l.rate
              /\ (t - l.last) * l.rate < (a + 1) * NsPerSec
              /\ q * l.rate <= a * NsPerSec
              /\ a * NsPerSec < (q + 1) * l.rate
<1> DEFINE e == t - l.last
           p == e * l.rate
           a == p \div NsPerSec
           q == (a * NsPerSec) \div l.rate
<1>1. e \in Nat /\ l.rate \in Nat \ {0} /\ NsPerSec \in Nat \ {0} /\ l.last \in Int
  BY LimiterConstants DEF Limiter
<1>2. p \in Nat
  BY <1>1, SMT
<1>3. a \in Nat /\ a * NsPerSec <= p /\ p < (a + 1) * NsPerSec
  BY <1>1, <1>2, DivBounds
<1>4. a * NsPerSec \in Nat /\ a * NsPerSec <= WordMax
  <2>1. WordMax \in Nat
    BY LimiterConstants
  <2> HIDE DEF a
  <2> QED BY <1>1, <1>2, <1>3, <2>1, SMT
<1>5. q \in Nat /\ q * l.rate <= a * NsPerSec /\ a * NsPerSec < (q + 1) * l.rate
  BY <1>1, <1>4, DivBounds
<1>6. CASE t > l.last
  <2>1. Quotient(p, NsPerSec) = a
    BY <1>2 DEF Quotient
  <2>2. r \in Credited(l, t, a)
    BY <1>2, <1>6, <2>1, ProductsExact DEF Refilled
  <2>3. CASE a <= 0
    <3>1. r = l
      BY <2>2, <2>3 DEF Credited
    <3>2. a = 0
      BY <1>3, <2>3, SMT
    <3> HIDE DEF a
    <3>3. (a + 1) * NsPerSec = NsPerSec
      BY <1>1, <3>2, SMT
    <3> QED BY <1>3, <3>1, <3>3
  <2>4. CASE ~(a <= 0) /\ l.tokens + a >= l.capacity
    <3>1. r = FilledUp(l, t)
      BY <2>2, <2>4 DEF Credited
    <3> QED BY <3>1 DEF FilledUp, Limiter
  <2>5. CASE ~(a <= 0) /\ ~(l.tokens + a >= l.capacity)
    <3>1. r \in TopUp(l, t, a)
      BY <2>2, <2>5 DEF Credited
    <3>2. Products(a * NsPerSec) = {a * NsPerSec}
      BY <1>4, ProductsExact
    <3>3. Quotient(a * NsPerSec, l.rate) = q
      BY <1>4 DEF Quotient
    <3>4. r = [l EXCEPT !.tokens = @ + a, !.last = @ + q]
      BY <3>1, <3>2, <3>3 DEF TopUp
    <3>5. r.tokens = l.tokens + a /\ r.last = l.last + q
      BY <3>4 DEF Limiter
    <3> QED BY <1>3, <1>5, <3>5
  <2> QED BY <2>3, <2>4, <2>5
<1>7. CASE ~(t > l.last)
  <2>1. r = l
    BY <1>7 DEF Refilled
  <2>2. e = 0
    BY <1>1, <1>7, SMT
  <2>3. p = 0
    BY <1>1, <2>2, SMT
  <2> QED BY <1>1, <2>1, <2>3
<1> QED BY <1>6, <1>7

\* Every step that answers a caller is a refill of rl, then a charge.
LEMMA RefillStepRefills ==
  ASSUME IInv, Next, RefillStep
  PROVE  \E r \in Refilled(rl, now) :
           /\ rl'.last = r.last
           /\ rl'.tokens = r.tokens - ret'.cost
           /\ Gain = r.tokens - rl.tokens
<1> DEFINE Goal == \E r \in Refilled(rl, now) :
                     /\ rl'.last = r.last
                     /\ rl'.tokens = r.tokens - ret'.cost
                     /\ Gain = r.tokens - rl.tokens
<1>1. now \in Nat /\ rl.tokens \in Int
  BY DEF IInv, TypeOK, Limiter
<1>2. ~Tick
  BY <1>1, SMT DEF Tick, RefillStep
<1>3. ASSUME NEW bps \in Rates, Update(bps) PROVE Goal
  BY <1>3 DEF Update, RefillStep
<1>4. ASSUME NEW bytes \in PacketSizes, Consume(bytes) PROVE Goal
  <2>1. PICK r \in Refilled(rl, now) :
          /\ rl' = Charged(r, bytes)
          /\ ret' = [op |-> "consume", cost |-> Cost(bytes), answer |-> WaitFor(r, bytes)]
    BY <1>4 DEF Consume
  <2>2. r \in Limiter /\ Cost(bytes) \in Nat
    BY RefilledSafe, CostNat DEF IInv, TypeOK, BurstCapped, ClockNotAhead
  <2>3. ret'.cost = Cost(bytes)
    BY <2>1
  <2>4. rl'.last = r.last /\ rl'.tokens = r.tokens - ret'.cost
    BY <2>1, <2>2, <2>3 DEF Charged, Limiter
  <2>5. Gain = r.tokens - rl.tokens
    <3>1. r.tokens \in Int
      BY <2>2 DEF Limiter
    <3> QED BY <1>1, <2>2, <2>3, <2>4, <3>1 DEF Gain
  <2> QED BY <2>4, <2>5
<1>5. CASE Available
  <2>1. PICK r \in Refilled(rl, now) :
          /\ rl' = r
          /\ ret' = [op |-> "available", cost |-> 0, answer |-> r.tokens]
    BY <1>5 DEF Available
  <2>2. r.tokens \in Int
    BY RefilledSafe DEF IInv, TypeOK, BurstCapped, ClockNotAhead, Limiter
  <2>3. ret'.cost = 0
    BY <2>1
  <2>4. rl'.tokens = r.tokens - ret'.cost /\ Gain = r.tokens - rl.tokens
    BY <1>1, <2>1, <2>2, <2>3 DEF Gain
  <2> QED BY <2>1, <2>4
<1> QED BY <1>2, <1>3, <1>4, <1>5 DEF Next

\* From a state of the invariant every step is a RefillExactStep.
LEMMA RefillExactNext ==
  IInv /\ [Next]_vars => [RefillExactStep]_vars
<1> SUFFICES ASSUME IInv, Next, RefillStep, rl.rate > 0, ProductFits,
                    rl.tokens + Gain < rl.capacity
             PROVE  /\ (rl'.last - rl.last) * rl.rate <= Gain * NsPerSec
                    /\ Gain * NsPerSec < (rl'.last - rl.last + 1) * rl.rate
  BY DEF RefillExactStep
<1>1. PICK r \in Refilled(rl, now) :
        rl'.last = r.last /\ Gain = r.tokens - rl.tokens
  BY RefillStepRefills
<1>2. rl \in Limiter /\ now \in Nat /\ rl.last <= now
  BY DEF IInv, TypeOK, ClockNotAhead
<1>3. /\ rl.tokens \in Int /\ rl.last \in Int /\ rl.rate \in Nat \ {0}
      /\ rl.capacity \in Nat /\ NsPerSec \in Nat \ {0}
  BY <1>2, LimiterConstants DEF Limiter
<1>4. CASE r = rl
  <2>1. Gain = 0 /\ rl'.last - rl.last = 0
    BY <1>1, <1>3, <1>4, SMT
  <2> QED BY <1>3, <2>1, SMT
<1>5. CASE r.tokens = rl.capacity
  BY <1>1, <1>3, <1>5, SMT
<1>6. ASSUME NEW a \in Nat, NEW q \in Nat,
             r.tokens = rl.tokens + a, r.last = rl.last + q,
             q * rl.rate <= a * NsPerSec, a * NsPerSec < (q + 1) * rl.rate
      PROVE  /\ (rl'.last - rl.last) * rl.rate <= Gain * NsPerSec
             /\ Gain * NsPerSec < (rl'.last - rl.last + 1) * rl.rate
  <2>1. Gain = a /\ rl'.last - rl.last = q
    BY <1>1, <1>3, <1>6, SMT
  <2> QED BY <1>6, <2>1
<1> QED BY <1>2, <1>4, <1>5, <1>6, RefilledExact DEF ProductFits

\* From a state of the invariant every step is a SteadyRefillStep.
LEMMA SteadyRefillNext ==
  IInv /\ [Next]_vars => [SteadyRefillStep]_vars
<1> SUFFICES ASSUME IInv, Next, RefillStep, rl.rate > 0, ProductFits
             PROVE  (now - rl'.last) * rl.rate < NsPerSec + rl.rate
  BY DEF SteadyRefillStep
<1>1. PICK r \in Refilled(rl, now) : rl'.last = r.last
  BY RefillStepRefills
<1>2. rl \in Limiter /\ now \in Nat /\ rl.last <= now
  BY DEF IInv, TypeOK, ClockNotAhead
<1>3. rl.last \in Int /\ rl.rate \in Nat \ {0} /\ NsPerSec \in Nat \ {0}
  BY <1>2, LimiterConstants DEF Limiter
<1>4. CASE r = rl /\ (now - rl.last) * rl.rate < NsPerSec
  BY <1>1, <1>2, <1>3, <1>4, SMT
<1>5. CASE r.last = now
  <2>1. now - rl'.last = 0
    BY <1>1, <1>2, <1>5, SMT
  <2> QED BY <1>3, <2>1, SMT
<1>6. ASSUME NEW a \in Nat, NEW q \in Nat, r.last = rl.last + q,
             (now - rl.last) * rl.rate < (a + 1) * NsPerSec,
             a * NsPerSec < (q + 1) * rl.rate
      PROVE  (now - rl'.last) * rl.rate < NsPerSec + rl.rate
  <2>1. now - rl'.last = (now - rl.last) - q
    BY <1>1, <1>2, <1>3, <1>6, SMT
  <2>2. (now - rl'.last) * rl.rate = (now - rl.last) * rl.rate - q * rl.rate
    BY <1>2, <1>3, <2>1, SMT
  <2> QED BY <1>2, <1>3, <1>6, <2>2, SMT
<1> QED BY <1>2, <1>4, <1>5, <1>6, RefilledExact DEF ProductFits

\* A call whose product does not overflow, and that does not fill the bucket,
\* pays for the tokens with the clock to within one clock unit.
THEOREM RefillIsExact == Spec => RefillExact
BY SpecIInv, RefillExactNext, PTL DEF Spec, RefillExact

\* A call whose product does not overflow leaves at most a token and a clock
\* unit uncredited.
THEOREM RefillIsSteady == Spec => SteadyRefill
BY SpecIInv, SteadyRefillNext, PTL DEF Spec, SteadyRefill

-----------------------------------------------------------------------------

\* What the advised wait says of the debt d that a charge leaves.
LEMMA WaitForMeans ==
  ASSUME NEW l \in Limiter, l.rate > 0, NEW bytes \in PacketSizes,
         NEW d \in Int, d = Cost(bytes) - l.tokens,
         NEW w, w = WaitFor(l, bytes)
  PROVE  /\ w = 0 => d <= 0 \/ d * UsPerSec < MinWait * l.rate
         /\ 0 < w /\ w < MaxWait =>
              /\ w * l.rate <= d * UsPerSec
              /\ d * UsPerSec < (w + 1) * l.rate
<1>1. Cost(bytes) \in Nat /\ l.tokens \in Int /\ l.rate \in Nat \ {0}
  BY CostNat DEF Limiter
<1>2. MinWait \in Nat \ {0} /\ MaxWait \in Nat \ {0} /\ UsPerSec \in Nat \ {0}
  BY LimiterConstants
<1>3. CASE l.tokens >= Cost(bytes)
  <2>1. w = 0 /\ d <= 0
    BY <1>1, <1>3, SMT DEF WaitFor
  <2> QED BY <2>1, SMT
<1>4. CASE ~(l.tokens >= Cost(bytes))
  <2> DEFINE p == d * UsPerSec
             t == p \div l.rate
  <2>1. p \in Nat
    <3>1. d \in Nat
      BY <1>1, <1>4, SMT
    <3> QED BY <1>2, <3>1, SMT
  <2>2. t \in Nat /\ t * l.rate <= p /\ p < (t + 1) * l.rate
    BY <1>1, <2>1, DivBounds
  <2>3. w = Advice(t)
    BY <1>1, <1>4 DEF WaitFor, RepayTime
  <2>4. ASSUME w = 0 PROVE p < MinWait * l.rate
    <3> HIDE DEF t
    <3>1. t + 1 <= MinWait
      BY <1>2, <2>2, <2>3, <2>4, SMT DEF Advice
    <3>2. (t + 1) * l.rate <= MinWait * l.rate
      BY <1>1, <1>2, <2>2, <3>1, SMT
    <3> HIDE DEF p
    <3> QED BY <1>1, <1>2, <2>1, <2>2, <3>2, SMT
  <2>5. ASSUME 0 < w, w < MaxWait PROVE w = t
    <3> HIDE DEF t
    <3> QED BY <1>2, <2>2, <2>3, <2>5, SMT DEF Advice
  <2> HIDE DEF t
  <2> QED BY <2>2, <2>4, <2>5
<1> QED BY <1>3, <1>4

\* From a state of the invariant every step is a WaitRepaysDebtStep.
LEMMA WaitRepaysDebtNext ==
  IInv /\ [Next]_vars => [WaitRepaysDebtStep]_vars
<1> SUFFICES ASSUME IInv, Next, RefillStep, ret'.op = "consume", rl.rate > 0
             PROVE  WaitRepaysDebtStep
  BY DEF WaitRepaysDebtStep
<1>1. rl \in Limiter /\ now \in Nat /\ rl.last <= now /\ rl.tokens <= rl.capacity
  BY DEF IInv, TypeOK, BurstCapped, ClockNotAhead
<1>2. ~Tick
  BY <1>1, SMT DEF Tick, RefillStep
<1>3. ASSUME NEW bps \in Rates PROVE ~Update(bps)
  BY DEF Update, RefillStep
<1>4. ~Available
  BY DEF Available
<1>5. PICK bytes \in PacketSizes : Consume(bytes)
  BY <1>2, <1>3, <1>4 DEF Next
<1>6. PICK r \in Refilled(rl, now) :
        /\ rl' = Charged(r, bytes)
        /\ ret' = [op |-> "consume", cost |-> Cost(bytes), answer |-> WaitFor(r, bytes)]
  BY <1>5 DEF Consume
<1>7. r \in Limiter /\ r.rate = rl.rate
  BY <1>1, RefilledSafe
<1>8. Cost(bytes) \in Nat /\ r.tokens \in Int
  BY <1>7, CostNat DEF Limiter
<1>9. rl'.tokens = r.tokens - Cost(bytes)
  BY <1>6, <1>7 DEF Charged, Limiter
<1> DEFINE d == -rl'.tokens
<1>10. d \in Int /\ d = Cost(bytes) - r.tokens
  BY <1>8, <1>9, SMT
<1>11. ret'.answer = WaitFor(r, bytes)
  BY <1>6
<1> HIDE DEF d
<1>12. /\ ret'.answer = 0 => d <= 0 \/ d * UsPerSec < MinWait * rl.rate
       /\ 0 < ret'.answer /\ ret'.answer < MaxWait =>
            /\ ret'.answer * rl.rate <= d * UsPerSec
            /\ d * UsPerSec < (ret'.answer + 1) * rl.rate
  BY <1>7, <1>10, <1>11, WaitForMeans
<1> QED BY <1>12 DEF WaitRepaysDebtStep, d

\* The answer of every rate_limiter_consume says what debt it leaves: 0 less
\* than the batching threshold is worth, a wait below the cap what is earned in
\* it, to within one wait unit.
THEOREM WaitIsTheDebt == Spec => WaitRepaysDebt
BY SpecIInv, WaitRepaysDebtNext, PTL DEF Spec, WaitRepaysDebt

=============================================================================
