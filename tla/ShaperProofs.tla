----------------------------- MODULE ShaperProofs -----------------------------
(***************************************************************************)
(* Proofs about Shaper for every set of rates, packet size, buffer and     *)
(* longest sleep: the types, and that neither limiter's debt grows without *)
(* bound.                                                                  *)
(*                                                                         *)
(* The bounds need what the code does not provide for: that every rate     *)
(* earns one MTU during the longest sleep (300 kB/s for a download), and   *)
(* that the products of a refill fit their type.                           *)
(***************************************************************************)
EXTENDS Shaper, TLAPS

Earns(sleep) == \A r \in Rates : sleep * r >= Mtu * NsPerSec
ProductsFit == \A r \in Rates : MaxIdle * r <= WordMax

-----------------------------------------------------------------------------
(***************************************************************************)
(* Arithmetic.                                                             *)
(***************************************************************************)

\* The constants, for the steps that need a few of them.
LEMMA Constants ==
  /\ NsPerSec \in Nat /\ NsPerSec > 0 /\ UsPerSec = NsPerSec
  /\ BurstDivisor \in Nat \ {0} /\ MinCapacity \in Nat /\ MinCapacity > 0
  /\ MinWait \in Nat /\ MinWait > 0 /\ MaxWait \in Nat /\ DlMaxSleep \in Nat
  /\ MinWait <= DlMaxSleep /\ DlMaxSleep <= MaxWait
  /\ Mtu \in Nat /\ Mtu > 0 /\ BufSize \in Nat /\ BufSize >= Mtu
  /\ SmallPktThreshold \in Nat /\ WordMax \in Nat /\ MaxIdle \in Nat
  /\ Rates \subseteq Nat /\ InitialRate \in Rates /\ UlSizes \subseteq 1 .. Mtu
  BY LimiterConstants, ShaperConstants

\* What integer division returns.
LEMMA Division ==
  ASSUME NEW a \in Nat, NEW b \in Nat, b > 0
  PROVE  a \div b \in Nat /\ (a \div b) * b <= a /\ a < (a \div b + 1) * b
  <1>1. a \div b \in Nat
    OBVIOUS
  <1>2. a = b * (a \div b) + (a % b) /\ 0 <= a % b /\ a % b < b
    OBVIOUS
  <1> QED
    BY <1>1, <1>2

\* C division of integers is an integer.
LEMMA QuotientType ==
  ASSUME NEW a \in Int, NEW b \in Nat, b > 0
  PROVE  Quotient(a, b) \in Int
  <1>1. CASE a >= 0
    BY <1>1, Division DEF Quotient
  <1>2. CASE ~(a >= 0)
    <2>1. -a \in Nat
      BY <1>2
    <2>2. (-a) \div b \in Nat
      BY <2>1, Division
    <2> QED
      BY <1>2, <2>2 DEF Quotient
  <1> QED
    BY <1>1, <1>2

\* What the machine holds after a multiplication, wrapped or not.
LEMMA ProductType ==
  ASSUME NEW x \in Nat, NEW p \in Products(x)
  PROVE  p \in Int /\ (x <= WordMax => p = x)
  <1>1. WordSize \in Nat /\ WordSize > 0
    BY Constants DEF WordSize
  <1>2. x % WordSize \in Int
    BY <1>1
  <1> QED
    BY <1>1, <1>2 DEF Products, SignedWord

\* Two products in the order of their factors.
LEMMA ProductOrder ==
  ASSUME NEW a \in Nat, NEW b \in Nat, NEW c \in Nat, a <= b
  PROVE  a * c <= b * c /\ a * c \in Nat /\ b * c \in Nat
  OBVIOUS

\* ... and the order of two factors from that of their products.
LEMMA FactorOrder ==
  ASSUME NEW a \in Nat, NEW b \in Nat, NEW c \in Nat, a * c < b * c
  PROVE  a < b
  OBVIOUS

\* The greater of two numbers.
LEMMA MaxOfTwo ==
  ASSUME NEW a \in Int, NEW b \in Int
  PROVE  Max({a, b}) \in {a, b} /\ Max({a, b}) >= a /\ Max({a, b}) >= b
  <1>1. \E x \in {a, b} : \A y \in {a, b} : x >= y
    OBVIOUS
  <1> QED
    BY <1>1 DEF Max

\* The highest rate.
LEMMA MaxOfRates ==
  Max(Rates) \in Rates /\ \A r \in Rates : Max(Rates) >= r
  <1>1. \E x \in Rates : \A y \in Rates : x >= y
    BY ShaperConstants
  <1> QED
    BY <1>1 DEF Max

-----------------------------------------------------------------------------
(***************************************************************************)
(* The limiter.                                                            *)
(***************************************************************************)

\* A bucket holds at least MinCapacity.
LEMMA CapacityType ==
  ASSUME NEW bps \in Nat
  PROVE  CapacityOf(bps) \in Nat /\ CapacityOf(bps) > 0
  <1>1. bps \div BurstDivisor \in Nat
    BY Constants, Division
  <1> QED
    BY <1>1, Constants DEF CapacityOf

\* A refill keeps the rate and the capacity, whatever its products become.
LEMMA RefilledType ==
  ASSUME NEW l \in Limiter, NEW r \in Refilled(l, Clock)
  PROVE  r \in Limiter /\ r.rate = l.rate /\ r.capacity = l.capacity
  <1>1. CASE r = l
    BY <1>1
  <1>2. CASE r # l
    <2> DEFINE e == Clock - l.last
    <2>0. /\ l.tokens \in Int /\ l.capacity \in Nat /\ l.rate \in Nat /\ l.last \in Int
          /\ e \in Nat /\ Clock \in Int
      <3>1. Clock > l.last
        BY <1>2 DEF Refilled
      <3> QED
        BY <3>1 DEF Limiter, Clock
    <2>1. l.rate > 0 /\ \E p \in Products(e * l.rate) : r \in Credited(l, Clock, Quotient(p, NsPerSec))
      BY <1>2 DEF Refilled
    <2>2. PICK p \in Products(e * l.rate) : r \in Credited(l, Clock, Quotient(p, NsPerSec))
      BY <2>1
    <2>3. e * l.rate \in Nat
      BY <2>0
    <2>4. p \in Int
      BY <2>3, ProductType
    <2> DEFINE a == Quotient(p, NsPerSec)
    <2>5. a \in Int
      BY <2>4, QuotientType, Constants
    <2> HIDE DEF a, e
    <2>6. a > 0
      BY <1>2, <2>2, <2>5 DEF Credited, a
    <2>7. CASE r = FilledUp(l, Clock)
      <3>1. r = [tokens |-> l.capacity, capacity |-> l.capacity, rate |-> l.rate,
                 last |-> Clock]
        BY <2>7 DEF FilledUp, Limiter
      <3> QED
        BY <2>0, <3>1 DEF Limiter
    <2>8. CASE r \in TopUp(l, Clock, a)
      <3>1. PICK q \in Products(a * NsPerSec) :
              r = [l EXCEPT !.tokens = @ + a, !.last = @ + Quotient(q, l.rate)]
        BY <2>8 DEF TopUp
      <3>2. a * NsPerSec \in Nat
        BY <2>5, <2>6, Constants
      <3>3. Quotient(q, l.rate) \in Int
        BY <2>0, <2>1, <3>1, <3>2, ProductType, QuotientType
      <3>4. r = [tokens |-> l.tokens + a, capacity |-> l.capacity,
                 rate |-> l.rate, last |-> l.last + Quotient(q, l.rate)]
        BY <3>1 DEF Limiter
      <3> QED
        BY <2>0, <2>5, <3>3, <3>4 DEF Limiter
    <2> QED
      BY <2>2, <2>6, <2>7, <2>8 DEF Credited, a
  <1> QED
    BY <1>1, <1>2

\* A refill whose products fit takes no token away and moves the clock on to
\* Clock at most; it fills the bucket, or credits all whole tokens earned.
LEMMA RefilledEarns ==
  ASSUME NEW l \in Limiter, l.last <= Clock, l.rate > 0, (Clock - l.last) * l.rate <= WordMax,
         NEW r \in Refilled(l, Clock)
  PROVE  /\ r.last >= l.last /\ r.last <= Clock /\ r.last \in Int
         /\ \/ r.tokens = l.capacity
            \/ \E a \in Nat : r.tokens = l.tokens + a /\ (Clock - l.last) * l.rate < (a + 1) * NsPerSec
         /\ r.tokens >= l.tokens \/ r.tokens = l.capacity
  <1> DEFINE e == Clock - l.last
             p == e * l.rate
             a == p \div NsPerSec
             g == a * NsPerSec
             q == g \div l.rate
  <1>0. /\ l.tokens \in Int /\ l.capacity \in Nat /\ l.rate \in Nat /\ l.last \in Int
        /\ e \in Nat /\ Clock = 0
    BY DEF Limiter, Clock
  <1>1. p \in Nat /\ p <= WordMax
    BY <1>0
  <1> HIDE DEF p
  <1>2. a \in Nat /\ g <= p /\ p < (a + 1) * NsPerSec
    BY <1>1, Division, Constants
  <1> HIDE DEF a
  <1>3. g \in Nat /\ g <= WordMax
    BY <1>1, <1>2, Constants
  <1> HIDE DEF g
  <1>4. q \in Nat /\ q * l.rate <= g
    BY <1>0, <1>3, Division
  <1> HIDE DEF q, e
  <1>5. q <= e
    <2>1. q * l.rate <= e * l.rate
      BY <1>0, <1>1, <1>2, <1>3, <1>4 DEF p
    <2> QED
      BY <1>0, <1>4, <2>1
  <1>6. CASE ~(l.last < Clock)
    <2>1. r = l
      BY <1>6 DEF Refilled
    <2>2. e = 0
      BY <1>0, <1>6 DEF e
    <2>3. p = 0
      BY <1>0, <2>2 DEF p
    <2>4. r.tokens = l.tokens + 0 /\ p < (0 + 1) * NsPerSec
      BY <1>0, <2>1, <2>3, Constants
    <2> QED
      BY <1>0, <2>1, <2>4 DEF p, e
  <1>7. ASSUME l.last < Clock
        PROVE  r \in Credited(l, Clock, a)
    <2>1. r \in UNION {Credited(l, Clock, Quotient(x, NsPerSec)) : x \in Products(p)}
      BY <1>7 DEF Refilled, p, e
    <2>2. Products(p) = {p} /\ Quotient(p, NsPerSec) = a
      BY <1>1 DEF Products, Quotient, a
    <2> QED
      BY <2>1, <2>2
  <1>8. CASE l.last < Clock /\ a = 0
    <2>1. r = l
      BY <1>7, <1>8 DEF Credited
    <2>2. r.tokens = l.tokens + a /\ (Clock - l.last) * l.rate < (a + 1) * NsPerSec
      BY <1>0, <1>2, <1>8, <2>1 DEF p, e
    <2> QED
      BY <1>0, <1>2, <2>1, <2>2
  <1>9. CASE l.last < Clock /\ a # 0
    <2>1. r \in Credited(l, Clock, a)
      BY <1>7, <1>9
    <2>2. a > 0
      BY <1>2, <1>9
    <2>3. CASE l.tokens + a >= l.capacity
      <3>1. r = FilledUp(l, Clock)
        BY <1>0, <1>2, <2>1, <2>2, <2>3 DEF Credited
      <3>2. r.tokens = l.capacity /\ r.last = Clock
        BY <3>1 DEF FilledUp, Limiter
      <3> QED
        BY <1>0, <3>2
    <2>4. CASE ~(l.tokens + a >= l.capacity)
      <3>1. r \in TopUp(l, Clock, a)
        BY <1>0, <1>2, <2>1, <2>2, <2>4 DEF Credited
      <3>2. Products(a * NsPerSec) = {g} /\ Quotient(g, l.rate) = q
        BY <1>3 DEF Products, Quotient, g, q
      <3>3. r = [l EXCEPT !.tokens = @ + a, !.last = @ + q]
        BY <3>1, <3>2 DEF TopUp
      <3>4. r.tokens = l.tokens + a /\ r.last = l.last + q
        BY <3>3 DEF Limiter
      <3>5. l.last + q >= l.last /\ l.last + q <= Clock
        BY <1>0, <1>4, <1>5 DEF e
      <3>6. (Clock - l.last) * l.rate < (a + 1) * NsPerSec
        BY <1>2 DEF p, e
      <3> QED
        BY <1>0, <1>2, <1>4, <3>4, <3>5, <3>6
    <2> QED
      BY <2>3, <2>4
  <1> QED
    BY <1>6, <1>8, <1>9

\* ... as a number.
LEMMA HighestRate == Max(Rates) \in Nat
  BY MaxOfRates, Constants

\* What a packet is charged.
LEMMA CostType ==
  ASSUME NEW bytes \in Nat
  PROVE  Cost(bytes) \in Nat /\ (bytes > 0 => Cost(bytes) <= bytes)
  <1>1. bytes \div 2 \in Nat /\ (bytes > 0 => bytes \div 2 + 1 <= bytes)
    OBVIOUS
  <1> QED
    BY <1>1 DEF Cost

\* No advice is longer than MaxWait; and it is at least s when the debt is what
\* the highest rate earns in s.
LEMMA WaitForBounds ==
  ASSUME NEW l \in Limiter, NEW bytes \in Nat
  PROVE  /\ WaitFor(l, bytes) \in 0 .. MaxWait
         /\ \A s \in MinWait .. MaxWait :
              l.rate \in Rates /\ l.rate > 0 /\ Cost(bytes) - l.tokens >= EarnedIn(s) =>
                WaitFor(l, bytes) >= s
  <1> DEFINE d == Cost(bytes) - l.tokens
             t == RepayTime(l, d)
             p == d * UsPerSec
  <1>0. /\ Cost(bytes) \in Nat /\ l.tokens \in Int /\ l.rate \in Nat
        /\ MinWait \in Nat /\ MinWait > 0 /\ MaxWait \in Nat
        /\ NsPerSec \in Nat /\ NsPerSec > 0 /\ UsPerSec = NsPerSec
    BY CostType, Constants DEF Limiter
  <1>1. CASE l.tokens >= Cost(bytes)
    <2>1. WaitFor(l, bytes) = 0
      BY <1>1 DEF WaitFor
    <2>2. ASSUME NEW s \in MinWait .. MaxWait
          PROVE  ~(d >= EarnedIn(s))
      <3>1. s \in Nat /\ Max(Rates) \in Nat
        BY <1>0, HighestRate
      <3>2. s * Max(Rates) \in Nat
        BY <3>1
      <3>3. (s * Max(Rates)) \div NsPerSec \in Nat
        BY <1>0, <3>2, Division
      <3> QED
        BY <1>0, <1>1, <3>3 DEF EarnedIn
    <2> QED
      BY <1>0, <2>1, <2>2
  <1>2. CASE ~(l.tokens >= Cost(bytes))
    <2>1. d \in Nat /\ d > 0
      BY <1>0, <1>2
    <2> HIDE DEF d
    <2>2. p \in Nat
      BY <1>0, <2>1
    <2>3. t \in Nat
      BY <1>0, <2>2, Division DEF RepayTime
    <2>4. WaitFor(l, bytes) = Advice(t)
      BY <1>2 DEF WaitFor, d
    <2>5. ASSUME NEW s \in MinWait .. MaxWait, l.rate \in Rates, l.rate > 0, d >= EarnedIn(s)
          PROVE  t >= s
      <3> DEFINE m == s * Max(Rates)
                 k == m \div NsPerSec
      <3>0. l.rate <= Max(Rates)
        BY <1>0, <2>5, MaxOfRates, HighestRate
      <3>1. s \in Nat /\ Max(Rates) \in Nat /\ l.rate <= Max(Rates)
        BY <1>0, <3>0, HighestRate
      <3>2. m \in Nat /\ s * l.rate <= m /\ s * l.rate \in Nat
        BY <1>0, <3>1
      <3>3. EarnedIn(s) = k + 1
        BY DEF EarnedIn
      <3> HIDE DEF m
      <3>4. k \in Nat /\ m < (k + 1) * NsPerSec
        BY <1>0, <3>2, Division
      <3> HIDE DEF k
      <3>5. k + 1 \in Nat /\ k + 1 <= d
        BY <2>5, <3>3, <3>4
      <3>6. (k + 1) * NsPerSec <= d * NsPerSec /\ (k + 1) * NsPerSec \in Nat
        BY <1>0, <2>1, <3>5, ProductOrder
      <3>7. p = d * NsPerSec
        BY <1>0
      <3>8. s * l.rate < p
        BY <2>2, <3>2, <3>4, <3>6, <3>7
      <3>9. t = p \div l.rate
        BY <2>5 DEF RepayTime
      <3> HIDE DEF p, t
      <3>10. p < (t + 1) * l.rate
        BY <1>0, <2>2, <2>5, <3>9, Division
      <3>11. s * l.rate < (t + 1) * l.rate
        <4>1. (t + 1) * l.rate \in Nat
          BY <1>0, <2>3
        <4> QED
          BY <2>2, <3>2, <3>8, <3>10, <4>1
      <3>12. s < t + 1
        BY <1>0, <2>3, <3>1, <3>11, FactorOrder
      <3> QED
        BY <2>3, <3>1, <3>12
    <2> HIDE DEF t
    <2>6. Advice(t) \in 0 .. MaxWait /\ \A s \in MinWait .. MaxWait : t >= s => Advice(t) >= s
      BY <1>0, <2>3 DEF Advice
    <2> QED
      BY <2>4, <2>5, <2>6 DEF d
  <1> QED
    BY <1>1, <1>2

\* After a pause that earns an MTU at every rate, a refill credits an MTU or
\* fills the bucket.
LEMMA PauseEarnsMtu ==
  ASSUME NEW l \in Limiter, l.last <= Clock, l.rate \in Rates, l.rate > 0,
         (Clock - l.last) * l.rate <= WordMax, NEW s \in Nat, Earns(s), Clock - l.last >= s,
         NEW r \in Refilled(l, Clock)
  PROVE  r.tokens >= l.tokens + Mtu \/ r.tokens = l.capacity
  <1> DEFINE e == Clock - l.last
  <1>0. /\ l.tokens \in Int /\ l.capacity \in Nat /\ l.rate \in Nat /\ l.last \in Int
        /\ e \in Nat /\ Mtu \in Nat /\ NsPerSec \in Nat
    BY Constants DEF Limiter, Clock
  <1>1. CASE r.tokens = l.capacity
    BY <1>1
  <1>2. ASSUME NEW a \in Nat, r.tokens = l.tokens + a, e * l.rate < (a + 1) * NsPerSec
        PROVE  r.tokens >= l.tokens + Mtu
    <2>1. s * l.rate <= e * l.rate /\ s * l.rate \in Nat /\ e * l.rate \in Nat
      <3> HIDE DEF e
      <3> QED
        BY <1>0, ProductOrder DEF e
    <2>2. Mtu * NsPerSec <= s * l.rate /\ Mtu * NsPerSec \in Nat
      BY <1>0 DEF Earns
    <2>3. (a + 1) * NsPerSec \in Nat
      BY <1>0
    <2>4. Mtu * NsPerSec < (a + 1) * NsPerSec
      BY <1>2, <2>1, <2>2, <2>3
    <2>5. Mtu < a + 1
      BY <1>0, <2>4, FactorOrder
    <2> QED
      BY <1>0, <1>2, <2>5
  <1> QED
    BY <1>1, <1>2, RefilledEarns

-----------------------------------------------------------------------------
(***************************************************************************)
(* The types, and clocks that are not ahead.                               *)
(***************************************************************************)

Paced ==
  /\ TypeOK
  /\ \A l \in {dl, ul} : l.rate \in Rates
  /\ pc # "sleeping" => left = 0

\* The start: two buckets that are full.
LEMMA InitPaced == Init => Paced
  <1> SUFFICES ASSUME Init PROVE Paced
    OBVIOUS
  <1>1. InitialRate \in Nat /\ InitialRate \in Rates
    BY Constants
  <1>2. CapacityOf(InitialRate) \in Nat
    BY <1>1, CapacityType
  <1>3. InitLimiter(InitialRate, Clock) \in Limiter /\ InitLimiter(InitialRate, Clock).rate \in Rates
    BY <1>1, <1>2 DEF InitLimiter, Limiter, Clock
  <1>4. call \in [Callers -> Rates \cup {NoCall}]
    BY DEF Init
  <1> QED
    BY <1>3, <1>4, Constants DEF Init, Paced, TypeOK

\* A new rate: the bucket is resized and spills.
LEMMA UpdatedType ==
  ASSUME NEW l \in Limiter, NEW bps \in Rates, NEW u, u = Updated(l, bps)
  PROVE  /\ u \in Limiter /\ u.rate = bps /\ u.last = l.last
         /\ u.tokens >= l.tokens \/ u.tokens > 0
  <1> DEFINE cap == CapacityOf(bps)
             t == IF l.tokens > cap THEN cap ELSE l.tokens
  <1>1. cap \in Nat /\ cap > 0 /\ bps \in Nat
    BY CapacityType, Constants
  <1>2. l.tokens \in Int /\ l.last \in Int
    BY DEF Limiter
  <1>3. t \in Int /\ (t >= l.tokens \/ t > 0)
    <2> HIDE DEF cap
    <2> QED
      BY <1>1, <1>2
  <1>4. u = [tokens |-> t, capacity |-> cap, rate |-> bps, last |-> l.last]
    BY DEF Updated, Limiter
  <1> HIDE DEF t, cap
  <1> QED
    BY <1>1, <1>2, <1>3, <1>4 DEF Limiter

\* One step preserves the types, the membership of the rates and that only a
\* sleeper has something left to sleep.
LEMMA NextPaced == Paced /\ [Next]_vars => Paced'
  <1> SUFFICES ASSUME Paced, [Next]_vars PROVE Paced'
    OBVIOUS
  <1>0. /\ dl \in Limiter /\ ul \in Limiter /\ dl.rate \in Rates /\ ul.rate \in Rates
        /\ room \in 0 .. BufSize /\ left \in 0 .. MaxWait
        /\ call \in [Callers -> Rates \cup {NoCall}]
        /\ pc \in {"idle", "asking", "reading", "sleeping"}
        /\ (pc # "sleeping" => left = 0)
    BY DEF Paced, TypeOK
  <1> DEFINE Goal(l) == l \in Limiter /\ l.rate \in Rates
  <1>a. ASSUME NEW l \in Limiter, l.rate \in Rates PROVE Goal(Aged(l))
    <2>1. Aged(l) = [tokens |-> l.tokens, capacity |-> l.capacity, rate |-> l.rate,
                     last |-> l.last - 1]
      BY DEF Aged, Limiter
    <2> QED
      BY <1>a, <2>1 DEF Limiter
  <1>b. ASSUME NEW l \in Limiter, l.rate \in Rates, NEW r \in Refilled(l, Clock) PROVE Goal(r)
    BY <1>b, RefilledType
  <1>c. ASSUME NEW l \in Limiter, l.rate \in Rates, NEW bytes \in Nat PROVE Goal(Charged(l, bytes))
    <2>1. Charged(l, bytes) = [tokens |-> l.tokens - Cost(bytes), capacity |-> l.capacity,
                               rate |-> l.rate, last |-> l.last]
      BY DEF Charged, Limiter
    <2>2. l.tokens - Cost(bytes) \in Int
      BY CostType DEF Limiter
    <2> QED
      BY <1>c, <2>1, <2>2 DEF Limiter
  <1>d. ASSUME NEW l \in Limiter, NEW bps \in Rates PROVE Goal(Updated(l, bps))
    BY UpdatedType
  <1>e. Rates \subseteq Nat /\ Mtu \in 0 .. BufSize /\ BufSize \in 0 .. BufSize /\ 0 \in 0 .. BufSize
        /\ 0 \in 0 .. MaxWait /\ MaxWait \in Nat /\ BufSize \in Nat
    BY Constants
  <1> DEFINE Kept ==
               /\ Goal(dl') /\ Goal(ul')
               /\ pc' \in {"idle", "asking", "reading", "sleeping"}
               /\ room' \in 0 .. BufSize /\ left' \in 0 .. MaxWait
               /\ call' \in [Callers -> Rates \cup {NoCall}]
               /\ (pc' # "sleeping" => left' = 0)
  <1> SUFFICES Kept
    BY DEF Paced, TypeOK
  <1>1. CASE Tick
    <2>1. Goal(dl') /\ Goal(ul')
      BY <1>0, <1>1, <1>a DEF Tick
    <2>2. left' \in 0 .. MaxWait /\ (left = 0 => left' = 0)
      BY <1>0, <1>1, <1>e DEF Tick
    <2> QED
      BY <1>0, <1>1, <2>1, <2>2 DEF Tick
  <1>2. ASSUME NEW c \in Callers, NEW d \in Rates, NEW u \in Rates, SetDlRate(c, d, u)
        PROVE  Kept
    <2>1. Goal(dl')
      BY <1>0, <1>2, <1>d DEF SetDlRate
    <2>2. call' \in [Callers -> Rates \cup {NoCall}]
      BY <1>0, <1>2 DEF SetDlRate
    <2> QED
      BY <1>0, <1>2, <2>1, <2>2 DEF SetDlRate
  <1>3. ASSUME NEW c \in Callers, SetUlRate(c)
        PROVE  Kept
    <2>1. call[c] \in Rates
      BY <1>0, <1>3 DEF SetUlRate
    <2>2. Goal(ul')
      BY <1>0, <1>3, <1>d, <2>1 DEF SetUlRate
    <2>3. call' \in [Callers -> Rates \cup {NoCall}]
      BY <1>0, <1>3 DEF SetUlRate
    <2> QED
      BY <1>0, <1>3, <2>2, <2>3 DEF SetUlRate
  <1>4. ASSUME NEW bytes \in UlSizes, UlPacket(bytes)
        PROVE  Kept
    <2>1. bytes \in Nat
      BY Constants
    <2>2. PICK r \in Refilled(ul, Clock) : ul' = Charged(r, bytes) /\ Sleep(WaitFor(r, bytes))
      BY <1>4 DEF UlPacket
    <2>3. Goal(r)
      BY <1>0, <1>b
    <2>4. Goal(ul')
      BY <1>c, <2>1, <2>2, <2>3
    <2>5. WaitFor(r, bytes) \in 0 .. MaxWait
      BY <2>1, <2>3, WaitForBounds
    <2> QED
      BY <1>0, <1>4, <1>e, <2>2, <2>4, <2>5 DEF UlPacket, Sleep
  <1>5. CASE DlEvent
    BY <1>0, <1>5, <1>e DEF DlEvent
  <1>6. CASE DlAsk
    <2>1. PICK r \in Refilled(dl, Clock) : dl' = r /\ room' = MaxRead(r.tokens)
      BY <1>6 DEF DlAsk
    <2>2. Goal(r)
      BY <1>0, <1>b
    <2>3. r.tokens \in Int
      BY <2>2 DEF Limiter
    <2>4. room' \in 0 .. BufSize
      BY <1>e, <2>1, <2>3 DEF MaxRead
    <2> QED
      BY <1>0, <1>6, <2>1, <2>2, <2>4 DEF DlAsk
  <1>7. ASSUME NEW n \in 1 .. room, DlRead(n)
        PROVE  Kept
    <2>1. n \in Nat
      BY <1>0
    <2>2. PICK r \in Refilled(dl, Clock) : dl' = Charged(r, n) /\ Sleep(DlSleep(WaitFor(r, n)))
      BY <1>7 DEF DlRead
    <2>3. Goal(r)
      BY <1>0, <1>b
    <2>4. Goal(dl')
      BY <1>c, <2>1, <2>2, <2>3
    <2>5. WaitFor(r, n) \in 0 .. MaxWait
      BY <2>1, <2>3, WaitForBounds
    <2>6. DlSleep(WaitFor(r, n)) \in 0 .. MaxWait
      BY <2>5, Constants DEF DlSleep
    <2> QED
      BY <1>0, <1>7, <1>e, <2>2, <2>4, <2>6 DEF DlRead, Sleep
  <1>8. CASE DlNothing
    BY <1>0, <1>8, <1>e DEF DlNothing
  <1>9. CASE Wake
    BY <1>0, <1>9 DEF Wake
  <1>10. CASE UNCHANGED vars
    BY <1>0, <1>10 DEF vars
  <1> HIDE DEF Kept
  <1> QED
    BY <1>1, <1>2, <1>3, <1>4, <1>5, <1>6, <1>7, <1>8, <1>9, <1>10 DEF Next, Engine

\* The types hold always, whatever the refills' products become: no read is
\* longer than the buffer and no sleep longer than MaxWait.
THEOREM ReadsAndSleepsFit == Spec => []TypeOK
  <1>1. Paced => TypeOK
    BY DEF Paced
  <1> QED
    BY <1>1, InitPaced, NextPaced, PTL DEF Spec


-----------------------------------------------------------------------------
(***************************************************************************)
(* The debts.                                                              *)
(***************************************************************************)

\* No limiter stays unused for longer than MaxIdle, and no clock is ahead.
Fresh == \A l \in {dl, ul} : -MaxIdle <= l.last /\ l.last <= Clock

\* A debt of more than a sleep earns is followed by a whole sleep, before the
\* next charge.
UlDebt ==
  /\ ul.tokens >= -(EarnedIn(MaxWait) + Mtu)
  /\ ul.tokens < -EarnedIn(MaxWait) => left - ul.last >= MaxWait

Deepest == Max({BufSize, EarnedIn(DlMaxSleep) + Mtu})

\* The same for a download; a read that is sized by the tokens has them, unless
\* the bucket was resized meanwhile, and any other is one MTU.
DlDebt ==
  IF pc = "reading"
  THEN /\ room <= BufSize
       /\ dl.tokens >= 0 \/ (room <= Mtu /\ dl.tokens >= -(Deepest - Mtu))
  ELSE /\ dl.tokens >= -Deepest
       /\ dl.tokens < -(Deepest - Mtu) => left - dl.last >= DlMaxSleep

\* What is earned is a number, and the bound covers a buffer, and an MTU after
\* what the longest sleep earns.
LEMMA Depths ==
  /\ EarnedIn(MaxWait) \in Nat /\ EarnedIn(DlMaxSleep) \in Nat
  /\ Deepest \in Nat /\ Deepest >= BufSize /\ Deepest - Mtu \in Nat
  /\ Deepest - Mtu >= EarnedIn(DlMaxSleep)
  <1>1. ASSUME NEW s \in Nat PROVE EarnedIn(s) \in Nat
    <2>1. s * Max(Rates) \in Nat
      BY HighestRate
    <2>2. (s * Max(Rates)) \div NsPerSec \in Nat
      BY <2>1, Division, Constants
    <2> QED
      BY <2>2 DEF EarnedIn
  <1>2. EarnedIn(MaxWait) \in Nat /\ EarnedIn(DlMaxSleep) \in Nat
    BY <1>1, Constants
  <1>3. EarnedIn(DlMaxSleep) + Mtu \in Int /\ BufSize \in Int
    BY <1>2, Constants
  <1>4. /\ Deepest \in {BufSize, EarnedIn(DlMaxSleep) + Mtu}
        /\ Deepest >= BufSize /\ Deepest >= EarnedIn(DlMaxSleep) + Mtu
    BY <1>3, MaxOfTwo DEF Deepest
  <1> QED
    BY <1>2, <1>4, Constants

\* What a refill of a limiter in use does: no token is lost, unless the bucket
\* fills, and the clock moves on to now at most.
LEMMA RefilledInUse ==
  ASSUME ProductsFit, NEW l \in Limiter, l.rate \in Rates, l.rate > 0,
         -MaxIdle <= l.last, l.last <= Clock, NEW r \in Refilled(l, Clock)
  PROVE  /\ r \in Limiter /\ r.rate = l.rate
         /\ -MaxIdle <= r.last /\ r.last <= Clock
         /\ r.tokens >= l.tokens \/ r.tokens >= 0
         /\ \A s \in Nat : Earns(s) /\ l.last <= -s => r.tokens >= l.tokens + Mtu \/ r.tokens >= 0
  <1>0. l.last \in Int /\ l.rate \in Nat /\ Clock = 0 /\ MaxIdle \in Nat /\ WordMax \in Nat
    BY Constants DEF Limiter, Clock
  <1>1. r \in Limiter /\ r.rate = l.rate /\ r.capacity = l.capacity
    BY RefilledType
  <1>2. (Clock - l.last) * l.rate <= WordMax
    <2>1. Clock - l.last \in Nat /\ Clock - l.last <= MaxIdle
      BY <1>0
    <2>2. (Clock - l.last) * l.rate <= MaxIdle * l.rate
      <3> DEFINE e == Clock - l.last
      <3>1. e \in Nat /\ e <= MaxIdle
        BY <2>1
      <3> HIDE DEF e
      <3>2. e * l.rate <= MaxIdle * l.rate
        BY <1>0, <3>1, ProductOrder
      <3> QED
        BY <3>2 DEF e
    <2>3. MaxIdle * l.rate <= WordMax
      BY DEF ProductsFit
    <2>4. (Clock - l.last) * l.rate \in Int /\ MaxIdle * l.rate \in Int
      BY <1>0
    <2> QED
      BY <1>0, <2>2, <2>3, <2>4
  <1>3. /\ r.last >= l.last /\ r.last <= Clock /\ r.last \in Int
        /\ r.tokens >= l.tokens \/ r.tokens = l.capacity
    BY <1>2, RefilledEarns
  <1>4. l.capacity \in Nat
    BY DEF Limiter
  <1>5. ASSUME NEW s \in Nat, Earns(s), l.last <= -s
        PROVE  r.tokens >= l.tokens + Mtu \/ r.tokens = l.capacity
    <2>1. Clock - l.last >= s
      BY <1>0, <1>5
    <2> QED
      BY <1>2, <1>5, <2>1, PauseEarnsMtu
  <1> QED
    BY <1>0, <1>1, <1>3, <1>4, <1>5

\* A charge takes its cost and leaves the rest alone.
LEMMA ChargedIs ==
  ASSUME NEW l \in Limiter, NEW bytes \in Nat, NEW u, u = Charged(l, bytes)
  PROVE  /\ u.tokens = l.tokens - Cost(bytes) /\ u.last = l.last
         /\ u.tokens \in Int /\ u.last \in Int
  <1>1. l.tokens \in Int /\ l.last \in Int /\ Cost(bytes) \in Nat
    BY CostType DEF Limiter
  <1>2. u.tokens = l.tokens - Cost(bytes) /\ u.last = l.last
    BY DEF Charged, Limiter
  <1> QED
    BY <1>1, <1>2

\* A rate that earns anything is above zero.
LEMMA RatesPositive ==
  ASSUME NEW s \in Nat, Earns(s), NEW r \in Rates
  PROVE  r \in Nat /\ r > 0
  <1>1. r \in Nat
    BY Constants
  <1>2. Mtu * NsPerSec > 0 /\ s * r >= Mtu * NsPerSec
    <2>1. Mtu \in Nat /\ Mtu > 0 /\ NsPerSec \in Nat /\ NsPerSec > 0
      BY Constants
    <2> QED
      BY <2>1 DEF Earns
  <1>3. CASE r = 0
    <2>1. s * r = 0
      BY <1>3
    <2> QED
      BY <1>2, <2>1, Constants
  <1> QED
    BY <1>1, <1>3


\* The clocks, and the rates.
Used ==
  /\ Paced
  /\ Fresh

\* The start.
LEMMA InitUsed == Init => Used
  <1> SUFFICES ASSUME Init PROVE Fresh
    BY InitPaced DEF Used
  <1>1. dl.last = Clock /\ ul.last = Clock
    BY DEF Init, InitLimiter
  <1> QED
    BY <1>1, Constants DEF Fresh, Clock

\* One step keeps the clocks within MaxIdle of now.
LEMMA NextUsed ==
  ASSUME ProductsFit, NEW s \in Nat, Earns(s), Used, [Next]_vars
  PROVE  Used'
  <1>0. /\ dl \in Limiter /\ ul \in Limiter /\ dl.rate \in Rates /\ ul.rate \in Rates
        /\ dl.rate > 0 /\ ul.rate > 0 /\ dl.last \in Int /\ ul.last \in Int
        /\ -MaxIdle <= dl.last /\ dl.last <= 0 /\ -MaxIdle <= ul.last /\ ul.last <= 0
        /\ room \in 0 .. BufSize /\ MaxIdle \in Nat /\ Clock = 0
    <2>1. /\ dl \in Limiter /\ ul \in Limiter /\ dl.rate \in Rates /\ ul.rate \in Rates
          /\ room \in 0 .. BufSize
      BY DEF Used, Paced, TypeOK
    <2>2. dl.last \in Int /\ ul.last \in Int /\ dl.rate > 0 /\ ul.rate > 0
      BY <2>1, RatesPositive DEF Limiter
    <2> QED
      BY <2>1, <2>2, Constants DEF Used, Fresh, Clock
  <1>a. Paced'
    BY NextPaced DEF Used
  <1> DEFINE Kept(l) == -MaxIdle <= l.last /\ l.last <= Clock
  <1>b. SUFFICES Kept(dl') /\ Kept(ul')
    BY <1>a DEF Used, Fresh
  <1>c. ASSUME NEW l \in Limiter, l.rate \in Rates, Kept(l), l.rate > 0, NEW bytes \in Nat,
               NEW r \in Refilled(l, Clock), NEW u, u = Charged(r, bytes)
        PROVE  Kept(u)
    <2>1. r \in Limiter /\ Kept(r)
      BY <1>c, RefilledInUse
    <2> QED
      BY <1>c, <2>1, ChargedIs
  <1>1. CASE Tick
    <2>1. dl'.last = dl.last - 1 /\ ul'.last = ul.last - 1
      BY <1>0, <1>1 DEF Tick, Aged, Limiter
    <2>2. -dl.last < MaxIdle /\ -ul.last < MaxIdle
      BY <1>0, <1>1 DEF Tick
    <2> QED
      BY <1>0, <2>1, <2>2
  <1>2. ASSUME NEW c \in Callers, NEW d \in Rates, NEW u \in Rates, SetDlRate(c, d, u)
        PROVE  Kept(dl') /\ Kept(ul')
    <2>1. dl'.last = dl.last /\ ul' = ul
      BY <1>0, <1>2, UpdatedType DEF SetDlRate
    <2> QED
      BY <1>0, <2>1
  <1>3. ASSUME NEW c \in Callers, SetUlRate(c)
        PROVE  Kept(dl') /\ Kept(ul')
    <2>1. call[c] \in Rates
      BY <1>3 DEF SetUlRate, Used, Paced, TypeOK
    <2>2. ul'.last = ul.last /\ dl' = dl
      BY <1>0, <1>3, <2>1, UpdatedType DEF SetUlRate
    <2> QED
      BY <1>0, <2>2
  <1>4. ASSUME NEW bytes \in UlSizes, UlPacket(bytes)
        PROVE  Kept(dl') /\ Kept(ul')
    <2>1. bytes \in Nat
      BY Constants
    <2>2. Kept(ul')
      BY <1>0, <1>4, <1>c, <2>1 DEF UlPacket
    <2> QED
      BY <1>0, <1>4, <2>2 DEF UlPacket
  <1>5. CASE DlAsk
    <2>1. Kept(dl')
      BY <1>0, <1>5, RefilledInUse DEF DlAsk
    <2> QED
      BY <1>0, <1>5, <2>1 DEF DlAsk
  <1>6. ASSUME NEW n \in 1 .. room, DlRead(n)
        PROVE  Kept(dl') /\ Kept(ul')
    <2>1. n \in Nat
      BY <1>0
    <2>2. Kept(dl')
      BY <1>0, <1>6, <1>c, <2>1 DEF DlRead
    <2> QED
      BY <1>0, <1>6, <2>2 DEF DlRead
  <1>7. CASE DlEvent \/ DlNothing \/ Wake \/ UNCHANGED vars
    BY <1>0, <1>7 DEF DlEvent, DlNothing, Wake, vars
  <1> HIDE DEF Kept
  <1> QED
    BY <1>1, <1>2, <1>3, <1>4, <1>5, <1>6, <1>7 DEF Next, Engine

\* One step preserves the bound of the upload's debt: by the time of the next
\* packet a debt above EarnedIn(MaxWait) has been slept off by an MTU.
LEMMA NextUlDebt ==
  ASSUME ProductsFit, Earns(MaxWait), Used, UlDebt, [Next]_vars
  PROVE  UlDebt'
  <1>0. /\ dl \in Limiter /\ ul \in Limiter /\ ul.rate \in Rates /\ ul.rate > 0
        /\ ul.last \in Int /\ ul.tokens \in Int
        /\ -MaxIdle <= ul.last /\ ul.last <= Clock /\ Clock = 0
        /\ left \in Nat /\ (pc # "sleeping" => left = 0)
        /\ MaxWait \in Nat /\ Mtu \in Nat /\ EarnedIn(MaxWait) \in Nat
        /\ MaxWait \in MinWait .. MaxWait
    <2>1. /\ dl \in Limiter /\ ul \in Limiter /\ ul.rate \in Rates
          /\ left \in 0 .. MaxWait /\ (pc # "sleeping" => left = 0)
      BY DEF Used, Paced, TypeOK
    <2>2. MaxWait \in Nat /\ Mtu \in Nat /\ MaxWait \in MinWait .. MaxWait
      BY Constants
    <2>3. ul.last \in Int /\ ul.tokens \in Int /\ ul.rate > 0
      BY <2>1, <2>2, RatesPositive DEF Limiter
    <2>4. -MaxIdle <= ul.last /\ ul.last <= Clock /\ Clock = 0
      BY DEF Used, Fresh, Clock
    <2> QED
      BY <2>1, <2>2, <2>3, <2>4, Depths
  <1>1. /\ ul.tokens >= -(EarnedIn(MaxWait) + Mtu)
        /\ ul.tokens < -EarnedIn(MaxWait) => left - ul.last >= MaxWait
    BY DEF UlDebt
  <1>2. CASE Tick
    <2>1. ul'.tokens = ul.tokens /\ ul'.last = ul.last - 1
      BY <1>0, <1>2 DEF Tick, Aged, Limiter
    <2>2. left' >= left - 1 /\ left' \in Nat
      BY <1>0, <1>2 DEF Tick
    <2> QED
      BY <1>0, <1>1, <2>1, <2>2 DEF UlDebt
  <1>3. ASSUME NEW c \in Callers, SetUlRate(c)
        PROVE  UlDebt'
    <2>1. call[c] \in Rates
      BY <1>3 DEF SetUlRate, Used, Paced, TypeOK
    <2>2. /\ ul'.last = ul.last /\ ul' \in Limiter
          /\ ul'.tokens >= ul.tokens \/ ul'.tokens > 0
      BY <1>0, <1>3, <2>1, UpdatedType DEF SetUlRate
    <2>3. ul'.tokens \in Int /\ left' = left
      BY <1>3, <2>2 DEF SetUlRate, Limiter
    <2> QED
      BY <1>0, <1>1, <2>2, <2>3 DEF UlDebt
  <1>4. ASSUME NEW bytes \in UlSizes, UlPacket(bytes)
        PROVE  UlDebt'
    <2>1. bytes \in Nat /\ bytes > 0 /\ bytes <= Mtu
      BY Constants
    <2>2. PICK r \in Refilled(ul, Clock) : ul' = Charged(r, bytes) /\ Sleep(WaitFor(r, bytes))
      BY <1>4 DEF UlPacket
    <2>3. /\ r \in Limiter /\ r.rate = ul.rate /\ r.last <= Clock
          /\ r.tokens >= ul.tokens \/ r.tokens >= 0
          /\ ul.last <= -MaxWait => r.tokens >= ul.tokens + Mtu \/ r.tokens >= 0
      <3>1. -MaxIdle <= ul.last /\ ul.last <= Clock
        BY <1>0
      <3>2. /\ r \in Limiter /\ r.rate = ul.rate /\ r.last <= Clock
            /\ r.tokens >= ul.tokens \/ r.tokens >= 0
            /\ \A s \in Nat : Earns(s) /\ ul.last <= -s =>
                 r.tokens >= ul.tokens + Mtu \/ r.tokens >= 0
        BY <1>0, <3>1, RefilledInUse
      <3> QED
        BY <1>0, <3>2
    <2>4. r.tokens \in Int /\ r.last \in Int
      BY <2>3 DEF Limiter
    <2>5. r.tokens >= -EarnedIn(MaxWait)
      <3>1. left = 0
        BY <1>0, <1>4 DEF UlPacket
      <3>2. ul.tokens < -EarnedIn(MaxWait) => ul.last <= -MaxWait
        BY <1>0, <1>1, <3>1
      <3> QED
        BY <1>0, <1>1, <2>3, <2>4, <3>2
    <2>6. Cost(bytes) \in Nat /\ Cost(bytes) <= Mtu
      BY <1>0, <2>1, CostType
    <2>7. ul'.tokens = r.tokens - Cost(bytes) /\ ul'.last = r.last
      BY <2>1, <2>2, <2>3, ChargedIs
    <2>8. left' = WaitFor(r, bytes)
      BY <2>2 DEF Sleep
    <2>9. ASSUME ul'.tokens < -EarnedIn(MaxWait)
          PROVE  left' - ul'.last >= MaxWait
      <3>1. Cost(bytes) - r.tokens >= EarnedIn(MaxWait)
        BY <1>0, <2>4, <2>6, <2>7, <2>9
      <3>2. WaitFor(r, bytes) >= MaxWait /\ WaitFor(r, bytes) \in 0 .. MaxWait
        BY <1>0, <2>1, <2>3, <3>1, WaitForBounds
      <3> QED
        BY <1>0, <2>3, <2>4, <2>7, <2>8, <3>2
    <2> QED
      BY <1>0, <2>4, <2>5, <2>6, <2>7, <2>9 DEF UlDebt
  <1>5. ASSUME NEW n \in 1 .. room, DlRead(n)
        PROVE  UlDebt'
    <2>1. ul' = ul /\ left = 0
      BY <1>0, <1>5 DEF DlRead
    <2>2. left' \in Nat
      BY NextPaced, Constants DEF Used, Paced, TypeOK
    <2> QED
      BY <1>0, <1>1, <2>1, <2>2 DEF UlDebt
  <1>6. CASE \/ \E c \in Callers, d, u \in Rates : SetDlRate(c, d, u)
             \/ DlEvent \/ DlAsk \/ DlNothing \/ Wake \/ UNCHANGED vars
    <2>1. ul' = ul /\ left' = left
      BY <1>6 DEF SetDlRate, DlEvent, DlAsk, DlNothing, Wake, vars
    <2> QED
      BY <1>1, <2>1 DEF UlDebt
  <1> QED
    BY <1>2, <1>3, <1>4, <1>5, <1>6 DEF Next, Engine

\* The upload limiter's debt stays below what the longest sleep earns plus an
\* MTU, for ever: rate_limiter_consume advises a wait that handle_tcp_tun and
\* handle_udp_tun sleep, and the advice is capped only when the debt is that deep.
THEOREM UploadDebtStays ==
  ASSUME ProductsFit, Earns(MaxWait)
  PROVE  Spec => []UlDebtBounded
  <1>1. Init => UlDebt
    <2> SUFFICES ASSUME Init PROVE UlDebt
      OBVIOUS
    <2>1. ul.tokens = CapacityOf(InitialRate)
      BY DEF Init, InitLimiter
    <2>2. CapacityOf(InitialRate) \in Nat
      BY CapacityType, Constants
    <2> QED
      BY <2>1, <2>2, Depths, Constants DEF UlDebt
  <1>2. MaxWait \in Nat
    BY Constants
  <1>3. Used /\ UlDebt /\ [Next]_vars => Used' /\ UlDebt'
    BY <1>2, NextUsed, NextUlDebt
  <1>4. UlDebt => UlDebtBounded
    BY DEF UlDebt, UlDebtBounded
  <1> QED
    BY <1>1, <1>3, <1>4, InitUsed, PTL DEF Spec


\* One step preserves the bound of the download's debt: a read of a charged
\* bucket has its tokens, and a read of an empty one is an MTU, which the sleep
\* after it earns.
LEMMA NextDlDebt ==
  ASSUME ProductsFit, Earns(DlMaxSleep), Used, DlDebt, [Next]_vars
  PROVE  DlDebt'
  <1>0. /\ dl \in Limiter /\ dl.rate \in Rates /\ dl.rate > 0
        /\ dl.last \in Int /\ dl.tokens \in Int
        /\ -MaxIdle <= dl.last /\ dl.last <= Clock /\ Clock = 0
        /\ left \in Nat /\ (pc # "sleeping" => left = 0)
        /\ room \in 0 .. BufSize /\ BufSize \in Nat
        /\ DlMaxSleep \in Nat /\ Mtu \in Nat /\ Mtu > 0 /\ Mtu <= BufSize
        /\ DlMaxSleep \in MinWait .. MaxWait
    <2>1. /\ dl \in Limiter /\ dl.rate \in Rates /\ room \in 0 .. BufSize
          /\ left \in 0 .. MaxWait /\ (pc # "sleeping" => left = 0)
      BY DEF Used, Paced, TypeOK
    <2>2. /\ DlMaxSleep \in Nat /\ Mtu \in Nat /\ Mtu > 0 /\ Mtu <= BufSize /\ BufSize \in Nat
          /\ DlMaxSleep \in MinWait .. MaxWait
      BY Constants
    <2>3. dl.last \in Int /\ dl.tokens \in Int /\ dl.rate > 0
      BY <2>1, <2>2, RatesPositive DEF Limiter
    <2>4. -MaxIdle <= dl.last /\ dl.last <= Clock /\ Clock = 0
      BY DEF Used, Fresh, Clock
    <2> QED
      BY <2>1, <2>2, <2>3, <2>4
  <1>a. /\ Deepest \in Nat /\ Deepest >= BufSize /\ Deepest - Mtu \in Nat
        /\ EarnedIn(DlMaxSleep) \in Nat /\ Deepest - Mtu >= EarnedIn(DlMaxSleep)
    BY Depths
  <1>b. /\ pc = "reading" =>
             dl.tokens >= 0 \/ (room <= Mtu /\ dl.tokens >= -(Deepest - Mtu))
        /\ pc # "reading" =>
             /\ dl.tokens >= -Deepest
             /\ dl.tokens < -(Deepest - Mtu) => left - dl.last >= DlMaxSleep
    BY DEF DlDebt
  <1>c. ASSUME NEW r \in Refilled(dl, Clock)
        PROVE  /\ r \in Limiter /\ r.rate = dl.rate /\ r.last <= Clock
               /\ r.tokens \in Int /\ r.last \in Int
               /\ r.tokens >= dl.tokens \/ r.tokens >= 0
               /\ dl.last <= -DlMaxSleep => r.tokens >= dl.tokens + Mtu \/ r.tokens >= 0
    <2>1. -MaxIdle <= dl.last /\ dl.last <= Clock
      BY <1>0
    <2>2. /\ r \in Limiter /\ r.rate = dl.rate /\ r.last <= Clock
          /\ r.tokens >= dl.tokens \/ r.tokens >= 0
          /\ \A s \in Nat : Earns(s) /\ dl.last <= -s =>
               r.tokens >= dl.tokens + Mtu \/ r.tokens >= 0
      BY <1>0, <2>1, RefilledInUse
    <2> QED
      BY <1>0, <2>2 DEF Limiter
  <1>d. room' \in 0 .. BufSize
    BY NextPaced DEF Used, Paced, TypeOK
  <1>1. CASE Tick
    <2>1. dl'.tokens = dl.tokens /\ dl'.last = dl.last - 1 /\ pc' = pc /\ room' = room
      BY <1>0, <1>1 DEF Tick, Aged, Limiter
    <2>2. left' >= left - 1 /\ left' \in Nat
      BY <1>0, <1>1 DEF Tick
    <2>3. dl'.tokens < -(Deepest - Mtu) /\ pc # "reading" => left' - dl'.last >= DlMaxSleep
      BY <1>0, <1>a, <1>b, <2>1, <2>2
    <2> QED
      BY <1>0, <1>a, <1>b, <2>1, <2>3 DEF DlDebt
  <1>2. ASSUME NEW c \in Callers, NEW d \in Rates, NEW u \in Rates, SetDlRate(c, d, u)
        PROVE  DlDebt'
    <2>1. /\ dl'.last = dl.last /\ dl' \in Limiter
          /\ dl'.tokens >= dl.tokens \/ dl'.tokens > 0
      BY <1>0, <1>2, UpdatedType DEF SetDlRate
    <2>2. dl'.tokens \in Int /\ left' = left /\ pc' = pc /\ room' = room
      BY <1>2, <2>1 DEF SetDlRate, Limiter
    <2>3. CASE pc = "reading"
      BY <1>0, <1>a, <1>b, <2>1, <2>2, <2>3 DEF DlDebt
    <2>4. CASE pc # "reading"
      BY <1>0, <1>a, <1>b, <2>1, <2>2, <2>4 DEF DlDebt
    <2> QED
      BY <2>3, <2>4
  <1>3. ASSUME NEW bytes \in UlSizes, UlPacket(bytes)
        PROVE  DlDebt'
    <2>1. dl' = dl /\ left = 0 /\ pc = "idle" /\ pc' = "sleeping"
      BY <1>0, <1>3 DEF UlPacket, Sleep
    <2>2. left' \in Nat
      BY NextPaced, Constants DEF Used, Paced, TypeOK
    <2> QED
      BY <1>0, <1>a, <1>b, <2>1, <2>2 DEF DlDebt
  <1>4. CASE DlEvent
    <2>1. dl' = dl /\ left' = left /\ pc = "idle" /\ pc' = "asking"
      BY <1>0, <1>4 DEF DlEvent
    <2> QED
      BY <1>b, <2>1 DEF DlDebt
  <1>5. CASE DlAsk
    <2>1. PICK r \in Refilled(dl, Clock) : dl' = r /\ room' = MaxRead(r.tokens)
      BY <1>5 DEF DlAsk
    <2>2. pc = "asking" /\ pc' = "reading" /\ left = 0
      BY <1>0, <1>5 DEF DlAsk
    <2>3. r.tokens >= -(Deepest - Mtu)
      <3>1. dl.tokens < -(Deepest - Mtu) => dl.last <= -DlMaxSleep
        BY <1>0, <1>a, <1>b, <2>2
      <3> QED
        BY <1>0, <1>a, <1>b, <1>c, <2>2, <3>1
    <2>4. r.tokens <= 0 => room' = Mtu
      BY <1>c, <2>1 DEF MaxRead
    <2> QED
      BY <1>0, <1>c, <1>d, <2>1, <2>2, <2>3, <2>4 DEF DlDebt
  <1>6. ASSUME NEW n \in 1 .. room, DlRead(n)
        PROVE  DlDebt'
    <2>1. n \in Nat /\ n > 0 /\ n <= room
      BY <1>0
    <2>2. PICK r \in Refilled(dl, Clock) : dl' = Charged(r, n) /\ Sleep(DlSleep(WaitFor(r, n)))
      BY <1>6 DEF DlRead
    <2>3. Cost(n) \in Nat /\ Cost(n) <= room
      BY <1>0, <2>1, CostType
    <2>4. pc = "reading" /\ pc' = "sleeping" /\ left' = DlSleep(WaitFor(r, n))
      BY <1>6, <2>2 DEF DlRead, Sleep
    <2>5. r.tokens >= 0 \/ (room <= Mtu /\ r.tokens >= -(Deepest - Mtu))
      BY <1>0, <1>a, <1>b, <1>c, <2>4
    <2>6. dl'.tokens = r.tokens - Cost(n) /\ dl'.last = r.last
      BY <1>c, <2>1, <2>2, ChargedIs
    <2>7. dl'.tokens >= -Deepest
      BY <1>0, <1>a, <1>c, <2>3, <2>5, <2>6
    <2>8. ASSUME dl'.tokens < -(Deepest - Mtu)
          PROVE  left' - dl'.last >= DlMaxSleep
      <3>1. Cost(n) - r.tokens >= EarnedIn(DlMaxSleep)
        BY <1>0, <1>a, <1>c, <2>3, <2>6, <2>8
      <3>2. WaitFor(r, n) >= DlMaxSleep /\ WaitFor(r, n) \in 0 .. MaxWait
        BY <1>0, <1>c, <2>1, <3>1, WaitForBounds
      <3>3. left' = DlMaxSleep
        BY <2>4, <3>2, Constants DEF DlSleep
      <3> QED
        BY <1>0, <1>c, <2>6, <3>3
    <2> QED
      BY <2>4, <2>7, <2>8 DEF DlDebt
  <1>7. CASE DlNothing
    <2>1. dl' = dl /\ left' = left /\ pc = "reading" /\ pc' = "idle"
      BY <1>7 DEF DlNothing
    <2> QED
      BY <1>0, <1>a, <1>b, <2>1 DEF DlDebt
  <1>8. CASE Wake
    <2>1. dl' = dl /\ left' = left /\ pc = "sleeping" /\ pc' = "idle"
      BY <1>8 DEF Wake
    <2> QED
      BY <1>b, <2>1 DEF DlDebt
  <1>9. CASE (\E c \in Callers : SetUlRate(c)) \/ UNCHANGED vars
    <2>1. dl' = dl /\ left' = left /\ pc' = pc /\ room' = room
      BY <1>9 DEF SetUlRate, vars
    <2> QED
      BY <2>1 DEF DlDebt
  <1> QED
    BY <1>1, <1>2, <1>3, <1>4, <1>5, <1>6, <1>7, <1>8, <1>9 DEF Next, Engine

\* The download limiter's debt stays below a buffer, or what DlMaxSleep earns
\* plus an MTU, for ever: handle_socket_event reads what the bucket holds, or
\* one MTU when it is empty, and the sleep that follows earns that MTU.
THEOREM DownloadDebtStays ==
  ASSUME ProductsFit, Earns(DlMaxSleep)
  PROVE  Spec => []DlDebtBounded
  <1>1. Init => DlDebt
    <2> SUFFICES ASSUME Init PROVE DlDebt
      OBVIOUS
    <2>1. dl.tokens = CapacityOf(InitialRate) /\ pc = "idle"
      BY DEF Init, InitLimiter
    <2>2. CapacityOf(InitialRate) \in Nat
      BY CapacityType, Constants
    <2> QED
      BY <2>1, <2>2, Depths, Constants DEF DlDebt
  <1>2. DlMaxSleep \in Nat
    BY Constants
  <1>3. Used /\ DlDebt /\ [Next]_vars => Used' /\ DlDebt'
    BY <1>2, NextUsed, NextDlDebt
  <1>4. Used /\ DlDebt => DlDebtBounded
    <2> SUFFICES ASSUME Used, DlDebt PROVE dl.tokens >= -Deepest
      BY DEF DlDebtBounded, Deepest
    <2>1. dl.tokens \in Int /\ Mtu \in Nat
      BY Constants DEF Used, Paced, TypeOK, Limiter
    <2> QED
      BY <2>1, Depths DEF DlDebt
  <1> QED
    BY <1>1, <1>3, <1>4, InitUsed, PTL DEF Spec


=============================================================================
