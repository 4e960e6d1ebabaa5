------------------------------- MODULE Shaper -------------------------------
(***************************************************************************)
(* The engine thread pacing both directions with two limiters, while JNI   *)
(* threads change the rates.                                               *)
(*                                                                         *)
(* Upload (handle_tcp_tun, handle_udp_tun): charge the packet, sleep the   *)
(* advised wait, forward.  Download (handle_socket_event, TCP and UDP):    *)
(* read the rate without the lock, ask what is available, receive no more  *)
(* than that, charge it, sleep at most DlMaxSleep, forward.  The lock is   *)
(* released between these steps, so a rate change may come between them.   *)
(*                                                                         *)
(* Only differences of clock readings matter, so the clock stands at 0 and *)
(* the passing of time moves last_refill_ns back; runs are unbounded.      *)
(***************************************************************************)
EXTENDS LimiterOps, FiniteSetsExt

CONSTANTS
  Callers,      (* threads that call engine_set_rates                       *)
  Rates,        (* the rates they set                                       *)
  InitialRate,  (* the rate of engine_start                                 *)
  UlSizes,      (* sizes of the packets read from the tunnel                *)
  Mtu,          (* the largest of them; also the least download read (1500) *)
  BufSize,      (* sizeof(buf) (65535)                                      *)
  DlMaxSleep,   (* cap of the download sleep (5000)                         *)
  MaxIdle,      (* bound: the longest a limiter stays unused                *)
  MaxDebt       (* bound: a limiter this deep in debt is not used           *)

\* There is a highest rate; one tick of the clock is the unit of the waits, too.
ASSUME ShaperConstants ==
  /\ Rates \subseteq Nat
  /\ \E highest \in Rates : \A r \in Rates : highest >= r
  /\ InitialRate \in Rates
  /\ NsPerSec = UsPerSec
  /\ Mtu \in Nat \ {0}
  /\ UlSizes \subseteq 1 .. Mtu
  /\ BufSize \in Nat /\ BufSize >= Mtu
  /\ MinWait <= DlMaxSleep /\ DlMaxSleep <= MaxWait /\ DlMaxSleep \in Nat
  /\ MaxIdle \in Nat
  /\ MaxDebt \in Nat

VARIABLES
  dl,    (* e->dl_limiter                                                   *)
  ul,    (* e->ul_limiter                                                   *)
  pc,    (* where the engine thread is                                      *)
  room,  (* max_read of the receive under way                               *)
  left,  (* what remains of the sleep under way                             *)
  call   (* caller -> the upload rate it has still to set, or NoCall        *)

vars == <<dl, ul, pc, room, left, call>>

NoCall == -1
Clock  == 0

\* Types; a read never takes more than the buffer holds, and no sleep is longer
\* than its cap (handle_socket_event, rate_limiter_consume).
TypeOK ==
  /\ dl \in Limiter
  /\ ul \in Limiter
  /\ pc \in {"idle", "asking", "reading", "sleeping"}
  /\ room \in 0 .. BufSize
  /\ left \in 0 .. MaxWait
  /\ call \in [Callers -> Rates \cup {NoCall}]

Init ==
  /\ dl = InitLimiter(InitialRate, Clock)
  /\ ul = InitLimiter(InitialRate, Clock)
  /\ pc = "idle"
  /\ room = 0
  /\ left = 0
  /\ call = [c \in Callers |-> NoCall]

-----------------------------------------------------------------------------

Aged(rl) == [rl EXCEPT !.last = @ - 1]

Tick ==
  /\ \A rl \in {dl, ul} : Clock - rl.last < MaxIdle
  /\ dl' = Aged(dl)
  /\ ul' = Aged(ul)
  /\ left' = IF left > 0 THEN left - 1 ELSE 0
  /\ UNCHANGED <<pc, room, call>>

\* engine_set_rates takes the two locks one after the other.
SetDlRate(c, dlRate, ulRate) ==
  /\ call[c] = NoCall
  /\ dl' = Updated(dl, dlRate)
  /\ call' = [call EXCEPT ![c] = ulRate]
  /\ UNCHANGED <<ul, pc, room, left>>

SetUlRate(c) ==
  /\ call[c] # NoCall
  /\ ul' = Updated(ul, call[c])
  /\ call' = [call EXCEPT ![c] = NoCall]
  /\ UNCHANGED <<dl, pc, room, left>>

-----------------------------------------------------------------------------

\* Fault: microseconds are taken for seconds.
SleepCoarse(wait) ==
  /\ pc' = "sleeping"
  /\ left' = wait \div UsPerSec
  /\ room' = 0

Sleep(wait) ==
  /\ pc' = "sleeping"
  /\ left' = wait
  /\ room' = 0

\* The sleep is the advised wait.
UlPacket(bytes) ==
  /\ pc = "idle"
  /\ ul.tokens > -MaxDebt
  /\ \E r \in Refilled(ul, Clock) :
       /\ ul' = Charged(r, bytes)
       /\ Sleep(WaitFor(r, bytes))
  /\ UNCHANGED <<dl, call>>

\* Fault: an empty bucket does not limit the read.
MaxReadUnlimited(avail) == IF avail > 0 /\ avail < BufSize THEN avail ELSE BufSize

\* Fault: the read may exceed the buffer.
MaxReadUnchecked(avail) == IF avail > 0 THEN avail ELSE Mtu

\* An empty bucket still allows one MTU, to keep things moving.
MaxRead(avail) ==
  IF avail > 0 /\ avail < BufSize THEN avail
  ELSE IF avail <= 0 THEN Mtu
  ELSE BufSize

DlSleep(wait) ==
  IF wait = 0 THEN 0
  ELSE IF wait <= MinWait THEN MinWait
  ELSE IF wait < DlMaxSleep THEN wait ELSE DlMaxSleep

\* The unlocked look at rate_per_sec: 0 means unlimited.
DlEvent ==
  /\ pc = "idle"
  /\ dl.tokens > -MaxDebt
  /\ IF dl.rate > 0 THEN pc' = "asking" /\ room' = 0
                    ELSE pc' = "reading" /\ room' = BufSize
  /\ UNCHANGED <<dl, ul, left, call>>

DlAsk ==
  /\ pc = "asking"
  /\ \E r \in Refilled(dl, Clock) : dl' = r /\ room' = MaxRead(r.tokens)
  /\ pc' = "reading"
  /\ UNCHANGED <<ul, left, call>>

\* recv returns n bytes, which are charged.
DlRead(n) ==
  /\ pc = "reading"
  /\ \E r \in Refilled(dl, Clock) :
       /\ dl' = Charged(r, n)
       /\ Sleep(DlSleep(WaitFor(r, n)))
  /\ UNCHANGED <<ul, call>>

\* recv has nothing (EAGAIN), or the remote closed or failed.
DlNothing ==
  /\ pc = "reading"
  /\ pc' = "idle"
  /\ room' = 0
  /\ UNCHANGED <<dl, ul, left, call>>

\* usleep returns no earlier than asked; the packet is forwarded.
Wake ==
  /\ pc = "sleeping"
  /\ left = 0
  /\ pc' = "idle"
  /\ UNCHANGED <<dl, ul, room, left, call>>

Engine ==
  \/ \E bytes \in UlSizes : UlPacket(bytes)
  \/ DlEvent
  \/ DlAsk
  \/ \E n \in 1 .. room : DlRead(n)
  \/ DlNothing
  \/ Wake

Next ==
  \/ Tick
  \/ \E c \in Callers, d, u \in Rates : SetDlRate(c, d, u)
  \/ \E c \in Callers : SetUlRate(c)
  \/ Engine

Spec == Init /\ [][Next]_vars

-----------------------------------------------------------------------------

\* What the highest rate earns in a sleep of s, rounded up.
EarnedIn(s) == (s * Max(Rates)) \div NsPerSec + 1

\* The download limiter's debt stays below a constant, however long the
\* traffic lasts and however the rates change: what was received is at most
\* what the rates allowed plus that constant.  The debt may come from reads
\* sized before a rate change shrank the bucket, or from reads of one MTU
\* while the bucket is empty, each followed by a sleep of at most DlMaxSleep.
DlDebtBounded == dl.tokens >= -(Max({BufSize, EarnedIn(DlMaxSleep) + Mtu}))

\* The same for the upload limiter, whose sleep is as long as the advised wait.
UlDebtBounded == ul.tokens >= -(EarnedIn(MaxWait) + Mtu)

=============================================================================
