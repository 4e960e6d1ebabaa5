# ThrottleVPN in TLA+

ThrottleVPN is an Android VPN that throttles the device's own traffic. A native
engine (`tun2socks_engine.c`) reads raw IP packets from the tunnel, relays TCP
and UDP through protected kernel sockets, and paces both directions with a token
bucket each (`rate_limiter.c`). A Kotlin service opens the tunnel, starts and
stops the engine and reacts to networks that come and go; a view model carries
the caps from the screen and the settings to it. This directory models the parts
of that program where order, concurrency, failure and arithmetic matter, checks
them with TLC, and proves most of their safety with TLAPS. `PROJECT.json`
maps every definition to the lines it stands for.

## The system

| Component | State | Operations | Talks to |
|---|---|---|---|
| Rate limiter (`rate_limiter.c`) | tokens, capacity, rate, refill clock, under a lock | init, update, consume, available | engine thread (consume, available), JNI threads (update) |
| Shaping (`handle_tcp_tun`, `handle_udp_tun`, `handle_socket_event`, `engine_set_rates`) | the two limiters, the sleep and the read under way | charge-sleep-forward upwards; look-ask-read-charge-sleep downwards | both limiters |
| TCP relay (`handle_tcp_tun`, `handle_socket_event`, `tcp_*`, `cleanup`) | session table, pending data, sequence numbers, epoll set | one handler per packet or socket event, on one thread | the tunnel (the device's TCP), kernel sockets (remote servers), `protect()` |
| UDP relay (`handle_udp_tun`, `udp_*`, `cleanup`) | session table | send, receive, expire | tunnel, kernel sockets, the descriptors and batches it shares with TCP |
| Session tables (`session_hash`, `*_find*`, `*_create`, `tcp_remove`, `cleanup`, `engine_stop`) | buckets of linked nodes | find, find by descriptor, insert, remove, clean up, tear down | both relays |
| Packets (`engine_loop`, `write_tcp_*`, `write_udp_*`, checksums) | the packet buffer, `our_seq` | parse, cut into segments, checksum | tunnel, both relays |
| Engine life (`engine_start`, `engine_loop`, `engine_stop`) | the one `g_engine`: flag, thread, epoll descriptor, tunnel number | start, loop, stop and join | JNI callers on several threads |
| VPN service (`SpeedLimiterVpnService.kt`) | tunnel, engine, shaper, callback, scope; the companion's status and instance | doStart, doStop, establish, onDestroy, onLost, onAvailable, updateCaps | Android (commands, revocation, networks, kills), engine, monitor |
| Traffic monitor (`TrafficShaper.kt`) | previous counters, monitor job | start, sample, stop | engine counters, the service's collector |
| View model, settings (`MainViewModel.kt`, `SettingsRepository.kt`) | caps on the screen, caps in the settings | set manual caps, percentage, speed test, reset, apply | the running service, through `updateCaps` and the published caps |
| Speed test, activities, notification, boot receiver, `TokenBucket.kt` (unused) | | | |

What is hard to get right in each, and so what the properties are about:

- *Rate limiter*: truncating integer arithmetic, 64-bit overflow after idle time,
  rate changes between refills. The bucket may not exceed its burst, the clock
  may not run ahead or credit time twice, time may not be lost.
- *Shaping*: locks released between asking, reading and charging; sleeps that are
  capped while reads are not. What is forwarded may not exceed what the rate
  allows by more than a constant.
- *TCP relay*: batches of epoll events that outlive the socket they were for,
  descriptors recycled at once, both ends closing, refused and unreachable
  servers, full buffers, retransmitted SYNs and data, sequence numbers taken
  from a clock. Bytes arrive in order and once; each end is told the truth about
  the end of the stream; an acknowledged byte was given to the socket; sessions
  and descriptors correspond. A SYN-ACK should mean a connection, which it does
  not always.
- *UDP relay*: two tables that share one kernel's descriptors and one batch;
  errors that arrive in place of datagrams. No descriptor is leaked or crossed;
  datagrams are not repeated or reordered, and none is left lying.
- *Session tables*: walks that cut what they walk, colliding keys. Lookups find
  exactly the sessions there are; nothing leaks, dangles or loops.
- *Packets*: lengths taken from the packet, carries, odd bytes, chunk ends,
  wrapping numbers. Only bytes that were read are used; what is written is whole,
  contiguous, fits and verifies.
- *Caps*: one value in four places, written by coroutines, by flows and by
  another thread. Once it is quiet, settings, screen and engine agree with the
  last request.
- *Engine and service*: commands on the main thread, coroutines on IO threads,
  callbacks on the connectivity thread and the engine's pthread around one
  static `g_engine`, with failures and kills between any two steps, and nothing
  that serialises them. CONNECTED should be true and a stop release everything
  and return; how far that goes is below.

`PROJECT.json` lists these as hazards with the line where each bites.

## The modules

| Module | Models | Notes |
|---|---|---|
| `LimiterOps` | the arithmetic of `rate_limiter.c` | pure operators; products have a machine width |
| `RateLimiter` | one limiter, any caller, any idle time | extends `LimiterOps` |
| `RateLimiterProofs`, `ShaperProofs`, `TcpRelayProofs`, `RelayProofs`, `SessionTableProofs`, `PacketsProofs`, `VpnServiceProofs`, `CapControlProofs` | theorems about the module of the same name | each extends that module; `RelayProofs` also uses `TcpRelayProofs` |
| `Shaper` | the engine thread pacing both directions, rate changes | uses two limiters of `LimiterOps` |
| `StreamPipe` | what a direction of a relayed connection promises | abstract, for any number of streams; `TcpRelay` implements it with two per flow |
| `TcpRelay` | the TCP half of the engine and the parties around it | |
| `Relay` | TCP and UDP halves over the same descriptors, batches and tunnel | extends `TcpRelay`, whose actions it takes whole |
| `SessionMap` | what a session table promises | abstract |
| `SessionTable` | the hash chains, a link per step | implements `SessionMap` |
| `Packets` | parsing, segmentation, checksums | one packet or one call per behaviour |
| `VpnService` | the life of tunnel, engine, callback and monitors | |
| `CapControl` | the caps from the screen to the limiters | |
| `MC*` | small instances for TLC | constants only |

**LimiterOps, RateLimiter.** A limiter is the record `[tokens, capacity, rate,
last]`. The C functions hold the lock throughout, so each is one action:
`Consume` and `Available` refill at the time `now` and then charge or report,
`Update` resizes and spills. The product `elapsed_ns * rate_per_sec` is exact up
to `WordMax`; beyond it, signed overflow is undefined, and `Refilled` is the set
of limiters that the compiled code may leave: the low bits divided as a signed
or as an unsigned word. `ret` records what the last call answered.

**Shaper.** A packet from the tunnel is charged and slept for; a socket event
looks at the rate without the lock, asks, reads, charges and sleeps at most 5 ms.
`pc` is where the engine thread is; a JNI caller may set the download and then
the upload rate between any two of its steps. Only differences of clock readings
matter, so the clock stays at 0 and `Tick` moves the refill clocks back: a run
can go on for ever in finitely many states. TCP and UDP share this code pattern
and one set of actions.

**TcpRelay.** A flow is a 4-tuple; a segment carries one byte; a stream is the
bytes 1, 2, ... in order, so that loss, duplication and reordering show in the
values themselves. `sess` is the session table, `sock` the kernel's sockets by
descriptor, `batch` what is left of the last `epoll_wait`, `tunIn` and `tunOut`
the tunnel, `client`, `server` and `far` the ends of each connection: what the
kernel has accepted for the server, and how the connection ends there. Each
handler runs under `tcp_lock` on the one engine thread and is one action:
`TunSyn`, `TunNoSession`, `TunRst`, `TunData...`, `TunFin` for `handle_tcp_tun`,
`Socket...` for `handle_socket_event`, `Expire` for `cleanup`. Clients, the
kernel and servers move between them. The clients follow TCP's rules for what
they accept: they take the SYN-ACK of their attempt, then what comes in order, by
its sequence number alone; a RST without ACK means nothing to an attempt.
`our_seq` starts from `(time(NULL) * 1000 + sp) ^ dp` (`tun2socks_engine.c:170`), so
sessions of a flow made in one second have the same number and those of
neighbouring seconds near ones. A session's number is therefore any of `Isns`,
and a client may take the segments of a session that was replaced. `inc` counts
the sessions of a flow; no action looks at it, and the properties use it to say
which connection a client has taken. Numbers do not wrap here (they do in
`Packets`). `Faults` selects what may go wrong.

`RelayIsTransparent` is the refinement: `Pipes` is an instance of `StreamPipe`
with two streams per flow, in which what one end wrote, what the other has read
and what it was told of the end are expressions over `client`, `server` and `far`.
The server is told by `close()`, which sends a reset while bytes of its own are
unread, and by `shutdown()` before it (`ServerHears`); the client by the engine's
FIN and RST (`DownEnd`). `StreamPipe` says what the relay promises and no more:
an end hears of the end once, and reads nothing after it; no end comes while both
still write; and an orderly one means that the writer has closed and the reader
has the whole stream, unless the writer's connection broke (a reset, a refusal or
a timeout, which may end like a close) or the reader has itself closed the
direction it writes. For the relay has no half-close. A server that closes its direction makes the engine close both: what
the client still sends is dropped, and the server, which has closed, reads an
orderly end (`tun2socks_engine.c:697`); a client that finishes is answered with a
FIN though bytes of the server may be unread (`tun2socks_engine.c:573`). In both
cases `StreamPipe` promises to the end that closed first a prefix only.

**Relay.** `usess` is the UDP table, `device` and `peer` the two ends of a UDP
flow. UDP sockets live in the same `sock` as TCP's. A TCP session may get, in the
middle of a batch, the descriptor another TCP session gave back in it; a UDP
session's descriptor is given back by `cleanup` alone, between batches. Datagrams
are numbered and 0 is an empty one. A pending ICMP error fails the next `send` or
`recv` in place of the datagram. The actions of `TcpRelay` are used unchanged, except that an event for a descriptor without a TCP session is
dropped only when the UDP table does not have it either.

**SessionTable.** `ptr[x]` is what a cell, the head of a bucket or the `next` of
a node, points to, because that is what the `pp` of `tcp_remove` and `cleanup`
walks. `op`, `at` and `bucket` are the local variables of the operation under way;
the lock keeps it to one. Lookups go on into what the handlers do with the
result (nothing, remove, replace, create). `engine_stop` frees nodes while the
heads still point to them, so the invariants speak of the other operations.
Under the mapping `map[k] = {n : key[n] = k}`, each operation's one effective step
is the map's `Put`, `Drop` or `Find`, and every other step a stutter.

**Packets.** `Reads` are packets by the fields the code looks at, `Writes` calls
of `write_tcp` and `write_udp`. `touched` is how far into the buffer a handler has
looked; beyond what `read()` returned lie older packets. A checksum is a function
of the sum of the words it covers: `words` stands for those that do not vary
between chunks. IPv4 and IPv6 differ in the header length and the IP checksum.

**CapControl.** `edits` are coroutines whose `DataStore.edit` is still to come (it
makes them one at a time, in order), `posts` those waiting for the main thread
afterwards, `unseen` what observed flows have not delivered yet. `calls[t]` is the
step of `updateCaps` each thread is in: the download limiter (`dl`), the upload
limiter (`ul`), and the two published flows, one after the other (`showDl`,
`showUl`). Both callers, the screen's thread and the service's, may be in it at
once, with different caps. `Hasty = FALSE` means only that nothing is requested
while a reset's three edits are under way; everything else comes at any time.
One connecting coroutine at a time applies the saved caps.

**VpnService.** `act` gives each actor (the main thread and every launched
coroutine) a program counter through `establish()`, `engine_start`,
`engine_stop` and what surrounds them; `native` is `g_engine`, shared by all
instances of the service; `threads`, `tuns`, `monitors`, `collected` and
`callbacks` are the resources that may be left behind. Commands come whenever the
main thread is free and callbacks at any step, also in the middle of another
actor's `establish()`: nothing in the code serialises them, and the screen offers
Stop while CONNECTING and RECONNECTING. The failures are an exception in either
`establish()` and a kill of the process, after which START_STICKY brings back an
instance without a command. `Crash` is the exception that nobody takes: `netCb`
is assigned before the callback is registered (`MakeNetCb`, `RegisterNetCb`), and
a `doStop` in between unregisters what is not registered.

`calm` is a history variable: every command, and every callback that did
something, has found nothing else at work, and no reconnection has failed. It
constrains no action. `ConnectedWorks` and `StoppedClean` speak of states in which
it holds; what happens in the others is below. `DestroyedIsSilent` and
`StopCompletes` do not depend on it.

Definitions whose comment begins with "Fault" are a definition of the model with
one plausible mistake in it. No specification uses them; they serve to check
that each property can be violated by a mistake in the code.

## The runs

Each passing run finishes within two and a half minutes. Deadlock is not checked,
except in `SessionTable`, because every modelled part may come to rest: clocks,
streams and commands are bounded. Some properties are conjunctions of named
parts, which the comments in the modules state one by one: `WithinBounds`,
`SessionsSound`, `RelaySound`, `DatagramsIntact`, `TableSound`, `ParseSound`,
`SegmentsAdjoin`, `SegmentsWhole`, `SettingsSound`.

| Run | Question | Result |
|---|---|---|
| `RateLimiter` | burst cap, clock, exact and steady refill, meaning of the wait; products overflow | holds |
| `Shaper` | the debt of both limiters is bounded, under rate changes | holds from an MTU per sleep up |
| `TcpRelay` | a byte stream in each direction, both of whose ends hear the truth about its end (`StreamPipe`); no attempt stays half open, the server's end reaches the client, a client that finishes hears an end | holds, under fairness |
| `TcpRelayFaults` | descriptors, downstream bytes and sequence numbers, and what an ACK means, under every fault, with replaced sessions of equal numbers | holds |
| `TcpRelayStale` | SYN-ACK means that the server is connected | violated, `tun2socks_engine.c:630` |
| `Relay` | TCP and UDP over one pool of descriptors: ownership, datagrams in order and once, replies delivered | holds, under fairness of the engine |
| `SessionTable` | chains well formed, `cleanup` exact, walks end; the table is a map (`SessionMap`) | holds, under fairness of the step |
| `Packets` | parsing stays in bounds and takes whole packets; what is written verifies, adjoins, is whole and fits | holds |
| `VpnService` | a destroyed service is silent; a stop's join ends unless the engine is started meanwhile; while calm, CONNECTED is true and a stop is clean | holds, under every interleaving and fairness of the engine's threads |
| `VpnServiceHandover` | RECONNECTING does not last while a network is available | violated, `SpeedLimiterVpnService.kt:223` |
| `CapControl` | manual mode exact; last request wins; screen and settings agree; a new connection enforces and publishes the saved caps | holds, with nothing requested during a reset |
| `CapControlApply` | the caps entered are the ones applied | violated, `MainActivity.kt:134` |

The violations:

- `TcpRelayStale`. The client's SYN is repeated. The batch holds the tunnel and an
  EPOLLOUT for the session's socket. The SYN is handled first: it replaces the
  session, whose descriptor is closed and comes back for the new socket. The
  EPOLLOUT, still in the batch, is then taken for the end of the new `connect()`,
  because SO_ERROR is 0 while that is under way, and the client gets a SYN-ACK for
  a connection there is not. `tun2socks_engine.c:635` says "NOW send SYN-ACK - real
  connection is established". The fault `unreachable`, where `connect()` fails at
  once and its result is not looked at (`tun2socks_engine.c:189`), violates the
  same property without any repetition.
- `VpnServiceHandover`. With wifi and a cellular network both available, the loss
  of either starts RECONNECTING. Only `onAvailable` ends it, and for a network
  that was there all along it does not come. `strings.xml:49` promises
  "Auto-reconnect".
- `CapControlApply`. The Apply button launches the coroutines that set the entered
  caps and then calls `applyCaps`, which sends the caps the view model had before;
  no later step sends the entered ones.

### Where the passing runs stop

The code does not withstand everything, and a passing run leaves out, or its
property excepts, what it does not. The change named here makes TLC show it:

| Change | Then violated | Because |
|---|---|---|
| in `RateLimiter`, drop `ProductFits` from `SteadyRefillStep` | `SteadyRefill` | after a pause `elapsed_ns * rate_per_sec` overflows (`rate_limiter.c:51`) and the call may credit nothing or too little |
| in `Shaper`, a rate of 400 (1.6 Mbit/s) | `DlDebtBounded` | the download's sleep is capped at 5 ms, the read is not (`tun2socks_engine.c:694`) |
| in `Shaper`, a rate of 300 (1.2 Mbit/s; 0.24 Mbit/s unscaled) | also `UlDebtBounded` | the upload's wait is capped at 50 ms (`rate_limiter.c:87`) |
| in `Shaper`, a rate of 0 | `DlDebtBounded` | downloads are charged also while no cap is set (`tun2socks_engine.c:690`), and the next cap throttles for them |
| in `TcpRelay`, the fault `bufferFull` | `RelayIsTransparent` | a short `send()` is acknowledged whole and the rest is lost (`tun2socks_engine.c:559`); `AckedIsSent` therefore says given to the socket, not delivered |
| in `TcpRelay`, the fault `retransmit` and `MaxResend = 1` | `RelayIsTransparent` | a repeated segment is relayed again; `client_seq` is overwritten and never compared (`tun2socks_engine.c:538`) |
| in `VpnService`, drop `calm` from either property | `ConnectedWorks`, `StoppedClean` | two starts run `establish()` at once (`SpeedLimiterVpnService.kt:116`); a stop neither cancels nor waits for a start under way (`:134`), which then opens a tunnel and starts an engine for a service that is gone |
| in `VpnService`, drop `native.running` from `StopCompletes` | `StopCompletes` | an `engine_start` during the join sets the flag again that the loop was to see cleared, and the main thread waits for the new engine (`tun2socks_engine.c:878`) |
| in `CapControl`, `Hasty = TRUE` | `LastRequestWins`, `ScreenShowsSettings` | a request between two edits of a reset is undone or half undone (`MainViewModel.kt:113`) |

Some more things do not hold of the code and are not stated as properties. The
FIN of a client that closes at the same time as the server finds no session and
is never acknowledged (`tun2socks_engine.c:525`); `FinIsAnswered` is met there by
the FIN the engine sent before. A FIN that carries data is acknowledged by the
number of its first byte plus one, whatever the payload (`tun2socks_engine.c:574`).
Two callers of `updateCaps` at once may leave the download cap of one with the
upload cap of the other, in the engine and in the published flows
(`tun2socks_engine.c:964`). As soon as commands meet a start, two engine threads may
run on the one `g_engine`, contrary to "A single-threaded epoll event loop"
(`tun2socks_engine.c:7`), and a destroyed service's coroutine may still report
CONNECTED or ERROR. A stop between the assignment of `netCb` and its registration
ends the process (`SpeedLimiterVpnService.kt:206`). Two callbacks, or one that hears
of two networks, start two reconnections; a failed reconnection leaves its
callback, beside which the next start registers another
(`SpeedLimiterVpnService.kt:229`). A SYN
that was in flight when the SYN-ACK was sent replaces the session the client has
just taken (`tun2socks_engine.c:513`). After a reconnection `monitors` holds a
shaper that `collected` does not, so the live traffic on the screen stands still
(`SpeedLimiterVpnService.kt:237`). `establish()` closes the tunnel before it
stops the engine thread that uses it (`SpeedLimiterVpnService.kt:156`). A refused
connection is told to the client by a RST without ACK, which a TCP in SYN-SENT
ignores (`tun2socks_engine.c:657`). An event with only an error on a UDP socket
is answered by nothing and comes back at every `epoll_wait`
(`tun2socks_engine.c:715`). A reset of the speeds does not reach the engine, which
keeps its caps until a reconnection (`SpeedLimiterVpnService.kt:194`). And
`rate_limiter_consume` returns 0 not only "if tokens were available", as
`rate_limiter.h` has it, but for every debt worth less than 2 ms;
`WaitRepaysDebt` states what the answer does mean.

### Bounds

- *Limiter*: a second has 10 clock units and 10 wait units, the burst is half a
  second's tokens with a floor of 3. Rates are 0, two rates that divide a second
  unevenly, one that divides it, and one above a token per clock unit, so that
  every rounding case, full buckets, debts beyond each threshold and rate changes
  across the floor occur. `MaxTime` 14 is long enough to fill the largest bucket
  from the deepest debt at the highest rate; `WordMax` 127 is beyond every product
  at the lower rates and is crossed after 6 clock units at the highest, as 2^63 is
  after 9.2 s at the engine's initial 1e9 bytes/s.
- *Shaper*: a tick is 1 ms and a token 500 bytes; an MTU is 3 tokens, which the
  lowest rate (2.4 Mbit/s) just earns in the 5 ms of the download sleep. The
  buffer (8), the burst (10 ms) and the upload's sleep cap (8 ms) are scaled down.
  `MaxDebt` lies beyond both bounds, so it does not hide a violation;
  `MaxIdle` is longer than any bucket takes to fill from any debt that occurs.
  The small-packet discount is off here (it only lowers a charge).
- *TcpRelay*: one flow and two descriptors, so a descriptor can move from one
  session to the next of the flow, or not; streams of up to 3 bytes and reads of up
  to 2, so a stream takes several reads and a read several segments; `PendingMax`
  1 is passed by the second byte; batches of 2 or 3 events hold every ready
  descriptor with the tunnel. `TcpRelayFaults` has one repetition, of a SYN or of
  data, and initial numbers 0 and 1: a replacing session has the number of the
  replaced one, or one within reach of its bytes. `TcpRelayStale` needs one descriptor, one repetition and no data.
- *Relay*: one flow of each kind and two descriptors, so each table may get the
  other's; no TCP data, which `TcpRelay` has; two datagrams each way and any number
  of empty ones in turn.
- *SessionTable*: four keys of which three collide, two buckets, four nodes: heads,
  middles and ends of chains are cut, singly and several at a time, and a bucket
  may be empty. Two sessions of a colliding pair already show every kind of
  collision; the third gives a middle.
- *Packets*: lengths on both sides of every comparison and of their combinations;
  payloads of 0 to 5 bytes out of {0, 1, 255} in segments of 1 to 3, so every
  position of the last chunk, odd ends and double carries occur; sequence numbers
  modulo 256 that wrap within a call; one datagram beyond `MaxPacket`.
- *CapControl*: one cap to enter, two test results (one without an upload speed),
  two percentages, two acts and two connections: an act may overtake or undo
  another, a connection may replace the engine, and both threads may be in
  `updateCaps`. `CapControlApply` has a second cap.
- *VpnService*: two instances, two coroutines, one network that may come and go for
  ever: enough for a start and a stop in every order, a start and a reconnection
  or two starts at once, a kill or crash between any two steps, and a new
  instance after one that is destroyed. The invariant that the proofs are about was
  also checked on three instances, four coroutines and two networks.
  `VpnServiceHandover` has two networks and one instance.

### Fairness

- `TcpRelay`: weak fairness of the engine thread (`epoll_wait` returns whenever
  something is ready and has no other thread to wait for), of the client reading
  the tunnel, and of the kernel's connection attempts, which time out if nothing
  else. Nothing makes a client send, a server send or anyone close.
- `Relay`: weak fairness of the engine thread only. Nothing else need happen for a
  datagram that has arrived to be passed on.
- `SessionTable`: weak fairness of the step of an operation that has begun: its
  thread holds the lock and waits for nothing.
- `VpnService`: weak fairness of each engine thread, which returns from
  `epoll_wait` at least every 100 ms and looks at the flag, and of the main thread
  within `engine_stop`, which waits for nothing but that thread.
- `VpnServiceHandover`: also of every coroutine and of the system destroying a
  service that called `stopSelf`, so that the refutation is not one of a program
  that stands still. Commands, networks and kills need not come.

## What is proved

Each `...Proofs` module proves theorems of its module's specification for every
value of the constants that satisfies the named assumptions of that module, which
TLC evaluates on every run (`LimiterConstants`, `RateLimiterConstants`,
`ShaperConstants`, `TcpRelayConstants`, `RelayConstants`, `SessionTableConstants`,
`PacketsConstants`, `SegmentsFitPkt`, `VpnServiceConstants`,
`CapControlConstants`). The invariants below were checked by TLC on the
configurations of the runs before they were proved. A theorem with a hypothesis
states in its ASSUME what the code does not withstand without; for each of these
the table under "Where the passing runs stop" has a row that shows so.

| Theorem | States | Under |
|---|---|---|
| `RateLimiterProofs`: `TypeCorrect`, `StaysWithinBounds` | `TypeOK`, `WithinBounds` | overflow included |
| `RefillIsExact`, `RefillIsSteady`, `WaitIsTheDebt` | `RefillExact`, `SteadyRefill`, `WaitRepaysDebt` | |
| `ShaperProofs`: `ReadsAndSleepsFit` | `TypeOK` | overflow included |
| `DownloadDebtStays` | `DlDebtBounded` | `ProductsFit`, `Earns(DlMaxSleep)` |
| `UploadDebtStays` | `UlDebtBounded` | `ProductsFit`, `Earns(MaxWait)` |
| `TcpRelayProofs`: `DescriptorsOwned` | `SessionsSound` | every fault |
| `AcksTrue` | `AckedIsSent` | every fault, any `Isns` |
| `BytesArrive` | `DownstreamIntact` | every fault, any `Isns` |
| `RelayProofs`: `DescriptorsShared`, `DatagramsKept` | `RelaySound`, `DatagramsIntact` | every fault |
| `RelayAcksTrue`, `RelayBytesArrive` | `AckedIsSent`, `DownstreamIntact`, of `Relay` | every fault, any `Isns` |
| `SessionTableProofs`: `TableIsSound`, `CleanupExact` | `TableSound`, `CleanupIsExact` | |
| `ImplementsMap` | `IsSessionMap`, the refinement of `SessionMap` | |
| `PacketsProofs`: `ParsingIsSound`, `PacketsTakenWhole` | `ParseSound`, `WholePacketsTaken` | |
| `CallsSentWhole`, `SegmentsRunOn` | `SegmentsWhole`, `SequenceRuns` | |
| `VpnServiceProofs`: `SilentOnceDestroyed` | `DestroyedIsSilent` | every interleaving and failure |
| `ConnectedIsServed`, `NothingLeft` | `ConnectedWorks`, `StoppedClean` | every interleaving and failure (the properties speak of `calm` services) |
| `CapControlProofs`: `SettingsAreSound`, `ConnectionEnforcesSaved` | `SettingsSound`, `SavedCapsEnforced` | hasty or not |
| `LastRequestStays`, `ScreenIsTrue` | `LastRequestWins`, `ScreenShowsSettings` | nothing requested during a reset |

The arguments, and what the invariants add to the properties:

- *RateLimiter*: `IInv == TypeOK /\ BurstCapped /\ ClockNotAhead`. None of its
  parts does without the others: that a refill keeps the clock behind `now` needs
  the tokens below the capacity (or a credit of what does not fit would move it),
  and the types of quotients need the clock behind `now`. The argument for the
  clock is `added <= elapsed * rate / NsPerSec`, hence `added * NsPerSec / rate <=
  elapsed`, and it carries over to overflow because what the machine holds of a
  product of nonnegative factors is never more than the product
  (`ProductsBounded`). For the exactness of the refill the two divisions are
  bounded from both sides (`DivBounds`, `RefilledExact`).
- *Shaper*: a debt deeper than what the longest sleep earns (`EarnedIn`) makes the
  advice at least that sleep (`WaitForBounds`); `UlDebt` and `DlDebt` say that then
  what is still to be slept and what has passed since the last refill come to a
  whole sleep, so by the next charge the refill has earned an MTU
  (`PauseEarnsMtu`) or filled the bucket. A read in progress either was sized by
  tokens the bucket still has, or is one MTU. `Earns(sleep)` is the hypothesis that
  every rate earns an MTU in that sleep: 2.4 Mbit/s for a download, 0.24 for an
  upload. `ProductsFit` keeps the refills free of overflow.
- *TcpRelay*: `Core(others, mail)` has the types, who owns which descriptor, what
  the kernel holds for it and that a batch has one event per descriptor. It is
  stated for any further owners and packets, so that `RelayProofs` uses its lemmas
  with the UDP table as the others.
  `AckInv` relates, for each flow, the client's numbers, the packets under way in
  both directions, the session and the server: a number is acknowledged only when
  every byte below it was given to the server's socket, or is kept and about to be
  (`Expected`). A FIN with data, a short or failing `send()` and a repeated segment
  are among its steps. What an earlier session of the flow acknowledges is told
  apart by `inc`, not by the sequence number, which may be the same.
  `DownInv` is about the way down. `DownstreamIntact` alone is not inductive: it
  speaks of a client that has taken its session's SYN-ACK, and says nothing of what
  was sent before. `Flowing` says the same of every session whose SYN-ACK its client
  has taken or will take first (`Ours`), and is kept only because a session still
  connecting has written nothing (`Awaits`) and an established one wrote its SYN-ACK
  ahead of its bytes and no end yet (`Opens`). Segments of an earlier session that
  are ahead of that SYN-ACK reach a client in SYN-SENT, which ignores them, whatever
  their numbers. That in turn needs that no event makes the engine read for a
  session still connecting, as an event without EPOLLOUT would
  (`tun2socks_engine.c:677`): such an event is from before the session, its
  descriptor was freed while the SYN was handled, and so the flow had a session
  before (`Fresh`, `Watched`). If the client has that one's SYN-ACK, or will have it
  first, nothing is promised; if not, the earlier session was connecting too, and
  the same argument applied to it. A stale EPOLLOUT, which the run
  `TcpRelayStale` is about, establishes the session too early and still writes its
  SYN-ACK ahead of every byte.
- *Relay*: descriptors are shared between two tables and one batch; datagrams are
  numbered, and the invariant says of each queue that what it holds follows what
  was passed on. What is proved of the TCP half is proved of the composition too.
  Every lemma of `TcpRelayProofs` about a step is stated for a state that may also
  hold others' sockets, events and packets (`Foreign`, `Owned`), and takes for
  granted of them only that they are not a flow's. A step of `Relay` is then one of
  the TCP half, or one `Aside` (`NextAside`), which leaves sessions, clients and
  servers as they are, adds or takes a datagram, takes an event, and changes no
  socket but a UDP session's or a free one. A UDP session's descriptor is freed only
  while no event waits, so no event is ever taken for one of its next owner's
  (`AsideSocket`). A datagram that leaves the head of the tunnel
  moves the segments behind it one place up, in their order (`AsideTunnel`), and one
  that joins goes to the end, behind them (`Joins`).
- *SessionTable*: the invariant describes, for each kind of operation, what the
  walk has passed and what it has yet to reach (`Reach`); the refinement then
  needs that a search that has ended without a node has passed every node of its
  bucket.
- *Packets*: what a segment is depends only on the offset it begins at; the
  invariant of a call says where its last segment ended.
- *VpnService*: the invariant is `Silent /\ (calm => Steady)`. `Silent` follows
  monitors and collectors through every interleaving, with no condition. `Steady`
  says that at most one actor is at work and, for its program counter, what of
  the tunnel, thread, monitor and callback exists at that point. Commands and
  callbacks may break it at any step, by making `calm` false; that no other step
  does is what is shown of each.
- *CapControl*: `Served` says, for a connection that nothing has been applied to
  since, how far the service's own call has come (`Halfway`), what of it the two
  published flows show (`Showable`), and that
  the screen's thread is not in one. `Queued` says what the
  queued edits and posts will still do to the settings and the screen, and `Asked`
  that, with them done, the settings are what was entered last.

Model-checked only:

- `RelayIsTransparent`: a refinement, whose proof would need an invariant about the
  streams up and down, what is unread in the socket and what either end was told;
- liveness (`HalfOpenEnds`, `EofReachesClient`, `FinIsAnswered`,
  `ReplyReachesDevice`, `OperationsEnd`, `StopCompletes`), which is out of the
  prover's reach, as is ENABLED;
- `ChecksumsVerify`, whose sums are folds over the data, and the half of
  `SegmentsAdjoin` that concatenates the payloads (`BytesRun`): both need induction
  over a sequence.

## What is not modelled

The speed test's measurement, activities and layout, the notification, the boot
receiver (one conditional call of `start`), the unused Kotlin token bucket, build
files. Within what is modelled: bare ACKs and windows; the contents of UDP
datagrams, so that a read under a cap may truncate one; the tunnel's finite queue
and the result of `write()` to it; fragments; the hash function itself; the
numbers the monitor derives from the counters; the four Boolean settings; the
second `close()` of an epoll descriptor after a failed `engine_start`; onRevoke
arriving on a thread other than the main one.

## What is left

Every safety invariant and action property that a passing run checks is a theorem
of its module, with the exception of `ChecksumsVerify` and `BytesRun`, which with
the liveness properties are out of the prover's reach. The refinement of
`SessionMap` is a theorem. That of `StreamPipe` is model-checked and remains to be
proved, for clients that repeat nothing and sockets with room.

A later version of the engine would be modelled first where the code here ignores a
result: a `write()` to the tunnel that fails is the hazard no property covers, since
nothing is sent again and the client's own timer would have to be modelled.
