----------------------------- MODULE VpnService -----------------------------
(***************************************************************************)
(* The life of the tunnel: SpeedLimiterVpnService, the native engine it    *)
(* starts and stops, and the monitors it leaves running.                   *)
(*                                                                         *)
(* Code runs on the main thread (commands, doStop), in coroutines of       *)
(* Dispatchers.IO (doStart's and the reconnection's), on the system's      *)
(* connectivity thread (callbacks) and on the engine's pthread, and        *)
(* nothing serialises them.  A thread is an actor with a program counter;  *)
(* the shared state is the service's fields, the companion's status, and   *)
(* g_engine, which all instances of the service share.                     *)
(***************************************************************************)
EXTENDS Integers, FiniteSets, Functions

CONSTANTS
  Networks,      (* the networks that may be available                     *)
  Failures,      (* which steps may fail, out of AllFailures               *)
  MaxInstances,  (* bound: instances of the service                        *)
  MaxJobs        (* bound: coroutines launched                             *)

Statuses == {"DISCONNECTED", "CONNECTING", "CONNECTED", "RECONNECTING", "ERROR"}

AllFailures == {
  "start",      \* establish() throws in doStart's coroutine
  "reconnect",  \* establish() throws in the reconnection's
  "kill" }      \* the system kills the process

ASSUME VpnServiceConstants ==
  /\ Failures \subseteq AllFailures
  /\ MaxInstances \in Nat /\ MaxJobs \in Nat

VARIABLES
  status,     (* companion: VpnStatus                                      *)
  cur,        (* companion: the running instance, or 0                     *)
  svc,        (* instance -> its fields                                    *)
  act,        (* actor -> where it is                                      *)
  native,     (* g_engine                                                  *)
  threads,    (* live engine threads                                       *)
  tuns,       (* open tunnel descriptors                                   *)
  monitors,   (* instance -> monitors alive on its scope                   *)
  monitorJob, (* shaper -> the monitor it holds                            *)
  collected,  (* instance -> shapers whose stats its collectors follow     *)
  callbacks,  (* instance -> its registered network callbacks              *)
  heard,      (* callback -> the networks it knows to be available         *)
  made,       (* how many instances and jobs this process has had          *)
  calm        (* history: see Calmly                                       *)

vars == <<status, cur, svc, act, native, threads, tuns, monitors, monitorJob,
          collected, callbacks, heard, made, calm>>

\* What a coroutine's steps leave alone, and what only the monitors touch.
watching == <<monitors, monitorJob, collected>>
network  == <<callbacks, heard>>

Instances == 1 .. MaxInstances
Main   == 0
Jobs   == 1 .. MaxJobs
Actors == {Main} \cup Jobs
Ids    == 0 .. MaxJobs

\* An actor runs one of doStart's coroutine ("start"), the reconnection's
\* ("reconnect"), doStop ("stop") or onDestroy ("destroy"), for instance inst,
\* and may wait for a thread it joins.
Idle == [pc |-> "idle", kind |-> "none", inst |-> 0, joins |-> 0]

\* vpnFd, engine with its shaper (assigned together), netCb, whether stopSelf was
\* called and whether scope is cancelled.
NewService ==
  [vpnFd |-> 0, engine |-> 0, netCb |-> 0, ended |-> FALSE, cancelled |-> FALSE]

\* g_engine: the flag, the thread and the tunnel of the last engine_start, and
\* whether its epoll descriptor is open.  Threads, tunnels, engines with their
\* shapers, monitors and callbacks are named by the job that made them; 0 is none.
StoppedEngine == [running |-> FALSE, thread |-> 0, tun |-> 0, epoll |-> FALSE]

Init ==
  /\ status = "DISCONNECTED"
  /\ cur = 0
  /\ svc = [i \in Instances |-> NewService]
  /\ act = [a \in Actors |-> Idle]
  /\ native = StoppedEngine
  /\ threads = {}
  /\ tuns = {}
  /\ monitors = [i \in Instances |-> {}]
  /\ monitorJob = [a \in Jobs |-> 0]
  /\ collected = [i \in Instances |-> {}]
  /\ callbacks = [i \in Instances |-> {}]
  /\ heard = [a \in Jobs |-> {}]
  /\ made = [insts |-> 0, jobs |-> 0]
  /\ calm = TRUE

-----------------------------------------------------------------------------
\* Actors.

Goto(a, pc) == act' = [act EXCEPT ![a].pc = pc]

Ends(a) == act' = [act EXCEPT ![a] = Idle]

Quiet == \A a \in Actors : act[a].pc = "idle"

MainIsFree == act[Main].pc = "idle"

\* stopSelf was called, and onDestroy is to come.
Ending == cur # 0 /\ svc[cur].ended

\* The service has been calm as long as every command and every callback that
\* did something found nothing else at work, and no reconnection failed.
Calmly(p) == calm' = (calm /\ p)

\* Fault: what an instance launches does not belong to its scope.
ScopedNot(i, children) == children

\* A launch on a cancelled scope does not run.
Scoped(i, children) == IF svc[i].cancelled THEN {} ELSE children

\* A coroutine of instance i begins.
Launched(kind, i) ==
  LET a == made.jobs + 1 IN
  /\ a \in Jobs
  /\ act' = IF Scoped(i, {a}) = {} THEN act
            ELSE [act EXCEPT ![a] = [pc |-> "close", kind |-> kind, inst |-> i, joins |-> 0]]

-----------------------------------------------------------------------------
\* Commands, on the main thread: ACTION_START of the screen, ACTION_STOP of the
\* screen and of the notification, and onRevoke.  They come at any time.  A
\* command finds the instance there is, also one that is ending, or makes one
\* (onCreate).

Instance == IF cur = 0 THEN made.insts + 1 ELSE cur

Commanded ==
  /\ MainIsFree
  /\ Instance \in Instances
  /\ cur' = Instance

Insts == IF cur = 0 THEN made.insts + 1 ELSE made.insts

\* doStart, which refuses only CONNECTED.
Start ==
  /\ Commanded
  /\ IF status = "CONNECTED"
     THEN made' = [made EXCEPT !.insts = Insts] /\ UNCHANGED <<status, act, calm>>
     ELSE /\ status' = "CONNECTING"
          /\ Launched("start", Instance)
          /\ made' = [insts |-> Insts, jobs |-> made.jobs + 1]
          /\ Calmly(Quiet /\ ~Ending /\ status # "RECONNECTING")
  /\ UNCHANGED <<svc, native, threads, tuns, watching, network>>

\* shaper?.stopMonitoring() of instance i.
StopMonitoring(i) ==
  LET shaper == svc[i].engine IN
  IF shaper = 0 THEN UNCHANGED <<monitors, monitorJob>>
  ELSE /\ monitors' = [j \in Instances |-> monitors[j] \ {monitorJob[shaper]}]
       /\ monitorJob' = [monitorJob EXCEPT ![shaper] = 0]

\* The first steps of doStop.
BeginStop(kind, i) ==
  /\ status' = "DISCONNECTED"
  /\ act' = [act EXCEPT ![Main] = [pc |-> "nstop", kind |-> kind, inst |-> i, joins |-> 0]]

Stop ==
  /\ Commanded
  /\ BeginStop("stop", Instance)
  /\ StopMonitoring(Instance)
  /\ made' = [made EXCEPT !.insts = Insts]
  /\ Calmly(Quiet /\ ~Ending)
  /\ UNCHANGED <<svc, native, threads, tuns, collected, network>>

\* onDestroy follows stopSelf: it cancels the scope, and with it all that runs
\* there, before doStop.
Destroy ==
  /\ MainIsFree /\ Ending
  /\ svc' = [svc EXCEPT ![cur].cancelled = TRUE]
  /\ BeginStop("destroy", cur)
  /\ monitors' = [monitors EXCEPT ![cur] = {}]
  /\ collected' = [collected EXCEPT ![cur] = {}]
  /\ UNCHANGED <<cur, native, threads, tuns, monitorJob, network, made, calm>>

-----------------------------------------------------------------------------
\* engine_stop, called by doStop and by establish().

\* engine?.stop(): nothing without an engine, nor if it is not running.
StopsEngine(a) == svc[act[a].inst].engine # 0 /\ native.running

After(a) == IF act[a].kind \in {"stop", "destroy"} THEN "release" ELSE "build"

NothingToStop(a) ==
  /\ act[a].pc = "nstop"
  /\ ~StopsEngine(a)
  /\ Goto(a, After(a))
  /\ UNCHANGED <<status, cur, svc, native, threads, tuns, watching, network, made, calm>>

ClearRunning(a) ==
  /\ act[a].pc = "nstop"
  /\ StopsEngine(a)
  /\ native' = [native EXCEPT !.running = FALSE]
  /\ act' = [act EXCEPT ![a].pc = "join", ![a].joins = native.thread]
  /\ UNCHANGED <<status, cur, svc, threads, tuns, watching, network, made, calm>>

\* pthread_join returns when the thread has; it fails at once for none.
Joined(a) == act[a].joins \notin threads

\* The sessions, the epoll descriptor and the locks go.  The thread and the tunnel
\* of an engine that is not running are not looked at again.
Teardown(a) ==
  /\ act[a].pc = "join"
  /\ Joined(a)
  /\ native' = IF native.running THEN [native EXCEPT !.epoll = FALSE] ELSE StoppedEngine
  /\ act' = [act EXCEPT ![a].pc = After(a), ![a].joins = 0]
  /\ UNCHANGED <<status, cur, svc, threads, tuns, watching, network, made, calm>>

\* Fault: only a failing epoll_wait ends the loop.
LoopEndsLate == ~native.epoll

\* engine_loop looks at the flag between two epoll_waits.
LoopEnds == ~native.running \/ ~native.epoll

ThreadExits(t) ==
  /\ t \in threads
  /\ LoopEnds
  /\ threads' = threads \ {t}
  /\ UNCHANGED <<status, cur, svc, act, native, tuns, watching, network, made, calm>>

-----------------------------------------------------------------------------
\* The rest of doStop and of onDestroy.

\* Fault: the network callback stays registered.
UnregisteredNot(i) == callbacks[i]

\* The callback in netCb is unregistered.
Unregistered(i) == callbacks[i] \ {svc[i].netCb}

\* unregisterNetworkCallback throws for a callback that was not registered yet.
Thrown(i) == svc[i].netCb # 0 /\ svc[i].netCb \notin callbacks[i]

Release ==
  LET i == act[Main].inst IN
  /\ act[Main].pc = "release"
  /\ ~Thrown(i)
  /\ tuns' = tuns \ {svc[i].vpnFd}
  /\ callbacks' = [callbacks EXCEPT ![i] = Unregistered(i)]
  /\ svc' = [svc EXCEPT ![i] = [NewService EXCEPT !.ended = TRUE,
                                                  !.cancelled = svc[i].cancelled]]
  /\ cur' = IF act[Main].kind = "destroy" THEN 0 ELSE cur
  /\ heard' = IF svc[i].netCb = 0 THEN heard ELSE [heard EXCEPT ![svc[i].netCb] = {}]
  /\ Ends(Main)
  /\ UNCHANGED <<status, native, threads, watching, made, calm>>

-----------------------------------------------------------------------------
\* establish(), step by step.

\* vpnFd?.close()
CloseOld(a) ==
  /\ act[a].pc = "close"
  /\ tuns' = tuns \ {svc[act[a].inst].vpnFd}
  /\ Goto(a, "nstop")
  /\ UNCHANGED <<status, cur, svc, native, threads, watching, network, made, calm>>

\* Builder.establish()
Build(a) ==
  /\ act[a].pc = "build" /\ a \in Jobs
  /\ \/ /\ tuns' = tuns \cup {a}
        /\ svc' = [svc EXCEPT ![act[a].inst].vpnFd = a]
        /\ Goto(a, "wire")
     \/ /\ act[a].kind \in Failures
        /\ Goto(a, "fail")
        /\ UNCHANGED <<tuns, svc>>
  /\ UNCHANGED <<status, cur, native, threads, watching, network, made, calm>>

\* A new Tun2SocksEngine and its TrafficShaper.
Wire(a) ==
  /\ act[a].pc = "wire"
  /\ svc' = [svc EXCEPT ![act[a].inst].engine = a]
  /\ Goto(a, "launch")
  /\ UNCHANGED <<status, cur, native, threads, tuns, watching, network, made, calm>>

\* engine_start clears g_engine and sets running before anything can fail; the
\* fields are read again, and are null after a doStop.
Started(a, thread) ==
  native' = [running |-> TRUE, thread |-> thread, tun |-> svc[act[a].inst].vpnFd,
             epoll |-> thread # 0]

NativeStart(a) ==
  LET s == svc[act[a].inst] IN
  /\ act[a].pc = "launch"
  /\ \/ /\ s.vpnFd # 0 /\ s.engine # 0
        /\ Started(a, a)
        /\ threads' = threads \cup {a}
        /\ Goto(a, IF act[a].kind = "start" THEN "callback" ELSE "caps")
     \/ /\ act[a].kind \in Failures /\ s.vpnFd # 0 /\ s.engine # 0
        /\ Started(a, 0)
        /\ Goto(a, "fail")
        /\ UNCHANGED threads
     \/ /\ s.vpnFd = 0 \/ s.engine = 0
        /\ Goto(a, "fail")
        /\ UNCHANGED <<native, threads>>
  /\ UNCHANGED <<status, cur, svc, tuns, watching, network, made, calm>>

-----------------------------------------------------------------------------
\* The coroutines around establish().

\* registerNetCb makes the callback and registers what netCb then holds; netCb!!
\* throws after a doStop.
MakeNetCb(a) ==
  /\ act[a].pc = "callback"
  /\ svc' = [svc EXCEPT ![act[a].inst].netCb = a]
  /\ Goto(a, "register")
  /\ UNCHANGED <<status, cur, native, threads, tuns, watching, network, made, calm>>

RegisterNetCb(a) ==
  LET i == act[a].inst IN
  /\ act[a].pc = "register"
  /\ callbacks' = [callbacks EXCEPT ![i] = @ \cup ({svc[i].netCb} \ {0})]
  /\ Goto(a, IF svc[i].netCb = 0 THEN "fail" ELSE "connected")
  /\ UNCHANGED <<status, cur, svc, native, threads, tuns, watching, heard, made, calm>>

\* doStart's coroutine is connected before it applies the caps and starts the
\* monitor, the reconnection's after.
Connected(a) ==
  /\ act[a].pc = "connected"
  /\ status' = "CONNECTED"
  /\ IF act[a].kind = "start" THEN Goto(a, "caps") ELSE Ends(a)
  /\ UNCHANGED <<cur, svc, native, threads, tuns, watching, network, made, calm>>

\* applySavedCaps reads the settings, where a cancelled coroutine ends with an
\* exception that the same catch takes.
ApplySavedCaps(a) ==
  /\ act[a].pc = "caps"
  /\ Goto(a, IF svc[act[a].inst].cancelled THEN "fail" ELSE "monitor")
  /\ UNCHANGED <<status, cur, svc, native, threads, tuns, watching, network, made, calm>>

\* startMonitoring, and, in doStart's coroutine, collectStats.  The monitor the
\* shaper held before is forgotten, not cancelled.
StartMonitoring(a) ==
  LET i == act[a].inst
      shaper == svc[i].engine IN
  /\ act[a].pc = "monitor"
  /\ IF shaper = 0 THEN UNCHANGED watching
     ELSE /\ monitors' = [monitors EXCEPT ![i] = @ \cup Scoped(i, {a})]
          /\ monitorJob' = [monitorJob EXCEPT ![shaper] = a]
          /\ collected' = IF act[a].kind = "start"
                          THEN [collected EXCEPT ![i] = @ \cup Scoped(i, {shaper})]
                          ELSE collected
  /\ IF act[a].kind = "start" THEN Ends(a) ELSE Goto(a, "connected")
  /\ UNCHANGED <<status, cur, svc, native, threads, tuns, network, made, calm>>

Fail(a) ==
  /\ act[a].pc = "fail"
  /\ status' = "ERROR"
  /\ Ends(a)
  /\ Calmly(act[a].kind = "start")
  /\ UNCHANGED <<cur, svc, native, threads, tuns, watching, network, made>>

-----------------------------------------------------------------------------
\* The network callbacks, on the connectivity thread.  Each is told of the
\* networks there are when it is registered, and of those that come and go.

\* Fault: the monitor of a lost network goes on.
KeptMonitors(i) == UNCHANGED <<monitors, monitorJob>>

LeftMonitors(i) == StopMonitoring(i)

OnLost(i, c, n) ==
  /\ c \in callbacks[i] /\ n \in heard[c]
  /\ heard' = [heard EXCEPT ![c] = @ \ {n}]
  /\ IF status = "CONNECTED"
     THEN status' = "RECONNECTING" /\ LeftMonitors(i) /\ Calmly(Quiet)
     ELSE UNCHANGED <<status, monitors, monitorJob, calm>>
  /\ UNCHANGED <<cur, svc, act, native, threads, tuns, collected, callbacks, made>>

OnAvailable(i, c, n) ==
  /\ c \in callbacks[i] /\ n \notin heard[c]
  /\ heard' = [heard EXCEPT ![c] = @ \cup {n}]
  /\ IF status = "RECONNECTING"
     THEN /\ Launched("reconnect", i)
          /\ made' = [made EXCEPT !.jobs = @ + 1]
          /\ Calmly(Quiet)
     ELSE UNCHANGED <<act, made, calm>>
  /\ UNCHANGED <<status, cur, svc, native, threads, tuns, watching, callbacks>>

-----------------------------------------------------------------------------
\* The process dies, killed by the system or by an exception nobody takes.  The
\* kernel and the system clean up after it, and a started service (START_STICKY)
\* comes back as a new instance with no command.

Restarted == IF cur # 0 /\ ~Ending THEN 1 ELSE 0

ProcessDies ==
  /\ Restarted \in 0 .. MaxInstances
  /\ status' = "DISCONNECTED"
  /\ cur' = Restarted
  /\ made' = [insts |-> Restarted, jobs |-> 0]
  /\ svc' = [i \in Instances |-> NewService]
  /\ act' = [a \in Actors |-> Idle]
  /\ native' = StoppedEngine
  /\ threads' = {} /\ tuns' = {}
  /\ monitors' = [i \in Instances |-> {}]
  /\ monitorJob' = [a \in Jobs |-> 0]
  /\ collected' = [i \in Instances |-> {}]
  /\ callbacks' = [i \in Instances |-> {}]
  /\ heard' = [a \in Jobs |-> {}]
  /\ calm' = TRUE

Killed == "kill" \in Failures /\ ProcessDies

Crash ==
  /\ act[Main].pc = "release"
  /\ Thrown(act[Main].inst)
  /\ ProcessDies

-----------------------------------------------------------------------------

Coroutine(a) ==
  \/ CloseOld(a) \/ Build(a) \/ Wire(a) \/ NativeStart(a) \/ MakeNetCb(a)
  \/ RegisterNetCb(a) \/ Connected(a) \/ ApplySavedCaps(a) \/ StartMonitoring(a) \/ Fail(a)

EngineStop(a) == NothingToStop(a) \/ ClearRunning(a) \/ Teardown(a)

Next ==
  \/ Start \/ Stop \/ Destroy \/ Release \/ Killed \/ Crash
  \/ \E a \in Actors : EngineStop(a)
  \/ \E a \in Jobs : Coroutine(a)
  \/ \E t \in Jobs : ThreadExits(t)
  \/ \E i \in Instances, c \in Jobs, n \in Networks :
       OnLost(i, c, n) \/ OnAvailable(i, c, n)

Spec == Init /\ [][Next]_vars

\* The engine's threads, and the one that waits for them, go on when they can.
EngineSpec ==
  /\ Spec
  /\ WF_vars(EngineStop(Main))
  /\ \A t \in Jobs : WF_vars(ThreadExits(t))

\* So do the main thread and the coroutines; commands, networks and kills need not
\* come.
FairSpec ==
  /\ EngineSpec
  /\ WF_vars(Release) /\ WF_vars(Crash) /\ WF_vars(Destroy)
  /\ \A a \in Jobs : WF_vars(EngineStop(a)) /\ WF_vars(Coroutine(a))

-----------------------------------------------------------------------------

TypeOK ==
  /\ status \in Statuses /\ calm \in BOOLEAN
  /\ cur \in 0 .. made.insts /\ made.insts \in 0 .. MaxInstances
  /\ made.jobs \in 0 .. MaxJobs
  /\ svc \in [Instances -> [vpnFd : Ids, engine : Ids, netCb : Ids,
                            ended : BOOLEAN, cancelled : BOOLEAN]]
  /\ native \in [running : BOOLEAN, thread : Ids, tun : Ids, epoll : BOOLEAN]
  /\ threads \cup tuns \subseteq Jobs
  /\ monitorJob \in [Jobs -> Ids]
  /\ {monitors, collected, callbacks} \subseteq [Instances -> SUBSET Jobs]
  /\ heard \in [Jobs -> SUBSET Networks]

\* However commands, coroutines, callbacks and crashes are interleaved, only the
\* instance there is samples traffic and reports it: a destroyed service is
\* silent, also the coroutines and callbacks it left behind, because all it
\* launches is on the scope that onDestroy cancels.
DestroyedIsSilent ==
  TypeOK /\ \A i \in Instances \ {cur} : monitors[i] = {} /\ collected[i] = {}

\* What CONNECTED says of an instance: its tunnel is open, the engine's one
\* thread serves that tunnel, it has one network callback, the one it holds, and
\* one monitor, the one its shaper holds.
Serving(s) ==
  /\ s.vpnFd \in tuns
  /\ native.running /\ native.tun = s.vpnFd /\ threads = {native.thread}
  /\ callbacks[cur] = {s.netCb}
  /\ monitors[cur] = {monitorJob[s.engine]}

\* CONNECTED is what it says in a service that has been calm: through starts and
\* stops, failing starts, reconnections, instances that come and go and process
\* deaths, in any sequence, as long as none met another under way.
ConnectedWorks ==
  calm /\ Quiet /\ status = "CONNECTED" => cur # 0 /\ Serving(svc[cur])

\* In a service that has been calm, a stop that has run its course leaves nothing
\* behind of any instance there was.
StoppedClean ==
  calm /\ Quiet /\ status = "DISCONNECTED" /\ ~Ending =>
    /\ tuns = {} /\ threads = {} /\ ~native.running
    /\ \A i \in Instances :
         callbacks[i] = {} /\ monitors[i] = {} /\ collected[i] = {}

\* doStop and onDestroy, which wait on the main thread for the engine to end
\* (pthread_join), do not wait for ever, whatever else goes on, unless an
\* engine_start sets the flag again that tells the engine to end.
StopCompletes ==
  act[Main].pc = "join" ~> act[Main].pc # "join" \/ native.running

\* "Auto-reconnect" (strings.xml): while the service knows of a network that is
\* available, RECONNECTING does not last.
Reconnects ==
  status = "RECONNECTING" /\ (\E c \in Jobs : heard[c] # {})
    ~> status # "RECONNECTING" \/ \A c \in Jobs : heard[c] = {}

=============================================================================
