--------------------------- MODULE VpnServiceProofs ---------------------------
(***************************************************************************)
(* Proofs about VpnService for every set of networks, every bound, every   *)
(* failure and every interleaving.                                         *)
(*                                                                         *)
(* The first half is about every behaviour: what is watched belongs to the *)
(* instance there is (Silent).  The second is about a service for as long  *)
(* as it has been calm; what it holds then is determined by its status and *)
(* by the one actor under way (Steady).                                    *)
(***************************************************************************)
EXTENDS VpnService, FiniteSetTheorems, TLAPS

Services ==
  [vpnFd : Ids, engine : Ids, netCb : Ids, ended : BOOLEAN, cancelled : BOOLEAN]

Counts == [insts : 0 .. MaxInstances, jobs : 0 .. MaxJobs]

Engines == [running : BOOLEAN, thread : Ids, tun : Ids, epoll : BOOLEAN]

ActorStates ==
  [pc : {"idle", "close", "nstop", "join", "release", "build", "wire", "launch",
         "callback", "register", "connected", "caps", "monitor", "fail"},
   kind : {"none", "start", "reconnect", "stop", "destroy"},
   inst : 0 .. MaxInstances, joins : Ids]

At(a, i) == act[a].pc # "idle" /\ act[a].inst = i

-----------------------------------------------------------------------------
(***************************************************************************)
(* Types.                                                                  *)
(***************************************************************************)

Typed ==
  /\ TypeOK
  /\ act \in [Actors -> ActorStates]
  /\ made \in Counts
  /\ \A a \in Actors : act[a].pc # "idle" => act[a].inst \in 1 .. made.insts
  /\ \A i \in Instances : callbacks[i] # {} => i <= made.insts

LEMMA Constants ==
  /\ Main \in Actors /\ Jobs \subseteq Actors /\ Jobs \subseteq Ids /\ 0 \in Ids
  /\ Main \notin Jobs /\ 0 \notin Jobs
  /\ MaxInstances \in Nat /\ MaxJobs \in Nat
  /\ Idle \in ActorStates /\ NewService \in Services /\ StoppedEngine \in Engines
  BY VpnServiceConstants DEF Main, Actors, Jobs, Ids, Idle, ActorStates, NewService,
     Services, StoppedEngine, Engines

\* TypeOK, one variable at a time.
LEMMA TypesOf ==
  ASSUME Typed
  PROVE  /\ status \in Statuses /\ calm \in BOOLEAN
         /\ cur \in 0 .. made.insts /\ made \in Counts
         /\ svc \in [Instances -> Services] /\ native \in Engines
         /\ threads \subseteq Jobs /\ tuns \subseteq Jobs
         /\ monitorJob \in [Jobs -> Ids]
         /\ monitors \in [Instances -> SUBSET Jobs]
         /\ collected \in [Instances -> SUBSET Jobs]
         /\ callbacks \in [Instances -> SUBSET Jobs]
         /\ heard \in [Jobs -> SUBSET Networks]
         /\ act \in [Actors -> ActorStates]
  BY DEF Typed, TypeOK, Services, Engines

\* And back.
LEMMA TypesBack ==
  ASSUME status' \in Statuses, calm' \in BOOLEAN,
         cur' \in 0 .. made'.insts, made' \in Counts,
         svc' \in [Instances -> Services], native' \in Engines,
         threads' \subseteq Jobs, tuns' \subseteq Jobs,
         monitorJob' \in [Jobs -> Ids],
         monitors' \in [Instances -> SUBSET Jobs],
         collected' \in [Instances -> SUBSET Jobs],
         callbacks' \in [Instances -> SUBSET Jobs],
         heard' \in [Jobs -> SUBSET Networks],
         act' \in [Actors -> ActorStates],
         \A a \in Actors : act'[a].pc # "idle" => act'[a].inst \in 1 .. made'.insts,
         \A i \in Instances : callbacks'[i] # {} => i <= made'.insts
  PROVE  Typed'
  BY DEF Typed, TypeOK, Services, Engines, Counts

\* An actor at work and its instance.
LEMMA AtWorkAt ==
  ASSUME Typed, NEW a \in Actors, act[a].pc # "idle"
  PROVE  /\ act[a] \in ActorStates /\ act[a].inst \in Instances
         /\ At(a, act[a].inst) /\ svc[act[a].inst] \in Services
         /\ act[a].inst \in 0 .. MaxInstances /\ act[a].inst \in 1 .. made.insts
  <1>1. /\ svc \in [Instances -> Services] /\ act \in [Actors -> ActorStates]
        /\ made \in Counts
    BY TypesOf
  <1>2. act[a].inst \in 1 .. made.insts /\ made.insts \in 0 .. MaxInstances
    BY <1>1 DEF Typed, Counts
  <1>3. act[a].inst \in Instances /\ act[a].inst \in 0 .. MaxInstances
    BY <1>2, Constants DEF Instances
  <1> QED
    BY <1>1, <1>2, <1>3 DEF At

\* An actor that goes on or ends remains the one of its instance.
LEMMA MovesOn ==
  ASSUME Typed, NEW a \in Actors, act[a].pc # "idle",
         NEW s \in ActorStates,
         s.pc = "idle" \/ (s.inst = act[a].inst /\ s.kind = act[a].kind),
         act' = [act EXCEPT ![a] = s]
  PROVE  /\ act' \in [Actors -> ActorStates]
         /\ \A b \in Actors : act'[b].pc # "idle" => act'[b].inst \in 1 .. made.insts
         /\ act'[Main].pc # "idle" =>
              /\ act[Main].pc # "idle"
              /\ act'[Main].inst = act[Main].inst /\ act'[Main].kind = act[Main].kind
         /\ \A b \in Actors, i \in 0 .. MaxInstances : At(b, i)' => At(b, i)
  <1>1. act \in [Actors -> ActorStates] /\ Main \in Actors
    BY TypesOf, Constants
  <1> QED
    BY <1>1 DEF Typed, At

\* Where an actor goes, and that it ends.
LEMMA Goes ==
  ASSUME Typed, NEW a \in Actors, act[a].pc # "idle",
         NEW pc \in {"idle", "close", "nstop", "join", "release", "build", "wire",
                     "launch", "callback", "register", "connected", "caps", "monitor",
                     "fail"},
         Goto(a, pc) \/ Ends(a)
  PROVE  \E s \in ActorStates :
           /\ s.pc = "idle" \/ (s.inst = act[a].inst /\ s.kind = act[a].kind)
           /\ act' = [act EXCEPT ![a] = s]
  <1>1. act[a] \in ActorStates
    BY TypesOf
  <1>2. CASE Goto(a, pc)
    <2> DEFINE s == [act[a] EXCEPT !.pc = pc]
    <2>1. s \in ActorStates /\ s.inst = act[a].inst /\ s.kind = act[a].kind
      BY <1>1 DEF ActorStates
    <2>2. act' = [act EXCEPT ![a] = s]
      BY <1>2 DEF Goto
    <2> QED
      BY <2>1, <2>2
  <1>3. CASE Ends(a)
    BY <1>3, Constants DEF Ends, Idle
  <1> QED
    BY <1>2, <1>3

\* The steps of an actor that change its place alone, or with it fields of its
\* own instance, the engine, the threads, the tunnels and the monitors.
LEMMA ActorTyped ==
  ASSUME Typed, NEW a \in Actors, EngineStop(a) \/ (a \in Jobs /\ Coroutine(a))
  PROVE  /\ Typed' /\ cur' = cur /\ made' = made
         /\ \A i \in Instances : callbacks'[i] # {} => callbacks[i] # {} \/ i = act[a].inst
         /\ At(a, act[a].inst) /\ act[a].inst \in Instances
         /\ act'[Main].pc # "idle" =>
              /\ act[Main].pc # "idle"
              /\ act'[Main].inst = act[Main].inst /\ act'[Main].kind = act[Main].kind
         /\ \A b \in Actors, i \in 0 .. MaxInstances : At(b, i)' => At(b, i)
  <1> DEFINE i == act[a].inst
  <1>1. act[a].pc # "idle"
    BY DEF EngineStop, NothingToStop, ClearRunning, Teardown, Coroutine, CloseOld, Build,
       Wire, NativeStart, MakeNetCb, RegisterNetCb, Connected, ApplySavedCaps,
       StartMonitoring, Fail
  <1>2. /\ act[a] \in ActorStates /\ i \in Instances /\ svc[i] \in Services
        /\ At(a, i)
    BY <1>1, AtWorkAt
  <1>3. PICK s \in ActorStates :
          /\ s.pc = "idle" \/ (s.inst = act[a].inst /\ s.kind = act[a].kind)
          /\ act' = [act EXCEPT ![a] = s]
    <2>1. CASE ClearRunning(a)
      <3> DEFINE s == [act[a] EXCEPT !.pc = "join", !.joins = native.thread]
      <3>1. native.thread \in Ids
        BY TypesOf DEF Engines
      <3>2. s \in ActorStates /\ s.inst = act[a].inst /\ s.kind = act[a].kind
        BY <1>2, <3>1 DEF ActorStates
      <3>3. act' = [act EXCEPT ![a] = s]
        BY <2>1 DEF ClearRunning
      <3> QED
        BY <3>2, <3>3
    <2>2. CASE Teardown(a)
      <3> DEFINE s == [act[a] EXCEPT !.pc = After(a), !.joins = 0]
      <3>1. s \in ActorStates /\ s.inst = act[a].inst /\ s.kind = act[a].kind
        BY <1>2, Constants DEF ActorStates, After
      <3>2. act' = [act EXCEPT ![a] = s]
        BY <2>2 DEF Teardown
      <3> QED
        BY <3>1, <3>2
    <2>3. CASE NothingToStop(a) \/ Coroutine(a)
      <3>1. PICK pc \in {"idle", "close", "nstop", "join", "release", "build", "wire",
                         "launch", "callback", "register", "connected", "caps", "monitor",
                         "fail"} : Goto(a, pc) \/ Ends(a)
        BY <2>3 DEF NothingToStop, After, Coroutine, CloseOld, Build, Wire, NativeStart,
           MakeNetCb, RegisterNetCb, Connected, ApplySavedCaps, StartMonitoring, Fail
      <3> QED
        BY <1>1, <3>1, Goes
    <2> QED
      BY <2>1, <2>2, <2>3 DEF EngineStop
  <1>4. /\ act' \in [Actors -> ActorStates]
        /\ \A b \in Actors : act'[b].pc # "idle" => act'[b].inst \in 1 .. made.insts
        /\ act'[Main].pc # "idle" =>
             /\ act[Main].pc # "idle"
             /\ act'[Main].inst = act[Main].inst /\ act'[Main].kind = act[Main].kind
        /\ \A b \in Actors, j \in 0 .. MaxInstances : At(b, j)' => At(b, j)
    BY <1>1, <1>3, MovesOn
  <1>5. cur' = cur /\ made' = made
    BY DEF EngineStop, NothingToStop, ClearRunning, Teardown, Coroutine, CloseOld, Build,
       Wire, NativeStart, MakeNetCb, RegisterNetCb, Connected, ApplySavedCaps,
       StartMonitoring, Fail
  <1>6. status' \in Statuses /\ calm' \in BOOLEAN
    BY TypesOf DEF EngineStop, NothingToStop, ClearRunning, Teardown, Coroutine, CloseOld,
       Build, Wire, NativeStart, MakeNetCb, RegisterNetCb, Connected, ApplySavedCaps,
       StartMonitoring, Fail, Calmly, Statuses
  <1>7. threads' \subseteq Jobs /\ tuns' \subseteq Jobs
    BY TypesOf DEF EngineStop, NothingToStop, ClearRunning, Teardown, Coroutine, CloseOld,
       Build, Wire, NativeStart, MakeNetCb, RegisterNetCb, Connected, ApplySavedCaps,
       StartMonitoring, Fail
  <1>8. native' \in Engines
    <2>1. ASSUME NEW t \in Ids, Started(a, t)
          PROVE  native' \in Engines
      <3>1. svc[i].vpnFd \in Ids
        BY <1>2 DEF Services
      <3>2. \E b \in BOOLEAN :
              native' = [running |-> TRUE, thread |-> t, tun |-> svc[i].vpnFd, epoll |-> b]
        BY <2>1 DEF Started
      <3> QED
        BY <3>1, <3>2 DEF Engines
    <2>2. CASE \E t \in Ids : Started(a, t)
      BY <2>1, <2>2
    <2>3. native \in Engines /\ StoppedEngine \in Engines
      BY TypesOf, Constants
    <2>4. /\ [native EXCEPT !.running = FALSE] \in Engines
          /\ [native EXCEPT !.epoll = FALSE] \in Engines
      BY <2>3 DEF Engines
    <2>5. CASE a \in Jobs /\ Coroutine(a)
      <3>1. native' = native \/ Started(a, a) \/ Started(a, 0)
        BY <2>5 DEF Coroutine, CloseOld, Build, Wire, NativeStart, MakeNetCb,
           RegisterNetCb, Connected, ApplySavedCaps, StartMonitoring, Fail
      <3>2. a \in Ids /\ 0 \in Ids
        BY <2>5, Constants
      <3> QED
        BY <2>2, <2>3, <3>1, <3>2
    <2>6. CASE EngineStop(a)
      BY <2>3, <2>4, <2>6 DEF EngineStop, NothingToStop, ClearRunning, Teardown
    <2> QED
      BY <2>5, <2>6
  <1>9. svc' \in [Instances -> Services]
    <2>1. CASE a \in Jobs /\ (Build(a) \/ Wire(a) \/ MakeNetCb(a))
      <3>1. PICK t \in {[svc[i] EXCEPT !.vpnFd = a], [svc[i] EXCEPT !.engine = a],
                        [svc[i] EXCEPT !.netCb = a], svc[i]} :
              svc' = [svc EXCEPT ![i] = t]
        BY <1>2, <2>1, TypesOf DEF Build, Wire, MakeNetCb
      <3>2. a \in Ids
        BY <2>1, Constants
      <3>3. t \in Services
        BY <1>2, <3>2 DEF Services
      <3>4. svc \in [Instances -> Services]
        BY TypesOf
      <3> QED
        BY <1>2, <3>1, <3>3, <3>4
    <2>2. CASE ~(a \in Jobs /\ (Build(a) \/ Wire(a) \/ MakeNetCb(a)))
      <3>1. svc' = svc
        BY <2>2 DEF EngineStop, NothingToStop, ClearRunning, Teardown, Coroutine, CloseOld,
           NativeStart, RegisterNetCb, Connected, ApplySavedCaps, StartMonitoring, Fail
      <3> QED
        BY <3>1, TypesOf
    <2> QED
      BY <2>1, <2>2
  <1>10. /\ callbacks' \in [Instances -> SUBSET Jobs] /\ heard' \in [Jobs -> SUBSET Networks]
         /\ \A j \in Instances : callbacks'[j] # {} => callbacks[j] # {} \/ j = i
    <2>1. {svc[i].netCb} \ {0} \subseteq Jobs
      BY <1>2 DEF Services, Ids, Jobs
    <2>2. callbacks \in [Instances -> SUBSET Jobs] /\ heard \in [Jobs -> SUBSET Networks]
      BY TypesOf
    <2>3. heard' = heard
      BY DEF EngineStop, NothingToStop, ClearRunning, Teardown, Coroutine, CloseOld, Build,
         Wire, NativeStart, MakeNetCb, RegisterNetCb, Connected, ApplySavedCaps,
         StartMonitoring, Fail, network
    <2>4. \/ callbacks' = callbacks
          \/ callbacks' = [callbacks EXCEPT ![i] = @ \cup ({svc[i].netCb} \ {0})]
      BY DEF EngineStop, NothingToStop, ClearRunning, Teardown, Coroutine, CloseOld, Build,
         Wire, NativeStart, MakeNetCb, RegisterNetCb, Connected, ApplySavedCaps,
         StartMonitoring, Fail, network
    <2> QED
      BY <2>1, <2>2, <2>3, <2>4
  <1>11. /\ monitorJob' \in [Jobs -> Ids]
         /\ monitors' \in [Instances -> SUBSET Jobs]
         /\ collected' \in [Instances -> SUBSET Jobs]
    <2>1. /\ monitorJob \in [Jobs -> Ids]
          /\ monitors \in [Instances -> SUBSET Jobs]
          /\ collected \in [Instances -> SUBSET Jobs]
      BY TypesOf
    <2>2. CASE a \in Jobs /\ StartMonitoring(a) /\ svc[i].engine # 0
      <3>1. a \in Ids /\ svc[i].engine \in Jobs
        BY <1>2, <2>2, Constants DEF Services, Ids, Jobs
      <3>2. Scoped(i, {a}) \subseteq Jobs /\ Scoped(i, {svc[i].engine}) \subseteq Jobs
        BY <2>2, <3>1 DEF Scoped
      <3>3. /\ monitors' = [monitors EXCEPT ![i] = @ \cup Scoped(i, {a})]
            /\ monitorJob' = [monitorJob EXCEPT ![svc[i].engine] = a]
            /\ collected' \in {[collected EXCEPT ![i] = @ \cup Scoped(i, {svc[i].engine})],
                               collected}
        BY <2>2 DEF StartMonitoring
      <3> QED
        BY <2>1, <3>1, <3>2, <3>3
    <2>3. CASE ~(a \in Jobs /\ StartMonitoring(a) /\ svc[i].engine # 0)
      <3>1. UNCHANGED watching
        <4>1. CASE EngineStop(a)
          BY <4>1 DEF EngineStop, NothingToStop, ClearRunning, Teardown
        <4>2. CASE CloseOld(a) \/ Build(a) \/ Wire(a) \/ NativeStart(a) \/ MakeNetCb(a)
          BY <4>2 DEF CloseOld, Build, Wire, NativeStart, MakeNetCb
        <4>3. CASE RegisterNetCb(a) \/ Connected(a) \/ ApplySavedCaps(a) \/ Fail(a)
          BY <4>3 DEF RegisterNetCb, Connected, ApplySavedCaps, Fail
        <4>4. CASE a \in Jobs /\ StartMonitoring(a)
          BY <2>3, <4>4 DEF StartMonitoring
        <4> QED
          BY <4>1, <4>2, <4>3, <4>4 DEF Coroutine
      <3> QED
        BY <2>1, <3>1 DEF watching
    <2> QED
      BY <2>2, <2>3
  <1>12. cur' \in 0 .. made'.insts /\ made' \in Counts
    BY <1>5, TypesOf
  <1>13. \A j \in Instances : callbacks'[j] # {} => j <= made'.insts
    <2>1. i <= made.insts
      BY <1>1, AtWorkAt DEF Instances
    <2> QED
      BY <1>5, <1>10, <2>1 DEF Typed
  <1> QED
    BY <1>4, <1>5, <1>6, <1>7, <1>8, <1>9, <1>10, <1>11, <1>12, <1>13,
       <1>2, TypesBack

\* A launch.
LEMMA LaunchTyped ==
  ASSUME Typed, NEW kind \in {"start", "reconnect"}, NEW i \in Instances,
         Launched(kind, i), made' \in Counts,
         made'.jobs = made.jobs + 1, i <= made'.insts, made'.insts >= made.insts
  PROVE  /\ act' \in [Actors -> ActorStates]
         /\ \A a \in Actors : act'[a].pc # "idle" => act'[a].inst \in 1 .. made'.insts
         /\ act'[Main] = act[Main]
         /\ \A a \in Actors, j \in 0 .. MaxInstances : At(a, j)' => At(a, j) \/ j = i
         /\ svc[i].cancelled => act' = act
  <1> DEFINE b == made.jobs + 1
             s == [pc |-> "close", kind |-> kind, inst |-> i, joins |-> 0]
  <1>1. b \in Jobs /\ act' \in {act, [act EXCEPT ![b] = s]}
        /\ (svc[i].cancelled => act' = act)
    BY DEF Launched, Scoped
  <1>2. s \in ActorStates
    BY Constants DEF ActorStates, Instances
  <1>3. /\ act \in [Actors -> ActorStates] /\ made \in Counts
        /\ \A a \in Actors : act[a].pc # "idle" => act[a].inst \in 1 .. made.insts
    BY TypesOf DEF Typed
  <1>4. b \in Actors /\ Main # b /\ Main \in Actors
    BY <1>1, Constants
  <1> HIDE DEF b
  <1>5. s.inst = i /\ i \in 1 .. made'.insts /\ made'.insts \in Nat /\ made.insts \in Nat
    BY <1>3, Constants DEF Instances, Counts
  <1> HIDE DEF s
  <1>6. CASE act' = act
    BY <1>3, <1>5, <1>1, <1>6 DEF At
  <1>7. CASE act' = [act EXCEPT ![b] = s]
    BY <1>1, <1>2, <1>3, <1>4, <1>5, <1>7 DEF At
  <1> QED
    BY <1>1, <1>6, <1>7

\* A monitor that is stopped.
LEMMA StopMonitoringTyped ==
  ASSUME Typed, NEW i \in Instances,
         StopMonitoring(i) \/ UNCHANGED <<monitors, monitorJob>>
  PROVE  /\ monitors' \in [Instances -> SUBSET Jobs] /\ monitorJob' \in [Jobs -> Ids]
         /\ \A j \in Instances : monitors'[j] \subseteq monitors[j]
  <1>1. /\ monitors \in [Instances -> SUBSET Jobs] /\ monitorJob \in [Jobs -> Ids]
        /\ svc[i] \in Services
    BY TypesOf
  <1>2. CASE UNCHANGED <<monitors, monitorJob>>
    BY <1>1, <1>2
  <1>3. CASE StopMonitoring(i) /\ svc[i].engine # 0
    <2> DEFINE m == monitorJob[svc[i].engine]
    <2>1. /\ monitors' = [j \in Instances |-> monitors[j] \ {m}]
          /\ monitorJob' = [monitorJob EXCEPT ![svc[i].engine] = 0]
      BY <1>3 DEF StopMonitoring
    <2> HIDE DEF m
    <2> QED
      BY <1>1, <2>1, Constants
  <1> QED
    BY <1>2, <1>3 DEF StopMonitoring

\* The callbacks.
LEMMA NetTyped ==
  ASSUME Typed, NEW i \in Instances, NEW c \in Jobs, NEW n \in Networks,
         OnLost(i, c, n) \/ OnAvailable(i, c, n)
  PROVE  /\ Typed'
         /\ act'[Main] = act[Main]
         /\ \A a \in Actors, j \in 0 .. MaxInstances : At(a, j)' => At(a, j) \/ j = i
         /\ \A j \in Instances : monitors'[j] \subseteq monitors[j]
         /\ callbacks[i] # {} /\ made'.insts = made.insts
         /\ UNCHANGED <<svc, cur, collected, callbacks>>
  <1>1. /\ heard \in [Jobs -> SUBSET Networks] /\ made \in Counts
        /\ status \in Statuses /\ calm \in BOOLEAN
        /\ act \in [Actors -> ActorStates]
        /\ monitors \in [Instances -> SUBSET Jobs] /\ monitorJob \in [Jobs -> Ids]
        /\ callbacks \in [Instances -> SUBSET Jobs]
    BY TypesOf
  <1>2. /\ heard' \in [Jobs -> SUBSET Networks] /\ callbacks[i] # {}
        /\ UNCHANGED <<svc, cur, native, threads, tuns, collected, callbacks>>
        /\ i <= made.insts
    BY <1>1 DEF OnLost, OnAvailable, watching, Typed
  <1>3. status' \in Statuses /\ calm' \in BOOLEAN
    BY <1>1 DEF OnLost, OnAvailable, Statuses, Calmly
  <1>4. /\ monitors' \in [Instances -> SUBSET Jobs] /\ monitorJob' \in [Jobs -> Ids]
        /\ \A j \in Instances : monitors'[j] \subseteq monitors[j]
    <2>1. StopMonitoring(i) \/ UNCHANGED <<monitors, monitorJob>>
      BY DEF OnLost, OnAvailable, watching, LeftMonitors
    <2> QED
      BY <2>1, StopMonitoringTyped
  <1>5. CASE UNCHANGED <<act, made>>
    <2>1. /\ act' \in [Actors -> ActorStates] /\ made' \in Counts
          /\ act'[Main] = act[Main] /\ made'.insts = made.insts
          /\ \A a \in Actors : act'[a].pc # "idle" => act'[a].inst \in 1 .. made'.insts
          /\ \A a \in Actors, j \in 0 .. MaxInstances : At(a, j)' => At(a, j) \/ j = i
      BY <1>1, <1>5 DEF Typed, At
    <2>2. Typed'
      BY <1>2, <1>3, <1>4, <1>5, <2>1, TypesOf, TypesBack DEF Typed
    <2> QED
      BY <1>2, <1>4, <2>1, <2>2
  <1>6. CASE Launched("reconnect", i) /\ made' = [made EXCEPT !.jobs = @ + 1]
    <2>1. made.jobs + 1 \in Jobs
      BY <1>6 DEF Launched
    <2>2. made' \in Counts /\ made'.jobs = made.jobs + 1 /\ made'.insts = made.insts
          /\ made'.insts >= made.insts /\ i <= made'.insts
      BY <1>1, <1>2, <1>6, <2>1, Constants DEF Counts, Jobs
    <2>3. /\ act' \in [Actors -> ActorStates]
          /\ \A a \in Actors : act'[a].pc # "idle" => act'[a].inst \in 1 .. made'.insts
          /\ act'[Main] = act[Main]
          /\ \A a \in Actors, j \in 0 .. MaxInstances : At(a, j)' => At(a, j) \/ j = i
      BY <1>6, <2>2, LaunchTyped
    <2>4. Typed'
      BY <1>2, <1>3, <1>4, <2>2, <2>3, TypesOf, TypesBack DEF Typed
    <2> QED
      BY <1>2, <1>4, <2>2, <2>3, <2>4
  <1> QED
    BY <1>5, <1>6 DEF OnLost, OnAvailable

\* onCreate and doStart, or doStop.
LEMMA CommandTyped ==
  ASSUME Typed, Start \/ Stop
  PROVE  /\ Typed'
         /\ cur' = Instance /\ cur' \in Instances
         /\ act[Main].pc = "idle" /\ UNCHANGED <<svc, collected, callbacks>>
         /\ \A j \in Instances : monitors'[j] \subseteq monitors[j]
         /\ \A a \in Actors, j \in 0 .. MaxInstances : At(a, j)' => At(a, j) \/ j = cur'
         /\ act'[Main].pc = "idle" \/ (act'[Main].inst = cur' /\ act'[Main].kind = "stop")
  <1>1. /\ made \in Counts /\ cur \in 0 .. made.insts /\ act \in [Actors -> ActorStates]
        /\ monitors \in [Instances -> SUBSET Jobs] /\ status \in Statuses /\ calm \in BOOLEAN
    BY TypesOf
  <1>2. /\ Instance \in Instances /\ cur' = Instance /\ act[Main].pc = "idle"
        /\ UNCHANGED <<svc, native, threads, tuns, collected, callbacks, heard>>
    BY DEF Start, Stop, Commanded, MainIsFree, watching, network
  <1>3. /\ Insts \in 0 .. MaxInstances /\ made.insts <= Insts /\ Instance \in 1 .. Insts
    BY <1>1, <1>2, Constants DEF Insts, Instance, Instances, Counts
  <1>4. status' \in Statuses /\ calm' \in BOOLEAN
    BY <1>1 DEF Start, Stop, BeginStop, Calmly, Statuses
  <1>5. CASE Stop
    <2> DEFINE s == [pc |-> "nstop", kind |-> "stop", inst |-> Instance, joins |-> 0]
    <2>1. s \in ActorStates /\ s.inst = Instance /\ s.kind = "stop"
      BY <1>2, Constants DEF ActorStates, Instances
    <2>2. act' = [act EXCEPT ![Main] = s] /\ Main \in Actors
      BY <1>5, Constants DEF Stop, BeginStop
    <2>3. made' = [made EXCEPT !.insts = Insts]
      BY <1>5 DEF Stop
    <2>4. made' \in Counts /\ made'.insts = Insts
      BY <1>1, <1>3, <2>3 DEF Counts
    <2>5. StopMonitoring(Instance)
      BY <1>5 DEF Stop
    <2>6. /\ monitors' \in [Instances -> SUBSET Jobs] /\ monitorJob' \in [Jobs -> Ids]
          /\ \A j \in Instances : monitors'[j] \subseteq monitors[j]
      BY <1>2, <2>5, StopMonitoringTyped
    <2> HIDE DEF s
    <2>7. /\ act' \in [Actors -> ActorStates]
          /\ act'[Main] = s
          /\ \A a \in Actors, j \in 0 .. MaxInstances : At(a, j)' => At(a, j) \/ j = cur'
      BY <1>1, <1>2, <2>1, <2>2 DEF At
    <2>8. \A a \in Actors : act'[a].pc # "idle" => act'[a].inst \in 1 .. made'.insts
      <3> SUFFICES ASSUME NEW a \in Actors, act'[a].pc # "idle"
                   PROVE  act'[a].inst \in 1 .. made'.insts
        OBVIOUS
      <3>1. act'[a] = s \/ (act'[a] = act[a] /\ act[a].inst \in 1 .. made.insts)
        BY <1>1, <2>2 DEF Typed
      <3> QED
        BY <1>1, <1>3, <2>1, <2>4, <3>1 DEF Counts
    <2>9. \A j \in Instances : callbacks'[j] # {} => j <= made'.insts
      BY <1>1, <1>2, <1>3, <2>4 DEF Typed, Instances, Counts
    <2> QED
      BY <1>2, <1>3, <1>4, <2>1, <2>4, <2>6, <2>7, <2>8, <2>9, TypesOf, TypesBack
  <1>6. CASE Start
    <2>1. UNCHANGED <<monitors, monitorJob>>
      BY <1>6 DEF Start, watching
    <2>2. CASE status = "CONNECTED"
      <3>1. made' = [made EXCEPT !.insts = Insts] /\ act' = act
        BY <1>6, <2>2 DEF Start
      <3>2. made' \in Counts /\ made'.insts = Insts
        BY <1>1, <1>3, <3>1 DEF Counts
      <3>3. \A a \in Actors : act'[a].pc # "idle" => act'[a].inst \in 1 .. made'.insts
        BY <1>1, <1>3, <3>1, <3>2 DEF Typed, Counts, ActorStates
      <3>4. \A j \in Instances : callbacks'[j] # {} => j <= made'.insts
        BY <1>1, <1>2, <1>3, <3>2 DEF Typed, Instances, Counts
      <3>5. \A a \in Actors, j \in 0 .. MaxInstances : At(a, j)' => At(a, j) \/ j = cur'
        BY <3>1 DEF At
      <3> QED
        BY <1>1, <1>2, <1>3, <1>4, <2>1, <3>1, <3>2, <3>3, <3>4, <3>5, TypesOf, TypesBack
    <2>3. CASE status # "CONNECTED"
      <3>1. /\ made' = [insts |-> Insts, jobs |-> made.jobs + 1]
            /\ Launched("start", Instance) /\ made.jobs + 1 \in Jobs
        BY <1>6, <2>3 DEF Start, Launched
      <3>2. made' \in Counts /\ made'.insts = Insts /\ made'.jobs = made.jobs + 1
        BY <1>1, <1>3, <3>1, Constants DEF Counts, Jobs
      <3>3. Instance <= made'.insts /\ made'.insts >= made.insts
        BY <1>1, <1>3, <3>2 DEF Counts
      <3>4. /\ act' \in [Actors -> ActorStates]
            /\ \A a \in Actors : act'[a].pc # "idle" => act'[a].inst \in 1 .. made'.insts
            /\ act'[Main] = act[Main]
            /\ \A a \in Actors, j \in 0 .. MaxInstances :
                 At(a, j)' => At(a, j) \/ j = Instance
        BY <1>2, <3>1, <3>2, <3>3, LaunchTyped
      <3>5. \A j \in Instances : callbacks'[j] # {} => j <= made'.insts
        BY <1>1, <1>2, <1>3, <3>2 DEF Typed, Instances, Counts
      <3> QED
        BY <1>1, <1>2, <1>3, <1>4, <2>1, <3>2, <3>4, <3>5, TypesOf, TypesBack
    <2> QED
      BY <2>2, <2>3
  <1> QED
    BY <1>5, <1>6

\* onDestroy, which cancels the scope.
LEMMA DestroyTyped ==
  ASSUME Typed, Destroy
  PROVE  /\ Typed'
         /\ UNCHANGED <<cur, callbacks>> /\ cur \in Instances
         /\ \A j \in Instances : j # cur =>
              /\ svc'[j] = svc[j] /\ monitors'[j] = monitors[j]
              /\ collected'[j] = collected[j]
         /\ svc'[cur].cancelled /\ monitors'[cur] = {} /\ collected'[cur] = {}
         /\ \A a \in Actors, j \in 0 .. MaxInstances : At(a, j)' => At(a, j) \/ j = cur
         /\ act'[Main].inst = cur /\ act'[Main].kind = "destroy"
  <1> DEFINE s == [pc |-> "nstop", kind |-> "destroy", inst |-> cur, joins |-> 0]
             v == [svc[cur] EXCEPT !.cancelled = TRUE]
  <1>1. /\ made \in Counts /\ cur \in 0 .. made.insts /\ act \in [Actors -> ActorStates]
        /\ monitors \in [Instances -> SUBSET Jobs] /\ collected \in [Instances -> SUBSET Jobs]
        /\ svc \in [Instances -> Services]
    BY TypesOf
  <1>2. cur \in Instances /\ cur \in 1 .. made.insts
    BY <1>1, Constants DEF Destroy, Ending, Instances, Counts
  <1>3. /\ s \in ActorStates /\ s.inst = cur /\ s.kind = "destroy"
        /\ v \in Services /\ v.cancelled
    <2>1. s \in ActorStates /\ s.inst = cur /\ s.kind = "destroy"
      BY <1>2, Constants DEF ActorStates, Instances
    <2>2. svc[cur] \in Services
      BY <1>1, <1>2
    <2>3. v \in Services /\ v.cancelled
      BY <2>2 DEF Services
    <2> QED
      BY <2>1, <2>3
  <1>4. /\ act' = [act EXCEPT ![Main] = s] /\ svc' = [svc EXCEPT ![cur] = v]
        /\ Main \in Actors
    BY Constants DEF Destroy, BeginStop
  <1> HIDE DEF s, v
  <1>5. /\ act' \in [Actors -> ActorStates] /\ act'[Main] = s
        /\ \A a \in Actors, j \in 0 .. MaxInstances : At(a, j)' => At(a, j) \/ j = cur
    BY <1>1, <1>3, <1>4 DEF At
  <1>6. /\ svc' \in [Instances -> Services] /\ svc'[cur] = v
        /\ \A j \in Instances : j # cur => svc'[j] = svc[j]
    BY <1>1, <1>2, <1>3, <1>4
  <1>7. /\ monitors' \in [Instances -> SUBSET Jobs] /\ collected' \in [Instances -> SUBSET Jobs]
        /\ monitors'[cur] = {} /\ collected'[cur] = {}
        /\ \A j \in Instances : j # cur =>
             monitors'[j] = monitors[j] /\ collected'[j] = collected[j]
    BY <1>1, <1>2 DEF Destroy
  <1>8. /\ UNCHANGED <<cur, native, threads, tuns, monitorJob, callbacks, heard, made, calm>>
        /\ status' \in Statuses
    BY DEF Destroy, BeginStop, network, Statuses
  <1>9. \A a \in Actors : act'[a].pc # "idle" => act'[a].inst \in 1 .. made'.insts
    BY <1>1, <1>2, <1>3, <1>4, <1>8 DEF Typed
  <1>10. \A j \in Instances : callbacks'[j] # {} => j <= made'.insts
    BY <1>8 DEF Typed
  <1> QED
    BY <1>2, <1>3, <1>5, <1>6, <1>7, <1>8, <1>9, <1>10, TypesOf, TypesBack

\* doStop ends.
LEMMA ReleaseTyped ==
  ASSUME Typed, Release, act[Main].inst = cur
  PROVE  /\ Typed'
         /\ UNCHANGED <<monitors, collected>> /\ cur \in Instances
         /\ act'[Main].pc = "idle" /\ cur' \in {0, cur}
         /\ cur' = 0 => act[Main].kind = "destroy"
         /\ \A j \in Instances :
              /\ svc'[j].cancelled = svc[j].cancelled
              /\ callbacks'[j] \subseteq callbacks[j]
         /\ \A a \in Actors, j \in 0 .. MaxInstances : At(a, j)' => At(a, j)
  <1> DEFINE v == [NewService EXCEPT !.ended = TRUE, !.cancelled = svc[cur].cancelled]
  <1>1. /\ made \in Counts /\ cur \in 0 .. made.insts /\ act \in [Actors -> ActorStates]
        /\ svc \in [Instances -> Services] /\ callbacks \in [Instances -> SUBSET Jobs]
        /\ heard \in [Jobs -> SUBSET Networks] /\ tuns \subseteq Jobs
    BY TypesOf
  <1>2. act[Main].pc # "idle" /\ Main \in Actors
    BY Constants DEF Release
  <1>3. cur \in Instances /\ svc[cur] \in Services /\ cur # 0
    BY <1>2, AtWorkAt DEF Instances
  <1>4. v \in Services /\ v.cancelled = svc[cur].cancelled
    <2>1. NewService \in Services /\ svc[cur].cancelled \in BOOLEAN
      BY <1>3, Constants DEF Services
    <2> QED
      BY <2>1 DEF Services
  <1>5. /\ svc' = [svc EXCEPT ![cur] = v] /\ act' = [act EXCEPT ![Main] = Idle]
        /\ callbacks' = [callbacks EXCEPT ![cur] = Unregistered(cur)]
        /\ cur' = IF act[Main].kind = "destroy" THEN 0 ELSE cur
        /\ tuns' = tuns \ {svc[cur].vpnFd}
        /\ heard' = IF svc[cur].netCb = 0 THEN heard
                    ELSE [heard EXCEPT ![svc[cur].netCb] = {}]
        /\ UNCHANGED <<status, native, threads, monitors, monitorJob, collected, made, calm>>
    BY DEF Release, Ends, watching
  <1> HIDE DEF v
  <1>6. /\ svc' \in [Instances -> Services]
        /\ \A j \in Instances : svc'[j].cancelled = svc[j].cancelled
    BY <1>1, <1>3, <1>4, <1>5
  <1>7. /\ callbacks' \in [Instances -> SUBSET Jobs]
        /\ \A j \in Instances : callbacks'[j] \subseteq callbacks[j]
    BY <1>1, <1>3, <1>5 DEF Unregistered
  <1>8. /\ heard' \in [Jobs -> SUBSET Networks] /\ tuns' \subseteq Jobs
        /\ cur' \in 0 .. made'.insts
    <2>1. heard' = heard \/ \E c \in Ids : heard' = [heard EXCEPT ![c] = {}]
      BY <1>3, <1>5 DEF Services
    <2>2. heard' \in [Jobs -> SUBSET Networks]
      BY <1>1, <2>1
    <2>3. cur' \in {0, cur} /\ made' = made /\ tuns' \subseteq tuns
      BY <1>5
    <2>4. 0 \in 0 .. made.insts
      BY <1>1 DEF Counts
    <2> QED
      BY <1>1, <2>2, <2>3, <2>4
  <1>9. /\ act' \in [Actors -> ActorStates] /\ act'[Main].pc = "idle"
        /\ \A a \in Actors, j \in 0 .. MaxInstances : At(a, j)' => At(a, j)
        /\ \A a \in Actors : act'[a].pc # "idle" => act'[a].inst \in 1 .. made'.insts
    <2>1. Idle \in ActorStates /\ Idle.pc = "idle"
      BY Constants DEF Idle
    <2> QED
      BY <1>1, <1>2, <1>5, <2>1 DEF Typed, At
  <1>10. \A j \in Instances : callbacks'[j] # {} => j <= made'.insts
    <2>1. made' = made
      BY <1>5
    <2> QED
      BY <1>7, <2>1 DEF Typed
  <1> QED
    BY <1>1, <1>3, <1>5, <1>6, <1>7, <1>8, <1>9, <1>10, TypesOf, TypesBack

\* The process dies: everything is as at the start, but for a new instance.
LEMMA DeathTyped ==
  ASSUME Typed, ProcessDies
  PROVE  /\ Typed'
         /\ \A a \in Actors : act'[a] = Idle
         /\ \A i \in Instances :
              monitors'[i] = {} /\ collected'[i] = {} /\ callbacks'[i] = {}
  <1>1. Idle \in ActorStates /\ NewService \in Services /\ StoppedEngine \in Engines
        /\ 0 \in Ids /\ MaxJobs \in Nat /\ Idle.pc = "idle"
    BY Constants DEF Idle
  <1>2. made' \in Counts /\ cur' \in 0 .. made'.insts
    BY <1>1, Constants DEF ProcessDies, Counts, Restarted
  <1>3. status' \in Statuses /\ calm' \in BOOLEAN
    BY DEF ProcessDies, Statuses
  <1> QED
    BY <1>1, <1>2, <1>3, TypesBack DEF ProcessDies

-----------------------------------------------------------------------------
(***************************************************************************)
(* A destroyed service samples and reports nothing.  Instances come one    *)
(* after another; what may still be at work for an earlier one, and the    *)
(* callbacks it left behind, launch on a scope that is cancelled.          *)
(***************************************************************************)

\* Main works for the running instance, whose scope goes before onDestroy stops it.
MainIsCurrent ==
  act[Main].pc # "idle" =>
    /\ act[Main].inst = cur /\ act[Main].kind \in {"stop", "destroy"}
    /\ act[Main].kind = "destroy" => svc[cur].cancelled

\* What belongs to an earlier instance does so in vain.
EarlierCancelled ==
  \A i \in Instances \ {cur} :
    callbacks[i] # {} \/ (\E a \in Actors : At(a, i)) => svc[i].cancelled

\* What samples and reports belongs to the running instance.
Watches(i) == monitors[i] # {} \/ collected[i] # {}

OnlyCurrent == \A i \in Instances : Watches(i) => i = cur /\ ~svc[i].cancelled

Silent == Typed /\ MainIsCurrent /\ EarlierCancelled /\ OnlyCurrent

\* A step in which no instance comes or goes: main goes on or comes to rest,
\* jobs go on, end, or are launched by a callback, and only what an actor does
\* on a scope that lives samples or reports.
Onward ==
  /\ cur' = cur
  /\ \A i \in Instances : svc'[i].cancelled = svc[i].cancelled
  /\ act'[Main].pc # "idle" =>
       /\ act[Main].pc # "idle"
       /\ act'[Main].inst = act[Main].inst /\ act'[Main].kind = act[Main].kind
  /\ \A a \in Actors, i \in Instances :
       At(a, i)' => (\E b \in Actors : At(b, i)) \/ callbacks[i] # {}
  /\ \A i \in Instances :
       callbacks'[i] # {} => callbacks[i] # {} \/ \E a \in Actors : At(a, i)
  /\ \A i \in Instances : Watches(i)' =>
       Watches(i) \/ \E a \in Actors : At(a, i) /\ ~svc[i].cancelled

\* The start: nothing runs.
LEMMA InitSilent == Init => Silent
  <1> SUFFICES ASSUME Init PROVE Silent
    OBVIOUS
  <1>1. Idle \in ActorStates /\ NewService \in Services /\ StoppedEngine \in Engines
        /\ 0 \in Ids /\ MaxJobs \in Nat /\ MaxInstances \in Nat /\ Idle.pc = "idle"
        /\ Main \in Actors
    BY Constants DEF Idle
  <1>2. Typed
    BY <1>1 DEF Init, Typed, TypeOK, Services, Engines, Counts, Statuses
  <1>3. MainIsCurrent /\ EarlierCancelled /\ OnlyCurrent
    BY <1>1 DEF Init, MainIsCurrent, EarlierCancelled, OnlyCurrent, Watches, At
  <1> QED
    BY <1>2, <1>3 DEF Silent

\* Going on keeps what is earlier silent.
LEMMA OnwardSilent ==
  ASSUME Silent, Onward, Typed'
  PROVE  Silent'
  <1>0. Typed /\ MainIsCurrent /\ EarlierCancelled /\ OnlyCurrent /\ cur' = cur
    BY DEF Silent, Onward
  <1>1. MainIsCurrent'
    <2> SUFFICES ASSUME act'[Main].pc # "idle"
                 PROVE  /\ act'[Main].inst = cur' /\ act'[Main].kind \in {"stop", "destroy"}
                        /\ act'[Main].kind = "destroy" => svc'[cur'].cancelled
      BY DEF MainIsCurrent
    <2>1. /\ act[Main].pc # "idle"
          /\ act'[Main].inst = act[Main].inst /\ act'[Main].kind = act[Main].kind
      BY DEF Onward
    <2>2. cur \in Instances
      BY <1>0, <2>1, AtWorkAt, Constants DEF MainIsCurrent
    <2> QED
      BY <1>0, <2>1, <2>2 DEF Onward, MainIsCurrent
  <1>2. EarlierCancelled'
    <2> SUFFICES ASSUME NEW i \in Instances, i # cur',
                        callbacks'[i] # {} \/ \E a \in Actors : At(a, i)'
                 PROVE  svc'[i].cancelled
      BY DEF EarlierCancelled
    <2>1. callbacks[i] # {} \/ \E b \in Actors : At(b, i)
      BY DEF Onward
    <2> QED
      BY <1>0, <2>1 DEF Onward, EarlierCancelled
  <1>3. OnlyCurrent'
    <2> SUFFICES ASSUME NEW i \in Instances, Watches(i)'
                 PROVE  i = cur' /\ ~svc'[i].cancelled
      BY DEF OnlyCurrent
    <2>1. svc'[i].cancelled = svc[i].cancelled
          /\ (Watches(i) \/ \E a \in Actors : At(a, i) /\ ~svc[i].cancelled)
      BY DEF Onward
    <2> QED
      BY <1>0, <2>1 DEF OnlyCurrent, EarlierCancelled
  <1> QED
    BY <1>1, <1>2, <1>3 DEF Silent

\* engine_stop and the coroutines go on.
LEMMA ActorOnward ==
  ASSUME Silent, NEW a \in Actors, EngineStop(a) \/ (a \in Jobs /\ Coroutine(a))
  PROVE  Onward /\ Typed'
  <1> DEFINE i == act[a].inst
  <1>1. /\ Typed' /\ cur' = cur
        /\ \A j \in Instances : callbacks'[j] # {} => callbacks[j] # {} \/ j = i
        /\ At(a, i) /\ i \in Instances
        /\ act'[Main].pc # "idle" =>
             /\ act[Main].pc # "idle"
             /\ act'[Main].inst = act[Main].inst /\ act'[Main].kind = act[Main].kind
        /\ \A b \in Actors, j \in 0 .. MaxInstances : At(b, j)' => At(b, j)
    BY ActorTyped DEF Silent
  <1>2. /\ svc \in [Instances -> Services]
        /\ monitors \in [Instances -> SUBSET Jobs] /\ collected \in [Instances -> SUBSET Jobs]
    BY TypesOf DEF Silent
  <1>3. \A j \in Instances : svc'[j].cancelled = svc[j].cancelled
    <2>1. CASE a \in Jobs /\ (Build(a) \/ Wire(a) \/ MakeNetCb(a))
      <3>1. PICK t \in {[svc[i] EXCEPT !.vpnFd = a], [svc[i] EXCEPT !.engine = a],
                        [svc[i] EXCEPT !.netCb = a], svc[i]} :
              svc' = [svc EXCEPT ![i] = t]
        BY <1>1, <1>2, <2>1 DEF Build, Wire, MakeNetCb
      <3>2. t.cancelled = svc[i].cancelled
        BY <1>1, <1>2 DEF Services
      <3> QED
        BY <1>1, <1>2, <3>1, <3>2
    <2>2. CASE ~(a \in Jobs /\ (Build(a) \/ Wire(a) \/ MakeNetCb(a)))
      <3>1. svc' = svc
        BY <2>2 DEF EngineStop, NothingToStop, ClearRunning, Teardown, Coroutine, CloseOld,
           NativeStart, RegisterNetCb, Connected, ApplySavedCaps, StartMonitoring, Fail
      <3> QED
        BY <3>1
    <2> QED
      BY <2>1, <2>2
  <1>4. \A j \in Instances :
          Watches(j)' => Watches(j) \/ (j = i /\ ~svc[j].cancelled)
    <2>1. CASE a \in Jobs /\ StartMonitoring(a)
      <3> DEFINE m == Scoped(i, {a})
                 c == Scoped(i, {svc[i].engine})
      <3>1. m # {} \/ c # {} => ~svc[i].cancelled
        BY DEF Scoped
      <3>2. /\ monitors' = monitors \/ monitors' = [monitors EXCEPT ![i] = @ \cup m]
            /\ collected' = collected \/ collected' = [collected EXCEPT ![i] = @ \cup c]
        BY <2>1 DEF StartMonitoring, watching
      <3> HIDE DEF m, c
      <3>3. ASSUME NEW j \in Instances
            PROVE  /\ monitors'[j] # {} => monitors[j] # {} \/ (j = i /\ m # {})
                   /\ collected'[j] # {} => collected[j] # {} \/ (j = i /\ c # {})
        BY <1>1, <1>2, <3>2
      <3> QED
        BY <3>1, <3>3 DEF Watches
    <2>2. CASE ~(a \in Jobs /\ StartMonitoring(a))
      <3>1. UNCHANGED watching
        <4>1. CASE EngineStop(a)
          BY <4>1 DEF EngineStop, NothingToStop, ClearRunning, Teardown
        <4>2. CASE CloseOld(a) \/ Build(a) \/ Wire(a) \/ NativeStart(a) \/ MakeNetCb(a)
          BY <4>2 DEF CloseOld, Build, Wire, NativeStart, MakeNetCb
        <4>3. CASE RegisterNetCb(a) \/ Connected(a) \/ ApplySavedCaps(a) \/ Fail(a)
          BY <4>3 DEF RegisterNetCb, Connected, ApplySavedCaps, Fail
        <4> QED
          BY <2>2, <4>1, <4>2, <4>3 DEF Coroutine
      <3> QED
        BY <3>1 DEF watching, Watches
    <2> QED
      BY <2>1, <2>2
  <1>5. Instances \subseteq 0 .. MaxInstances
    BY Constants DEF Instances
  <1> QED
    BY <1>1, <1>3, <1>4, <1>5 DEF Onward

\* onLost and onAvailable launch on the instance whose callback they are.
LEMMA NetOnward ==
  ASSUME Silent, NEW i \in Instances, NEW c \in Jobs, NEW n \in Networks,
         OnLost(i, c, n) \/ OnAvailable(i, c, n)
  PROVE  Onward /\ Typed'
  <1>1. /\ Typed' /\ act'[Main] = act[Main]
        /\ \A a \in Actors, j \in 0 .. MaxInstances : At(a, j)' => At(a, j) \/ j = i
        /\ \A j \in Instances : monitors'[j] \subseteq monitors[j]
        /\ callbacks[i] # {}
        /\ UNCHANGED <<svc, cur, collected, callbacks>>
    BY NetTyped DEF Silent
  <1>2. Instances \subseteq 0 .. MaxInstances
    BY Constants DEF Instances
  <1> QED
    BY <1>1, <1>2 DEF Onward, Watches

\* A command, which finds the instance there is or makes one.
LEMMA CommandSilent ==
  ASSUME Silent, Start \/ Stop
  PROVE  Silent'
  <1>0. Typed /\ MainIsCurrent /\ EarlierCancelled /\ OnlyCurrent
    BY DEF Silent
  <1>1. /\ Typed' /\ cur' = Instance /\ cur' \in Instances
        /\ act[Main].pc = "idle" /\ UNCHANGED <<svc, collected, callbacks>>
        /\ \A j \in Instances : monitors'[j] \subseteq monitors[j]
        /\ \A a \in Actors, j \in 0 .. MaxInstances : At(a, j)' => At(a, j) \/ j = cur'
        /\ act'[Main].pc = "idle" \/ (act'[Main].inst = cur' /\ act'[Main].kind = "stop")
    BY <1>0, CommandTyped
  <1>2. /\ Instances \subseteq 0 .. MaxInstances
        /\ \A i \in Instances : i # 0 /\ (i # cur' => i # cur)
    BY <1>1, Constants DEF Instances, Instance
  <1>3. MainIsCurrent'
    BY <1>1 DEF MainIsCurrent
  <1>4. EarlierCancelled'
    <2> SUFFICES ASSUME NEW i \in Instances, i # cur',
                        callbacks'[i] # {} \/ \E a \in Actors : At(a, i)'
                 PROVE  svc'[i].cancelled
      BY DEF EarlierCancelled
    <2>1. callbacks[i] # {} \/ \E a \in Actors : At(a, i)
      BY <1>1, <1>2
    <2> QED
      BY <1>0, <1>1, <1>2, <2>1 DEF EarlierCancelled
  <1>5. OnlyCurrent'
    <2> SUFFICES ASSUME NEW i \in Instances, Watches(i)'
                 PROVE  i = cur' /\ ~svc'[i].cancelled
      BY DEF OnlyCurrent
    <2>1. Watches(i)
      BY <1>1 DEF Watches
    <2> QED
      BY <1>0, <1>1, <1>2, <2>1 DEF OnlyCurrent
  <1> QED
    BY <1>1, <1>3, <1>4, <1>5 DEF Silent

\* onDestroy cancels the scope of the instance that goes.
LEMMA DestroySilent ==
  ASSUME Silent, Destroy
  PROVE  Silent'
  <1>0. Typed /\ MainIsCurrent /\ EarlierCancelled /\ OnlyCurrent
    BY DEF Silent
  <1>1. /\ Typed'
        /\ UNCHANGED <<cur, callbacks>> /\ cur \in Instances
        /\ \A j \in Instances : j # cur =>
             /\ svc'[j] = svc[j] /\ monitors'[j] = monitors[j]
             /\ collected'[j] = collected[j]
        /\ svc'[cur].cancelled /\ monitors'[cur] = {} /\ collected'[cur] = {}
        /\ \A a \in Actors, j \in 0 .. MaxInstances : At(a, j)' => At(a, j) \/ j = cur
        /\ act'[Main].inst = cur /\ act'[Main].kind = "destroy"
    BY <1>0, DestroyTyped
  <1>2. Instances \subseteq 0 .. MaxInstances
    BY Constants DEF Instances
  <1>3. MainIsCurrent'
    BY <1>1 DEF MainIsCurrent
  <1>4. EarlierCancelled'
    BY <1>0, <1>1, <1>2 DEF EarlierCancelled
  <1>5. OnlyCurrent'
    BY <1>0, <1>1 DEF OnlyCurrent, Watches
  <1> QED
    BY <1>1, <1>3, <1>4, <1>5 DEF Silent

\* doStop ends; after onDestroy there is no instance.
LEMMA ReleaseSilent ==
  ASSUME Silent, Release
  PROVE  Silent'
  <1>0. Typed /\ MainIsCurrent /\ EarlierCancelled /\ OnlyCurrent
    BY DEF Silent
  <1>1. act[Main].pc # "idle"
    BY DEF Release
  <1>2. /\ act[Main].inst = cur /\ (act[Main].kind = "destroy" => svc[cur].cancelled)
    BY <1>0, <1>1 DEF MainIsCurrent
  <1>3. /\ Typed'
        /\ UNCHANGED <<monitors, collected>> /\ cur \in Instances
        /\ act'[Main].pc = "idle" /\ cur' \in {0, cur}
        /\ cur' = 0 => act[Main].kind = "destroy"
        /\ \A j \in Instances :
             /\ svc'[j].cancelled = svc[j].cancelled
             /\ callbacks'[j] \subseteq callbacks[j]
        /\ \A a \in Actors, j \in 0 .. MaxInstances : At(a, j)' => At(a, j)
    BY <1>0, <1>2, ReleaseTyped
  <1>4. Instances \subseteq 0 .. MaxInstances
    BY Constants DEF Instances
  <1>5. MainIsCurrent'
    BY <1>3 DEF MainIsCurrent
  <1>6. EarlierCancelled'
    <2> SUFFICES ASSUME NEW j \in Instances, j # cur',
                        callbacks'[j] # {} \/ \E a \in Actors : At(a, j)'
                 PROVE  svc[j].cancelled
      BY <1>3 DEF EarlierCancelled
    <2>1. callbacks[j] # {} \/ \E a \in Actors : At(a, j)
      BY <1>3, <1>4
    <2>2. CASE j # cur
      BY <1>0, <2>1, <2>2 DEF EarlierCancelled
    <2>3. CASE j = cur
      BY <1>2, <1>3, <2>3
    <2> QED
      BY <2>2, <2>3
  <1>7. OnlyCurrent'
    BY <1>0, <1>2, <1>3 DEF OnlyCurrent, Watches
  <1> QED
    BY <1>3, <1>5, <1>6, <1>7 DEF Silent

\* After a kill or a crash nothing is left.
LEMMA DeathSilent ==
  ASSUME Silent, Killed \/ Crash
  PROVE  Silent'
  <1>1. ProcessDies /\ Typed
    BY DEF Killed, Crash, Silent
  <1>2. /\ Typed' /\ \A a \in Actors : act'[a] = Idle
        /\ \A i \in Instances :
             monitors'[i] = {} /\ collected'[i] = {} /\ callbacks'[i] = {}
    BY <1>1, DeathTyped
  <1>3. Main \in Actors /\ Idle.pc = "idle"
    BY Constants DEF Idle
  <1>4. MainIsCurrent' /\ EarlierCancelled' /\ OnlyCurrent'
    BY <1>2, <1>3 DEF MainIsCurrent, EarlierCancelled, OnlyCurrent, Watches, At
  <1> QED
    BY <1>2, <1>4 DEF Silent

\* Every step keeps what is earlier silent.
LEMMA NextSilent ==
  ASSUME Silent, [Next]_vars
  PROVE  Silent'
  <1>1. CASE Start \/ Stop
    BY <1>1, CommandSilent
  <1>2. CASE Destroy
    BY <1>2, DestroySilent
  <1>3. CASE Release
    BY <1>3, ReleaseSilent
  <1>4. CASE Killed \/ Crash
    BY <1>4, DeathSilent
  <1>5. CASE \E a \in Actors : EngineStop(a)
    BY <1>5, ActorOnward, OnwardSilent
  <1>6. CASE \E a \in Jobs : Coroutine(a)
    BY <1>6, ActorOnward, OnwardSilent, Constants
  <1>7. CASE (\E t \in Jobs : ThreadExits(t)) \/ UNCHANGED vars
    <2>1. /\ UNCHANGED <<status, cur, svc, act, native, tuns, monitors, monitorJob,
                         collected, callbacks, heard, made, calm>>
          /\ threads' \subseteq threads
      BY <1>7 DEF ThreadExits, vars, watching, network
    <2>2. Typed
      BY DEF Silent
    <2>3. threads' \subseteq Jobs
      BY <2>1, <2>2, TypesOf
    <2>4. Typed'
      BY <2>1, <2>2, <2>3, TypesOf, TypesBack DEF Typed
    <2>5. MainIsCurrent' /\ EarlierCancelled' /\ OnlyCurrent'
      BY <2>1 DEF Silent, MainIsCurrent, EarlierCancelled, OnlyCurrent, Watches, At
    <2> QED
      BY <2>4, <2>5 DEF Silent
  <1>8. CASE \E i \in Instances, c \in Jobs, n \in Networks :
               OnLost(i, c, n) \/ OnAvailable(i, c, n)
    BY <1>8, NetOnward, OnwardSilent
  <1> QED
    BY <1>1, <1>2, <1>3, <1>4, <1>5, <1>6, <1>7, <1>8 DEF Next

\* Whatever the interleaving, the networks, the failures, the kills and the
\* crashes, only the instance there is samples traffic and reports it
\* (SpeedLimiterVpnService.onDestroy, and what it launches on its scope).
THEOREM SilentOnceDestroyed == Spec => []DestroyedIsSilent
  <1>1. Silent => DestroyedIsSilent
    BY DEF Silent, Typed, OnlyCurrent, Watches, DestroyedIsSilent
  <1> QED
    BY <1>1, InitSilent, NextSilent, PTL DEF Spec
-----------------------------------------------------------------------------
(***************************************************************************)
(* A service that has been calm is at rest, or exactly one actor works for *)
(* the running instance, and where that actor is tells what is open,       *)
(* running, registered and sampled.                                        *)
(***************************************************************************)

\* What is true wherever the actor is.
Held ==
  /\ \A i \in Instances : i > made.insts => svc[i] = NewService
  /\ \A i \in Instances \ {cur} : callbacks[i] = {}
  /\ tuns \subseteq IF cur = 0 THEN {} ELSE {svc[cur].vpnFd}
  /\ threads \subseteq {native.thread}
  /\ native.running => cur # 0 /\ svc[cur].engine # 0
  /\ cur # 0 => callbacks[cur] \subseteq {svc[cur].netCb} \ {0}
  /\ cur # 0 => (svc[cur].cancelled => svc[cur].ended)

Stopped == threads = {} /\ ~native.running

\* The engine's thread serves the tunnel of the running instance.
Working ==
  /\ native.running /\ native.epoll /\ threads = {native.thread}
  /\ svc[cur].engine # 0
  /\ svc[cur].vpnFd \in tuns /\ native.tun = svc[cur].vpnFd

\* The callback that the instance holds is registered.
Hears == svc[cur].netCb # 0 /\ callbacks[cur] = {svc[cur].netCb}

\* Its shaper's monitor samples.
Sampled == monitors[cur] = {monitorJob[svc[cur].engine]}

\* Nothing has been registered, sampled or collected since the last start.
Unwatched == svc[cur].netCb = 0 /\ monitors[cur] = {} /\ collected[cur] = {}

AtRest ==
  /\ status # "CONNECTING"
  /\ cur # 0 => (svc[cur].ended => status = "DISCONNECTED")
  /\ status = "DISCONNECTED" =>
       /\ Stopped /\ tuns = {}
       /\ cur # 0 => /\ svc[cur].netCb = 0 /\ monitors[cur] = {}
                     /\ ~svc[cur].ended => collected[cur] = {}
  /\ status \in {"CONNECTED", "RECONNECTING"} =>
       /\ cur # 0 /\ Working /\ Hears
       /\ IF status = "CONNECTED" THEN Sampled ELSE monitors[cur] = {}
  /\ status = "ERROR" => cur # 0 /\ threads = {} /\ Unwatched

\* engine_stop, in establish() and in doStop.
AtStop(a) ==
  /\ act[a].pc = "nstop" => (threads # {} => native.running)
  /\ act[a].pc = "join" => ~native.running /\ act[a].joins = native.thread

MainAtWork ==
  /\ act[Main].pc \in {"nstop", "join", "release"}
  /\ act[Main].kind \in {"stop", "destroy"}
  /\ AtStop(Main)
  /\ status = "DISCONNECTED" /\ monitors[cur] = {}
  /\ (act[Main].kind = "destroy") <=> svc[cur].ended
  /\ svc[cur].ended => svc[cur].netCb = 0
  /\ act[Main].pc = "release" => Stopped

\* establish().
Establishing(a) ==
  /\ AtStop(a)
  /\ act[a].pc \in {"nstop", "join", "build"} => tuns = {}
  /\ act[a].pc \in {"build", "wire", "launch"} => Stopped
  /\ act[a].pc \in {"wire", "launch"} => svc[cur].vpnFd = a /\ tuns = {a}
  /\ act[a].pc = "launch" => svc[cur].engine = a
  /\ act[a].pc \in {"callback", "register", "connected", "caps", "monitor"} => Working

Starting(a) ==
  /\ act[a].kind = "start"
  /\ status = IF act[a].pc \in {"caps", "monitor"} THEN "CONNECTED" ELSE "CONNECTING"
  /\ act[a].pc = "register" => svc[cur].netCb # 0 /\ monitors[cur] = {}
  /\ act[a].pc \in {"connected", "caps", "monitor"} => Hears /\ monitors[cur] = {}
  /\ act[a].pc \notin {"register", "connected", "caps", "monitor"} => Unwatched
  /\ act[a].pc \in {"close", "fail"} => threads = {}

Reconnecting(a) ==
  /\ act[a].kind = "reconnect"
  /\ act[a].pc \notin {"callback", "register"}
  /\ status = "RECONNECTING" /\ Hears
  /\ act[a].pc = "close" => (threads # {} => native.running)
  /\ IF act[a].pc = "connected" THEN Sampled ELSE monitors[cur] = {}

JobAtWork(a) ==
  /\ act[a].pc # "release" /\ ~svc[cur].ended
  /\ Establishing(a)
  /\ Starting(a) \/ Reconnecting(a)

AtWork(a) ==
  /\ act[a].pc # "idle" /\ act[a].inst = cur /\ cur # 0
  /\ \A b \in Actors \ {a} : act[b].pc = "idle"
  /\ IF a = Main THEN MainAtWork ELSE JobAtWork(a)

Steady == Held /\ ((Quiet /\ AtRest) \/ (\E a \in Actors : AtWork(a)))

\* The start: at rest.
LEMMA InitSteady == Init => Steady
  <1> SUFFICES ASSUME Init PROVE Steady
    OBVIOUS
  <1>1. Held
    BY DEF Init, Held, NewService, StoppedEngine
  <1>2. Quiet /\ AtRest
    BY DEF Init, Quiet, AtRest, Idle, Stopped, StoppedEngine
  <1> QED
    BY <1>1, <1>2 DEF Steady

\* Who moves is the one at work.
LEMMA MovesAtWork ==
  ASSUME Steady, NEW a \in Actors, act[a].pc # "idle"
  PROVE  AtWork(a)
  BY DEF Steady, Quiet, AtWork

\* What is true of an actor at work and of the instance it works for.
LEMMA WorkTyped ==
  ASSUME Typed, NEW a \in Actors, AtWork(a)
  PROVE  /\ cur \in Instances /\ cur \in 1 .. made.insts /\ cur # 0
         /\ svc[cur] \in Services /\ act[a] \in ActorStates /\ native \in Engines
         /\ act[a].inst = cur /\ (\A b \in Actors \ {a} : act[b].pc = "idle")
         /\ act[a].pc # "idle"
         /\ a # Main => JobAtWork(a)
         /\ a = Main => MainAtWork
  <1>1. act[a].pc # "idle" /\ act[a].inst = cur /\ cur # 0
    BY DEF AtWork
  <1>2. /\ cur \in Instances /\ cur \in 1 .. made.insts /\ svc[cur] \in Services
        /\ act[a] \in ActorStates
    BY <1>1, AtWorkAt
  <1>3. native \in Engines
    BY TypesOf
  <1>4. /\ \A b \in Actors \ {a} : act[b].pc = "idle"
        /\ a # Main => JobAtWork(a)
        /\ a = Main => MainAtWork
    BY DEF AtWork
  <1> QED
    BY <1>1, <1>2, <1>3, <1>4

\* It goes on, for the same instance, or ends, and the others stay at rest.
LEMMA WorkGoes ==
  ASSUME Typed, NEW a \in Actors, AtWork(a), NEW pc, Goto(a, pc)
  PROVE  /\ act'[a].pc = pc /\ act'[a].inst = cur /\ act'[a].kind = act[a].kind
         /\ act'[a].joins = act[a].joins
         /\ \A b \in Actors \ {a} : act'[b].pc = "idle"
  <1>1. act \in [Actors -> ActorStates] /\ act[a] \in ActorStates /\ act[a].inst = cur
    BY TypesOf, WorkTyped
  <1>2. act'[a] = [act[a] EXCEPT !.pc = pc]
    BY <1>1 DEF Goto
  <1>3. \A b \in Actors \ {a} : act'[b] = act[b]
    BY <1>1 DEF Goto
  <1> QED
    BY <1>1, <1>2, <1>3, WorkTyped DEF ActorStates

LEMMA WorkEnds ==
  ASSUME Typed, NEW a \in Actors, AtWork(a), Ends(a)
  PROVE  Quiet'
  BY WorkTyped, TypesOf DEF Ends, Idle, Quiet

\* What a step of an actor at work may change.
LEMMA HeldChanged ==
  ASSUME Typed, Held, cur \in Instances, cur \in 1 .. made.insts,
         cur' = cur, made' = made,
         \A i \in Instances \ {cur} : svc'[i] = svc[i] /\ callbacks'[i] = callbacks[i],
         callbacks'[cur] \subseteq {svc'[cur].netCb} \ {0},
         tuns' \subseteq {svc'[cur].vpnFd},
         threads' \subseteq {native'.thread},
         native'.running => svc'[cur].engine # 0,
         svc'[cur].cancelled => svc'[cur].ended
  PROVE  Held'
  <1>1. ASSUME NEW i \in Instances, i > made.insts
        PROVE  svc'[i] = NewService
    <2>1. i # cur
      BY <1>1, TypesOf DEF Counts, Instances
    <2> QED
      BY <1>1, <2>1 DEF Held
  <1>2. \A i \in Instances \ {cur} : callbacks'[i] = {}
    BY DEF Held
  <1>3. cur' # 0
    BY DEF Instances
  <1> QED
    BY <1>1, <1>2, <1>3 DEF Held

\* The steps of engine_stop.
LEMMA StopStep ==
  ASSUME Typed, Held, NEW a \in Actors, AtWork(a), EngineStop(a)
  PROVE  /\ UNCHANGED <<status, cur, svc, threads, tuns, monitors, monitorJob, collected,
                        callbacks, heard, made, calm>>
         /\ Held'
         /\ act[a].pc \in {"nstop", "join"}
         /\ act'[a].inst = cur /\ act'[a].kind = act[a].kind
         /\ \A b \in Actors \ {a} : act'[b].pc = "idle"
         /\ \/ /\ act'[a].pc = After(a)
               /\ AtStop(a) => Stopped'
            \/ /\ act'[a].pc = "join" /\ act'[a].joins = native'.thread
               /\ ~native'.running
  <1>1. /\ cur \in Instances /\ cur \in 1 .. made.insts /\ svc[cur] \in Services
        /\ act[a] \in ActorStates /\ native \in Engines /\ act[a].inst = cur /\ cur # 0
        /\ act \in [Actors -> ActorStates] /\ \A b \in Actors \ {a} : act[b].pc = "idle"
    BY WorkTyped, TypesOf
  <1>2. UNCHANGED <<status, cur, svc, threads, tuns, monitors, monitorJob, collected,
                    callbacks, heard, made, calm>>
    BY DEF EngineStop, NothingToStop, ClearRunning, Teardown, watching, network
  <1>3. CASE NothingToStop(a)
    <2>1. /\ native' = native /\ act[a].pc = "nstop"
          /\ ~(svc[cur].engine # 0 /\ native.running) /\ Goto(a, After(a))
      BY <1>1, <1>3 DEF NothingToStop, StopsEngine
    <2>2. AtStop(a) => Stopped'
      BY <1>1, <1>2, <2>1 DEF Held, AtStop, Stopped
    <2>3. Held'
      BY <1>2, <2>1 DEF Held
    <2> QED
      BY <1>2, <2>1, <2>2, <2>3, WorkGoes
  <1>4. CASE ClearRunning(a)
    <2>1. /\ act[a].pc = "nstop" /\ ~native'.running /\ native'.thread = native.thread
          /\ act' = [act EXCEPT ![a] = [act[a] EXCEPT !.pc = "join", !.joins = native.thread]]
      BY <1>1, <1>4 DEF ClearRunning, Engines
    <2>2. /\ act'[a] = [act[a] EXCEPT !.pc = "join", !.joins = native.thread]
          /\ \A b \in Actors \ {a} : act'[b] = act[b]
      BY <1>1, <2>1
    <2>3. /\ act'[a].pc = "join" /\ act'[a].joins = native.thread /\ act'[a].inst = cur
          /\ act'[a].kind = act[a].kind
      BY <1>1, <2>2 DEF ActorStates
    <2>4. Held'
      BY <1>2, <2>1 DEF Held
    <2> QED
      BY <1>1, <1>2, <2>1, <2>2, <2>3, <2>4
  <1>5. CASE Teardown(a)
    <2>1. /\ act[a].pc = "join" /\ act[a].joins \notin threads
          /\ act' = [act EXCEPT ![a] = [act[a] EXCEPT !.pc = After(a), !.joins = 0]]
      BY <1>5 DEF Teardown, Joined
    <2>2. /\ act'[a] = [act[a] EXCEPT !.pc = After(a), !.joins = 0]
          /\ \A b \in Actors \ {a} : act'[b] = act[b]
      BY <1>1, <2>1
    <2>3. /\ act'[a].pc = After(a) /\ act'[a].inst = cur /\ act'[a].kind = act[a].kind
      BY <1>1, <2>2 DEF ActorStates
    <2>4. native'.running = native.running /\ (native.running => native'.thread = native.thread)
      BY <1>1, <1>5 DEF Teardown, Engines, StoppedEngine
    <2>5. ~native.running /\ act[a].joins = native.thread
      BY <1>1, <2>1, WorkTyped
      DEF MainAtWork, JobAtWork, Establishing, AtStop
    <2>6. threads = {}
      BY <2>1, <2>5 DEF Held
    <2>7. Held'
      BY <1>2, <2>4, <2>6 DEF Held
    <2> QED
      BY <1>1, <1>2, <2>1, <2>2, <2>3, <2>4, <2>5, <2>6, <2>7 DEF Stopped
  <1> QED
    BY <1>3, <1>4, <1>5 DEF EngineStop

\* engine_stop, in doStop.
LEMMA MainStopSteady ==
  ASSUME Typed, Held, AtWork(Main), EngineStop(Main)
  PROVE  Steady'
  <1>1. Main \in Actors /\ MainAtWork /\ cur # 0
    BY Constants, WorkTyped
  <1>2. After(Main) = "release"
    BY <1>1 DEF After, MainAtWork
  <1>3. AtWork(Main)'
    <2>1. act[Main].kind \in {"stop", "destroy"} /\ AtStop(Main)
      BY <1>1 DEF MainAtWork
    <2>2. \/ act'[Main].pc = "release" /\ Stopped'
          \/ act'[Main].pc = "join" /\ act'[Main].joins = native'.thread /\ ~native'.running
      BY <1>1, <1>2, <2>1, StopStep
    <2>3. /\ UNCHANGED <<status, cur, svc, threads, monitors>>
          /\ act'[Main].inst = cur /\ act'[Main].kind = act[Main].kind
          /\ \A b \in Actors \ {Main} : act'[b].pc = "idle"
      BY <1>1, StopStep
    <2> QED
      BY <1>1, <2>2, <2>3 DEF AtWork, MainAtWork, AtStop
  <1> QED
    BY <1>1, <1>3, StopStep DEF Steady

\* engine_stop, in establish().
LEMMA JobStopSteady ==
  ASSUME Typed, Held, NEW a \in Jobs, AtWork(a), EngineStop(a)
  PROVE  Steady'
  <1>1. a \in Actors /\ a # Main /\ JobAtWork(a) /\ cur # 0
    BY Constants, WorkTyped
  <1>2. After(a) = "build" /\ AtStop(a)
    BY <1>1 DEF After, JobAtWork, Establishing, Starting, Reconnecting
  <1>3. AtWork(a)'
    <2>1. \/ act'[a].pc = "build" /\ Stopped'
          \/ act'[a].pc = "join" /\ act'[a].joins = native'.thread /\ ~native'.running
      BY <1>1, <1>2, StopStep
    <2>2. /\ UNCHANGED <<status, cur, svc, threads, tuns, monitors, monitorJob, collected, callbacks>>
          /\ act'[a].inst = cur /\ act'[a].kind = act[a].kind
          /\ act[a].pc \in {"nstop", "join"}
          /\ \A b \in Actors \ {a} : act'[b].pc = "idle"
      BY <1>1, StopStep
    <2>3. Establishing(a)'
      BY <1>1, <2>1, <2>2 DEF JobAtWork, Establishing, AtStop
    <2>4. Starting(a) => Starting(a)'
      BY <2>1, <2>2 DEF Starting, Unwatched
    <2>5. Reconnecting(a) => Reconnecting(a)'
      BY <2>1, <2>2 DEF Reconnecting, Hears
    <2> QED
      BY <1>1, <2>1, <2>2, <2>3, <2>4, <2>5 DEF AtWork, JobAtWork
  <1> QED
    BY <1>1, <1>3, StopStep DEF Steady

\* establish() closes the old tunnel.
LEMMA CloseOldSteady ==
  ASSUME Typed, Held, NEW a \in Jobs, AtWork(a), CloseOld(a)
  PROVE  Steady'
  <1>1. /\ a \in Actors /\ a # Main /\ JobAtWork(a) /\ cur # 0
        /\ cur \in Instances /\ cur \in 1 .. made.insts /\ svc[cur] \in Services
        /\ act[a].inst = cur
    BY Constants, WorkTyped
  <1>2. /\ UNCHANGED <<status, cur, svc, native, threads, monitors, monitorJob, collected,
                       callbacks, made>>
        /\ act[a].pc = "close" /\ Goto(a, "nstop") /\ tuns' = tuns \ {svc[cur].vpnFd}
    BY <1>1 DEF CloseOld, watching, network
  <1>3. /\ act'[a].pc = "nstop" /\ act'[a].inst = cur /\ act'[a].kind = act[a].kind
        /\ \A b \in Actors \ {a} : act'[b].pc = "idle"
    BY <1>1, <1>2, WorkGoes
  <1>4. tuns' = {}
    BY <1>1, <1>2 DEF Held
  <1>5. Held'
    BY <1>2, <1>4 DEF Held
  <1>6. Establishing(a)'
    BY <1>1, <1>2, <1>3, <1>4
    DEF JobAtWork, Establishing, AtStop, Starting, Reconnecting
  <1>7. Starting(a) => Starting(a)'
    BY <1>2, <1>3 DEF Starting, Unwatched
  <1>8. Reconnecting(a) => Reconnecting(a)'
    BY <1>2, <1>3 DEF Reconnecting, Hears
  <1>9. AtWork(a)'
    BY <1>1, <1>2, <1>3, <1>6, <1>7, <1>8 DEF AtWork, JobAtWork
  <1> QED
    BY <1>1, <1>5, <1>9 DEF Steady

\* One field of the running instance changes.
LEMMA FieldChanged ==
  ASSUME Typed, Held, NEW a \in Jobs, AtWork(a),
         NEW s \in Services, svc' = [svc EXCEPT ![cur] = s]
  PROVE  /\ svc'[cur] = s
         /\ \A i \in Instances \ {cur} : svc'[i] = svc[i]
  <1>1. svc \in [Instances -> Services] /\ cur \in Instances
    BY TypesOf, WorkTyped, Constants
  <1> QED
    BY <1>1

\* A step to "fail", of establish().
LEMMA FailingSteady ==
  ASSUME Typed, Held, NEW a \in Jobs, AtWork(a), Goto(a, "fail"),
         act[a].pc \in {"build", "launch"},
         UNCHANGED <<status, cur, svc, tuns, monitors, monitorJob, collected, callbacks>>,
         Held', threads' = {}
  PROVE  Steady'
  <1>1. a \in Actors /\ a # Main /\ JobAtWork(a) /\ cur # 0
    BY Constants, WorkTyped
  <1>2. /\ act'[a].pc = "fail" /\ act'[a].inst = cur /\ act'[a].kind = act[a].kind
        /\ \A b \in Actors \ {a} : act'[b].pc = "idle"
    BY <1>1, WorkGoes
  <1>3. Establishing(a)'
    BY <1>2 DEF Establishing, AtStop
  <1>4. Starting(a) => Starting(a)'
    BY <1>2 DEF Starting, Unwatched
  <1>5. Reconnecting(a) => Reconnecting(a)'
    BY <1>2 DEF Reconnecting, Hears
  <1>6. AtWork(a)'
    BY <1>1, <1>2, <1>3, <1>4, <1>5 DEF AtWork, JobAtWork
  <1> QED
    BY <1>1, <1>6 DEF Steady

\* The builder opens a tunnel or throws.
LEMMA BuildSteady ==
  ASSUME Typed, Held, NEW a \in Jobs, AtWork(a), Build(a)
  PROVE  Steady'
  <1>1. /\ a \in Actors /\ a # Main /\ JobAtWork(a) /\ cur # 0 /\ a \in Ids
        /\ cur \in Instances /\ cur \in 1 .. made.insts /\ svc[cur] \in Services
        /\ act[a].inst = cur
    BY Constants, WorkTyped
  <1>2. /\ UNCHANGED <<status, cur, native, threads, monitors, monitorJob, collected,
                       callbacks, made>>
        /\ act[a].pc = "build"
    BY <1>1 DEF Build, watching, network
  <1>3. tuns = {} /\ Stopped
    BY <1>1, <1>2 DEF JobAtWork, Establishing
  <1>4. CASE /\ tuns' = tuns \cup {a} /\ svc' = [svc EXCEPT ![cur].vpnFd = a]
             /\ Goto(a, "wire")
    <2> DEFINE s == [svc[cur] EXCEPT !.vpnFd = a]
    <2>1. /\ s \in Services /\ s.vpnFd = a /\ s.engine = svc[cur].engine
          /\ s.netCb = svc[cur].netCb /\ s.ended = svc[cur].ended
          /\ s.cancelled = svc[cur].cancelled
      BY <1>1 DEF Services
    <2>2. svc' = [svc EXCEPT ![cur] = s]
      BY <1>4
    <2> HIDE DEF s
    <2>3. svc'[cur] = s /\ \A i \in Instances \ {cur} : svc'[i] = svc[i]
      BY <2>1, <2>2, FieldChanged
    <2>4. /\ act'[a].pc = "wire" /\ act'[a].inst = cur /\ act'[a].kind = act[a].kind
          /\ \A b \in Actors \ {a} : act'[b].pc = "idle"
      BY <1>1, <1>4, WorkGoes
    <2>5. Held'
      <3>1. /\ callbacks[cur] \subseteq {s.netCb} \ {0} /\ threads \subseteq {native.thread}
            /\ native.running => s.engine # 0
            /\ s.cancelled => s.ended
        BY <1>1, <2>1 DEF Held
      <3>2. tuns' \subseteq {s.vpnFd}
        BY <1>3, <1>4, <2>1
      <3> QED
        BY <1>1, <1>2, <2>3, <3>1, <3>2, HeldChanged
    <2>6. Establishing(a)'
      BY <1>2, <1>3, <1>4, <2>1, <2>3, <2>4 DEF Establishing, AtStop, Stopped
    <2>7. Starting(a) => Starting(a)'
      BY <1>2, <2>1, <2>3, <2>4 DEF Starting, Unwatched
    <2>8. Reconnecting(a) => Reconnecting(a)'
      BY <1>2, <2>1, <2>3, <2>4 DEF Reconnecting, Hears
    <2>9. AtWork(a)'
      BY <1>1, <1>2, <2>1, <2>3, <2>4, <2>6, <2>7, <2>8 DEF AtWork, JobAtWork
    <2> QED
      BY <1>1, <2>5, <2>9 DEF Steady
  <1>5. CASE Goto(a, "fail") /\ UNCHANGED <<tuns, svc>>
    <2>1. Held'
      BY <1>2, <1>5 DEF Held
    <2> QED
      BY <1>2, <1>3, <1>5, <2>1, FailingSteady DEF Stopped
  <1> QED
    BY <1>1, <1>4, <1>5 DEF Build

\* The new engine and shaper.
LEMMA WireSteady ==
  ASSUME Typed, Held, NEW a \in Jobs, AtWork(a), Wire(a)
  PROVE  Steady'
  <1>1. /\ a \in Actors /\ a # Main /\ JobAtWork(a) /\ cur # 0 /\ a \in Ids /\ a # 0
        /\ cur \in Instances /\ cur \in 1 .. made.insts /\ svc[cur] \in Services
        /\ act[a].inst = cur
    BY Constants, WorkTyped
  <1>2. /\ UNCHANGED <<status, cur, native, threads, tuns, monitors, monitorJob, collected,
                       callbacks, made>>
        /\ act[a].pc = "wire" /\ Goto(a, "launch")
        /\ svc' = [svc EXCEPT ![cur] = [svc[cur] EXCEPT !.engine = a]]
    BY <1>1 DEF Wire, watching, network
  <1> DEFINE s == [svc[cur] EXCEPT !.engine = a]
  <1>3. /\ s \in Services /\ s.vpnFd = svc[cur].vpnFd /\ s.engine = a
        /\ s.netCb = svc[cur].netCb /\ s.ended = svc[cur].ended
        /\ s.cancelled = svc[cur].cancelled
    BY <1>1 DEF Services
  <1> HIDE DEF s
  <1>4. svc'[cur] = s /\ \A i \in Instances \ {cur} : svc'[i] = svc[i]
    BY <1>2, <1>3, FieldChanged DEF s
  <1>5. /\ act'[a].pc = "launch" /\ act'[a].inst = cur /\ act'[a].kind = act[a].kind
        /\ \A b \in Actors \ {a} : act'[b].pc = "idle"
    BY <1>1, <1>2, WorkGoes
  <1>6. Held'
    <2>1. /\ callbacks[cur] \subseteq {s.netCb} \ {0} /\ threads \subseteq {native.thread}
          /\ s.engine # 0 /\ tuns \subseteq {s.vpnFd}
          /\ s.cancelled => s.ended
      BY <1>1, <1>3 DEF Held
    <2> QED
      BY <1>1, <1>2, <1>4, <2>1, HeldChanged
  <1>7. Establishing(a)'
    BY <1>1, <1>2, <1>3, <1>4, <1>5 DEF JobAtWork, Establishing, AtStop, Stopped
  <1>8. Starting(a) => Starting(a)'
    BY <1>2, <1>3, <1>4, <1>5 DEF Starting, Unwatched
  <1>9. Reconnecting(a) => Reconnecting(a)'
    BY <1>2, <1>3, <1>4, <1>5 DEF Reconnecting, Hears
  <1>10. AtWork(a)'
    BY <1>1, <1>2, <1>3, <1>4, <1>5, <1>7, <1>8, <1>9 DEF AtWork, JobAtWork
  <1> QED
    BY <1>1, <1>6, <1>10 DEF Steady

\* engine_start begins a thread, or fails with no thread and running set.
LEMMA NativeStartSteady ==
  ASSUME Typed, Held, NEW a \in Jobs, AtWork(a), NativeStart(a)
  PROVE  Steady'
  <1>1. /\ a \in Actors /\ a # Main /\ JobAtWork(a) /\ cur # 0 /\ a \in Ids /\ a # 0
        /\ cur \in Instances /\ cur \in 1 .. made.insts /\ svc[cur] \in Services
        /\ act[a].inst = cur
    BY Constants, WorkTyped
  <1>2. /\ UNCHANGED <<status, cur, svc, tuns, monitors, monitorJob, collected,
                       callbacks, made>>
        /\ act[a].pc = "launch"
    BY <1>1 DEF NativeStart, watching, network
  <1>3. svc[cur].vpnFd = a /\ svc[cur].engine = a /\ tuns = {a} /\ threads = {}
    BY <1>1, <1>2 DEF JobAtWork, Establishing, Stopped
  <1>4. CASE /\ Started(a, a) /\ threads' = threads \cup {a}
             /\ Goto(a, IF act[a].kind = "start" THEN "callback" ELSE "caps")
    <2>1. /\ native'.running /\ native'.thread = a /\ native'.tun = a /\ native'.epoll
          /\ threads' = {a}
      BY <1>1, <1>3, <1>4 DEF Started
    <2>2. /\ act'[a].pc = IF act[a].kind = "start" THEN "callback" ELSE "caps"
          /\ act'[a].inst = cur /\ act'[a].kind = act[a].kind
          /\ \A b \in Actors \ {a} : act'[b].pc = "idle"
      BY <1>1, <1>4, WorkGoes
    <2>3. Working'
      BY <1>1, <1>2, <1>3, <2>1 DEF Working
    <2>4. Held'
      BY <1>1, <1>2, <1>3, <2>1 DEF Held
    <2>5. Establishing(a)'
      BY <2>2, <2>3 DEF Establishing, AtStop
    <2>6. Starting(a) => Starting(a)'
      BY <1>2, <2>2 DEF Starting, Unwatched
    <2>7. Reconnecting(a) => Reconnecting(a)'
      BY <1>2, <2>2 DEF Reconnecting, Hears
    <2>8. AtWork(a)'
      BY <1>1, <1>2, <2>2, <2>5, <2>6, <2>7 DEF AtWork, JobAtWork
    <2> QED
      BY <1>1, <2>4, <2>8 DEF Steady
  <1>5. CASE Started(a, 0) /\ Goto(a, "fail") /\ UNCHANGED threads
    <2>1. Held'
      BY <1>1, <1>2, <1>3, <1>5 DEF Held
    <2> QED
      BY <1>2, <1>3, <1>5, <2>1, FailingSteady
  <1> QED
    BY <1>1, <1>3, <1>4, <1>5 DEF NativeStart

\* doStart's coroutine makes the callback,
LEMMA MakeNetCbSteady ==
  ASSUME Typed, Held, NEW a \in Jobs, AtWork(a), MakeNetCb(a)
  PROVE  Steady'
  <1>1. /\ a \in Actors /\ a # Main /\ JobAtWork(a) /\ cur # 0 /\ a \in Ids /\ a # 0
        /\ cur \in Instances /\ cur \in 1 .. made.insts /\ svc[cur] \in Services
        /\ act[a].inst = cur
    BY Constants, WorkTyped
  <1>2. /\ UNCHANGED <<status, cur, native, threads, tuns, monitors, monitorJob, collected,
                       callbacks, made>>
        /\ act[a].pc = "callback" /\ Goto(a, "register")
        /\ svc' = [svc EXCEPT ![cur] = [svc[cur] EXCEPT !.netCb = a]]
    BY <1>1 DEF MakeNetCb, watching, network
  <1> DEFINE s == [svc[cur] EXCEPT !.netCb = a]
  <1>3. /\ s \in Services /\ s.vpnFd = svc[cur].vpnFd /\ s.engine = svc[cur].engine
        /\ s.netCb = a /\ s.ended = svc[cur].ended /\ s.cancelled = svc[cur].cancelled
    BY <1>1 DEF Services
  <1> HIDE DEF s
  <1>4. svc'[cur] = s /\ \A i \in Instances \ {cur} : svc'[i] = svc[i]
    BY <1>2, <1>3, FieldChanged DEF s
  <1>5. /\ act'[a].pc = "register" /\ act'[a].inst = cur /\ act'[a].kind = act[a].kind
        /\ \A b \in Actors \ {a} : act'[b].pc = "idle"
    BY <1>1, <1>2, WorkGoes
  <1>6. Starting(a) /\ Unwatched /\ Working
    BY <1>1, <1>2 DEF JobAtWork, Establishing, Starting, Reconnecting
  <1>7. Held'
    <2>1. /\ callbacks[cur] = {} /\ threads \subseteq {native.thread}
          /\ native.running => s.engine # 0
          /\ tuns \subseteq {s.vpnFd}
          /\ s.cancelled => s.ended
      BY <1>1, <1>3, <1>6 DEF Held, Unwatched
    <2> QED
      BY <1>1, <1>2, <1>4, <2>1, HeldChanged
  <1>8. Establishing(a)'
    BY <1>2, <1>3, <1>4, <1>5, <1>6 DEF Establishing, AtStop, Working
  <1>9. Starting(a)'
    BY <1>1, <1>2, <1>3, <1>4, <1>5, <1>6 DEF Starting, Unwatched
  <1>10. AtWork(a)'
    BY <1>1, <1>2, <1>3, <1>4, <1>5, <1>8, <1>9 DEF AtWork, JobAtWork
  <1> QED
    BY <1>1, <1>7, <1>10 DEF Steady

\* and registers it.
LEMMA RegisterSteady ==
  ASSUME Typed, Held, NEW a \in Jobs, AtWork(a), RegisterNetCb(a)
  PROVE  Steady'
  <1>1. /\ a \in Actors /\ a # Main /\ JobAtWork(a) /\ cur # 0
        /\ cur \in Instances /\ cur \in 1 .. made.insts /\ svc[cur] \in Services
        /\ act[a].inst = cur /\ callbacks \in [Instances -> SUBSET Jobs]
    BY Constants, WorkTyped, TypesOf
  <1>2. /\ UNCHANGED <<status, cur, svc, native, threads, tuns, monitors, monitorJob,
                       collected, made>>
        /\ act[a].pc = "register"
    BY <1>1 DEF RegisterNetCb, watching
  <1>3. Starting(a) /\ Working /\ svc[cur].netCb # 0 /\ monitors[cur] = {}
    BY <1>1, <1>2 DEF JobAtWork, Establishing, Starting, Reconnecting
  <1>4. /\ callbacks' = [callbacks EXCEPT ![cur] = @ \cup ({svc[cur].netCb} \ {0})]
        /\ Goto(a, "connected")
    BY <1>1, <1>3 DEF RegisterNetCb
  <1>5. /\ callbacks'[cur] = {svc[cur].netCb}
        /\ \A i \in Instances \ {cur} : callbacks'[i] = callbacks[i]
    BY <1>1, <1>3, <1>4 DEF Held
  <1>6. /\ act'[a].pc = "connected" /\ act'[a].inst = cur /\ act'[a].kind = act[a].kind
        /\ \A b \in Actors \ {a} : act'[b].pc = "idle"
    BY <1>1, <1>4, WorkGoes
  <1>7. Held'
    BY <1>1, <1>2, <1>3, <1>5 DEF Held
  <1>8. Hears' /\ Working'
    BY <1>2, <1>3, <1>5 DEF Hears, Working
  <1>9. Establishing(a)'
    BY <1>6, <1>8 DEF Establishing, AtStop
  <1>10. Starting(a)'
    BY <1>2, <1>3, <1>6, <1>8 DEF Starting
  <1>11. AtWork(a)'
    BY <1>1, <1>2, <1>6, <1>9, <1>10 DEF AtWork, JobAtWork
  <1> QED
    BY <1>1, <1>7, <1>11 DEF Steady

\* CONNECTED: doStart's coroutine goes on, the reconnection's ends.
LEMMA ConnectedSteady ==
  ASSUME Typed, Held, NEW a \in Jobs, AtWork(a), Connected(a)
  PROVE  Steady'
  <1>1. /\ a \in Actors /\ a # Main /\ JobAtWork(a) /\ cur # 0 /\ act[a].inst = cur
    BY Constants, WorkTyped
  <1>2. /\ UNCHANGED <<cur, svc, native, threads, tuns, monitors, monitorJob, collected,
                       callbacks, made>>
        /\ status' = "CONNECTED" /\ act[a].pc = "connected"
        /\ IF act[a].kind = "start" THEN Goto(a, "caps") ELSE Ends(a)
    BY DEF Connected, watching, network
  <1>3. Held'
    BY <1>2 DEF Held
  <1>4. Working /\ Working' /\ ~svc[cur].ended
    BY <1>1, <1>2 DEF JobAtWork, Establishing, Working
  <1>5. CASE Starting(a)
    <2>1. Goto(a, "caps")
      BY <1>2, <1>5 DEF Starting
    <2>2. /\ act'[a].pc = "caps" /\ act'[a].inst = cur /\ act'[a].kind = act[a].kind
          /\ \A b \in Actors \ {a} : act'[b].pc = "idle"
      BY <1>1, <2>1, WorkGoes
    <2>3. Establishing(a)'
      BY <1>4, <2>2 DEF Establishing, AtStop
    <2>4. Starting(a)'
      BY <1>2, <1>5, <2>2 DEF Starting, Hears
    <2>5. AtWork(a)'
      BY <1>1, <1>2, <1>4, <2>2, <2>3, <2>4 DEF AtWork, JobAtWork
    <2> QED
      BY <1>1, <1>3, <2>5 DEF Steady
  <1>6. CASE Reconnecting(a)
    <2>1. Ends(a)
      BY <1>2, <1>6 DEF Reconnecting
    <2>2. Quiet'
      BY <1>1, <2>1, WorkEnds
    <2>3. Hears' /\ Sampled'
      BY <1>2, <1>6 DEF Reconnecting, Hears, Sampled
    <2>4. AtRest'
      BY <1>1, <1>2, <1>4, <2>3 DEF AtRest
    <2> QED
      BY <1>3, <2>2, <2>4 DEF Steady
  <1> QED
    BY <1>1, <1>5, <1>6 DEF JobAtWork

\* applySavedCaps does not fail: the scope lives.
LEMMA CapsSteady ==
  ASSUME Typed, Held, NEW a \in Jobs, AtWork(a), ApplySavedCaps(a)
  PROVE  Steady'
  <1>1. /\ a \in Actors /\ a # Main /\ JobAtWork(a) /\ cur # 0 /\ act[a].inst = cur
    BY Constants, WorkTyped
  <1>2. ~svc[cur].cancelled
    BY <1>1 DEF Held, JobAtWork
  <1>3. /\ UNCHANGED <<status, cur, svc, native, threads, tuns, monitors, monitorJob,
                       collected, callbacks, made>>
        /\ act[a].pc = "caps" /\ Goto(a, "monitor")
    BY <1>1, <1>2 DEF ApplySavedCaps, watching, network
  <1>4. /\ act'[a].pc = "monitor" /\ act'[a].inst = cur /\ act'[a].kind = act[a].kind
        /\ \A b \in Actors \ {a} : act'[b].pc = "idle"
    BY <1>1, <1>3, WorkGoes
  <1>5. Held'
    BY <1>3 DEF Held
  <1>6. Establishing(a)'
    BY <1>1, <1>3, <1>4 DEF JobAtWork, Establishing, AtStop, Working
  <1>7. Starting(a) => Starting(a)'
    BY <1>3, <1>4 DEF Starting, Hears
  <1>8. Reconnecting(a) => Reconnecting(a)'
    BY <1>3, <1>4 DEF Reconnecting, Hears
  <1>9. AtWork(a)'
    BY <1>1, <1>3, <1>4, <1>6, <1>7, <1>8 DEF AtWork, JobAtWork
  <1> QED
    BY <1>1, <1>5, <1>9 DEF Steady

\* startMonitoring and collectStats, the end of doStart's coroutine.
LEMMA StartMonitoringSteady ==
  ASSUME Typed, Held, NEW a \in Jobs, AtWork(a), StartMonitoring(a)
  PROVE  Steady'
  <1>1. /\ a \in Actors /\ a # Main /\ JobAtWork(a) /\ cur # 0 /\ act[a].inst = cur
        /\ cur \in Instances /\ svc[cur] \in Services
        /\ monitors \in [Instances -> SUBSET Jobs] /\ monitorJob \in [Jobs -> Ids]
    BY Constants, WorkTyped, TypesOf
  <1>2. /\ UNCHANGED <<status, cur, svc, native, threads, tuns, callbacks, made>>
        /\ act[a].pc = "monitor"
        /\ IF act[a].kind = "start" THEN Ends(a) ELSE Goto(a, "connected")
    BY DEF StartMonitoring, network
  <1>3. Working /\ Working' /\ monitors[cur] = {} /\ ~svc[cur].ended
    BY <1>1, <1>2 DEF JobAtWork, Establishing, Working, Starting, Reconnecting
  <1>4. svc[cur].engine \in Jobs /\ ~svc[cur].cancelled
    BY <1>1, <1>3 DEF Working, Services, Ids, Jobs, Held
  <1>5. Sampled'
    <2>1. /\ monitors' = [monitors EXCEPT ![cur] = @ \cup Scoped(cur, {a})]
          /\ monitorJob' = [monitorJob EXCEPT ![svc[cur].engine] = a]
      BY <1>1, <1>3 DEF StartMonitoring, Working
    <2>2. Scoped(cur, {a}) = {a}
      BY <1>4 DEF Scoped
    <2>3. monitors'[cur] = {a} /\ monitorJob'[svc[cur].engine] = a
      BY <1>1, <1>3, <1>4, <2>1, <2>2
    <2> QED
      BY <1>2, <2>3 DEF Sampled
  <1>6. Held'
    BY <1>2 DEF Held
  <1>7. CASE Starting(a)
    <2>1. Ends(a) /\ status = "CONNECTED" /\ Hears
      BY <1>2, <1>7 DEF Starting
    <2>2. Quiet'
      BY <1>1, <2>1, WorkEnds
    <2>3. Hears'
      BY <1>2, <2>1 DEF Hears
    <2>4. AtRest'
      BY <1>1, <1>2, <1>3, <1>5, <2>1, <2>3 DEF AtRest
    <2> QED
      BY <1>6, <2>2, <2>4 DEF Steady
  <1>8. CASE Reconnecting(a)
    <2>1. Goto(a, "connected")
      BY <1>2, <1>8 DEF Reconnecting
    <2>2. /\ act'[a].pc = "connected" /\ act'[a].inst = cur /\ act'[a].kind = act[a].kind
          /\ \A b \in Actors \ {a} : act'[b].pc = "idle"
      BY <1>1, <2>1, WorkGoes
    <2>3. Establishing(a)'
      BY <1>3, <2>2 DEF Establishing, AtStop
    <2>4. Reconnecting(a)'
      BY <1>2, <1>5, <1>8, <2>2 DEF Reconnecting, Hears
    <2>5. AtWork(a)'
      BY <1>1, <1>2, <1>3, <2>2, <2>3, <2>4 DEF AtWork, JobAtWork
    <2> QED
      BY <1>1, <1>6, <2>5 DEF Steady
  <1> QED
    BY <1>1, <1>7, <1>8 DEF JobAtWork

\* A start that failed leaves no thread and nothing watched; after a reconnection
\* that failed the service is not calm.
LEMMA FailSteady ==
  ASSUME Typed, Held, NEW a \in Jobs, AtWork(a), Fail(a), calm'
  PROVE  Steady'
  <1>1. /\ a \in Actors /\ a # Main /\ JobAtWork(a) /\ cur # 0 /\ act[a].inst = cur
    BY Constants, WorkTyped
  <1>2. /\ UNCHANGED <<cur, svc, native, threads, tuns, monitors, monitorJob, collected,
                       callbacks, made>>
        /\ status' = "ERROR" /\ act[a].pc = "fail" /\ Ends(a) /\ act[a].kind = "start"
    BY DEF Fail, Calmly, watching, network
  <1>3. Held'
    BY <1>2 DEF Held
  <1>4. Quiet'
    BY <1>1, <1>2, WorkEnds
  <1>5. Unwatched /\ threads = {} /\ ~svc[cur].ended
    BY <1>1, <1>2 DEF JobAtWork, Starting, Reconnecting
  <1>6. AtRest'
    BY <1>1, <1>2, <1>5 DEF AtRest, Unwatched
  <1> QED
    BY <1>3, <1>4, <1>6 DEF Steady

\* A thread ends only where one is stopped, never under a working engine.
LEMMA ThreadExitsSteady ==
  ASSUME Typed, Steady, NEW t \in Jobs, ThreadExits(t)
  PROVE  Steady'
  <1>1. /\ UNCHANGED <<status, cur, svc, act, native, tuns, monitors, monitorJob, collected,
                       callbacks, made>>
        /\ threads # {} /\ threads' = {} /\ ~Working /\ ~Stopped
    BY DEF ThreadExits, LoopEnds, Steady, Held, Working, Stopped, watching, network
  <1>2. Held'
    BY <1>1 DEF Steady, Held
  <1>3. CASE Quiet /\ AtRest
    <2>1. status \in Statuses
      BY TypesOf
    <2>2. FALSE
      BY <1>1, <1>3, <2>1 DEF AtRest, Statuses
    <2> QED
      BY <2>2
  <1>4. ASSUME NEW a \in Actors, AtWork(a)
        PROVE  Steady'
    <2>1. CASE a = Main
      <3>1. AtWork(a)'
        BY <1>1, <1>4, <2>1 DEF AtWork, MainAtWork, AtStop
      <3> QED
        BY <1>2, <3>1 DEF Steady
    <2>2. CASE a # Main
      <3>1. JobAtWork(a)
        BY <1>4, <2>2 DEF AtWork
      <3>2. act[a].pc \notin {"build", "wire", "launch", "callback", "register", "connected",
                              "caps", "monitor"}
        BY <1>1, <3>1 DEF JobAtWork, Establishing
      <3>3. Establishing(a)'
        BY <1>1, <3>1, <3>2 DEF JobAtWork, Establishing, AtStop
      <3>4. Starting(a) => Starting(a)'
        BY <1>1 DEF Starting, Unwatched, Hears
      <3>5. Reconnecting(a) => Reconnecting(a)'
        BY <1>1 DEF Reconnecting, Hears, Sampled
      <3>6. AtWork(a)'
        BY <1>1, <1>4, <2>2, <3>1, <3>3, <3>4, <3>5 DEF AtWork, JobAtWork
      <3> QED
        BY <1>2, <3>6 DEF Steady
    <2> QED
      BY <2>1, <2>2
  <1> QED
    BY <1>3, <1>4 DEF Steady

\* doStop ends with everything released; after onDestroy there is no instance.
LEMMA ReleaseSteady ==
  ASSUME Typed, Steady, Release
  PROVE  Steady'
  <1> DEFINE s == [NewService EXCEPT !.ended = TRUE, !.cancelled = svc[cur].cancelled]
  <1>1. Main \in Actors /\ Held /\ AtWork(Main)
    BY MovesAtWork, Constants DEF Release, Steady
  <1>2. /\ cur \in Instances /\ cur \in 1 .. made.insts /\ svc[cur] \in Services
        /\ cur # 0 /\ MainAtWork /\ act[Main].inst = cur
        /\ svc \in [Instances -> Services] /\ callbacks \in [Instances -> SUBSET Jobs]
        /\ made.insts \in Nat
    BY <1>1, WorkTyped, TypesOf, Constants DEF Counts
  <1>3. /\ s.vpnFd = 0 /\ s.engine = 0 /\ s.netCb = 0 /\ s.ended = TRUE
        /\ s.cancelled = svc[cur].cancelled
    BY DEF NewService
  <1> HIDE DEF s
  <1>4. /\ UNCHANGED <<status, native, threads, monitors, monitorJob, collected, made>>
        /\ tuns' = tuns \ {svc[cur].vpnFd} /\ Ends(Main)
        /\ callbacks' = [callbacks EXCEPT ![cur] = callbacks[cur] \ {svc[cur].netCb}]
        /\ svc' = [svc EXCEPT ![cur] = s]
        /\ cur' = IF act[Main].kind = "destroy" THEN 0 ELSE cur
    BY <1>2 DEF Release, Unregistered, s, watching
  <1>5. /\ tuns' = {} /\ Stopped /\ status = "DISCONNECTED" /\ monitors[cur] = {}
        /\ (act[Main].kind = "destroy") <=> svc[cur].ended
    BY <1>1, <1>2, <1>4 DEF Held, MainAtWork, Release
  <1>6. Quiet'
    BY <1>1, <1>4, WorkEnds
  <1>7. /\ svc'[cur] = s /\ callbacks'[cur] = {}
        /\ \A i \in Instances \ {cur} : svc'[i] = svc[i] /\ callbacks'[i] = {}
    BY <1>1, <1>2, <1>4 DEF Held
  <1>8. Held'
    <2>1. \A i \in Instances : i > made.insts => svc'[i] = NewService
      <3> SUFFICES ASSUME NEW i \in Instances, i > made.insts
                   PROVE  svc'[i] = NewService
        OBVIOUS
      <3>1. i # cur
        BY <1>2 DEF Instances
      <3> QED
        BY <1>1, <1>7, <3>1 DEF Held
    <2>2. \A i \in Instances : callbacks'[i] = {}
      BY <1>2, <1>7
    <2>3. cur' # 0 => cur' = cur /\ svc'[cur'] = s
      BY <1>4, <1>7
    <2>4. cur' # 0 => cur' \in Instances
      BY <1>2, <2>3
    <2> QED
      BY <1>1, <1>3, <1>4, <1>5, <2>1, <2>2, <2>3, <2>4 DEF Held, Stopped
  <1>9. AtRest'
    BY <1>2, <1>3, <1>4, <1>5, <1>7 DEF AtRest, Stopped
  <1> QED
    BY <1>6, <1>8, <1>9 DEF Steady

\* A launch when nothing is at work puts one actor to work.
LEMMA LaunchedOne ==
  ASSUME Typed, Quiet, NEW kind, NEW i \in Instances, ~svc[i].cancelled, Launched(kind, i)
  PROVE  \E a \in Jobs :
           /\ act'[a] = [pc |-> "close", kind |-> kind, inst |-> i, joins |-> 0]
           /\ \A b \in Actors \ {a} : act'[b].pc = "idle"
           /\ a \in Actors /\ a # Main
  <1>1. act \in [Actors -> ActorStates]
    BY TypesOf
  <1>2. PICK a \in Jobs :
          act' = [act EXCEPT ![a] = [pc |-> "close", kind |-> kind, inst |-> i, joins |-> 0]]
    BY DEF Launched, Scoped
  <1> QED
    BY <1>1, <1>2, Constants DEF Quiet

\* A command finds the instance there is, or makes one of which nothing is known.
LEMMA CommandFinds ==
  ASSUME Silent, Held, AtRest, ~Ending, Commanded,
         made'.insts = Insts
  PROVE  /\ cur' \in Instances /\ cur' # 0 /\ cur' = Instance /\ ~svc[cur'].ended
         /\ (cur # 0 => cur' = cur) /\ (cur = 0 => svc[cur'] = NewService)
         /\ ~svc[cur'].cancelled
         /\ cur = 0 => status = "DISCONNECTED" /\ monitors[cur'] = {} /\ collected[cur'] = {}
         /\ \A i \in Instances : i > made'.insts => svc[i] = NewService
         /\ \A i \in Instances \ {cur'} : callbacks[i] = {}
         /\ callbacks[cur'] \subseteq {svc[cur'].netCb} \ {0}
         /\ tuns \subseteq {svc[cur'].vpnFd}
         /\ native.running => svc[cur'].engine # 0
         /\ threads # {} => native.running
  <1>1. /\ Typed /\ OnlyCurrent /\ made \in Counts /\ cur \in 0 .. made.insts
        /\ status \in Statuses
    BY TypesOf DEF Silent
  <1>2. cur' = Instance /\ Instance \in Instances
    BY DEF Commanded
  <1>3. threads # {} => native.running
    BY <1>1 DEF AtRest, Statuses, Stopped, Working
  <1>4. CASE cur = 0
    <2>1. cur' = made.insts + 1 /\ made'.insts = made.insts + 1 /\ made.insts \in Nat
      BY <1>1, <1>2, <1>4, Constants DEF Instance, Insts, Counts
    <2>2. svc[cur'] = NewService /\ callbacks[cur'] = {} /\ cur' # 0 /\ cur' # cur
      BY <1>2, <1>4, <2>1 DEF Held
    <2>3. status = "DISCONNECTED" /\ tuns = {} /\ ~native.running
      BY <1>1, <1>4 DEF AtRest, Statuses, Stopped
    <2>4. monitors[cur'] = {} /\ collected[cur'] = {}
      BY <1>1, <1>2, <2>2 DEF OnlyCurrent, Watches
    <2>5. \A i \in Instances : i > made'.insts => svc[i] = NewService
      BY <2>1 DEF Held, Instances
    <2> QED
      BY <1>2, <1>3, <1>4, <2>2, <2>3, <2>4, <2>5 DEF Held, NewService, Instances
  <1>5. CASE cur # 0
    <2>1. cur' = cur /\ made'.insts = made.insts
      BY <1>2, <1>5 DEF Instance, Insts
    <2>2. ~svc[cur].ended
      BY <1>5 DEF Ending
    <2> QED
      BY <1>2, <1>3, <1>5, <2>1, <2>2 DEF Held
  <1> QED
    BY <1>4, <1>5

\* A start finds nothing running, watched or registered.
LEMMA StartSteady ==
  ASSUME Silent, Steady, Start, calm, calm'
  PROVE  Steady'
  <1>1. Typed /\ Held /\ act[Main].pc = "idle" /\ made \in Counts
    BY TypesOf DEF Silent, Steady, Start, Commanded, MainIsFree
  <1>2. CASE status = "CONNECTED"
    <2>1. cur # 0
      BY <1>2 DEF Steady, AtRest, AtWork
    <2>2. /\ UNCHANGED <<status, cur, svc, act, native, threads, tuns, monitors, monitorJob,
                         collected, callbacks, calm>>
          /\ made' = [made EXCEPT !.insts = made.insts]
      BY <1>2, <2>1 DEF Start, Commanded, Instance, Insts, watching, network
    <2>3. made' = made
      BY <1>1, <2>2 DEF Counts
    <2>4. Held' /\ (Quiet => Quiet')
      BY <1>1, <2>2, <2>3 DEF Held, Quiet
    <2>5. AtRest => AtRest'
      BY <2>2 DEF AtRest, Stopped, Working, Hears, Sampled, Unwatched
    <2>6. ASSUME NEW a \in Actors, AtWork(a) PROVE AtWork(a)'
      BY <2>2, <2>6 DEF AtWork, MainAtWork, JobAtWork, Establishing, AtStop, Starting,
         Reconnecting, Stopped, Working, Hears, Sampled, Unwatched
    <2> QED
      BY <2>4, <2>5, <2>6 DEF Steady
  <1>3. CASE status # "CONNECTED"
    <2>1. /\ UNCHANGED <<svc, native, threads, tuns, monitors, monitorJob, collected,
                         callbacks>>
          /\ status' = "CONNECTING" /\ Launched("start", Instance) /\ Commanded
          /\ Quiet /\ ~Ending /\ status # "RECONNECTING" /\ made'.insts = Insts
      <3>1. /\ UNCHANGED <<svc, native, threads, tuns, monitors, monitorJob, collected,
                           callbacks>>
            /\ status' = "CONNECTING" /\ Launched("start", Instance) /\ Commanded
            /\ made' = [insts |-> Insts, jobs |-> made.jobs + 1]
            /\ Calmly(Quiet /\ ~Ending /\ status # "RECONNECTING")
        BY <1>3 DEF Start, watching, network
      <3>2. Quiet /\ ~Ending /\ status # "RECONNECTING"
        BY <3>1 DEF Calmly
      <3> QED
        BY <3>1, <3>2
    <2>2. AtRest
      BY <2>1 DEF Steady, Quiet, AtWork
    <2>3. /\ cur' \in Instances /\ cur' # 0 /\ cur' = Instance /\ ~svc[cur'].ended
          /\ (cur # 0 => cur' = cur) /\ (cur = 0 => svc[cur'] = NewService)
          /\ ~svc[cur'].cancelled
          /\ cur = 0 => status = "DISCONNECTED" /\ monitors[cur'] = {} /\ collected[cur'] = {}
          /\ \A i \in Instances : i > made'.insts => svc[i] = NewService
          /\ \A i \in Instances \ {cur'} : callbacks[i] = {}
          /\ callbacks[cur'] \subseteq {svc[cur'].netCb} \ {0}
          /\ tuns \subseteq {svc[cur'].vpnFd}
          /\ native.running => svc[cur'].engine # 0
          /\ threads # {} => native.running
      BY <1>1, <2>1, <2>2, CommandFinds
    <2>4. status \in {"DISCONNECTED", "ERROR"}
      BY <1>1, <1>3, <2>1, <2>2, TypesOf DEF AtRest, Statuses
    <2>5. threads = {} /\ Unwatched'
      BY <2>1, <2>2, <2>3, <2>4 DEF AtRest, Stopped, Unwatched, NewService
    <2>6. Held'
      BY <1>1, <2>1, <2>3 DEF Held
    <2>7. PICK a \in Jobs :
            /\ act'[a] = [pc |-> "close", kind |-> "start", inst |-> cur', joins |-> 0]
            /\ \A b \in Actors \ {a} : act'[b].pc = "idle"
            /\ a \in Actors /\ a # Main
      BY <1>1, <2>1, <2>3, LaunchedOne
    <2>8. Establishing(a)'
      BY <2>7 DEF Establishing, AtStop
    <2>9. Starting(a)'
      BY <2>1, <2>5, <2>7 DEF Starting
    <2>10. AtWork(a)'
      BY <2>1, <2>3, <2>7, <2>8, <2>9 DEF AtWork, JobAtWork
    <2> QED
      BY <2>6, <2>7, <2>10 DEF Steady
  <1> QED
    BY <1>2, <1>3

\* ACTION_STOP, onRevoke.
LEMMA StopSteady ==
  ASSUME Silent, Steady, Stop, calm, calm'
  PROVE  Steady'
  <1>1. /\ Typed /\ Held /\ made \in Counts /\ status \in Statuses
        /\ act \in [Actors -> ActorStates] /\ Main \in Actors
    BY TypesOf, Constants DEF Silent, Steady
  <1>2. /\ UNCHANGED <<svc, native, threads, tuns, collected, callbacks>>
        /\ status' = "DISCONNECTED" /\ Commanded /\ Quiet /\ ~Ending
        /\ act' = [act EXCEPT ![Main] =
                     [pc |-> "nstop", kind |-> "stop", inst |-> Instance, joins |-> 0]]
        /\ made' = [made EXCEPT !.insts = Insts] /\ StopMonitoring(Instance)
    <2>1. Quiet /\ ~Ending
      BY DEF Stop, Calmly
    <2> QED
      BY <2>1 DEF Stop, BeginStop, network
  <1>3. made'.insts = Insts
    BY <1>1, <1>2 DEF Counts
  <1>4. AtRest
    BY <1>2 DEF Steady, Quiet, AtWork
  <1>5. /\ cur' \in Instances /\ cur' # 0 /\ cur' = Instance /\ ~svc[cur'].ended
        /\ (cur # 0 => cur' = cur) /\ (cur = 0 => svc[cur'] = NewService)
        /\ ~svc[cur'].cancelled
        /\ cur = 0 => status = "DISCONNECTED" /\ monitors[cur'] = {} /\ collected[cur'] = {}
        /\ \A i \in Instances : i > made'.insts => svc[i] = NewService
        /\ \A i \in Instances \ {cur'} : callbacks[i] = {}
        /\ callbacks[cur'] \subseteq {svc[cur'].netCb} \ {0}
        /\ tuns \subseteq {svc[cur'].vpnFd}
        /\ native.running => svc[cur'].engine # 0
        /\ threads # {} => native.running
    BY <1>1, <1>2, <1>3, <1>4, CommandFinds
  <1>6. monitors'[cur'] = {}
    <2>1. CASE status = "CONNECTED"
      <3>1. cur' = cur /\ svc[cur].engine # 0 /\ monitors[cur] = {monitorJob[svc[cur].engine]}
        BY <1>4, <1>5, <2>1 DEF AtRest, Working, Sampled
      <3>2. monitors' = [j \in Instances |-> monitors[j] \ {monitorJob[svc[cur].engine]}]
        BY <1>2, <1>5, <3>1 DEF StopMonitoring
      <3> QED
        BY <1>5, <3>1, <3>2
    <2>2. CASE status # "CONNECTED"
      <3>1. monitors[cur'] = {}
        BY <1>1, <1>4, <1>5, <2>2 DEF AtRest, Unwatched, Statuses
      <3>2. \A j \in Instances : monitors'[j] \subseteq monitors[j]
        BY <1>1, <1>2, <1>5, StopMonitoringTyped
      <3> QED
        BY <1>5, <3>1, <3>2
    <2> QED
      BY <2>1, <2>2
  <1>7. Held'
    BY <1>1, <1>2, <1>5 DEF Held
  <1>8. /\ act'[Main] = [pc |-> "nstop", kind |-> "stop", inst |-> cur', joins |-> 0]
        /\ \A b \in Actors \ {Main} : act'[b].pc = "idle"
    BY <1>1, <1>2, <1>5 DEF Quiet
  <1>9. MainAtWork'
    BY <1>2, <1>5, <1>6, <1>8 DEF MainAtWork, AtStop
  <1>10. AtWork(Main)'
    BY <1>5, <1>8, <1>9 DEF AtWork
  <1> QED
    BY <1>1, <1>7, <1>10 DEF Steady

\* onDestroy.
LEMMA DestroySteady ==
  ASSUME Silent, Steady, Destroy
  PROVE  Steady'
  <1> DEFINE v == [svc[cur] EXCEPT !.cancelled = TRUE]
  <1>1. /\ Typed /\ Held /\ made \in Counts /\ Main \in Actors /\ made.insts \in Nat
        /\ act \in [Actors -> ActorStates] /\ svc \in [Instances -> Services]
        /\ cur \in 0 .. made.insts
    BY TypesOf, Constants DEF Silent, Steady, Counts
  <1>2. /\ UNCHANGED <<cur, native, threads, tuns, callbacks, made>>
        /\ status' = "DISCONNECTED" /\ cur # 0 /\ svc[cur].ended
        /\ act[Main].pc = "idle"
        /\ act' = [act EXCEPT ![Main] =
                     [pc |-> "nstop", kind |-> "destroy", inst |-> cur, joins |-> 0]]
        /\ svc' = [svc EXCEPT ![cur] = v]
    BY DEF Destroy, BeginStop, Ending, MainIsFree, network
  <1>3. cur \in Instances /\ svc[cur] \in Services /\ monitors'[cur] = {}
    BY <1>1, <1>2, DestroyTyped
  <1>4. Quiet /\ AtRest
    BY <1>2 DEF Steady, AtWork, JobAtWork
  <1>5. /\ v.vpnFd = svc[cur].vpnFd /\ v.engine = svc[cur].engine
        /\ v.netCb = svc[cur].netCb /\ v.ended
    BY <1>2, <1>3 DEF Services
  <1> HIDE DEF v
  <1>6. svc'[cur] = v /\ \A i \in Instances \ {cur} : svc'[i] = svc[i]
    BY <1>1, <1>2, <1>3
  <1>7. svc[cur].netCb = 0 /\ Stopped
    BY <1>2, <1>4 DEF AtRest
  <1>8. Held'
    <2>1. \A i \in Instances : i > made.insts => svc'[i] = NewService
      BY <1>1, <1>6 DEF Held, Instances
    <2>2. /\ \A i \in Instances \ {cur} : callbacks[i] = {}
          /\ callbacks[cur] \subseteq {v.netCb} \ {0}
          /\ tuns \subseteq {v.vpnFd} /\ threads \subseteq {native.thread}
          /\ native.running => v.engine # 0
      BY <1>1, <1>2, <1>5 DEF Held
    <2> QED
      BY <1>2, <1>5, <1>6, <2>1, <2>2 DEF Held
  <1>9. /\ act'[Main] = [pc |-> "nstop", kind |-> "destroy", inst |-> cur, joins |-> 0]
        /\ \A b \in Actors \ {Main} : act'[b].pc = "idle"
    BY <1>1, <1>2, <1>4 DEF Quiet
  <1>10. MainAtWork'
    BY <1>2, <1>3, <1>5, <1>6, <1>7, <1>9 DEF MainAtWork, AtStop, Stopped
  <1>11. AtWork(Main)'
    BY <1>2, <1>9, <1>10 DEF AtWork
  <1> QED
    BY <1>1, <1>8, <1>11 DEF Steady

\* The callbacks are those of the running instance.
LEMMA CallbackIsCurrent ==
  ASSUME Typed, Held, NEW i \in Instances, callbacks[i] # {}
  PROVE  i = cur /\ cur # 0
  BY DEF Held, Instances

\* A callback that finds nothing to do.
LEMMA NothingHeardSteady ==
  ASSUME Typed, Steady,
         UNCHANGED <<status, cur, svc, act, native, threads, tuns, monitors, monitorJob,
                     collected, callbacks, made>>
  PROVE  Steady'
  <1>1. Held'
    BY DEF Steady, Held
  <1>2. Quiet /\ AtRest => Quiet' /\ AtRest'
    BY DEF Quiet, AtRest, Stopped, Working, Hears, Sampled, Unwatched
  <1>3. ASSUME NEW a \in Actors, AtWork(a) PROVE AtWork(a)'
    BY <1>3 DEF AtWork, MainAtWork, JobAtWork, Establishing, AtStop, Starting,
       Reconnecting, Stopped, Working, Hears, Sampled, Unwatched
  <1> QED
    BY <1>1, <1>2, <1>3 DEF Steady

\* onLost stops the monitor of the instance that works.
LEMMA OnLostSteady ==
  ASSUME Typed, Steady, NEW i \in Instances, NEW c \in Jobs, NEW n \in Networks,
         OnLost(i, c, n), calm, calm'
  PROVE  Steady'
  <1>1. /\ UNCHANGED <<cur, svc, act, native, threads, tuns, collected, callbacks, made>>
        /\ callbacks[i] # {}
    BY DEF OnLost
  <1>2. i = cur /\ cur # 0 /\ Held
    BY <1>1, CallbackIsCurrent DEF Steady
  <1>3. CASE status # "CONNECTED"
    <2>1. UNCHANGED <<status, monitors, monitorJob>>
      BY <1>3 DEF OnLost
    <2> QED
      BY <1>1, <2>1, NothingHeardSteady
  <1>4. CASE status = "CONNECTED"
    <2>1. Quiet
      BY <1>4 DEF OnLost, Calmly
    <2>2. status' = "RECONNECTING" /\ StopMonitoring(cur)
      BY <1>2, <1>4 DEF OnLost, LeftMonitors
    <2>3. AtRest
      BY <2>1 DEF Steady, Quiet, AtWork
    <2>4. Working /\ Hears /\ Sampled /\ ~svc[cur].ended
      BY <1>4, <2>3 DEF AtRest
    <2>5. monitors'[cur] = {}
      <3>1. monitors' = [j \in Instances |-> monitors[j] \ {monitorJob[svc[cur].engine]}]
        BY <2>2, <2>4 DEF StopMonitoring, Working
      <3> QED
        BY <1>2, <2>4, <3>1 DEF Sampled
    <2>6. Held' /\ Quiet'
      BY <1>1, <1>2, <2>1 DEF Held, Quiet
    <2>7. Working' /\ Hears'
      BY <1>1, <2>4 DEF Working, Hears
    <2>8. AtRest'
      BY <1>1, <1>2, <2>2, <2>4, <2>5, <2>7 DEF AtRest
    <2> QED
      BY <2>6, <2>8 DEF Steady
  <1> QED
    BY <1>3, <1>4

\* onAvailable: the one registered callback launches one reconnection.
LEMMA OnAvailableSteady ==
  ASSUME Typed, Steady, NEW i \in Instances, NEW c \in Jobs, NEW n \in Networks,
         OnAvailable(i, c, n), calm, calm'
  PROVE  Steady'
  <1>1. /\ UNCHANGED <<status, cur, svc, native, threads, tuns, monitors, monitorJob,
                       collected, callbacks>>
        /\ callbacks[i] # {}
    BY DEF OnAvailable, watching
  <1>2. i = cur /\ cur # 0 /\ Held /\ made \in Counts
    BY <1>1, CallbackIsCurrent, TypesOf DEF Steady
  <1>3. CASE status # "RECONNECTING"
    <2>1. UNCHANGED <<act, made>>
      BY <1>3 DEF OnAvailable
    <2> QED
      BY <1>1, <2>1, NothingHeardSteady
  <1>4. CASE status = "RECONNECTING"
    <2>1. Quiet
      BY <1>4 DEF OnAvailable, Calmly
    <2>2. Launched("reconnect", cur) /\ made' = [made EXCEPT !.jobs = @ + 1]
      BY <1>2, <1>4 DEF OnAvailable
    <2>3. AtRest
      BY <2>1 DEF Steady, Quiet, AtWork
    <2>4. Working /\ Hears /\ monitors[cur] = {} /\ ~svc[cur].ended
      BY <1>4, <2>3 DEF AtRest
    <2>5. ~svc[cur].cancelled
      BY <1>2, <2>4 DEF Held
    <2>6. PICK a \in Jobs :
            /\ act'[a] = [pc |-> "close", kind |-> "reconnect", inst |-> cur, joins |-> 0]
            /\ \A b \in Actors \ {a} : act'[b].pc = "idle"
            /\ a \in Actors /\ a # Main
      BY <1>2, <2>1, <2>2, <2>5, LaunchedOne
    <2>7. Held'
      <3>1. made'.insts = made.insts
        BY <1>2, <2>2 DEF Counts
      <3> QED
        BY <1>1, <1>2, <3>1 DEF Held
    <2>8. Establishing(a)'
      BY <2>6 DEF Establishing, AtStop
    <2>9. Reconnecting(a)'
      BY <1>1, <1>4, <2>4, <2>6 DEF Reconnecting, Hears, Working
    <2>10. AtWork(a)'
      BY <1>1, <1>2, <2>4, <2>6, <2>8, <2>9 DEF AtWork, JobAtWork
    <2> QED
      BY <2>6, <2>7, <2>10 DEF Steady
  <1> QED
    BY <1>3, <1>4

\* After a kill or a crash the service is at rest.
LEMMA DeathSteady ==
  ASSUME Typed, ProcessDies
  PROVE  Steady'
  <1>1. /\ \A i \in Instances :
             /\ svc'[i] = NewService /\ callbacks'[i] = {} /\ monitors'[i] = {}
             /\ collected'[i] = {}
        /\ \A a \in Actors : act'[a] = Idle
        /\ native' = StoppedEngine /\ threads' = {} /\ tuns' = {}
        /\ status' = "DISCONNECTED"
    BY DEF ProcessDies
  <1>2. cur' # 0 => cur' \in Instances
    <2>1. Typed'
      BY DeathTyped
    <2> QED
      BY Constants DEF ProcessDies, Restarted, Instances
  <1>3. Held'
    BY <1>1, <1>2 DEF Held, NewService, StoppedEngine
  <1>4. Quiet' /\ AtRest'
    BY <1>1, <1>2 DEF Quiet, AtRest, Idle, Stopped, StoppedEngine, NewService
  <1> QED
    BY <1>3, <1>4 DEF Steady

CalmIsSteady == calm => Steady

\* Every step that leaves the service calm keeps it steady.
LEMMA NextSteady ==
  ASSUME Silent, CalmIsSteady, [Next]_vars
  PROVE  CalmIsSteady'
  <1> SUFFICES ASSUME calm' PROVE Steady'
    BY DEF CalmIsSteady
  <1>0. Typed
    BY DEF Silent
  <1>1. CASE Killed \/ Crash
    BY <1>0, <1>1, DeathSteady DEF Killed, Crash
  <1>2. CASE ~(Killed \/ Crash)
    <2>1. calm
      <3>1. calm' = calm \/ \E p \in BOOLEAN : calm' = (calm /\ p)
        <4>1. CASE Start \/ Stop \/ Destroy \/ Release
          BY <4>1 DEF Start, Stop, Destroy, Release, Calmly
        <4>2. CASE \E a \in Actors : EngineStop(a)
          BY <4>2 DEF EngineStop, NothingToStop, ClearRunning, Teardown
        <4>3. CASE \E a \in Jobs : Coroutine(a)
          BY <4>3 DEF Coroutine, CloseOld, Build, Wire, NativeStart, MakeNetCb,
             RegisterNetCb, Connected, ApplySavedCaps, StartMonitoring, Fail, Calmly
        <4>4. CASE (\E t \in Jobs : ThreadExits(t)) \/ UNCHANGED vars
          BY <4>4 DEF ThreadExits, vars
        <4>5. CASE \E i \in Instances, c \in Jobs, n \in Networks :
                     OnLost(i, c, n) \/ OnAvailable(i, c, n)
          BY <4>5 DEF OnLost, OnAvailable, Calmly
        <4> QED
          BY <1>2, <4>1, <4>2, <4>3, <4>4, <4>5 DEF Next
      <3> QED
        BY <3>1
    <2>2. Steady /\ Held
      BY <2>1 DEF CalmIsSteady, Steady
    <2>3. CASE Start \/ Stop \/ Destroy \/ Release
      BY <1>0, <2>1, <2>2, <2>3, StartSteady, StopSteady, DestroySteady, ReleaseSteady
    <2>4. ASSUME NEW a \in Actors, EngineStop(a)
          PROVE  Steady'
      <3>1. AtWork(a)
        BY <2>2, <2>4, MovesAtWork DEF EngineStop, NothingToStop, ClearRunning, Teardown
      <3> QED
        BY <1>0, <2>2, <2>4, <3>1, MainStopSteady, JobStopSteady DEF Actors
    <2>5. ASSUME NEW a \in Jobs, Coroutine(a)
          PROVE  Steady'
      <3>1. act[a].pc # "idle" /\ a \in Actors
        BY <2>5, Constants DEF Coroutine, CloseOld, Build, Wire, NativeStart, MakeNetCb,
           RegisterNetCb, Connected, ApplySavedCaps, StartMonitoring, Fail
      <3>2. AtWork(a)
        BY <2>2, <3>1, MovesAtWork
      <3> QED
        BY <1>0, <2>2, <2>5, <3>2, CloseOldSteady, BuildSteady, WireSteady,
           NativeStartSteady, MakeNetCbSteady, RegisterSteady, ConnectedSteady, CapsSteady,
           StartMonitoringSteady, FailSteady
        DEF Coroutine
    <2>6. CASE \E t \in Jobs : ThreadExits(t)
      BY <1>0, <2>2, <2>6, ThreadExitsSteady
    <2>7. CASE UNCHANGED vars
      BY <1>0, <2>2, <2>7, NothingHeardSteady DEF vars, watching, network
    <2>8. CASE \E i \in Instances, c \in Jobs, n \in Networks :
                 OnLost(i, c, n) \/ OnAvailable(i, c, n)
      BY <1>0, <2>1, <2>2, <2>8, OnLostSteady, OnAvailableSteady
    <2> QED
      BY <1>2, <2>3, <2>4, <2>5, <2>6, <2>7, <2>8 DEF Next
  <1> QED
    BY <1>1, <1>2

\* What being steady says to the user.
LEMMA SteadyIsSafe ==
  ASSUME Silent, CalmIsSteady
  PROVE  ConnectedWorks /\ StoppedClean
  <1>1. Typed /\ OnlyCurrent
    BY DEF Silent
  <1>2. ConnectedWorks
    <2> SUFFICES ASSUME calm, Quiet, status = "CONNECTED"
                 PROVE  cur # 0 /\ Serving(svc[cur])
      BY DEF ConnectedWorks
    <2>1. AtRest
      BY DEF CalmIsSteady, Steady, Quiet, AtWork
    <2>2. cur # 0 /\ Working /\ Hears /\ Sampled
      BY <2>1 DEF AtRest
    <2> QED
      BY <2>2 DEF Working, Hears, Sampled, Serving
  <1>3. StoppedClean
    <2> SUFFICES ASSUME calm, Quiet, status = "DISCONNECTED", ~Ending
                 PROVE  /\ tuns = {} /\ threads = {} /\ ~native.running
                        /\ \A i \in Instances :
                             callbacks[i] = {} /\ monitors[i] = {} /\ collected[i] = {}
      BY DEF StoppedClean
    <2>1. AtRest /\ Held
      BY DEF CalmIsSteady, Steady, Quiet, AtWork
    <2>2. /\ Stopped /\ tuns = {}
          /\ cur # 0 => svc[cur].netCb = 0 /\ monitors[cur] = {} /\ collected[cur] = {}
      BY <2>1 DEF AtRest, Ending
    <2>3. ASSUME NEW i \in Instances
          PROVE  callbacks[i] = {} /\ monitors[i] = {} /\ collected[i] = {}
      BY <1>1, <2>1, <2>2 DEF Held, OnlyCurrent, Watches, Instances
    <2> QED
      BY <2>2, <2>3 DEF Stopped
  <1> QED
    BY <1>2, <1>3

\* Through starts and stops, failing starts, reconnections, instances that come
\* and go, kills and crashes, a service at rest that says CONNECTED has its tunnel
\* open and served, one network callback and the monitor of its shaper, as long as
\* no command and no callback met another under way (doStart, establish, onLost).
THEOREM ConnectedIsServed == Spec => []ConnectedWorks
  <1>1. Init => Silent /\ CalmIsSteady
    BY InitSilent, InitSteady DEF CalmIsSteady
  <1>2. Silent /\ CalmIsSteady /\ [Next]_vars => (Silent /\ CalmIsSteady)'
    BY NextSilent, NextSteady
  <1>3. Silent /\ CalmIsSteady => ConnectedWorks
    BY SteadyIsSafe
  <1> QED
    BY <1>1, <1>2, <1>3, PTL DEF Spec

\* Likewise a service that stopped, and whose onDestroy has run its course, left no
\* tunnel, thread, monitor, callback or collector of any instance (doStop).
THEOREM NothingLeft == Spec => []StoppedClean
  <1>1. Init => Silent /\ CalmIsSteady
    BY InitSilent, InitSteady DEF CalmIsSteady
  <1>2. Silent /\ CalmIsSteady /\ [Next]_vars => (Silent /\ CalmIsSteady)'
    BY NextSilent, NextSteady
  <1>3. Silent /\ CalmIsSteady => StoppedClean
    BY SteadyIsSafe
  <1> QED
    BY <1>1, <1>2, <1>3, PTL DEF Spec

=============================================================================
