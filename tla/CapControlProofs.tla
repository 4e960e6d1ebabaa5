--------------------------- MODULE CapControlProofs ---------------------------
(***************************************************************************)
(* Proofs about CapControl for every set of caps, speeds and percentages,  *)
(* and any number of acts and connections.                                 *)
(***************************************************************************)
EXTENDS CapControl, TLAPS

ManualValues == ManualCaps \cup {None}
Measured == Speeds \cup {Both(0)}

Settings ==
  [manual : [Dirs -> ManualValues], mode : BOOLEAN, measured : Measured, pct : Percents]

Screens ==
  [manual : [Dirs -> ManualValues], measured : Measured, pct : Percents,
   cap : [Dirs -> Nat]]

\* The coroutines there are.
Jobs ==
  [kind : {"manual"}, dir : Dirs, value : ManualValues]
    \cup [kind : {"pct"}, dir : {"dl"}, value : Percents]
    \cup [kind : {"test"}, dir : {"dl"}, value : Speeds]
    \cup [kind : {"reset"}, dir : {"dl"}, value : {Both(0)}]
    \cup [kind : {"resetDl"}, dir : {"dl"}, value : {None}]
    \cup [kind : {"resetUl"}, dir : {"ul"}, value : {None}]

Calls == [step : Steps, caps : [Dirs -> Nat]]

\* The types: SettingsSound, and those of the queues.
Typed ==
  /\ settings \in Settings /\ ui \in Screens
  /\ edits \in Seq(Jobs) /\ posts \in Seq(Jobs) /\ unseen \subseteq Flows
  /\ service \in {"down", "stopped", "up"}
  /\ published \in [Dirs -> Nat] /\ rate \in [Dirs -> CapValues]
  /\ calls \in [Threads -> Calls]

ModeIs(s) == s.mode <=> \E d \in Dirs : s.manual[d] # None

-----------------------------------------------------------------------------
(***************************************************************************)
(* The settings are sound, whatever is requested and in whatever order the *)
(* coroutines, the flows and the service go on.                            *)
(***************************************************************************)

\* What is measured, times a percentage, is a cap.
LEMMA MeasuredCaps ==
  ASSUME NEW m \in Measured, NEW p \in Percents
  PROVE  /\ m \in [Dirs -> Nat]
         /\ [d \in Dirs |-> m[d] * p] \in [Dirs -> Nat]
  <1>1. m \in [Dirs -> Nat] /\ p \in Nat
    BY CapControlConstants DEF Measured, Both
  <1>2. \A d \in Dirs : m[d] * p \in Nat
    BY <1>1
  <1> QED
    BY <1>1, <1>2

\* So is what a direction is limited to.
LEMMA EffectiveCaps ==
  ASSUME NEW manual \in [Dirs -> ManualValues], NEW m \in Measured, NEW p \in Percents
  PROVE  Effective(manual, m, p) \in [Dirs -> Nat]
  <1>1. \A d \in Dirs : m[d] * p \in Nat
    BY MeasuredCaps
  <1>2. \A d \in Dirs : manual[d] # None => manual[d] \in Nat
    BY CapControlConstants DEF ManualValues
  <1> QED
    BY <1>1, <1>2 DEF Effective

\* A manual setter keeps manual mode exact.
LEMMA WithManualSound ==
  ASSUME NEW s \in Settings, ModeIs(s), NEW d \in Dirs, NEW v \in ManualValues
  PROVE  /\ WithManual(s, d, v) \in Settings /\ ModeIs(WithManual(s, d, v))
         /\ WithManual(s, d, v).manual = [s.manual EXCEPT ![d] = v]
         /\ WithManual(s, d, v).measured = s.measured
         /\ WithManual(s, d, v).pct = s.pct
  <1> DEFINE m == [s.manual EXCEPT ![d] = v]
             b == IF v # None THEN TRUE ELSE IF Mode(m) THEN s.mode ELSE FALSE
             t == [s EXCEPT !.manual = m]
  <1>1. m \in [Dirs -> ManualValues] /\ m[d] = v /\ \A e \in Dirs \ {d} : m[e] = s.manual[e]
    BY DEF Settings
  <1>2. b \in BOOLEAN /\ (b <=> \E e \in Dirs : m[e] # None)
    <2>1. CASE v # None
      BY <1>1, <2>1
    <2>2. CASE v = None /\ Mode(m)
      <3>1. s.mode
        BY <1>1, <2>2 DEF Mode, ModeIs
      <3> QED
        BY <2>2, <3>1 DEF Mode
    <2>3. CASE v = None /\ ~Mode(m)
      BY <2>3 DEF Mode
    <2> QED
      BY <2>1, <2>2, <2>3
  <1>3. WithManual(s, d, v) = [t EXCEPT !.mode = b]
    BY DEF WithManual
  <1> HIDE DEF m, b
  <1>4. t \in Settings /\ t.manual = m /\ t.measured = s.measured /\ t.pct = s.pct
    BY <1>1 DEF Settings
  <1> HIDE DEF t
  <1>5. /\ [t EXCEPT !.mode = b] \in Settings /\ [t EXCEPT !.mode = b].manual = m
        /\ [t EXCEPT !.mode = b].measured = t.measured /\ [t EXCEPT !.mode = b].pct = t.pct
        /\ [t EXCEPT !.mode = b].mode = b
    BY <1>2, <1>4 DEF Settings
  <1>6. ModeIs(WithManual(s, d, v))
    BY <1>2, <1>3, <1>5 DEF ModeIs
  <1> QED
    BY <1>3, <1>4, <1>5, <1>6 DEF m

\* So does every edit.
LEMMA EditedSound ==
  ASSUME NEW s \in Settings, ModeIs(s), NEW job \in Jobs
  PROVE  Edited(s, job) \in Settings /\ ModeIs(Edited(s, job))
  <1>1. CASE job.kind \in {"manual", "resetDl", "resetUl"}
    <2>1. job.dir \in Dirs /\ job.value \in ManualValues
      BY <1>1 DEF Jobs, Dirs, ManualValues
    <2>2. Edited(s, job) = WithManual(s, job.dir, job.value)
      BY <1>1 DEF Edited
    <2> DEFINE t == WithManual(s, job.dir, job.value)
    <2>3. t \in Settings /\ ModeIs(t)
      BY <2>1, WithManualSound
    <2> HIDE DEF t
    <2>4. Edited(s, job) = t
      BY <2>2 DEF t
    <2> QED
      BY <2>3, <2>4
  <1>2. CASE job.kind = "pct"
    <2>1. job.value \in Percents
      BY <1>2 DEF Jobs
    <2> DEFINE t == [s EXCEPT !.pct = job.value]
    <2>2. Edited(s, job) = t
      BY <1>2 DEF Edited
    <2>3. t \in Settings /\ t.mode = s.mode /\ t.manual = s.manual
      BY <2>1 DEF Settings
    <2> HIDE DEF t
    <2> QED
      BY <2>2, <2>3 DEF ModeIs
  <1>3. CASE job.kind \in {"test", "reset"}
    <2>1. job.value \in Measured
      BY <1>3 DEF Jobs, Measured
    <2> DEFINE t == [s EXCEPT !.measured = job.value]
    <2>2. Edited(s, job) = t
      BY <1>3 DEF Edited
    <2>3. t \in Settings /\ t.mode = s.mode /\ t.manual = s.manual
      BY <2>1 DEF Settings
    <2> HIDE DEF t
    <2> QED
      BY <2>2, <2>3 DEF ModeIs
  <1> QED
    BY <1>1, <1>2, <1>3 DEF Jobs

\* The screen keeps its types when a coroutine goes on.
LEMMA ResumedSound ==
  ASSUME NEW u \in Screens, NEW job \in Jobs
  PROVE  Resumed(u, job) \in Screens
  <1>1. ASSUME NEW m \in Measured, NEW p \in Percents
        PROVE  Recalculated(u, m, p) \in Screens
    <2> DEFINE c == [d \in Dirs |-> m[d] * p]
    <2>1. c \in [Dirs -> Nat]
      BY MeasuredCaps
    <2>2. Recalculated(u, m, p) = [u EXCEPT !.cap = c, !.measured = m]
      BY DEF Recalculated
    <2> HIDE DEF c
    <2> DEFINE t == [u EXCEPT !.cap = c]
    <2>3. t \in Screens
      BY <2>1 DEF Screens
    <2>4. Recalculated(u, m, p) = [t EXCEPT !.measured = m]
      BY <2>2
    <2> HIDE DEF t
    <2> QED
      BY <2>3, <2>4 DEF Screens
  <1>2. CASE job.kind = "manual"
    <2>1. job.dir \in Dirs /\ job.value \in ManualValues
      BY <1>2 DEF Jobs
    <2> DEFINE c == [u.cap EXCEPT ![job.dir] = CapShown(u, job)]
               m == [u.manual EXCEPT ![job.dir] = job.value]
               t == [u EXCEPT !.cap = c]
    <2>2. CapShown(u, job) \in Nat
      <3>1. u.measured[job.dir] * u.pct \in Nat
        BY <2>1, MeasuredCaps DEF Screens
      <3>2. job.value # None => job.value \in Nat
        BY <2>1, CapControlConstants DEF ManualValues
      <3> QED
        BY <3>1, <3>2 DEF CapShown
    <2>3. c \in [Dirs -> Nat] /\ m \in [Dirs -> ManualValues]
      BY <2>1, <2>2 DEF Screens
    <2>4. Resumed(u, job) = ResumedManual(u, job)
      BY <1>2 DEF Resumed
    <2>5. ResumedManual(u, job) = [t EXCEPT !.manual = m]
      BY DEF ResumedManual, Screens
    <2> HIDE DEF c, m
    <2>6. t \in Screens
      BY <2>3 DEF Screens
    <2> HIDE DEF t
    <2> QED
      BY <2>3, <2>4, <2>5, <2>6 DEF Screens
  <1>3. CASE job.kind = "pct"
    <2>1. job.value \in Percents
      BY <1>3 DEF Jobs
    <2>2. Resumed(u, job) \in {u, Recalculated(u, u.measured, job.value)}
      BY <1>3 DEF Resumed
    <2> QED
      BY <1>1, <2>1, <2>2 DEF Screens
  <1>4. CASE job.kind = "test"
    <2>1. job.value \in Measured
      BY <1>4 DEF Jobs, Measured
    <2>2. Resumed(u, job) = Recalculated(u, job.value, u.pct)
      BY <1>4 DEF Resumed
    <2> QED
      BY <1>1, <2>1, <2>2 DEF Screens
  <1>5. CASE job.kind = "resetUl"
    <2> DEFINE t == [u EXCEPT !.measured = Both(0)]
               w == [t EXCEPT !.cap = Both(0)]
    <2>1. Resumed(u, job) = [w EXCEPT !.manual = Both(None)]
      BY <1>5 DEF Resumed
    <2>2. /\ Both(0) \in Measured /\ Both(0) \in [Dirs -> Nat]
          /\ Both(None) \in [Dirs -> ManualValues]
      BY DEF Both, Measured, ManualValues
    <2>3. t \in Screens
      BY <2>2 DEF Screens
    <2> HIDE DEF t
    <2>4. w \in Screens
      BY <2>2, <2>3 DEF Screens
    <2> HIDE DEF w
    <2> QED
      BY <2>1, <2>2, <2>4 DEF Screens
  <1>6. CASE job.kind \in {"reset", "resetDl"}
    BY <1>6 DEF Resumed
  <1> QED
    BY <1>2, <1>3, <1>4, <1>5, <1>6 DEF Jobs

\* The types, and manual mode, for the steps.
Sound == Typed /\ ModeIs(settings)

\* The start: nothing is set, shown or running.
LEMMA InitSound == Init => Sound
  <1> SUFFICES ASSUME Init PROVE Sound
    OBVIOUS
  <1>1. /\ Both(None) \in [Dirs -> ManualValues] /\ Both(0) \in Measured
        /\ Both(0) \in [Dirs -> Nat] /\ 90 \in Percents
        /\ \A d \in Dirs : Both(None)[d] = None
    BY CapControlConstants DEF Both, ManualValues, Measured
  <1>2. settings \in Settings /\ ui \in Screens
    BY <1>1 DEF Init, Settings, Screens
  <1>3. ModeIs(settings)
    BY <1>1 DEF Init, ModeIs
  <1>4. rate \in [Dirs -> CapValues]
    BY DEF Init, Both, CapValues
  <1>5. calls \in [Threads -> Calls]
    BY <1>1 DEF Init, NoCall, Calls, Steps
  <1> QED
    BY <1>1, <1>2, <1>3, <1>4, <1>5 DEF Init, Sound, Typed

\* What joins a queue of coroutines, and what leaves it.
LEMMA Queues ==
  /\ \A q \in Seq(Jobs), r \in Seq(Jobs) : q \o r \in Seq(Jobs)
  /\ \A q \in Seq(Jobs) : q # <<>> => Head(q) \in Jobs /\ Tail(q) \in Seq(Jobs)
  /\ \A q \in Seq(Jobs), j \in Jobs : Append(q, j) \in Seq(Jobs) /\ <<j>> \in Seq(Jobs)
  OBVIOUS

\* An act of the user launches coroutines.
LEMMA ActsSound ==
  ASSUME Sound, NEW jobs \in Seq(Jobs), Acts(jobs)
  PROVE  edits' \in Seq(Jobs) /\ UNCHANGED <<settings, ui, posts, unseen>>
  BY Queues DEF Sound, Typed, Acts

\* The acts and what they launch.
LEMMA UserSound ==
  ASSUME Sound, User
  PROVE  Sound'
  <1>0. Typed /\ ModeIs(settings)
    BY DEF Sound
  <1>1. None \in ManualValues /\ Both(0) \in Measured
    BY DEF ManualValues, Measured
  <1>2. ASSUME edits' \in Seq(Jobs), UNCHANGED <<settings, ui, posts, unseen>>,
               UNCHANGED <<service, published, rate>>, calls' \in [Threads -> Calls]
        PROVE  Sound'
    BY <1>0, <1>2 DEF Sound, Typed, ModeIs
  <1>3. ASSUME NEW p \in Percents, MoveSlider(p)
        PROVE  Sound'
    <2>1. <<Job("pct", "dl", p)>> \in Seq(Jobs)
      BY Queues DEF Job, Jobs
    <2> QED
      BY <1>0, <1>2, <1>3, <2>1, ActsSound DEF MoveSlider, engine, Typed
  <1>4. CASE SwitchManualOff
    <2>1. <<Job("manual", "dl", None), Job("manual", "ul", None)>> \in Seq(Jobs)
      <3>1. Job("manual", "dl", None) \in Jobs /\ Job("manual", "ul", None) \in Jobs
        BY <1>1 DEF Job, Jobs, Dirs
      <3> QED
        BY <3>1
    <2> QED
      BY <1>0, <1>2, <1>4, <2>1, ActsSound DEF SwitchManualOff, engine, Typed
  <1>5. ASSUME NEW s \in Speeds, EndSpeedTest(s)
        PROVE  Sound'
    <2>1. <<Job("test", "dl", s)>> \in Seq(Jobs)
      BY Queues DEF Job, Jobs
    <2> QED
      BY <1>0, <1>2, <1>5, <2>1, ActsSound DEF EndSpeedTest, engine, Typed
  <1>6. CASE ResetSpeeds
    <2>1. <<Reset0>> \in Seq(Jobs)
      BY <1>1, Queues DEF Reset0, Job, Jobs
    <2> QED
      BY <1>0, <1>2, <1>6, <2>1, ActsSound DEF ResetSpeeds, engine, Typed
  <1>7. ASSUME NEW caps \in [Dirs -> ManualCaps \cup {None}], Apply(caps)
        PROVE  Sound'
    <2>1. CapJobs(caps) \in Seq(Jobs)
      <3>1. \A d \in Dirs : Job("manual", d, caps[d]) \in Jobs
        BY DEF Job, Jobs, ManualValues
      <3>2. "dl" \in Dirs /\ "ul" \in Dirs /\ <<>> \in Seq(Jobs)
        BY DEF Dirs
      <3> QED
        BY <3>1, <3>2, Queues DEF CapJobs
    <2>2. Call(ui.cap) \in Calls
      BY <1>0 DEF Call, Calls, Publishes, Steps, Typed, Screens
    <2>3. calls' \in [Threads -> Calls]
      BY <1>0, <1>7, <2>2 DEF Apply, Typed
    <2> QED
      BY <1>0, <1>2, <1>7, <2>1, <2>3, ActsSound DEF Apply
  <1> QED
    BY <1>3, <1>4, <1>5, <1>6, <1>7 DEF User

\* The DataStore, the coroutines and the flows.
LEMMA WorkSound ==
  ASSUME Sound, MakeEdit \/ Resume \/ \E flow \in Flows : Observe(flow)
  PROVE  Sound'
  <1>0. Typed /\ ModeIs(settings)
    BY DEF Sound
  <1>1. CASE MakeEdit
    <2>1. Head(edits) \in Jobs /\ Tail(edits) \in Seq(Jobs)
      BY <1>0, <1>1, Queues DEF MakeEdit, Typed
    <2>2. settings' \in Settings /\ ModeIs(settings')
      BY <1>0, <1>1, <2>1, EditedSound DEF MakeEdit, Typed
    <2>3. edits' \in Seq(Jobs) /\ posts' \in Seq(Jobs)
      BY <1>0, <1>1, <2>1, Queues DEF MakeEdit, Typed
    <2>4. unseen' \subseteq Flows /\ UNCHANGED <<ui, service, published, rate, calls>>
      BY <1>0, <1>1 DEF MakeEdit, Typed, Flows, engine
    <2> QED
      BY <1>0, <2>2, <2>3, <2>4 DEF Sound, Typed
  <1>2. CASE Resume
    <2>1. Head(posts) \in Jobs /\ Tail(posts) \in Seq(Jobs)
      BY <1>0, <1>2, Queues DEF Resume, Typed
    <2>2. ui' \in Screens
      BY <1>0, <1>2, <2>1, ResumedSound DEF Resume, Typed
    <2>3. ResetGoesOn(Head(posts)) \in Seq(Jobs)
      <3>1. Job("resetDl", "dl", None) \in Jobs /\ Job("resetUl", "ul", None) \in Jobs
        BY DEF Job, Jobs
      <3>2. /\ <<Job("resetDl", "dl", None)>> \in Seq(Jobs)
            /\ <<Job("resetUl", "ul", None)>> \in Seq(Jobs) /\ <<>> \in Seq(Jobs)
        BY <3>1, Queues
      <3>3. ResetGoesOn(Head(posts)) \in {<<Job("resetDl", "dl", None)>>,
                                          <<Job("resetUl", "ul", None)>>, <<>>}
        BY DEF ResetGoesOn
      <3> QED
        BY <3>2, <3>3
    <2>4. edits' \in Seq(Jobs) /\ posts' \in Seq(Jobs)
      BY <1>0, <1>2, <2>1, <2>3, Queues DEF Resume, Typed
    <2>5. UNCHANGED <<settings, unseen, service, published, rate, calls>>
      BY <1>2 DEF Resume, engine
    <2> QED
      BY <1>0, <2>2, <2>4, <2>5 DEF Sound, Typed, ModeIs
  <1>3. ASSUME NEW flow \in Flows, Observe(flow)
        PROVE  Sound'
    <2>1. UNCHANGED <<settings, edits, posts, service, published, rate, calls>>
      BY <1>3 DEF Observe, engine
    <2>2. unseen' \subseteq Flows
      BY <1>0, <1>3 DEF Observe, Typed
    <2>3. ui' \in Screens
      <3>1. CASE flow = "manual"
        <4>1. Manual(settings) \in [Dirs -> ManualValues]
          BY <1>0 DEF Typed, Settings, Manual, Both, ManualValues
        <4> QED
          BY <1>0, <1>3, <3>1, <4>1 DEF Observe, Typed, Screens
      <3>2. CASE flow = "measured"
        BY <1>0, <1>3, <3>2 DEF Observe, Typed, Screens, Settings
      <3>3. CASE flow = "pct"
        BY <1>0, <1>3, <3>3 DEF Observe, Typed, Screens, Settings
      <3>4. CASE flow \in Dirs
        <4> DEFINE c == [ui.cap EXCEPT ![flow] = published[flow]]
        <4>1. c \in [Dirs -> Nat]
          BY <1>0, <3>4 DEF Typed, Screens
        <4>2. ui' = [ui EXCEPT !.cap = c]
          BY <1>0, <1>3, <3>4 DEF Observe, Dirs, Typed, Screens
        <4> HIDE DEF c
        <4> QED
          BY <1>0, <4>1, <4>2 DEF Typed, Screens
      <3> QED
        BY <3>1, <3>2, <3>3, <3>4 DEF Flows, SettingsFlows
    <2> QED
      BY <1>0, <2>1, <2>2, <2>3 DEF Sound, Typed, ModeIs
  <1> QED
    BY <1>1, <1>2, <1>3

\* The service's steps.
LEMMA ServiceSound ==
  ASSUME Sound,
         \/ ReadSaved \/ Connect \/ StopVpn \/ Destroy
         \/ \E t \in Threads, d \in Dirs : SetRate(t, d) \/ Publish(t, d)
  PROVE  Sound'
  <1>0. Typed /\ ModeIs(settings)
    BY DEF Sound
  <1>1. UNCHANGED <<settings, ui, edits, posts>>
    BY DEF ReadSaved, Connect, StopVpn, Destroy, Publish, SetRate, screen
  <1>2. /\ Threads = {"main", "io"} /\ Both(0) \in [Dirs -> Nat] /\ NoCall \in Calls
        /\ Publishes(Both(0)) \in Calls
    BY DEF Threads, Both, NoCall, Calls, Publishes, Steps
  <1>3. \A t \in Threads : calls[t].caps \in [Dirs -> Nat]
    BY <1>0 DEF Typed, Calls
  <1>4. unseen' \subseteq Flows
    BY <1>0 DEF ReadSaved, Connect, StopVpn, Destroy, Publish, SetRate, screen, Typed, Flows
  <1>5. service' \in {"down", "stopped", "up"}
    BY <1>0 DEF ReadSaved, Connect, StopVpn, Destroy, Publish, SetRate, Typed
  <1>6. published' \in [Dirs -> Nat]
    BY <1>0, <1>3 DEF ReadSaved, Connect, StopVpn, Destroy, Publish, SetRate, Typed
  <1>7. rate' \in [Dirs -> CapValues]
    <2>1. Both(Unlimited) \in [Dirs -> CapValues]
      BY DEF Both, CapValues
    <2>2. \A t \in Threads, d \in Dirs : calls[t].caps[d] \in CapValues
      BY <1>3 DEF CapValues
    <2> QED
      <3>1. ASSUME NEW t \in Threads, NEW d \in Dirs, SetRate(t, d)
            PROVE  rate' \in [Dirs -> CapValues]
        BY <1>0, <2>2, <3>1 DEF SetRate, RateOf, Typed
      <3>2. CASE ~\E t \in Threads, d \in Dirs : SetRate(t, d)
        BY <1>0, <2>1, <3>2 DEF ReadSaved, Connect, StopVpn, Destroy, Publish, Typed
      <3> QED
        BY <3>1, <3>2
  <1>8. calls' \in [Threads -> Calls]
    <2>1. CASE ReadSaved
      <3> DEFINE caps == Effective(Manual(settings), settings.measured, settings.pct)
      <3>1. caps \in [Dirs -> Nat]
        <4>1. Manual(settings) \in [Dirs -> ManualValues]
          BY <1>0 DEF Typed, Settings, Manual, Both, ManualValues
        <4> QED
          BY <1>0, <4>1, EffectiveCaps DEF Typed, Settings
      <3>2. calls' = [calls EXCEPT !["io"] = IF AppliesSaved(caps) THEN Call(caps) ELSE NoCall]
        BY <2>1 DEF ReadSaved
      <3> HIDE DEF caps
      <3>3. Call(caps) \in Calls
        BY <3>1 DEF Call, Calls, Publishes, Steps
      <3> QED
        BY <1>0, <1>2, <3>2, <3>3 DEF Typed
    <2>2. CASE Connect
      BY <1>0, <1>2, <2>2 DEF Connect, Typed, Calls, Steps
    <2>3. CASE StopVpn
      BY <1>0, <1>2, <2>3 DEF StopVpn, Typed
    <2>4. CASE Destroy
      <3> DEFINE c == IF calls["io"].step = "read" THEN NoCall ELSE calls["io"]
      <3>1. c \in Calls
        BY <1>0, <1>2 DEF Typed
      <3>2. calls' = [calls EXCEPT !["main"] = Publishes(Both(0)), !["io"] = c]
        BY <1>0, <1>2, <2>4 DEF Destroy, Typed
      <3> HIDE DEF c
      <3> QED
        BY <1>0, <1>2, <3>1, <3>2 DEF Typed
    <2>5. ASSUME NEW t \in Threads, NEW d \in Dirs, Publish(t, d)
          PROVE  calls' \in [Threads -> Calls]
      <3> DEFINE c == IF d = "dl" THEN [calls[t] EXCEPT !.step = "showUl"] ELSE NoCall
      <3>1. c \in Calls
        BY <1>0, <1>2 DEF Typed, Calls, Steps
      <3>2. calls' = [calls EXCEPT ![t] = c]
        BY <1>0, <2>5 DEF Publish, Typed
      <3> HIDE DEF c
      <3> QED
        BY <1>0, <3>1, <3>2 DEF Typed
    <2>6. ASSUME NEW t \in Threads, NEW d \in Dirs, SetRate(t, d)
          PROVE  calls' \in [Threads -> Calls]
      <3> DEFINE c == [calls[t] EXCEPT !.step = IF d = "dl" THEN "ul" ELSE "showDl"]
      <3>1. c \in Calls
        BY <1>0 DEF Typed, Calls, Steps
      <3>2. calls' = [calls EXCEPT ![t] = c]
        BY <1>0, <2>6 DEF SetRate, Typed
      <3> HIDE DEF c
      <3> QED
        BY <1>0, <3>1, <3>2 DEF Typed
    <2> QED
      BY <2>1, <2>2, <2>3, <2>4, <2>5, <2>6
  <1> QED
    BY <1>0, <1>1, <1>4, <1>5, <1>6, <1>7, <1>8 DEF Sound, Typed, ModeIs

\* Every step keeps the types.
LEMMA NextSound == Sound /\ [Next]_vars => Sound'
  <1> SUFFICES ASSUME Sound, [Next]_vars PROVE Sound'
    OBVIOUS
  <1>1. CASE UNCHANGED vars
    BY <1>1 DEF vars, screen, engine, Sound, Typed, ModeIs
  <1> QED
    BY <1>1, UserSound, WorkSound, ServiceSound DEF Next, Work

\* Whatever the order in which the user's requests, the edits and the service's
\* reads come, no manual cap is kept and hidden, and every cap is a cap.
THEOREM SettingsAreSound == Spec => []SettingsSound
  <1>1. Sound => SettingsSound
    <2> SUFFICES ASSUME Sound PROVE SettingsSound
      OBVIOUS
    <2>1. ManualModeExact
      BY DEF Sound, ModeIs, ManualModeExact
    <2>2. TypeOK
      BY DEF Sound, Typed, Settings, Screens, ManualValues, Measured, Calls, TypeOK
    <2> QED
      BY <2>1, <2>2 DEF SettingsSound
  <1> QED
    BY <1>1, InitSound, NextSound, PTL DEF Spec


-----------------------------------------------------------------------------
(***************************************************************************)
(* What a new connection enforces.  Another caller of updateCaps may be at *)
(* work at any moment, with caps of its own: while none has been since the *)
(* connection, where the connecting coroutine has come to tells what is    *)
(* enforced and what is published.                                         *)
(***************************************************************************)

\* The caps that the settings ask for.
Saved == Effective(Manual(settings), settings.measured, settings.pct)

\* The coroutine is past the first of the rates, and past both.
Halfway == calls["io"].step = "ul" => rate["dl"] = Saved["dl"]
Showable ==
  calls["io"].step \in {"showDl", "showUl"} =>
    /\ rate = Saved
    /\ calls["io"].step = "showUl" => published["dl"] = Saved["dl"]

\* It carries the caps that are saved; once it is done, they are in force.
Served ==
  fresh =>
    /\ service = "up" /\ Idle("main")
    /\ Idle("io") /\ AppliesSaved(Saved) => rate = Saved /\ published = Saved
    /\ calls["io"].step \notin {"none", "read"} => calls["io"].caps = Saved
    /\ Halfway /\ Showable

\* The start: nothing is connected.
LEMMA InitServed == Init => Served
  BY DEF Init, Served

\* The user, the DataStore, the coroutines and the flows: while nothing is applied
\* or edited, they do not touch what the service does.
LEMMA ScreenServed ==
  ASSUME Served, User \/ MakeEdit \/ Resume \/ \E flow \in Flows : Observe(flow)
  PROVE  Served'
  <1>1. ~fresh' \/ (fresh' = fresh /\ UNCHANGED <<settings, service, published, rate, calls>>)
    BY DEF User, MoveSlider, SwitchManualOff, EndSpeedTest, ResetSpeeds, Apply, Acts,
       MakeEdit, Resume, Observe, engine
  <1>2. settings' = settings => Saved' = Saved
    BY DEF Saved
  <1> QED
    BY <1>1, <1>2 DEF Served, Halfway, Showable, Idle

\* Caps that agree in both directions are the same caps.
LEMMA SameCaps ==
  ASSUME NEW f \in [Dirs -> Int], NEW g \in [Dirs -> Int], f["dl"] = g["dl"], f["ul"] = g["ul"]
  PROVE  f = g
  <1>1. f = [d \in Dirs |-> f[d]] /\ g = [d \in Dirs |-> g[d]]
    OBVIOUS
  <1>2. \A d \in Dirs : f[d] = g[d]
    BY DEF Dirs
  <1> QED
    BY <1>1, <1>2

\* The service's steps: since the connection the main thread has taken none.
LEMMA ServiceServed ==
  ASSUME Sound, Served,
         \/ ReadSaved \/ Connect \/ StopVpn \/ Destroy
         \/ \E t \in Threads, d \in Dirs : SetRate(t, d) \/ Publish(t, d)
  PROVE  Served'
  <1>0. Typed /\ Threads = {"main", "io"} /\ Dirs = {"dl", "ul"}
    BY DEF Sound, Threads, Dirs
  <1>1. calls["io"] \in Calls /\ calls["io"].caps \in [Dirs -> Nat]
    BY <1>0 DEF Typed, Calls
  <1>2. rate \in [Dirs -> Int] /\ published \in [Dirs -> Int] /\ calls["io"].caps \in [Dirs -> Int]
    BY <1>0, <1>1 DEF Typed, CapValues, Unlimited
  <1>3. UNCHANGED settings /\ Saved' = Saved
    BY DEF ReadSaved, Connect, StopVpn, Destroy, SetRate, Publish, screen, Saved
  <1>4. CASE ~fresh'
    BY <1>4 DEF Served
  <1>5. CASE Connect /\ fresh'
    <2>1. Idle("main") /\ service' = "up" /\ calls' = [calls EXCEPT !["io"].step = "read"]
      BY <1>5 DEF Connect
    <2>2. calls'["main"] = calls["main"] /\ calls'["io"].step = "read"
      BY <1>0, <1>1, <2>1 DEF Typed, Calls
    <2> QED
      BY <2>1, <2>2 DEF Served, Halfway, Showable, Idle
  <1>6. CASE fresh /\ ~Connect
    <2>1. /\ service = "up" /\ Idle("main")
          /\ calls["io"].step \notin {"none", "read"} => calls["io"].caps = Saved
          /\ Halfway /\ Showable
      BY <1>6 DEF Served
    <2>2. CASE ReadSaved
      <3>1. /\ UNCHANGED <<service, published, rate>> /\ calls["io"].step = "read"
            /\ calls' = [calls EXCEPT !["io"] = IF AppliesSaved(Saved) THEN Call(Saved) ELSE NoCall]
        BY <2>2 DEF ReadSaved, Saved
      <3>2. /\ calls'["main"] = calls["main"]
            /\ calls'["io"] = IF AppliesSaved(Saved) THEN Call(Saved) ELSE NoCall
        BY <1>0, <3>1 DEF Typed
      <3>3. /\ AppliesSaved(Saved) => calls'["io"].step = "dl" /\ calls'["io"].caps = Saved
            /\ ~AppliesSaved(Saved) => calls'["io"].step = "none"
        BY <2>1, <3>2 DEF Call, NoCall
      <3>4. AppliesSaved(Saved') <=> AppliesSaved(Saved)
        BY <1>3
      <3> QED
        BY <1>3, <2>1, <3>1, <3>2, <3>3, <3>4 DEF Served, Halfway, Showable, Idle
    <2>3. ASSUME NEW t \in Threads, NEW d \in Dirs, SetRate(t, d)
          PROVE  Served'
      <3>1. /\ t = "io" /\ calls["io"].step = d /\ UNCHANGED <<service, published>>
            /\ calls' = [calls EXCEPT !["io"].step = IF d = "dl" THEN "ul" ELSE "showDl"]
            /\ rate' = [rate EXCEPT ![d] = calls["io"].caps[d]]
        BY <1>0, <2>1, <2>3 DEF SetRate, RateOf, Idle
      <3>2. /\ calls'["main"] = calls["main"] /\ calls'["io"].caps = calls["io"].caps
            /\ calls'["io"].step = IF d = "dl" THEN "ul" ELSE "showDl"
        BY <1>0, <1>1, <3>1 DEF Typed, Calls
      <3>3. calls["io"].caps = Saved
        BY <1>0, <2>1, <3>1
      <3>4. CASE d = "dl"
        <4>1. rate'["dl"] = Saved["dl"]
          BY <1>0, <1>2, <3>1, <3>3, <3>4
        <4> QED
          BY <1>3, <2>1, <3>1, <3>2, <3>3, <3>4, <4>1 DEF Served, Halfway, Showable, Idle
      <3>5. CASE d = "ul"
        <4>1. rate' \in [Dirs -> Int] /\ rate'["ul"] = Saved["ul"] /\ rate'["dl"] = Saved["dl"]
          BY <1>0, <1>2, <2>1, <3>1, <3>3, <3>5 DEF Halfway
        <4>2. rate' = Saved
          BY <1>2, <3>3, <4>1, SameCaps
        <4>3. calls'["io"].step = "showDl" /\ calls'["io"].caps = Saved
          BY <3>2, <3>3, <3>5
        <4>4. Halfway' /\ Showable'
          BY <1>3, <4>2, <4>3 DEF Halfway, Showable
        <4> QED
          BY <1>3, <2>1, <3>1, <3>2, <4>3, <4>4 DEF Served, Idle
      <3> QED
        BY <1>0, <3>4, <3>5
    <2>4. ASSUME NEW t \in Threads, NEW d \in Dirs, Publish(t, d)
          PROVE  Served'
      <3>1. /\ t = "io" /\ calls["io"].step = Showing(d) /\ UNCHANGED <<service, rate>>
            /\ published' = [published EXCEPT ![d] = calls["io"].caps[d]]
            /\ calls' = [calls EXCEPT !["io"] =
                 IF d = "dl" THEN [calls["io"] EXCEPT !.step = "showUl"] ELSE NoCall]
        <4>1. t = "io"
          BY <1>0, <2>1, <2>4 DEF Publish, Idle, Showing
        <4>2. /\ calls[t].step = Showing(d) /\ UNCHANGED <<service, rate>>
              /\ published' = [published EXCEPT ![d] = calls[t].caps[d]]
          BY <2>4 DEF Publish
        <4>3. calls' = [calls EXCEPT ![t] =
                          IF d = "dl" THEN [calls[t] EXCEPT !.step = "showUl"] ELSE NoCall]
          BY <1>0, <2>4 DEF Publish, Typed
        <4> QED
          BY <4>1, <4>2, <4>3
      <3>2. /\ calls'["main"] = calls["main"]
            /\ d = "dl" => calls'["io"].step = "showUl" /\ calls'["io"].caps = calls["io"].caps
            /\ d = "ul" => calls'["io"].step = "none"
        BY <1>0, <1>1, <3>1 DEF Typed, Calls, NoCall
      <3>3. calls["io"].caps = Saved /\ rate = Saved
        BY <1>0, <2>1, <3>1 DEF Showing, Showable
      <3>4. CASE d = "dl"
        <4>1. published'["dl"] = Saved["dl"]
          BY <1>0, <1>2, <3>1, <3>3, <3>4
        <4> QED
          BY <1>3, <2>1, <3>1, <3>2, <3>3, <3>4, <4>1 DEF Served, Halfway, Showable, Idle
      <3>5. CASE d = "ul"
        <4>1. /\ published' \in [Dirs -> Int]
              /\ published'["ul"] = Saved["ul"] /\ published'["dl"] = Saved["dl"]
          BY <1>0, <1>2, <2>1, <3>1, <3>3, <3>5 DEF Showable, Showing
        <4>2. published' = Saved
          BY <1>2, <3>3, <4>1, SameCaps
        <4> QED
          BY <1>3, <2>1, <3>1, <3>2, <3>3, <3>5, <4>2 DEF Served, Halfway, Showable, Idle
      <3> QED
        BY <1>0, <3>4, <3>5
    <2>5. CASE StopVpn \/ Destroy
      BY <1>3, <2>1, <2>5 DEF StopVpn, Destroy, Served
    <2> QED
      BY <1>6, <2>2, <2>3, <2>4, <2>5
  <1>7. ~Connect => fresh' \in {fresh, FALSE}
    BY DEF ReadSaved, StopVpn, Destroy, SetRate, Publish
  <1> QED
    BY <1>4, <1>5, <1>6, <1>7

\* Once connected, and as long as nothing is edited, applied or stopped, the saved
\* caps are in force and published.
THEOREM ConnectionEnforcesSaved == Spec => []SavedCapsEnforced
  <1>1. Init => Sound /\ Served
    BY InitSound, InitServed
  <1>2. Sound /\ Served /\ [Next]_vars => (Sound /\ Served)'
    <2> SUFFICES ASSUME Sound, Served, [Next]_vars PROVE Served'
      BY NextSound
    <2>1. CASE UNCHANGED vars
      BY <2>1 DEF vars, screen, engine, Served, Halfway, Showable, Idle, Saved
    <2> QED
      BY <2>1, ScreenServed, ServiceServed DEF Next, Work
  <1>3. Sound /\ Served => SavedCapsEnforced
    BY DEF Served, SavedCapsEnforced, AppliesSaved, Saved
  <1> QED
    BY <1>1, <1>2, <1>3, PTL DEF Spec


-----------------------------------------------------------------------------
(***************************************************************************)
(* What is queued decides what the settings, and then the screen, will be: *)
(* the last coroutine that sets something has the value that stays.  A     *)
(* reset, which goes on in three parts, is alone behind what was asked     *)
(* before it.                                                              *)
(***************************************************************************)

\* A member of K is in the queue; the last one there is in V, a part of K.
Has(q, K) == \E i \in DOMAIN q : q[i] \in K
Ends(q, K, V) ==
  \E i \in DOMAIN q : q[i] \in V /\ \A j \in DOMAIN q : j > i => q[j] \notin K

OfKind(kinds) == {j \in Jobs : j.kind \in kinds}
Resets == OfKind({"reset", "resetDl", "resetUl"})
LaterResets == OfKind({"resetDl", "resetUl"})

\* Nothing is behind a reset, and nothing before its second and third parts.
ResetIsLast ==
  /\ \A i \in DOMAIN edits :
       /\ edits[i] \in Resets => i = Len(edits)
       /\ edits[i] \in LaterResets => i = 1 /\ posts = <<>>
  /\ \A i \in DOMAIN posts :
       /\ posts[i] \in Resets => i = Len(posts) /\ edits = <<>>
       /\ posts[i] \in LaterResets => i = 1
  /\ Has(edits, Resets) \/ Has(posts, Resets) => entered = Both(None)

\* The edits that set the manual cap of a direction; those that set it to v.
Setters(d) == {j \in OfKind({"manual", "resetDl", "resetUl"}) : j.dir = d}
SettersTo(d, v) == {j \in Setters(d) : j.value = v}

\* The parts of a reset that have still to make such an edit.
ToCome(d) == OfKind(IF d = "dl" THEN {"reset"} ELSE {"reset", "resetDl"})

\* The manual cap of a direction becomes what the user last asked for.
RequestCounts(d) ==
  \/ Has(edits, ToCome(d)) \/ Has(posts, ToCome(d))
  \/ Ends(edits, Setters(d), SettersTo(d, entered[d]))
  \/ ~Has(edits, Setters(d)) /\ settings.manual[d] = entered[d]

RequestsCount == \A d \in Dirs : RequestCounts(d)

\* What the coroutines write to the screen after their edits: those that write
\* a manual cap, or a measured speed; those that write it as v.
ManualWriters(d) == {j \in Jobs : (j.kind = "manual" /\ j.dir = d) \/ j.kind = "resetUl"}
ManualWritersOf(d, v) ==
  {j \in ManualWriters(d) : v = IF j.kind = "resetUl" THEN None ELSE j.value}
MeasuredWriters == OfKind({"test", "resetUl"})
MeasuredWritersOf(v) ==
  {j \in MeasuredWriters : v = IF j.kind = "resetUl" THEN Both(0) ELSE j.value}

\* A reset has made its first edit and has not gone on from its last.
Zeroing == Has(posts, Resets) \/ Has(edits, LaterResets)

\* The screen becomes what the settings are.
ManualFollows(d) ==
  \/ Ends(posts, ManualWriters(d), ManualWritersOf(d, settings.manual[d]))
  \/ /\ ~Has(posts, ManualWriters(d))
     /\ "manual" \in unseen \/ ui.manual[d] = settings.manual[d]

MeasuredFollows ==
  /\ Zeroing => settings.measured = Both(0)
  /\ \/ Zeroing
     \/ Ends(posts, MeasuredWriters, MeasuredWritersOf(settings.measured))
     \/ /\ ~Has(posts, MeasuredWriters)
        /\ "measured" \in unseen \/ ui.measured = settings.measured

ScreenFollows ==
  /\ "pct" \in unseen \/ ui.pct = settings.pct
  /\ \A d \in Dirs : ManualFollows(d)
  /\ MeasuredFollows

Queued == ResetIsLast /\ RequestsCount /\ ScreenFollows

\* What is in a queue that another coroutine joins, and what it ends with.
LEMMA QueueGrows ==
  ASSUME NEW q \in Seq(Jobs), NEW j \in Jobs, NEW K, NEW V
  PROVE  /\ Has(Append(q, j), K) <=> Has(q, K) \/ j \in K
         /\ j \in V => Ends(Append(q, j), K, V)
         /\ j \notin K /\ Ends(q, K, V) => Ends(Append(q, j), K, V)
  <1> DEFINE r == Append(q, j)
  <1>1. /\ DOMAIN r = 1 .. Len(q) + 1 /\ DOMAIN q = 1 .. Len(q) /\ Len(q) \in Nat
        /\ r[Len(q) + 1] = j /\ \A i \in DOMAIN q : r[i] = q[i]
    OBVIOUS
  <1> HIDE DEF r
  <1>2. Has(r, K) <=> Has(q, K) \/ j \in K
    BY <1>1 DEF Has
  <1>3. j \in V => Ends(r, K, V)
    BY <1>1 DEF Ends
  <1>4. j \notin K /\ Ends(q, K, V) => Ends(r, K, V)
    BY <1>1 DEF Ends
  <1> QED
    BY <1>2, <1>3, <1>4 DEF r

\* ... and in one that its first coroutine leaves.
LEMMA QueueShrinks ==
  ASSUME NEW q \in Seq(Jobs), q # <<>>, NEW K, NEW V
  PROVE  /\ Has(q, K) <=> Head(q) \in K \/ Has(Tail(q), K)
         /\ Ends(q, K, V) => \/ Ends(Tail(q), K, V)
                             \/ ~Has(Tail(q), K) /\ Head(q) \in V
  <1> DEFINE r == Tail(q)
             h == Head(q)
  <1>1. /\ DOMAIN q = 1 .. Len(q) /\ Len(q) \in Nat /\ Len(q) >= 1 /\ q[1] = h
        /\ DOMAIN r = 1 .. Len(q) - 1 /\ \A i \in DOMAIN r : r[i] = q[i + 1]
    OBVIOUS
  <1> HIDE DEF r, h
  <1>2. \A i \in DOMAIN q : i = 1 \/ (i - 1 \in DOMAIN r /\ q[i] = r[i - 1])
    BY <1>1
  <1>3. \A i \in DOMAIN r : i + 1 \in DOMAIN q /\ q[i + 1] = r[i]
    BY <1>1
  <1>4. Has(q, K) <=> h \in K \/ Has(r, K)
    BY <1>1, <1>2, <1>3 DEF Has
  <1>5. ASSUME NEW i \in DOMAIN q, q[i] \in V, \A j \in DOMAIN q : j > i => q[j] \notin K
        PROVE  Ends(r, K, V) \/ (~Has(r, K) /\ h \in V)
    <2>1. CASE i = 1
      <3>1. \A k \in DOMAIN r : k + 1 > 1
        BY <1>1
      <3> QED
        BY <1>1, <1>3, <1>5, <2>1, <3>1 DEF Has
    <2>2. CASE i # 1
      <3>1. i - 1 \in DOMAIN r /\ r[i - 1] \in V
        BY <1>2, <1>5, <2>2
      <3>2. \A k \in DOMAIN r : k > i - 1 => r[k] \notin K
        BY <1>1, <1>3, <1>5
      <3> QED
        BY <3>1, <3>2 DEF Ends
    <2> QED
      BY <2>1, <2>2
  <1> QED
    BY <1>4, <1>5 DEF Ends, r, h

\* Nothing is in an empty queue; and two ways to write a queue that grows.
LEMMA QueueEmpty ==
  /\ \A K, V : ~Has(<<>>, K) /\ ~Ends(<<>>, K, V)
  /\ \A q \in Seq(Jobs) : q \o <<>> = q
  /\ \A q \in Seq(Jobs), j \in Jobs : q \o <<j>> = Append(q, j)
  <1>1. \A K, V : ~Has(<<>>, K) /\ ~Ends(<<>>, K, V)
    BY DEF Has, Ends
  <1>2. \A q \in Seq(Jobs) : q \o <<>> = q
    OBVIOUS
  <1>3. \A q \in Seq(Jobs), j \in Jobs : q \o <<j>> = Append(q, j)
    OBVIOUS
  <1> QED
    BY <1>1, <1>2, <1>3

\* What a coroutine holds, by its kind.
LEMMA JobKinds ==
  ASSUME NEW j \in Jobs
  PROVE  /\ j.kind \in {"manual", "pct", "test", "reset", "resetDl", "resetUl"}
         /\ j.dir \in Dirs
         /\ j.kind = "manual" => j.value \in ManualValues
         /\ j.kind = "resetDl" => j.dir = "dl" /\ j.value = None
         /\ j.kind = "resetUl" => j.dir = "ul" /\ j.value = None
         /\ j.kind = "reset" => j.value = Both(0)
  BY DEF Jobs, Dirs

\* The sets of coroutines, by their kinds.
LEMMA JobSets ==
  ASSUME NEW j \in Jobs, NEW d \in Dirs
  PROVE  /\ j \in Resets <=> j.kind \in {"reset", "resetDl", "resetUl"}
         /\ j \in LaterResets <=> j.kind \in {"resetDl", "resetUl"}
         /\ j \in Setters(d) <=> j.kind \in {"manual", "resetDl", "resetUl"} /\ j.dir = d
         /\ \A v : j \in SettersTo(d, v) <=> j \in Setters(d) /\ j.value = v
         /\ j \in ToCome(d) <=> j.kind = "reset" \/ (d = "ul" /\ j.kind = "resetDl")
         /\ j \in ManualWriters(d) <=> (j.kind = "manual" /\ j.dir = d) \/ j.kind = "resetUl"
         /\ \A v : j \in ManualWritersOf(d, v) <=>
              \/ j.kind = "resetUl" /\ v = None
              \/ j.kind = "manual" /\ j.dir = d /\ j.value = v
         /\ j \in MeasuredWriters <=> j.kind \in {"test", "resetUl"}
         /\ \A v : j \in MeasuredWritersOf(v) <=>
              \/ j.kind = "resetUl" /\ v = Both(0)
              \/ j.kind = "test" /\ j.value = v
  BY DEF Dirs, Resets, LaterResets, OfKind, Setters, SettersTo, ToCome, ManualWriters,
     ManualWritersOf, MeasuredWriters, MeasuredWritersOf


\* With no reset in a queue there is no part of one.
LEMMA NoResetNoPart ==
  ASSUME NEW q \in Seq(Jobs), ~Has(q, Resets)
  PROVE  ~Has(q, LaterResets) /\ \A d \in Dirs : ~Has(q, ToCome(d))
  <1>1. "dl" \in Dirs /\ \A i \in DOMAIN q : q[i] \in Jobs
    BY DEF Dirs
  <1>2. \A j \in Jobs : j \notin Resets => j \notin LaterResets /\ \A d \in Dirs : j \notin ToCome(d)
    BY <1>1, JobSets
  <1> QED
    BY <1>1, <1>2 DEF Has

\* At the start nothing is queued, set or shown.
LEMMA InitQueued == Init => Queued
  <1> SUFFICES ASSUME Init PROVE Queued
    OBVIOUS
  <1>1. \A K, V : /\ ~Has(edits, K) /\ ~Has(posts, K)
                  /\ ~Ends(edits, K, V) /\ ~Ends(posts, K, V)
    BY QueueEmpty DEF Init
  <1>2. ResetIsLast
    BY <1>1 DEF ResetIsLast, Init
  <1>3. RequestsCount
    BY <1>1 DEF RequestsCount, RequestCounts, Init, Both
  <1>4. ScreenFollows
    BY <1>1 DEF ScreenFollows, ManualFollows, MeasuredFollows, Zeroing, Init, Both
  <1> QED
    BY <1>2, <1>3, <1>4 DEF Queued

\* An act that is no reset, and whose edits are what the user asks for.
LEMMA PlainActQueued ==
  ASSUME Sound, Queued, edits' \in Seq(Jobs), UNCHANGED <<settings, ui, posts, unseen>>,
         ~Has(edits, Resets), ~Has(posts, Resets), ~Has(edits', Resets),
         \A d \in Dirs :
           \/ Ends(edits', Setters(d), SettersTo(d, entered'[d]))
           \/ ~Has(edits', Setters(d)) /\ settings.manual[d] = entered'[d]
  PROVE  Queued'
  <1>0. posts \in Seq(Jobs) /\ edits \in Seq(Jobs)
    BY DEF Sound, Typed
  <1>1. ~Has(posts, LaterResets) /\ ~Has(edits, LaterResets) /\ ~Has(edits', LaterResets)
    BY <1>0, NoResetNoPart
  <1>2. ResetIsLast'
    BY <1>1 DEF ResetIsLast, Has
  <1>3. RequestsCount'
    <2> SUFFICES ASSUME NEW d \in Dirs PROVE RequestCounts(d)'
      BY DEF RequestsCount
    <2> QED
      BY DEF RequestCounts
  <1>4. \A d \in Dirs : ManualFollows(d)'
    BY DEF Queued, ScreenFollows, ManualFollows
  <1>5. MeasuredFollows'
    BY <1>1 DEF Queued, ScreenFollows, MeasuredFollows, Zeroing
  <1>6. ScreenFollows'
    BY <1>4, <1>5 DEF Queued, ScreenFollows
  <1> QED
    BY <1>2, <1>3, <1>6 DEF Queued

\* An unhurried act: no reset is under way, and the coroutines join the queue.
LEMMA UnhurriedAct ==
  ASSUME Sound, Queued, Hasty = FALSE, NEW jobs \in Seq(Jobs), Acts(jobs)
  PROVE  /\ ~Has(edits, Resets) /\ ~Has(posts, Resets)
         /\ edits' = edits \o jobs /\ edits' \in Seq(Jobs)
         /\ UNCHANGED <<settings, ui, posts, unseen>>
         /\ \A d \in Dirs : \/ Ends(edits, Setters(d), SettersTo(d, entered[d]))
                            \/ ~Has(edits, Setters(d)) /\ settings.manual[d] = entered[d]
  <1>0. edits \in Seq(Jobs) /\ posts \in Seq(Jobs)
    BY DEF Sound, Typed
  <1>1. ~Resetting
    BY DEF Acts
  <1>2. ASSUME NEW q \in {edits, posts}
        PROVE  ~Has(q, Resets)
    <2>1. \A i \in DOMAIN q : q[i] \in Jobs /\ q[i].kind \notin {"reset", "resetDl", "resetUl"}
      BY <1>0, <1>1 DEF Resetting
    <2> QED
      BY <2>1 DEF Has, Resets, OfKind
  <1>3. \A d \in Dirs : ~Has(edits, ToCome(d)) /\ ~Has(posts, ToCome(d))
    BY <1>0, <1>2, NoResetNoPart
  <1>4. \A d \in Dirs : RequestCounts(d)
    BY DEF Queued, RequestsCount
  <1> QED
    BY <1>0, <1>2, <1>3, <1>4, ActsSound DEF RequestCounts, Acts

\* The user's acts: what is asked for last is what is queued last.
LEMMA UserQueued ==
  ASSUME Sound, Queued, User, Hasty = FALSE
  PROVE  Queued'
  <1>0. /\ edits \in Seq(Jobs) /\ settings \in Settings
        /\ Dirs = {"dl", "ul"} /\ None \in ManualValues
    BY DEF Sound, Typed, Dirs, ManualValues
  <1>1. ASSUME NEW j \in Jobs, Acts(<<j>>), j.kind \in {"pct", "test"}, entered' = entered
        PROVE  Queued'
    <2>1. /\ ~Has(edits, Resets) /\ ~Has(posts, Resets)
          /\ edits' = Append(edits, j) /\ edits' \in Seq(Jobs)
          /\ UNCHANGED <<settings, ui, posts, unseen>>
          /\ \A d \in Dirs : \/ Ends(edits, Setters(d), SettersTo(d, entered[d]))
                             \/ ~Has(edits, Setters(d)) /\ settings.manual[d] = entered[d]
      <3>1. <<j>> \in Seq(Jobs) /\ edits \o <<j>> = Append(edits, j)
        BY <1>0
      <3> QED
        BY <1>1, <3>1, UnhurriedAct
    <2>2. j \notin Resets /\ \A d \in Dirs : j \notin Setters(d)
      BY <1>1, JobSets, <1>0
    <2>3. ~Has(edits', Resets)
      BY <1>0, <2>1, <2>2, QueueGrows
    <2>4. \A d \in Dirs : \/ Ends(edits', Setters(d), SettersTo(d, entered[d]))
                          \/ ~Has(edits', Setters(d)) /\ settings.manual[d] = entered[d]
      BY <1>0, <2>1, <2>2, QueueGrows
    <2> QED
      BY <1>1, <2>1, <2>3, <2>4, PlainActQueued
  <1>2. ASSUME NEW p \in Percents, MoveSlider(p)
        PROVE  Queued'
    <2>1. Job("pct", "dl", p) \in Jobs /\ Job("pct", "dl", p).kind = "pct"
      BY DEF Job, Jobs
    <2> QED
      BY <1>1, <1>2, <2>1 DEF MoveSlider
  <1>3. ASSUME NEW s \in Speeds, EndSpeedTest(s)
        PROVE  Queued'
    <2>1. Job("test", "dl", s) \in Jobs /\ Job("test", "dl", s).kind = "test"
      BY DEF Job, Jobs
    <2> QED
      BY <1>1, <1>3, <2>1 DEF EndSpeedTest
  <1>4. CASE ResetSpeeds
    <2>1. Reset0 \in Jobs /\ Reset0.kind = "reset" /\ <<Reset0>> \in Seq(Jobs)
      BY DEF Reset0, Job, Jobs
    <2>2. Reset0 \in Resets /\ Reset0 \notin LaterResets /\ \A d \in Dirs : Reset0 \in ToCome(d)
      BY <1>0, <2>1, JobSets
    <2>3. /\ ~Has(edits, Resets) /\ ~Has(posts, Resets)
          /\ edits' = Append(edits, Reset0) /\ edits' \in Seq(Jobs)
          /\ UNCHANGED <<settings, ui, posts, unseen>> /\ entered' = Both(None)
      BY <1>0, <1>4, <2>1, UnhurriedAct, QueueEmpty DEF ResetSpeeds
    <2>4. ~Has(posts, LaterResets) /\ ~Has(edits, LaterResets)
      BY <1>0, <2>3, NoResetNoPart DEF Sound, Typed
    <2>5. ~Has(edits', LaterResets) /\ \A d \in Dirs : Has(edits', ToCome(d))
      BY <1>0, <2>1, <2>2, <2>3, <2>4, QueueGrows
    <2>6. \A i \in DOMAIN edits' : i = Len(edits') \/ edits'[i] \notin Resets
      <3>1. \A i \in DOMAIN edits' : i = Len(edits') \/ (i \in DOMAIN edits /\ edits'[i] = edits[i])
        BY <1>0, <2>1, <2>3
      <3> QED
        BY <2>3, <3>1 DEF Has
    <2>7. ResetIsLast'
      BY <2>3, <2>4, <2>5, <2>6 DEF ResetIsLast, Has
    <2>8. RequestsCount'
      BY <2>5 DEF RequestsCount, RequestCounts
    <2>9. \A d \in Dirs : ManualFollows(d)'
      BY <2>3 DEF Queued, ScreenFollows, ManualFollows
    <2>10. MeasuredFollows'
      BY <2>3, <2>4, <2>5 DEF Queued, ScreenFollows, MeasuredFollows, Zeroing
    <2>11. ScreenFollows'
      BY <2>3, <2>9, <2>10 DEF Queued, ScreenFollows
    <2> QED
      BY <2>7, <2>8, <2>11 DEF Queued
  <1>5. ASSUME NEW d \in Dirs, NEW v \in ManualValues
        PROVE  /\ Job("manual", d, v) \in Jobs /\ Job("manual", d, v) \notin Resets
               /\ Job("manual", d, v) \in SettersTo(d, v)
               /\ \A e \in Dirs \ {d} : Job("manual", d, v) \notin Setters(e)
    <2>1. /\ Job("manual", d, v) \in Jobs /\ Job("manual", d, v).kind = "manual"
          /\ Job("manual", d, v).dir = d /\ Job("manual", d, v).value = v
      BY DEF Job, Jobs
    <2> HIDE DEF Job
    <2> QED
      BY <2>1, JobSets
  <1>6. CASE SwitchManualOff
    <2> DEFINE j == Job("manual", "dl", None)
               k == Job("manual", "ul", None)
    <2>1. /\ j \in Jobs /\ k \in Jobs /\ j \notin Resets /\ k \notin Resets
          /\ j \in SettersTo("dl", None) /\ k \in SettersTo("ul", None)
          /\ k \notin Setters("dl")
      BY <1>0, <1>5
    <2>2. Acts(<<j, k>>) /\ entered' = Both(None)
      BY <1>6 DEF SwitchManualOff
    <2> HIDE DEF j, k
    <2>3. <<j, k>> \in Seq(Jobs) /\ edits \o <<j, k>> = Append(Append(edits, j), k)
      BY <1>0, <2>1
    <2>4. /\ ~Has(edits, Resets) /\ ~Has(posts, Resets)
          /\ edits' = Append(Append(edits, j), k) /\ edits' \in Seq(Jobs)
          /\ UNCHANGED <<settings, ui, posts, unseen>>
      BY <2>2, <2>3, UnhurriedAct
    <2>5. Append(edits, j) \in Seq(Jobs)
      BY <1>0, <2>1
    <2>6. ~Has(Append(edits, j), Resets)
      BY <1>0, <2>1, <2>4, QueueGrows
    <2>7. ~Has(edits', Resets)
      BY <2>1, <2>4, <2>5, <2>6, QueueGrows
    <2>8. Ends(edits', Setters("ul"), SettersTo("ul", None))
      BY <2>1, <2>4, <2>5, QueueGrows
    <2>9. Ends(Append(edits, j), Setters("dl"), SettersTo("dl", None))
      BY <1>0, <2>1, QueueGrows
    <2>10. Ends(edits', Setters("dl"), SettersTo("dl", None))
      BY <2>1, <2>4, <2>5, <2>9, QueueGrows
    <2>11. \A d \in Dirs : entered'[d] = None
      BY <2>2 DEF Both
    <2>12. \A d \in Dirs : Ends(edits', Setters(d), SettersTo(d, entered'[d]))
      BY <1>0, <2>8, <2>10, <2>11
    <2> QED
      BY <2>4, <2>7, <2>12, PlainActQueued
  <1>7. ASSUME NEW caps \in [Dirs -> ManualCaps \cup {None}], Apply(caps)
        PROVE  Queued'
    <2> DEFINE after(q, d) == IF caps[d] = None THEN q ELSE Append(q, Job("manual", d, caps[d]))
               then(d) == IF caps[d] # None THEN caps[d] ELSE entered[d]
    <2>1. \A d \in Dirs : caps[d] \in ManualValues
      BY DEF ManualValues
    <2>2. CapJobs(caps) \in Seq(Jobs) /\ edits \o CapJobs(caps) = after(after(edits, "dl"), "ul")
      <3>1. Job("manual", "dl", caps["dl"]) \in Jobs /\ Job("manual", "ul", caps["ul"]) \in Jobs
        BY <1>0, <1>5, <2>1
      <3> QED
        BY <1>0, <3>1 DEF CapJobs
    <2>3. Acts(CapJobs(caps)) /\ \A d \in Dirs : entered'[d] = then(d)
      BY <1>7 DEF Apply
    <2>4. /\ ~Has(edits, Resets) /\ ~Has(posts, Resets)
          /\ edits' = after(after(edits, "dl"), "ul") /\ edits' \in Seq(Jobs)
          /\ UNCHANGED <<settings, ui, posts, unseen>>
          /\ \A d \in Dirs : \/ Ends(edits, Setters(d), SettersTo(d, entered[d]))
                             \/ ~Has(edits, Setters(d)) /\ settings.manual[d] = entered[d]
      BY <2>2, <2>3, UnhurriedAct
    <2>5. ASSUME NEW q \in Seq(Jobs), ~Has(q, Resets), NEW d \in Dirs
          PROVE  /\ after(q, d) \in Seq(Jobs) /\ ~Has(after(q, d), Resets)
                 /\ caps[d] # None => Ends(after(q, d), Setters(d), SettersTo(d, caps[d]))
                 /\ caps[d] = None => after(q, d) = q
                 /\ \A e \in Dirs \ {d} : \A V :
                      /\ Ends(q, Setters(e), V) => Ends(after(q, d), Setters(e), V)
                      /\ ~Has(q, Setters(e)) => ~Has(after(q, d), Setters(e))
      <3>1. CASE caps[d] = None
        BY <2>5, <3>1
      <3>2. CASE caps[d] # None
        <4> DEFINE j == Job("manual", d, caps[d])
        <4>1. /\ j \in Jobs /\ j \notin Resets /\ j \in SettersTo(d, caps[d])
              /\ \A e \in Dirs \ {d} : j \notin Setters(e)
          BY <1>5, <2>1
        <4>2. after(q, d) = Append(q, j)
          BY <3>2
        <4> HIDE DEF j, after
        <4>3. Append(q, j) \in Seq(Jobs) /\ ~Has(Append(q, j), Resets)
          BY <2>5, <4>1, QueueGrows
        <4>4. Ends(Append(q, j), Setters(d), SettersTo(d, caps[d]))
          BY <4>1, QueueGrows
        <4>5. ASSUME NEW e \in Dirs \ {d}, NEW V
              PROVE  /\ Ends(q, Setters(e), V) => Ends(Append(q, j), Setters(e), V)
                     /\ ~Has(q, Setters(e)) => ~Has(Append(q, j), Setters(e))
          BY <4>1, QueueGrows
        <4> QED
          BY <3>2, <4>2, <4>3, <4>4, <4>5
      <3> QED
        BY <3>1, <3>2
    <2> HIDE DEF after
    <2> DEFINE q == after(edits, "dl")
    <2>6. /\ q \in Seq(Jobs) /\ ~Has(q, Resets)
          /\ "dl" \in Dirs /\ "ul" \in Dirs \ {"dl"} /\ "dl" \in Dirs \ {"ul"}
      BY <1>0, <2>4, <2>5
    <2>7. ~Has(edits', Resets)
      BY <2>4, <2>5, <2>6
    <2>8. \/ Ends(q, Setters("dl"), SettersTo("dl", entered'["dl"]))
          \/ ~Has(q, Setters("dl")) /\ settings.manual["dl"] = entered'["dl"]
      BY <1>0, <2>3, <2>4, <2>5, <2>6
    <2>9. \/ Ends(q, Setters("ul"), SettersTo("ul", entered["ul"]))
          \/ ~Has(q, Setters("ul")) /\ settings.manual["ul"] = entered["ul"]
      BY <1>0, <2>4, <2>5, <2>6
    <2> HIDE DEF q
    <2>10. edits' = after(q, "ul")
      BY <2>4 DEF q
    <2>11. \/ Ends(edits', Setters("dl"), SettersTo("dl", entered'["dl"]))
           \/ ~Has(edits', Setters("dl")) /\ settings.manual["dl"] = entered'["dl"]
      BY <2>5, <2>6, <2>8, <2>10
    <2>12. \/ Ends(edits', Setters("ul"), SettersTo("ul", entered'["ul"]))
           \/ ~Has(edits', Setters("ul")) /\ settings.manual["ul"] = entered'["ul"]
      BY <2>3, <2>5, <2>6, <2>9, <2>10
    <2> QED
      BY <1>0, <2>4, <2>7, <2>11, <2>12, PlainActQueued
  <1> QED
    BY <1>2, <1>3, <1>4, <1>6, <1>7 DEF User


\* What an edit makes of the settings.
LEMMA EditedIs ==
  ASSUME NEW s \in Settings, ModeIs(s), NEW j \in Jobs
  PROVE  /\ \A d \in Dirs : Edited(s, j).manual[d] = IF j \in Setters(d) THEN j.value
                                                     ELSE s.manual[d]
         /\ j.kind \in {"manual", "pct", "resetDl", "resetUl"} =>
              Edited(s, j).measured = s.measured
         /\ j.kind \in {"test", "reset"} => Edited(s, j).measured = j.value
  <1>0. /\ j.dir \in Dirs /\ "dl" \in Dirs
        /\ j.kind \in {"manual", "pct", "test", "reset", "resetDl", "resetUl"}
        /\ \A d \in Dirs : j \in Setters(d) <=> j.kind \in {"manual", "resetDl", "resetUl"} /\ j.dir = d
    BY JobKinds, JobSets DEF Dirs
  <1>1. CASE j.kind \in {"manual", "resetDl", "resetUl"}
    <2>1. j.value \in ManualValues
      BY <1>1, JobKinds DEF ManualValues
    <2>2. Edited(s, j) = WithManual(s, j.dir, j.value)
      BY <1>1 DEF Edited
    <2>3. /\ Edited(s, j).manual = [s.manual EXCEPT ![j.dir] = j.value]
          /\ Edited(s, j).measured = s.measured
      BY <1>0, <2>1, <2>2, WithManualSound
    <2>4. s.manual \in [Dirs -> ManualValues]
      BY DEF Settings
    <2> QED
      BY <1>0, <1>1, <2>3, <2>4
  <1>2. CASE j.kind = "pct"
    <2>1. Edited(s, j) = [s EXCEPT !.pct = j.value]
      BY <1>2 DEF Edited
    <2> QED
      BY <1>0, <1>2, <2>1 DEF Settings
  <1>3. CASE j.kind \in {"test", "reset"}
    <2>1. Edited(s, j) = [s EXCEPT !.measured = j.value]
      BY <1>3 DEF Edited
    <2> QED
      BY <1>0, <1>3, <2>1 DEF Settings
  <1> QED
    BY <1>0, <1>1, <1>2, <1>3

\* An edit is made: its coroutine takes its place among those that wait for the
\* main thread, and the flows have the settings to deliver.
LEMMA MakeEditQueued ==
  ASSUME Sound, Queued, MakeEdit
  PROVE  Queued'
  <1> DEFINE h == Head(edits)
  <1>0. /\ edits \in Seq(Jobs) /\ posts \in Seq(Jobs) /\ edits # <<>>
        /\ settings \in Settings /\ ModeIs(settings)
        /\ ResetIsLast /\ RequestsCount /\ ScreenFollows /\ Dirs = {"dl", "ul"}
    BY DEF Sound, Typed, Queued, MakeEdit, Dirs
  <1>1. /\ h \in Jobs /\ edits' = Tail(edits) /\ posts' = Append(posts, h)
        /\ settings' = Edited(settings, h) /\ unseen' = unseen \cup SettingsFlows
        /\ ui' = ui /\ entered' = entered
    BY <1>0, Queues DEF MakeEdit
  <1>2. /\ 1 \in DOMAIN edits /\ edits[1] = h /\ Len(edits) \in Nat
        /\ DOMAIN edits' = 1 .. Len(edits) - 1 /\ DOMAIN edits = 1 .. Len(edits)
        /\ \A i \in DOMAIN edits' : i + 1 \in DOMAIN edits /\ edits'[i] = edits[i + 1]
        /\ Len(edits') = Len(edits) - 1 /\ (Len(edits) = 1 => edits' = <<>>)
    BY <1>0, <1>1
  <1>3. /\ DOMAIN posts' = 1 .. Len(posts) + 1 /\ DOMAIN posts = 1 .. Len(posts)
        /\ Len(posts) \in Nat /\ Len(posts') = Len(posts) + 1
        /\ posts'[Len(posts) + 1] = h /\ (posts = <<>> => Len(posts) = 0)
        /\ \A i \in DOMAIN posts : posts'[i] = posts[i]
    BY <1>0, <1>1
  <1> HIDE DEF h
  <1>4. ~Has(posts, Resets)
    BY <1>0 DEF ResetIsLast, Has
  <1>5. h \in Resets => edits' = <<>>
    BY <1>0, <1>2 DEF ResetIsLast
  <1>6. h \in LaterResets => posts = <<>>
    BY <1>0, <1>2 DEF ResetIsLast
  <1>7. /\ \A K : Has(edits, K) <=> h \in K \/ Has(edits', K)
        /\ \A K, V : Ends(edits, K, V) => Ends(edits', K, V) \/ (~Has(edits', K) /\ h \in V)
    BY <1>0, <1>1, QueueShrinks DEF h
  <1>8. /\ \A K : Has(posts', K) <=> Has(posts, K) \/ h \in K
        /\ \A K, V : h \in V => Ends(posts', K, V)
        /\ \A K, V : h \notin K /\ Ends(posts, K, V) => Ends(posts', K, V)
    BY <1>0, <1>1, QueueGrows
  <1>9. ~Has(edits', LaterResets)
    <2> SUFFICES ASSUME NEW i \in DOMAIN edits', edits'[i] \in LaterResets PROVE FALSE
      BY DEF Has
    <2>1. i + 1 = 1
      BY <1>0, <1>2 DEF ResetIsLast
    <2> QED
      BY <1>2, <2>1
  <1>10. ResetIsLast'
    <2>1. \A i \in DOMAIN edits' : edits'[i] \in Resets => i = Len(edits')
      <3> SUFFICES ASSUME NEW i \in DOMAIN edits', edits'[i] \in Resets PROVE i = Len(edits')
        OBVIOUS
      <3>1. i + 1 = Len(edits)
        BY <1>0, <1>2 DEF ResetIsLast
      <3> QED
        BY <1>2, <3>1
    <2>2. \A i \in DOMAIN posts' : posts'[i] \in Resets => i = Len(posts') /\ h \in Resets
      BY <1>3, <1>4 DEF Has
    <2>3. \A i \in DOMAIN posts' : posts'[i] \in LaterResets => i = 1
      <3> SUFFICES ASSUME NEW i \in DOMAIN posts', posts'[i] \in LaterResets PROVE i = 1
        OBVIOUS
      <3>1. ~Has(posts, LaterResets)
        BY <1>0, <1>4, NoResetNoPart
      <3>2. i = Len(posts) + 1 /\ h \in LaterResets
        BY <1>3, <3>1 DEF Has
      <3> QED
        BY <1>3, <1>6, <3>2
    <2>4. Has(edits', Resets) \/ Has(posts', Resets) => entered' = Both(None)
      BY <1>0, <1>1, <1>4, <1>7, <1>8 DEF ResetIsLast
    <2> QED
      BY <1>5, <1>9, <2>1, <2>2, <2>3, <2>4 DEF ResetIsLast, Has
  <1>11. \A d \in Dirs : /\ settings'.manual[d] = IF h \in Setters(d) THEN h.value
                                                 ELSE settings.manual[d]
                         /\ h \in Setters(d) => h.value = settings'.manual[d]
    BY <1>0, <1>1, EditedIs
  <1>12. RequestsCount'
    <2> SUFFICES ASSUME NEW d \in Dirs PROVE RequestCounts(d)'
      BY DEF RequestsCount
    <2>1. RequestCounts(d)
      BY <1>0 DEF RequestsCount
    <2>2. CASE Has(edits, ToCome(d)) \/ Has(posts, ToCome(d))
      BY <1>7, <1>8, <2>2 DEF RequestCounts
    <2>3. CASE Ends(edits, Setters(d), SettersTo(d, entered[d]))
      <3>1. \/ Ends(edits', Setters(d), SettersTo(d, entered[d]))
            \/ ~Has(edits', Setters(d)) /\ h \in SettersTo(d, entered[d])
        BY <1>7, <2>3
      <3>2. h \in SettersTo(d, entered[d]) => settings'.manual[d] = entered[d]
        BY <1>1, <1>11 DEF SettersTo
      <3> QED
        BY <1>1, <3>1, <3>2 DEF RequestCounts
    <2>4. CASE ~Has(edits, Setters(d)) /\ settings.manual[d] = entered[d]
      BY <1>1, <1>7, <1>11, <2>4 DEF RequestCounts
    <2> QED
      BY <2>1, <2>2, <2>3, <2>4 DEF RequestCounts
  <1>13. ASSUME NEW d \in Dirs
         PROVE  ManualFollows(d)'
    <2>0. /\ h \in ManualWriters(d) <=> (h.kind = "manual" /\ h.dir = d) \/ h.kind = "resetUl"
          /\ \A v : h \in ManualWritersOf(d, v) <=>
               \/ h.kind = "resetUl" /\ v = None
               \/ h.kind = "manual" /\ h.dir = d /\ h.value = v
          /\ h \in Setters(d) <=> h.kind \in {"manual", "resetDl", "resetUl"} /\ h.dir = d
          /\ h \in LaterResets <=> h.kind \in {"resetDl", "resetUl"}
          /\ h \in Resets <=> h.kind \in {"reset", "resetDl", "resetUl"}
          /\ h \in ToCome(d) <=> h.kind = "reset" \/ (d = "ul" /\ h.kind = "resetDl")
      BY <1>1, JobSets
    <2>1. "manual" \in unseen'
      BY <1>1 DEF SettingsFlows
    <2>2. CASE h.kind = "manual" /\ h.dir = d
      <3>1. h \in ManualWritersOf(d, settings'.manual[d])
        BY <1>11, <2>0, <2>2
      <3> QED
        BY <1>8, <3>1 DEF ManualFollows
    <2>3. CASE h.kind = "resetUl"
      <3>1. settings'.manual[d] = None
        <4>1. h.value = None /\ h.dir = "ul"
          BY <1>1, <2>3, JobKinds
        <4>2. CASE d = "ul"
          BY <1>11, <2>0, <2>3, <4>1, <4>2
        <4>3. CASE d = "dl"
          <5>1. h \in Resets /\ h \in LaterResets /\ h \notin Setters(d) /\ h \notin ToCome(d)
            BY <2>0, <2>3, <4>1, <4>3
          <5>2. ~Has(edits', ToCome(d)) /\ ~Has(edits', Setters(d)) /\ ~Has(posts, ToCome(d))
            BY <1>5, <1>6, <5>1, QueueEmpty
          <5>3. ~Has(edits, ToCome(d)) /\ ~Has(edits, Setters(d))
            BY <1>7, <5>1, <5>2
          <5>4. ~Ends(edits, Setters(d), SettersTo(d, entered[d]))
            BY <5>3 DEF Ends, Has, SettersTo
          <5>5. settings.manual[d] = entered[d]
            BY <1>0, <5>2, <5>3, <5>4 DEF RequestsCount, RequestCounts
          <5>6. entered = Both(None)
            BY <1>0, <1>7, <5>1 DEF ResetIsLast
          <5> QED
            BY <1>11, <5>1, <5>5, <5>6 DEF Both
        <4> QED
          BY <1>0, <4>2, <4>3
      <3>2. h \in ManualWritersOf(d, settings'.manual[d])
        BY <2>0, <2>3, <3>1
      <3> QED
        BY <1>8, <3>2 DEF ManualFollows
    <2>4. CASE h \notin ManualWriters(d)
      <3>1. CASE ~Has(posts, ManualWriters(d))
        BY <1>8, <2>1, <2>4, <3>1 DEF ManualFollows
      <3>2. CASE Has(posts, ManualWriters(d))
        <4>1. h \notin LaterResets
          BY <1>6, <3>2, QueueEmpty
        <4>2. settings'.manual[d] = settings.manual[d]
          BY <1>11, <2>0, <2>4, <4>1
        <4>3. Ends(posts, ManualWriters(d), ManualWritersOf(d, settings.manual[d]))
          BY <1>0, <3>2 DEF ScreenFollows, ManualFollows
        <4>4. Ends(posts', ManualWriters(d), ManualWritersOf(d, settings'.manual[d]))
          BY <1>8, <2>4, <4>2, <4>3
        <4> QED
          BY <4>4 DEF ManualFollows
      <3> QED
        BY <3>1, <3>2
    <2> QED
      BY <2>0, <2>2, <2>3, <2>4
  <1>14. MeasuredFollows'
    <2>0. /\ h.kind \in {"manual", "pct", "test", "reset", "resetDl", "resetUl"}
          /\ h.kind = "reset" => h.value = Both(0)
          /\ h \in MeasuredWriters <=> h.kind \in {"test", "resetUl"}
          /\ \A v : h \in MeasuredWritersOf(v) <=>
               \/ h.kind = "resetUl" /\ v = Both(0)
               \/ h.kind = "test" /\ h.value = v
          /\ h \in LaterResets <=> h.kind \in {"resetDl", "resetUl"}
          /\ h \in Resets <=> h.kind \in {"reset", "resetDl", "resetUl"}
      BY <1>0, <1>1, JobSets, JobKinds
    <2>1. /\ h.kind \in {"manual", "pct", "resetDl", "resetUl"} => settings'.measured = settings.measured
          /\ h.kind \in {"test", "reset"} => settings'.measured = h.value
      BY <1>0, <1>1, EditedIs
    <2>2. Zeroing' <=> h \in Resets
      BY <1>4, <1>8, <1>9 DEF Zeroing
    <2>3. Zeroing <=> h \in LaterResets
      BY <1>4, <1>7, <1>9 DEF Zeroing
    <2>4. MeasuredFollows /\ "measured" \in unseen'
      BY <1>0, <1>1 DEF ScreenFollows, SettingsFlows
    <2>5. CASE h \in Resets
      BY <2>0, <2>1, <2>2, <2>3, <2>4, <2>5 DEF MeasuredFollows
    <2>6. CASE h.kind = "test"
      <3>1. h \in MeasuredWritersOf(settings'.measured)
        BY <2>0, <2>1, <2>6
      <3>2. Ends(posts', MeasuredWriters, MeasuredWritersOf(settings'.measured))
        BY <1>8, <3>1
      <3> QED
        BY <2>0, <2>2, <2>6, <3>2 DEF MeasuredFollows
    <2>7. CASE h.kind \in {"manual", "pct"}
      <3>1. ~Zeroing /\ ~Zeroing' /\ h \notin MeasuredWriters /\ settings'.measured = settings.measured
        BY <2>0, <2>1, <2>2, <2>3, <2>7
      <3>2. CASE Ends(posts, MeasuredWriters, MeasuredWritersOf(settings.measured))
        <4>1. Ends(posts', MeasuredWriters, MeasuredWritersOf(settings'.measured))
          BY <1>8, <3>1, <3>2
        <4> QED
          BY <3>1, <4>1 DEF MeasuredFollows
      <3>3. CASE ~Has(posts, MeasuredWriters)
        <4>1. ~Has(posts', MeasuredWriters)
          BY <1>8, <3>1, <3>3
        <4> QED
          BY <2>4, <3>1, <4>1 DEF MeasuredFollows
      <3> QED
        BY <2>4, <3>1, <3>2, <3>3 DEF MeasuredFollows
    <2> QED
      BY <2>0, <2>5, <2>6, <2>7
  <1>15. ScreenFollows'
    BY <1>1, <1>13, <1>14 DEF ScreenFollows, SettingsFlows
  <1> QED
    BY <1>10, <1>12, <1>15 DEF Queued


\* What a coroutine writes to the screen when it goes on.
LEMMA ResumedIs ==
  ASSUME NEW u \in Screens, NEW j \in Jobs
  PROVE  /\ Resumed(u, j).pct = u.pct
         /\ \A d \in Dirs :
              Resumed(u, j).manual[d] = IF j.kind = "resetUl" THEN None
                                        ELSE IF j.kind = "manual" /\ j.dir = d THEN j.value
                                        ELSE u.manual[d]
         /\ Resumed(u, j).measured = IF j.kind = "resetUl" THEN Both(0)
                                     ELSE IF j.kind = "test" THEN j.value
                                     ELSE u.measured
  <1>0. /\ j.kind \in {"manual", "pct", "test", "reset", "resetDl", "resetUl"}
        /\ j.dir \in Dirs /\ u.manual \in [Dirs -> ManualValues]
    BY JobKinds DEF Screens
  <1>1. ASSUME NEW m, NEW p
        PROVE  /\ Recalculated(u, m, p).pct = u.pct
               /\ Recalculated(u, m, p).manual = u.manual
               /\ Recalculated(u, m, p).measured = m
    BY DEF Recalculated, Screens
  <1>2. CASE j.kind = "manual"
    <2>1. Resumed(u, j) = ResumedManual(u, j)
      BY <1>2 DEF Resumed
    <2>2. /\ ResumedManual(u, j).pct = u.pct /\ ResumedManual(u, j).measured = u.measured
          /\ ResumedManual(u, j).manual = [u.manual EXCEPT ![j.dir] = j.value]
      BY DEF ResumedManual, Screens
    <2> QED
      BY <1>0, <1>2, <2>1, <2>2
  <1>3. CASE j.kind = "pct"
    <2>1. Resumed(u, j) \in {u, Recalculated(u, u.measured, j.value)}
      BY <1>3 DEF Resumed
    <2> QED
      BY <1>1, <1>3, <2>1
  <1>4. CASE j.kind = "test"
    <2>1. Resumed(u, j) = Recalculated(u, j.value, u.pct)
      BY <1>4 DEF Resumed
    <2> QED
      BY <1>1, <1>4, <2>1
  <1>5. CASE j.kind = "resetUl"
    <2>1. /\ Resumed(u, j).pct = u.pct /\ Resumed(u, j).manual = Both(None)
          /\ Resumed(u, j).measured = Both(0)
      BY <1>5 DEF Resumed, Screens
    <2> QED
      BY <1>5, <2>1 DEF Both
  <1>6. CASE j.kind \in {"reset", "resetDl"}
    BY <1>6 DEF Resumed
  <1> QED
    BY <1>0, <1>2, <1>3, <1>4, <1>5, <1>6

\* A coroutine goes on, to the next part of a reset if it is one.
LEMMA ResumeQueued ==
  ASSUME Sound, Queued, Resume
  PROVE  Queued'
  <1> DEFINE h == Head(posts)
  <1>0. /\ edits \in Seq(Jobs) /\ posts \in Seq(Jobs) /\ posts # <<>>
        /\ settings \in Settings /\ ui \in Screens
        /\ ResetIsLast /\ RequestsCount /\ ScreenFollows /\ Dirs = {"dl", "ul"}
    BY DEF Sound, Typed, Queued, Resume, Dirs
  <1>1. /\ h \in Jobs /\ posts' = Tail(posts) /\ ui' = Resumed(ui, h)
        /\ edits' = edits \o ResetGoesOn(h)
        /\ UNCHANGED <<settings, unseen, entered>>
    BY <1>0, Queues DEF Resume
  <1>2. /\ 1 \in DOMAIN posts /\ posts[1] = h /\ Len(posts) \in Nat
        /\ DOMAIN posts' = 1 .. Len(posts) - 1 /\ DOMAIN posts = 1 .. Len(posts)
        /\ \A i \in DOMAIN posts' : i + 1 \in DOMAIN posts /\ posts'[i] = posts[i + 1]
        /\ Len(posts') = Len(posts) - 1 /\ (Len(posts) = 1 => posts' = <<>>)
    BY <1>0, <1>1
  <1>3. /\ \A K : Has(posts, K) <=> h \in K \/ Has(posts', K)
        /\ \A K, V : Ends(posts, K, V) => Ends(posts', K, V) \/ (~Has(posts', K) /\ h \in V)
    BY <1>0, <1>1, QueueShrinks
  <1>4. /\ h.kind \in {"manual", "pct", "test", "reset", "resetDl", "resetUl"}
        /\ h \in Resets <=> h.kind \in {"reset", "resetDl", "resetUl"}
        /\ h \in LaterResets <=> h.kind \in {"resetDl", "resetUl"}
        /\ \A d \in Dirs : h \in ToCome(d) <=> h.kind = "reset" \/ (d = "ul" /\ h.kind = "resetDl")
        /\ h \in MeasuredWriters <=> h.kind \in {"test", "resetUl"}
        /\ \A v : h \in MeasuredWritersOf(v) <=>
             \/ h.kind = "resetUl" /\ v = Both(0)
             \/ h.kind = "test" /\ h.value = v
    BY <1>0, <1>1, JobKinds, JobSets
  <1>5. ui'.pct = ui.pct
    BY <1>0, <1>1, ResumedIs
  <1>6. \A d \in Dirs :
          ui'.manual[d] = IF h.kind = "resetUl" THEN None
                          ELSE IF h.kind = "manual" /\ h.dir = d THEN h.value ELSE ui.manual[d]
    BY <1>0, <1>1, ResumedIs
  <1>7. ui'.measured = IF h.kind = "resetUl" THEN Both(0)
                       ELSE IF h.kind = "test" THEN h.value ELSE ui.measured
    BY <1>0, <1>1, ResumedIs
  <1>8. ASSUME NEW d \in Dirs
        PROVE  /\ h \in ManualWriters(d) <=> (h.kind = "manual" /\ h.dir = d) \/ h.kind = "resetUl"
               /\ \A v : h \in ManualWritersOf(d, v) <=>
                    \/ h.kind = "resetUl" /\ v = None
                    \/ h.kind = "manual" /\ h.dir = d /\ h.value = v
    BY <1>1, JobSets
  <1>9. /\ h.kind \notin {"reset", "resetDl"} => edits' = edits
        /\ h.kind = "reset" => edits' = edits \o <<Job("resetDl", "dl", None)>>
        /\ h.kind = "resetDl" => edits' = edits \o <<Job("resetUl", "ul", None)>>
    BY <1>0, <1>1, QueueEmpty DEF ResetGoesOn
  <1> HIDE DEF h
  <1>10. h \in Resets => edits = <<>> /\ posts' = <<>>
    BY <1>0, <1>2 DEF ResetIsLast
  <1>11. \A d \in Dirs : ManualFollows(d)'
    <2> SUFFICES ASSUME NEW d \in Dirs PROVE ManualFollows(d)'
      OBVIOUS
    <2>1. ManualFollows(d)
      BY <1>0 DEF ScreenFollows
    <2>2. CASE Ends(posts, ManualWriters(d), ManualWritersOf(d, settings.manual[d]))
      <3>1. h \in ManualWritersOf(d, settings.manual[d]) => ui'.manual[d] = settings.manual[d]
        BY <1>6, <1>8
      <3> QED
        BY <1>1, <1>3, <2>2, <3>1 DEF ManualFollows
    <2>3. CASE /\ ~Has(posts, ManualWriters(d))
               /\ "manual" \in unseen \/ ui.manual[d] = settings.manual[d]
      <3>1. h \notin ManualWriters(d) /\ ~Has(posts', ManualWriters(d))
        BY <1>3, <2>3
      <3>2. ui'.manual[d] = ui.manual[d]
        BY <1>6, <1>8, <3>1
      <3> QED
        BY <1>1, <2>3, <3>1, <3>2 DEF ManualFollows
    <2> QED
      BY <2>1, <2>2, <2>3 DEF ManualFollows
  <1>12. CASE h \notin Resets
    <2>1. edits' = edits /\ \A d \in Dirs : h \notin ToCome(d)
      BY <1>4, <1>9, <1>12
    <2>2. \A K : Has(posts', K) => Has(posts, K)
      BY <1>3
    <2>3. ResetIsLast'
      <3>1. \A i \in DOMAIN posts' : posts'[i] \in Resets => i = Len(posts') /\ edits = <<>>
        BY <1>0, <1>2 DEF ResetIsLast
      <3>2. \A i \in DOMAIN posts' : posts'[i] \notin LaterResets
        BY <1>0, <1>2 DEF ResetIsLast
      <3>3. \A i \in DOMAIN edits : edits[i] \in LaterResets => i = 1 /\ posts' = <<>>
        BY <1>0 DEF ResetIsLast
      <3> QED
        BY <1>0, <1>1, <2>1, <2>2, <3>1, <3>2, <3>3 DEF ResetIsLast
    <2>4. RequestsCount'
      BY <1>0, <1>1, <1>3, <2>1 DEF RequestsCount, RequestCounts
    <2>5. Zeroing' = Zeroing
      BY <1>3, <1>12, <2>1 DEF Zeroing
    <2>6. MeasuredFollows'
      <3>1. MeasuredFollows
        BY <1>0 DEF ScreenFollows
      <3>2. CASE Zeroing
        BY <1>1, <2>5, <3>1, <3>2 DEF MeasuredFollows
      <3>3. CASE ~Zeroing /\ Ends(posts, MeasuredWriters, MeasuredWritersOf(settings.measured))
        <4>1. h \in MeasuredWritersOf(settings.measured) => ui'.measured = settings.measured
          BY <1>4, <1>7
        <4> QED
          BY <1>1, <1>3, <2>5, <3>3, <4>1 DEF MeasuredFollows
      <3>4. CASE ~Zeroing /\ ~Has(posts, MeasuredWriters)
        <4>1. h \notin MeasuredWriters /\ ~Has(posts', MeasuredWriters)
          BY <1>3, <3>4
        <4>2. ui'.measured = ui.measured
          BY <1>4, <1>7, <4>1
        <4>3. "measured" \in unseen \/ ui.measured = settings.measured
          <5>1. ~Ends(posts, MeasuredWriters, MeasuredWritersOf(settings.measured))
            BY <3>4 DEF Ends, Has, MeasuredWritersOf
          <5> QED
            BY <3>1, <3>4, <5>1 DEF MeasuredFollows
        <4> QED
          BY <1>1, <2>5, <3>4, <4>1, <4>2, <4>3 DEF MeasuredFollows
      <3> QED
        BY <3>1, <3>2, <3>3, <3>4 DEF MeasuredFollows
    <2> QED
      BY <1>0, <1>1, <1>5, <1>11, <2>3, <2>4, <2>6 DEF Queued, ScreenFollows
  <1>13. CASE h \in Resets
    <2>1. /\ edits = <<>> /\ posts' = <<>> /\ entered = Both(None)
          /\ settings.measured = Both(0)
      BY <1>0, <1>3, <1>10, <1>13 DEF ResetIsLast, Zeroing, ScreenFollows, MeasuredFollows
    <2>2. /\ \A K, V : ~Has(posts', K) /\ ~Ends(posts', K, V)
          /\ \A K, V : ~Has(edits, K) /\ ~Ends(edits, K, V)
          /\ \A K : Has(posts, K) <=> h \in K
      BY <1>3, <2>1, QueueEmpty
    <2>3. \A d \in Dirs : entered[d] = None /\ (RequestCounts(d) <=>
                            h \in ToCome(d) \/ settings.manual[d] = entered[d])
      BY <2>1, <2>2 DEF RequestCounts, Both
    <2>4. ASSUME NEW j \in Jobs, j.kind \in {"resetDl", "resetUl"}, edits' = edits \o <<j>>,
                 \A d \in Dirs : \/ j \in SettersTo(d, None) \/ j \in ToCome(d)
                                 \/ j \notin Setters(d) /\ settings.manual[d] = None
          PROVE  Queued'
      <3>1. edits' = <<j>>
        BY <2>1, <2>4
      <3>2. /\ DOMAIN edits' = {1} /\ Len(edits') = 1 /\ edits'[1] = j
        BY <3>1
      <3>3. j \in LaterResets
        BY <1>0, <2>4, JobSets
      <3>4. ResetIsLast'
        BY <1>1, <2>1, <2>2, <3>2 DEF ResetIsLast, Has
      <3>5. \A K, V : (Has(edits', K) <=> j \in K) /\ (j \in V => Ends(edits', K, V))
        BY <3>2 DEF Has, Ends
      <3>6. RequestsCount'
        BY <1>1, <2>3, <2>4, <3>5 DEF RequestsCount, RequestCounts
      <3>7. MeasuredFollows'
        BY <1>1, <2>1, <3>3, <3>5 DEF MeasuredFollows, Zeroing
      <3> QED
        BY <1>0, <1>1, <1>5, <1>11, <3>4, <3>6, <3>7 DEF Queued, ScreenFollows
    <2>5. CASE h.kind = "reset"
      <3> DEFINE j == Job("resetDl", "dl", None)
      <3>1. j \in Jobs /\ j.kind = "resetDl" /\ j.dir = "dl" /\ j.value = None
        BY DEF Job, Jobs
      <3>2. edits' = edits \o <<j>>
        BY <1>9, <2>5
      <3> HIDE DEF j
      <3>3. j \in SettersTo("dl", None) /\ j \in ToCome("ul")
        BY <1>0, <3>1, JobSets
      <3> QED
        BY <1>0, <2>4, <3>1, <3>2, <3>3
    <2>6. CASE h.kind = "resetDl"
      <3> DEFINE j == Job("resetUl", "ul", None)
      <3>1. j \in Jobs /\ j.kind = "resetUl" /\ j.dir = "ul" /\ j.value = None
        BY DEF Job, Jobs
      <3>2. edits' = edits \o <<j>>
        BY <1>9, <2>6
      <3> HIDE DEF j
      <3>3. j \in SettersTo("ul", None) /\ j \notin Setters("dl")
        BY <1>0, <3>1, JobSets
      <3>4. settings.manual["dl"] = None
        BY <1>0, <1>4, <2>3, <2>6 DEF RequestsCount
      <3> QED
        BY <1>0, <2>4, <3>1, <3>2, <3>3, <3>4
    <2>7. CASE h.kind = "resetUl"
      <3>1. edits' = <<>>
        BY <1>9, <2>1, <2>7
      <3>2. \A K, V : ~Has(edits', K) /\ ~Ends(edits', K, V)
        BY <3>1, QueueEmpty
      <3>3. ResetIsLast'
        BY <1>1, <2>2, <3>2 DEF ResetIsLast, Has
      <3>4. RequestsCount'
        BY <1>0, <1>1, <1>4, <2>3, <2>7, <3>2 DEF RequestsCount, RequestCounts
      <3>5. MeasuredFollows'
        BY <1>1, <1>7, <2>1, <2>2, <2>7, <3>2 DEF MeasuredFollows, Zeroing
      <3> QED
        BY <1>0, <1>1, <1>5, <1>11, <3>3, <3>4, <3>5 DEF Queued, ScreenFollows
    <2> QED
      BY <1>4, <1>13, <2>5, <2>6, <2>7
  <1> QED
    BY <1>12, <1>13

\* The flows of the settings: outside manual mode there is no manual cap, and
\* what they hide is nothing.
LEMMA ManualShown ==
  ASSUME NEW s \in Settings, ModeIs(s)
  PROVE  \A d \in Dirs : Manual(s)[d] = s.manual[d]
  BY DEF Manual, ModeIs, Both

\* A flow delivers.
LEMMA ObserveQueued ==
  ASSUME Sound, Queued, NEW flow \in Flows, Observe(flow)
  PROVE  Queued'
  <1>0. /\ settings \in Settings /\ ModeIs(settings) /\ ui \in Screens
        /\ ResetIsLast /\ RequestsCount /\ ScreenFollows
    BY DEF Sound, Typed, Queued
  <1>1. UNCHANGED <<settings, edits, posts, entered>> /\ unseen' = unseen \ {flow}
    BY DEF Observe
  <1>2. ResetIsLast'
    BY <1>0, <1>1 DEF ResetIsLast
  <1>3. RequestsCount'
    BY <1>0, <1>1 DEF RequestsCount, RequestCounts
  <1>4. /\ flow = "manual" => ui' = [ui EXCEPT !.manual = Manual(settings)]
        /\ flow = "measured" => ui' = [ui EXCEPT !.measured = settings.measured]
        /\ flow = "pct" => ui' = [ui EXCEPT !.pct = settings.pct]
        /\ flow \notin SettingsFlows => ui' = [ui EXCEPT !.cap[flow] = published[flow]]
    BY DEF Observe, SettingsFlows
  <1>5. /\ \A d \in Dirs : IF flow = "manual" THEN ui'.manual[d] = settings.manual[d]
                           ELSE ui'.manual[d] = ui.manual[d]
        /\ IF flow = "measured" THEN ui'.measured = settings.measured
           ELSE ui'.measured = ui.measured
        /\ IF flow = "pct" THEN ui'.pct = settings.pct ELSE ui'.pct = ui.pct
    <2>1. CASE flow = "manual"
      BY <1>0, <1>4, <2>1, ManualShown DEF Screens
    <2>2. CASE flow # "manual"
      BY <1>0, <1>4, <2>2 DEF Screens, SettingsFlows
    <2> QED
      BY <2>1, <2>2
  <1>6. \A d \in Dirs : ManualFollows(d)'
    BY <1>0, <1>1, <1>5 DEF ScreenFollows, ManualFollows
  <1>7. MeasuredFollows'
    BY <1>0, <1>1, <1>5 DEF ScreenFollows, MeasuredFollows, Zeroing
  <1> QED
    BY <1>0, <1>1, <1>2, <1>3, <1>5, <1>6, <1>7 DEF Queued, ScreenFollows

\* The service queues nothing, and shows caps only.
LEMMA ServiceQueued ==
  ASSUME Sound, Queued, UNCHANGED <<settings, ui, edits, posts, entered>>,
         unseen \subseteq unseen'
  PROVE  Queued'
  <1>0. ResetIsLast /\ RequestsCount /\ ScreenFollows
    BY DEF Queued
  <1>1. ResetIsLast'
    BY <1>0 DEF ResetIsLast
  <1>2. RequestsCount'
    BY <1>0 DEF RequestsCount, RequestCounts
  <1>3. \A d \in Dirs : ManualFollows(d)'
    BY <1>0 DEF ScreenFollows, ManualFollows
  <1>4. MeasuredFollows'
    BY <1>0 DEF ScreenFollows, MeasuredFollows, Zeroing
  <1> QED
    BY <1>0, <1>1, <1>2, <1>3, <1>4 DEF Queued, ScreenFollows

\* Every step of an unhurried user and of the service.
LEMMA NextQueued ==
  ASSUME Sound, Queued, [Next]_vars, Hasty = FALSE
  PROVE  Queued'
  <1>1. CASE User
    BY <1>1, UserQueued
  <1>2. CASE MakeEdit \/ Resume \/ \E flow \in Flows : Observe(flow)
    BY <1>2, MakeEditQueued, ResumeQueued, ObserveQueued
  <1>3. CASE \/ UNCHANGED vars \/ ReadSaved \/ Connect \/ StopVpn \/ Destroy
             \/ \E t \in Threads, d \in Dirs : SetRate(t, d) \/ Publish(t, d)
    <2>1. UNCHANGED <<settings, ui, edits, posts, entered>>
      BY <1>3 DEF vars, screen, ReadSaved, Connect, StopVpn, Destroy, Publish, SetRate
    <2>2. unseen \subseteq unseen'
      BY <1>3 DEF vars, screen, ReadSaved, Connect, StopVpn, Destroy, Publish, SetRate
    <2> QED
      BY <2>1, <2>2, ServiceQueued
  <1> QED
    BY <1>1, <1>2, <1>3 DEF Next, Work

\* What the user asked for is a cap, or none, for each direction.
Asked == entered = [d \in Dirs |-> entered[d]]

\* Every step keeps it so.
LEMMA NextAsked ==
  ASSUME Asked, [Next]_vars
  PROVE  Asked'
  <1>1. \/ entered' = entered \/ entered' = Both(None)
        \/ \E caps : entered' = [d \in Dirs |-> IF caps[d] # None THEN caps[d] ELSE entered[d]]
    BY DEF vars, Next, User, MoveSlider, SwitchManualOff, EndSpeedTest, ResetSpeeds, Apply,
       Work, MakeEdit, Resume, Observe, ReadSaved, Publish, SetRate, Connect, StopVpn, Destroy
  <1> QED
    BY <1>1 DEF Asked, Both

\* When everything is done, the manual caps are those the user asked for last,
\* whatever was asked for while earlier requests were still being carried out.
THEOREM LastRequestStays ==
  ASSUME Hasty = FALSE
  PROVE  Spec => []LastRequestWins
  <1>1. Init => Sound /\ Queued /\ Asked
    BY InitSound, InitQueued DEF Init, Asked, Both
  <1>2. Sound /\ Queued /\ Asked /\ [Next]_vars => (Sound /\ Queued /\ Asked)'
    BY NextSound, NextQueued, NextAsked
  <1>3. Sound /\ Queued /\ Asked => LastRequestWins
    <2> SUFFICES ASSUME Sound, Queued, Asked, edits = <<>>, posts = <<>>
                 PROVE  settings.manual = entered
      BY DEF LastRequestWins
    <2>1. \A d \in Dirs : settings.manual[d] = entered[d]
      BY QueueEmpty DEF Queued, RequestsCount, RequestCounts
    <2>2. settings.manual = [d \in Dirs |-> settings.manual[d]]
      BY DEF Sound, Typed, Settings
    <2> QED
      BY <2>1, <2>2 DEF Asked
  <1> QED
    BY <1>1, <1>2, <1>3, PTL DEF Spec

\* ... and the screen shows the settings, although coroutines and flows write
\* to it in whatever order they come.
THEOREM ScreenIsTrue ==
  ASSUME Hasty = FALSE
  PROVE  Spec => []ScreenShowsSettings
  <1>1. Init => Sound /\ Queued
    BY InitSound, InitQueued
  <1>2. Sound /\ Queued /\ [Next]_vars => (Sound /\ Queued)'
    BY NextSound, NextQueued
  <1>3. Sound /\ Queued => ScreenShowsSettings
    <2> SUFFICES ASSUME Sound, Queued, Settled
                 PROVE  /\ ui.manual = Manual(settings)
                        /\ ui.measured = settings.measured
                        /\ ui.pct = settings.pct
      BY DEF ScreenShowsSettings
    <2>1. edits = <<>> /\ posts = <<>> /\ unseen = {}
      BY DEF Settled
    <2>2. \A d \in Dirs : ui.manual[d] = settings.manual[d]
      BY <2>1, QueueEmpty DEF Queued, ScreenFollows, ManualFollows
    <2>3. ui.measured = settings.measured /\ ui.pct = settings.pct
      BY <2>1, QueueEmpty DEF Queued, ScreenFollows, MeasuredFollows, Zeroing
    <2>4. \A d \in Dirs : ui.manual[d] = Manual(settings)[d]
      BY <2>2, ManualShown DEF Sound, Typed
    <2>5. ui.manual \in [Dirs -> ManualValues] /\ Manual(settings) \in [Dirs -> ManualValues]
      BY DEF Sound, Typed, Screens, Settings, Manual, Both, ManualValues
    <2>6. /\ ui.manual = [d \in Dirs |-> ui.manual[d]]
          /\ Manual(settings) = [d \in Dirs |-> Manual(settings)[d]]
      BY <2>5
    <2> QED
      BY <2>3, <2>4, <2>6
  <1> QED
    BY <1>1, <1>2, <1>3, PTL DEF Spec

=============================================================================
