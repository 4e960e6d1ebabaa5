------------------------------ MODULE CapControl ------------------------------
(***************************************************************************)
(* The bandwidth caps from the screen to the engine.  A cap is kept in     *)
(* four places: the settings (DataStore), the view model's state, the      *)
(* service's published state, and the rates of the engine's limiters.      *)
(*                                                                         *)
(* The view model's coroutines run on the main thread and are suspended    *)
(* while the DataStore makes their edits, one at a time and in order; what *)
(* they do then waits its turn on the main thread.  The flows that the     *)
(* view model observes deliver at any time.  The service applies the saved *)
(* caps from a coroutine of its own, on another thread ("io").             *)
(*                                                                         *)
(* Caps are whole numbers here; a measured speed times a percentage is     *)
(* scaled by 100.                                                          *)
(***************************************************************************)
EXTENDS Integers, Sequences, FiniteSets

CONSTANTS
  ManualCaps,   (* caps a user may enter                                   *)
  Speeds,       (* results of a speed test that are kept                   *)
  Percents,     (* positions of the slider, 80 .. 95                       *)
  Hasty,        (* whether anything is requested during a reset            *)
  MaxActs,      (* bound: acts of the user                                 *)
  MaxConnects   (* bound: times the engine is started                      *)

Dirs == {"dl", "ul"}
None == -1
Unlimited == -2      \* the 1 GB/s of engine_start
Both(v) == [d \in Dirs |-> v]

ASSUME CapControlConstants ==
  /\ ManualCaps \subseteq Nat \ {0}
  /\ Speeds \subseteq {s \in [Dirs -> Nat] : s["dl"] > 0}
  /\ Percents \subseteq 80 .. 95 /\ 90 \in Percents
  /\ Hasty \in BOOLEAN
  /\ MaxActs \in Nat /\ MaxConnects \in Nat

VARIABLES
  settings,   (* the DataStore                                             *)
  ui,         (* the view model's state                                    *)
  edits,      (* coroutines whose edit is still to be made                 *)
  posts,      (* coroutines whose edit is made, waiting for the main thread *)
  unseen,     (* what flows have still to deliver to the view model        *)
  service,    (* down, up, or stopped: there, with no engine               *)
  published,  (* the service's caps                                        *)
  rate,       (* the engine's rates                                        *)
  calls,      (* thread -> the step of applySavedCaps or updateCaps it is  *)
              (* about to take, and the caps it was given                  *)
  entered,    (* (for properties) the manual caps the user last asked for  *)
  applied,    (* (for properties) direction -> cap just applied, or None   *)
  fresh,      (* (for properties) nothing was changed, applied or stopped  *)
              (* since the connection                                      *)
  made        (* acts and connections so far                               *)

screen == <<settings, ui, edits, posts, unseen>>
engine == <<service, published, rate, calls>>
vars == <<screen, engine, entered, applied, fresh, made>>

Threads == {"main", "io"}
Idle(t) == calls[t].step = "none"
NoCall == [step |-> "none", caps |-> Both(0)]

Steps == {"none", "read", "dl", "ul", "showDl", "showUl"}
Showing(d) == IF d = "dl" THEN "showDl" ELSE "showUl"

\* Caps are given to the two limiters and then published, one at a time.
Publishes(caps) == [step |-> "showDl", caps |-> caps]

\* updateCaps begins: a service with no engine only publishes.
Call(caps) == IF service = "up" THEN [step |-> "dl", caps |-> caps] ELSE Publishes(caps)

\* The flows of the settings, the two directions of one together; and the flow
\* of the cap of each direction.
SettingsFlows == {"manual", "measured", "pct"}
Flows == SettingsFlows \cup Dirs

Init ==
  /\ settings = [manual |-> Both(None), mode |-> FALSE, measured |-> Both(0), pct |-> 90]
  /\ ui = [manual |-> Both(None), measured |-> Both(0), pct |-> 90, cap |-> Both(0)]
  /\ edits = <<>> /\ posts = <<>> /\ unseen = {}
  /\ service = "down" /\ published = Both(0) /\ rate = Both(Unlimited)
  /\ calls = [t \in Threads |-> NoCall]
  /\ entered = Both(None) /\ applied = Both(None) /\ fresh = FALSE
  /\ made = [acts |-> 0, connects |-> 0]

-----------------------------------------------------------------------------
\* SettingsRepository.

\* Fault: manual mode ends with either of the two caps.
ModeEither(manual) == \A d \in Dirs : manual[d] # None

\* set true by a cap, false when the second one goes.
Mode(manual) == \E d \in Dirs : manual[d] # None

\* Fault: a null cap ends manual mode and is not removed.
WithManualKept(s, d, v) ==
  IF v = None THEN [s EXCEPT !.mode = FALSE]
  ELSE [s EXCEPT !.manual[d] = v, !.mode = TRUE]

\* The two manual setters, a null cap being removed.
WithManual(s, d, v) ==
  LET manual == [s.manual EXCEPT ![d] = v] IN
  [s EXCEPT !.manual = manual,
            !.mode = IF v # None THEN TRUE ELSE IF Mode(manual) THEN @ ELSE FALSE]

\* The flows hide manual caps outside manual mode.
Manual(s) == IF s.mode THEN s.manual ELSE Both(None)

Edited(s, job) ==
  CASE job.kind \in {"manual", "resetDl", "resetUl"} -> WithManual(s, job.dir, job.value)
    [] job.kind = "pct" -> [s EXCEPT !.pct = job.value]
    [] job.kind \in {"test", "reset"} -> [s EXCEPT !.measured = job.value]

\* What a direction is limited to: the manual cap, else the percentage.
Effective(manual, measured, pct) ==
  [d \in Dirs |-> IF manual[d] # None THEN manual[d] ELSE measured[d] * pct]

-----------------------------------------------------------------------------
\* The user.

Job(kind, dir, value) == [kind |-> kind, dir |-> dir, value |-> value]
Reset0 == Job("reset", "dl", Both(0))

Resetting ==
  \E q \in {edits, posts} : \E i \in DOMAIN q : q[i].kind \in {"reset", "resetDl", "resetUl"}

Acts(jobs) ==
  /\ Idle("main")
  /\ Hasty \/ ~Resetting
  /\ made.acts < MaxActs
  /\ made' = [made EXCEPT !.acts = @ + 1]
  /\ edits' = edits \o jobs
  /\ UNCHANGED <<settings, ui, posts, unseen>>

MoveSlider(p) ==
  /\ Acts(<<Job("pct", "dl", p)>>)
  /\ applied' = Both(None)
  /\ UNCHANGED <<engine, entered, fresh>>

SwitchManualOff ==
  /\ Acts(<<Job("manual", "dl", None), Job("manual", "ul", None)>>)
  /\ entered' = Both(None) /\ applied' = Both(None)
  /\ UNCHANGED <<engine, fresh>>

EndSpeedTest(result) ==
  /\ Acts(<<Job("test", "dl", result)>>)
  /\ applied' = Both(None)
  /\ UNCHANGED <<engine, entered, fresh>>

ResetSpeeds ==
  /\ Acts(<<Reset0>>)
  /\ entered' = Both(None) /\ applied' = Both(None)
  /\ UNCHANGED <<engine, fresh>>

\* The edits of the fields that hold a cap.
CapJobs(caps) ==
  LET jobs(d) == IF caps[d] = None THEN <<>> ELSE <<Job("manual", d, caps[d])>>
  IN  jobs("dl") \o jobs("ul")

\* The Apply button: the caps entered (None: field left empty) are set by
\* coroutines, and applyCaps is called at once with the caps of the screen.
Apply(caps) ==
  /\ Acts(CapJobs(caps))
  /\ calls' = IF service = "down" THEN calls ELSE [calls EXCEPT !["main"] = Call(ui.cap)]
  /\ entered' = [d \in Dirs |-> IF caps[d] # None THEN caps[d] ELSE entered[d]]
  /\ applied' = IF service = "up" /\ Idle("io") THEN caps ELSE Both(None)
  /\ fresh' = FALSE
  /\ UNCHANGED <<service, published, rate>>

-----------------------------------------------------------------------------
\* The DataStore, and what waits on the main thread.

MakeEdit ==
  /\ edits # <<>>
  /\ settings' = Edited(settings, Head(edits))
  /\ edits' = Tail(edits)
  /\ posts' = Append(posts, Head(edits))
  /\ unseen' = unseen \cup SettingsFlows
  /\ fresh' = FALSE
  /\ UNCHANGED <<ui, engine, entered, applied, made>>

CapShown(u, job) ==
  IF job.value # None THEN job.value ELSE u.measured[job.dir] * u.pct

\* Fault: one setter writes the other's field.
ResumedCrossed(u, job) ==
  [u EXCEPT !.cap[job.dir] = CapShown(u, job), !.manual["dl"] = job.value]

\* What a manual setter does after its edit.
ResumedManual(u, job) ==
  [u EXCEPT !.cap[job.dir] = CapShown(u, job), !.manual[job.dir] = job.value]

\* recalcCaps does not look at the manual caps.
Recalculated(u, measured, pct) ==
  [u EXCEPT !.cap = [d \in Dirs |-> measured[d] * pct], !.measured = measured]

Resumed(u, job) ==
  CASE job.kind = "manual" -> ResumedManual(u, job)
    [] job.kind = "pct" ->
         IF u.manual["dl"] = None /\ u.measured["dl"] > 0
         THEN Recalculated(u, u.measured, job.value) ELSE u
    [] job.kind = "test" -> Recalculated(u, job.value, u.pct)
    [] job.kind = "resetUl" ->
         [u EXCEPT !.measured = Both(0), !.cap = Both(0), !.manual = Both(None)]
    [] OTHER -> u

\* resetSpeeds makes three edits, one after the other.
ResetGoesOn(job) ==
  CASE job.kind = "reset"   -> <<Job("resetDl", "dl", None)>>
    [] job.kind = "resetDl" -> <<Job("resetUl", "ul", None)>>
    [] OTHER -> <<>>

Resume ==
  /\ posts # <<>> /\ Idle("main")
  /\ ui' = Resumed(ui, Head(posts))
  /\ edits' = edits \o ResetGoesOn(Head(posts))
  /\ posts' = Tail(posts)
  /\ UNCHANGED <<settings, unseen, engine, entered, applied, fresh, made>>

Observe(flow) ==
  /\ Idle("main")
  /\ flow \in unseen
  /\ unseen' = unseen \ {flow}
  /\ ui' = CASE flow = "manual"   -> [ui EXCEPT !.manual = Manual(settings)]
             [] flow = "measured" -> [ui EXCEPT !.measured = settings.measured]
             [] flow = "pct"      -> [ui EXCEPT !.pct = settings.pct]
             [] OTHER             -> [ui EXCEPT !.cap[flow] = published[flow]]
  /\ UNCHANGED <<settings, edits, posts, engine, entered, applied, fresh, made>>

-----------------------------------------------------------------------------
\* The service.

\* doStart's coroutine, or the reconnection's: the new engine is unlimited.
Connect ==
  /\ Idle("io")
  /\ made.connects < MaxConnects
  /\ made' = [made EXCEPT !.connects = @ + 1]
  /\ service' = "up"
  /\ rate' = Both(Unlimited)
  /\ calls' = [calls EXCEPT !["io"].step = "read"]
  /\ applied' = Both(None) /\ fresh' = Idle("main")
  /\ UNCHANGED <<screen, published, entered>>

AppliesSaved(caps) == \A d \in Dirs : caps[d] > 0

\* applySavedCaps: with a cap missing, neither is applied.
ReadSaved ==
  LET caps == Effective(Manual(settings), settings.measured, settings.pct) IN
  /\ calls["io"].step = "read"
  /\ calls' = [calls EXCEPT !["io"] = IF AppliesSaved(caps) THEN Call(caps) ELSE NoCall]
  /\ UNCHANGED <<screen, service, published, rate, entered, applied, fresh, made>>

\* Fault: the upload limiter is given the download cap.
SameRate(caps, d) == caps["dl"]

RateOf(caps, d) == caps[d]

\* updateCaps: a limiter at a time, each under its own lock.
SetRate(t, d) ==
  /\ calls[t].step = d
  /\ rate' = [rate EXCEPT ![d] = RateOf(calls[t].caps, d)]
  /\ calls' = [calls EXCEPT ![t].step = IF d = "dl" THEN "ul" ELSE "showDl"]
  /\ UNCHANGED <<screen, service, published, entered, applied, fresh, made>>

\* ... and then a state flow at a time, which delivers what has changed.
Publish(t, d) ==
  LET cap == calls[t].caps[d] IN
  /\ calls[t].step = Showing(d)
  /\ published' = [published EXCEPT ![d] = cap]
  /\ unseen' = IF cap = published[d] THEN unseen ELSE unseen \cup {d}
  /\ calls' = [calls EXCEPT ![t] = IF d = "dl" THEN [@ EXCEPT !.step = "showUl"] ELSE NoCall]
  /\ UNCHANGED <<settings, ui, edits, posts, service, rate, entered, applied, fresh, made>>

\* doStop.
StopVpn ==
  /\ service = "up" /\ Idle("main")
  /\ service' = "stopped"
  /\ calls' = [calls EXCEPT !["main"] = Publishes(Both(0))]
  /\ applied' = Both(None) /\ fresh' = FALSE
  /\ UNCHANGED <<screen, published, rate, entered, made>>

\* onDestroy: its scope is cancelled, which ends a coroutine that waits for
\* the settings but none that is past it.
Destroy ==
  /\ service = "stopped" /\ Idle("main")
  /\ service' = "down"
  /\ calls' = [calls EXCEPT !["main"] = Publishes(Both(0)),
                            !["io"] = IF @.step = "read" THEN NoCall ELSE @]
  /\ UNCHANGED <<screen, published, rate, entered, applied, fresh, made>>

-----------------------------------------------------------------------------

User ==
  \/ \E p \in Percents : MoveSlider(p)
  \/ SwitchManualOff
  \/ \E s \in Speeds : EndSpeedTest(s)
  \/ ResetSpeeds
  \/ \E caps \in [Dirs -> ManualCaps \cup {None}] : Apply(caps)

Work ==
  \/ MakeEdit \/ Resume
  \/ \E flow \in Flows : Observe(flow)
  \/ ReadSaved
  \/ \E t \in Threads, d \in Dirs : SetRate(t, d) \/ Publish(t, d)

Next == User \/ Work \/ Connect \/ StopVpn \/ Destroy

Spec == Init /\ [][Next]_vars

-----------------------------------------------------------------------------

Settled == edits = <<>> /\ posts = <<>> /\ unseen = {} /\ \A t \in Threads : Idle(t)

CapValues == Nat \cup {Unlimited}

\* The types, and: nothing but a service that is there is called.
TypeOK ==
  /\ settings.manual \in [Dirs -> ManualCaps \cup {None}] /\ settings.mode \in BOOLEAN
  /\ ui.manual \in [Dirs -> ManualCaps \cup {None}] /\ ui.cap \in [Dirs -> Nat]
  /\ {settings.pct, ui.pct} \subseteq Percents
  /\ {settings.measured, ui.measured} \subseteq Speeds \cup {Both(0)}
  /\ rate \in [Dirs -> CapValues] /\ published \in [Dirs -> Nat]
  /\ unseen \subseteq Flows
  /\ service \in {"down", "stopped", "up"}
  /\ calls \in [Threads -> [step : Steps, caps : [Dirs -> Nat]]]

\* Manual mode is on exactly while there is a manual cap: no cap is kept and
\* hidden from the screen and the service, whatever the order of the edits.
ManualModeExact == settings.mode <=> \E d \in Dirs : settings.manual[d] # None

\* The settings are consistent after every edit (setManualDownloadCap,
\* setManualUploadCap).
SettingsSound == TypeOK /\ ManualModeExact

\* When everything is done, the manual caps are those the user asked for last.
LastRequestWins == edits = <<>> /\ posts = <<>> => settings.manual = entered

\* ... and the screen shows the settings, although both the coroutines and the
\* flows write to it.
ScreenShowsSettings ==
  Settled =>
    /\ ui.manual = Manual(settings)
    /\ ui.measured = settings.measured
    /\ ui.pct = settings.pct

\* Once connected, and as long as nothing is edited, applied or stopped, the saved
\* caps are in force and published, unless one of them is missing; the service's
\* coroutine reads the settings while the view model's make their edits.
SavedCapsEnforced ==
  LET caps == Effective(Manual(settings), settings.measured, settings.pct) IN
  service = "up" /\ Idle("io") /\ fresh /\ (\A d \in Dirs : caps[d] > 0) =>
    rate = caps /\ published = caps

\* "Push current caps to the running VPN service", "Caps applied": when all is
\* done, the engine enforces the caps that were entered while it was connected.
AppliedIsEnforced ==
  Settled => \A d \in Dirs : applied[d] # None => rate[d] = applied[d]

=============================================================================
