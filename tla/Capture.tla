------------------------------ MODULE Capture ------------------------------
(***************************************************************************)
(* The capture session of src/src/obsc.cpp: one client thread calling      *)
(* attach, shutdown, the capture functions and setCaptureOverlays in any   *)
(* order, against the hook of GraphicsHook.                                *)
(*                                                                         *)
(* A call is a sequence of steps, `pc` naming the next one; a step is      *)
(* either one access to what the hook shares or one init function, so that *)
(* the hook can act between any two of them.  The private members of       *)
(* Context are variables of their own: TRUE means non-null.                *)
(***************************************************************************)
EXTENDS GraphicsHook

CONSTANTS
  Phases,         \* recovery phases of waitHookReady (6 in the code)
  Polls,          \* sleeps of one poll of HookReady (32 and 48 in the code)
  WindowOwners,   \* processes that own a window with the wanted title
  Responsive      \* TRUE: the hook keeps up with the client's timeouts, no
                  \* wait of waitHookReady ends before the hook is quiet

ASSUME CaptureAssumption ==
  /\ Phases \in Nat
  /\ Polls \in Nat
  /\ WindowOwners \subseteq Pids
  /\ Responsive \in BOOLEAN

VARIABLES
  pid,            \* Context::pid
  held,           \* the other members of Context that are not null
  opened,         \* how many of its Events hold an open handle
  overlay,        \* CaptureConfig::captureOverlays
  swallowed,      \* history: the last setCaptureOverlays could not open the
                  \* hook info, and no attach has written it since
  pc,             \* next step of the call in progress, "idle" when none is
  call,           \* the last call made
  result,         \* how it ended, "none" while it runs
  phase,          \* recovery phase of waitHookReady, 0 on the fast path
  polls,          \* sleeps already done in this poll
  session         \* history: "attached" from the completion of an attach to
                  \* the beginning of a shutdown

contextVars == <<held, opened>>
optVars == <<overlay, swallowed>>
waitVars == <<phase, polls>>
sharedVars == <<hook, signalled, hookType, hookOverlay, restartBy>>
textureVars == <<textureData, sourceTexture>>

vars == <<hookVars, contextVars, waitVars, optVars, pid, pc, call, result,
          session>>

StripCalls == {"captureStripInto", "captureStrip", "getPixel"}
CaptureCalls == {"captureFrame"} \cup StripCalls

AttachSteps ==
  {"initPipe", "attemptExistingHook", "injectGraphicsHook",
   "initTextureMutexes", "initHookInfo", "initEvents", "signalInit",
   "signalRestart", "poll", "forceStop", "clearStop", "restartAgain",
   "initAgain", "succeed", "openHookInfo", "openTexture"}

Steps == AttachSteps \cup
  {"idle", "findWindow", "initKeepalive", "signalStop", "release", "refresh",
   "read"}

(* pipe; textureMutex1 or textureMutex2; the five Event objects, hookInit  *)
(* and hookRestart among them; hookInfoView; device with deviceContext.    *)
Members == {"pipe", "mutexes", "events", "hookInfoView", "device"}

Holds(member) == member \in held

Attached == session = "attached"

Results == {"none", "ok", "false", "empty", "threw", "timedOut"}

TypeOK ==
  /\ HookTypeOK
  /\ pid \in {"none"} \cup Pids
  /\ held \subseteq Members
  /\ opened \in 0..5
  /\ overlay \in Overlays /\ swallowed \in BOOLEAN
  /\ pc \in Steps
  /\ call \in {"none", "attach", "shutdown"} \cup CaptureCalls
  /\ result \in Results
  /\ phase \in 0..Phases
  /\ polls \in 0..Polls
  /\ session \in {"none", "attached"}

Init ==
  /\ HookInit0
  /\ pid = "none"
  /\ held = {} /\ opened = 0
  /\ overlay \in Overlays /\ swallowed = FALSE
  /\ pc = "idle" /\ call = "none" /\ result = "none"
  /\ phase = 0 /\ polls = 0
  /\ session = "none"

-----------------------------------------------------------------------------
(* Control *)

Goto(step) == pc' = step /\ UNCHANGED result

Return(r) == pc' = "idle" /\ result' = r

Throw == Return("threw")

(* What the caller of a capture function sees when the capture fails. *)
Failure(c) ==
  CASE c = "captureStripInto" -> "false"
    [] c = "getPixel" -> "empty"
    [] OTHER -> "threw"

(* initEvents opens Restart, Stop, Init, Ready and Exit, in this order. *)
Opened(e) ==
  \/ e = "Restart" /\ opened >= 1
  \/ e = "Stop" /\ opened >= 2
  \/ e = "Init" /\ opened >= 3
  \/ e = "Ready" /\ opened >= 4

(* Event::signal and Event::reset through the client's own handle: on an   *)
(* Event without one they fail, and nobody looks.                          *)
Signal(e) ==
  /\ signalled' = IF Opened(e) THEN signalled \cup {e} ELSE signalled
  /\ restartBy' = IF e = "Restart" /\ Opened(e)
                    THEN restartBy \cup {"client"} ELSE restartBy

Reset(e) ==
  /\ signalled' = IF Opened(e) THEN signalled \ {e} ELSE signalled
  /\ restartBy' = IF e = "Restart" /\ Opened(e) THEN {} ELSE restartBy

(* Event::signalled: WaitForSingleObject with timeout 0, which resets the  *)
(* event when it succeeds: the events are auto-reset.                      *)
Signalled(e) == Opened(e) /\ e \in signalled

(* The hook info of the process in Context::pid can be opened. *)
HookInfoMapped == pid = "target" /\ Resident

-----------------------------------------------------------------------------
(* Capture::attach up to the handshake *)

FindWindow ==
  /\ pc = "findWindow"
  /\ \/ Throw /\ pid' \in {pid} \cup WindowOwners
     \/ Goto("initKeepalive") /\ pid' \in WindowOwners
  /\ UNCHANGED <<hookVars, contextVars, waitVars, optVars, call, session>>

(* Slip: the guard of initKeepalive is left out. *)
MayTakeKeepaliveUnguarded == TRUE

MayTakeKeepalive == keepalive = "none"

InitKeepalive ==
  /\ pc = "initKeepalive"
  /\ \/ Throw /\ UNCHANGED <<keepalive, lastInit>>
     \/ /\ MayTakeKeepalive
        /\ keepalive' = pid
        /\ lastInit' = Age(lastInit)
        /\ Goto("initPipe")
  /\ UNCHANGED <<sharedVars, textureVars, contextVars, waitVars, pid, optVars,
                 call, session>>

InitPipe ==
  /\ pc = "initPipe"
  /\ \/ Throw /\ UNCHANGED held
     \/ /\ ~Holds("pipe")
        /\ held' = held \cup {"pipe"}
        /\ Goto("attemptExistingHook")
  /\ UNCHANGED <<hookVars, opened, waitVars, pid, optVars, call, session>>

AttemptExistingHook ==
  /\ pc = "attemptExistingHook"
  /\ \/ /\ HookInfoMapped
        /\ signalled' = signalled \cup {"Restart"}
        /\ restartBy' = restartBy \cup {"client"}
        /\ Goto("initTextureMutexes")
     \/ /\ ~HookInfoMapped
        /\ Goto("injectGraphicsHook")
        /\ UNCHANGED <<signalled, restartBy>>
  /\ UNCHANGED <<hook, keepalive, hookType, hookOverlay, lastInit, textureVars,
                 contextVars, waitVars, pid, optVars, call, session>>

InjectGraphicsHook ==
  /\ pc = "injectGraphicsHook"
  /\ \/ Throw /\ UNCHANGED hook
     \/ /\ pid = "target"
        /\ hook' = IF hook = "absent" THEN "injected" ELSE hook
        /\ Goto("initTextureMutexes")
  /\ UNCHANGED <<signalled, keepalive, hookType, hookOverlay, restartBy, lastInit,
                 textureVars, contextVars, waitVars, pid, optVars, call,
                 session>>

InitTextureMutexes ==
  /\ pc = "initTextureMutexes"
  /\ \/ Throw /\ UNCHANGED held
     \/ /\ ~Holds("mutexes")
        /\ held' = held \cup {"mutexes"}
        /\ Goto("initHookInfo") \/ Throw
  /\ UNCHANGED <<hookVars, opened, waitVars, pid, optVars, call, session>>

(* Slip: the options are written without the overlay option. *)
WriteHookInfoSansOverlay == UNCHANGED hookOverlay

WriteHookInfo == hookOverlay' = overlay

InitHookInfo ==
  /\ pc = "initHookInfo"
  /\ \/ Throw /\ UNCHANGED <<hookOverlay, swallowed>>
     \/ /\ ~Holds("device") /\ sourceTexture = "none"
        /\ HookInfoMapped
        /\ WriteHookInfo
        /\ swallowed' = FALSE
        /\ Goto("initEvents")
  /\ UNCHANGED <<hook, signalled, keepalive, hookType, restartBy, lastInit,
                 textureVars, contextVars, waitVars, pid, overlay, call,
                 session>>

InitEvents ==
  /\ pc = "initEvents"
  /\ held' = held \cup {"events"}
  /\ \/ Throw /\ opened' \in 0..4
     \/ HookInfoMapped /\ opened' = 5 /\ Goto("signalInit")
  /\ UNCHANGED <<hookVars, waitVars, pid, optVars, call, session>>

-----------------------------------------------------------------------------
(* Capture::waitHookReady *)

(* A step that signals or resets event e and goes on. *)
EventStep(from, to, Op(_), e) ==
  /\ pc = from
  /\ Op(e)
  /\ Goto(to)
  /\ UNCHANGED <<hook, keepalive, hookType, hookOverlay, lastInit, textureVars,
                 contextVars, pid, optVars, call, session>>

SignalInit ==
  EventStep("signalInit", "signalRestart", Signal, "Init") /\ UNCHANGED waitVars

SignalRestart ==
  EventStep("signalRestart", "poll", Signal, "Restart") /\ UNCHANGED waitVars

(* One look at HookReady: found; *)
PollFinds ==
  /\ Signalled("Ready")
  /\ signalled' = signalled \ {"Ready"}
  /\ polls' = 0 /\ UNCHANGED phase
  /\ Goto("succeed")

(* Slip: the loop of poll() never advances. *)
PollSleepsForever ==
  /\ ~Signalled("Ready")
  /\ polls < Polls
  /\ UNCHANGED <<polls, signalled, phase>>
  /\ Goto("poll")

(* or not yet: sleep and look again; *)
PollSleeps ==
  /\ ~Signalled("Ready")
  /\ polls < Polls
  /\ polls' = polls + 1
  /\ Goto("poll")
  /\ UNCHANGED <<signalled, phase>>

(* Slip: one phase too many. *)
MorePhasesOffByOne == phase <= Phases

MorePhases == phase < Phases

(* or give up on this poll, and turn to the next recovery phase or, after  *)
(* the last one, give up on the hook.                                      *)
PollGivesUp ==
  /\ ~Signalled("Ready")
  /\ polls = Polls
  /\ Responsive => HookQuiet
  /\ polls' = 0
  /\ UNCHANGED signalled
  /\ \/ MorePhases /\ phase' = phase + 1 /\ Goto("forceStop")
     \/ ~MorePhases /\ phase' = 0 /\ Return("timedOut")

Poll ==
  /\ pc = "poll"
  /\ PollFinds \/ PollSleeps \/ PollGivesUp
  /\ UNCHANGED <<hook, keepalive, hookType, hookOverlay, restartBy, lastInit,
                 textureVars, contextVars, pid, optVars, call, session>>

(* Slip: the recovery restarts the hook without stopping it. *)
ForceStopSkipped ==
  /\ pc = "forceStop"
  /\ Goto("clearStop")
  /\ UNCHANGED <<hookVars, contextVars, waitVars, pid, optVars, call, session>>

ForceStop ==
  EventStep("forceStop", "clearStop", Signal, "Stop") /\ UNCHANGED waitVars

(* After Sleep(150), which lets a present process the stop. *)
ClearStop ==
  /\ Responsive => HookQuiet
  /\ EventStep("clearStop", "restartAgain", Reset, "Stop")
  /\ UNCHANGED waitVars

RestartAgain ==
  /\ EventStep("restartAgain", "initAgain", Signal, "Restart")
  /\ UNCHANGED waitVars

InitAgain ==
  EventStep("initAgain", "poll", Signal, "Init") /\ UNCHANGED waitVars

(* Slip: the leftover Restart is not dropped. *)
SucceedKeepingRestart ==
  /\ pc = "succeed"
  /\ Goto("openHookInfo")
  /\ phase' = 0
  /\ UNCHANGED <<hookVars, contextVars, polls, pid, optVars, call, session>>

(* succeed(): drop the leftover Restart, and waitHookReady returns true. *)
Succeed ==
  /\ EventStep("succeed", "openHookInfo", Reset, "Restart")
  /\ phase' = 0 /\ UNCHANGED polls

-----------------------------------------------------------------------------
(* The shared texture, and the end of Capture::attach *)

(* Capture::refreshSharedTexture, by outcome: "true", "false" or "threw".  *)
(* The mapping of the hook's current publication can be opened while the   *)
(* hook captures; so can the texture its handle names.                     *)
RefreshSharedTexture(outcome) ==
  \/ /\ ~(Holds("hookInfoView") /\ Holds("device"))
     /\ outcome = IF sourceTexture # "none" THEN "true" ELSE "false"
     /\ UNCHANGED textureVars
  \/ /\ Holds("hookInfoView") /\ Holds("device")
     /\ hookType # "Texture" \/ textureData # "current"
     /\ outcome = "false"
     /\ UNCHANGED textureVars
  \/ /\ Holds("hookInfoView") /\ Holds("device")
     /\ hookType = "Texture"
     /\ textureData = "current" \/ hook = "active"
     /\ textureData' = "current"
     /\ \/ outcome = "false" /\ UNCHANGED sourceTexture
        \/ /\ outcome = "true"
           /\ sourceTexture = "current" \/ hook = "active"
           /\ sourceTexture' = "current"
        \/ /\ outcome = "threw"
           /\ sourceTexture # "current"
           /\ UNCHANGED sourceTexture

(* attach returns: to its caller, or to the capture that re-attached. *)
AttachDone ==
  /\ session' = "attached"
  /\ \/ call = "attach" /\ Return("ok")
     \/ call # "attach" /\ Goto("refresh")

OpenHookInfo ==
  /\ pc = "openHookInfo"
  /\ \/ Throw /\ UNCHANGED <<held, session>>
     \/ /\ HookInfoMapped
        /\ \/ /\ hookType = "Texture"
              /\ held' = held \cup {"hookInfoView", "device"}
              /\ Goto("openTexture")
              /\ UNCHANGED session
           \/ /\ hookType = "Texture"
              /\ held' = held \cup {"hookInfoView"}
              /\ Throw
              /\ UNCHANGED session
           \/ /\ hookType # "Texture"
              /\ held' = held \cup {"hookInfoView"}
              /\ AttachDone
  /\ UNCHANGED <<hookVars, opened, waitVars, pid, optVars, call>>

(* Slip: the result of refreshSharedTexture is not looked at. *)
OpenTextureUnchecked ==
  /\ pc = "openTexture"
  /\ \/ RefreshSharedTexture("true") \/ RefreshSharedTexture("false")
     \/ RefreshSharedTexture("threw")
  /\ AttachDone
  /\ UNCHANGED <<sharedVars, keepalive, lastInit, contextVars, waitVars, pid,
                 optVars, call>>

OpenTexture ==
  /\ pc = "openTexture"
  /\ \/ RefreshSharedTexture("true") /\ AttachDone
     \/ /\ RefreshSharedTexture("false") \/ RefreshSharedTexture("threw")
        /\ Throw
        /\ UNCHANGED session
  /\ UNCHANGED <<sharedVars, keepalive, lastInit, contextVars, waitVars, pid,
                 optVars, call>>

-----------------------------------------------------------------------------
(* Capture::shutdown *)

SignalStop ==
  /\ EventStep("signalStop", "release", Signal, "Stop")
  /\ UNCHANGED waitVars

(* Every handle of the session is closed. *)
HandlesGone ==
  /\ keepalive' = "none"
  /\ held' = {} /\ opened' = 0
  /\ textureData' = "none" /\ sourceTexture' = "none"

(* Slips: a handle is forgotten, so that it outlives the session. *)
ReleaseSansMutexes ==
  /\ keepalive' = "none"
  /\ held' = held \cap {"mutexes"} /\ opened' = 0
  /\ textureData' = "none" /\ sourceTexture' = "none"

ReleaseSansView ==
  /\ keepalive' = "none"
  /\ held' = {} /\ opened' = 0
  /\ sourceTexture' = "none"
  /\ UNCHANGED textureData

ReleaseSansKeepalive ==
  /\ held' = {} /\ opened' = 0
  /\ textureData' = "none" /\ sourceTexture' = "none"
  /\ UNCHANGED keepalive

(* shutdown() closes them one by one; pid and overlay stay. *)
ReleaseContext == HandlesGone

Release ==
  /\ pc = "release"
  /\ ReleaseContext
  /\ \/ call = "shutdown" /\ Return("ok")
     \/ call # "shutdown" /\ Goto("findWindow")
  /\ UNCHANGED <<sharedVars, lastInit, waitVars, pid, optVars, call, session>>

-----------------------------------------------------------------------------
(* The capture functions, after the Restart check *)

Refresh ==
  /\ pc = "refresh"
  /\ \/ RefreshSharedTexture("true") /\ Goto("read")
     \/ RefreshSharedTexture("false") /\ Return(Failure(call))
     \/ RefreshSharedTexture("threw") /\ Throw
  /\ UNCHANGED <<sharedVars, keepalive, lastInit, contextVars, waitVars, pid,
                 optVars, call, session>>

(* Copy the pixels out of the source texture; module StagingCache (see     *)
(* README) has the detail.                                                 *)
Read ==
  /\ pc = "read"
  /\ \/ sourceTexture # "none" /\ Return("ok")
     \/ Return(Failure(call))
  /\ UNCHANGED <<hookVars, contextVars, waitVars, pid, optVars, call, session>>

-----------------------------------------------------------------------------
(* The calls *)

Begin(c) == pc = "idle" /\ call' = c

CallAttach ==
  /\ Begin("attach")
  /\ pc' = "findWindow" /\ result' = "none"
  /\ UNCHANGED <<hookVars, contextVars, waitVars, pid, optVars, session>>

CallShutdown ==
  /\ Begin("shutdown")
  /\ pc' = "signalStop" /\ result' = "none"
  /\ session' = "none"
  /\ UNCHANGED <<hookVars, contextVars, waitVars, pid, optVars>>

(* A capture function consumes a pending Restart and re-attaches.  Without *)
(* a hookRestart, captureFrame dereferences null (see CaptureCrashes) and  *)
(* the strip functions go on.                                              *)
CallCapture(c) ==
  /\ Begin(c)
  /\ c = "captureFrame" => Holds("events")
  /\ \/ /\ Signalled("Restart")
        /\ signalled' = signalled \ {"Restart"}
        /\ restartBy' = {}
        /\ pc' = "signalStop" /\ result' = "none"
        /\ session' = "none"
     \/ /\ ~Signalled("Restart")
        /\ pc' = "refresh" /\ result' = "none"
        /\ UNCHANGED <<signalled, restartBy, session>>
     \/ /\ c \in StripCalls      \* empty or negative rectangle
        /\ Return(Failure(c))
        /\ UNCHANGED <<signalled, restartBy, session>>
  /\ UNCHANGED <<hook, keepalive, hookType, hookOverlay, lastInit, textureVars,
                 contextVars, waitVars, pid, optVars>>

(* The option is kept for the next attach.  It is pushed to the hook info  *)
(* of the process in Context::pid too, if that can be opened and mapped,   *)
(* which may fail with the hook resident; what is thrown is swallowed.     *)
SetCaptureOverlays(enabled) ==
  /\ pc = "idle"
  /\ overlay' = enabled
  /\ \/ /\ HookInfoMapped
        /\ hookOverlay' = enabled
        /\ Signal("Init")
        /\ swallowed' = FALSE
     \/ /\ swallowed' = TRUE
        /\ UNCHANGED <<hookOverlay, signalled, restartBy>>
  /\ UNCHANGED <<hook, keepalive, hookType, lastInit, textureVars, contextVars,
                 waitVars, pid, pc, call, result, session>>

(* The client process ends without shutdown, and a new one starts with a   *)
(* new Capture: the system drops the handles, nobody signals Stop.         *)
ClientDies ==
  /\ HandlesGone
  /\ pid' = "none"
  /\ overlay' \in Overlays /\ swallowed' = FALSE
  /\ pc' = "idle" /\ call' = "none" /\ result' = "none"
  /\ phase' = 0 /\ polls' = 0
  /\ session' = "none"
  /\ UNCHANGED <<sharedVars, lastInit>>

(* captureFrame before attach, or after a re-attach that failed early. *)
CaptureCrashes == pc = "idle" /\ ~Holds("events") /\ ClientDies

-----------------------------------------------------------------------------
(* A call in progress always has a next step, and takes it: its waits are  *)
(* bounded, and the helper processes are taken to end.                     *)
ClientStep ==
  \/ FindWindow \/ InitKeepalive \/ InitPipe \/ AttemptExistingHook
  \/ InjectGraphicsHook \/ InitTextureMutexes \/ InitHookInfo \/ InitEvents
  \/ SignalInit \/ SignalRestart \/ Poll
  \/ ForceStop \/ ClearStop \/ RestartAgain \/ InitAgain \/ Succeed
  \/ OpenHookInfo \/ OpenTexture
  \/ SignalStop \/ Release \/ Refresh \/ Read

Call ==
  \/ CallAttach \/ CallShutdown
  \/ \E c \in CaptureCalls : CallCapture(c)
  \/ \E enabled \in Overlays : SetCaptureOverlays(enabled)

ExternalHook ==
  HookStep /\ UNCHANGED <<contextVars, waitVars, pid, optVars, pc, call, result,
                          session>>

Next == ClientStep \/ Call \/ ClientDies \/ CaptureCrashes \/ ExternalHook

Spec == Init /\ [][Next]_vars

HookFairness == WF_vars(HookReact /\ ExternalHook)
FairSpec == Spec /\ WF_vars(ClientStep) /\ HookFairness

-----------------------------------------------------------------------------
(* Properties *)

(* Whatever the session holds, it holds the keepalive mutex too: the guard *)
(* of initKeepalive is enough to make a second attach() throw before it    *)
(* touches a handle of a live or half-built session.                       *)
KeepaliveGuardsSession ==
  \/ keepalive # "none"
  \/ held = {} /\ opened = 0 /\ textureData = "none" /\ sourceTexture = "none"

(* No init function finds the handle it is about to store already there,   *)
(* after any failed attach, shutdown or re-attach: none is leaked by being *)
(* overwritten, and the later "already exists" guards never fire.          *)
NothingOverwritten ==
  /\ pc = "initPipe" => ~Holds("pipe")
  /\ pc = "initTextureMutexes" => ~Holds("mutexes")
  /\ pc = "initHookInfo" => ~Holds("device") /\ sourceTexture = "none"
  /\ pc = "initEvents" => ~Holds("events")
  /\ pc = "openHookInfo" => ~Holds("hookInfoView") /\ textureData = "none"

(* An attach that completed, in its own call or inside a capture call,     *)
(* left a session with every part: captureFrame then finds its events, and *)
(* a texture session its device and texture.                               *)
AttachedSessionIsWhole ==
  Attached =>
    /\ keepalive = "target"
    /\ Members \ {"device"} \subseteq held /\ opened = 5
    /\ Holds("device") => sourceTexture # "none"

(* waitHookReady drops the Restart it may have left: in an attached        *)
(* session no pending Restart is one the client signalled (obsc.cpp:441).  *)
NoOwnRestartLeft == Attached => "client" \notin restartBy

(* The hook of an attached session has the overlay option last set, in     *)
(* whatever order options, attaches, rejected second attaches that change  *)
(* the pid and client deaths came, unless the last setCaptureOverlays      *)
(* since the attach failed: it does so in silence, and then the option     *)
(* waits for the next attach (obsc.cpp:94-104, obsc.h:48).                 *)
OverlayInEffect == Attached /\ ~swallowed => hookOverlay = overlay

(* A hook that keeps up with the waits is always recovered, stuck active   *)
(* after a client that died or idle, resized or not (obsc.cpp:452): attach *)
(* never gives up on it.                                                   *)
NeverTimesOut == result # "timedOut"

(* Every call returns, however slow or dead the hook. *)
CallReturns == (pc # "idle") ~> (pc = "idle")

(* A shutdown idles the hook for good (obsc.cpp:162): one that restarts on *)
(* the Restart its own stop announced, before the keepalive is dropped, is *)
(* stopped again by the missing keepalive.                                 *)
ShutdownIdlesHook ==
  (call = "shutdown" /\ pc = "idle" /\ hook = "active")
    ~> (hook # "active" \/ pc # "idle")

(* obsc.cpp:441: "drop leftover Restart so captureStrip doesn't spuriously *)
(* re-attach": a Restart pending in an attached session, which makes the   *)
(* next capture re-attach, is due to the hook's own re-initialisation.     *)
NoSpuriousReattach ==
  Attached /\ "Restart" \in signalled => "resize" \in restartBy

(* obsc.cpp:441: the Restart dropped after the handshake is a leftover of  *)
(* the client, not the hook announcing that it freed its capture.          *)
DropsOnlyLeftover == pc = "succeed" => "resize" \notin restartBy

(* obsc.cpp:448: the handshake succeeds because the hook re-initialised    *)
(* for this attach, not on a HookReady left from before.                   *)
ReadyMeansReinit == pc = "succeed" => lastInit = "current"

=============================================================================
