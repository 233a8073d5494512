-------------------------- MODULE RefinementProofs --------------------------
(***************************************************************************)
(* Capture implements the safety part of CaptureSession, and               *)
(* TextureContract, for every value of the constants.  (The fairness of    *)
(* CaptureSession is checked by TLC: run session.)                         *)
(***************************************************************************)
EXTENDS CaptureProofs, CaptureRefinement

(* A client step leaves the hook's capturing alone, so it maps to a move   *)
(* of the session or to nothing.                                           *)
LEMMA ClientKeepsServing ==
  TypeOK /\ (ClientStep \/ Call \/ ClientDies) =>
    ((hook = "active")' <=> (hook = "active"))
<1> SUFFICES ASSUME TypeOK, ClientStep \/ Call \/ ClientDies
             PROVE  (hook = "active")' <=> (hook = "active")
  OBVIOUS
<1>1. hook' = hook \/ InjectGraphicsHook
  BY DEF ClientStep, Call, ClientDies, sharedVars, hookVars, EventStep,
     FindWindow,
         InitKeepalive, InitPipe, AttemptExistingHook, InitTextureMutexes,
         InitHookInfo, InitEvents, SignalInit, SignalRestart, Poll, ForceStop,
         ClearStop, RestartAgain, InitAgain, Succeed, OpenHookInfo, OpenTexture,
         SignalStop, Release, Refresh, Read, CallAttach, CallShutdown,
         CallCapture, SetCaptureOverlays
<1>2. CASE InjectGraphicsHook
  BY <1>2 DEF InjectGraphicsHook
<1> QED
  BY <1>1, <1>2

LEMMA ClientRefines ==
  ASSUME IInv, IInv', ClientStep
  PROVE  [Session!SessionNext]_(Session!sessionVars)
<1> SUFFICES \/ UNCHANGED sessionState
             \/ sessionState = "detached" /\ sessionState' = "attaching"
             \/ sessionState = "attaching" /\ sessionState' \in {"attached", "partial"}
             \/ sessionState # "detached" /\ sessionState' = "detached"
  BY ClientKeepsServing
     DEF IInv, Session!SessionNext, Session!sessionVars, Session!Acquire,
         Session!Complete, Session!Abandon, Session!Drop, Session!Move
<1> USE DEF IInv, Shape, Attaching, Holding, sessionState, Attached, AttachSteps,
            Goto, Return, Throw, contextVars, waitVars, sharedVars, textureVars,
            hookVars
<1>1. CASE InitKeepalive
  BY <1>1 DEF InitKeepalive, MayTakeKeepalive
<1>2. CASE Release
  BY <1>2 DEF Release, ReleaseContext, HandlesGone
<1>3. CASE Poll
  BY <1>3 DEF Poll, PollFinds, PollSleeps, PollGivesUp
<1>4. CASE FindWindow \/ SignalStop
  BY <1>4 DEF FindWindow, SignalStop, EventStep
<1>5. CASE InitPipe \/ AttemptExistingHook \/ InjectGraphicsHook
           \/ InitTextureMutexes \/ InitHookInfo \/ InitEvents
  BY <1>5 DEF InitPipe, AttemptExistingHook, InjectGraphicsHook,
              InitTextureMutexes, InitHookInfo, InitEvents
<1>6. CASE SignalInit \/ SignalRestart \/ ForceStop \/ ClearStop
           \/ RestartAgain \/ InitAgain \/ Succeed
  BY <1>6 DEF SignalInit, SignalRestart, ForceStop, ClearStop, RestartAgain,
              InitAgain, Succeed, EventStep
<1>7. CASE OpenHookInfo \/ OpenTexture
  BY <1>7 DEF OpenHookInfo, OpenTexture, AttachDone
<1>8. CASE Refresh \/ Read
  BY <1>8 DEF Refresh, Read
<1> QED
  BY <1>1, <1>2, <1>3, <1>4, <1>5, <1>6, <1>7, <1>8 DEF ClientStep

LEMMA CallRefines ==
  ASSUME IInv, IInv', Call
  PROVE  [Session!SessionNext]_(Session!sessionVars)
<1> SUFFICES \/ UNCHANGED sessionState
             \/ sessionState = "attached" /\ sessionState' = "partial"
  BY ClientKeepsServing
     DEF IInv, Session!SessionNext, Session!sessionVars, Session!Close,
         Session!Move
<1> USE DEF sessionState, Attached, AttachSteps, Begin, Return, hookVars
<1>1. CASE CallAttach \/ CallShutdown
  BY <1>1 DEF CallAttach, CallShutdown
<1>2. ASSUME NEW c \in CaptureCalls, CallCapture(c)
      PROVE  \/ UNCHANGED sessionState
             \/ sessionState = "attached" /\ sessionState' = "partial"
  BY <1>2 DEF CallCapture
<1>3. ASSUME NEW enabled \in Overlays, SetCaptureOverlays(enabled)
      PROVE  UNCHANGED sessionState
  BY <1>3 DEF SetCaptureOverlays
<1> QED
  BY <1>1, <1>2, <1>3 DEF Call

LEMMA DeathRefines ==
  ASSUME IInv, ClientDies
  PROVE  [Session!SessionNext]_(Session!sessionVars)
<1>1. sessionState' = "detached"
  BY DEF ClientDies, HandlesGone, sessionState
<1> QED
  BY <1>1, ClientKeepsServing
     DEF IInv, Session!SessionNext, Session!sessionVars, Session!Drop

LEMMA HookRefines ==
  ASSUME IInv, ExternalHook
  PROVE  [Session!SessionNext]_(Session!sessionVars)
<1>1. UNCHANGED sessionState
  BY DEF ExternalHook, HookStep, HookReact, HookLoad, HookStart, HookStop,
         HookInit, HookIgnore, HookResize, sessionState, Attached
<1>2. CASE (hook = "active") = (hook = "active")'
  BY <1>1, <1>2 DEF Session!sessionVars
<1>3. CASE hook = "active" /\ hook' # "active"
  BY <1>1, <1>3 DEF Session!SessionNext, Session!Idle
<1>4. CASE hook # "active" /\ hook' = "active"
  <2>1. keepalive = "target"
    BY <1>4 DEF ExternalHook, HookStep, HookReact, HookLoad, HookStart,
                HookStop,
                HookInit, HookIgnore, HookResize, Alive
  <2>2. sessionState # "detached"
    BY <2>1 DEF sessionState
  <2> QED
    BY <1>1, <1>4, <2>2 DEF Session!SessionNext, Session!Serve
<1> QED
  BY <1>2, <1>3, <1>4

(* A session begins from nothing, ends whole, and only sessions are served *)
(* by the hook: obsc.cpp:106-192 keeps the contract of CaptureSession.     *)
THEOREM CaptureImplementsSession == Spec => Session!SessionSpec
<1>1. Init => Session!SessionInit
  BY DEF Init, HookInit0, Session!SessionInit, sessionState
<1>2. IInv /\ IInv' /\ [Next]_vars => [Session!SessionNext]_(Session!sessionVars)
  <2> SUFFICES ASSUME IInv, IInv', [Next]_vars
               PROVE  [Session!SessionNext]_(Session!sessionVars)
    OBVIOUS
  <2>1. CASE UNCHANGED vars
    BY <2>1 DEF vars, hookVars, sessionState, Attached, Session!sessionVars
  <2> QED
    BY <2>1, ClientRefines, CallRefines, DeathRefines, HookRefines
       DEF Next, CaptureCrashes
<1> QED
  BY <1>1, <1>2, Invariance, PTL DEF Spec, Session!SessionSpec

-----------------------------------------------------------------------------
(* The refinement of TextureContract *)

(* A texture was opened with the device, from the mapping. *)
TextureOfDevice ==
  sourceTexture # "none" => Holds("hookInfoView") /\ Holds("device")

(* One step of refreshSharedTexture that returns true has the texture of   *)
(* the hook's current publication; any other leaves the texture alone.     *)
LEMMA RefreshOutcome ==
  ASSUME TextureOfDevice, NEW outcome, RefreshSharedTexture(outcome)
  PROVE  /\ outcome = "true" => sourceTexture' = "current" /\ Holds("device")
         /\ outcome # "true" => UNCHANGED sourceTexture
BY DEF RefreshSharedTexture, TextureOfDevice, textureVars

LEMMA TextureOfDeviceStays ==
  ASSUME TypeOK, TextureOfDevice, [Next]_vars PROVE TextureOfDevice'
<1> USE DEF TextureOfDevice, Holds, textureVars, contextVars, hookVars
<1>1. CASE Call
  BY <1>1 DEF Call, CallAttach, CallShutdown, CallCapture, SetCaptureOverlays
<1>2. CASE ClientDies \/ CaptureCrashes \/ Release
  BY <1>2 DEF ClientDies, CaptureCrashes, Release, ReleaseContext, HandlesGone
<1>3. CASE ExternalHook
  <2>1. sourceTexture' \in {sourceTexture, Age(sourceTexture)}
    BY <1>3 DEF ExternalHook, HookStep, HookReact, HookLoad, HookStart,
                HookStop, HookInit, HookIgnore, HookResize
  <2> QED BY <1>3, <2>1 DEF ExternalHook, Age
<1>4. CASE OpenTexture \/ Refresh
  BY <1>4, RefreshOutcome
     DEF OpenTexture, Refresh, RefreshSharedTexture
<1>5. CASE InitPipe \/ InitTextureMutexes \/ InitEvents \/ OpenHookInfo
  BY <1>5 DEF InitPipe, InitTextureMutexes, InitEvents, OpenHookInfo
<1>6. CASE \/ FindWindow \/ InitKeepalive \/ AttemptExistingHook
           \/ InjectGraphicsHook \/ InitHookInfo \/ Poll \/ Read
  BY <1>6 DEF FindWindow, InitKeepalive, AttemptExistingHook,
              InjectGraphicsHook, InitHookInfo, Poll, Read
<1>7. CASE \/ SignalInit \/ SignalRestart \/ ForceStop \/ ClearStop
           \/ RestartAgain \/ InitAgain \/ Succeed \/ SignalStop
  BY <1>7 DEF SignalInit, SignalRestart, ForceStop, ClearStop, RestartAgain,
              InitAgain, Succeed, SignalStop, EventStep
<1>8. CASE UNCHANGED vars
  BY <1>8 DEF vars
<1> QED
  BY <1>1, <1>2, <1>3, <1>4, <1>5, <1>6, <1>7, <1>8 DEF Next, ClientStep

(* The steps of attach and shutdown that no refresh is part of. *)
LEMMA QuietStepsRefine ==
  ASSUME sourceTexture' = sourceTexture, ~refreshing, ~refreshing',
         refreshed' => refreshed
  PROVE  [Texture!ContractNext]_(Texture!contractVars)
<1>1. UNCHANGED refreshing
  BY DEF refreshing
<1>2. CASE refreshed'
  BY <1>1, <1>2 DEF Texture!contractVars
<1>3. CASE ~refreshed'
  BY <1>1, <1>3 DEF Texture!ContractNext, Texture!Forget
<1> QED BY <1>2, <1>3

LEMMA AttachStepsRefine ==
  ASSUME IInv,
         \/ FindWindow \/ InitKeepalive \/ InitPipe \/ AttemptExistingHook
         \/ InjectGraphicsHook \/ InitTextureMutexes \/ InitHookInfo
         \/ InitEvents \/ Poll
  PROVE  [Texture!ContractNext]_(Texture!contractVars)
<1> USE DEF refreshing, refreshed, Goto, Return, Throw, textureVars, hookVars
<1>1. /\ sourceTexture' = sourceTexture
      /\ pc \notin {"openTexture", "refresh", "read", "idle"}
      /\ pc' \notin {"openTexture", "refresh", "read"}
      /\ pc' = "idle" => result' # "ok"
  BY DEF FindWindow, InitKeepalive, InitPipe, AttemptExistingHook,
         InjectGraphicsHook, InitTextureMutexes, InitHookInfo, InitEvents,
         Poll, PollFinds, PollSleeps, PollGivesUp
<1> QED BY <1>1, QuietStepsRefine

LEMMA EventStepsRefine ==
  ASSUME IInv,
         \/ SignalInit \/ SignalRestart \/ ForceStop \/ ClearStop
         \/ RestartAgain \/ InitAgain \/ Succeed \/ SignalStop
  PROVE  [Texture!ContractNext]_(Texture!contractVars)
<1>1. /\ sourceTexture' = sourceTexture
      /\ pc \notin {"openTexture", "refresh", "read", "idle"}
      /\ pc' \notin {"openTexture", "refresh", "read", "idle"}
  BY DEF SignalInit, SignalRestart, ForceStop, ClearStop, RestartAgain,
         InitAgain, Succeed, SignalStop, EventStep, Goto, textureVars
<1> QED BY <1>1, QuietStepsRefine DEF refreshing, refreshed

LEMMA RefreshesRefine ==
  ASSUME IInv, TextureOfDevice, OpenHookInfo \/ OpenTexture \/ Refresh \/ Read
  PROVE  [Texture!ContractNext]_(Texture!contractVars)
<1> USE DEF refreshing, refreshed, Goto, Return, Throw, AttachDone,
            Texture!ContractNext, Texture!contractVars
<1>1. CASE OpenHookInfo
  <2>1. UNCHANGED sourceTexture /\ UNCHANGED call /\ pc = "openHookInfo"
    BY <1>1 DEF OpenHookInfo, hookVars
  <2>2. CASE pc' \in {"openTexture", "refresh"}
    BY <2>1, <2>2 DEF Texture!Begin
  <2>3. CASE pc' = "idle" /\ (result' # "ok" \/ ~Holds("device")')
    BY <2>1, <2>3
  <2>4. ~Holds("device")
    BY <2>1 DEF IInv, Shape, Unbuilt, AttachSteps
  <2> QED BY <1>1, <2>2, <2>3, <2>4 DEF OpenHookInfo, Holds
<1>2. CASE OpenTexture
  <2>1. pc = "openTexture" /\ UNCHANGED <<call, held>>
    BY <1>2 DEF OpenTexture, contextVars
  <2>2. CASE RefreshSharedTexture("true") /\ AttachDone
    <3>1. sourceTexture' = "current" /\ Holds("device")
      BY <2>2, RefreshOutcome
    <3>2. CASE call = "attach"
      BY <2>1, <2>2, <3>1, <3>2 DEF Texture!Succeed, Holds
    <3>3. CASE call # "attach"
      BY <2>1, <2>2, <3>1, <3>3 DEF Texture!TakeAndRefresh
    <3> QED BY <3>2, <3>3
  <2>3. CASE UNCHANGED sourceTexture /\ Throw
    BY <2>1, <2>3 DEF Texture!Fail
  <2> QED BY <1>2, <2>2, <2>3, RefreshOutcome DEF OpenTexture
<1>3. CASE Refresh
  <2>1. pc = "refresh" /\ UNCHANGED call
    BY <1>3 DEF Refresh
  <2>2. CASE RefreshSharedTexture("true") /\ Goto("read")
    <3>1. sourceTexture' = "current"
      BY <2>2, RefreshOutcome
    <3> QED BY <2>1, <2>2, <3>1 DEF Texture!Succeed
  <2>3. CASE UNCHANGED sourceTexture /\ pc' = "idle" /\ result' # "ok"
    BY <2>1, <2>3 DEF Texture!Fail
  <2> QED BY <1>3, <2>2, <2>3, RefreshOutcome DEF Refresh, Failure
<1>4. CASE Read
  <2>1. sourceTexture' = sourceTexture /\ pc = "read" /\ pc' = "idle"
    BY <1>4 DEF Read, hookVars
  <2> QED BY <2>1, QuietStepsRefine
<1> QED BY <1>1, <1>2, <1>3, <1>4

LEMMA CallsRefineTexture ==
  ASSUME IInv, Call
  PROVE  [Texture!ContractNext]_(Texture!contractVars)
<1>1. sourceTexture' = sourceTexture /\ pc = "idle" /\ UNCHANGED held
  BY DEF Call, CallAttach, CallShutdown, CallCapture, SetCaptureOverlays, Begin,
         textureVars, hookVars, contextVars
<1>2. CASE pc' = "refresh"
  BY <1>1, <1>2
     DEF refreshing, refreshed, Texture!ContractNext, Texture!Begin
<1>3. CASE pc' # "refresh" /\ UNCHANGED <<pc, call, result>>
  BY <1>1, <1>3, QuietStepsRefine DEF refreshing, refreshed, Holds
<1>4. CASE /\ pc' \in {"findWindow", "signalStop", "idle"}
           /\ pc' = "idle" => call' # "attach"
  BY <1>1, <1>4, QuietStepsRefine DEF refreshing, refreshed
<1>5. \A c \in CaptureCalls : c # "attach"
  BY DEF CaptureCalls, StripCalls
<1> QED
  BY <1>2, <1>3, <1>4, <1>5
     DEF Call, CallAttach, CallShutdown, CallCapture, SetCaptureOverlays, Begin,
         Return

(* The end of a session lets go of everything. *)
LEMMA EndRefines ==
  ASSUME IInv, Release \/ ClientDies \/ CaptureCrashes
  PROVE  [Texture!ContractNext]_(Texture!contractVars)
<1>1. sourceTexture' = "none"
  BY DEF Release, ReleaseContext, HandlesGone, ClientDies, CaptureCrashes
<1>2. ~refreshing' /\ ~refreshed'
  <2>1. CASE Release
    BY <2>1 DEF Release, ReleaseContext, HandlesGone, Holds, Goto, Return,
                refreshing, refreshed
  <2>2. CASE ClientDies \/ CaptureCrashes
    BY <2>2 DEF ClientDies, CaptureCrashes, refreshing, refreshed
  <2> QED BY <2>1, <2>2
<1> QED BY <1>1, <1>2 DEF Texture!ContractNext, Texture!Drop

LEMMA HookRefinesTexture ==
  ASSUME IInv, ExternalHook
  PROVE  [Texture!ContractNext]_(Texture!contractVars)
<1>1. UNCHANGED <<refreshing, refreshed>>
  BY DEF ExternalHook, contextVars, refreshing, refreshed, Holds
<1>2. sourceTexture' \in {sourceTexture, Age(sourceTexture)}
  BY DEF ExternalHook, HookStep, HookReact, HookLoad, HookStart, HookStop,
         HookInit, HookIgnore, HookResize
<1>3. CASE sourceTexture' = sourceTexture
  BY <1>1, <1>3 DEF Texture!contractVars
<1>4. CASE sourceTexture' = Age(sourceTexture)
  BY <1>1, <1>4 DEF Age, Texture!ContractNext, Texture!Supersede
<1> QED BY <1>2, <1>3, <1>4

(* The session keeps TextureContract, whatever the order of its calls and  *)
(* failures: what a capture reads was refreshed to the hook's current      *)
(* capture in this very call, and a texture outlives no session            *)
(* (obsc.cpp:153, 188, 203, 231, 485-524).                                 *)
THEOREM CaptureKeepsTextureContract == Spec => ImplementsTexture
<1>1. Init => Texture!ContractInit /\ TextureOfDevice
  BY DEF Init, HookInit0, Texture!ContractInit, TextureOfDevice, refreshing,
         refreshed
<1>2. IInv /\ TextureOfDevice /\ [Next]_vars => TextureOfDevice'
  BY TextureOfDeviceStays DEF IInv
<1>3. IInv /\ TextureOfDevice /\ [Next]_vars
        => [Texture!ContractNext]_(Texture!contractVars)
  <2> SUFFICES ASSUME IInv, TextureOfDevice, [Next]_vars
               PROVE  [Texture!ContractNext]_(Texture!contractVars)
    OBVIOUS
  <2>1. CASE UNCHANGED vars
    BY <2>1 DEF vars, hookVars, contextVars, refreshing, refreshed, Holds,
                Texture!contractVars
  <2> QED
    BY <2>1, AttachStepsRefine, EventStepsRefine, RefreshesRefine,
       CallsRefineTexture, EndRefines, HookRefinesTexture DEF Next, ClientStep
<1> QED
  BY <1>1, <1>2, <1>3, Invariance, PTL DEF Spec, ImplementsTexture,
     Texture!ContractSpec

=============================================================================
