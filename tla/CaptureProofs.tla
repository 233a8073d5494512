--------------------------- MODULE CaptureProofs ---------------------------
(***************************************************************************)
(* Proofs about Capture, for every value of its constants: any number of   *)
(* recovery phases and polls, any capture types, faults and windows.       *)
(*                                                                         *)
(* What a session holds depends on how far attach() came.  The inductive   *)
(* invariant says so step by step: what is already there (Built) and what  *)
(* is not there yet (Unbuilt).                                             *)
(***************************************************************************)
EXTENDS Capture, TLAPS

BeforePipe == {"initPipe"}

BeforeMutexes ==
  BeforePipe \cup
  {"attemptExistingHook", "injectGraphicsHook", "initTextureMutexes"}

BeforeHookInfo == BeforeMutexes \cup {"initHookInfo"}

BeforeEvents == BeforeHookInfo \cup {"initEvents"}

AfterReady == {"openHookInfo", "openTexture"}

Holding == keepalive # "none"

(* An attach at work holds the keepalive mutex of the process it found,    *)
(* and is not done.                                                        *)
Attaching ==
  /\ pc = "initKeepalive" => pid \in Pids
  /\ pc \in AttachSteps => Holding /\ keepalive = pid
  /\ pc \in AttachSteps \cup {"signalStop", "release"} => ~Attached
  /\ Attached => Holding

(* What the attach at work has not made yet. *)
Unbuilt ==
  /\ pc \in BeforePipe => ~Holds("pipe")
  /\ pc \in BeforeMutexes => ~Holds("mutexes")
  /\ pc \in BeforeEvents => ~Holds("events") /\ opened = 0
  /\ pc \in AttachSteps \ {"openTexture"} =>
       /\ ~Holds("hookInfoView") /\ ~Holds("device")
       /\ textureData = "none" /\ sourceTexture = "none"

(* What it has made already. *)
Built ==
  /\ pc \in AttachSteps \ BeforePipe => Holds("pipe")
  /\ pc \in AttachSteps \ BeforeMutexes => Holds("mutexes")
  /\ pc \in AttachSteps \ BeforeHookInfo => keepalive = "target"
  /\ pc \in AttachSteps \ BeforeEvents => Holds("events") /\ opened = 5
  /\ pc = "openTexture" => Holds("hookInfoView")

(* Past the handshake the client's own Restart is gone. *)
RestartDropped == pc \in AfterReady => "client" \notin restartBy

Shape ==
  /\ KeepaliveGuardsSession
  /\ Attaching
  /\ Unbuilt
  /\ Built
  /\ RestartDropped
  /\ AttachedSessionIsWhole
  /\ NoOwnRestartLeft

IInv == TypeOK /\ Shape

-----------------------------------------------------------------------------
(* Type correctness, in one lemma per party. *)
(* The names the actions use are among those the type invariant lists. *)
LEMMA EventNames ==
  /\ "Restart" \in Events /\ "Stop" \in Events
  /\ "Init" \in Events /\ "Ready" \in Events
BY DEF Events

LEMMA CauseNames == "client" \in Causes /\ "stop" \in Causes /\ "resize" \in Causes
BY DEF Causes

LEMMA MemberNames ==
  /\ "pipe" \in Members /\ "mutexes" \in Members /\ "events" \in Members
  /\ "hookInfoView" \in Members /\ "device" \in Members
BY DEF Members

LEMMA PidNames == "target" \in Pids /\ "none" \notin Pids
BY DEF Pids

LEMMA ViewNames == "none" \in Views /\ "current" \in Views /\ "stale" \in Views
BY DEF Views

LEMMA ClientType == TypeOK /\ ClientStep => TypeOK'
<1> SUFFICES ASSUME TypeOK, ClientStep PROVE TypeOK'
  OBVIOUS
<1> USE CaptureAssumption, EventNames, CauseNames, MemberNames, ViewNames
    DEF TypeOK, HookTypeOK, Goto, Return, Throw, Steps, AttachSteps, Results,
        contextVars, waitVars, optVars, sharedVars, textureVars, hookVars, Age
<1>1. CASE FindWindow
  BY <1>1 DEF FindWindow
<1>2. CASE InitKeepalive
  BY <1>2 DEF InitKeepalive, MayTakeKeepalive
<1>3. CASE InitPipe
  BY <1>3 DEF InitPipe
<1>4. CASE AttemptExistingHook
  BY <1>4 DEF AttemptExistingHook
<1>5. CASE InjectGraphicsHook
  BY <1>5 DEF InjectGraphicsHook
<1>6. CASE InitTextureMutexes
  BY <1>6 DEF InitTextureMutexes
<1>7. CASE InitHookInfo
  BY <1>7 DEF InitHookInfo, WriteHookInfo
<1>8. CASE InitEvents
  BY <1>8 DEF InitEvents
<1>9. CASE SignalInit
  BY <1>9 DEF SignalInit, EventStep, Signal
<1>10. CASE SignalRestart
  BY <1>10 DEF SignalRestart, EventStep, Signal
<1>11. CASE Poll
  <2>1. UNCHANGED <<hook, keepalive, hookType, hookOverlay, restartBy, lastInit,
                    textureVars, contextVars, pid, optVars, call, session>>
    BY <1>11 DEF Poll, PollFinds, PollSleeps, PollGivesUp, MorePhases
  <2>2. /\ signalled' \subseteq Events
        /\ pc' \in Steps
        /\ result' \in Results
    BY <1>11 DEF Poll, PollFinds, PollSleeps, PollGivesUp, MorePhases
  <2>3. phase' \in 0..Phases /\ polls' \in 0..Polls
    BY <1>11 DEF Poll, PollFinds, PollSleeps, PollGivesUp, MorePhases
  <2> QED
    BY <2>1, <2>2, <2>3
<1>12. CASE ForceStop
  BY <1>12 DEF ForceStop, EventStep, Signal
<1>13. CASE ClearStop
  BY <1>13 DEF ClearStop, EventStep, Reset
<1>14. CASE RestartAgain
  BY <1>14 DEF RestartAgain, EventStep, Signal
<1>15. CASE InitAgain
  BY <1>15 DEF InitAgain, EventStep, Signal
<1>16. CASE Succeed
  BY <1>16 DEF Succeed, EventStep, Reset
<1>17. CASE OpenHookInfo
  BY <1>17 DEF OpenHookInfo, AttachDone
<1>18. CASE OpenTexture
  BY <1>18 DEF OpenTexture, AttachDone, RefreshSharedTexture
<1>19. CASE SignalStop
  BY <1>19 DEF SignalStop, EventStep, Signal
<1>20. CASE Release
  BY <1>20 DEF Release, ReleaseContext, HandlesGone
<1>21. CASE Refresh
  BY <1>21 DEF Refresh, RefreshSharedTexture, Failure
<1>22. CASE Read
  BY <1>22 DEF Read, Failure
<1> QED
  BY <1>1, <1>2, <1>3, <1>4, <1>5, <1>6, <1>7, <1>8, <1>9, <1>10, <1>11,
     <1>12, <1>13, <1>14, <1>15, <1>16, <1>17, <1>18, <1>19, <1>20, <1>21,
     <1>22
     DEF ClientStep

LEMMA HookType == TypeOK /\ HookStep => HookTypeOK'
<1> SUFFICES ASSUME TypeOK, HookStep PROVE HookTypeOK'
  OBVIOUS
<1> USE EventNames, CauseNames, ViewNames DEF TypeOK, HookTypeOK
<1>1. CASE HookLoad
  BY <1>1 DEF HookLoad, Overlays
<1>2. CASE HookStart
  BY <1>2 DEF HookStart
<1>3. CASE HookStop
  BY <1>3 DEF HookStop
<1>4. CASE HookInit
  BY <1>4, HookAssumption DEF HookInit, Age
<1>5. CASE HookIgnore
  BY <1>5 DEF HookIgnore
<1>6. CASE HookResize
  BY <1>6 DEF HookResize
<1> QED
  BY <1>1, <1>2, <1>3, <1>4, <1>5, <1>6 DEF HookStep, HookReact

LEMMA CallType == TypeOK /\ Call => TypeOK'
<1> SUFFICES ASSUME TypeOK, Call PROVE TypeOK'
  OBVIOUS
<1> USE EventNames, CauseNames
    DEF TypeOK, HookTypeOK, Return, Steps, Results, Begin, contextVars, waitVars,
        optVars, textureVars, hookVars
<1>1. CASE CallAttach
  BY <1>1 DEF CallAttach
<1>2. CASE CallShutdown
  BY <1>2 DEF CallShutdown
<1>3. ASSUME NEW c \in CaptureCalls, CallCapture(c) PROVE TypeOK'
  BY <1>3 DEF CallCapture, Failure
<1>4. ASSUME NEW enabled \in Overlays, SetCaptureOverlays(enabled) PROVE TypeOK'
  <2>1. overlay' \in Overlays /\ swallowed' \in BOOLEAN
    BY <1>4 DEF SetCaptureOverlays
  <2>2. /\ hookOverlay' \in Overlays /\ signalled' \subseteq Events
        /\ restartBy' \subseteq Causes
    BY <1>4 DEF SetCaptureOverlays, Signal
  <2>3. UNCHANGED <<hook, keepalive, hookType, lastInit, textureVars,
                    contextVars, waitVars, pid, pc, call, result, session>>
    BY <1>4 DEF SetCaptureOverlays
  <2> QED
    BY <2>1, <2>2, <2>3
<1> QED
  BY <1>1, <1>2, <1>3, <1>4 DEF Call

LEMMA DeathType == TypeOK /\ ClientDies => TypeOK'
<1> SUFFICES ASSUME TypeOK, ClientDies PROVE TypeOK'
  OBVIOUS
<1>1. HookTypeOK'
  BY ViewNames DEF TypeOK, HookTypeOK, ClientDies, HandlesGone, sharedVars
<1>2. overlay' \in Overlays /\ swallowed' \in BOOLEAN
  BY DEF ClientDies
<1>3. phase' \in 0..Phases /\ polls' \in 0..Polls
  BY CaptureAssumption DEF ClientDies
<1> QED
  BY <1>1, <1>2, <1>3
     DEF TypeOK, HookTypeOK, ClientDies, HandlesGone, Steps, Results

LEMMA TypeInductive == TypeOK /\ [Next]_vars => TypeOK'
<1> SUFFICES ASSUME TypeOK, [Next]_vars PROVE TypeOK'
  OBVIOUS
<1>1. CASE ExternalHook
  BY <1>1, HookType DEF ExternalHook, TypeOK, contextVars, waitVars, optVars
<1>2. CASE UNCHANGED vars
  BY <1>2 DEF vars, TypeOK, HookTypeOK, hookVars, contextVars, waitVars,
              optVars
<1> QED
  BY <1>1, <1>2, ClientType, CallType, DeathType DEF Next, CaptureCrashes

-----------------------------------------------------------------------------
(* The rest of the inductive invariant. *)

LEMMA ClientShape == TypeOK /\ Shape /\ ClientStep => Shape'
<1> SUFFICES ASSUME TypeOK, Shape, ClientStep PROVE Shape'
  OBVIOUS
<1> USE CaptureAssumption, MemberNames
    DEF TypeOK, Shape, KeepaliveGuardsSession, Attaching, Unbuilt, Built,
        RestartDropped, AttachedSessionIsWhole, NoOwnRestartLeft, Holding,
        Attached, Holds, BeforePipe, BeforeMutexes, BeforeHookInfo,
        BeforeEvents, AfterReady, AttachSteps,
        Goto, Return, Throw, contextVars, waitVars, sharedVars, textureVars,
        hookVars
<1>1. CASE FindWindow
  BY <1>1 DEF FindWindow
<1>2. CASE InitKeepalive
  <2>1. CASE Throw /\ UNCHANGED <<keepalive, lastInit>>
    BY <1>2, <2>1 DEF InitKeepalive, MayTakeKeepalive
  <2>2. CASE keepalive = "none" /\ keepalive' = pid /\ Goto("initPipe")
    <3>1. ~Attached /\ pid \in Pids /\ keepalive' # "none"
      BY <1>2, <2>2, PidNames DEF InitKeepalive, MayTakeKeepalive
    <3> QED
      BY <1>2, <2>2, <3>1 DEF InitKeepalive, MayTakeKeepalive
  <2> QED
    BY <1>2, <2>1, <2>2 DEF InitKeepalive, MayTakeKeepalive
<1>3. CASE InitPipe
  BY <1>3 DEF InitPipe
<1>4. CASE AttemptExistingHook
  BY <1>4 DEF AttemptExistingHook
<1>5. CASE InjectGraphicsHook
  BY <1>5 DEF InjectGraphicsHook
<1>6. CASE InitTextureMutexes
  BY <1>6 DEF InitTextureMutexes
<1>7. CASE InitHookInfo
  BY <1>7 DEF InitHookInfo, WriteHookInfo, HookInfoMapped
<1>8. CASE InitEvents
  BY <1>8 DEF InitEvents, HookInfoMapped
<1>9. CASE SignalInit
  BY <1>9 DEF SignalInit, EventStep, Signal
<1>10. CASE SignalRestart
  BY <1>10 DEF SignalRestart, EventStep, Signal
<1>11. CASE Poll
  BY <1>11 DEF Poll, PollFinds, PollSleeps, PollGivesUp
<1>12. CASE ForceStop
  BY <1>12 DEF ForceStop, EventStep, Signal
<1>13. CASE ClearStop
  BY <1>13 DEF ClearStop, EventStep, Reset
<1>14. CASE RestartAgain
  BY <1>14 DEF RestartAgain, EventStep, Signal
<1>15. CASE InitAgain
  BY <1>15 DEF InitAgain, EventStep, Signal
<1>16. CASE Succeed
  BY <1>16 DEF Succeed, EventStep, Reset, Opened
<1>17. CASE OpenHookInfo
  <2>1. /\ pc = "openHookInfo"
        /\ UNCHANGED <<hookVars, opened, pid>>
        /\ pc' \in {"idle", "openTexture", "refresh"}
    BY <1>17 DEF OpenHookInfo, AttachDone
  <2>2. held \subseteq held'
    BY <1>17 DEF OpenHookInfo
  <2>3. /\ pc' = "openTexture" => Holds("hookInfoView")' /\ ~Attached'
        /\ Attached' => Holds("hookInfoView")' /\ ~Holds("device")'
    BY <1>17, <2>1 DEF OpenHookInfo, AttachDone
  <2>4. Attached' => AttachedSessionIsWhole'
    BY <2>1, <2>2, <2>3 DEF Members
  <2> QED
    BY <2>1, <2>2, <2>3, <2>4
<1>18. CASE OpenTexture
  <2>1. /\ pc = "openTexture"
        /\ UNCHANGED <<sharedVars, keepalive, contextVars, pid>>
        /\ pc' \in {"idle", "refresh"}
    BY <1>18 DEF OpenTexture, AttachDone
  <2>2. Attached' => sourceTexture' # "none"
    BY <1>18, <2>1 DEF OpenTexture, AttachDone, RefreshSharedTexture
  <2>3. AttachedSessionIsWhole'
    BY <2>1, <2>2 DEF Members
  <2> QED
    BY <2>1, <2>3
<1>19. CASE SignalStop
  BY <1>19 DEF SignalStop, EventStep, Signal
<1>20. CASE Release
  BY <1>20 DEF Release, ReleaseContext, HandlesGone
<1>21. CASE Refresh
  BY <1>21 DEF Refresh, RefreshSharedTexture, Failure
<1>22. CASE Read
  BY <1>22 DEF Read, Failure
<1> QED
  BY <1>1, <1>2, <1>3, <1>4, <1>5, <1>6, <1>7, <1>8, <1>9, <1>10, <1>11,
     <1>12, <1>13, <1>14, <1>15, <1>16, <1>17, <1>18, <1>19, <1>20, <1>21,
     <1>22
     DEF ClientStep

(* The hook touches nothing the session holds; it only ages its views.     *)
LEMMA HookShape == TypeOK /\ Shape /\ ExternalHook => Shape'
<1> SUFFICES ASSUME TypeOK, Shape, ExternalHook PROVE Shape'
  OBVIOUS
<1>1. UNCHANGED <<keepalive, contextVars, waitVars, pid, optVars, pc, call,
                  result, session>>
  BY DEF ExternalHook, HookStep, HookReact, HookLoad, HookStart, HookStop,
         HookInit, HookIgnore, HookResize
<1>2. /\ textureData' = "none" <=> textureData = "none"
      /\ sourceTexture' = "none" <=> sourceTexture = "none"
  BY DEF ExternalHook, HookStep, HookReact, HookLoad, HookStart, HookStop,
         HookInit, HookIgnore, HookResize, Age
<1>3. "client" \in restartBy' => "client" \in restartBy
  BY DEF ExternalHook, HookStep, HookReact, HookLoad, HookStart, HookStop,
         HookInit, HookIgnore, HookResize
<1> QED
  BY <1>1, <1>2, <1>3
     DEF Shape, KeepaliveGuardsSession, Attaching, Unbuilt, Built,
         RestartDropped, AttachedSessionIsWhole, NoOwnRestartLeft, Holding,
         Attached, Holds, contextVars

LEMMA CallShape == TypeOK /\ Shape /\ Call => Shape'
<1> SUFFICES ASSUME TypeOK, Shape, Call PROVE Shape'
  OBVIOUS
<1> USE DEF Shape, KeepaliveGuardsSession, Attaching, Unbuilt, Built,
        RestartDropped, AttachedSessionIsWhole, NoOwnRestartLeft, Holding,
        Attached, Holds, BeforePipe, BeforeMutexes, BeforeHookInfo,
        BeforeEvents, AfterReady, AttachSteps,
        Begin, Return, contextVars, waitVars, textureVars, hookVars
<1>1. CASE CallAttach
  BY <1>1 DEF CallAttach
<1>2. CASE CallShutdown
  BY <1>2 DEF CallShutdown
<1>3. ASSUME NEW c \in CaptureCalls, CallCapture(c) PROVE Shape'
  BY <1>3 DEF CallCapture
<1>4. ASSUME NEW enabled \in Overlays, SetCaptureOverlays(enabled) PROVE Shape'
  BY <1>4 DEF SetCaptureOverlays, Signal
<1> QED
  BY <1>1, <1>2, <1>3, <1>4 DEF Call

LEMMA DeathShape == Shape /\ ClientDies => Shape'
BY DEF Shape, KeepaliveGuardsSession, Attaching, Unbuilt, Built,
        RestartDropped, AttachedSessionIsWhole, NoOwnRestartLeft, Holding,
        Attached, Holds, BeforePipe, BeforeMutexes, BeforeHookInfo,
        BeforeEvents, AfterReady, AttachSteps,
       ClientDies, HandlesGone

LEMMA Inductive == IInv /\ [Next]_vars => IInv'
<1> SUFFICES ASSUME TypeOK, Shape, [Next]_vars PROVE Shape'
  BY TypeInductive DEF IInv
<1>1. CASE UNCHANGED vars
  BY <1>1 DEF vars, Shape, KeepaliveGuardsSession, Attaching, Unbuilt, Built,
              RestartDropped, AttachedSessionIsWhole, NoOwnRestartLeft, Holding,
              Attached, Holds, hookVars, contextVars, waitVars
<1> QED
  BY <1>1, ClientShape, HookShape, CallShape, DeathShape DEF Next,
     CaptureCrashes

LEMMA Initially == Init => IInv
<1> SUFFICES ASSUME Init PROVE TypeOK /\ Shape
  BY DEF IInv
<1>1. TypeOK
  <2>1. HookTypeOK
    BY ViewNames DEF Init, HookInit0, HookTypeOK, Overlays
  <2>2. overlay \in Overlays /\ swallowed \in BOOLEAN
    BY DEF Init
  <2>3. phase \in 0..Phases /\ polls \in 0..Polls
    BY CaptureAssumption DEF Init
  <2> QED
    BY <2>1, <2>2, <2>3 DEF Init, TypeOK, Steps, Results
<1>2. Shape
  BY DEF Init, HookInit0, Shape, KeepaliveGuardsSession, Attaching, Unbuilt,
         Built, RestartDropped, AttachedSessionIsWhole, NoOwnRestartLeft,
         Attached, Holding, BeforePipe, BeforeHookInfo, BeforeMutexes, BeforeEvents, AfterReady,
         AttachSteps
<1> QED
  BY <1>1, <1>2

LEMMA Invariance == Spec => []IInv
BY Initially, Inductive, PTL DEF Spec

-----------------------------------------------------------------------------
(* Every variable keeps its type, for any number of phases and polls. *)
THEOREM TypeCorrect == Spec => []TypeOK
<1>1. IInv => TypeOK
  BY DEF IInv
<1> QED
  BY <1>1, Invariance, PTL

(* A session holds nothing without holding the keepalive mutex: the guard  *)
(* of initKeepalive protects all of it (obsc.cpp:306).                     *)
THEOREM GuardedByKeepalive == Spec => []KeepaliveGuardsSession
<1>1. IInv => KeepaliveGuardsSession
  BY DEF IInv, Shape
<1> QED
  BY <1>1, Invariance, PTL

(* However attaches, failures, shutdowns and deaths interleave, no init    *)
(* function of attach() overwrites a handle.                               *)
THEOREM NeverOverwrites == Spec => []NothingOverwritten
<1>1. IInv => NothingOverwritten
  BY DEF IInv, Shape, Unbuilt, NothingOverwritten, BeforePipe, BeforeMutexes,
         BeforeHookInfo, BeforeEvents, AttachSteps
<1> QED
  BY <1>1, Invariance, PTL

(* An attached session has all its parts. *)
THEOREM WholeWhenAttached == Spec => []AttachedSessionIsWhole
<1>1. IInv => AttachedSessionIsWhole
  BY DEF IInv, Shape
<1> QED
  BY <1>1, Invariance, PTL

(* In an attached session no Restart of the client's own is pending. *)
THEOREM OwnRestartDropped == Spec => []NoOwnRestartLeft
<1>1. IInv => NoOwnRestartLeft
  BY DEF IInv, Shape
<1> QED
  BY <1>1, Invariance, PTL

-----------------------------------------------------------------------------
(* The overlay option.  An attach at work has written it, and nothing can  *)
(* set it before the attach is done; a hook that has been loaded stays.    *)

OverlayShape ==
  /\ pc \in AttachSteps \ BeforeHookInfo =>
       Resident /\ hookOverlay = overlay
  /\ Attached => Resident /\ OverlayInEffect

LEMMA OverlayClient ==
  ASSUME IInv, OverlayShape, ClientStep
  PROVE  OverlayShape'
<1> USE DEF OverlayShape, OverlayInEffect, Attached, AttachSteps, BeforePipe,
            BeforeMutexes, BeforeHookInfo, Goto, Return, Throw, contextVars,
            waitVars, optVars, sharedVars, textureVars, hookVars, Resident
<1>1. CASE FindWindow
  BY <1>1 DEF FindWindow
<1>2. CASE InitHookInfo
  BY <1>2 DEF InitHookInfo, WriteHookInfo, HookInfoMapped
<1>3. CASE InjectGraphicsHook
  BY <1>3 DEF InjectGraphicsHook
<1>4. CASE Poll
  BY <1>4 DEF Poll, PollFinds, PollSleeps, PollGivesUp
<1>5. CASE Release
  BY <1>5 DEF Release, ReleaseContext, HandlesGone
<1>6. CASE InitKeepalive \/ InitPipe \/ AttemptExistingHook
           \/ InitTextureMutexes \/ InitEvents
  BY <1>6 DEF InitKeepalive, MayTakeKeepalive, InitPipe, AttemptExistingHook,
              InitTextureMutexes, InitEvents
<1>7. CASE SignalInit \/ SignalRestart \/ ForceStop \/ ClearStop
           \/ RestartAgain \/ InitAgain \/ Succeed \/ SignalStop
  BY <1>7 DEF SignalInit, SignalRestart, ForceStop, ClearStop, RestartAgain,
              InitAgain, Succeed, SignalStop, EventStep
<1>8. CASE OpenHookInfo \/ OpenTexture
  BY <1>8 DEF OpenHookInfo, OpenTexture, AttachDone, IInv, Shape, Built,
              Attaching
<1>9. CASE Refresh \/ Read
  BY <1>9 DEF Refresh, Read
<1> QED
  BY <1>1, <1>2, <1>3, <1>4, <1>5, <1>6, <1>7, <1>8, <1>9 DEF ClientStep

LEMMA OverlayInductive ==
  ASSUME IInv, OverlayShape, [Next]_vars
  PROVE  OverlayShape'
<1> USE DEF OverlayShape, OverlayInEffect, Attached, AttachSteps, contextVars,
            waitVars, optVars, textureVars, hookVars
<1>1. CASE ExternalHook
  BY <1>1 DEF ExternalHook, HookStep, HookReact, HookLoad, HookStart, HookStop,
              HookInit, HookIgnore, HookResize, Resident
<1>2. CASE CallAttach \/ CallShutdown
  BY <1>2 DEF CallAttach, CallShutdown, Begin, Resident
<1>3. ASSUME NEW c \in CaptureCalls, CallCapture(c) PROVE OverlayShape'
  BY <1>3 DEF CallCapture, Begin, Return, Resident
<1>4. ASSUME NEW enabled \in Overlays, SetCaptureOverlays(enabled)
      PROVE  OverlayShape'
  BY <1>4 DEF SetCaptureOverlays, HookInfoMapped, Resident
<1>5. CASE ClientDies
  BY <1>5 DEF ClientDies
<1>6. CASE UNCHANGED vars
  BY <1>6 DEF vars, Resident
<1> QED
  BY <1>1, <1>2, <1>3, <1>4, <1>5, <1>6, OverlayClient
     DEF Next, Call, CaptureCrashes

(* The hook of an attached session has the option last set, unless the     *)
(* last setCaptureOverlays since the attach failed, with any number of     *)
(* owners of the window title (obsc.cpp:94-104, obsc.h:48).                *)
THEOREM OverlayKept == Spec => []OverlayInEffect
<1>1. Init => OverlayShape
  BY DEF Init, OverlayShape, Attached, AttachSteps
<1>2. IInv /\ OverlayShape /\ [Next]_vars => OverlayShape'
  BY OverlayInductive
<1>3. OverlayShape => OverlayInEffect
  BY DEF OverlayShape, OverlayInEffect
<1> QED
  BY <1>1, <1>2, <1>3, Invariance, PTL DEF Spec

-----------------------------------------------------------------------------
(* The recovery of waitHookReady.  Its steps force a stop, wait until the  *)
(* hook has nothing left to do, drop the stop and ask for a restart again; *)
(* the invariant says what a resident hook has done by then: one that is   *)
(* active took the stop and has initialised since, one that is not has a   *)
(* Restart to see, unless HookReady is there already.                      *)

Recovering == {"forceStop", "clearStop", "restartAgain", "initAgain"}

Handshake == Recovering \cup {"signalInit", "signalRestart", "poll", "succeed"}

RecoveredPoll == pc = "poll" /\ phase > 0

StopTaken == hook = "active" => "Ready" \in signalled

RestartSeen == hook # "active" => "Restart" \in signalled \/ "Ready" \in signalled

RecoveryShape ==
  /\ pc \in Handshake => Resident
  /\ pc \notin Recovering \cup {"poll", "succeed"} => phase = 0
  /\ pc = "clearStop" => StopTaken \/ "Stop" \in signalled
  /\ pc \in {"restartAgain", "initAgain"} \/ RecoveredPoll => StopTaken
  /\ pc = "initAgain" \/ RecoveredPoll => RestartSeen
  /\ RecoveredPoll /\ hook = "loaded" => "Init" \in signalled
  /\ NeverTimesOut

(* In the handshake the client is alive for the hook and has its events.   *)
LEMMA HandshakeReady ==
  ASSUME IInv, pc \in Handshake
  PROVE  Alive /\ \A e \in Events : Opened(e)
BY DEF IInv, Shape, Built, Handshake, Recovering, AttachSteps, BeforePipe,
       BeforeMutexes, BeforeHookInfo, BeforeEvents, Alive, Opened, Events

(* After a recovery phase a hook that is quiet has fired HookReady. *)
LEMMA RecoveredHookIsReady ==
  ASSUME IInv, RecoveryShape, RecoveredPoll, HookQuiet
  PROVE  Signalled("Ready")
<1>1. hook \in {"loaded", "idle", "active"} /\ Opened("Ready")
  BY HandshakeReady, EventNames
     DEF RecoveryShape, RecoveredPoll, Handshake, Resident
<1> QED
  BY <1>1 DEF RecoveryShape, RecoveredPoll, StopTaken, RestartSeen, HookQuiet,
              Signalled

LEMMA RecoveryPoll ==
  ASSUME Responsive, Phases > 0, IInv, RecoveryShape, Poll
  PROVE  RecoveryShape'
<1> USE DEF RecoveryShape, Goto, Return, StopTaken, RestartSeen, RecoveredPoll,
            Resident, Recovering, Handshake, NeverTimesOut
<1>1. UNCHANGED hook /\ pc = "poll" /\ phase \in Nat
  BY CaptureAssumption DEF Poll, IInv, TypeOK
<1>2. CASE PollFinds
  BY <1>1, <1>2 DEF PollFinds
<1>3. CASE PollSleeps
  BY <1>1, <1>3 DEF PollSleeps
<1>4. CASE PollGivesUp
  <2>1. ~RecoveredPoll
    BY <1>4, RecoveredHookIsReady DEF PollGivesUp
  <2>2. phase = 0 /\ MorePhases
    BY <2>1, <1>1, CaptureAssumption DEF MorePhases
  <2> QED
    BY <1>1, <1>4, <2>2 DEF PollGivesUp
<1> QED
  BY <1>2, <1>3, <1>4 DEF Poll

LEMMA RecoveryClient ==
  ASSUME Responsive, Phases > 0, IInv, RecoveryShape, ClientStep
  PROVE  RecoveryShape'
<1> USE DEF RecoveryShape, Goto, Return, Throw, StopTaken, RestartSeen,
            RecoveredPoll, Resident, Recovering, Handshake, NeverTimesOut
<1>1. CASE Poll
  BY <1>1, RecoveryPoll
<1>2. CASE FindWindow \/ InitKeepalive \/ InitPipe \/ AttemptExistingHook
           \/ InjectGraphicsHook \/ InitTextureMutexes \/ InitHookInfo
  BY <1>2 DEF FindWindow, InitKeepalive, InitPipe, AttemptExistingHook,
              InjectGraphicsHook, InitTextureMutexes, InitHookInfo, waitVars
<1>3. CASE InitEvents
  BY <1>3 DEF InitEvents, HookInfoMapped, waitVars, hookVars
<1>4. CASE SignalInit \/ SignalRestart
  BY <1>4 DEF SignalInit, SignalRestart, EventStep, waitVars
<1>5. CASE ForceStop
  BY <1>5, HandshakeReady, EventNames DEF ForceStop, EventStep, Signal, waitVars
<1>6. CASE ClearStop
  <2>1. StopTaken
    BY <1>6, HandshakeReady DEF ClearStop, EventStep, HookQuiet
  <2> QED
    BY <1>6, <2>1 DEF ClearStop, EventStep, Reset, waitVars
<1>7. CASE RestartAgain
  BY <1>7, HandshakeReady, EventNames
     DEF RestartAgain, EventStep, Signal, waitVars
<1>8. CASE InitAgain
  BY <1>8, HandshakeReady, EventNames DEF InitAgain, EventStep, Signal, waitVars
<1>9. CASE Succeed
  BY <1>9 DEF Succeed, EventStep
<1>10. CASE OpenHookInfo \/ OpenTexture
  BY <1>10 DEF OpenHookInfo, OpenTexture, AttachDone, waitVars
<1>11. CASE SignalStop \/ Release \/ Refresh \/ Read
  BY <1>11 DEF SignalStop, EventStep, Release, Refresh, Read, Failure, waitVars
<1> QED
  BY <1>1, <1>2, <1>3, <1>4, <1>5, <1>6, <1>7, <1>8, <1>9, <1>10, <1>11
     DEF ClientStep

(* The hook can only go on: Ready stays, a stop and a resize announce a    *)
(* Restart, and while the client is alive it takes none for nothing.       *)
LEMMA RecoveryHook ==
  ASSUME ~HookFaults, IInv, RecoveryShape, ExternalHook
  PROVE  RecoveryShape'
<1>1. UNCHANGED <<pc, phase, result>>
  BY DEF ExternalHook, waitVars
<1>2. CASE pc \in Handshake
  <2>1. Alive /\ Resident
    BY <1>2, HandshakeReady DEF RecoveryShape
  <2>2. HookStart \/ HookStop \/ HookInit \/ HookResize
    BY <2>1 DEF ExternalHook, HookStep, HookReact, HookLoad, HookIgnore, Resident
  <2> QED
    BY <1>1, <2>2
       DEF HookStart, HookStop, HookInit, HookResize, RecoveryShape, StopTaken,
           RestartSeen, RecoveredPoll, Resident, NeverTimesOut
<1>3. CASE pc \notin Handshake
  BY <1>1, <1>3
     DEF RecoveryShape, RecoveredPoll, Handshake, Recovering, NeverTimesOut
<1> QED
  BY <1>2, <1>3

LEMMA RecoveryCall ==
  ASSUME IInv, RecoveryShape, Call \/ ClientDies
  PROVE  RecoveryShape'
<1> USE DEF RecoveryShape, RecoveredPoll, Recovering, Handshake, NeverTimesOut,
            Begin, Return, waitVars
<1>1. CASE CallAttach \/ CallShutdown
  BY <1>1 DEF CallAttach, CallShutdown
<1>2. ASSUME NEW c \in CaptureCalls, CallCapture(c) PROVE RecoveryShape'
  BY <1>2 DEF CallCapture, Failure
<1>3. ASSUME NEW enabled \in Overlays, SetCaptureOverlays(enabled)
      PROVE  RecoveryShape'
  BY <1>3 DEF SetCaptureOverlays
<1>4. CASE ClientDies
  BY <1>4 DEF ClientDies
<1> QED
  BY <1>1, <1>2, <1>3, <1>4 DEF Call

(* A hook that keeps up with the waits and whose initialisations succeed   *)
(* is always recovered, for every number of polls and of recovery phases   *)
(* but none: attach never gives up on it (obsc.cpp:452-476).               *)
THEOREM RecoverySucceeds ==
  ASSUME Responsive, ~HookFaults, Phases > 0
  PROVE  Spec => []NeverTimesOut
<1>1. Init => RecoveryShape
  BY DEF Init, RecoveryShape, RecoveredPoll, Recovering, Handshake,
         NeverTimesOut
<1>2. IInv /\ RecoveryShape /\ [Next]_vars => RecoveryShape'
  <2> SUFFICES ASSUME IInv, RecoveryShape, [Next]_vars PROVE RecoveryShape'
    OBVIOUS
  <2>1. CASE UNCHANGED vars
    BY <2>1 DEF vars, hookVars, waitVars, RecoveryShape, RecoveredPoll,
                StopTaken, RestartSeen, Resident, NeverTimesOut
  <2> QED
    BY <2>1, RecoveryClient, RecoveryHook, RecoveryCall
       DEF Next, CaptureCrashes
<1>3. RecoveryShape => NeverTimesOut
  BY DEF RecoveryShape
<1> QED
  BY <1>1, <1>2, <1>3, Invariance, PTL DEF Spec

-----------------------------------------------------------------------------
(* How many steps a call may still take.  A recovery phase has four steps  *)
(* on events and a poll that looks Polls + 1 times.                        *)
PhaseSteps == Polls + 5

PhasesLeft == (Phases - phase) * PhaseSteps

Recovery == Phases * PhaseSteps + Polls

StepsLeft ==
  CASE pc = "idle"                -> 0
    [] pc = "read"                -> 1
    [] pc = "refresh"             -> 2
    [] pc = "openTexture"         -> 3
    [] pc = "openHookInfo"        -> 4
    [] pc = "succeed"             -> 5
    [] pc = "poll"                -> 6 + PhasesLeft + Polls - polls
    [] pc = "initAgain"           -> 7 + PhasesLeft + Polls
    [] pc = "restartAgain"        -> 8 + PhasesLeft + Polls
    [] pc = "clearStop"           -> 9 + PhasesLeft + Polls
    [] pc = "forceStop"           -> 10 + PhasesLeft + Polls
    [] pc = "signalRestart"       -> 7 + Recovery
    [] pc = "signalInit"          -> 8 + Recovery
    [] pc = "initEvents"          -> 9 + Recovery
    [] pc = "initHookInfo"        -> 10 + Recovery
    [] pc = "initTextureMutexes"  -> 11 + Recovery
    [] pc = "injectGraphicsHook"  -> 12 + Recovery
    [] pc = "attemptExistingHook" -> 13 + Recovery
    [] pc = "initPipe"            -> 14 + Recovery
    [] pc = "initKeepalive"       -> 15 + Recovery
    [] pc = "findWindow"          -> 16 + Recovery
    [] pc = "release"             -> 17 + Recovery
    [] pc = "signalStop"          -> 18 + Recovery

MostSteps == 18 + Recovery

LEMMA PhasesCounted ==
  ASSUME NEW p \in 0..Phases
  PROVE  /\ PhaseSteps \in Nat
         /\ (Phases - p) * PhaseSteps \in Nat
         /\ Recovery \in Nat
         /\ (Phases - p) * PhaseSteps + Polls <= Recovery
<1>1. PICK left \in Nat : Phases - p = left
  BY CaptureAssumption
<1>2. p \in Nat /\ Phases = left + p /\ PhaseSteps \in Nat
  BY <1>1, CaptureAssumption DEF PhaseSteps
<1>3. left * PhaseSteps \in Nat /\ p * PhaseSteps \in Nat
  BY <1>2
<1>4. Phases * PhaseSteps = left * PhaseSteps + p * PhaseSteps
  BY <1>2
<1> QED
  BY <1>1, <1>2, <1>3, <1>4, CaptureAssumption DEF Recovery

LEMMA PhaseTaken ==
  ASSUME TypeOK, MorePhases, phase' = phase + 1
  PROVE  PhasesLeft = PhasesLeft' + PhaseSteps
<1>1. PICK left \in Nat : Phases - phase' = left
  BY CaptureAssumption DEF TypeOK, MorePhases
<1>2. Phases - phase = left + 1 /\ PhaseSteps \in Nat
  BY <1>1, CaptureAssumption DEF TypeOK, PhaseSteps
<1>3. (left + 1) * PhaseSteps = left * PhaseSteps + PhaseSteps
  BY <1>1, <1>2
<1> QED
  BY <1>1, <1>2, <1>3 DEF PhasesLeft, PhaseSteps

LEMMA StepsInRange == TypeOK => StepsLeft \in 0..MostSteps
<1> SUFFICES ASSUME TypeOK PROVE StepsLeft \in 0..MostSteps
  OBVIOUS
<1>1. polls \in Nat /\ polls <= Polls /\ Polls \in Nat
  BY CaptureAssumption DEF TypeOK
<1>2. PhasesLeft \in Nat /\ Recovery \in Nat /\ PhasesLeft + Polls <= Recovery
  BY PhasesCounted DEF TypeOK, PhasesLeft
<1>3. MostSteps \in Nat /\ MostSteps = 18 + Recovery
  BY <1>2 DEF MostSteps
<1>4. CASE pc = "poll"
  <2>1. StepsLeft = 6 + PhasesLeft + Polls - polls
    BY <1>4 DEF StepsLeft
  <2> QED
    BY <1>1, <1>2, <1>3, <2>1
<1>5. CASE pc \in {"initAgain", "restartAgain", "clearStop", "forceStop"}
  <2>1. \E n \in 7..10 : StepsLeft = n + PhasesLeft + Polls
    BY <1>5 DEF StepsLeft
  <2> QED
    BY <1>1, <1>2, <1>3, <2>1
<1>6. CASE pc \in {"idle", "read", "refresh", "openTexture", "openHookInfo",
                   "succeed"}
  <2>1. StepsLeft \in 0..5
    BY <1>6 DEF StepsLeft
  <2> QED
    BY <1>2, <1>3, <2>1
<1>7. CASE pc \in {"signalRestart", "signalInit", "initEvents", "initHookInfo",
                   "initTextureMutexes", "injectGraphicsHook"}
  <2>1. \E n \in 7..12 : StepsLeft = n + Recovery
    BY <1>7 DEF StepsLeft
  <2> QED
    BY <1>2, <1>3, <2>1
<1>8. CASE pc \in {"attemptExistingHook", "initPipe", "initKeepalive",
                   "findWindow", "release", "signalStop"}
  <2>1. \E n \in 13..18 : StepsLeft = n + Recovery
    BY <1>8 DEF StepsLeft
  <2> QED
    BY <1>2, <1>3, <2>1
<1> QED
  BY <1>4, <1>5, <1>6, <1>7, <1>8 DEF TypeOK, Steps, AttachSteps

LEMMA StepTaken ==
  ASSUME TypeOK, TypeOK', ClientStep
  PROVE  StepsLeft' < StepsLeft
<1> USE DEF Goto, Return, Throw
<1>1. /\ polls \in Nat /\ polls <= Polls /\ Polls \in Nat
      /\ polls' \in Nat /\ polls' <= Polls
  BY CaptureAssumption DEF TypeOK
<1>2. PhasesLeft \in Nat /\ Recovery \in Nat /\ PhasesLeft + Polls <= Recovery
  BY PhasesCounted DEF TypeOK, PhasesLeft
<1>3. PhasesLeft' \in Nat /\ PhasesLeft' + Polls <= Recovery
  <2>1. PhasesLeft' = (Phases - phase') * PhaseSteps
    BY DEF PhasesLeft, PhaseSteps
  <2>2. phase' \in 0..Phases
    BY DEF TypeOK
  <2> QED
    BY <2>1, <2>2, PhasesCounted
<1>4. Recovery' = Recovery
  BY DEF Recovery, PhaseSteps
<1>5. phase' = phase => PhasesLeft' = PhasesLeft
  BY DEF PhasesLeft, PhaseSteps
<1>6. CASE FindWindow \/ InitKeepalive \/ InitPipe
  BY <1>2, <1>4, <1>6 DEF FindWindow, InitKeepalive, InitPipe, StepsLeft
<1>7. CASE AttemptExistingHook \/ InjectGraphicsHook \/ InitTextureMutexes
  BY <1>2, <1>4, <1>7
     DEF AttemptExistingHook, InjectGraphicsHook, InitTextureMutexes, StepsLeft
<1>8. CASE InitHookInfo \/ InitEvents \/ SignalInit
  BY <1>2, <1>4, <1>8
     DEF InitHookInfo, InitEvents, SignalInit, EventStep, StepsLeft
<1>9. CASE SignalRestart
  BY <1>1, <1>2, <1>3, <1>4, <1>9 DEF SignalRestart, EventStep, StepsLeft
<1>10. CASE Poll
  <2>1. CASE PollFinds
    BY <1>1, <1>2, <1>10, <2>1 DEF Poll, PollFinds, StepsLeft
  <2>2. CASE PollSleeps
    BY <1>1, <1>2, <1>5, <1>10, <2>2 DEF Poll, PollSleeps, StepsLeft
  <2>3. CASE PollGivesUp /\ ~MorePhases
    BY <1>1, <1>2, <1>10, <2>3 DEF Poll, PollGivesUp, StepsLeft
  <2>4. CASE PollGivesUp /\ MorePhases
    <3>1. PhasesLeft = PhasesLeft' + Polls + 5
      BY <1>1, <1>2, <1>3, <2>4, PhaseTaken DEF PollGivesUp, PhaseSteps
    <3> QED
      BY <1>1, <1>2, <1>3, <1>10, <2>4, <3>1 DEF Poll, PollGivesUp, StepsLeft
  <2> QED
    BY <1>10, <2>1, <2>2, <2>3, <2>4 DEF Poll
<1>11. CASE ForceStop \/ ClearStop
  BY <1>1, <1>2, <1>5, <1>11
     DEF ForceStop, ClearStop, EventStep, StepsLeft, waitVars
<1>12. CASE RestartAgain \/ InitAgain
  BY <1>1, <1>2, <1>5, <1>12
     DEF RestartAgain, InitAgain, EventStep, StepsLeft, waitVars
<1>13. CASE Succeed
  BY <1>13 DEF Succeed, EventStep, StepsLeft
<1>14. CASE OpenHookInfo \/ OpenTexture
  BY <1>14 DEF OpenHookInfo, OpenTexture, AttachDone, StepsLeft
<1>15. CASE SignalStop \/ Release
  BY <1>2, <1>4, <1>15 DEF SignalStop, EventStep, Release, StepsLeft
<1>16. CASE Refresh \/ Read
  BY <1>16 DEF Refresh, Read, StepsLeft
<1> QED
  BY <1>6, <1>7, <1>8, <1>9, <1>10, <1>11, <1>12, <1>13, <1>14, <1>15, <1>16
     DEF ClientStep

(* Every call ends within a number of its own steps that Phases and Polls  *)
(* bound, whatever the hook does between them and however often a capture  *)
(* finds a Restart: a re-attach does not begin another, and no recovery    *)
(* phase is entered twice (obsc.cpp:452-476).                              *)
CallsCountDown ==
  [][/\ ClientStep => StepsLeft' < StepsLeft
     /\ ExternalHook => StepsLeft' = StepsLeft]_vars

THEOREM CallsAreBounded ==
  Spec => [](StepsLeft \in 0..MostSteps) /\ CallsCountDown
<1>1. TypeOK /\ TypeOK' /\ [Next]_vars
        => [/\ ClientStep => StepsLeft' < StepsLeft
            /\ ExternalHook => StepsLeft' = StepsLeft]_vars
  <2> SUFFICES ASSUME TypeOK, TypeOK'
               PROVE  /\ ClientStep => StepsLeft' < StepsLeft
                      /\ ExternalHook => StepsLeft' = StepsLeft
    OBVIOUS
  <2>1. ExternalHook => UNCHANGED <<pc, phase, polls>>
    BY DEF ExternalHook, waitVars
  <2>2. UNCHANGED <<pc, phase, polls>> => StepsLeft' = StepsLeft
    BY DEF StepsLeft, PhasesLeft, Recovery, PhaseSteps
  <2> QED
    BY <2>1, <2>2, StepTaken
<1> QED
  BY <1>1, TypeCorrect, StepsInRange, PTL DEF Spec, CallsCountDown

-----------------------------------------------------------------------------
(* What a shutdown leaves *)

(* Nothing of the session is held any more. *)
NothingLeft ==
  /\ keepalive = "none" /\ held = {} /\ opened = 0
  /\ textureData = "none" /\ sourceTexture = "none"
  /\ session = "none"

ShutDown == call = "shutdown" /\ pc = "idle"

ShutdownShape ==
  /\ call = "shutdown" => pc \in {"signalStop", "release", "idle"}
  /\ call = "shutdown" => session = "none"
  /\ ShutDown => NothingLeft

LEMMA ShutdownByClient ==
  ASSUME TypeOK, ShutdownShape, ClientStep
  PROVE  ShutdownShape'
<1> USE DEF ShutdownShape, ShutDown, NothingLeft, Goto, Return, Throw
<1>1. CASE SignalStop
  BY <1>1 DEF SignalStop, EventStep
<1>2. CASE Release
  BY <1>2 DEF Release, ReleaseContext, HandlesGone, contextVars
<1>3. CASE FindWindow \/ InitKeepalive \/ InitPipe \/ AttemptExistingHook
  BY <1>3 DEF FindWindow, InitKeepalive, InitPipe, AttemptExistingHook
<1>4. CASE InjectGraphicsHook \/ InitTextureMutexes \/ InitHookInfo \/ InitEvents
  BY <1>4 DEF InjectGraphicsHook, InitTextureMutexes, InitHookInfo, InitEvents
<1>5. CASE SignalInit \/ SignalRestart
  BY <1>5 DEF SignalInit, SignalRestart, EventStep
<1>6. CASE Poll
  BY <1>6 DEF Poll, PollFinds, PollSleeps, PollGivesUp
<1>7. CASE ForceStop \/ ClearStop \/ RestartAgain \/ InitAgain
  BY <1>7 DEF ForceStop, ClearStop, RestartAgain, InitAgain, EventStep
<1>8. CASE Succeed
  BY <1>8 DEF Succeed, EventStep
<1>9. CASE OpenHookInfo \/ OpenTexture
  BY <1>9 DEF OpenHookInfo, OpenTexture, AttachDone
<1>10. CASE Refresh \/ Read
  BY <1>10 DEF Refresh, Read
<1> QED
  BY <1>1, <1>2, <1>3, <1>4, <1>5, <1>6, <1>7, <1>8, <1>9, <1>10 DEF ClientStep

LEMMA ShutdownByOthers ==
  ASSUME TypeOK, ShutdownShape, Call \/ ClientDies \/ ExternalHook
  PROVE  ShutdownShape'
<1> USE DEF ShutdownShape, ShutDown, NothingLeft
<1>1. CASE CallAttach \/ CallShutdown
  BY <1>1 DEF CallAttach, CallShutdown, Begin
<1>2. ASSUME NEW c \in CaptureCalls, CallCapture(c) PROVE ShutdownShape'
  BY <1>2 DEF CallCapture, Begin, Return, CaptureCalls, StripCalls
<1>3. ASSUME NEW enabled \in Overlays, SetCaptureOverlays(enabled)
      PROVE  ShutdownShape'
  BY <1>3 DEF SetCaptureOverlays, textureVars, contextVars
<1>4. CASE ClientDies
  BY <1>4 DEF ClientDies
<1>5. CASE ExternalHook
  <2>1. UNCHANGED <<call, pc, session, held, opened, keepalive>>
    BY <1>5
       DEF ExternalHook, HookStep, HookReact, HookLoad, HookStart, HookStop,
           HookInit, HookIgnore, HookResize, contextVars
  <2>2. ShutDown => ~Alive
    BY DEF Alive
  <2>3. ~Alive => UNCHANGED <<textureData, sourceTexture>>
    BY <1>5
       DEF ExternalHook, HookStep, HookReact, HookLoad, HookStart, HookStop,
           HookInit, HookIgnore, HookResize
  <2> QED
    BY <2>1, <2>2, <2>3
<1> QED
  BY <1>1, <1>2, <1>3, <1>4, <1>5 DEF Call

(* A shutdown leaves nothing of the session, whatever attach, failure or   *)
(* re-attach came before it, and until the client calls again no hook that *)
(* is idle begins to capture, though the Restart that announced its stop   *)
(* may still be signalled (obsc.cpp:160-192).                              *)
NothingRevives ==
  [][ShutDown /\ hook # "active" => hook' # "active"]_vars

THEOREM ShutdownIsFinal ==
  Spec => [](ShutDown => NothingLeft) /\ NothingRevives
<1>1. Init => ShutdownShape
  BY DEF Init, ShutdownShape, ShutDown
<1>2. TypeOK /\ ShutdownShape /\ [Next]_vars => ShutdownShape'
  <2> SUFFICES ASSUME TypeOK, ShutdownShape, [Next]_vars PROVE ShutdownShape'
    OBVIOUS
  <2>1. CASE UNCHANGED vars
    BY <2>1 DEF vars, hookVars, contextVars, ShutdownShape, ShutDown, NothingLeft
  <2> QED
    BY <2>1, ShutdownByClient, ShutdownByOthers DEF Next, CaptureCrashes
<1>3. ShutdownShape /\ [Next]_vars
        => [ShutDown /\ hook # "active" => hook' # "active"]_vars
  <2> SUFFICES ASSUME ShutdownShape, Next, ShutDown, hook # "active"
               PROVE  hook' # "active"
    OBVIOUS
  <2>1. ~Alive /\ pc = "idle"
    BY DEF ShutdownShape, ShutDown, NothingLeft, Alive
  <2>2. ~ClientStep
    BY <2>1
       DEF ClientStep, FindWindow, InitKeepalive, InitPipe, AttemptExistingHook,
           InjectGraphicsHook, InitTextureMutexes, InitHookInfo, InitEvents,
           SignalInit, SignalRestart, EventStep, Poll, PollFinds, PollSleeps,
           PollGivesUp, ForceStop, ClearStop, RestartAgain, InitAgain, Succeed,
           OpenHookInfo, OpenTexture, SignalStop, Release, Refresh, Read
  <2>3. CASE Call
    BY <2>3
       DEF Call, CallAttach, CallShutdown, CallCapture, SetCaptureOverlays,
           Signal, hookVars
  <2>4. CASE ClientDies \/ CaptureCrashes
    BY <2>4 DEF ClientDies, CaptureCrashes, sharedVars
  <2>5. CASE ExternalHook
    BY <2>1, <2>5
       DEF ExternalHook, HookStep, HookReact, HookLoad, HookStart, HookStop,
           HookInit, HookIgnore, HookResize
  <2> QED
    BY <2>2, <2>3, <2>4, <2>5 DEF Next
<1>4. ShutdownShape => (ShutDown => NothingLeft)
  BY DEF ShutdownShape
<1> QED
  BY <1>1, <1>2, <1>3, <1>4, TypeCorrect, PTL DEF Spec, NothingRevives

=============================================================================
