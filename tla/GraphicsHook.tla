---------------------------- MODULE GraphicsHook ----------------------------
(***************************************************************************)
(* What a capture client shares with the graphics hook inside the target   *)
(* process: four named events, the existence of the keepalive mutex, the   *)
(* hook-info block; and the hook itself.                                   *)
(*                                                                         *)
(* The hook is OBS's graphics-hook DLL, which is not in this repository.   *)
(* Its actions below are EXTERNAL: they are what src/src/obsc.cpp says of  *)
(* the hook where it uses it (lines 97-98, 162-163, 196, 428-429, 448,     *)
(* 452-453, 470).  The event operators are those of src/src/event.cpp.     *)
(***************************************************************************)
EXTENDS Naturals

CONSTANTS
  CaptureTypes,   \* capture types a hook initialisation may choose
  HookFaults      \* may an initialisation inside the hook fail?

ASSUME HookAssumption ==
  /\ CaptureTypes \subseteq {"Texture", "Memory"}
  /\ HookFaults \in BOOLEAN

VARIABLES
  hook,           \* life of the hook in the target process
  signalled,      \* the named events that are signalled
  keepalive,      \* the process whose name the client's keepalive mutex
                  \* carries, "none" when the client holds no such mutex
  hookType,       \* HookInfo::type, written by the hook
  hookOverlay,    \* HookInfo::capture_overlay, written by the client
  textureData,    \* Context::textureDataView: none, or which publication of
                  \* the hook it maps (its current one or an older one)
  sourceTexture,  \* Context::sourceTexture, classified likewise
  restartBy,      \* history: who signalled the Restart event now pending
  lastInit        \* history: none, or did the hook last initialise its
                  \* capture under the client's current keepalive mutex?

hookVars == <<hook, signalled, keepalive, hookType, hookOverlay,
              textureData, sourceTexture, restartBy, lastInit>>

(* The process the hook can live in, and another one owning a window with  *)
(* the same title, into which the helper cannot inject.                    *)
Pids == {"target", "other"}

Events == {"Restart", "Stop", "Init", "Ready"}

(* Who may signal Restart: a client; a hook that is told to stop; a hook   *)
(* whose target recreates its swap chain.                                  *)
Causes == {"client", "stop", "resize"}

(* What maps or records something of the hook's: nothing, the present one, *)
(* or an older one.                                                        *)
Views == {"none", "current", "stale"}

Overlays == {"on", "off"}

HookTypeOK ==
  /\ hook \in {"absent", "injected", "loaded", "idle", "active"}
  /\ signalled \subseteq Events
  /\ keepalive \in {"none"} \cup Pids
  /\ hookType \in {"Texture", "Memory"}
  /\ hookOverlay \in Overlays
  /\ textureData \in Views
  /\ sourceTexture \in Views
  /\ restartBy \subseteq Causes
  /\ lastInit \in Views

HookInit0 ==
  /\ hook = "absent"
  /\ signalled = {}
  /\ keepalive = "none"
  /\ hookType = "Memory"
  /\ hookOverlay = "off"
  /\ textureData = "none"
  /\ sourceTexture = "none"
  /\ restartBy = {}
  /\ lastInit = "none"

-----------------------------------------------------------------------------
(* The DLL is in the target and has created its events and hook info. *)
Resident == hook \in {"loaded", "idle", "active"}

(* The hook finds the mutex that tells it a client is there. *)
Alive == keepalive = "target"

Age(view) == IF view = "current" THEN "stale" ELSE view

(* The injected DLL is loaded by the target, some time after the helper    *)
(* exited: its events and a zeroed hook-info block come into being.        *)
HookLoad ==
  /\ hook = "injected"
  /\ hook' = "loaded"
  /\ signalled' = {}
  /\ restartBy' = {}
  /\ hookType' = "Memory"
  /\ hookOverlay' = "off"
  /\ UNCHANGED <<keepalive, textureData, sourceTexture, lastInit>>

(* Init releases a fresh hook's capture_loop. *)
HookStart ==
  /\ hook = "loaded"
  /\ "Init" \in signalled
  /\ hook' = "idle"
  /\ signalled' = signalled \ {"Init"}
  /\ UNCHANGED <<keepalive, hookType, hookOverlay, textureData, sourceTexture,
                 restartBy, lastInit>>

(* A present of an active hook finds Stop signalled or the keepalive gone: *)
(* the capture is freed, which Restart announces.                          *)
HookStop ==
  /\ hook = "active"
  /\ "Stop" \in signalled \/ ~Alive
  /\ hook' = "idle"
  /\ signalled' = (signalled \ {"Stop"}) \cup {"Restart"}
  /\ restartBy' = restartBy \cup {"stop"}
  /\ UNCHANGED <<keepalive, hookType, hookOverlay, textureData, sourceTexture,
                 lastInit>>

(* The target resizes or recreates its swap chain: the capture is freed,   *)
(* which Restart announces, and the handle the client holds goes stale.    *)
HookResize ==
  /\ hook = "active"
  /\ hook' = "idle"
  /\ signalled' = signalled \cup {"Restart"}
  /\ restartBy' = restartBy \cup {"resize"}
  /\ UNCHANGED <<keepalive, hookType, hookOverlay, textureData, sourceTexture,
                 lastInit>>

(* A present sees "!active + Restart signalled + keepalive alive": the     *)
(* hook publishes a new capture, under a new map_id, and fires HookReady.  *)
HookInit ==
  /\ hook = "idle"
  /\ "Restart" \in signalled
  /\ Alive
  /\ hook' = "active"
  /\ signalled' = (signalled \ {"Restart"}) \cup {"Ready"}
  /\ restartBy' = {}
  /\ hookType' \in CaptureTypes
  /\ textureData' = Age(textureData)
  /\ sourceTexture' = Age(sourceTexture)
  /\ lastInit' = "current"
  /\ UNCHANGED <<keepalive, hookOverlay>>

(* A present of an idle hook takes the Restart and initialises nothing:    *)
(* no client is alive, or the initialisation failed.                       *)
HookIgnore ==
  /\ hook = "idle"
  /\ "Restart" \in signalled
  /\ Alive => HookFaults
  /\ signalled' = signalled \ {"Restart"}
  /\ restartBy' = {}
  /\ UNCHANGED <<hook, keepalive, hookType, hookOverlay, textureData,
                 sourceTexture, lastInit>>

(* What the hook does on its own as soon as the target presents. *)
HookReact == HookLoad \/ HookStart \/ HookStop \/ HookInit \/ HookIgnore

HookStep == HookReact \/ HookResize

(* Nothing is left for the hook to react to. *)
HookQuiet ==
  /\ hook # "injected"
  /\ ~(hook = "loaded" /\ "Init" \in signalled)
  /\ ~(hook = "idle" /\ "Restart" \in signalled)
  /\ ~(hook = "active" /\ ("Stop" \in signalled \/ ~Alive))

=============================================================================
