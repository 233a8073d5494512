---------------------------- MODULE HandleOwner ----------------------------
(***************************************************************************)
(* Who closes which handle.  A Capture holds a Context: most of its        *)
(* handles in wrappers behind unique_ptr (Mutex, NamedPipe, Event), which  *)
(* close them when they go, and two mapped views in plain pointers, which  *)
(* only shutdown() and refreshSharedTexture() close.  Capture declares no  *)
(* destructor and no moves, so the compiler's are used: a move takes the   *)
(* unique_ptrs along and copies the plain pointers.                        *)
(*                                                                         *)
(* A handle is a value that Windows gives out again once it is closed.     *)
(* One member stands for the like ones: "keepalive" for all the wrappers,  *)
(* of which attach() acquires that one first; a view and its mapping are   *)
(* one handle.  Temporary wrappers leave no trace but when one cannot be   *)
(* made.  The handles of the helper programs are those of HelperProcess.   *)
(***************************************************************************)
CONSTANTS
  Objects,        \* Capture objects
  Handles,        \* values of handles
  Null

ASSUME HandleAssumption == Null \notin Handles

VARIABLES
  life,           \* "unborn", "live", or "moved": moved from
  attaching,      \* the next step of an attach() under way, or "no"
  member,         \* the handle each member of each Context holds
  table,          \* what each handle value is: "free", "ours", "other",
                  \* or a handle the library has let go of (LetGo)
  dangling,       \* members whose handle was closed behind their back
  foreign,        \* history: a close hit a handle that was not the closer's
  misused,        \* history: a call was made on an object moved from
  abandoned       \* history: an object with views went without shutdown()

history == <<foreign, misused, abandoned>>
vars == <<life, attaching, member, table, dangling, history>>

Smart == {"keepalive"}
Plain == {"hookInfo", "textureData"}
Members == Smart \cup Plain

(* The process that attach() looked at, and what a wrapper was to close    *)
(* that could not be made.                                                 *)
LetGo == {"process", "unwrapped"}

TypeOK ==
  /\ life \in [Objects -> {"unborn", "live", "moved"}]
  /\ attaching \in [Objects -> {"no", "keepalive", "hookInfo", "views"}]
  /\ member \in [Objects -> [Members -> Handles \cup {Null}]]
  /\ table \in [Handles -> {"free", "ours", "other"} \cup LetGo]
  /\ dangling \subseteq Objects \X Members
  /\ {foreign, misused, abandoned} \subseteq BOOLEAN

Empty == [m \in Members |-> Null]

Init ==
  /\ life = [o \in Objects |-> "unborn"]
  /\ attaching = [o \in Objects |-> "no"]
  /\ member = [o \in Objects |-> Empty]
  /\ table = [h \in Handles |-> "free"]
  /\ dangling = {}
  /\ foreign = FALSE /\ misused = FALSE /\ abandoned = FALSE

-----------------------------------------------------------------------------
(* Handles *)

Holds(o, m) == member[o][m] # Null
HandlesOf(o, M) == {member[o][m] : m \in M} \ {Null}
Holding(H) == {r \in Objects \X Members : member[r[1]][r[2]] \in H}

Open(h, as) == table[h] = "free" /\ table' = [table EXCEPT ![h] = as]

(* CloseHandle through the members M of o.  Its members in N no longer     *)
(* hold what they held; any other one with the same value dangles.         *)
Close(o, M, N, tableBefore) ==
  LET closed == HandlesOf(o, M)
  IN /\ table' = [h \in Handles |->
                    IF h \in closed THEN "free" ELSE tableBefore[h]]
     /\ dangling' = (dangling \cup Holding(closed)) \ ({o} \X N)
     /\ foreign' = (foreign \/ \E m \in M : <<o, m>> \in dangling)

(* A member takes a new value: it does not dangle. *)
Set(o, m, h) ==
  member' = [member EXCEPT ![o] = [@ EXCEPT ![m] = h]]

Called(o) == misused' = (misused \/ life[o] = "moved")

-----------------------------------------------------------------------------
(* A Capture *)

Construct(o) ==
  /\ life[o] = "unborn"
  /\ life' = [life EXCEPT ![o] = "live"]
  /\ UNCHANGED <<attaching, member, table, dangling, history>>

Attaches(o) == attaching[o] # "no"
GoesOnWith(o, step) == attaching' = [attaching EXCEPT ![o] = step]

(* A member takes a new handle over whatever it held. *)
Acquire(o, m) ==
  /\ \E h \in Handles : Open(h, "ours") /\ Set(o, m, h)
  /\ dangling' = dangling \ {<<o, m>>}

(* is32BitProcess opens the target, if it may, and never closes it. *)
AttachBegins(o) ==
  /\ life[o] # "unborn" /\ ~Attaches(o)
  /\ UNCHANGED table \/ \E h \in Handles : Open(h, "process")
  /\ GoesOnWith(o, "keepalive")
  /\ Called(o)
  /\ UNCHANGED <<life, member, dangling, foreign, abandoned>>

(* An attach on top of a session is rejected. *)
NewSession(o) == ~Holds(o, "keepalive")

AcquireKeepalive(o) ==
  /\ attaching[o] = "keepalive"
  /\ NewSession(o)
  /\ Acquire(o, "keepalive")
  /\ GoesOnWith(o, "hookInfo")
  /\ UNCHANGED <<life, history>>

(* NamedPipe::create, Mutex::create or, also in setCaptureOverlays,        *)
(* FileMapping::open throws between opening the handle and making its      *)
(* wrapper, and the attach() under way with it.                            *)
WrapperFails(o) ==
  /\ life[o] # "unborn" /\ attaching[o] # "views"
  /\ attaching[o] = "keepalive" => NewSession(o)
  /\ \E h \in Handles : Open(h, "unwrapped")
  /\ GoesOnWith(o, "no")
  /\ Called(o)
  /\ UNCHANGED <<life, member, dangling, foreign, abandoned>>

(* openMappedView of the hook info; a pointer left by a move is forgotten. *)
AcquireHookInfo(o) ==
  /\ attaching[o] = "hookInfo"
  /\ Acquire(o, "hookInfo")
  /\ GoesOnWith(o, "views")
  /\ UNCHANGED <<life, history>>

(* Anything may throw, and shutdown() is not called. *)
AttachEnds(o) ==
  /\ Attaches(o)
  /\ GoesOnWith(o, "no")
  /\ UNCHANGED <<life, member, table, dangling, history>>

(* Slip: the view replaced is not closed. *)
ReplaceLeaks(o, h) ==
  /\ Open(h, "ours") /\ Set(o, "textureData", h)
  /\ dangling' = dangling \ {<<o, "textureData">>}
  /\ UNCHANGED foreign

(* The new view is opened before the old one is closed. *)
Replace(o, h) ==
  /\ table[h] = "free"
  /\ Close(o, {"textureData"}, {"textureData"}, [table EXCEPT ![h] = "ours"])
  /\ Set(o, "textureData", h)

(* refreshSharedTexture, at the end of attach and in every capture call,   *)
(* when the capture it remembers has been replaced.                        *)
Refresh(o) ==
  /\ life[o] # "unborn" /\ attaching[o] \in {"no", "views"}
  /\ Holds(o, "hookInfo")
  /\ \E h \in Handles : Replace(o, h)
  /\ Called(o)
  /\ UNCHANGED <<life, attaching, abandoned>>

(* Slip: closeMappedView leaves the pointer it closed. *)
ForgottenPointers(o) ==
  member' = [member EXCEPT ![o] = [m \in Members |->
               IF m \in Plain THEN member[o][m] ELSE Null]]

(* Every pointer is null again. *)
Forgotten(o) == member' = [member EXCEPT ![o] = Empty]

Shutdown(o) ==
  /\ life[o] # "unborn" /\ ~Attaches(o)
  /\ Close(o, Members, Members, table)
  /\ Forgotten(o)
  /\ Called(o)
  /\ UNCHANGED <<life, attaching, abandoned>>

(* The views that o alone knows of are lost. *)
Abandons(o) ==
  abandoned' = (abandoned \/ \E m \in Plain : Holds(o, m))

(* The implicit destructor closes what the wrappers own. *)
Destroy(o) ==
  /\ life[o] # "unborn" /\ ~Attaches(o)
  /\ Close(o, Smart, Members, table)
  /\ Forgotten(o)
  /\ life' = [life EXCEPT ![o] = "unborn"]
  /\ IF life[o] = "live" THEN Abandons(o) ELSE UNCHANGED abandoned
  /\ UNCHANGED <<attaching, misused>>

(* What a move leaves behind: the plain pointers. *)
MovedFrom(o) ==
  [m \in Members |-> IF m \in Plain THEN member[o][m] ELSE Null]

(* The implicit move constructor (of an unborn p) and assignment; the      *)
(* latter first closes what the wrappers of p own.                         *)
Move(o, p) ==
  /\ o # p
  /\ life[o] = "live" /\ life[p] # "moved"
  /\ ~Attaches(o) /\ ~Attaches(p)
  /\ table' = [h \in Handles |->
                 IF h \in HandlesOf(p, Smart) THEN "free" ELSE table[h]]
  /\ member' = [member EXCEPT ![p] = member[o], ![o] = MovedFrom(o)]
  /\ dangling' = (dangling \ ({p} \X Members))
                 \cup {<<p, m>> : m \in {n \in Plain : <<o, n>> \in dangling}}
  /\ life' = [life EXCEPT ![p] = "live", ![o] = "moved"]
  /\ Abandons(p)
  /\ UNCHANGED <<attaching, foreign, misused>>

-----------------------------------------------------------------------------
(* The rest of the process opens and closes handles of its own. *)
OtherOpens(h) ==
  /\ Open(h, "other")
  /\ UNCHANGED <<life, attaching, member, dangling, history>>

OtherCloses(h) ==
  /\ table[h] = "other"
  /\ table' = [table EXCEPT ![h] = "free"]
  /\ UNCHANGED <<life, attaching, member, dangling, history>>

Next ==
  \/ \E o \in Objects :
       \/ Construct(o) \/ AttachBegins(o) \/ AcquireKeepalive(o)
       \/ WrapperFails(o) \/ AcquireHookInfo(o) \/ AttachEnds(o)
       \/ Refresh(o) \/ Shutdown(o) \/ Destroy(o)
       \/ \E p \in Objects : Move(o, p)
  \/ \E h \in Handles : OtherOpens(h) \/ OtherCloses(h)

Spec == Init /\ [][Next]_vars

-----------------------------------------------------------------------------
(* Properties *)

(* Whatever attaches failed, views were swapped and objects were moved,    *)
(* destroyed or shut down twice: no CloseHandle hits a handle that was     *)
(* closed before or given to someone else since, as long as nothing but    *)
(* destruction is done to an object moved from (obsc.cpp:61-72, 160-192).  *)
ClosesOwnHandles == foreign => misused

(* A handle the library has open and that no member of a live object will  *)
(* close is the process of an attach() (utils.cpp:185), or was never       *)
(* wrapped (pipe.cpp:14, mutex.cpp:15, file_mapping.h:34), or belonged to  *)
(* an object that went without shutdown() (context.h:41-44).               *)
LossesKnown ==
  \A h \in Handles : table[h] \notin {"free", "other"} =>
    \/ table[h] \in LetGo
    \/ abandoned \/ misused
    \/ \E r \in Holding({h}) : r \notin dangling /\ life[r[1]] = "live"

=============================================================================
