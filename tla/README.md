# obs-c in TLA+

obs-c is a C++ library for Windows that captures the frames of another process
with OBS's graphics hook. A client calls `Capture::attach()`, then capture
functions, then `shutdown()`; the hook, a DLL inside the target process, copies
each frame into a texture that both processes share. The two sides talk through
named events, a named mutex, two blocks of shared memory and a log pipe, and
neither side waits for a lock of the other. Before that, helper programs inject
the hook and print the addresses it needs, as a TOML document that the vendored
toml11 reads. These modules model that protocol, the state the client keeps for
it, the helpers, and the reader.

## The system

| part | source | state | operations |
|---|---|---|---|
| capture session | `src/src/obsc.cpp`, `context.h`, `obsc.h` | `Context`: pid, keepalive and texture mutexes, pipe, five events, hook info view, device; `CaptureConfig` | `attach` and its init functions, `waitHookReady`, `shutdown`, `captureFrame`, `captureStrip(Into)`, `getPixel`, `setCaptureOverlays` |
| graphics hook (external) | used from `obsc.cpp` | absent, injected, loaded, idle or active | load, start, initialise, stop, lose its swap chain |
| shared texture | `refreshSharedTexture`, `openMappedView`, `openResource` | texture data view, hook window, map id, texture handle, source texture | refresh |
| staging caches | `mapResource`, `captureStripInto`, `captureFrame` | two staging textures with surface and description, the mapped surface | ensure, copy, map, unmap, reset |
| log pipe | `src/src/pipe.cpp` | pipe handle, thread, `threadRunning`, one overlapped operation | create, read loop, destructor |
| handle wrappers | `event.cpp`, `mutex.cpp`, `file_mapping.h`, `context.h` | one handle each; the members of `Context` that own them, and two views that nobody owns | create, open, signal, reset, wait, close; construct, move, destroy |
| helper processes | `utils.cpp`, `graphics_offsets.h` | an anonymous pipe, a child process | run and read its output; inject |
| graphics offsets | `graphics_offsets.h` | none | read ten numbers out of the helper's output |
| toml11 (vendored) | `toml11.h` | a location in a text, the tables read so far, the errors reported | scan, parse, skip what is broken, insert, report |
| device, bitness | `utils.cpp` | none | create a D3D11 device; is the target 32-bit |
| debug output, build, CI | `debug.h`, configuration | | not modelled |

How they interact. `attach` takes the keepalive mutex, creates the log pipe,
pings a resident hook with Restart or has a helper process inject one, writes
the options into the hook info, opens the hook's events, drives the handshake
(`waitHookReady`: signal Init and Restart, poll HookReady, then up to six times
force a stop and start again) and opens the shared texture. Each capture call
first consumes a pending Restart, by which the hook says that its capture was
freed, and re-attaches; then it refreshes the shared texture, copies it to a
staging texture and maps that. `shutdown` signals Stop and drops every handle.

What is hard about it:

- *Interleaving with the hook.* The events are auto-reset and some are consumed
  by both sides; every signal, poll and reset of the client can have hook steps
  before and after it. A leftover event of one session acts in the next.
- *Failure half-way.* Nearly every step of `attach` may throw, and what was
  acquired stays. A second `attach`, a capture or a `shutdown` may follow.
- *Crashes.* A client may die; the hook notices only by the missing keepalive,
  which the next client takes again.
- *Unlocked reads.* The ids of the shared texture are read word by word.
- *Waiting.* `waitHookReady` polls with bounds; the pipe's destructor joins a
  thread that waits without one.
- *Inheritance.* Every child of the process inherits the pipes of calls that other
  threads are making; a call ends when the last holder of its pipe has.
- *Broken documents.* The reader goes on after an error, to report more of them:
  it skips to where it can take hold again, reads what has failed a second time,
  and inserts into tables that were refused.
- *Caches.* Texture, views and staging textures are reused when remembered
  values match, after failures too.

## What should hold

- session: the keepalive mutex guards everything else a session holds; no handle
  is overwritten; an attached session is whole; no event of the client's own is
  left to disturb it; the overlay option reaches the hook; calls return; a hook
  that keeps up is always recovered; a shutdown idles the hook.
- shared texture: "refreshed" means not superseded, a failed refresh leaves the
  texture as it was; torn reads do no lasting harm.
- staging: copies go into unmapped textures of the right size, `Map` has a
  surface, rectangles lie in the source.
- pipe: no wait in vain, the destructor returns, the hook's write is not stuck.
- helpers: a call that returns has the whole output, one that throws closes its
  handles, none waits for ever.
- handles: each is closed once, by who opened it; which may be lost is known.
- offsets: those the helper printed, or an exception.
- reader: values as TOML writes them; a document rejected when and only when
  something is wrong with it; no name with two values, nothing put into an inline
  value, nothing redefined; an end to the reading; reports that show the error.

`PROJECT.json` lists the hazards line by line with the property that covers each.

## Modules

| module | models | extends |
|---|---|---|
| `GraphicsHook` | what client and hook share, and the hook's actions (external) | |
| `Capture` | the session: one action per step of a call | `GraphicsHook` |
| `CaptureSession` | abstract contract of a session | |
| `TextureContract` | abstract contract of `refreshSharedTexture` | |
| `CaptureRefinement` | the mappings from `Capture` to the two | `Capture` |
| `CaptureProofs`, `RefinementProofs` | proofs | `Capture`, `CaptureRefinement` |
| `SharedTexture` | `refreshSharedTexture`, read by read | |
| `SharedTextureProofs` | proofs | `SharedTexture` |
| `StagingCache` | `mapResource`, `captureStripInto`, `captureFrame` | |
| `StagingProofs` | proofs | `StagingCache` |
| `NamedPipe` | the pipe's thread, its destructor, Windows and the hook's writes | |
| `PipeProofs` | proofs | `NamedPipe` |
| `HelperProcess` | `runProcessAndCaptureOutput` and its two callers, the helpers | |
| `HelperProofs` | proofs | `HelperProcess` |
| `HandleOwner`, `MCHandleOwner` | the handles of `Context`; its instance | |
| `HandleOwnerProofs` | proofs | `HandleOwner` |
| `TomlScanner` | scanners and the syntax made of them | |
| `TomlScalars` | calendar, binary integers and UTF-8, the arithmetic of the parse functions | |
| `TomlReading` | parse functions of keys and values | `TomlScanner`, `TomlScalars` |
| `TomlTable` | `insert_value`, step by step | |
| `TomlProofs` | proofs | `TomlTable`, `TomlScalars` |
| `TomlFile` | `parse_file` with its recovery from errors | `TomlReading`, `TomlTable` |
| `TomlLocation` | locations, regions and the report of an error | `TomlReading` |
| `GraphicsOffsets` | `loadGraphicsOffsets` | `TomlFile` |
| `MCToml` | texts for the reader, what they mean, its properties | `GraphicsOffsets`, `TomlLocation` |

**GraphicsHook.** `hook` is the hook's life. `signalled` is the set of named
events that are signalled; an action that waits successfully removes its event.
`keepalive` is the pid in the name of the mutex the client holds. `hookType` and
`hookOverlay` are fields of `HookInfo`. `textureData` and `sourceTexture` say
whether the client's view and texture are of the hook's current publication or
an older one. `restartBy` and `lastInit` are history: who signalled the Restart
that is pending, and whether the hook initialised under the present keepalive.
The DLL's code is not here; its actions say what the comments of `obsc.cpp`
(lines 97, 162, 196, 428, 448, 452, 470) say of it, and may happen between any
two steps of the client.

**Capture.** `pc` names the next step of the call in progress. A step is one
access to something shared, or one init function, so that the hook can act
between any two; `Throw` is an alternative of each step that may throw. `held`
and `opened` are the members of `Context` that are not null. The recovery loop
of `waitHookReady` is `phase`, its sleeps are `polls`. A capture call that
consumes Restart runs `shutdown` and `attach` inside itself, as the code does.
`setCaptureOverlays` may fail to open or map the hook info of a resident hook and
then returns in silence; `swallowed` remembers that until the option is next
pushed or written.
`ClientDies` may happen at any point: the handles go, the hook stays.

**CaptureSession / CaptureRefinement.** The contract has four states (detached,
attaching, attached, partial) and one flag, whether the hook captures. Under the
mapping, a session exists exactly while the keepalive mutex does. What it says:
no attach starts on top of a session or its remains; only a whole release lets
go; the hook captures for sessions only; an attach ends; a hook without a
session stops.

**TextureContract.** What a refresh promises, with handles and mappings left out:
the texture is none, current or stale; a refresh succeeds only with one that was
current at some time during it, a failed one leaves what is held and throws only
if that had to be replaced, and only the end of the session drops it. Two modules
implement it: `SharedTexture`, read by read, and `Capture`, where the function is
one step.

**SharedTexture.** The hook allocates a publication (a map id, a window, a type,
a texture with a handle no held texture has), writes its four words in any
order, and frees it. The client's reads of `type`, `window`, `map_id` and
`tex_handle` are separate steps. `device` is whether the session has one: without
it a refresh answers by what it holds; an attach gives none to a memory capture, and
may be refused one. In `Capture` the same
function is one step; this module has the detail.

**StagingCache.** A call is refresh, prepare (unmap, bounds), ensure (reuse or
build), copy, map, deliver. Each device call may fail where the code checks for
it. A rectangle is modelled on one axis, since the code tests and copies both
alike; UINT arithmetic wraps at `UintSize`. Whether `As()` finds a surface
depends on the format, as it does in Direct3D (arrays and mip chains have none).

**NamedPipe.** `pending`, `readyEvent` and `status` are the one `OVERLAPPED` of
the thread. The destructor is three steps: clear the flag, close, join. `handle`
says what the handle value names: the pipe, nothing, or what another thread of
the process opened since.

**HelperProcess.** `pc` is the next call of Windows of each call of
`runProcessAndCaptureOutput`; `open` and `inheritable` are the handles it has.
`ends` are the ends of pipes each helper holds: at its start all that are
inheritable in the process, those of other calls included. Helpers write, start
a process of their own, exit and crash; a write waits while the pipe is full.

**HandleOwner.** `table` says whose each handle value is; `member` is what the
members of each `Context` hold. One member stands for the like ones. A handle
closed through one object while another member still has its value leaves that
member `dangling`; a close through it is recorded in `foreign`. Handles that the
library lets go of have values of `table` of their own: the target process that
`is32BitProcess` opens on every attach, and what was opened for a wrapper that
then could not be made. `Event::create`
and `open` return a named local, which compilers do not copy; the model has it
in place.

**TomlScanner, TomlReading.** A scanner is a record, as in the code it is an
object; `Scan(g, s, i)` is the place after what `g` takes from place `i` of text
`s`. Beside `Scan`, `Ends(g, s, i)` is the set of places a grammar that may go back
would reach. A parse function takes a text and a place and ends in a value and
the place after it, or in an error. Integers have `Width` bits, for 64.

**TomlTable.** `nodes` are the values read so far, each with its key, its parent
and how it came about (`fmt`); a level of `keys` is one step of `insert_value`.

**TomlFile.** The functions that call each other and go on after errors are a
stack machine: `stack` holds the frames of `parse_array`, `parse_inline_table` and
the skip functions, `do` says whether a call is entered, goes on or returns,
`errors` counts what was reported and `since` where a table began. What cannot
fail in between is one step. The pairs below a refused header are compared with
each other in `dropped`, the temporary table of the code. `MaxDepth` and `MaxErrors` bound the frames and the
count.

**TomlLocation.** A location is a place and the line number carried along; a
region has both ends, with lines and columns; a report is the lines shown with
their underlines. Names of files, colours and messages are left out. The error
of an escape sequence is reported at its place in a temporary text
(`make_temporary_location`), under another name and line: the same operators on
another text.

## Runs

| run | question | bounds |
|---|---|---|
| `session` | what a session holds and leaves behind, over all interleavings; the option reaches the hook; calls return, shutdown idles the hook, `Capture` implements `CaptureSession` | two processes own such a window, both capture types, faulty hook, 2 recovery phases, 1 sleep |
| `recovery` | is a hook that keeps up always recovered | 1 phase (with none the property fails, so the phase is what recovers), the target is the only owner |
| `shared_texture` | torn reads, reused handles, false alarms; `SharedTexture` implements `TextureContract` | 3 publications, 2 windows, 2 handles, both types |
| `staging_cache` | caches after any failures, bounds test with wrap-around | textures up to 3, UINTs of 3 bits, 2 formats of which one has no surface |
| `pipe` | destructor against reading thread; the hook's write | buffer of 2 messages, all kinds of messages, early connection, handle reuse |
| `helper_process` | whole output, closed handles, an end to every wait | two calls at once, one with a grandchild; two writes each into a buffer of one |
| `handle_owner` | each handle closed once, none lost but the known ones | two objects, four handle values, shared with the rest of the process |
| `toml` | is a text read as TOML has it, does the reading end, does a report show the right place | seeds and up to four edits, see below; integers of 8 bits, 12 frames |
| `spurious_reattach`, `dropped_restart`, `stale_ready`, `toml_hang` | four statements of the repository the code does not keep | as small as shows them |

Why the bounds are enough. Phases and sleeps repeat the same steps from the same
kinds of states; two phases contain a first, a middle and a last transition, and
the proofs cover any number. Two owners of the window title are the one the hook
lives in and one that it does not. Publications matter by being held, current or
in the making: three. Two handles are as many as textures can be held at once.
A texture of length 3 has inner, edge and outside positions, and an 8-valued
UINT wraps for all that a 32-bit one wraps for. Two calls of a helper are one and
the stranger that holds its pipe. With four handle values one object can have a
whole session and replace its view, or two objects hold handles at once, or a lost
handle lie beside both, and values are reused.

The texts of `toml` are all that come about from its seeds by inserting, deleting
or replacing so many characters out of a small alphabet: for each topic (numbers,
dates, strings, nested values, headers, broken documents, the helper's output,
lines) the seeds lie at the edges the reader tells apart, such as the largest
integer, the last surrogate, a leap day, a table opened in two ways, or a broken
array before a header. Among nested values and headers, which have many texts, a
replacement is a deletion and an insertion. The output of the helper is cut off
at every place.

Fairness. `Capture!FairSpec` is fair to the client's own steps (a call in
progress runs on its thread; its waits are bounded, and the helper processes are
taken to end) and to the hook's reactions (the target presents frames). It is
not fair to calls, deaths, resizes, or to any particular outcome of a step.
`Responsive` (only in `recovery`) says that the hook reacts within the client's
sleeps of 150, 800 and 1200 ms; it is an assumption about time. In `NamedPipe` both
threads are scheduled and Windows completes a write that has room; nothing is
assumed of the hook. `SharedTexture` and `StagingCache` have safety properties
only.

In `HelperProcess` a call in progress runs, and a helper that can write or exit
does: helpers end, which is what the two unlimited waits of the code rely on.
Nothing is assumed of crashes, or of calls being made. In `MCToml` a reader that
is busy takes a step; that is stated through `tick`, which every step changes,
because the enabledness of the reader is costly to compute and known: it stops
only at the end, as the run without deadlock shows.

`WriterNotBlocked` names the two known ways to block the hook (`GaveUp`): a
connection before the thread listens (`ERROR_PIPE_CONNECTED` is taken for an
error, `pipe.cpp:122`) and a message that does not fit (`pipe.cpp:47`) both end
the thread while the pipe stays open. In the same way `NothingLeaked` names the three
throws that leave handles open (`utils.cpp:37`, `51` and `76`), `LossesKnown` the
handles that nobody closes, `ReadingEnds` the texts on which the recovery goes in a
circle, `ClosesOwnHandles` the use of an object moved from, `OverlayInEffect` a push
that failed in silence, and `NoFalseAlarm` the want of a device.

Each property has a seeded slip, an operator under a comment "Slip:", that
makes the code go wrong the way an edit could, and under which TLC finds the
property violated.

## Findings

- A Stop signalled by `shutdown` to an idle hook is still pending when the next
  session's hook becomes active and stops it (`spurious_reattach`).
- The Restart that `succeed` drops may be the hook's own (`dropped_restart`).
- A HookReady nobody consumed ends a later handshake too early (`stale_ready`).
- After a comment with a control character the reader skips comments, but stands
  still before the next `#` for ever (`toml_hang`).

Seen on the way, without a run of their own:

- `getPixel` throws when the refresh or the re-attach does, where `obsc.h:58`
  promises an empty result: they stand before the `try` (`obsc.cpp:231`).
- `setCaptureOverlays` does not push the option when opening or mapping the hook
  info fails, or when a second, rejected `attach` has overwritten the pid by which it
  finds the hook (`obsc.cpp:94-104`, `113`), and says nothing; `obsc.h:48` has "if
  attached, pushes to the live hook info".
- Every `attach` leaves a handle of the target process open (`utils.cpp:185`).
- What was opened for a wrapper is lost when making the wrapper throws, for want of
  memory or, with the pipe, of a thread (`pipe.cpp:14-17`, `mutex.cpp:15`,
  `file_mapping.h:34`).
- An anonymous pipe stays open when a helper's command line cannot be copied, its
  output not stored, or the pipe's own handle not shielded from inheritance
  (`utils.cpp:51`, `76`, `37`).
- The recovery from a broken array may read the same line for ever (`x=[`, then
  `[1 [a=1`), or, for a table in an array, call itself without end.
- A header may stand on the line of a pair (`a=1 [b]`).
- The report that a key is missing from an empty document asks for a string of
  2^64 - 1 blanks and throws `std::length_error`: the message when a helper ended
  before it printed anything.
- A report of several lines underlines one character more than the region has on
  its last line; that of a broken comment shows the line after it
  (`toml11.h:12028-12033`).
- An output cut in its last number is accepted, since the exit code of the helper
  is not asked for; numbers beyond 32 bits are narrowed in silence.

## Proofs

TLAPS checks the theorems for every value of the constants that satisfies the
named assumptions (`HookAssumption`, `CaptureAssumption`, `StagingAssumption`,
`PipeAssumption`, `SharedTextureAssumption`, `HelperAssumption`,
`HandleAssumption`); those about `TomlTable` and `TomlScalars` need none. A
theorem that assumes more says so in an `ASSUME` of its own.

`CaptureProofs`. The safety properties are not inductive: that no init function
overwrites a handle depends on which step the call is at and on what earlier
steps acquired. The invariant `IInv` adds `Shape`, which says for every step of
a call what `Context` holds there, and outside the calls that nothing is held
without the keepalive. From it follow `TypeCorrect`, `GuardedByKeepalive`,
`NeverOverwrites`, `WholeWhenAttached`, `OwnRestartDropped`. `OverlayKept` has
its own invariant on top, with any number of owners of the window title; what it
excepts is the push that failed in silence, until the next one. `RecoverySucceeds` assumes what the run `recovery`
does: a hook that keeps up (`Responsive`), whose initialisations succeed, and at
least one recovery phase. `RecoveryShape` follows a phase through: after the
forced Stop the hook is idle or has HookReady signalled (`StopTaken`), after
Restart and Init are signalled again it has a Restart to take or is ready
(`RestartSeen`); so that a quiet hook at the poll is ready, and the last phase
never gives up. `CallsAreBounded` is the safety half of `CallReturns` for every
number of phases and sleeps: `StepsLeft` is an explicit bound, linear in both,
that each step of the client lowers and no step of the hook changes. The other
half, that a step which is enabled happens, is fairness. `ShutdownIsFinal`: after a
shutdown nothing of the session is held, and no idle hook becomes active before
the next call, though the Restart that announced its stop may be signalled. That a
hook still active then stops is `ShutdownIdlesHook`, which is fairness again.

`RefinementProofs`. `CaptureImplementsSession`: initial states map to initial
states, and under `IInv` each action of `Capture` maps to an action of
`CaptureSession` or to a stutter. The fairness part of the refinement is
model-checked. `CaptureKeepsTextureContract` does the same for `TextureContract`; it
needs that a texture is held only along with the hook info and the device
(`TextureOfDevice`).

`SharedTextureProofs`. `IInv` says which publication each word the client can
read belongs to (`WordsInOrder`), that a held texture's handle is not given to a
later one (`HandlesApart`), and what the call's local variables are worth at
each step (`CallIsFresh`, `QuietCall`). From the same invariant
`FramesNeverGoBack`: a texture gives way to a later one only, though its handle
was read earlier and may name another texture by the time it is opened.
`RefreshKeepsContract` puts these together: each step of the hook and of a refresh
maps to a step of `TextureContract` or to a stutter. The step that succeeds is
where `CallIsFresh` is needed; the one that throws needs that what is opened is
never what is held (`HeldIsKnown`). `UndisturbedSucceeds` leaves the want of a device
as the only cause of a false alarm: without it (`NoDevice`) the session is detached,
or was attached before the present capture was complete.

`StagingProofs`. `CachesFitSource` is the heart: everything cached is of the
present source, so a description is remembered either because its texture had a
surface, and then every texture of this source has, or not at all. `FitsExactly`
is the lemma about UINT arithmetic.

`PipeProofs`. The flag is cleared before the handle is closed
(`FlagBeforeHandle`), so that a thread past the loop test is the only one that
can use a closed handle, once; one operation is in progress at a time. Three
theorems are the safety halves of the liveness properties. `ThreadWindsDown`: once
the flag is cleared the thread takes four more steps at most (`ReaderLeft`).
`JoinReturns`: the thread that is joined has ended or can go on, since closing the
handle ended the operation it waited for, unless it reads from what reused the
handle value. `WriterWaitsForSomeone`: a hook blocked in a write waits for a thread
that goes on or an owner that closes, or the thread gave up for one of the causes
in `GaveUp`. What can go on is written out (`ReaderGoesOn`, `WriteGoesOn`), because
`ENABLED` is beyond the prover.

`HelperProofs`. `HelperInv` has the handles that a call has open and a new child
may inherit as a function of its step (`StepHandles`), and that a running helper
holds the write end of its own call's pipe (`RunningWrites`), beside any others it
has inherited. A read loop ends when no write end is left; at that moment no
helper of the call runs, none of another call has its pipe, and no child started
later can get it, since the call's own write end is closed (`EndedForGood`). With
`Conserved`, bytes are written, unread or read, this gives `OutputIsWhole`;
`CallsCloseHandles` follows from `StepHandles`. `OutputStaysWhole` is an action
property: after the loop nothing is written. `WaitsAreShort` and `WritersAreRead` say
that the two waits without limit close no circle, although children hold the pipes
of calls they have nothing to do with: a helper can go on unless its own pipe is
full, and the reader of a full pipe goes on, so that a chain of waits has two
links at most, or ends at a call that threw and let go of its pipe.

`HandleOwnerProofs`. `ClosesOwnHandles` and `LossesKnown` fail once a call is made on
an object moved from, so that the invariant has that as its premise (`misused`).
Until then what a member holds is open and ours unless it dangles (`Owned`), what
is ours is held (`OursHeld`), so that all that is lost is what was let go of or
belonged to an object that went without `shutdown` (`HandlesAreKept`), only
objects moved from have members that dangle (`DanglingWasMoved`), and of the members
that hold one handle at most one is in a live object (`OneOwner`): a move copies
the two views and nulls nothing, and this is why that is harmless as long as the
object moved from is only destroyed. `HoldsByLife` and `AttachesAfresh` add what
an object holds while it is attached.

`TomlProofs`. For every sequence of insertions, of any keys, `Sound`: the nodes
are a tree in which parents come first, no value has anything below it, an array
of tables has a last element that is a table, and names are unique. `Inserting`
adds what the insertion under way has found. The lemmas say what appending a node
and reopening one do to such a tree. `InsertsAsSpecified`, in the run `toml`, carries
the theorems over to `TomlFile`: whatever it skips, it inserts as `TableSpec` says.
`EncodingIsUTF8` and `UTF8IsEncoding` are about escapes: between the numbers that
`parse_utf8_codepoint` accepts and the characters that UTF-8 defines
(`IsCharacter`, which speaks of bytes and knows nothing of the encoder), encoding
and decoding are inverse to each other. The run `toml` has a few characters at the
edges; the theorems have all 1112064. `MonthsAreGregorian` compares the lengths of
months with a day count that knows no table of them. `BinaryIsExact` is the loop of
`read_bin_int` for any number of digits and any width of the integer: the base is
doubled until it has no room and is 0 from then on (`SoFar`), except beyond the last
digit, where it may overflow unread. It is an induction over the digits, for which
`Induction` has the principle for sets of natural numbers, derived from the
well-foundedness of `<`. The digits are given one by one (`Reads`), since the fold
over the text in `TomlReading` is beyond the provers.

Only model-checked: every liveness property (`CallReturns`, `ShutdownIdlesHook`,
`DestructorReturns`, `WriterNotBlocked`, `HelperEnds`, `ReadingEnds`, the fairness of
`ImplementsSession`), since TLAPS has no rules for fairness here, though of all but
`ReadingEnds` a safety half is proved; and what the
reader makes of whole texts (`ChoiceLosesNothing`, `GuessLosesNothing`,
`IntegersAsWritten`, `DatesAsWritten`, `StringsAreUTF8`, `NestingAsWritten`,
`RejectedForCause`, `OffsetsAsPrinted`, `ReportsShowTheText`), since its grammars
are recursive operators and such statements need induction over the text.

## Not modelled

- The bytes of frames: pixels, row pitch, formats; names and log text.
- `createDevice`, `is32BitProcess`: straight-line calls; their failures are
  failures of the steps of `attach` that call them. The handle that the latter
  leaves open is in `HandleOwner`.
- Of toml11: the serializer and what is kept for it (comments, formats), visitors,
  conversions to other types, the extensions beyond TOML v1.0.0, reading from
  files. The program calls none of them.
- Of a floating-point number, its value; that it is one is modelled. A magnitude
  no double has (`1e999`), which `parse_float` refuses, is assumed not to occur; the
  exponents of the texts in `toml` have three digits at most, below 308.
- That `QueryInterface` fails on a device that could: it is taken to depend on the
  format (`StagingCache`).
- Hook, Windows, Direct3D: external, as the code uses them.
- Several client threads in one `Capture`, several `Capture` objects for one target.

## Plan

Done, in this order: `GraphicsHook`, `Capture`, `CaptureSession` with the
refinement, `SharedTexture`, `StagingCache`, `NamedPipe`, their proofs,
`HelperProcess`, `HandleOwner`, the reader with `GraphicsOffsets`, the proofs about
`TomlTable`, `HelperProcess` and `HandleOwner`, the recovery and the step bound of
`Capture`, the encoding of characters, `TextureContract` with its two refinements,
the waits of `HelperProcess` and `NamedPipe`, the calendar and binary integers.

To do:

1. Proofs: that `StagingCache` implements the one-step `Read` of `Capture`; that
   `TomlFile` inserts as `TableSpec` says, its grammars left as parameters.
2. Composition: `SharedTexture` under the hook of `GraphicsHook`, so that
   Restart, re-attach and refresh together are shown to end frozen frames; the
   end of the target process during a session.
