# TLA+ models of webos-wayland

A verification development for the native Wayland clients of this repository:
models of the C code under `native/`, TLC runs on small instances, and theorems
checked by TLAPS.  Paths without a directory are under `src/native/`.

- [The system](#the-system): components, state, interactions, what makes each correct
- [Plan](#plan): modules, abstractions, runs and theorems, done and to do
- [The modules](#the-modules): how each corresponds to the code
- [The runs](#the-runs): questions, bounds, fairness
- [Where code and documentation disagree](#where-code-and-documentation-disagree)
- [What is proved](#what-is-proved)
- [What is not modelled](#what-is-not-modelled)

## The system

A television app package contains a launcher, one of three renderers behind the
name `client`, and two diagnostic tools; shell scripts build, install and drive
it.  A renderer is one process with one thread.  It blocks in
`wl_display_dispatch`; everything it does happens in event handlers called from
there, one after the other, to the end.  Concurrency is that of the compositor:
it decides which event comes next, may have sent events before it saw the
client's last request, holds buffers as long as it likes, and plugs and unplugs
seats at any time.

| Component | State | Operations | Correct when |
|---|---|---|---|
| Input context (`webos_input.c`) | table of 8 seats, each with pointer, keyboard and two focus flags; two focus counters; last delivered key and button event | bind and remove a seat, capabilities, enter, leave, motion, button, key, destroy | the application sees one pointer and one keyboard whatever seats come and go; mirrored events arrive once; no change of a key is hidden |
| Shell helper (`webos_shell.c`) | bound global, attached surface, last state, last exposure, derived flag | bind, attach, state and exposed events, destroy | the flag is the truth about the last reports; each change reaches the renderer once |
| CPU renderer (`wayland_rect.c`) | 3 shared-memory buffers with busy marks, frame callback, size, running, visible, pointer and drag | setup, render, frame done, release, configure, visibility, close, input callbacks, teardown | never paints a buffer the compositor reads; one callback at most, none while hidden; animates while shown |
| GPU renderer (`wayland_egl.c`) | EGL objects, frame callback, latency serials and sample arrays | as above with `eglSwapBuffers` in place of the pool | as above; a failing swap ends the loop; each frame that first shows some input gives one submit and one swap latency |
| Stress renderer (`wayland_egl_stress.c`) | ring of timer queries, sample arrays, pacing mode, deadlines | render, begin, end and poll queries, throttle, two dispatch loops, summary | each query is counted once or discarded; the run ends at its duration in every pacing; events are handled |
| Launcher (`native_main.c`) | environment, path of the binaries | exec in order of preference | starts a renderer whenever one is installed |
| Mali trace (`tools/mali_trace`) | event buffer filled without locks, tracked descriptors | record, open and close, flush at exit or on a signal | each slot is filled once; the table holds the GPU's descriptors; the file is one header and its events, and hides no drop |
| kbase probe (`tools/kbase_probe`) | open descriptors and mappings | a fixed sequence of ioctls | what is opened is closed; properties are parsed inside the buffer |
| Installer (`scripts/install_tv_lowspace.sh`) | files on the device: temporary, `.new`, final, the link `client` | stop, copy, rename, link | at each point of interruption the device can start a renderer; running it again completes the installation |
| Benchmark scripts | result rows | sweep, group, find a budget | the budget is the largest value that meets it |

Interactions: the renderers call the input context and the shell helper from
their registry handler (a global is offered to the shell helper first, then to
the input context); both call back, the input context through
`struct webos_input_callbacks`, the shell helper through its visibility and
close handlers.  The visibility handler runs inside the handler of the state or
exposed event, and it renders from there.  The launcher replaces itself with a
renderer; scripts talk to all of them through files, signals and environment.

What is hard here, and the reason for the models:

- order: several seats' enter, leave, key and unplug events interleave; a
  visibility report comes between a frame request and its callback, or after
  the close that is in the same batch;
- stale state: what a slot, a counter, a callback pointer or the last event
  remembers when its seat, size or visibility has changed;
- limits: the table of 8 seats, the pool of 3 buffers, the ring of queries, the
  sample arrays, the wrap of 32-bit milliseconds;
- something must go on happening: the chain of frame callbacks restarts itself
  only from its own handler and from the visibility handler;
- partial failure: allocation of a buffer, `eglSwapBuffers`, a rename.

`PROJECT.json` lists each hazard at its line with the properties that cover it.

## Plan

Most important first; what is written is marked.

1. `WebosInput`, the abstract `FocusPromise` it implements, `MirroredSeats` (the
   compositor the duplicate suppression is for), and proofs: done.
2. `WebosShell`: done; composed with
3. `WaylandRect` and its proofs, and `RectPointer`, which composes the input
   context with the renderer's input callbacks, and its proofs: done.
4. `FrameChain`, the promise about frame pacing that all three renderers
   implement: done.  `WaylandEgl` with its proofs: done.
5. `GpuTimerRing` and `StressLoop` with their proofs: done.
6. `MaliTrace`, threads that record, a signal that flushes, with proofs of its
   buffer and its table: done.
7. `Installer` with the launcher's order of preference: done.
8. Left: pure algorithms over bounded inputs (percentiles in
   `wayland_egl_stress.c`, the budget search of the benchmark scripts, the
   extension token search), the input callbacks of the two GPU renderers
   composed with `WebosInput` as `RectPointer` does for the CPU renderer, and
   the kbase probe.

Proofs: every invariant and every safety property of the runs, the refinements
included, is proved.  Liveness stays with TLC; its safety halves are proved where
they say something (`ChainNeverStalls`, `FinishedIsComplete`).

## The modules

**`WebosInput`** has one action for each handler of `webos_input.c` that changes
state.  `bound`, `pointers`, `keyboards`, `pointer_focused`, `keyboard_focused`
are the fields of the seat table as functions and sets of slots; the counters
and the last event (`last_key`, `last_button`: empty or one record, for the
`have_last_*` flags) are the fields of the context.  `appPointer`,
`appKeyboard`, `appKey`, `appButton` are what the callbacks have told the
application; `rawKey` and `rawButton` record each seat's last word on a code,
delivered or not.  They and `missed` are history: no guard reads them.  The
guarded decrements are kept (`Less`), although `FocusCountsExact` shows that the
guard is never needed.  Timestamps are arbitrary; their difference is taken
modulo `TimeMod`, as `uint32_t` subtraction is.

**`FocusPromise`** is the promise in four lines: a set of devices inside, and a
flag that tells whether it is empty.  `WebosInput` instantiates it twice.

**`MirroredSeats`** drives `KeyboardKey` of `WebosInput` with a compositor that
announces one physical keyboard as several seats, which is what the target
does (docs/ARCHITECTURE.md:67-72).  `Lockstep` forwards an event to all seats
within the window and before the next event; `MirrorSpec` keeps only the order
of each seat's events.

**`WebosShell`** holds the shell helper's state and handlers; the renderer's copy
of the flag, `render_visible`, is assigned where the visibility handler would
do so.  `exposed_scan` is the loop of `handle_exposed` as a recursive function
over the value list; the property states it without a loop.

**`WaylandRect`** extends `WebosShell` with the renderer.  `Submit` and `Discard`
are the outcomes of `next_buffer` with its `init_buffer`; `render` takes the
callback pointer and count its caller leaves, because `frame_done` destroys the
callback first; `VisibilityReport` is a shell event with the renderer's handler
inside, one step as in the code.  `callbacks` counts live `wl_callback` objects
and `held` the buffers the compositor may read: neither is a variable of the
program, both are what its pointer and marks must agree with.  Events that come
in the same batch after `running` has become 0 are possible until `Exit`.

**`RectPointer`** extends `WebosInput` with the CPU renderer's input callbacks:
each step of the context is taken together with the callbacks it runs.

**`FrameChain`** is what the documentation promises of frame pacing, without
buffers, EGL or handlers: how the surface is shown, whether a callback is armed,
which frames are committed.  A frame comes from the callback of the one before,
or from being shown again; hiding disarms.  `MayStarve` says whether there may
be nothing to draw into: only the CPU renderer, which owns its pool, has that.
`WaylandRect`, `WaylandEgl` and `StressLoop` (with frame pacing) instantiate it
with what the compositor sees of them: `armed` is the live callback object, not
the program's pointer.

**`WaylandEgl`** extends `WebosShell` with the GPU renderer.  `render`, `frame_done`
and `webos_visibility_changed` have the structure of `WaylandRect`; a frame always
finds a buffer, but the swap may fail, after the next callback was requested.
`choose_config` is the loop over the driver's list as the set of its result: the
first eligible configuration of the best `Score`.  The latency trace is modelled
by its serials and by three sequences of samples, of which each entry is the serial
of the input it is measured from (`TraceRender` after the swap, `TraceCallback`
in the callback, before it renders).  `unshown` and `batches` are history, without a
look at the serials: an input came after the last frame was drawn, and the last
input of each frame that was the first to show some.

**`GpuTimerRing`** is the ring of timer queries of the stress renderer.  `queue` is
the GPU's work in order, each frame with its slot; `active`, `sequence` and
`measured` are the fields of the slots, `stage` the place in `render`.  A poll
takes one step for each slot, since the GPU finishes frames, and loses its clock,
between two of them; `ReadsFlag` has the side effect of reading
`GL_GPU_DISJOINT_EXT`.  `ThrottleFull` waits by its guard: `glGetQueryObject` of
the oldest query returns when its frame is done.  `tainted` and `spoiled` are
history.

**`StressLoop`** extends `WebosShell` with the stress renderer's loops.  `Heard`
says when an event can be handled at all: with frame pacing always, with the
others only in the dispatch half of a pass and if EGL has read something from
the socket, because `wl_display_dispatch_pending` does not.

**`MaliTrace`** splits a hook at each access to what threads share: the real call,
the look at the descriptor table, the atomic add that reserves a slot, the
filling, the change of the table.  `thread[t]` is the place in the hook and its
locals; the kernel hands out the lowest free descriptor.  A flush has a step for
each read of a counter and each system call, and belongs to a thread, which it
interrupts.  The handler of either signal may interrupt the destructor's flush, or
that of the other signal; it ends in `exit_group` and never returns to it, so
`flush` is the place and the locals of the last flush begun, and `begun` the set of
those that have.  `write_all` returns silently when a write fails or falls short:
`Header` writes the header, or a part of it, and `Events` any number of the events
and perhaps a fragment, after the header or, where that was cut off, over it.
`file.bad` are the parts of the file that are not what or where they should be.
`doubtful`, `before`, `last` and `overlapped` are history: the races that the
properties except, what was in the buffer as a flush began, and how far its writes
came.

**`Installer`** runs the script as a list of commands, each with its effect on the
disk; `Stop` ends it before any command or inside a copy, `Begin` runs it again
with any options.  `Launched` is the launcher: the first name, in
`native_main.c`'s order, that leads to a file.

**`MC*`** modules hold only values for constants.

## The runs

| Run | Specification | Shows |
|---|---|---|
| `input_focus` | `WebosInput!Spec` | no focus count leaks or doubles; slots and seats correspond; one pointer and one keyboard are promised and kept |
| `pointer` | `RectPointer!PointerSpec` | cursor and drag follow the seats; suppression hides no change |
| `mirror_lockstep` | `MirroredSeats!Lockstep` | each physical key event arrives once, in order |
| `mirror_any_order` | `MirroredSeats!MirrorSpec` | a violation: see below |
| `rect` | `WaylandRect!RectSpec` | visibility is true to the reports, one callback, quiet when hidden, no tearing, frames only when shown, the promise about frames |
| `rect_prompt` | `WaylandRect!PromptSpec` | with a prompt compositor the animation never stops |
| `rect_stall` | `WaylandRect!PacedSpec` | a violation: see below |
| `egl` | `WaylandEgl!EglSpec` | the promise about frames, never starving, whatever swaps fail; submit and swap samples go one for one with the frames that first show some input; input gets its frame; the score keeps the documented preferences |
| `timer_ring` | `GpuTimerRing!RingSpec` | each query is taken once, the GPU's queue is bounded, no disjoint event goes unnoticed |
| `stress_loop` | `StressLoop!StressSpec` | one callback, with frame pacing only; the promise about frames; the end at the duration |
| `mali` | `MaliTrace!TraceSpec` | slots are accounted for, the table is right but for a named race, the file is what was written of it and hides no loss |
| `installer` | `Installer!InstallerSpec` | what can be launched stays launchable at every moment; running again completes the installation |

Bounds, and why they suffice:

- `input_focus`: three slots and four names, so that the table overflows, a
  skipped seat stays skipped, slots are reused, and counters pass through 0, 1
  and more; names are symmetric.  No keys: the handlers of key and focus events
  share no state, and `pointer` has both.
- `pointer`: two slots, two seats, two codes of each kind (one remembered event,
  one other), a clock of period 3 with a window of 1, so that differences are
  inside, outside and wrapped.
- `mirror_*`: two seats, two keys; four physical events (`MaxEvents`) give press,
  release and press of one key inside a window with another key between; the
  clock wraps at 6.  The number of events is the only bound on behaviours.
- `rect`: the shipped three buffers, two sizes, failing allocation, and lists of
  up to two rectangles with every kind of ending; `frame` is kept modulo 2.

- `egl`: every list of up to two of eight configurations, which differ in each
  channel the score looks at; three inputs and arrays of two samples, so that
  they fill while input still comes; exposure lists as in `rect_prompt`.
- `timer_ring`: two slots, batches of two, five frames: the ring fills, slots are
  reused twice and are completed out of the order of their index; two samples,
  so that results find no room.
- `stress_loop`: four pacings, with and without a duration and a multipass
  workload.  Nothing is bounded.
- `mali`: two threads, three descriptors of which two fit in the table, two slots
  and three hook calls: two reserve the slots, the third is dropped, and a
  number is reused in the middle of a close.  Both signals: three flushes can
  interrupt one another.  A header or the events may fall short in any flush, and
  the constructor's header too.  Threads are symmetric, and so are signals.
- `installer`: three runs of the script, of which two may be stopped; every
  option, a first installation and one over an older version.

`CHECK_DEADLOCK FALSE` stands where the program ends by design (teardown, exit,
the end of the drain, a finished installation) or where a bound on inputs ends
the behaviour: the events of `mirror_any_order`, the calls of `mali`.

Fairness:

- `PromptSpec`, `PacedSpec`, `EglSpec`, `StressSpec`: the compositor owes it, not
  the code.  It fires the callback of a surface it shows and, in the first two,
  releases each buffer it has replaced (`wl_buffer.release`).  Handlers
  themselves cannot wait.  Nothing is assumed of visibility reports, resizes,
  input or close.
- `StressSpec` adds that time passes and that the loop goes on: a pass renders,
  `wl_display_dispatch_pending` returns because it reads no new events, and a
  loop whose flag is 0 is left.  These are statements of one thread.
- `InstallerSpec`: a command ends, and a script that was stopped is run again.
  It may be stopped as long as `MaxRuns` allows another run.

`Prompt` (at most `Lag` replaced buffers kept back when a callback fires)
is how a compositor behaves that paces clients by callbacks; `rect_prompt` also
assumes it when visibility is reported, `rect_stall` does not.

Each property has a mutant of the code it watches (`*_...` operators beside the
definition they change), and TLC finds the property violated by it.

## Where code and documentation disagree

- **Duplicates.**  docs/ARCHITECTURE.md:71-72: the context "suppresses identical
  key or pointer-button events received within a 20 ms window".  The code
  compares with the single last delivered event.  `mirror_any_order`: two keys
  are pressed; seat 1 sends both, then seat 2 sends its copy of the first: it is
  delivered again although it is identical and inside the window.  The target's
  compositor must forward in lockstep for the sentence to hold, and then it does
  (`ExactlyOnce`).
- **Resuming.**  docs/ARCHITECTURE.md:209-218 and 140: all renderers are notified
  "to suspend or resume" their frame chain, and "a later visible event starts
  the frame chain again".  `rect_stall`: each hide destroys the callback and each
  show submits a buffer; after three shows between two releases `render` finds no
  free buffer, prints `NO_FREE_BUFFER`, and returns without requesting a
  callback.  The buffers are released later, but `buffer_release` only clears the
  mark: the shown renderer stands still until the next hide and show.
  `rect_prompt` and `ChainNeverStalls` say when this cannot happen.

The following were met in translating the code.  No run states them, because the
model already contains them as what the code does:

- **Closing.**  docs/ARCHITECTURE.md:219: the shell helper "requests a clean
  renderer exit on a compositor close event".  With the pacings `swap`,
  `offscreen` and `pbuffer` the stress renderer never reads the socket itself
  (`wayland_egl_stress.c:1951`); unless EGL does, a close is not handled before
  the duration ends, nor ever without one.  `Heard` in `StressLoop` says so, and
  `EndsAtDuration` what is left.
- **Disjoint samples.**  docs/PERFORMANCE_AUDIT.md:149-152: the benchmark "discards
  disjoint samples".  One disjoint event spoils all frames in flight; the flag is
  read for the first result and cleared by that, so the results of the others are
  recorded.  `SpoilNoticed` is what holds: the count of discarded results is then
  not zero, and a reader of the report is warned.
- **`munmap`.**  tools/mali_trace/README.md lists it among the calls covered; its
  event has descriptor -1, which is never tracked, so none is recorded
  (`mali_trace.c:303`).
- **Drops.**  An event beyond the capacity is counted by `dropped` and again by
  `event_count - TRACE_CAPACITY` (`mali_trace.c:200`): the header reports up to
  twice as many.  `FileTruthful`: never fewer, and none if none was lost.
- **A lost trace.**  tools/mali_trace/README.md: the flush on a signal is there so
  that bounded benchmarks do not lose the trace, and the header indicates drops.  A
  write that fails or falls short, on a full disk, leaves the file cut off
  (`write_all`, `mali_trace.c:130-138`); the header counts only what did not fit in
  the buffer, and `decode.py:64` rounds down to whole events, so that nothing
  tells.  `FileTruthful` says what is left: the events written are there, and no
  loss is made up.
- **Latency to the callback.**  docs/ARCHITECTURE.md:201-203: `EGL_LATENCY_TRACE`
  records timestamps "from input callbacks through render submit, swap return, and
  the next Wayland frame callback".  `frame_done` takes the callback sample
  (`wayland_egl.c:457-460`) before it renders the frame that shows the input (478,
  536-544): the callback is that of the frame before, and comes before submit and
  swap.  An input whose frame is rendered by the visibility handler gets no
  callback sample, and one whose frame never comes, because it ended the loop, may
  get one.  `SamplesPaired` says exactly that.
- **Atomic installation.**  docs/OPERATIONS.md:52-54: the installer updates the
  directories "atomically".  Each file is renamed atomically, but between two
  renames, and until the script is run again if it is stopped there, files of two
  versions are side by side.  `StaysLaunchable` says that they can be launched,
  `RerunConverges` that another run repairs it; that the versions are never mixed
  is not so and not checked.
- **Preferences.**  docs/ARCHITECTURE.md:91-106 hold of the weighted score where
  an opaque configuration is offered (`ConfigPreference`).  Without one the
  weights rank a small alpha before a small depth buffer.

## What is proved

The proofs hold for every value of the constants under the named assumptions
(`SlotAssumption`, `TimeAssumption`, `ExposuresAssumption`, `BufAssumption`,
`PointerAssumption`, `EglAssumption`, `RingAssumption`, `TraceAssumption`), which
only give types and keep marks apart from values.  The installer's proofs need
none.  The bounds on runs, events and calls (`MaxRuns`, `MaxEvents`, `MaxCalls`)
are constants like the others: the theorems hold for all of them.

`InputProofs`, the context.  The inductive invariant `IInv` has a part for pointers, for
keyboards, for keys, for buttons and for the table.  Agreement of the
application with the seats is not inductive without the exact counts, because
the leave callback is guarded by the count, and the counts are not without the
set of focused slots being finite: `CountAfterClear` and `CountAfterAdd` carry
the arithmetic.  `EdgesInSync` needs that the remembered event is up to date for
its code; then an event that is suppressed repeats what the application knows.
From `IInv` follow `TypeCorrect`, `FocusSafety`, `AppFocusCorrect` and
`NoEdgeLost`, with `FocusNested`; `BindingCorrect` adds that missed seats are advertised ones;
`PointerRefines` and `KeyboardRefines` map every step to an `Enter`, a `Leave` of
a set of devices, or a stutter of `FocusPromise`.

`WebosShellProofs`.  For the three renderers together: the loop of
`handle_exposed` finds a shown rectangle exactly if there is one, for every list
of integers, of any length and ending (`ScanIsShown`).  The loop is a recursive
function, and the library's induction theorems cannot be used; so a function
that satisfies the recursion is given, and two that do are shown to agree, by
the last place where they would differ (`LeastNumber`, well-foundedness of `<`).
`ShellKeeps` then says that each handler keeps the renderer's flag true to the
last reports, and `RectFlagTrue`, `EglFlagTrue`, `StressFlagTrue` conclude
`VisibilityTracks` for each renderer.

`InputProofs`, the pointer.  A step of `RectPointer` is one of `WebosInput`
(`PointerUsesInput`), so `IInv` is at hand; `CursorCorrect` and `DragCorrect`
need it, because the leave callback is tied to the count and a release may be
suppressed.

`InputProofs`, mirrored seats.  `ExactlyOnce` is far from inductive: whether an
event is suppressed depends on the last one delivered, on the key's state between
any two physical events, and on the clock.  `MirrorInv` says that there is a
history of the physical events (`H`) and of the states of the keys between them
(`D`) that everything agrees with: what is due on each seat is a tail of `H`, and
what the application knows is `D` at the length of its log.  In lockstep the seats
are at most one event apart (`Apart`), and while one of them waits the last
delivered event is no older than `age`, which is within the window.  So the copy
that comes late is the last event again and inside the window, and is suppressed
(`ForwardKeeps`); the copy that comes first has the other state of its key, and is
not (`NextIsNews`).  The age is a difference modulo `TimeMod`, which a tick of the
clock makes larger by one at most (`OlderByOne`).  From it follow `EachEventOnce`
and `KeysSettle`: with every copy forwarded, the application's keys are the
physical ones.

`WaylandRectProofs`.  `RectInv` has a part for the pool, for the chain and for
control.  `NoTearing` needs `BusyIsHeld`, that the marks are the compositor's
holds; `OneChain` and `HiddenIsQuiet` need that `render` returns a pointer and a count that match
whenever it is given some that do (`RenderInv`, one lemma for three callers).
`ChainNeverStalls` is about every number of buffers: `EnoughBuffers` counts, if
the compositor keeps back at most `Lag` replaced buffers and `Lag + 1 < NumBufs`
then some slot is free, and the first such slot exists.  It assumes that
allocation does not fail.

`RectKeepsChain` maps each handler to a step of
`FrameChain` or a stutter; it may starve.

`WaylandEglProofs`.  `ChainInv` holds what the refinement needs: the pointer and
the object agree, and a running renderer in its loop is armed exactly while it
is shown.  `ChainStep` proves, handler by handler, that it is kept and that the
step is one of `FrameChain` with `MayStarve` false; `EglChainCorrect` and
`EglKeepsChain` follow.  The latency trace needs more: `SamplesPaired` is not
inductive.  `TraceInv` adds how far the callback samples have come: until the
renderer has rendered its last frame (`Done`) all are of inputs that some frame has
shown (`AllShown`), because a callback that takes a sample renders in the same
handler; after that no callback fires, and one sample at most is left without its
frame (`MostShown`).
`ChoicePreferred` holds for every list of configurations whose channels are of a
size that can occur (`RealSizes`, an assumption of the theorem): the bonus and
the weights are finite, and absurd channel sizes would outweigh them.

`GpuTimerRingProofs`.  `RingInv` has a part for types, for the queue (the
slots in it are active), for the count of queries, for
the drain, and for spoiled results.  `EachTakenOnce` needs that the drain's first
poll finds an empty queue and goes through all slots in order.
`WorkBounded` needs a second invariant: without a timer the frames since the last
`glFinish` are those in the queue; with one each frame holds a slot of its own
(`TimedInv`), so the pigeonhole principle bounds the queue, and after the wait for
the oldest query, which exists in every full ring, a slot is free when the next
one is taken (`WorkInv`).

`StressLoopProofs`.  The argument of `WaylandEglProofs`, with the pacing: outside
frame pacing no callback ever exists, although a visibility report renders from
inside `wl_display_dispatch_pending`; with it the renderer implements
`FrameChain`.

`MaliTraceProofs`.  `HookInv` says where a hook can be, by what it is a hook of,
and each action gets a lemma that says how it moves its thread.  `SlotInv` names
the filler: every reserved slot that is not filled has one thread at `fill`, and
no two have the same slot; the drops still to be counted are the finite set
`Dropping`.  `SlotsAccounted` follows.  `TrackingExact` is not inductive:
`TrackInv` adds that an open descriptor whose number is in mid-close is in doubt
(`ClosingInv`), and what the hook that made a descriptor may rely on until it is
marked (`NewInv`): a reader of hardware counters is marked only if the descriptor
it was made through is still in the table.  `TableCorrect` follows.  `FileCorrect`
follows the last flush.  `FileInv` holds of the file at any time, whichever flush
wrote it and however far: a loss it reports is a real one, and it has no more blank
events than there are threads.  `Prepared` says what the flush under way has found
out and written so far (`HeaderWritten`: a whole header with its counts, or one cut
off), and `Told` what the file then says once it is closed; after that a further
flush changes nothing.  An interrupting handler starts over at offset 0 and relies
on `FileInv` only.  The hooks go on meanwhile and only add to the buffer (`Grows`).
The bound on blank events is the pigeonhole principle: by `SlotInv` each slot below
the count that is not filled has a thread of its own that is filling it
(`FewBlank`, `EventsBlank`).

`InstallerProofs`.  The script is a concatenation of lists that depends on its
options; `ScriptCommands` says once which command stands where.  `InstallerInv`
then follows a run by the number n of commands it has executed: `Progress(n)`
says what they have done to the uploads, to the copies, to the installed files and
to the links, and each command has a lemma that it takes n to n + 1 and keeps the
application launchable.  Only `mv` and the links touch what the launcher sees.
A file that is renamed is ready (`RenameLaunches`: one more ready file can only
put an earlier, ready program in front); when the stress renderer is removed, and
while the links are gone, all other files are in place already (`PlacedLaunches`),
so that some name in the launcher's list leads to a ready program.  Whatever the
run before left is never looked at: uploads and copies start from empty
directories, and a copy that was cut off ends its run.  `ApplicationStaysLaunchable`
is the action property; `LaunchableForGood` adds that an application is launchable
for ever once a run has ended, and `FinishedIsComplete` is the safety half of
`RerunConverges`.

Only model-checked: the liveness properties `AnimationAdvances`,
`InputIsRendered`, `EndsAtDuration` and `RerunConverges`, because fairness
(`ENABLED`) is beyond the prover.

## What is not modelled

- Pixels, themes, shaders and workloads, coordinates, the resize of the EGL
  window, option parsing, logging and reports, elapsed times and percentiles,
  CPU metrics; `launch_android_sidecar_once`.  No decision of the modelled code
  depends on them.
- `egl_diagnostics.c` (output around a token search in a string) and the build:
  they keep no state.
- The kbase probe: a fixed sequence of ioctls in one process, without loops over
  events; almost all of it is output.  The trace decoder and the benchmark
  scripts: sequential, their state is what they print.
- The scripts to launch, stop, query and reboot, which hold no state; power
  failures during an installation, against which only the `sync` at its end
  guards, because what reaches the disk in which order is the file system's.
- The socket: an event is a step and flushing is not seen.  Objects that
  libwayland or EGL fail to create are modelled where the code looks at the
  result.
- In `MaliTrace`, two threads that flush at once: they share the file's offset, and
  nothing holds of the file.  The run stops there, and `FileTruthful` excepts it.
  Neither the reuse of the trace file's own number between its `close` and
  `trace_fd = -1`, nor an end without a flush (`_exit`, `SIGKILL`): there the file
  is what the constructor wrote.  Each signal is handled once.
- Late `wl_buffer.release` events of a destroyed buffer: `destroy_buffers` clears
  `held` in `WaylandRect`, because libwayland drops events of destroyed proxies.
- In `Installer`, a remote command that outlives its connection.  The commands run
  under `ssh`, the later ones without a terminal, and the model takes it that they
  end with the connection.
