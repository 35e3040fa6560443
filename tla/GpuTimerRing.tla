---------------------------- MODULE GpuTimerRing ----------------------------
(***************************************************************************)
(* How the stress renderer, native/wayland_egl_stress.c, times frames on   *)
(* the GPU and bounds the work in flight: a ring of disjoint timer queries *)
(* polled before and after each frame, the wait for the oldest of them     *)
(* when the offscreen pacings find the ring full, glFinish after a batch   *)
(* of frames where the driver has no timer, and the drain at the end.      *)
(*                                                                         *)
(* The GPU runs beside the renderer: it finishes frames in the order of    *)
(* their submission, and a disjoint event (a change of its clock) spoils   *)
(* the frames it is working on and sets a flag that reading clears.  A     *)
(* frame is a sequence of stages, and a poll one step per slot, so that    *)
(* both may happen between any two slots of one poll.                      *)
(*                                                                         *)
(* Left out: drawing, the pacing itself (see StressLoop), elapsed times,   *)
(* of which only "started after the warm-up" is kept, and the CPU metrics. *)
(***************************************************************************)
EXTENDS Naturals, Sequences, FiniteSets

CONSTANTS
  TimerSlots,     \* STRESS_TIMER_SLOTS
  OffscreenBatch, \* STRESS_OFFSCREEN_BATCH
  MaxSamples,     \* STRESS_MAX_SAMPLES
  MaxFrames       \* bound: frames in one run

ASSUME RingAssumption ==
  /\ TimerSlots \in Nat \ {0} /\ OffscreenBatch \in Nat \ {0}
  /\ MaxSamples \in Nat /\ MaxFrames \in Nat

Slots == 1 .. TimerSlots
Untimed == 0        \* a frame drawn without a query

VARIABLES
  offscreen,   \* the pacing is offscreen or pbuffer
  supported,   \* gpu_timer_supported
  stage,       \* where the renderer is: "idle", "poll" or what follows a poll
  cursor,      \* the slot the poll looks at next
  after,       \* the stage that follows the poll
  active,      \* slots with a query whose result was not taken
  sequence,    \* slot -> number of its query
  measured,    \* slots whose query started after the warm-up
  timer_sequence, timer_completed, timer_discarded, gpu_sample_count,
  since_sync,  \* offscreen_since_sync; counted without a timer only
  warm,        \* the warm-up is over
  finishes,    \* polls of the drain done
  queue,       \* the GPU's work: frames in order, each its slot or Untimed
  frames,      \* frames submitted
  disjoint,    \* GL_GPU_DISJOINT_EXT
  tainted,     \* history: active slots whose frame a disjoint event spoiled
  spoiled      \* history: the result of such a frame was recorded

\* Polls of the drain, each after a glFinish.
Rounds == IF supported THEN 5 ELSE 1

setup    == <<offscreen, supported>>
place    == <<stage, cursor, after>>
slotVars == <<active, sequence, measured>>
counters == <<timer_sequence, timer_completed, timer_discarded, gpu_sample_count>>
gpuVars  == <<queue, disjoint>>
otherVars == <<setup, slotVars, counters, since_sync, warm, finishes, gpuVars,
               frames, tainted, spoiled>>
ringVars == <<place, otherVars>>

RingInit ==
  /\ offscreen \in BOOLEAN /\ supported \in BOOLEAN
  /\ stage = "idle" /\ cursor = 1 /\ after = "idle"
  /\ active = {} /\ sequence = [s \in Slots |-> 0] /\ measured = {}
  /\ timer_sequence = 0 /\ timer_completed = 0
  /\ timer_discarded = 0 /\ gpu_sample_count = 0
  /\ since_sync = 0 /\ warm \in BOOLEAN /\ finishes = 0
  /\ queue = <<>> /\ frames = 0
  /\ disjoint = FALSE /\ tainted = {} /\ spoiled = FALSE

-----------------------------------------------------------------------------
(* The GPU and the clock                                                   *)

InQueue == {queue[i] : i \in DOMAIN queue}

GpuFinishes ==
  /\ queue # <<>>
  /\ queue' = Tail(queue)
  /\ UNCHANGED <<setup, place, slotVars, counters, since_sync, warm, finishes,
                 disjoint, frames, tainted, spoiled>>

\* A disjoint event that finds the GPU at work.
GpuDisjoint ==
  /\ queue # <<>> /\ supported
  /\ disjoint' = TRUE
  /\ tainted' = tainted \cup (InQueue \ {Untimed})
  /\ UNCHANGED <<setup, place, slotVars, counters, since_sync, warm, finishes,
                 queue, frames, spoiled>>

WarmupEnds ==
  /\ ~warm /\ warm' = TRUE
  /\ UNCHANGED <<setup, place, slotVars, counters, since_sync, finishes,
                 gpuVars, frames, tainted, spoiled>>

-----------------------------------------------------------------------------
(* poll_gpu_timers                                                         *)

\* Call poll_gpu_timers and go on with next; without a timer it returns.
Poll(next) ==
  IF supported
  THEN stage' = "poll" /\ cursor' = 1 /\ after' = next
  ELSE stage' = next /\ UNCHANGED <<cursor, after>>

\* Mutant: the sample array is written without a look at its size.
Recorded_NoCap(s) == ~disjoint /\ s \in measured

\* The result of slot s is wanted and has room.
Recorded(s) == ~disjoint /\ s \in measured /\ gpu_sample_count < MaxSamples

\* Mutant: the flag is read before the result is known to be available.
ReadsFlag_First(taken) == disjoint' = FALSE

\* Reading the flag clears it; it is read for a result that is taken.
ReadsFlag(taken) == disjoint' = (disjoint /\ ~taken)

\* One turn of the loop.  A result that is available is counted, and recorded
\* or, after a disjoint event, discarded.
PollSlot ==
  /\ stage = "poll"
  /\ LET taken == cursor \in active /\ cursor \notin InQueue IN
     /\ ReadsFlag(taken)
     /\ \/ /\ taken
           /\ active' = active \ {cursor}
           /\ timer_completed' = timer_completed + 1
           /\ tainted' = tainted \ {cursor}
           /\ gpu_sample_count' = gpu_sample_count + (IF Recorded(cursor) THEN 1 ELSE 0)
           /\ spoiled' = (spoiled \/ (Recorded(cursor) /\ cursor \in tainted))
           /\ timer_discarded' = timer_discarded + (IF disjoint THEN 1 ELSE 0)
        \/ ~taken /\ UNCHANGED <<active, timer_completed, timer_discarded,
                                 gpu_sample_count, tainted, spoiled>>
  /\ IF cursor < TimerSlots
     THEN cursor' = cursor + 1 /\ UNCHANGED <<stage, after>>
     ELSE stage' = after /\ UNCHANGED <<cursor, after>>
  /\ UNCHANGED <<setup, sequence, measured, timer_sequence, since_sync, warm,
                 finishes, queue, frames>>

-----------------------------------------------------------------------------
(* One frame                                                               *)

Goto(next) == stage' = next /\ UNCHANGED <<cursor, after>>

Free == Slots \ active

\* render calls throttle_offscreen, which polls in the offscreen pacings.
FrameBegins ==
  /\ stage = "idle" /\ frames < MaxFrames
  /\ IF offscreen THEN Poll("throttle") ELSE Poll("take")
  /\ UNCHANGED otherVars

\* Without a timer: glFinish when a batch has been submitted.
ThrottleBatch ==
  /\ stage = "throttle" /\ ~supported
  /\ \/ /\ since_sync >= OffscreenBatch
        /\ queue' = <<>> /\ since_sync' = 0
     \/ /\ since_sync < OffscreenBatch
        /\ UNCHANGED <<queue, since_sync>>
  /\ Goto("take")
  /\ UNCHANGED <<setup, slotVars, counters, warm, finishes, disjoint, frames,
                 tainted, spoiled>>

\* With a timer and a free slot: begin_gpu_timer, which polls again.
ThrottleFree ==
  /\ stage = "throttle" /\ supported /\ Free # {}
  /\ Poll("take")
  /\ UNCHANGED otherVars

Oldest == {s \in active : \A t \in active : sequence[s] <= sequence[t]}

\* Mutant: the result is not waited for.
Finished_NoWait(slots) == TRUE

\* The GPU has the results of these slots.
Finished(slots) == slots \cap InQueue = {}

\* With a full ring: read the result of the oldest query, which returns when
\* the GPU has it, then poll, and poll again in begin_gpu_timer (the second
\* poll only takes what is finished meanwhile).
ThrottleFull ==
  /\ stage = "throttle" /\ supported /\ Free = {}
  /\ Finished(Oldest)
  /\ Poll("waited")
  /\ UNCHANGED otherVars

Waited ==
  /\ stage = "waited"
  /\ Poll("take")
  /\ UNCHANGED otherVars

\* After the frame: counted if it was submitted whole; a swap that fails
\* (offscreen has none) ends the loop before the last poll.
Submitted ==
  /\ frames' = frames + 1
  /\ since_sync' = IF offscreen /\ ~supported THEN since_sync + 1 ELSE since_sync
  /\ \/ Poll("idle")
     \/ ~offscreen /\ Goto("drain")

\* begin_gpu_timer takes the first free slot; the frame is drawn under it.
TakeSlot ==
  /\ stage = "take" /\ supported
  /\ \E s \in Free :
       /\ \A t \in Free : s <= t
       /\ active' = active \cup {s}
       /\ sequence' = [sequence EXCEPT ![s] = timer_sequence + 1]
       /\ measured' = IF warm THEN measured \cup {s} ELSE measured \ {s}
       /\ queue' = Append(queue, s)
  /\ timer_sequence' = timer_sequence + 1
  /\ Submitted
  /\ UNCHANGED <<setup, timer_completed, timer_discarded, gpu_sample_count,
                 warm, finishes, disjoint, tainted, spoiled>>

\* No timer, or no free slot (timer_ring_full): the frame is not timed.
DrawUntimed ==
  /\ stage = "take" /\ (~supported \/ Free = {})
  /\ queue' = Append(queue, Untimed)
  /\ Submitted
  /\ UNCHANGED <<setup, slotVars, counters, warm, finishes, disjoint, tainted,
                 spoiled>>

-----------------------------------------------------------------------------
(* The end of main                                                         *)

\* running has become 0.
LoopEnds ==
  /\ stage = "idle"
  /\ Goto("drain")
  /\ UNCHANGED otherVars

\* Mutant: the drain polls without waiting for the GPU.
Drain_NoFinish ==
  /\ stage = "drain" /\ finishes < Rounds
  /\ finishes' = finishes + 1
  /\ Poll("drain")
  /\ UNCHANGED <<setup, slotVars, counters, since_sync, warm, queue, disjoint, frames, tainted, spoiled>>

\* glFinish, then poll.
Drain ==
  /\ stage = "drain" /\ finishes < Rounds
  /\ finishes' = finishes + 1
  /\ queue' = <<>>
  /\ Poll("drain")
  /\ UNCHANGED <<setup, slotVars, counters, since_sync, warm, disjoint,
                 frames, tainted, spoiled>>

RingNext ==
  \/ GpuFinishes \/ GpuDisjoint \/ WarmupEnds
  \/ PollSlot
  \/ FrameBegins \/ ThrottleBatch \/ ThrottleFree \/ ThrottleFull \/ Waited
  \/ TakeSlot \/ DrawUntimed
  \/ LoopEnds \/ Drain

RingSpec == RingInit /\ [][RingNext]_ringVars

-----------------------------------------------------------------------------

RingTypeOK ==
  /\ stage \in {"idle", "poll", "throttle", "waited", "take", "drain"}
  /\ cursor \in Slots /\ after \in {"idle", "throttle", "waited", "take", "drain"}
  /\ active \subseteq Slots /\ measured \subseteq Slots
  /\ sequence \in [Slots -> Nat]
  /\ queue \in Seq(Slots \cup {Untimed})
  /\ gpu_sample_count \in 0 .. MaxSamples
  /\ tainted \subseteq active

\* In the offscreen pacings the GPU is never given more than the slots, or the
\* batch, before earlier frames are known to be done, and with a timer every
\* frame is timed: waiting for the oldest query always frees a slot.
WorkBounded ==
  offscreen =>
    /\ Len(queue) <= IF supported THEN TimerSlots ELSE OffscreenBatch
    /\ supported => Untimed \notin InQueue

\* Every query is taken exactly once: those started are those completed and
\* those in the ring, and when the drain is over none is left.  A completed
\* query is in at most one of the two tallies.
EachTakenOnce ==
  /\ timer_sequence = timer_completed + Cardinality(active)
  /\ gpu_sample_count + timer_discarded <= timer_completed
  /\ stage = "drain" /\ finishes > 0 => active = {}

\* A spoiled result is never recorded silently: by then the report's count of
\* disjoint results is not zero.  (That every spoiled result is discarded, as
\* docs/PERFORMANCE_AUDIT.md:149-152 has it, is more than the code does: one
\* event spoils all frames in flight, and reading the flag for the first of
\* their results clears it for the others.)
SpoilNoticed == spoiled => timer_discarded > 0

=============================================================================
