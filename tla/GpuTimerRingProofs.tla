------------------------- MODULE GpuTimerRingProofs -------------------------
(***************************************************************************)
(* Theorems about GpuTimerRing, for rings, batches, sample arrays and runs *)
(* of every size.                                                          *)
(***************************************************************************)
EXTENDS GpuTimerRing, FiniteSetTheorems, WellFoundedInduction, TLAPS

RingTypes ==
  /\ RingTypeOK
  /\ offscreen \in BOOLEAN /\ supported \in BOOLEAN
  /\ disjoint \in BOOLEAN /\ spoiled \in BOOLEAN
  /\ timer_sequence \in Nat /\ timer_completed \in Nat /\ timer_discarded \in Nat
  /\ since_sync \in Nat /\ finishes \in Nat /\ frames \in Nat

\* What the GPU works on is in the ring or not timed; without a timer there is
\* no ring.
QueueInv ==
  /\ InQueue \subseteq active \cup {Untimed}
  /\ ~supported => active = {} /\ stage # "poll"

\* The tallies.
CountInv ==
  /\ timer_sequence = timer_completed + Cardinality(active)
  /\ gpu_sample_count + timer_discarded <= timer_completed

\* The drain: once it has called glFinish the GPU has nothing to do, and a
\* poll leaves no slot behind its cursor.
DrainInv ==
  /\ finishes > 0 => stage = "drain" \/ (stage = "poll" /\ after = "drain")
  /\ stage = "poll" /\ after = "drain" => finishes > 0
  /\ finishes > 0 => queue = <<>>
  /\ stage = "drain" /\ finishes > 0 => active = {}
  /\ stage = "poll" /\ after = "drain" => \A s \in active : cursor <= s

\* An event that has spoiled something is in the flag or in the report.
SpoilInv ==
  /\ tainted # {} => disjoint \/ timer_discarded > 0
  /\ spoiled => disjoint \/ timer_discarded > 0
  /\ spoiled => timer_discarded > 0

RingInv == RingTypes /\ QueueInv /\ CountInv /\ DrainInv /\ SpoilInv

-----------------------------------------------------------------------------
(* What the parts of a step do                                             *)

LEMMA SlotsFinite ==
  /\ IsFiniteSet(Slots) /\ Slots \subseteq Nat /\ Untimed \notin Slots
  /\ \A S \in SUBSET Slots : IsFiniteSet(S) /\ Cardinality(S) \in Nat
<1>1. TimerSlots \in Nat /\ TimerSlots \in Int /\ 1 \in Int
  BY RingAssumption
<1>2. IsFiniteSet(Slots) /\ Slots \subseteq Nat /\ Untimed \notin Slots
  BY <1>1, FS_Interval DEF Slots, Untimed
<1>3. ASSUME NEW S \in SUBSET Slots
      PROVE  IsFiniteSet(S) /\ Cardinality(S) \in Nat
  BY <1>2, <1>3, FS_Subset, FS_CardinalityType
<1> QED
  BY <1>2, <1>3

\* A step of the poll takes the result of a finished query or changes nothing
\* but the cursor.
LEMMA PollTakes ==
  ASSUME RingTypes, PollSlot
  PROVE  \/ /\ cursor \in active /\ cursor \notin InQueue
            /\ active' = active \ {cursor} /\ tainted' = tainted \ {cursor}
            /\ timer_completed' = timer_completed + 1
            /\ disjoint' = FALSE
            /\ \/ /\ disjoint
                  /\ timer_discarded' = timer_discarded + 1
                  /\ UNCHANGED <<gpu_sample_count, spoiled>>
               \/ /\ ~disjoint /\ gpu_sample_count < MaxSamples
                  /\ UNCHANGED timer_discarded
                  /\ gpu_sample_count' = gpu_sample_count + 1
                  /\ spoiled' = (spoiled \/ cursor \in tainted)
               \/ /\ ~disjoint
                  /\ UNCHANGED <<timer_discarded, gpu_sample_count, spoiled>>
         \/ /\ ~(cursor \in active /\ cursor \notin InQueue)
            /\ UNCHANGED <<active, tainted, timer_completed, disjoint,
                           timer_discarded, gpu_sample_count, spoiled>>
<1>1. gpu_sample_count \in Nat /\ timer_discarded \in Nat
      /\ disjoint \in BOOLEAN /\ spoiled \in BOOLEAN
  BY RingAssumption DEF RingTypes, RingTypeOK
<1>2. gpu_sample_count + 0 = gpu_sample_count /\ timer_discarded + 0 = timer_discarded
  BY <1>1
<1>3. CASE cursor \in active /\ cursor \notin InQueue
  <2>1. /\ active' = active \ {cursor} /\ tainted' = tainted \ {cursor}
        /\ timer_completed' = timer_completed + 1
        /\ disjoint' = FALSE
    BY <1>3, Zenon DEF PollSlot, ReadsFlag
  <2>2. /\ gpu_sample_count' = gpu_sample_count + (IF Recorded(cursor) THEN 1 ELSE 0)
        /\ spoiled' = (spoiled \/ (Recorded(cursor) /\ cursor \in tainted))
        /\ timer_discarded' = timer_discarded + (IF disjoint THEN 1 ELSE 0)
    BY <1>3, Zenon DEF PollSlot
  <2>3. CASE disjoint
    <3>1. ~Recorded(cursor)
      BY <2>3 DEF Recorded
    <3>2. gpu_sample_count' = gpu_sample_count /\ timer_discarded' = timer_discarded + 1
      BY <2>2, <2>3, <3>1, <1>2, Zenon
    <3>3. spoiled' = spoiled
      BY <2>2, <3>1, <1>1, Zenon
    <3> QED
      BY <1>3, <2>1, <2>3, <3>2, <3>3
  <2>4. CASE ~disjoint /\ Recorded(cursor)
    <3>1. gpu_sample_count < MaxSamples
      BY <2>4 DEF Recorded
    <3>2. gpu_sample_count' = gpu_sample_count + 1 /\ timer_discarded' = timer_discarded
      BY <2>2, <2>4, <1>2, Zenon
    <3>3. spoiled' = (spoiled \/ cursor \in tainted)
      BY <2>2, <2>4, Zenon
    <3> QED
      BY <1>3, <2>1, <2>4, <3>1, <3>2, <3>3
  <2>5. CASE ~disjoint /\ ~Recorded(cursor)
    <3>1. gpu_sample_count' = gpu_sample_count /\ timer_discarded' = timer_discarded
      BY <2>2, <2>5, <1>2, Zenon
    <3>2. spoiled' = spoiled
      BY <2>2, <2>5, <1>1, Zenon
    <3> QED
      BY <1>3, <2>1, <2>5, <3>1, <3>2
  <2> QED
    BY <2>3, <2>4, <2>5
<1>4. CASE ~(cursor \in active /\ cursor \notin InQueue)
  <2>1. UNCHANGED <<active, tainted, timer_completed, timer_discarded,
                    gpu_sample_count, spoiled>>
    BY <1>4, Zenon DEF PollSlot
  <2>2. disjoint' = disjoint
    BY <1>4, <1>1, Zenon DEF PollSlot, ReadsFlag
  <2> QED
    BY <1>4, <2>1, <2>2
<1> QED
  BY <1>3, <1>4

\* The rest of a poll's step: the place.
LEMMA PollMoves ==
  ASSUME PollSlot
  PROVE  /\ stage = "poll"
         /\ \/ cursor < TimerSlots /\ cursor' = cursor + 1 /\ UNCHANGED <<stage, after>>
            \/ ~(cursor < TimerSlots) /\ stage' = after /\ UNCHANGED <<cursor, after>>
         /\ UNCHANGED <<setup, sequence, measured, timer_sequence, since_sync,
                        warm, finishes, queue, frames>>
  BY Zenon DEF PollSlot

\* A frame appended to the GPU's queue, and one taken off it.
LEMMA QueueAppend ==
  ASSUME NEW s, queue \in Seq(Slots \cup {Untimed}), s \in Slots \cup {Untimed},
         queue' = Append(queue, s)
  PROVE  queue' \in Seq(Slots \cup {Untimed}) /\ InQueue' = InQueue \cup {s}
<1>1. /\ queue' \in Seq(Slots \cup {Untimed})
      /\ Len(queue') = Len(queue) + 1 /\ Len(queue) \in Nat
      /\ \A i \in 1 .. Len(queue) : queue'[i] = queue[i]
      /\ queue'[Len(queue) + 1] = s
      /\ DOMAIN queue = 1 .. Len(queue) /\ DOMAIN queue' = 1 .. Len(queue')
  OBVIOUS
<1>2. ASSUME NEW x \in InQueue' PROVE x \in InQueue \cup {s}
  <2>1. PICK i \in 1 .. Len(queue) + 1 : x = queue'[i]
    BY <1>1 DEF InQueue
  <2>2. i \in 1 .. Len(queue) \/ i = Len(queue) + 1
    BY <1>1
  <2> QED
    BY <1>1, <2>1, <2>2 DEF InQueue
<1>3. ASSUME NEW x \in InQueue \cup {s} PROVE x \in InQueue'
  <2>1. CASE x = s
    <3>1. Len(queue) + 1 \in DOMAIN queue'
      BY <1>1
    <3> QED
      BY <1>1, <2>1, <3>1 DEF InQueue
  <2>2. CASE x \in InQueue
    <3>1. PICK i \in 1 .. Len(queue) : x = queue[i]
      BY <1>1, <2>2 DEF InQueue
    <3>2. i \in DOMAIN queue' /\ queue'[i] = x
      BY <1>1, <3>1
    <3> QED
      BY <3>2 DEF InQueue
  <2> QED
    BY <1>3, <2>1, <2>2
<1> QED
  BY <1>1, <1>2, <1>3

LEMMA QueueTail ==
  ASSUME queue \in Seq(Slots \cup {Untimed}), queue # <<>>, queue' = Tail(queue)
  PROVE  queue' \in Seq(Slots \cup {Untimed}) /\ InQueue' \subseteq InQueue
<1>1. /\ queue' \in Seq(Slots \cup {Untimed})
      /\ Len(queue) \in Nat /\ Len(queue') = Len(queue) - 1
      /\ \A i \in 1 .. Len(queue) - 1 : queue'[i] = queue[i + 1]
      /\ DOMAIN queue = 1 .. Len(queue) /\ DOMAIN queue' = 1 .. Len(queue')
  OBVIOUS
<1>2. ASSUME NEW x \in InQueue' PROVE x \in InQueue
  <2>1. PICK i \in 1 .. Len(queue) - 1 : x = queue'[i]
    BY <1>1 DEF InQueue
  <2>2. i + 1 \in DOMAIN queue /\ x = queue[i + 1]
    BY <1>1, <2>1
  <2> QED
    BY <2>2 DEF InQueue
<1> QED
  BY <1>1, <1>2

LEMMA QueueEmpty ==
  ASSUME queue' = <<>>
  PROVE  queue' \in Seq(Slots \cup {Untimed}) /\ InQueue' = {}
  BY DEF InQueue

\* What Poll(next) does to the place.
LEMMA PollPlace ==
  ASSUME RingTypes, NEW next \in {"idle", "throttle", "waited", "take", "drain"},
         Poll(next)
  PROVE  /\ stage' \in {"poll", next} /\ cursor' \in Slots
         /\ after' \in {"idle", "throttle", "waited", "take", "drain"}
         /\ supported => stage' = "poll" /\ cursor' = 1 /\ after' = next
         /\ ~supported => stage' = next
<1>1. 1 \in Slots /\ cursor \in Slots
      /\ after \in {"idle", "throttle", "waited", "take", "drain"}
  BY RingAssumption DEF Slots, RingTypes, RingTypeOK
<1>2. CASE supported
  BY <1>1, <1>2, Zenon DEF Poll
<1>3. CASE ~supported
  BY <1>1, <1>3, Zenon DEF Poll
<1> QED
  BY <1>2, <1>3

\* The steps of the renderer that only go on to another stage.
Onward == FrameBegins \/ ThrottleFree \/ ThrottleFull \/ Waited \/ LoopEnds

LEMMA OnwardPlace ==
  ASSUME RingTypes, Onward
  PROVE  /\ UNCHANGED otherVars
         /\ stage \in {"idle", "throttle", "waited"}
         /\ stage' \in {"poll", "throttle", "take", "waited", "drain"}
         /\ cursor' \in Slots
         /\ after' \in {"idle", "throttle", "waited", "take", "drain"}
         /\ stage' = "poll" => after' # "drain"
         /\ ~supported => stage' # "poll"
<1> DEFINE Places == {"idle", "throttle", "waited", "take", "drain"}
<1>0. cursor \in Slots /\ after \in Places /\ supported \in BOOLEAN
  BY DEF RingTypes, RingTypeOK
<1>1. CASE FrameBegins
  <2>1. stage = "idle" /\ UNCHANGED otherVars /\ (Poll("throttle") \/ Poll("take"))
    BY <1>1 DEF FrameBegins
  <2> QED
    BY <2>1, <1>0, PollPlace, Zenon
<1>2. CASE ThrottleFree
  <2>1. stage = "throttle" /\ UNCHANGED otherVars /\ Poll("take")
    BY <1>2 DEF ThrottleFree
  <2> QED
    BY <2>1, <1>0, PollPlace, Zenon
<1>3. CASE ThrottleFull
  <2>1. stage = "throttle" /\ UNCHANGED otherVars /\ Poll("waited")
    BY <1>3 DEF ThrottleFull
  <2> QED
    BY <2>1, <1>0, PollPlace, Zenon
<1>4. CASE Waited
  <2>1. stage = "waited" /\ UNCHANGED otherVars /\ Poll("take")
    BY <1>4 DEF Waited
  <2> QED
    BY <2>1, <1>0, PollPlace, Zenon
<1>5. CASE LoopEnds
  <2>1. stage = "idle" /\ UNCHANGED otherVars /\ stage' = "drain" /\ UNCHANGED <<cursor, after>>
    BY <1>5 DEF LoopEnds, Goto
  <2> QED
    BY <2>1, <1>0
<1> QED
  BY <1>1, <1>2, <1>3, <1>4, <1>5 DEF Onward

\* Where a frame's end leads.
LEMMA SubmittedPlace ==
  ASSUME RingTypes, Submitted
  PROVE  /\ frames' = frames + 1
         /\ since_sync' \in Nat
         /\ stage' \in {"poll", "idle", "drain"}
         /\ cursor' \in Slots
         /\ after' \in {"idle", "throttle", "waited", "take", "drain"}
         /\ stage' = "poll" => after' = "idle"
         /\ ~supported => stage' # "poll"
<1> DEFINE Places == {"idle", "throttle", "waited", "take", "drain"}
<1>0. cursor \in Slots /\ after \in Places /\ supported \in BOOLEAN /\ since_sync \in Nat
  BY DEF RingTypes, RingTypeOK
<1>1. frames' = frames + 1
  BY DEF Submitted
<1>2. since_sync' \in Nat
  BY <1>0 DEF Submitted
<1>3. Poll("idle") \/ (stage' = "drain" /\ UNCHANGED <<cursor, after>>)
  BY DEF Submitted, Goto
<1>4. CASE Poll("idle")
  BY <1>0, <1>1, <1>2, <1>4, PollPlace, Zenon
<1>5. CASE stage' = "drain" /\ UNCHANGED <<cursor, after>>
  BY <1>0, <1>1, <1>2, <1>5
<1> QED
  BY <1>3, <1>4, <1>5

\* The next step, by kind.
LEMMA RingSteps ==
  ASSUME [RingNext]_ringVars
  PROVE  \/ UNCHANGED ringVars \/ GpuFinishes \/ GpuDisjoint \/ WarmupEnds
         \/ PollSlot \/ Onward \/ ThrottleBatch \/ TakeSlot \/ DrawUntimed
         \/ Drain
  BY Zenon DEF RingNext, Onward

\* The pacing and the timer are settled before the loop.
LEMMA Constant ==
  ASSUME [RingNext]_ringVars
  PROVE  UNCHANGED <<offscreen, supported>>
  BY Zenon DEF ringVars, otherVars, setup, RingNext, GpuFinishes, GpuDisjoint,
    WarmupEnds, PollSlot, FrameBegins, ThrottleBatch, ThrottleFree, ThrottleFull,
    Waited, TakeSlot, DrawUntimed, LoopEnds, Drain

-----------------------------------------------------------------------------
(* Each part of the invariant is kept                                      *)

Placed ==
  /\ stage \in {"idle", "poll", "throttle", "waited", "take", "drain"}
  /\ cursor \in Slots /\ after \in {"idle", "throttle", "waited", "take", "drain"}

LEMMA PlacedStep ==
  ASSUME RingTypes, [RingNext]_ringVars
  PROVE  Placed'
<1> DEFINE Places == {"idle", "throttle", "waited", "take", "drain"}
<1>0. /\ stage \in Places \cup {"poll"} /\ cursor \in Slots /\ after \in Places
      /\ TimerSlots \in Nat
  BY RingAssumption DEF RingTypes, RingTypeOK
<1>1. CASE UNCHANGED ringVars \/ GpuFinishes \/ GpuDisjoint \/ WarmupEnds
  <2>1. UNCHANGED place
    BY <1>1 DEF ringVars, GpuFinishes, GpuDisjoint, WarmupEnds
  <2> QED
    BY <2>1, <1>0 DEF place, Placed
<1>2. CASE PollSlot
  <2>1. CASE cursor < TimerSlots /\ cursor' = cursor + 1 /\ UNCHANGED <<stage, after>>
    <3>1. cursor' \in Slots
      BY <2>1, <1>0 DEF Slots
    <3> QED
      BY <2>1, <3>1, <1>0 DEF Placed
  <2>2. CASE stage' = after /\ UNCHANGED <<cursor, after>>
    BY <2>2, <1>0 DEF Placed
  <2> QED
    BY <1>2, <2>1, <2>2, PollMoves
<1>3. CASE Onward
  BY <1>3, OnwardPlace DEF Placed
<1>4. CASE ThrottleBatch
  BY <1>4, <1>0 DEF ThrottleBatch, Goto, Placed
<1>5. CASE TakeSlot \/ DrawUntimed
  <2>1. Submitted
    BY <1>5 DEF TakeSlot, DrawUntimed
  <2> QED
    BY <2>1, SubmittedPlace DEF Placed
<1>6. CASE Drain
  <2>1. Poll("drain")
    BY <1>6 DEF Drain
  <2> QED
    BY <2>1, PollPlace DEF Placed
<1> QED
  BY <1>1, <1>2, <1>3, <1>4, <1>5, <1>6, RingSteps

Flags ==
  /\ offscreen \in BOOLEAN /\ supported \in BOOLEAN
  /\ disjoint \in BOOLEAN /\ spoiled \in BOOLEAN

Data ==
  /\ active \subseteq Slots /\ measured \subseteq Slots
  /\ sequence \in [Slots -> Nat]
  /\ queue \in Seq(Slots \cup {Untimed})
  /\ gpu_sample_count \in 0 .. MaxSamples
  /\ tainted \subseteq active
  /\ timer_sequence \in Nat /\ timer_completed \in Nat /\ timer_discarded \in Nat
  /\ since_sync \in Nat /\ finishes \in Nat /\ frames \in Nat

LEMMA Parts == RingTypes <=> Placed /\ Flags /\ Data
  BY Zenon DEF RingTypes, RingTypeOK, Placed, Flags, Data

LEMMA FlagsStep ==
  ASSUME RingTypes, [RingNext]_ringVars
  PROVE  Flags'
<1>0. Flags
  BY Parts
<1>1. UNCHANGED <<offscreen, supported>>
  BY Constant
<1>2. CASE UNCHANGED <<disjoint, spoiled>>
  BY <1>0, <1>1, <1>2, Zenon DEF Flags
<1>3. CASE disjoint' = TRUE /\ UNCHANGED spoiled
  BY <1>0, <1>1, <1>3, Zenon DEF Flags
<1>4. CASE PollSlot
  <2>1. disjoint' \in BOOLEAN
    BY <1>0, <1>4, PollTakes, Zenon DEF Flags
  <2>2. spoiled' \in BOOLEAN
    BY <1>0, <1>4, PollTakes, Zenon DEF Flags
  <2> QED
    BY <1>0, <1>1, <2>1, <2>2, Zenon DEF Flags
<1>5. \/ UNCHANGED <<disjoint, spoiled>>
      \/ (disjoint' = TRUE /\ UNCHANGED spoiled)
      \/ PollSlot
  BY Zenon DEF ringVars, otherVars, gpuVars, RingNext, GpuFinishes, GpuDisjoint,
    WarmupEnds, FrameBegins, ThrottleBatch, ThrottleFree, ThrottleFull,
    Waited, TakeSlot, DrawUntimed, LoopEnds, Drain
<1> QED
  BY <1>2, <1>3, <1>4, <1>5

LEMMA DataStep ==
  ASSUME RingTypes, QueueInv, [RingNext]_ringVars
  PROVE  Data'
<1>a. Data
  BY Parts
<1>1. CASE UNCHANGED ringVars \/ Onward \/ WarmupEnds
  <2>1. UNCHANGED otherVars \/ WarmupEnds
    BY <1>1, OnwardPlace, Zenon DEF ringVars
  <2>2. UNCHANGED <<slotVars, counters, since_sync, finishes, queue, frames, tainted>>
    BY <2>1, Zenon DEF otherVars, gpuVars, WarmupEnds
  <2> QED
    BY <1>a, <2>2 DEF Data, slotVars, counters
<1>2. CASE GpuFinishes
  <2>1. UNCHANGED <<slotVars, counters, since_sync, finishes, frames, tainted>>
        /\ queue # <<>> /\ queue' = Tail(queue)
    BY <1>2, Zenon DEF GpuFinishes
  <2>2. queue' \in Seq(Slots \cup {Untimed})
    BY <1>a, <2>1, QueueTail DEF Data
  <2> QED
    BY <1>a, <2>1, <2>2 DEF Data, slotVars, counters
<1>3. CASE GpuDisjoint
  <2>1. InQueue \ {Untimed} \subseteq active
    BY DEF QueueInv
  <2>2. UNCHANGED <<slotVars, counters, since_sync, finishes, queue, frames>>
        /\ tainted' = tainted \cup (InQueue \ {Untimed})
    BY <1>3, Zenon DEF GpuDisjoint
  <2>3. tainted' \subseteq active'
    BY <1>a, <2>1, <2>2 DEF Data, slotVars
  <2> QED
    BY <1>a, <2>2, <2>3 DEF Data, slotVars, counters
<1>5. CASE PollSlot
  <2>1. active' \subseteq Slots /\ tainted' \subseteq active'
    <3>1. \/ active' = active \ {cursor} /\ tainted' = tainted \ {cursor}
          \/ active' = active /\ tainted' = tainted
      BY <1>5, PollTakes, Zenon
    <3> QED
      BY <1>a, <3>1 DEF Data
  <2>2. /\ gpu_sample_count' \in 0 .. MaxSamples
        /\ timer_completed' \in Nat /\ timer_discarded' \in Nat
    <3>1. gpu_sample_count \in Nat /\ timer_completed \in Nat /\ timer_discarded \in Nat
          /\ MaxSamples \in Nat /\ gpu_sample_count <= MaxSamples
      BY <1>a, RingAssumption DEF Data
    <3>2. \/ gpu_sample_count' = gpu_sample_count
          \/ gpu_sample_count < MaxSamples /\ gpu_sample_count' = gpu_sample_count + 1
      BY <1>5, PollTakes, Zenon
    <3>3. timer_completed' = timer_completed + 1 \/ timer_completed' = timer_completed
      BY <1>5, PollTakes, Zenon
    <3>4. timer_discarded' = timer_discarded + 1 \/ timer_discarded' = timer_discarded
      BY <1>5, PollTakes, Zenon
    <3> QED
      BY <3>1, <3>2, <3>3, <3>4
  <2>3. UNCHANGED <<sequence, measured, timer_sequence, since_sync, finishes, queue, frames>>
    BY <1>5, PollMoves, Zenon
  <2> QED
    BY <1>a, <2>1, <2>2, <2>3 DEF Data
<1>6. CASE ThrottleBatch
  <2>1. UNCHANGED <<slotVars, counters, finishes, frames, tainted>>
        /\ ((queue' = <<>> /\ since_sync' = 0) \/ UNCHANGED <<queue, since_sync>>)
    BY <1>6, Zenon DEF ThrottleBatch
  <2>2. queue' \in Seq(Slots \cup {Untimed}) /\ since_sync' \in Nat
    BY <1>a, <2>1, QueueEmpty DEF Data
  <2> QED
    BY <1>a, <2>1, <2>2 DEF Data, slotVars, counters
<1>7. CASE TakeSlot
  <2>1. PICK s \in Free :
          /\ active' = active \cup {s}
          /\ sequence' = [sequence EXCEPT ![s] = timer_sequence + 1]
          /\ measured' = IF warm THEN measured \cup {s} ELSE measured \ {s}
          /\ queue' = Append(queue, s)
    BY <1>7, Zenon DEF TakeSlot
  <2>2. s \in Slots
    BY DEF Free
  <2>3. active' \subseteq Slots /\ measured' \subseteq Slots /\ sequence' \in [Slots -> Nat]
    BY <1>a, <2>1, <2>2 DEF Data
  <2>4. queue' \in Seq(Slots \cup {Untimed})
    BY <1>a, <2>1, <2>2, QueueAppend DEF Data
  <2>5. Submitted /\ timer_sequence' = timer_sequence + 1
        /\ UNCHANGED <<timer_completed, timer_discarded, gpu_sample_count,
                       finishes, tainted>>
    BY <1>7, Zenon DEF TakeSlot
  <2>6. frames' = frames + 1 /\ since_sync' \in Nat
    BY <2>5, SubmittedPlace
  <2> QED
    BY <1>a, <2>1, <2>3, <2>4, <2>5, <2>6 DEF Data
<1>8. CASE DrawUntimed
  <2>1. queue' = Append(queue, Untimed) /\ Submitted
        /\ UNCHANGED <<slotVars, counters, finishes, tainted>>
    BY <1>8, Zenon DEF DrawUntimed
  <2>2. queue' \in Seq(Slots \cup {Untimed})
    BY <1>a, <2>1, QueueAppend DEF Data
  <2>3. frames' = frames + 1 /\ since_sync' \in Nat
    BY <2>1, SubmittedPlace
  <2> QED
    BY <1>a, <2>1, <2>2, <2>3 DEF Data, slotVars, counters
<1>9. CASE Drain
  <2>1. UNCHANGED <<slotVars, counters, since_sync, frames, tainted>>
        /\ queue' = <<>> /\ finishes' = finishes + 1
    BY <1>9, Zenon DEF Drain
  <2>2. queue' \in Seq(Slots \cup {Untimed})
    BY <2>1, QueueEmpty
  <2> QED
    BY <1>a, <2>1, <2>2 DEF Data, slotVars, counters
<1> QED
  BY <1>1, <1>2, <1>3, <1>5, <1>6, <1>7, <1>8, <1>9, RingSteps

LEMMA TypesStep ==
  ASSUME RingTypes, QueueInv, [RingNext]_ringVars
  PROVE  RingTypes'
<1>1. Placed' /\ Flags' /\ Data'
  BY PlacedStep, FlagsStep, DataStep
<1> QED
  BY <1>1, Zenon DEF RingTypes, RingTypeOK, Placed, Flags, Data

\* What a step does to the GPU's work and the ring.
LEMMA QueueStep ==
  ASSUME RingTypes, QueueInv, DrainInv, [RingNext]_ringVars
  PROVE  QueueInv'
<1>a. Data /\ Flags /\ InQueue \subseteq active \cup {Untimed}
      /\ (~supported => active = {} /\ stage # "poll")
  BY Parts DEF QueueInv
<1>b. UNCHANGED <<queue, active>> => InQueue' \subseteq active' \cup {Untimed}
  BY <1>a DEF InQueue
<1>c. UNCHANGED supported
  BY Constant
<1>1. CASE UNCHANGED ringVars \/ GpuDisjoint \/ WarmupEnds
  <2>1. UNCHANGED <<queue, active, stage>>
    BY <1>1, Zenon DEF ringVars, otherVars, gpuVars, slotVars, place, GpuDisjoint, WarmupEnds
  <2> QED
    BY <1>a, <1>b, <1>c, <2>1, Zenon DEF QueueInv
<1>2. CASE Onward
  <2>1. UNCHANGED <<queue, active>> /\ (~supported => stage' # "poll")
    BY <1>2, OnwardPlace, Zenon DEF otherVars, gpuVars, slotVars
  <2> QED
    BY <1>a, <1>b, <1>c, <2>1, Zenon DEF QueueInv
<1>3. CASE GpuFinishes
  <2>1. UNCHANGED <<active, stage>> /\ queue # <<>> /\ queue' = Tail(queue)
    BY <1>3, Zenon DEF GpuFinishes, slotVars, place
  <2>2. InQueue' \subseteq InQueue
    BY <1>a, <2>1, QueueTail DEF Data
  <2>3. InQueue' \subseteq active' \cup {Untimed}
    BY <1>a, <2>1, <2>2
  <2> QED
    BY <1>a, <1>c, <2>1, <2>3, Zenon DEF QueueInv
<1>4. CASE PollSlot
  <2>1. supported
    BY <1>a, <1>4, PollMoves
  <2>2. active' = active \/ (cursor \notin InQueue /\ active' = active \ {cursor})
    BY <1>4, PollTakes, Zenon
  <2>3. UNCHANGED queue
    BY <1>4, PollMoves, Zenon
  <2>4. InQueue' = InQueue
    BY <2>3 DEF InQueue
  <2>5. InQueue' \subseteq active' \cup {Untimed}
    BY <1>a, <2>2, <2>4
  <2> QED
    BY <1>c, <2>1, <2>5, Zenon DEF QueueInv
<1>5. CASE ThrottleBatch
  <2>1. UNCHANGED active /\ stage' = "take" /\ (queue' = <<>> \/ UNCHANGED queue)
    BY <1>5, Zenon DEF ThrottleBatch, Goto, slotVars
  <2>2. InQueue' \subseteq active' \cup {Untimed}
    BY <1>b, <2>1, QueueEmpty
  <2>3. stage' # "poll"
    BY <2>1
  <2> QED
    BY <1>a, <1>c, <2>1, <2>2, <2>3, Zenon DEF QueueInv
<1>6. CASE TakeSlot
  <2>1. supported
    BY <1>6, Zenon DEF TakeSlot
  <2>2. PICK s \in Free : active' = active \cup {s} /\ queue' = Append(queue, s)
    BY <1>6, Zenon DEF TakeSlot
  <2>3. InQueue' = InQueue \cup {s}
    BY <1>a, <2>2, QueueAppend DEF Data, Free
  <2>4. InQueue' \subseteq active' \cup {Untimed}
    BY <1>a, <2>2, <2>3
  <2> QED
    BY <1>c, <2>1, <2>4, Zenon DEF QueueInv
<1>7. CASE DrawUntimed
  <2>1. queue' = Append(queue, Untimed) /\ Submitted /\ UNCHANGED active
    BY <1>7, Zenon DEF DrawUntimed, slotVars
  <2>2. InQueue' = InQueue \cup {Untimed}
    BY <1>a, <2>1, QueueAppend DEF Data
  <2>3. InQueue' \subseteq active' \cup {Untimed}
    BY <1>a, <2>1, <2>2
  <2>4. ~supported => stage' # "poll"
    BY <2>1, SubmittedPlace
  <2> QED
    BY <1>a, <1>c, <2>1, <2>3, <2>4, Zenon DEF QueueInv
<1>8. CASE Drain
  <2>1. queue' = <<>> /\ UNCHANGED active /\ Poll("drain")
    BY <1>8, Zenon DEF Drain, slotVars
  <2>2. InQueue' \subseteq active' \cup {Untimed}
    BY <2>1, QueueEmpty
  <2>3. ~supported => stage' # "poll"
    BY <2>1 DEF Poll
  <2> QED
    BY <1>a, <1>c, <2>1, <2>2, <2>3, Zenon DEF QueueInv
<1> QED
  BY <1>1, <1>2, <1>3, <1>4, <1>5, <1>6, <1>7, <1>8, RingSteps

LEMMA CountStep ==
  ASSUME RingTypes, QueueInv, CountInv, [RingNext]_ringVars
  PROVE  CountInv'
<1>a. /\ timer_sequence \in Nat /\ timer_completed \in Nat /\ timer_discarded \in Nat
      /\ gpu_sample_count \in Nat /\ active \in SUBSET Slots
  BY RingAssumption DEF RingTypes, RingTypeOK
<1>b. /\ IsFiniteSet(active) /\ Cardinality(active) \in Nat
      /\ timer_sequence = timer_completed + Cardinality(active)
      /\ gpu_sample_count + timer_discarded <= timer_completed
  BY <1>a, SlotsFinite DEF CountInv
<1>1. CASE UNCHANGED <<counters, active>>
  BY <1>b, <1>1 DEF CountInv, counters
<1>2. CASE PollSlot
  <2>1. UNCHANGED timer_sequence
    BY <1>2, PollMoves, Zenon
  <2>2. CASE cursor \in active /\ cursor \notin InQueue
    <3>1. /\ active' = active \ {cursor} /\ timer_completed' = timer_completed + 1
          /\ \/ timer_discarded' = timer_discarded + 1 /\ gpu_sample_count' = gpu_sample_count
             \/ timer_discarded' = timer_discarded /\ gpu_sample_count' = gpu_sample_count + 1
             \/ timer_discarded' = timer_discarded /\ gpu_sample_count' = gpu_sample_count
      BY <1>2, <2>2, PollTakes, Zenon
    <3>2. Cardinality(active') = Cardinality(active) - 1
      BY <1>b, <2>2, <3>1, FS_RemoveElement
    <3>3. timer_sequence' = timer_completed' + Cardinality(active')
      BY <1>a, <1>b, <2>1, <3>1, <3>2
    <3>4. gpu_sample_count' + timer_discarded' <= timer_completed'
      BY <1>a, <1>b, <3>1
    <3> QED
      BY <3>3, <3>4 DEF CountInv
  <2>3. CASE ~(cursor \in active /\ cursor \notin InQueue)
    <3>1. UNCHANGED <<active, timer_completed, timer_discarded, gpu_sample_count>>
      BY <1>2, <2>3, PollTakes, Zenon
    <3> QED
      BY <1>b, <2>1, <3>1 DEF CountInv
  <2> QED
    BY <2>2, <2>3
<1>3. CASE TakeSlot
  <2>1. PICK s \in Free : active' = active \cup {s}
    BY <1>3, Zenon DEF TakeSlot
  <2>2. s \notin active
    BY DEF Free
  <2>3. Cardinality(active') = Cardinality(active) + 1
    BY <1>b, <2>1, <2>2, FS_AddElement
  <2>4. timer_sequence' = timer_sequence + 1
        /\ UNCHANGED <<timer_completed, timer_discarded, gpu_sample_count>>
    BY <1>3, Zenon DEF TakeSlot
  <2> QED
    BY <1>a, <1>b, <2>3, <2>4 DEF CountInv
<1>4. CASE ~PollSlot /\ ~TakeSlot
  <2>1. UNCHANGED <<counters, active>>
    BY <1>4, OnwardPlace, RingSteps, Zenon DEF ringVars, otherVars, slotVars, GpuFinishes,
      GpuDisjoint, WarmupEnds, ThrottleBatch, DrawUntimed, Drain
  <2> QED
    BY <1>1, <2>1
<1> QED
  BY <1>2, <1>3, <1>4

LEMMA SpoilStep ==
  ASSUME RingTypes, SpoilInv, [RingNext]_ringVars
  PROVE  SpoilInv'
<1>a. timer_discarded \in Nat /\ disjoint \in BOOLEAN
  BY DEF RingTypes, RingTypeOK
<1> DEFINE Told == timer_discarded > 0
<1>b. /\ tainted # {} => disjoint \/ Told
      /\ spoiled => Told
  BY DEF SpoilInv
<1>c. (tainted' # {} => disjoint' \/ Told') /\ (spoiled' => Told') => SpoilInv'
  BY DEF SpoilInv
<1>1. CASE UNCHANGED <<tainted, disjoint, spoiled, timer_discarded>>
  BY <1>1, <1>b, <1>c
<1>2. CASE GpuDisjoint
  <2>1. disjoint' = TRUE /\ UNCHANGED <<spoiled, timer_discarded>>
    BY <1>2, Zenon DEF GpuDisjoint, counters
  <2> QED
    BY <2>1, <1>b, <1>c
<1>3. CASE PollSlot
  <2>1. CASE UNCHANGED <<tainted, disjoint, spoiled, timer_discarded>>
    BY <2>1, <1>1
  <2>2. CASE tainted' = tainted \ {cursor} /\ disjoint /\ timer_discarded' = timer_discarded + 1
    <3>1. Told'
      BY <2>2, <1>a
    <3> QED
      BY <3>1, <1>c
  <2>3. CASE tainted' = tainted \ {cursor} /\ ~disjoint /\ timer_discarded' = timer_discarded
             /\ (spoiled' => spoiled \/ cursor \in tainted)
    <3>1. tainted' # {} => tainted # {}
      BY <2>3
    <3>2. Told' <=> Told
      BY <2>3
    <3>3. cursor \in tainted => tainted # {}
      OBVIOUS
    <3> QED
      BY <2>3, <3>1, <3>2, <3>3, <1>b, <1>c
  <2>4. \/ UNCHANGED <<tainted, disjoint, spoiled, timer_discarded>>
        \/ tainted' = tainted \ {cursor} /\ disjoint /\ timer_discarded' = timer_discarded + 1
        \/ tainted' = tainted \ {cursor} /\ ~disjoint /\ timer_discarded' = timer_discarded
             /\ (spoiled' => spoiled \/ cursor \in tainted)
    BY <1>3, PollTakes, Zenon
  <2> QED
    BY <2>1, <2>2, <2>3, <2>4
<1>4. CASE ~PollSlot /\ ~GpuDisjoint
  <2>1. UNCHANGED <<tainted, disjoint, spoiled, timer_discarded>>
    BY <1>4, OnwardPlace, RingSteps, Zenon DEF ringVars, otherVars, counters, gpuVars,
      GpuFinishes, WarmupEnds, ThrottleBatch, TakeSlot, DrawUntimed, Drain
  <2> QED
    BY <1>1, <2>1
<1> QED
  BY <1>2, <1>3, <1>4

Draining == stage = "poll" /\ after = "drain"

\* While it drains only the drain and its polls move the renderer.
LEMMA DrainStep ==
  ASSUME RingTypes, QueueInv, DrainInv, [RingNext]_ringVars
  PROVE  DrainInv'
<1>a. /\ finishes \in Nat /\ queue \in Seq(Slots \cup {Untimed})
      /\ active \subseteq Slots /\ cursor \in Slots /\ TimerSlots \in Nat
      /\ Slots \subseteq Nat
  BY SlotsFinite, RingAssumption DEF RingTypes, RingTypeOK
<1>b. /\ finishes > 0 => stage = "drain" \/ Draining
      /\ Draining => finishes > 0
      /\ finishes > 0 => queue = <<>>
      /\ stage = "drain" /\ finishes > 0 => active = {}
      /\ Draining => \A s \in active : cursor <= s
  BY DEF DrainInv, Draining
<1>c. /\ finishes' > 0 => stage' = "drain" \/ Draining'
      /\ Draining' => finishes' > 0
      /\ finishes' > 0 => queue' = <<>>
      /\ stage' = "drain" /\ finishes' > 0 => active' = {}
      /\ Draining' => \A s \in active' : cursor' <= s
      => DrainInv'
  BY Zenon DEF DrainInv, Draining
<1>d. stage \notin {"drain", "poll"} => ~(finishes > 0)
  BY <1>b DEF Draining
<1>1. CASE UNCHANGED ringVars \/ GpuFinishes \/ GpuDisjoint \/ WarmupEnds
  <2>1. UNCHANGED <<finishes, stage, cursor, after, active>>
        /\ (UNCHANGED queue \/ queue # <<>>)
    BY <1>1, Zenon DEF ringVars, otherVars, slotVars, gpuVars, place, GpuFinishes,
      GpuDisjoint, WarmupEnds
  <2> QED
    BY <2>1, <1>b, <1>c DEF Draining
<1>2. CASE Onward
  <2>1. UNCHANGED <<finishes, queue, active>>
        /\ stage \in {"idle", "throttle", "waited"} /\ ~Draining'
    BY <1>2, OnwardPlace, Zenon DEF otherVars, slotVars, gpuVars, Draining
  <2>2. ~(finishes > 0)
    BY <1>d, <2>1
  <2> QED
    BY <2>1, <2>2, <1>c
<1>3. CASE PollSlot
  <2>1. /\ stage = "poll" /\ UNCHANGED <<finishes, queue>>
        /\ \/ cursor < TimerSlots /\ cursor' = cursor + 1 /\ UNCHANGED <<stage, after>>
           \/ ~(cursor < TimerSlots) /\ stage' = after /\ UNCHANGED <<cursor, after>>
    BY <1>3, PollMoves, Zenon
  <2>2. active' = active \ {cursor} \/ (active' = active /\ (cursor \notin active \/ cursor \in InQueue))
    BY <1>3, PollTakes, Zenon
  <2>3. CASE ~Draining
    <3>1. ~(finishes > 0)
      BY <1>b, <2>1, <2>3
    <3>2. ~Draining'
      BY <2>1, <2>3 DEF Draining
    <3> QED
      BY <2>1, <3>1, <3>2, <1>c
  <2>4. CASE Draining
    <3>1. InQueue = {} /\ queue = <<>> /\ finishes > 0
      BY <1>b, <2>4 DEF InQueue
    <3>2. active' = active \ {cursor}
      BY <2>2, <3>1
    <3>3. \A s \in active' : s \in Nat /\ s <= TimerSlots /\ cursor < s
      BY <1>a, <1>b, <2>4, <3>2 DEF Slots
    <3>4. CASE cursor < TimerSlots /\ cursor' = cursor + 1 /\ UNCHANGED <<stage, after>>
      <4>1. \A s \in active' : cursor' <= s
        BY <1>a, <3>3, <3>4
      <4>2. Draining' /\ stage' # "drain"
        BY <2>4, <3>4 DEF Draining
      <4> QED
        BY <2>1, <3>1, <4>1, <4>2, <1>c
    <3>5. CASE ~(cursor < TimerSlots) /\ stage' = after /\ UNCHANGED <<cursor, after>>
      <4>1. active' = {}
        BY <1>a, <3>3, <3>5
      <4>2. stage' = "drain" /\ ~Draining'
        BY <2>4, <3>5 DEF Draining
      <4> QED
        BY <2>1, <3>1, <4>1, <4>2, <1>c
    <3> QED
      BY <2>1, <3>4, <3>5
  <2> QED
    BY <2>3, <2>4
<1>4. CASE ThrottleBatch
  <2>1. stage = "throttle" /\ stage' = "take" /\ UNCHANGED finishes
    BY <1>4, Zenon DEF ThrottleBatch, Goto
  <2> QED
    BY <2>1, <1>c, <1>d DEF Draining
<1>5. CASE TakeSlot \/ DrawUntimed
  <2>1. stage = "take" /\ UNCHANGED finishes /\ Submitted
    BY <1>5, Zenon DEF TakeSlot, DrawUntimed
  <2>2. ~Draining'
    BY <2>1, SubmittedPlace DEF Draining
  <2> QED
    BY <2>1, <2>2, <1>c, <1>d
<1>6. CASE Drain
  <2>1. stage = "drain" /\ finishes' = finishes + 1 /\ queue' = <<>> /\ Poll("drain")
        /\ UNCHANGED <<active, supported>>
    BY <1>6, Zenon DEF Drain, setup, slotVars
  <2>2. finishes' > 0
    BY <1>a, <2>1
  <2>3. CASE supported
    <3>1. stage' = "poll" /\ cursor' = 1 /\ after' = "drain"
      BY <2>1, <2>3 DEF Poll
    <3>2. \A s \in active' : cursor' <= s
      BY <1>a, <2>1, <3>1 DEF Slots
    <3> QED
      BY <2>1, <2>2, <3>1, <3>2, <1>c DEF Draining
  <2>4. CASE ~supported
    <3>1. stage' = "drain" /\ active' = {}
      BY <2>1, <2>4, Zenon DEF Poll, QueueInv
    <3> QED
      BY <2>1, <2>2, <3>1, <1>c DEF Draining
  <2> QED
    BY <2>3, <2>4
<1> QED
  BY <1>1, <1>2, <1>3, <1>4, <1>5, <1>6, RingSteps

-----------------------------------------------------------------------------
(* The invariant                                                           *)

LEMMA RingInitially == RingInit => RingInv
<1> SUFFICES ASSUME RingInit PROVE RingInv
  OBVIOUS
<1>1. /\ stage = "idle" /\ cursor = 1 /\ after = "idle" /\ 1 \in Slots
      /\ active = {} /\ measured = {} /\ tainted = {} /\ queue = <<>>
      /\ sequence = [s \in Slots |-> 0]
      /\ timer_sequence = 0 /\ timer_completed = 0 /\ timer_discarded = 0
      /\ gpu_sample_count = 0 /\ since_sync = 0 /\ finishes = 0 /\ frames = 0
  BY RingAssumption DEF RingInit, Slots
<1>2. offscreen \in BOOLEAN /\ supported \in BOOLEAN /\ disjoint = FALSE /\ spoiled = FALSE
  BY Zenon DEF RingInit
<1>3. Placed
  BY <1>1 DEF Placed
<1>4. Flags
  BY <1>2, Zenon DEF Flags
<1>5. Data
  BY <1>1, RingAssumption DEF Data
<1>6. QueueInv
  BY <1>1 DEF QueueInv, InQueue
<1>7. CountInv
  BY <1>1, FS_EmptySet DEF CountInv
<1>8. DrainInv
  BY <1>1 DEF DrainInv
<1>9. SpoilInv
  BY <1>1, <1>2 DEF SpoilInv
<1> QED
  BY <1>3, <1>4, <1>5, <1>6, <1>7, <1>8, <1>9, Parts DEF RingInv

\* What the renderer and the GPU keep at every step.
THEOREM RingInvariant == RingSpec => []RingInv
<1>1. RingInv /\ [RingNext]_ringVars => RingInv'
  BY TypesStep, QueueStep, CountStep, DrainStep, SpoilStep DEF RingInv
<1> QED
  BY RingInitially, <1>1, PTL DEF RingSpec

\* The timer ring of wayland_egl_stress.c stays within its array and the
\* samples within theirs (817-895), whatever their sizes.
THEOREM RingTypeCorrect == RingSpec => []RingTypeOK
<1>1. RingInv => RingTypeOK
  BY DEF RingInv, RingTypes
<1> QED
  BY RingInvariant, <1>1, PTL

\* Every query the renderer starts is taken by exactly one poll, and the drain
\* of main (1956-1963) leaves none behind.
THEOREM TakenOnceCorrect == RingSpec => []EachTakenOnce
<1>1. RingInv => EachTakenOnce
  BY DEF RingInv, CountInv, DrainInv, EachTakenOnce
<1> QED
  BY RingInvariant, <1>1, PTL

\* A sample that a disjoint event spoiled is only ever recorded after a poll
\* has counted the event.
THEOREM SpoilNoticedCorrect == RingSpec => []SpoilNoticed
<1>1. RingInv => SpoilNoticed
  BY DEF RingInv, SpoilInv, SpoilNoticed
<1> QED
  BY RingInvariant, <1>1, PTL

-----------------------------------------------------------------------------
(* The work in flight                                                      *)

\* With a timer every frame in flight holds a slot of its own, and the way from
\* the throttle to the frame frees one: the poll after the wait comes past the
\* slot that was waited for.
TimedInv ==
  /\ \A i \in DOMAIN queue : queue[i] \in Slots
  /\ \A i, j \in DOMAIN queue : queue[i] = queue[j] => i = j
  /\ stage \in {"take", "waited"} => Free # {}
  /\ stage = "poll" /\ after = "take" => Free # {}
  /\ stage = "poll" /\ after = "waited" =>
        Free # {} \/ \E s \in Slots : cursor <= s /\ s \notin InQueue

\* Without one, the frames in flight were submitted since the last glFinish.
BatchInv ==
  /\ Len(queue) <= since_sync /\ since_sync <= OffscreenBatch
  /\ stage = "take" => since_sync < OffscreenBatch
  /\ stage # "waited"

WorkInv == offscreen => IF supported THEN TimedInv ELSE BatchInv

\* A nonempty set of numbers has a least one.
LEMMA Least ==
  ASSUME NEW T \in SUBSET Nat, T # {}
  PROVE  \E x \in T : \A y \in T : x <= y
<1> DEFINE R == OpToRel(<, Nat)
<1>1. IsWellFoundedOn(R, Nat)
  BY NatLessThanWellFounded
<1>2. PICK x \in T : \A y \in T : ~(<<y, x>> \in R)
  BY <1>1, WFMin
<1>3. \A y \in T : ~(y < x)
  BY <1>2 DEF OpToRel
<1> QED
  BY <1>3

\* There is an oldest query when there is any.
LEMMA OldestExists ==
  ASSUME RingTypes, active # {}
  PROVE  Oldest # {} /\ Oldest \subseteq active
<1>1. active \subseteq Slots /\ sequence \in [Slots -> Nat]
  BY DEF RingTypes, RingTypeOK
<1> DEFINE T == {sequence[s] : s \in active}
<1>2. T \in SUBSET Nat /\ T # {}
  BY <1>1
<1>3. PICK n \in T : \A k \in T : n <= k
  BY <1>2, Least, Zenon
<1>4. PICK s \in active : n = sequence[s]
  BY <1>3
<1>5. \A t \in active : sequence[s] <= sequence[t]
  BY <1>3, <1>4
<1> QED
  BY <1>4, <1>5 DEF Oldest

\* Which stage each step of the renderer leads to, in the offscreen pacings.
LEMMA OnwardStages ==
  ASSUME RingTypes, offscreen, Onward
  PROVE  \/ FrameBegins /\ (Poll("throttle") \/ stage' = "throttle")
         \/ ThrottleFree /\ Poll("take") /\ Free # {} /\ supported
         \/ ThrottleFull /\ Poll("waited") /\ supported
         \/ Waited /\ Poll("take") /\ stage = "waited"
         \/ LoopEnds /\ stage' = "drain"
  BY Zenon DEF Onward, FrameBegins, ThrottleFree, ThrottleFull, Waited, LoopEnds, Goto

LEMMA TimedStep ==
  ASSUME RingTypes, QueueInv, offscreen, supported, TimedInv, [RingNext]_ringVars
  PROVE  TimedInv'
<1>a. /\ queue \in Seq(Slots \cup {Untimed}) /\ active \subseteq Slots
      /\ cursor \in Slots /\ TimerSlots \in Nat /\ Untimed \notin Slots
      /\ Slots \subseteq Nat /\ InQueue \subseteq active \cup {Untimed}
      /\ after \in {"idle", "throttle", "waited", "take", "drain"}
  BY SlotsFinite, RingAssumption DEF RingTypes, RingTypeOK, QueueInv
<1> DEFINE Own(q) == /\ \A i \in DOMAIN q : q[i] \in Slots
                     /\ \A i, j \in DOMAIN q : q[i] = q[j] => i = j
           Way == /\ stage \in {"take", "waited"} => Free # {}
                  /\ stage = "poll" /\ after = "take" => Free # {}
                  /\ stage = "poll" /\ after = "waited" =>
                       Free # {} \/ \E s \in Slots : cursor <= s /\ s \notin InQueue
<1>b. Own(queue) /\ Way
  BY DEF TimedInv
<1>c. Own(queue') /\ Way' => TimedInv'
  BY DEF TimedInv
<1>d. UNCHANGED <<stage, cursor, after, active>> /\ InQueue' \subseteq InQueue => Way'
  BY <1>b DEF Free
<1>e. UNCHANGED queue => InQueue' = InQueue
  BY DEF InQueue
<1>1. CASE UNCHANGED ringVars \/ GpuDisjoint \/ WarmupEnds
  <2>1. UNCHANGED <<stage, cursor, after, active, queue>>
    BY <1>1, Zenon DEF ringVars, otherVars, gpuVars, slotVars, place, GpuDisjoint, WarmupEnds
  <2> QED
    BY <2>1, <1>b, <1>c, <1>d, <1>e
<1>2. CASE GpuFinishes
  <2>1. UNCHANGED <<stage, cursor, after, active>> /\ queue # <<>> /\ queue' = Tail(queue)
    BY <1>2, Zenon DEF GpuFinishes, slotVars, place
  <2>2. InQueue' \subseteq InQueue
    BY <1>a, <2>1, QueueTail
  <2>3. /\ DOMAIN queue' = 1 .. Len(queue) - 1 /\ DOMAIN queue = 1 .. Len(queue)
        /\ Len(queue) \in Nat
        /\ \A i \in DOMAIN queue' : i \in Nat /\ i + 1 \in DOMAIN queue /\ queue'[i] = queue[i + 1]
    BY <1>a, <2>1
  <2>4. Own(queue')
    <3>1. \A i \in DOMAIN queue' : queue'[i] \in Slots
      BY <1>b, <2>3
    <3>2. ASSUME NEW i \in DOMAIN queue', NEW j \in DOMAIN queue', queue'[i] = queue'[j]
          PROVE  i = j
      <4>1. i + 1 = j + 1
        BY <1>b, <2>3, <3>2
      <4> QED
        BY <2>3, <4>1
    <3> QED
      BY <3>1, <3>2
  <2> QED
    BY <1>c, <1>d, <2>1, <2>2, <2>4
<1>3. CASE Onward
  <2>1. UNCHANGED <<queue, active>>
    BY <1>3, OnwardPlace, Zenon DEF otherVars, gpuVars, slotVars
  <2>2. Free' = Free /\ InQueue' = InQueue /\ Own(queue')
    BY <2>1, <1>b, <1>e DEF Free
  <2>3. CASE Poll("throttle") \/ stage' = "throttle" \/ stage' = "drain"
    <3>1. stage' \notin {"take", "waited"} /\ (stage' = "poll" => after' = "throttle")
      BY <2>3 DEF Poll
    <3> QED
      BY <1>c, <2>2, <3>1
  <2>4. CASE Poll("take") /\ Free # {}
    <3>1. stage' = "poll" /\ after' = "take"
      BY <2>4 DEF Poll
    <3> QED
      BY <1>c, <2>2, <2>4, <3>1
  <2>5. CASE ThrottleFull /\ Poll("waited")
    <3>1. stage' = "poll" /\ after' = "waited" /\ cursor' = 1
      BY <2>5 DEF Poll
    <3>2. Free = {} /\ Oldest \cap InQueue = {}
      BY <2>5 DEF ThrottleFull, Finished
    <3>3. active # {}
      BY <3>2, RingAssumption DEF Free, Slots
    <3>4. PICK s \in Oldest : s \in Slots
      BY <1>a, <3>3, OldestExists
    <3>5. s \notin InQueue' /\ cursor' <= s
      BY <2>2, <3>1, <3>2, <3>4 DEF Slots
    <3> QED
      BY <1>c, <2>2, <3>1, <3>4, <3>5
  <2>6. stage = "waited" => Free # {}
    BY <1>b
  <2> QED
    BY <1>3, <2>3, <2>4, <2>5, <2>6, OnwardStages, Zenon
<1>4. CASE PollSlot
  <2>1. /\ stage = "poll" /\ UNCHANGED queue
        /\ \/ cursor < TimerSlots /\ cursor' = cursor + 1 /\ UNCHANGED <<stage, after>>
           \/ ~(cursor < TimerSlots) /\ stage' = after /\ UNCHANGED <<cursor, after>>
    BY <1>4, PollMoves, Zenon
  <2>2. \/ active' = active \ {cursor}
        \/ active' = active /\ (cursor \notin active \/ cursor \in InQueue)
    BY <1>4, PollTakes, Zenon
  <2>3. Own(queue') /\ InQueue' = InQueue /\ Free \subseteq Free'
    BY <1>b, <1>e, <2>1, <2>2 DEF Free
  <2>4. CASE after = "waited"
    <3>1. Free' # {} \/ \E s \in Slots : cursor < s /\ s \notin InQueue'
      <4>1. CASE Free # {}
        BY <2>3, <4>1
      <4>2. CASE \E s \in Slots : cursor <= s /\ s \notin InQueue
        <5>1. PICK s \in Slots : cursor <= s /\ s \notin InQueue
          BY <4>2
        <5>2. CASE cursor < s
          BY <2>3, <5>1, <5>2
        <5>3. CASE cursor = s
          BY <2>2, <5>1, <5>3 DEF Free
        <5> QED
          BY <1>a, <5>1, <5>2, <5>3
      <4> QED
        BY <1>b, <2>1, <2>4, <4>1, <4>2
    <3>2. CASE cursor < TimerSlots /\ cursor' = cursor + 1 /\ UNCHANGED <<stage, after>>
      <4>1. Free' # {} \/ \E s \in Slots : cursor' <= s /\ s \notin InQueue'
        BY <1>a, <3>1, <3>2
      <4> QED
        BY <1>c, <2>1, <2>3, <2>4, <3>2, <4>1
    <3>3. CASE ~(cursor < TimerSlots) /\ stage' = after /\ UNCHANGED <<cursor, after>>
      <4>1. \A s \in Slots : ~(cursor < s)
        BY <1>a, <3>3 DEF Slots
      <4>2. Free' # {}
        BY <3>1, <4>1
      <4> QED
        BY <1>c, <2>3, <2>4, <3>3, <4>2
    <3> QED
      BY <2>1, <3>2, <3>3
  <2>5. CASE after = "take"
    <3>1. Free' # {}
      BY <1>b, <2>1, <2>3, <2>5
    <3> QED
      BY <1>c, <2>1, <2>3, <2>5, <3>1
  <2>6. CASE after \notin {"take", "waited"}
    <3>1. stage' \notin {"take", "waited"} /\ after' \notin {"take", "waited"}
      BY <2>1, <2>6
    <3> QED
      BY <1>c, <2>3, <3>1
  <2> QED
    BY <2>4, <2>5, <2>6
<1>5. CASE TakeSlot
  <2>1. PICK s \in Free : active' = active \cup {s} /\ queue' = Append(queue, s)
    BY <1>5, Zenon DEF TakeSlot
  <2>2. Submitted
    BY <1>5, Zenon DEF TakeSlot
  <2>3. stage' \notin {"take", "waited"} /\ (stage' = "poll" => after' = "idle")
    BY <2>2, SubmittedPlace
  <2>4. s \in Slots /\ s \notin InQueue
    BY <1>a, <2>1 DEF Free
  <2>5. /\ DOMAIN queue = 1 .. Len(queue) /\ DOMAIN queue' = 1 .. Len(queue) + 1
        /\ Len(queue) \in Nat /\ queue'[Len(queue) + 1] = s
        /\ \A i \in DOMAIN queue : queue'[i] = queue[i]
    BY <1>a, <2>1, <2>4
  <2>6. \A i \in DOMAIN queue : queue[i] # s
    BY <2>4 DEF InQueue
  <2>7. \A i \in DOMAIN queue' : i \in DOMAIN queue \/ i = Len(queue) + 1
    BY <2>5
  <2>8. Own(queue')
    BY <1>b, <2>4, <2>5, <2>6, <2>7
  <2> QED
    BY <1>c, <2>3, <2>8
<1>6. CASE Drain
  <2>1. queue' = <<>> /\ Poll("drain")
    BY <1>6, Zenon DEF Drain
  <2>2. stage' = "poll" /\ after' = "drain"
    BY <2>1 DEF Poll
  <2>3. Own(queue')
    BY <2>1
  <2> QED
    BY <1>c, <2>2, <2>3
<1>7. ~ThrottleBatch /\ ~DrawUntimed
  BY <1>b DEF ThrottleBatch, DrawUntimed
<1> QED
  BY <1>1, <1>2, <1>3, <1>4, <1>5, <1>6, <1>7, RingSteps

LEMMA BatchStep ==
  ASSUME RingTypes, QueueInv, offscreen, ~supported, BatchInv, [RingNext]_ringVars
  PROVE  BatchInv'
<1>a. /\ queue \in Seq(Slots \cup {Untimed}) /\ Len(queue) \in Nat
      /\ since_sync \in Nat /\ OffscreenBatch \in Nat \ {0}
  BY RingAssumption DEF RingTypes, RingTypeOK
<1>b. /\ Len(queue) <= since_sync /\ since_sync <= OffscreenBatch
      /\ stage = "take" => since_sync < OffscreenBatch
      /\ stage # "waited" /\ stage # "poll"
  BY DEF BatchInv, QueueInv
<1>1. CASE UNCHANGED ringVars \/ GpuDisjoint \/ WarmupEnds
  <2>1. UNCHANGED <<stage, queue, since_sync>>
    BY <1>1, Zenon DEF ringVars, otherVars, gpuVars, place, GpuDisjoint, WarmupEnds
  <2> QED
    BY <2>1, <1>b DEF BatchInv
<1>2. CASE GpuFinishes
  <2>1. UNCHANGED <<stage, since_sync>> /\ queue # <<>> /\ queue' = Tail(queue)
    BY <1>2, Zenon DEF GpuFinishes, place
  <2>2. Len(queue') <= Len(queue) /\ Len(queue') \in Nat
    BY <1>a, <2>1
  <2>3. Len(queue') <= since_sync
    BY <1>a, <1>b, <2>2
  <2> QED
    BY <2>1, <2>3, <1>b DEF BatchInv
<1>3. CASE Onward
  <2>1. UNCHANGED <<queue, since_sync>>
    BY <1>3, OnwardPlace, Zenon DEF otherVars, gpuVars
  <2>2. stage' \in {"throttle", "drain"}
    BY <1>3, <1>b, OnwardStages DEF Poll
  <2> QED
    BY <2>1, <2>2, <1>b DEF BatchInv
<1>4. CASE ThrottleBatch
  <2>1. /\ stage' = "take"
        /\ \/ queue' = <<>> /\ since_sync' = 0
           \/ since_sync < OffscreenBatch /\ UNCHANGED <<queue, since_sync>>
    BY <1>4, Zenon DEF ThrottleBatch, Goto
  <2> QED
    BY <2>1, <1>a, <1>b DEF BatchInv
<1>5. CASE DrawUntimed
  <2>1. stage = "take" /\ queue' = Append(queue, Untimed) /\ Submitted
    BY <1>5, Zenon DEF DrawUntimed
  <2>2. since_sync' = since_sync + 1
    BY <2>1 DEF Submitted
  <2>3. stage' \in {"idle", "drain"}
    BY <2>1, SubmittedPlace
  <2>4. Len(queue') = Len(queue) + 1
    BY <1>a, <2>1
  <2>5. Len(queue') <= since_sync' /\ since_sync' <= OffscreenBatch
    BY <1>a, <1>b, <2>1, <2>2, <2>4
  <2> QED
    BY <2>3, <2>5 DEF BatchInv
<1>6. CASE Drain
  <2>1. queue' = <<>> /\ stage' = "drain" /\ UNCHANGED since_sync
    BY <1>6, Zenon DEF Drain, Poll
  <2> QED
    BY <2>1, <1>a, <1>b DEF BatchInv
<1>7. ~PollSlot /\ ~TakeSlot
  BY <1>b, Zenon DEF PollSlot, TakeSlot
<1> QED
  BY <1>1, <1>2, <1>3, <1>4, <1>5, <1>6, <1>7, RingSteps

\* Frames with slots of their own are no more than the slots.
LEMMA TimedBound ==
  ASSUME RingTypes, TimedInv
  PROVE  Len(queue) <= TimerSlots /\ Untimed \notin InQueue
<1>1. /\ queue \in Seq(Slots \cup {Untimed}) /\ TimerSlots \in Nat /\ TimerSlots \in Int
      /\ 1 \in Int /\ DOMAIN queue = 1 .. Len(queue) /\ Len(queue) \in Nat
      /\ Len(queue) \in Int
  BY RingAssumption DEF RingTypes, RingTypeOK
<1>2. queue \in [1 .. Len(queue) -> Slots]
  BY <1>1 DEF TimedInv
<1>3. IsFiniteSet(Slots) /\ Cardinality(Slots) = TimerSlots
  BY <1>1, FS_Interval, RingAssumption DEF Slots
<1>4. IsFiniteSet(1 .. Len(queue)) /\ Cardinality(1 .. Len(queue)) = Len(queue)
  <2>1. PICK n \in Nat : n = Len(queue)
    BY <1>1
  <2>2. IsFiniteSet(1 .. n) /\ Cardinality(1 .. n) = n
    BY FS_Interval
  <2> QED  BY <2>1, <2>2
<1>5. ~ \E i, j \in 1 .. Len(queue) : i # j /\ queue[i] = queue[j]
  BY <1>1 DEF TimedInv
<1>6. ~(TimerSlots < Len(queue))
  BY <1>2, <1>3, <1>4, <1>5, FS_PigeonHole
<1>7. Untimed \notin InQueue
  BY SlotsFinite DEF TimedInv, InQueue
<1> QED
  BY <1>1, <1>6, <1>7

\* throttle_offscreen (860-895) bounds the work of the GPU: never more frames
\* in flight than slots, each of them timed, or without a timer than a batch.
THEOREM WorkBoundedCorrect == RingSpec => []WorkBounded
<1>1. RingInit => WorkInv
  <2> SUFFICES ASSUME RingInit PROVE WorkInv
    OBVIOUS
  <2>1. queue = <<>> /\ stage = "idle" /\ since_sync = 0
    BY DEF RingInit
  <2>2. TimedInv
    BY <2>1 DEF TimedInv
  <2>3. BatchInv
    BY <2>1, RingAssumption DEF BatchInv
  <2> QED
    BY <2>2, <2>3, Zenon DEF WorkInv
<1>2. RingInv /\ WorkInv /\ [RingNext]_ringVars => WorkInv'
  <2> SUFFICES ASSUME RingInv, WorkInv, [RingNext]_ringVars PROVE WorkInv'
    OBVIOUS
  <2>1. RingTypes /\ QueueInv /\ UNCHANGED <<offscreen, supported>>
    BY Constant DEF RingInv
  <2>2. CASE offscreen /\ supported
    BY <2>1, <2>2, TimedStep, Zenon DEF WorkInv
  <2>3. CASE offscreen /\ ~supported
    BY <2>1, <2>3, BatchStep, Zenon DEF WorkInv
  <2>4. CASE ~offscreen
    BY <2>1, <2>4, Zenon DEF WorkInv
  <2> QED
    BY <2>2, <2>3, <2>4
<1>3. RingInv /\ WorkInv => WorkBounded
  <2> SUFFICES ASSUME RingInv, WorkInv, offscreen PROVE
        /\ Len(queue) <= IF supported THEN TimerSlots ELSE OffscreenBatch
        /\ supported => Untimed \notin InQueue
    BY DEF WorkBounded
  <2>1. RingTypes /\ Len(queue) \in Nat /\ since_sync \in Nat /\ OffscreenBatch \in Nat
    BY RingAssumption DEF RingInv, RingTypes, RingTypeOK
  <2>2. CASE supported
    <3>1. TimedInv
      BY <2>2, Zenon DEF WorkInv
    <3> QED
      BY <2>1, <2>2, <3>1, TimedBound, Zenon
  <2>3. CASE ~supported
    <3>1. BatchInv
      BY <2>3, Zenon DEF WorkInv
    <3>2. Len(queue) <= OffscreenBatch
      BY <2>1, <3>1 DEF BatchInv
    <3> QED
      BY <2>3, <3>2, Zenon
  <2> QED
    BY <2>2, <2>3
<1> QED
  BY RingInvariant, <1>1, <1>2, <1>3, PTL DEF RingSpec

=============================================================================
