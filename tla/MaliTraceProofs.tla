-------------------------- MODULE MaliTraceProofs ---------------------------
(***************************************************************************)
(* Theorems about MaliTrace, for every number of threads, descriptors and  *)
(* slots: the accounting of slots, the table of descriptors, and what the  *)
(* flushes leave in the file.                                              *)
(***************************************************************************)
EXTENDS MaliTrace, FiniteSetTheorems, TLAPS

AnyFd == Fds \cup {NoFd}

HookType ==
  [at : {"idle", "mark", "record", "check", "fill", "drop", "unmark"},
   op : {"none", "open", "close", "call", "poll"},
   fd : AnyFd, slot : Nat, new : AnyFd]

\* Where a hook can be, by what it is a hook of.
HookOk(h) ==
  /\ h.at = "idle" => h.op = "none"
  /\ h.at = "mark" => h.op \in {"open", "call"} /\ h.new \in Fds
  /\ h.at = "check" => h.op = "call"
  /\ h.at = "unmark" => h.op = "close"
  /\ h.op = "close" => h.at \in {"record", "fill", "drop", "unmark"} /\ h.fd \in Fds
  /\ h.new \in Fds => h.op \in {"open", "call"}
  /\ h.op = "call" => h.fd \in Fds

HookInv ==
  /\ thread \in [Threads -> HookType]
  /\ \A t \in Threads : HookOk(thread[t])
  /\ kernel \in [Fds -> {"none", "mali", "reader", "other"}]
  /\ tracked \subseteq Fds

LEMMA FdFacts ==
  /\ NoFd \notin Fds /\ NoFd \in AnyFd /\ Fds \subseteq Nat /\ Fds \subseteq AnyFd
BY TraceAssumption DEF NoFd, Fds, AnyFd

LEMMA IdleOk == Idle \in HookType /\ HookOk(Idle) /\ Idle.new = NoFd /\ Idle.op = "none"
                /\ Idle.at = "idle" /\ Idle.fd = NoFd
BY FdFacts DEF Idle, HookType, HookOk

\* A hook at another place.
LEMMA AtPlace ==
  ASSUME NEW h \in HookType,
         NEW p \in {"idle", "mark", "record", "check", "fill", "drop", "unmark"}
  PROVE  /\ [h EXCEPT !.at = p] \in HookType
         /\ [h EXCEPT !.at = p].at = p
         /\ [h EXCEPT !.at = p].op = h.op
         /\ [h EXCEPT !.at = p].fd = h.fd
         /\ [h EXCEPT !.at = p].new = h.new
         /\ [h EXCEPT !.at = p].slot = h.slot
BY DEF HookType

\* One thread's hook goes on as h; the others stay where they are.
Goes(t, h) ==
  /\ h \in HookType /\ HookOk(h)
  /\ thread' = [thread EXCEPT ![t] = h]

LEMMA GoesTo ==
  ASSUME HookInv, NEW t \in Threads, NEW h, Goes(t, h)
  PROVE  /\ thread' \in [Threads -> HookType]
         /\ \A u \in Threads : HookOk(thread'[u])
         /\ thread'[t] = h
         /\ \A u \in Threads : u # t => thread'[u] = thread[u]
BY DEF HookInv, Goes

\* The three ways a hook's end is written.
LEMMA MovesGoes ==
  ASSUME HookInv, NEW t \in Threads,
         NEW p \in {"idle", "mark", "record", "check", "fill", "drop", "unmark"},
         Moves(t, p), HookOk([thread[t] EXCEPT !.at = p])
  PROVE  Goes(t, [thread[t] EXCEPT !.at = p])
<1>1. thread[t] \in HookType
  BY DEF HookInv
<1>2. thread' = [thread EXCEPT ![t] = [thread[t] EXCEPT !.at = p]]
  BY DEF Moves, HookInv
<1> QED  BY <1>1, <1>2, AtPlace DEF Goes

LEMMA ReturnsGoes ==
  ASSUME NEW t \in Threads, Returns(t)
  PROVE  Goes(t, Idle)
BY IdleOk DEF Returns, Goes

LEMMA HookGoes ==
  ASSUME NEW t, NEW p \in {"mark", "record", "check"},
         NEW op \in {"open", "close", "call", "poll"},
         NEW fd \in AnyFd, NEW new \in AnyFd, Hook(t, p, op, fd, new),
         p = "mark" => op \in {"open", "call"} /\ new \in Fds,
         p = "check" => op = "call",
         op = "close" => p = "record" /\ fd \in Fds,
         new \in Fds => op \in {"open", "call"},
         op = "call" => fd \in Fds
  PROVE  Goes(t, [at |-> p, op |-> op, fd |-> fd, slot |-> 0, new |-> new])
<1>1. [at |-> p, op |-> op, fd |-> fd, slot |-> 0, new |-> new] \in HookType
  BY DEF HookType
<1>2. HookOk([at |-> p, op |-> op, fd |-> fd, slot |-> 0, new |-> new])
  BY DEF HookOk
<1> QED  BY <1>1, <1>2 DEF Hook, Goes

\* After its event a hook returns, or has the table left to change.
LEMMA RecordedGoes ==
  ASSUME HookInv, NEW t \in Threads, Recorded(t),
         thread[t].at \in {"record", "fill", "drop"}
  PROVE  \/ /\ thread[t].op = "close"
            /\ Goes(t, [thread[t] EXCEPT !.at = "unmark"])
         \/ /\ thread[t].op = "call" /\ thread[t].new \in Fds
            /\ Goes(t, [thread[t] EXCEPT !.at = "mark"])
         \/ /\ thread[t].op # "close"
            /\ thread[t].op # "call" \/ thread[t].new = NoFd
            /\ Goes(t, Idle)
<1>1. thread[t] \in HookType /\ HookOk(thread[t])
  BY DEF HookInv
<1>2. CASE thread[t].op = "close"
  <2>1. Moves(t, "unmark")
    BY <1>2 DEF Recorded
  <2>2. HookOk([thread[t] EXCEPT !.at = "unmark"])
    BY <1>1, <1>2, AtPlace DEF HookOk
  <2> QED  BY <1>2, <2>1, <2>2, MovesGoes
<1>3. CASE thread[t].op = "call" /\ thread[t].new # NoFd
  <2>1. Moves(t, "mark")
    BY <1>3 DEF Recorded
  <2>2. thread[t].new \in Fds
    BY <1>1, <1>3 DEF HookType, AnyFd
  <2>3. HookOk([thread[t] EXCEPT !.at = "mark"])
    BY <1>1, <1>3, <2>2, AtPlace DEF HookOk
  <2> QED  BY <1>3, <2>1, <2>2, <2>3, MovesGoes
<1>4. CASE thread[t].op # "close" /\ ~(thread[t].op = "call" /\ thread[t].new # NoFd)
  <2>1. Returns(t)
    BY <1>4 DEF Recorded
  <2> QED  BY <1>4, <2>1, ReturnsGoes
<1> QED  BY <1>2, <1>3, <1>4

-----------------------------------------------------------------------------
(* What each step does to the hooks                                        *)

Free(fd) == fd \in Fds /\ kernel[fd] = "none"

LEMMA LowestFree == \A fd \in Lowest : Free(fd)
BY DEF Lowest, Free

LEMMA OpenMaliDoes ==
  ASSUME HookInv, NEW t \in Threads, OpenMali(t)
  PROVE  /\ thread[t].at = "idle"
         /\ UNCHANGED <<tracked, bufferVars>>
         /\ \/ \E fd \in Fds :
                 /\ Free(fd) /\ Allocate(fd, "mali", fd >= MAX_TRACKED_FDS)
                 /\ Goes(t, [at |-> "mark", op |-> "open", fd |-> fd,
                             slot |-> 0, new |-> fd])
            \/ /\ UNCHANGED <<kernel, doubtful>>
               /\ Goes(t, [at |-> "record", op |-> "open", fd |-> NoFd,
                           slot |-> 0, new |-> NoFd])
<1>1. thread[t].at = "idle" /\ UNCHANGED <<tracked, bufferVars>>
  BY DEF OpenMali, Enters, At
<1>2. ASSUME NEW fd \in Lowest, Hook(t, "mark", "open", fd, fd)
      PROVE  Goes(t, [at |-> "mark", op |-> "open", fd |-> fd, slot |-> 0, new |-> fd])
  <2>1. fd \in Fds /\ fd \in AnyFd
    BY LowestFree, FdFacts DEF Free
  <2> QED  BY <1>2, <2>1, HookGoes
<1>3. ASSUME Hook(t, "record", "open", NoFd, NoFd)
      PROVE  Goes(t, [at |-> "record", op |-> "open", fd |-> NoFd, slot |-> 0, new |-> NoFd])
  BY <1>3, FdFacts, HookGoes
<1> QED  BY <1>1, <1>2, <1>3, LowestFree DEF OpenMali, Free

LEMMA OpenOtherDoes ==
  ASSUME NEW t \in Threads, OpenOther(t)
  PROVE  /\ UNCHANGED <<tracked, thread, bufferVars>>
         /\ \E fd \in Fds : Free(fd) /\ Allocate(fd, "other", FALSE)
BY LowestFree DEF OpenOther, Free

LEMMA MarkDoes ==
  ASSUME HookInv, NEW t \in Threads, Mark(t)
  PROVE  /\ thread[t].at = "mark" /\ thread[t].new \in Fds
         /\ mark_fd(thread[t].new)
         /\ UNCHANGED <<kernel, doubtful, bufferVars>>
         /\ \/ /\ thread[t].op = "open"
               /\ Goes(t, [thread[t] EXCEPT !.at = "record"])
            \/ thread[t].op = "call" /\ Goes(t, Idle)
<1>1. /\ thread[t].at = "mark" /\ mark_fd(thread[t].new)
      /\ UNCHANGED <<kernel, doubtful, bufferVars>>
  BY DEF Mark, At
<1>2. thread[t] \in HookType /\ HookOk(thread[t])
  BY DEF HookInv
<1>3. thread[t].op \in {"open", "call"} /\ thread[t].new \in Fds
  BY <1>1, <1>2 DEF HookOk
<1>4. CASE thread[t].op = "open"
  <2>1. Moves(t, "record")
    BY <1>4 DEF Mark
  <2>2. HookOk([thread[t] EXCEPT !.at = "record"])
    BY <1>2, <1>4, AtPlace DEF HookOk
  <2> QED  BY <1>1, <1>3, <1>4, <2>1, <2>2, MovesGoes
<1>5. CASE thread[t].op = "call"
  <2>1. Returns(t)
    BY <1>5 DEF Mark
  <2> QED  BY <1>1, <1>3, <1>5, <2>1, ReturnsGoes
<1> QED  BY <1>3, <1>4, <1>5

LEMMA CheckDoes ==
  ASSUME HookInv, NEW t \in Threads, Check(t)
  PROVE  /\ thread[t].at = "check" /\ thread[t].op = "call"
         /\ UNCHANGED <<kernel, doubtful, tracked, bufferVars>>
         /\ \/ Goes(t, [thread[t] EXCEPT !.at = "record"])
            \/ thread[t].fd \notin tracked /\ Goes(t, Idle)
<1>1. /\ thread[t].at = "check"
      /\ UNCHANGED <<kernel, doubtful, tracked, bufferVars>>
  BY DEF Check, At
<1>2. thread[t] \in HookType /\ HookOk(thread[t])
  BY DEF HookInv
<1>3. thread[t].op = "call"
  BY <1>1, <1>2 DEF HookOk
<1>4. CASE is_tracked(thread[t].fd)
  <2>1. Moves(t, "record")
    BY <1>4 DEF Check
  <2>2. HookOk([thread[t] EXCEPT !.at = "record"])
    BY <1>2, <1>3, AtPlace DEF HookOk
  <2> QED  BY <1>1, <1>3, <2>1, <2>2, MovesGoes
<1>5. CASE ~is_tracked(thread[t].fd)
  <2>1. Returns(t)
    BY <1>5 DEF Check
  <2> QED  BY <1>1, <1>3, <1>5, <2>1, ReturnsGoes DEF is_tracked
<1> QED  BY <1>4, <1>5

LEMMA CloseDoes ==
  ASSUME HookInv, NEW t \in Threads, NEW fd \in Fds, Close(t, fd)
  PROVE  /\ thread[t].at = "idle" /\ Known(fd)
         /\ \A u \in Threads : thread[u].fd = fd => thread[u].op = "close"
         /\ kernel' = [kernel EXCEPT ![fd] = "none"]
         /\ doubtful' = doubtful \ {fd}
         /\ UNCHANGED <<tracked, bufferVars>>
         /\ \/ Goes(t, [at |-> "record", op |-> "close", fd |-> fd,
                        slot |-> 0, new |-> NoFd])
            \/ fd \notin tracked /\ thread' = thread
<1>1. /\ thread[t].at = "idle" /\ Known(fd)
      /\ \A u \in Threads : thread[u].fd = fd => thread[u].op = "close"
      /\ kernel' = [kernel EXCEPT ![fd] = "none"]
      /\ doubtful' = doubtful \ {fd}
      /\ UNCHANGED <<tracked, bufferVars>>
  BY DEF Close, Enters, At
<1>2. ASSUME Hook(t, "record", "close", fd, NoFd)
      PROVE  Goes(t, [at |-> "record", op |-> "close", fd |-> fd,
                      slot |-> 0, new |-> NoFd])
  BY <1>2, FdFacts, HookGoes
<1> QED  BY <1>1, <1>2 DEF Close, is_tracked

LEMMA CallDoes ==
  ASSUME HookInv, NEW t \in Threads, NEW fd \in Fds, Call(t, fd)
  PROVE  /\ thread[t].at = "idle" /\ Known(fd)
         /\ UNCHANGED <<tracked, bufferVars>>
         /\ \/ \E new \in Fds :
                 /\ kernel[fd] = "mali" /\ Free(new)
                 /\ Allocate(new, "reader", new >= MAX_TRACKED_FDS \/ fd \in doubtful)
                 /\ Goes(t, [at |-> "check", op |-> "call", fd |-> fd,
                             slot |-> 0, new |-> new])
            \/ /\ UNCHANGED <<kernel, doubtful>>
               /\ Goes(t, [at |-> "check", op |-> "call", fd |-> fd,
                           slot |-> 0, new |-> NoFd])
<1>1. thread[t].at = "idle" /\ Known(fd) /\ UNCHANGED <<tracked, bufferVars>>
  BY DEF Call, Enters, At
<1>2. ASSUME NEW new \in AnyFd, Hook(t, "check", "call", fd, new)
      PROVE  Goes(t, [at |-> "check", op |-> "call", fd |-> fd, slot |-> 0, new |-> new])
  BY <1>2, FdFacts, HookGoes
<1>3. \A new \in Lowest : new \in Fds /\ Free(new) /\ new \in AnyFd
  BY LowestFree, FdFacts DEF Free
<1> QED  BY <1>1, <1>2, <1>3, FdFacts DEF Call

LEMMA PollDoes ==
  ASSUME HookInv, NEW t \in Threads, NEW fd \in Fds, NEW other \in Fds,
         Poll(t, fd, other)
  PROVE  /\ thread[t].at = "idle"
         /\ UNCHANGED <<kernel, doubtful, tracked, bufferVars>>
         /\ Goes(t, [at |-> "record", op |-> "poll", fd |-> fd,
                     slot |-> 0, new |-> NoFd])
<1>1. /\ thread[t].at = "idle"
      /\ UNCHANGED <<kernel, doubtful, tracked, bufferVars>>
      /\ Hook(t, "record", "poll", fd, NoFd)
  BY DEF Poll, Enters, At
<1> QED  BY <1>1, FdFacts, HookGoes

\* What follows an event, or its omission.
After(t) ==
  \/ thread[t].op = "close" /\ Goes(t, [thread[t] EXCEPT !.at = "unmark"])
  \/ /\ thread[t].op = "call" /\ thread[t].new \in Fds
     /\ Goes(t, [thread[t] EXCEPT !.at = "mark"])
  \/ /\ thread[t].op # "close"
     /\ thread[t].op # "call" \/ thread[t].new = NoFd
     /\ Goes(t, Idle)

LEMMA SkipDoes ==
  ASSUME HookInv, NEW t \in Threads, Skip(t)
  PROVE  /\ thread[t].at = "record"
         /\ UNCHANGED <<kernel, doubtful, tracked, bufferVars>>
         /\ After(t)
BY RecordedGoes DEF Skip, At, After

LEMMA FillDoes ==
  ASSUME HookInv, NEW t \in Threads, Fill(t)
  PROVE  /\ thread[t].at = "fill" /\ whole' = whole \cup {thread[t].slot}
         /\ UNCHANGED <<kernel, doubtful, tracked, event_count, dropped>>
         /\ After(t)
BY RecordedGoes DEF Fill, At, After

LEMMA DropDoes ==
  ASSUME HookInv, NEW t \in Threads, Drop(t)
  PROVE  /\ thread[t].at = "drop" /\ dropped' = dropped + 1
         /\ UNCHANGED <<kernel, doubtful, tracked, event_count, whole>>
         /\ After(t)
BY RecordedGoes DEF Drop, At, After

LEMMA ReserveDoes ==
  ASSUME HookInv, event_count \in Nat, NEW t \in Threads, Reserve(t)
  PROVE  /\ thread[t].at = "record" /\ event_count' = event_count + 1
         /\ UNCHANGED <<kernel, doubtful, tracked, dropped, whole>>
         /\ \E h : /\ Goes(t, h) /\ h.slot = event_count
                   /\ h.at = IF event_count >= Capacity THEN "drop" ELSE "fill"
                   /\ h.op = thread[t].op /\ h.fd = thread[t].fd /\ h.new = thread[t].new
<1> DEFINE p == IF event_count >= Capacity THEN "drop" ELSE "fill"
           h == [thread[t] EXCEPT !.slot = event_count, !.at = p]
<1>1. /\ thread[t].at = "record" /\ event_count' = event_count + 1
      /\ UNCHANGED <<kernel, doubtful, tracked, dropped, whole>>
  BY DEF Reserve, At
<1>2. thread[t] \in HookType /\ HookOk(thread[t])
  BY DEF HookInv
<1>3. p \in {"drop", "fill"}
  OBVIOUS
<1>4. /\ h \in HookType /\ h.slot = event_count /\ h.at = p
      /\ h.op = thread[t].op /\ h.fd = thread[t].fd /\ h.new = thread[t].new
  BY <1>2, <1>3 DEF HookType
<1>5. HookOk(h)
  BY <1>1, <1>2, <1>3, <1>4 DEF HookOk
<1>6. thread' = [thread EXCEPT ![t] = h]
  BY DEF Reserve, HookInv
<1> QED  BY <1>1, <1>4, <1>5, <1>6 DEF Goes

LEMMA UnmarkDoes ==
  ASSUME HookInv, NEW t \in Threads, Unmark(t)
  PROVE  /\ thread[t].at = "unmark" /\ thread[t].op = "close"
         /\ tracked' = tracked \ {thread[t].fd}
         /\ UNCHANGED <<kernel, doubtful, bufferVars>>
         /\ Goes(t, Idle)
<1>1. HookOk(thread[t])
  BY DEF HookInv
<1> QED  BY <1>1, ReturnsGoes DEF Unmark, At, unmark_fd, HookOk

\* The flushes look at the buffer and change nothing of it.
FlushStep ==
  \/ \E t \in Threads, f \in Flushers : Begin(t, f)
  \/ Count \/ Dropped \/ Seek \/ Header \/ Events \/ CloseFile \/ Clear \/ End
  \/ UNCHANGED traceVars

LEMMA FlushDoes ==
  ASSUME FlushStep
  PROVE  UNCHANGED <<kernel, tracked, bufferVars, thread, doubtful>>
BY Zenon DEF FlushStep, Begin, Count, Dropped, Seek, Header, Events, CloseFile, Clear,
   End, Flushes, traceVars

LEMMA EveryStep ==
  ASSUME [TraceNext]_traceVars
  PROVE  \/ FlushStep
         \/ \E t \in Threads :
              \/ OpenMali(t) \/ OpenOther(t) \/ Mark(t) \/ Check(t)
              \/ \E fd \in Fds : Close(t, fd) \/ Call(t, fd)
              \/ \E fd, other \in Fds : Poll(t, fd, other)
              \/ Skip(t) \/ Reserve(t) \/ Drop(t) \/ Fill(t) \/ Unmark(t)
BY Zenon DEF TraceNext, FlushStep

-----------------------------------------------------------------------------
(* The accounting of slots                                                 *)

Dropping == {t \in Threads : thread[t].at = "drop"}

\* A slot is being filled by the thread that reserved it, and by no other.
SlotInv ==
  /\ event_count \in Nat /\ dropped \in Nat
  /\ whole \subseteq 0 .. Capacity - 1
  /\ \A t \in Threads : thread[t].at = "fill" =>
       /\ thread[t].slot \in 0 .. Capacity - 1
       /\ thread[t].slot < event_count /\ thread[t].slot \notin whole
  /\ \A t, u \in Threads :
       thread[t].at = "fill" /\ thread[u].at = "fill" /\ thread[t].slot = thread[u].slot
         => t = u
  /\ \A s \in 0 .. Capacity - 1 : s < event_count /\ s \notin whole =>
       \E t \in Threads : thread[t].at = "fill" /\ thread[t].slot = s
  /\ \A s \in whole : s < event_count
  /\ Lost = dropped + Cardinality(Dropping)

Busy == {"fill", "drop"}

\* A hook that neither fills nor drops before and after.
LEMMA CalmSlots ==
  ASSUME HookInv, SlotInv, NEW t \in Threads, NEW h, Goes(t, h),
         thread[t].at \notin Busy, h.at \notin Busy, UNCHANGED bufferVars
  PROVE  SlotInv'
<1>1. /\ thread'[t] = h
      /\ \A u \in Threads : u # t => thread'[u] = thread[u]
  BY GoesTo
<1>2. \A u \in Threads :
        /\ thread'[u].at = "fill" <=> thread[u].at = "fill"
        /\ thread'[u].at = "drop" <=> thread[u].at = "drop"
        /\ thread[u].at = "fill" => thread'[u].slot = thread[u].slot
  BY <1>1 DEF Busy
<1>3. Dropping' = Dropping
  BY <1>2 DEF Dropping
<1>4. UNCHANGED <<event_count, dropped, whole>> /\ Lost' = Lost
  BY DEF bufferVars, Lost
<1> QED  BY <1>2, <1>3, <1>4 DEF SlotInv

LEMMA SameSlots ==
  ASSUME SlotInv, UNCHANGED <<thread, bufferVars>>
  PROVE  SlotInv'
<1>1. Dropping' = Dropping /\ Lost' = Lost
  BY DEF Dropping, Lost, bufferVars
<1> QED  BY <1>1 DEF SlotInv, bufferVars

LEMMA FiniteDropping == IsFiniteSet(Dropping) /\ Cardinality(Dropping) \in Nat
<1>1. Dropping \subseteq Threads
  BY DEF Dropping
<1>2. IsFiniteSet(Dropping)
  BY <1>1, TraceAssumption, FS_Subset
<1> QED  BY <1>2, FS_CardinalityType

\* Where After leads is calm.
LEMMA AfterGoes ==
  ASSUME HookInv, NEW t \in Threads, After(t)
  PROVE  \E h : Goes(t, h) /\ h.at \notin Busy
<1>1. thread[t] \in HookType
  BY DEF HookInv
<1> QED  BY <1>1, AtPlace, IdleOk DEF After, Busy

\* A hook that begins is calm.
LEMMA BeginCalm ==
  ASSUME NEW t, NEW p \in {"mark", "record", "check"}, NEW op, NEW fd, NEW new,
         Goes(t, [at |-> p, op |-> op, fd |-> fd, slot |-> 0, new |-> new])
  PROVE  \E h : Goes(t, h) /\ h.at \notin Busy
<1> DEFINE h == [at |-> p, op |-> op, fd |-> fd, slot |-> 0, new |-> new]
<1>1. h.at \notin Busy
  BY DEF Busy
<1>2. Goes(t, h)
  OBVIOUS
<1> HIDE DEF h
<1> QED  BY <1>1, <1>2

LEMMA ReserveSlots ==
  ASSUME HookInv, SlotInv, NEW t \in Threads, Reserve(t)
  PROVE  SlotInv'
<1>0. event_count \in Nat /\ Capacity \in Nat
  BY TraceAssumption DEF SlotInv
<1>1. /\ thread[t].at = "record" /\ event_count' = event_count + 1
      /\ UNCHANGED <<dropped, whole>>
  BY <1>0, ReserveDoes
<1>2. PICK h : /\ Goes(t, h) /\ h.slot = event_count
               /\ h.at = IF event_count >= Capacity THEN "drop" ELSE "fill"
  BY <1>0, ReserveDoes
<1>3. /\ thread'[t] = h
      /\ \A u \in Threads : u # t => thread'[u] = thread[u]
  BY <1>2, GoesTo
<1>4. IsFiniteSet(Dropping) /\ Cardinality(Dropping) \in Nat /\ t \notin Dropping
  BY <1>1, FiniteDropping DEF Dropping
<1>5. CASE event_count >= Capacity
  <2>1. h.at = "drop"
    BY <1>2, <1>5
  <2>2. \A u \in Threads :
          /\ thread'[u].at = "fill" <=> thread[u].at = "fill"
          /\ thread[u].at = "fill" => thread'[u].slot = thread[u].slot
    BY <1>1, <1>3, <2>1
  <2>3. Dropping' = Dropping \cup {t}
    BY <1>1, <1>3, <2>1 DEF Dropping
  <2>4. Cardinality(Dropping') = Cardinality(Dropping) + 1
    BY <1>4, <2>3, FS_AddElement
  <2>5. Lost' = Lost + 1
    <3>1. CASE event_count > Capacity
      BY <1>0, <1>1, <3>1 DEF Lost
    <3>2. CASE event_count = Capacity
      BY <1>0, <1>1, <3>2 DEF Lost
    <3> QED  BY <1>0, <1>5, <3>1, <3>2
  <2>6. Lost' = dropped' + Cardinality(Dropping')
    BY <1>1, <1>4, <2>4, <2>5 DEF SlotInv
  <2>7. \A s \in 0 .. Capacity - 1 : s < event_count
    BY <1>0, <1>5
  <2> QED  BY <1>0, <1>1, <2>2, <2>6, <2>7 DEF SlotInv
<1>6. CASE ~(event_count >= Capacity)
  <2>1. h.at = "fill" /\ h.slot = event_count
    BY <1>2, <1>6
  <2>2. event_count \in 0 .. Capacity - 1 /\ event_count \notin whole
    <3>1. \A s \in whole : s < event_count
      BY DEF SlotInv
    <3> QED  BY <1>0, <1>6, <3>1
  <2>3. Dropping' = Dropping
    BY <1>1, <1>3, <2>1 DEF Dropping
  <2>4. Lost' = Lost
    BY <1>0, <1>1, <1>6 DEF Lost
  <2>5. \A u \in Threads : thread[u].at = "fill" =>
          /\ u # t /\ thread'[u] = thread[u]
          /\ thread[u].slot \in 0 .. Capacity - 1 /\ thread[u].slot < event_count
          /\ thread[u].slot \notin whole
    BY <1>1, <1>3 DEF SlotInv
  <2>6. \A u \in Threads : thread'[u].at = "fill" =>
          \/ u = t /\ thread'[u].slot = event_count
          \/ thread[u].at = "fill" /\ thread'[u].slot = thread[u].slot
             /\ thread[u].slot < event_count
    BY <1>3, <2>1, <2>5
  <2>7. \A u \in Threads : thread'[u].at = "fill" =>
          /\ thread'[u].slot \in 0 .. Capacity - 1
          /\ thread'[u].slot < event_count' /\ thread'[u].slot \notin whole'
    BY <1>0, <1>1, <2>2, <2>5, <2>6
  <2>8. \A u, v \in Threads :
          thread'[u].at = "fill" /\ thread'[v].at = "fill"
          /\ thread'[u].slot = thread'[v].slot => u = v
    <3>1. \A u \in Threads : thread[u].at = "fill" => thread[u].slot # event_count
      BY <1>0, <2>5
    <3> QED  BY <2>6, <3>1 DEF SlotInv
  <2>9. \A s \in 0 .. Capacity - 1 : s < event_count' /\ s \notin whole' =>
          \E u \in Threads : thread'[u].at = "fill" /\ thread'[u].slot = s
    <3>1. ASSUME NEW s \in 0 .. Capacity - 1, s < event_count', s \notin whole'
          PROVE  \E u \in Threads : thread'[u].at = "fill" /\ thread'[u].slot = s
      <4>1. CASE s = event_count
        BY <1>3, <2>1, <4>1
      <4>2. CASE s < event_count
        <5>1. PICK u \in Threads : thread[u].at = "fill" /\ thread[u].slot = s
          BY <1>1, <3>1, <4>2 DEF SlotInv
        <5> QED  BY <2>5, <5>1
      <4> QED  BY <1>0, <1>1, <3>1, <4>1, <4>2
    <3> QED  BY <3>1
  <2>10. \A s \in whole' : s < event_count'
    <3>1. \A s \in whole : s < event_count /\ s \in 0 .. Capacity - 1
      BY DEF SlotInv
    <3> QED  BY <1>0, <1>1, <3>1
  <2>11. Lost' = dropped' + Cardinality(Dropping')
    BY <1>1, <2>3, <2>4 DEF SlotInv
  <2> QED  BY <1>0, <1>1, <2>7, <2>8, <2>9, <2>10, <2>11 DEF SlotInv
<1> QED  BY <1>5, <1>6

LEMMA FillSlots ==
  ASSUME HookInv, SlotInv, NEW t \in Threads, Fill(t)
  PROVE  SlotInv'
<1>1. /\ thread[t].at = "fill" /\ whole' = whole \cup {thread[t].slot}
      /\ UNCHANGED <<event_count, dropped>>
  BY FillDoes
<1>2. PICK h : Goes(t, h) /\ h.at \notin Busy
  BY FillDoes, AfterGoes
<1>3. /\ thread'[t] = h /\ h.at # "fill" /\ h.at # "drop"
      /\ \A u \in Threads : u # t => thread'[u] = thread[u]
  BY <1>2, GoesTo DEF Busy
<1>4. \A u \in Threads : thread'[u].at = "fill" =>
        /\ u # t /\ thread[u].at = "fill" /\ thread'[u].slot = thread[u].slot
        /\ thread[u].slot # thread[t].slot
  BY <1>1, <1>3 DEF SlotInv
<1>5. Dropping' = Dropping /\ Lost' = Lost
  BY <1>1, <1>3 DEF Dropping, Lost
<1>6. thread[t].slot \in 0 .. Capacity - 1 /\ thread[t].slot < event_count
  BY <1>1 DEF SlotInv
<1>7. \A s \in 0 .. Capacity - 1 : s < event_count' /\ s \notin whole' =>
        \E u \in Threads : thread'[u].at = "fill" /\ thread'[u].slot = s
  <2>1. ASSUME NEW s \in 0 .. Capacity - 1, s < event_count', s \notin whole'
        PROVE  \E u \in Threads : thread'[u].at = "fill" /\ thread'[u].slot = s
    <3>1. s < event_count /\ s \notin whole /\ s # thread[t].slot
      BY <1>1, <2>1
    <3>2. PICK u \in Threads : thread[u].at = "fill" /\ thread[u].slot = s
      BY <3>1 DEF SlotInv
    <3>3. u # t
      BY <3>1, <3>2
    <3> QED  BY <1>3, <3>2, <3>3
  <2> QED  BY <2>1
<1>8. \A u \in Threads : thread'[u].at = "fill" =>
        /\ thread'[u].slot \in 0 .. Capacity - 1
        /\ thread'[u].slot < event_count' /\ thread'[u].slot \notin whole'
  BY <1>1, <1>4 DEF SlotInv
<1>9. \A u, v \in Threads :
        thread'[u].at = "fill" /\ thread'[v].at = "fill"
        /\ thread'[u].slot = thread'[v].slot => u = v
  BY <1>4 DEF SlotInv
<1>10. /\ event_count' \in Nat /\ dropped' \in Nat
       /\ whole' \subseteq 0 .. Capacity - 1
       /\ \A s \in whole' : s < event_count'
       /\ Lost' = dropped' + Cardinality(Dropping')
  BY <1>1, <1>5, <1>6 DEF SlotInv
<1> QED  BY <1>7, <1>8, <1>9, <1>10 DEF SlotInv

LEMMA DropSlots ==
  ASSUME HookInv, SlotInv, NEW t \in Threads, Drop(t)
  PROVE  SlotInv'
<1>1. /\ thread[t].at = "drop" /\ dropped' = dropped + 1
      /\ UNCHANGED <<event_count, whole>>
  BY DropDoes
<1>2. PICK h : Goes(t, h) /\ h.at \notin Busy
  BY DropDoes, AfterGoes
<1>3. /\ thread'[t] = h /\ h.at # "fill" /\ h.at # "drop"
      /\ \A u \in Threads : u # t => thread'[u] = thread[u]
  BY <1>2, GoesTo DEF Busy
<1>4. \A u \in Threads :
        /\ thread'[u].at = "fill" <=> thread[u].at = "fill"
        /\ thread[u].at = "fill" => thread'[u].slot = thread[u].slot
  BY <1>1, <1>3
<1>5. Dropping' = Dropping \ {t} /\ t \in Dropping
  BY <1>1, <1>3 DEF Dropping
<1>6. Cardinality(Dropping') = Cardinality(Dropping) - 1
  BY <1>5, FiniteDropping, FS_RemoveElement
<1>7. Lost' = Lost
  BY <1>1 DEF Lost
<1>8. Lost' = dropped' + Cardinality(Dropping') /\ dropped' \in Nat
  BY <1>1, <1>6, <1>7, FiniteDropping DEF SlotInv
<1> QED  BY <1>1, <1>4, <1>8 DEF SlotInv

LEMMA SlotStep ==
  ASSUME HookInv, SlotInv, [TraceNext]_traceVars
  PROVE  SlotInv'
<1>1. CASE FlushStep
  BY <1>1, FlushDoes, SameSlots
<1>2. ASSUME NEW t \in Threads, OpenMali(t) PROVE SlotInv'
  <2>1. \E h : Goes(t, h) /\ h.at \notin Busy
    BY <1>2, OpenMaliDoes, BeginCalm
  <2> QED  BY <1>2, <2>1, OpenMaliDoes, CalmSlots DEF Busy
<1>3. ASSUME NEW t \in Threads, OpenOther(t) PROVE SlotInv'
  BY <1>3, OpenOtherDoes, SameSlots
<1>4. ASSUME NEW t \in Threads, Mark(t) PROVE SlotInv'
  <2>1. thread[t] \in HookType
    BY DEF HookInv
  <2>2. \E h : Goes(t, h) /\ h.at \notin Busy
    BY <1>4, <2>1, MarkDoes, AtPlace, IdleOk DEF Busy
  <2> QED  BY <1>4, <2>2, MarkDoes, CalmSlots DEF Busy
<1>5. ASSUME NEW t \in Threads, Check(t) PROVE SlotInv'
  <2>1. thread[t] \in HookType
    BY DEF HookInv
  <2>2. \E h : Goes(t, h) /\ h.at \notin Busy
    BY <1>5, <2>1, CheckDoes, AtPlace, IdleOk DEF Busy
  <2> QED  BY <1>5, <2>2, CheckDoes, CalmSlots DEF Busy
<1>6. ASSUME NEW t \in Threads, NEW fd \in Fds, Close(t, fd) PROVE SlotInv'
  <2>1. thread[t].at = "idle" /\ UNCHANGED bufferVars
    BY <1>6, CloseDoes
  <2>2. thread' = thread \/ \E h : Goes(t, h) /\ h.at \notin Busy
    BY <1>6, CloseDoes, BeginCalm
  <2> QED  BY <2>1, <2>2, CalmSlots, SameSlots DEF Busy
<1>7. ASSUME NEW t \in Threads, NEW fd \in Fds, Call(t, fd) PROVE SlotInv'
  <2>1. \E h : Goes(t, h) /\ h.at \notin Busy
    BY <1>7, CallDoes, BeginCalm
  <2> QED  BY <1>7, <2>1, CallDoes, CalmSlots DEF Busy
<1>8. ASSUME NEW t \in Threads, NEW fd \in Fds, NEW other \in Fds, Poll(t, fd, other)
      PROVE  SlotInv'
  <2>1. \E h : Goes(t, h) /\ h.at \notin Busy
    BY <1>8, PollDoes, BeginCalm
  <2> QED  BY <1>8, <2>1, PollDoes, CalmSlots DEF Busy
<1>9. ASSUME NEW t \in Threads, Skip(t) PROVE SlotInv'
  BY <1>9, SkipDoes, AfterGoes, CalmSlots DEF Busy
<1>10. ASSUME NEW t \in Threads, Unmark(t) PROVE SlotInv'
  BY <1>10, UnmarkDoes, IdleOk, CalmSlots DEF Busy
<1> QED
  BY <1>1, <1>2, <1>3, <1>4, <1>5, <1>6, <1>7, <1>8, <1>9, <1>10, EveryStep,
     ReserveSlots, FillSlots, DropSlots


-----------------------------------------------------------------------------
(* Types                                                                   *)

LEMMA HookStays ==
  ASSUME HookInv, UNCHANGED thread \/ (\E t \in Threads : \E h : Goes(t, h))
  PROVE  thread' \in [Threads -> HookType] /\ \A t \in Threads : HookOk(thread'[t])
<1>1. CASE UNCHANGED thread
  BY <1>1 DEF HookInv
<1>2. CASE \E t \in Threads : \E h : Goes(t, h)
  BY <1>2, GoesTo
<1> QED  BY <1>1, <1>2

LEMMA KernelTyped ==
  ASSUME HookInv, NEW fd \in Fds, NEW kind \in {"none", "mali", "reader", "other"},
         kernel' = [kernel EXCEPT ![fd] = kind]
  PROVE  kernel' \in [Fds -> {"none", "mali", "reader", "other"}]
BY DEF HookInv

LEMMA HookStep ==
  ASSUME HookInv, event_count \in Nat, [TraceNext]_traceVars
  PROVE  HookInv'
<1> DEFINE Stays == UNCHANGED thread \/ (\E t \in Threads : \E h : Goes(t, h))
           Typed == /\ kernel' \in [Fds -> {"none", "mali", "reader", "other"}]
                    /\ tracked' \subseteq Fds
<1>0. /\ kernel \in [Fds -> {"none", "mali", "reader", "other"}]
      /\ tracked \subseteq Fds
  BY DEF HookInv
<1>1. FlushStep => Stays /\ Typed
  BY <1>0, FlushDoes
<1>2. ASSUME NEW t \in Threads, OpenMali(t) PROVE Stays /\ Typed
  BY <1>0, <1>2, OpenMaliDoes, KernelTyped DEF Allocate
<1>3. ASSUME NEW t \in Threads, OpenOther(t) PROVE Stays /\ Typed
  BY <1>0, <1>3, OpenOtherDoes, KernelTyped DEF Allocate
<1>4. ASSUME NEW t \in Threads, Mark(t) PROVE Stays /\ Typed
  BY <1>0, <1>4, MarkDoes DEF mark_fd
<1>5. ASSUME NEW t \in Threads, Check(t) PROVE Stays /\ Typed
  BY <1>0, <1>5, CheckDoes
<1>6. ASSUME NEW t \in Threads, NEW fd \in Fds, Close(t, fd) PROVE Stays /\ Typed
  BY <1>0, <1>6, CloseDoes, KernelTyped
<1>7. ASSUME NEW t \in Threads, NEW fd \in Fds, Call(t, fd) PROVE Stays /\ Typed
  BY <1>0, <1>7, CallDoes, KernelTyped DEF Allocate
<1>8. ASSUME NEW t \in Threads, NEW fd \in Fds, NEW other \in Fds, Poll(t, fd, other)
      PROVE  Stays /\ Typed
  BY <1>0, <1>8, PollDoes
<1>9. ASSUME NEW t \in Threads, Skip(t) \/ Fill(t) \/ Drop(t) PROVE Stays /\ Typed
  BY <1>0, <1>9, SkipDoes, FillDoes, DropDoes DEF After
<1>10. ASSUME NEW t \in Threads, Reserve(t) PROVE Stays /\ Typed
  BY <1>0, <1>10, ReserveDoes
<1>11. ASSUME NEW t \in Threads, Unmark(t) PROVE Stays /\ Typed
  BY <1>0, <1>11, UnmarkDoes
<1>12. Stays /\ Typed
  BY <1>1, <1>2, <1>3, <1>4, <1>5, <1>6, <1>7, <1>8, <1>9, <1>10, <1>11, EveryStep
<1>13. Stays /\ Typed => HookInv'
  BY HookStays DEF HookInv
<1> QED  BY <1>12, <1>13

-----------------------------------------------------------------------------
(* Both invariants, and what they say of the slots                         *)

LEMMA BothStart == TraceInit => HookInv /\ SlotInv
<1> SUFFICES ASSUME TraceInit PROVE HookInv /\ SlotInv
  OBVIOUS
<1>1. \A t \in Threads : thread[t] = Idle
  BY DEF TraceInit
<1>2. HookInv
  BY <1>1, IdleOk DEF TraceInit, HookInv
<1>3. Dropping = {}
  BY <1>1, IdleOk DEF Dropping
<1>4. Cardinality(Dropping) = 0
  BY <1>3, FS_EmptySet
<1>5. Lost = 0 /\ event_count = 0 /\ dropped = 0 /\ whole = {}
  BY TraceAssumption DEF TraceInit, Lost
<1>6. \A t \in Threads : thread[t].at # "fill"
  BY <1>1, IdleOk
<1>7. SlotInv
  BY <1>4, <1>5, <1>6 DEF SlotInv
<1> QED  BY <1>2, <1>7

LEMMA TraceInvariants == TraceSpec => [](HookInv /\ SlotInv)
<1>1. HookInv /\ SlotInv /\ [TraceNext]_traceVars => (HookInv /\ SlotInv)'
  BY HookStep, SlotStep DEF SlotInv
<1> QED  BY <1>1, BothStart, PTL DEF TraceSpec

LEMMA OneFiller ==
  ASSUME SlotInv, NEW s \in 0 .. Capacity - 1
  PROVE  Cardinality(Filling(s)) = IF s < event_count /\ s \notin whole THEN 1 ELSE 0
<1>1. CASE s < event_count /\ s \notin whole
  <2>1. PICK t \in Threads : thread[t].at = "fill" /\ thread[t].slot = s
    BY <1>1 DEF SlotInv
  <2>2. Filling(s) = {t}
    BY <2>1 DEF Filling, SlotInv
  <2> QED  BY <1>1, <2>2, FS_Singleton
<1>2. CASE ~(s < event_count /\ s \notin whole)
  <2>1. Filling(s) = {}
    BY <1>2 DEF Filling, SlotInv
  <2> QED  BY <1>2, <2>1, FS_EmptySet
<1> QED  BY <1>1, <1>2

\* For every number of threads, slots and descriptors: record_event hands each
\* slot to one thread, which fills it once, and no event beyond the capacity
\* is left out of the count of drops.
THEOREM SlotsAccounted == TraceSpec => []SlotsExact
<1>1. HookInv /\ SlotInv => SlotsExact
  <2> SUFFICES ASSUME HookInv, SlotInv PROVE SlotsExact
    OBVIOUS
  <2>1. Lost = dropped + Cardinality({t \in Threads : thread[t].at = "drop"})
    BY DEF SlotInv, Dropping
  <2> QED  BY <2>1, OneFiller DEF SlotsExact, HookInv, SlotInv
<1> QED  BY <1>1, TraceInvariants, PTL


-----------------------------------------------------------------------------
(* The table of descriptors                                                *)

\* The table has fd, or may have missed it.
Settled(fd) == fd \in tracked \cup doubtful

\* A number that is handed out in mid-close is in doubt.
ClosingInv == \A fd \in Fds : Closing(fd) /\ kernel[fd] # "none" => fd \in doubtful

\* What a hook that holds a new descriptor may rely on until it is marked.
NewInv ==
  \A t \in Threads : thread[t].new \in Fds =>
    /\ IsMali(thread[t].new)
    /\ thread[t].new >= MAX_TRACKED_FDS => thread[t].new \in doubtful
    /\ thread[t].op = "open" /\ thread[t].at # "mark" => Settled(thread[t].new)
    /\ thread[t].op = "call" =>
         \/ thread[t].new \in doubtful
         \/ /\ thread[t].fd \in tracked /\ kernel[thread[t].fd] # "none"
            /\ thread[t].fd \notin doubtful

TrackInv == ClosingInv /\ NewInv /\ TrackingExact


tableVars == <<kernel, doubtful, tracked>>

\* A thread that moves on, with the same descriptors.
LEMMA MovesTrack ==
  ASSUME HookInv, TrackInv, NEW t \in Threads, NEW h, Goes(t, h), UNCHANGED tableVars,
         h.op = thread[t].op, h.fd = thread[t].fd, h.new = thread[t].new,
         thread[t].op = "open" => thread[t].at # "mark"
  PROVE  TrackInv'
<1>1. /\ thread'[t] = h
      /\ \A u \in Threads : u # t => thread'[u] = thread[u]
  BY GoesTo
<1>2. \A u \in Threads :
        /\ thread'[u].op = thread[u].op /\ thread'[u].fd = thread[u].fd
        /\ thread'[u].new = thread[u].new
        /\ thread'[u].op = "open" /\ thread'[u].at # "mark" => thread[u].at # "mark"
  BY <1>1
<1>3. \A fd : Closing(fd)' <=> Closing(fd)
  BY <1>2 DEF Closing
<1>4. ClosingInv'
  BY <1>3 DEF ClosingInv, TrackInv, tableVars
<1>5. NewInv'
  BY <1>2 DEF NewInv, TrackInv, tableVars, IsMali, Settled
<1>6. TrackingExact'
  BY <1>2, <1>3 DEF TrackingExact, TrackInv, tableVars, IsMali, is_tracked
<1> QED  BY <1>4, <1>5, <1>6 DEF TrackInv

\* A hook that returns, with its new descriptor settled.
LEMMA ReturnsTrack ==
  ASSUME HookInv, TrackInv, NEW t \in Threads, Goes(t, Idle), UNCHANGED tableVars,
         thread[t].op # "close", thread[t].new \in Fds => Settled(thread[t].new)
  PROVE  TrackInv'
<1>1. /\ thread'[t] = Idle
      /\ \A u \in Threads : u # t => thread'[u] = thread[u]
  BY GoesTo
<1>2. \A fd : Closing(fd)' <=> Closing(fd)
  BY <1>1, IdleOk DEF Closing
<1>3. ClosingInv'
  BY <1>2 DEF ClosingInv, TrackInv, tableVars
<1>4. thread'[t].new \notin Fds
  BY <1>1, IdleOk, FdFacts
<1>5. NewInv'
  BY <1>1, <1>4 DEF NewInv, TrackInv, tableVars, IsMali, Settled
<1>6. TrackingExact'
  <2>1. ASSUME NEW fd \in Fds \ doubtful
        PROVE  /\ is_tracked(fd) => IsMali(fd) \/ Closing(fd)
               /\ IsMali(fd) => is_tracked(fd) \/ \E u \in Threads : thread'[u].new = fd
    <3>1. /\ is_tracked(fd) => IsMali(fd) \/ Closing(fd)
          /\ IsMali(fd) => is_tracked(fd) \/ \E u \in Threads : thread[u].new = fd
      BY DEF TrackingExact, TrackInv
    <3>2. thread[t].new = fd => is_tracked(fd)
      BY DEF Settled, is_tracked
    <3> QED  BY <1>1, <3>1, <3>2
  <2> QED  BY <1>2, <2>1 DEF TrackingExact, tableVars, IsMali, is_tracked
<1> QED  BY <1>3, <1>5, <1>6 DEF TrackInv

\* A hook that begins, without a new descriptor.
LEMMA BeginsTrack ==
  ASSUME HookInv, TrackInv, NEW t \in Threads, NEW h, Goes(t, h), UNCHANGED tableVars,
         thread[t].at = "idle", h.new = NoFd, h.op # "close"
  PROVE  TrackInv'
<1>1. /\ thread'[t] = h
      /\ \A u \in Threads : u # t => thread'[u] = thread[u]
  BY GoesTo
<1>2. thread[t].op = "none" /\ thread[t].new \notin Fds
  BY DEF HookInv, HookOk
<1>3. \A fd : Closing(fd)' <=> Closing(fd)
  BY <1>1, <1>2 DEF Closing
<1>4. ClosingInv'
  BY <1>3 DEF ClosingInv, TrackInv, tableVars
<1>5. NewInv'
  BY <1>1, FdFacts DEF NewInv, TrackInv, tableVars, IsMali, Settled
<1>6. TrackingExact'
  BY <1>1, <1>2, <1>3 DEF TrackingExact, TrackInv, tableVars, IsMali, is_tracked
<1> QED  BY <1>4, <1>5, <1>6 DEF TrackInv

\* A hook that begins with a new descriptor.
LEMMA NewTrack ==
  ASSUME HookInv, TrackInv, NEW t \in Threads, NEW h, Goes(t, h), UNCHANGED tracked,
         thread[t].at = "idle", NEW new \in Fds, Free(new), h.new = new,
         NEW kind \in {"mali", "reader"}, NEW missed \in BOOLEAN, Allocate(new, kind, missed),
         new >= MAX_TRACKED_FDS => missed,
         \/ h.op = "open" /\ h.at = "mark"
         \/ h.op = "call" /\ missed
         \/ /\ h.op = "call" /\ h.fd \in tracked /\ kernel[h.fd] # "none"
            /\ h.fd \notin doubtful
  PROVE  TrackInv'
<1>1. /\ thread'[t] = h
      /\ \A u \in Threads : u # t => thread'[u] = thread[u]
  BY GoesTo
<1>2. thread[t].op = "none" /\ thread[t].new \notin Fds
  BY DEF HookInv, HookOk
<1>3. \A fd : Closing(fd)' <=> Closing(fd)
  BY <1>1, <1>2 DEF Closing
<1>4. /\ kernel'[new] = kind /\ kernel[new] = "none"
      /\ \A fd \in Fds : fd # new => kernel'[fd] = kernel[fd]
  BY DEF Allocate, HookInv, Free
<1>5. /\ doubtful \subseteq doubtful' /\ doubtful' \subseteq doubtful \cup {new}
      /\ missed \/ Closing(new) => new \in doubtful'
  BY DEF Allocate
<1>6. ClosingInv'
  BY <1>3, <1>4, <1>5 DEF ClosingInv, TrackInv
<1>7. ASSUME NEW u \in Threads, thread'[u].new \in Fds
      PROVE  /\ IsMali(thread[u].new)'
             /\ thread'[u].new >= MAX_TRACKED_FDS => thread'[u].new \in doubtful'
             /\ thread'[u].op = "open" /\ thread'[u].at # "mark" => Settled(thread[u].new)'
             /\ thread'[u].op = "call" =>
                  \/ thread'[u].new \in doubtful'
                  \/ /\ thread'[u].fd \in tracked' /\ kernel'[thread'[u].fd] # "none"
                     /\ thread'[u].fd \notin doubtful'
  <2>1. CASE u = t
    <3>1. IsMali(thread[u].new)'
      BY <1>1, <1>4, <2>1 DEF IsMali
    <3>2. thread'[u].op = "call" /\ ~missed =>
            /\ thread'[u].fd \in tracked' /\ kernel'[thread'[u].fd] # "none"
            /\ thread'[u].fd \notin doubtful'
      <4>1. h.op = "call" /\ ~missed => /\ h.fd \in Fds /\ h.fd # new
                                        /\ h.fd \in tracked /\ kernel[h.fd] # "none"
                                        /\ h.fd \notin doubtful
        BY <1>4 DEF HookInv
      <4> QED  BY <1>1, <1>4, <1>5, <2>1, <4>1
    <3> QED  BY <1>1, <1>5, <2>1, <3>1, <3>2
  <2>2. CASE u # t
    <3>1. thread'[u] = thread[u]
      BY <1>1, <2>2
    <3>2. /\ IsMali(thread[u].new)
          /\ thread[u].new >= MAX_TRACKED_FDS => thread[u].new \in doubtful
          /\ thread[u].op = "open" /\ thread[u].at # "mark" => Settled(thread[u].new)
          /\ thread[u].op = "call" =>
               \/ thread[u].new \in doubtful
               \/ /\ thread[u].fd \in tracked /\ kernel[thread[u].fd] # "none"
                  /\ thread[u].fd \notin doubtful
      BY <1>7, <3>1 DEF NewInv, TrackInv
    <3>3. thread[u].new # new
      BY <1>4, <3>2 DEF IsMali
    <3>4. IsMali(thread[u].new)'
      BY <1>4, <1>7, <3>1, <3>2, <3>3 DEF IsMali
    <3>5. Settled(thread[u].new) => Settled(thread[u].new)'
      BY <1>5, <3>1 DEF Settled
    <3>6. thread[u].fd \in tracked /\ kernel[thread[u].fd] # "none"
          /\ thread[u].fd \notin doubtful
          => /\ thread[u].fd \in Fds /\ thread[u].fd # new
             /\ kernel'[thread[u].fd] # "none" /\ thread[u].fd \notin doubtful'
      BY <1>4, <1>5 DEF HookInv
    <3> QED  BY <1>5, <3>1, <3>2, <3>4, <3>5, <3>6
  <2> QED  BY <2>1, <2>2
<1>8. NewInv'
  BY <1>7 DEF NewInv
<1>9. ASSUME NEW fd \in Fds \ doubtful'
      PROVE  /\ is_tracked(fd)' => IsMali(fd)' \/ Closing(fd)
             /\ IsMali(fd)' => is_tracked(fd)' \/ \E u \in Threads : thread'[u].new = fd
  <2>1. CASE fd = new
    BY <1>1, <1>4, <2>1 DEF IsMali
  <2>2. CASE fd # new
    <3>1. fd \in Fds \ doubtful /\ kernel'[fd] = kernel[fd]
      BY <1>4, <1>5, <2>2
    <3>2. /\ is_tracked(fd) => IsMali(fd) \/ Closing(fd)
          /\ IsMali(fd) => is_tracked(fd) \/ \E u \in Threads : thread[u].new = fd
      BY <3>1 DEF TrackingExact, TrackInv
    <3> QED  BY <1>1, <1>2, <3>1, <3>2 DEF IsMali, is_tracked
  <2> QED  BY <2>1, <2>2
<1>10. TrackingExact'
  BY <1>3, <1>9 DEF TrackingExact
<1> QED  BY <1>6, <1>8, <1>10 DEF TrackInv


LEMMA OpenOtherTrack ==
  ASSUME HookInv, TrackInv, NEW t \in Threads, OpenOther(t)
  PROVE  TrackInv'
<1>1. UNCHANGED <<tracked, thread>>
  BY OpenOtherDoes
<1>2. PICK new \in Fds : Free(new) /\ Allocate(new, "other", FALSE)
  BY OpenOtherDoes
<1>3. /\ kernel'[new] = "other" /\ kernel[new] = "none"
      /\ \A fd \in Fds : fd # new => kernel'[fd] = kernel[fd]
      /\ doubtful \subseteq doubtful' /\ doubtful' \subseteq doubtful \cup {new}
      /\ Closing(new) => new \in doubtful'
  BY <1>2 DEF Allocate, HookInv, Free
<1>4. \A fd : Closing(fd)' <=> Closing(fd)
  BY <1>1 DEF Closing
<1>5. ClosingInv'
  BY <1>3, <1>4 DEF ClosingInv, TrackInv
<1>6. NewInv'
  <2>1. ASSUME NEW u \in Threads, thread[u].new \in Fds
        PROVE  /\ IsMali(thread[u].new)'
               /\ thread[u].op = "call" =>
                    \/ thread[u].new \in doubtful'
                    \/ /\ thread[u].fd \in tracked /\ kernel'[thread[u].fd] # "none"
                       /\ thread[u].fd \notin doubtful'
    <3>1. /\ IsMali(thread[u].new)
          /\ thread[u].op = "call" =>
               \/ thread[u].new \in doubtful
               \/ /\ thread[u].fd \in tracked /\ kernel[thread[u].fd] # "none"
                  /\ thread[u].fd \notin doubtful
      BY <2>1 DEF NewInv, TrackInv
    <3>2. tracked \subseteq Fds
      BY DEF HookInv
    <3> QED  BY <1>1, <1>3, <2>1, <3>1, <3>2 DEF IsMali
  <2> QED  BY <1>1, <1>3, <2>1 DEF NewInv, TrackInv, Settled
<1>7. TrackingExact'
  <2>1. ASSUME NEW fd \in Fds \ doubtful'
        PROVE  /\ is_tracked(fd) => IsMali(fd)' \/ Closing(fd)
               /\ IsMali(fd)' => is_tracked(fd) \/ \E u \in Threads : thread[u].new = fd
    <3>1. /\ is_tracked(fd) => IsMali(fd) \/ Closing(fd)
          /\ IsMali(fd) => is_tracked(fd) \/ \E u \in Threads : thread[u].new = fd
      BY <1>3, <2>1 DEF TrackingExact, TrackInv
    <3> QED  BY <1>3, <2>1, <3>1 DEF IsMali
  <2> QED  BY <1>1, <1>4, <2>1 DEF TrackingExact, is_tracked
<1> QED  BY <1>5, <1>6, <1>7 DEF TrackInv

\* The table gains the new descriptor of a hook.
LEMMA MarkTrack ==
  ASSUME HookInv, TrackInv, NEW t \in Threads, Mark(t)
  PROVE  TrackInv'
<1> DEFINE new == thread[t].new
<1>1. /\ new \in Fds /\ mark_fd(new) /\ UNCHANGED <<kernel, doubtful>>
      /\ thread[t].op \in {"open", "call"}
  BY MarkDoes
<1>2. IsMali(new) /\ (new >= MAX_TRACKED_FDS => new \in doubtful)
  BY <1>1 DEF NewInv, TrackInv
<1>3. /\ tracked \subseteq tracked' /\ tracked' \subseteq tracked \cup {new}
      /\ new \in tracked' \cup doubtful'
  <2>1. new \in Nat /\ MAX_TRACKED_FDS \in Nat
    BY <1>1, FdFacts, TraceAssumption
  <2>2. CASE new >= MAX_TRACKED_FDS
    BY <1>1, <1>2, <2>2 DEF mark_fd
  <2>3. CASE ~(new >= MAX_TRACKED_FDS)
    <3>1. new \in 0 .. MAX_TRACKED_FDS - 1
      BY <2>1, <2>3
    <3> QED  BY <1>1, <3>1 DEF mark_fd
  <2> QED  BY <2>2, <2>3
<1>4. PICK h : /\ Goes(t, h) /\ h.op # "close"
               /\ h.new \in Fds => h.op = "open" /\ h.new = new
  <2>1. thread[t] \in HookType
    BY DEF HookInv
  <2>2. CASE Goes(t, Idle)
    BY <2>2, IdleOk, FdFacts
  <2>3. CASE thread[t].op = "open" /\ Goes(t, [thread[t] EXCEPT !.at = "record"])
    <3>1. /\ [thread[t] EXCEPT !.at = "record"].op = "open"
          /\ [thread[t] EXCEPT !.at = "record"].new = new
      BY <2>1, <2>3, AtPlace
    <3> QED  BY <2>3, <3>1
  <2> QED  BY <2>2, <2>3, MarkDoes
<1>5. /\ thread'[t] = h
      /\ \A u \in Threads : u # t => thread'[u] = thread[u]
  BY <1>4, GoesTo
<1>6. \A fd : Closing(fd)' <=> Closing(fd)
  BY <1>1, <1>4, <1>5 DEF Closing
<1>7. ClosingInv'
  BY <1>1, <1>6 DEF ClosingInv, TrackInv
<1>8. \A u \in Threads : thread'[u].new \in Fds => thread'[u].new = thread[u].new
  BY <1>4, <1>5
<1>9. NewInv'
  <2>1. \A fd \in Fds : /\ IsMali(fd) => IsMali(fd)'
                        /\ Settled(fd) => Settled(fd)'
    BY <1>1, <1>3 DEF IsMali, Settled
  <2>2. ASSUME NEW u \in Threads, u # t, thread[u].new \in Fds
        PROVE  /\ IsMali(thread[u].new)'
               /\ thread[u].op = "open" /\ thread[u].at # "mark" => Settled(thread[u].new)'
    BY <1>5, <2>1, <2>2 DEF NewInv, TrackInv
  <2>3. ASSUME h.new \in Fds
        PROVE  IsMali(h.new)' /\ Settled(h.new)' /\ h.op = "open"
    BY <1>1, <1>2, <1>3, <1>4, <2>3 DEF IsMali, Settled
  <2> QED  BY <1>1, <1>2, <1>3, <1>4, <1>5, <2>2, <2>3 DEF NewInv, TrackInv
<1>10. TrackingExact'
  <2>1. ASSUME NEW fd \in Fds \ doubtful
        PROVE  /\ fd \in tracked' => IsMali(fd) \/ Closing(fd)
               /\ IsMali(fd) => fd \in tracked' \/ \E u \in Threads : thread'[u].new = fd
    <3>1. /\ fd \in tracked => IsMali(fd) \/ Closing(fd)
          /\ IsMali(fd) => fd \in tracked \/ \E u \in Threads : thread[u].new = fd
      BY DEF TrackingExact, TrackInv, is_tracked
    <3>2. fd = new => fd \in tracked'
      BY <1>1, <1>3
    <3> QED  BY <1>2, <1>3, <1>5, <3>1, <3>2
  <2> QED  BY <1>1, <1>6, <2>1 DEF TrackingExact, is_tracked, IsMali
<1> QED  BY <1>7, <1>9, <1>10 DEF TrackInv

\* A descriptor that nobody waits for or uses is closed.
LEMMA CloseTrack ==
  ASSUME HookInv, TrackInv, NEW t \in Threads, NEW fd \in Fds, Close(t, fd)
  PROVE  TrackInv'
<1>1. /\ thread[t].at = "idle" /\ UNCHANGED tracked
      /\ kernel'[fd] = "none" /\ \A g \in Fds : g # fd => kernel'[g] = kernel[g]
      /\ doubtful' = doubtful \ {fd}
      /\ \A u \in Threads : thread[u].new # fd
      /\ \A u \in Threads : thread[u].fd = fd => thread[u].op = "close"
  <2>1. /\ thread[t].at = "idle" /\ UNCHANGED tracked
        /\ kernel' = [kernel EXCEPT ![fd] = "none"]
        /\ doubtful' = doubtful \ {fd} /\ Known(fd)
        /\ \A u \in Threads : thread[u].fd = fd => thread[u].op = "close"
    BY CloseDoes
  <2> QED  BY <2>1 DEF HookInv, Known
<1>2. thread[t].op = "none" /\ thread[t].new \notin Fds
  BY <1>1 DEF HookInv, HookOk
<1>3. \/ thread'[t].op = "close" /\ thread'[t].fd = fd /\ thread'[t].new = NoFd
      \/ fd \notin tracked /\ thread'[t] = thread[t]
  <2>1. CASE Goes(t, [at |-> "record", op |-> "close", fd |-> fd, slot |-> 0, new |-> NoFd])
    <3>1. thread'[t] = [at |-> "record", op |-> "close", fd |-> fd, slot |-> 0, new |-> NoFd]
      BY <2>1, GoesTo
    <3> QED  BY <3>1
  <2> QED  BY <2>1, CloseDoes
<1>4. \A u \in Threads : u # t => thread'[u] = thread[u]
  BY CloseDoes, GoesTo
<1>5. \A g : /\ g # fd => (Closing(g)' <=> Closing(g))
             /\ fd \in tracked => Closing(fd)'
  BY <1>2, <1>3, <1>4 DEF Closing
<1>6. ClosingInv'
  BY <1>1, <1>5 DEF ClosingInv, TrackInv
<1>7. NewInv'
  <2>1. ASSUME NEW u \in Threads, thread'[u].new \in Fds
        PROVE  u # t /\ thread'[u] = thread[u] /\ thread[u].new # fd
               /\ (thread[u].op = "call" => thread[u].fd # fd)
    BY <1>1, <1>2, <1>3, <1>4, <2>1, FdFacts
  <2>2. \A g \in Fds : g # fd => /\ IsMali(g) => IsMali(g)'
                                 /\ Settled(g) => Settled(g)'
    BY <1>1 DEF IsMali, Settled
  <2>3. tracked \subseteq Fds
    BY DEF HookInv
  <2>4. ASSUME NEW u \in Threads, thread'[u].new \in Fds
        PROVE  /\ IsMali(thread[u].new)'
               /\ thread'[u].new >= MAX_TRACKED_FDS => thread'[u].new \in doubtful'
               /\ thread'[u].op = "open" /\ thread'[u].at # "mark" => Settled(thread[u].new)'
               /\ thread'[u].op = "call" =>
                    \/ thread'[u].new \in doubtful'
                    \/ /\ thread'[u].fd \in tracked' /\ kernel'[thread'[u].fd] # "none"
                       /\ thread'[u].fd \notin doubtful'
    <3>1. /\ IsMali(thread[u].new)
          /\ thread[u].new >= MAX_TRACKED_FDS => thread[u].new \in doubtful
          /\ thread[u].op = "open" /\ thread[u].at # "mark" => Settled(thread[u].new)
          /\ thread[u].op = "call" =>
               \/ thread[u].new \in doubtful
               \/ /\ thread[u].fd \in tracked /\ kernel[thread[u].fd] # "none"
                  /\ thread[u].fd \notin doubtful
      BY <2>1, <2>4 DEF NewInv, TrackInv
    <3> QED  BY <1>1, <2>1, <2>2, <2>3, <2>4, <3>1
  <2> QED  BY <2>4 DEF NewInv
<1>8. TrackingExact'
  <2>1. ASSUME NEW g \in Fds \ doubtful'
        PROVE  /\ g \in tracked => IsMali(g)' \/ Closing(g)'
               /\ IsMali(g)' => g \in tracked \/ \E u \in Threads : thread'[u].new = g
    <3>1. CASE g = fd
      BY <1>1, <1>5, <3>1 DEF IsMali
    <3>2. CASE g # fd
      <4>1. g \in Fds \ doubtful /\ kernel'[g] = kernel[g]
        BY <1>1, <3>2
      <4>2. /\ g \in tracked => IsMali(g) \/ Closing(g)
            /\ IsMali(g) => g \in tracked \/ \E u \in Threads : thread[u].new = g
        BY <4>1 DEF TrackingExact, TrackInv, is_tracked
      <4> QED  BY <1>2, <1>4, <1>5, <3>2, <4>1, <4>2 DEF IsMali
    <3> QED  BY <3>1, <3>2
  <2> QED  BY <1>1, <2>1 DEF TrackingExact, is_tracked
<1> QED  BY <1>6, <1>7, <1>8 DEF TrackInv

\* The table forgets a number: if it has been handed out again, in doubt.
LEMMA UnmarkTrack ==
  ASSUME HookInv, TrackInv, NEW t \in Threads, Unmark(t)
  PROVE  TrackInv'
<1> DEFINE fd == thread[t].fd
<1>1. /\ thread[t].op = "close" /\ tracked' = tracked \ {fd}
      /\ UNCHANGED <<kernel, doubtful>>
  BY UnmarkDoes
<1>2. fd \in Fds /\ Closing(fd) /\ thread[t].new \notin Fds
  BY <1>1 DEF HookInv, HookOk, Closing
<1>3. kernel[fd] # "none" => fd \in doubtful
  BY <1>2 DEF ClosingInv, TrackInv
<1>4. thread'[t].new \notin Fds /\ thread'[t].op = "none"
  BY UnmarkDoes, GoesTo, IdleOk, FdFacts
<1>5. \A u \in Threads : u # t => thread'[u] = thread[u]
  BY UnmarkDoes, GoesTo
<1>6. \A g : /\ Closing(g)' => Closing(g)
             /\ g # fd => (Closing(g)' <=> Closing(g))
  BY <1>1, <1>4, <1>5 DEF Closing
<1>7. ClosingInv'
  BY <1>1, <1>6 DEF ClosingInv, TrackInv
<1>8. NewInv'
  <2>1. ASSUME NEW u \in Threads, u # t, thread[u].new \in Fds
        PROVE  /\ Settled(thread[u].new) => Settled(thread[u].new)'
               /\ /\ thread[u].fd \in tracked /\ kernel[thread[u].fd] # "none"
                  /\ thread[u].fd \notin doubtful
                  => thread[u].fd \in tracked'
    <3>1. IsMali(thread[u].new)
      BY <2>1 DEF NewInv, TrackInv
    <3>2. thread[u].new = fd => thread[u].new \in doubtful
      BY <1>3, <3>1 DEF IsMali
    <3>3. Settled(thread[u].new) => Settled(thread[u].new)'
      <4>1. thread[u].new = thread'[u].new
        BY <1>5, <2>1
      <4> QED  BY <1>1, <3>2, <4>1 DEF Settled
    <3> QED  BY <1>1, <1>3, <3>3
  <2> QED  BY <1>1, <1>4, <1>5, <2>1 DEF NewInv, TrackInv, IsMali
<1>9. TrackingExact'
  <2>1. ASSUME NEW g \in Fds \ doubtful
        PROVE  /\ g \in tracked' => IsMali(g) \/ Closing(g)'
               /\ IsMali(g) => g \in tracked' \/ \E u \in Threads : thread'[u].new = g
    <3>1. /\ g \in tracked => IsMali(g) \/ Closing(g)
          /\ IsMali(g) => g \in tracked \/ \E u \in Threads : thread[u].new = g
      BY DEF TrackingExact, TrackInv, is_tracked
    <3>2. g = fd => ~IsMali(g)
      BY <1>3, <2>1 DEF IsMali
    <3> QED  BY <1>1, <1>2, <1>5, <1>6, <2>1, <3>1, <3>2
  <2> QED  BY <1>1, <2>1 DEF TrackingExact, is_tracked, IsMali
<1> QED  BY <1>7, <1>8, <1>9 DEF TrackInv


\* A hook that has reserved a slot, found none, or recorded nothing.
LEMMA AfterTrack ==
  ASSUME HookInv, TrackInv, NEW t \in Threads, UNCHANGED tableVars, After(t),
         thread[t].at \in {"record", "fill", "drop"}
  PROVE  TrackInv'
<1>1. thread[t] \in HookType /\ HookOk(thread[t])
  BY DEF HookInv
<1>2. CASE thread[t].op = "close" /\ Goes(t, [thread[t] EXCEPT !.at = "unmark"])
  BY <1>1, <1>2, AtPlace, MovesTrack
<1>3. CASE thread[t].op = "call" /\ Goes(t, [thread[t] EXCEPT !.at = "mark"])
  BY <1>1, <1>3, AtPlace, MovesTrack
<1>4. CASE /\ thread[t].op # "close" /\ Goes(t, Idle)
           /\ thread[t].op # "call" \/ thread[t].new = NoFd
  <2>1. thread[t].new \in Fds => thread[t].op = "open"
    BY <1>1, <1>4, FdFacts DEF HookOk
  <2>2. thread[t].new \in Fds => Settled(thread[t].new)
    BY <2>1 DEF NewInv, TrackInv
  <2> QED  BY <1>4, <2>2, ReturnsTrack
<1> QED  BY <1>2, <1>3, <1>4 DEF After

LEMMA OpenMaliTrack ==
  ASSUME HookInv, TrackInv, NEW t \in Threads, OpenMali(t)
  PROVE  TrackInv'
<1>1. thread[t].at = "idle" /\ UNCHANGED tracked
  BY OpenMaliDoes
<1>2. ASSUME NEW fd \in Fds, Free(fd), Allocate(fd, "mali", fd >= MAX_TRACKED_FDS),
             Goes(t, [at |-> "mark", op |-> "open", fd |-> fd, slot |-> 0, new |-> fd])
      PROVE  TrackInv'
  <2> DEFINE missed == fd >= MAX_TRACKED_FDS
             h == [at |-> "mark", op |-> "open", fd |-> fd, slot |-> 0, new |-> fd]
  <2>1. missed \in BOOLEAN /\ (fd >= MAX_TRACKED_FDS => missed)
    OBVIOUS
  <2>2. h.op = "open" /\ h.at = "mark" /\ h.new = fd
    OBVIOUS
  <2>3. Goes(t, h) /\ Allocate(fd, "mali", missed)
    BY <1>2
  <2> HIDE DEF missed, h
  <2> QED  BY <1>1, <1>2, <2>1, <2>2, <2>3, NewTrack
<1>3. ASSUME UNCHANGED <<kernel, doubtful>>,
             Goes(t, [at |-> "record", op |-> "open", fd |-> NoFd, slot |-> 0, new |-> NoFd])
      PROVE  TrackInv'
  BY <1>1, <1>3, BeginsTrack DEF tableVars
<1> QED  BY <1>2, <1>3, OpenMaliDoes

LEMMA CallTrack ==
  ASSUME HookInv, TrackInv, NEW t \in Threads, NEW fd \in Fds, Call(t, fd)
  PROVE  TrackInv'
<1>1. thread[t].at = "idle" /\ UNCHANGED tracked /\ Known(fd)
  BY CallDoes
<1>2. ASSUME NEW new \in Fds, kernel[fd] = "mali", Free(new),
             Allocate(new, "reader", new >= MAX_TRACKED_FDS \/ fd \in doubtful),
             Goes(t, [at |-> "check", op |-> "call", fd |-> fd, slot |-> 0, new |-> new])
      PROVE  TrackInv'
  <2> DEFINE missed == new >= MAX_TRACKED_FDS \/ fd \in doubtful
             h == [at |-> "check", op |-> "call", fd |-> fd, slot |-> 0, new |-> new]
  <2>1. missed \in BOOLEAN /\ (new >= MAX_TRACKED_FDS => missed)
    OBVIOUS
  <2>2. fd \notin doubtful => fd \in tracked
    BY <1>1, <1>2 DEF TrackInv, TrackingExact, IsMali, is_tracked, Known
  <2>3. /\ h.op = "call" /\ h.fd = fd /\ h.new = new
        /\ missed \/ (h.fd \in tracked /\ kernel[h.fd] # "none" /\ h.fd \notin doubtful)
    BY <1>2, <2>2
  <2>4. Goes(t, h) /\ Allocate(new, "reader", missed)
    BY <1>2
  <2> HIDE DEF missed, h
  <2> QED  BY <1>1, <1>2, <2>1, <2>3, <2>4, NewTrack
<1>3. ASSUME UNCHANGED <<kernel, doubtful>>,
             Goes(t, [at |-> "check", op |-> "call", fd |-> fd, slot |-> 0, new |-> NoFd])
      PROVE  TrackInv'
  BY <1>1, <1>3, BeginsTrack DEF tableVars
<1> QED  BY <1>2, <1>3, CallDoes

LEMMA CheckTrack ==
  ASSUME HookInv, TrackInv, NEW t \in Threads, Check(t)
  PROVE  TrackInv'
<1>1. thread[t].op = "call" /\ UNCHANGED tableVars
  BY CheckDoes DEF tableVars
<1>2. thread[t] \in HookType
  BY DEF HookInv
<1>3. CASE Goes(t, [thread[t] EXCEPT !.at = "record"])
  BY <1>1, <1>2, <1>3, AtPlace, MovesTrack
<1>4. CASE thread[t].fd \notin tracked /\ Goes(t, Idle)
  <2>1. thread[t].new \in Fds => Settled(thread[t].new)
    BY <1>1, <1>4 DEF NewInv, TrackInv, Settled
  <2> QED  BY <1>1, <1>4, <2>1, ReturnsTrack
<1> QED  BY <1>3, <1>4, CheckDoes

LEMMA TrackStep ==
  ASSUME HookInv, SlotInv, TrackInv, [TraceNext]_traceVars
  PROVE  TrackInv'
<1>1. CASE FlushStep
  <2>1. UNCHANGED <<kernel, tracked, thread, doubtful>>
    BY <1>1, FlushDoes
  <2>2. \A fd : Closing(fd)' <=> Closing(fd)
    BY <2>1 DEF Closing
  <2> QED  BY <2>1, <2>2 DEF TrackInv, ClosingInv, NewInv, TrackingExact, IsMali, Settled,
                            is_tracked
<1>2. ASSUME NEW t \in Threads, NEW fd \in Fds, NEW other \in Fds, Poll(t, fd, other)
      PROVE  TrackInv'
  BY <1>2, PollDoes, BeginsTrack DEF tableVars
<1>3. ASSUME NEW t \in Threads, Skip(t) \/ Fill(t) \/ Drop(t)
      PROVE  TrackInv'
  BY <1>3, SkipDoes, FillDoes, DropDoes, AfterTrack DEF tableVars
<1>4. ASSUME NEW t \in Threads, Reserve(t)
      PROVE  TrackInv'
  <2>1. thread[t].at = "record" /\ UNCHANGED tableVars
    BY <1>4, ReserveDoes DEF SlotInv, tableVars
  <2>2. PICK h : /\ Goes(t, h) /\ h.op = thread[t].op /\ h.fd = thread[t].fd
                 /\ h.new = thread[t].new
    BY <1>4, ReserveDoes DEF SlotInv
  <2> QED  BY <2>1, <2>2, MovesTrack
<1> QED
  BY <1>1, <1>2, <1>3, <1>4, EveryStep, OpenMaliTrack, OpenOtherTrack, MarkTrack,
     CheckTrack, CloseTrack, CallTrack, UnmarkTrack

LEMMA TrackStarts == TraceInit => TrackInv
<1> SUFFICES ASSUME TraceInit PROVE TrackInv
  OBVIOUS
<1>1. \A t \in Threads : thread[t].op = "none" /\ thread[t].new \notin Fds
  BY IdleOk, FdFacts DEF TraceInit
<1>2. tracked = {} /\ \A fd \in Fds : kernel[fd] = "none"
  BY DEF TraceInit
<1> QED  BY <1>1, <1>2 DEF TrackInv, ClosingInv, NewInv, TrackingExact, IsMali, Closing,
                           is_tracked

\* For every number of threads and descriptors the table of tracked descriptors
\* is right but for hooks under way and the numbers that mid-close races leave
\* in doubt.
THEOREM TableCorrect == TraceSpec => []TrackingExact
<1>1. HookInv /\ SlotInv /\ TrackInv /\ [TraceNext]_traceVars => TrackInv'
  BY TrackStep
<1>2. TrackInv => TrackingExact
  BY DEF TrackInv
<1> QED  BY <1>1, <1>2, TrackStarts, TraceInvariants, PTL DEF TraceSpec

-----------------------------------------------------------------------------
(* The file                                                                *)

Places == {"off", "count", "dropped", "seek", "header", "events", "close", "clear", "done"}
Counted == {"dropped", "seek", "header", "events", "close"}

FlushRecord == [at : Places, by : Threads \cup {Nobody}, count : Nat, dropped : Nat]
FileRecord ==
  [dropped : Nat, count : Nat, whole : SUBSET (0 .. Capacity - 1), bad : SUBSET Parts]

FlushTypes ==
  /\ flush \in FlushRecord
  /\ trace_fd \in BOOLEAN /\ trace_open \in BOOLEAN /\ overlapped \in BOOLEAN
  /\ offset \in {"start", "body", "end", "short"}
  /\ file \in FileRecord
  /\ before \in [whole : SUBSET (0 .. Capacity - 1), lost : Nat]
  /\ last \in [header : BOOLEAN, wanted : Nat, got : Nat]

\* What holds of the file however little of it was written.
FileInv ==
  /\ file.dropped > 0 => Lost > 0
  /\ file.whole \subseteq whole /\ \A s \in file.whole : s < file.count
  /\ file.count - Cardinality(file.whole) <= Cardinality(Threads)

\* What the last flush has told, when it wrote its header and its events.
Told ==
  last.header =>
    /\ "header" \notin file.bad /\ file.dropped >= before.lost
    /\ {s \in before.whole : s < last.got} \subseteq file.whole
    /\ last.got = last.wanted => file.bad = {} /\ before.whole \subseteq file.whole

\* The header under its events, or cut off.
HeaderWritten ==
  \/ /\ offset = "body" /\ last.header
     /\ "header" \notin file.bad /\ file.dropped = flush.dropped
  \/ offset = "short" /\ ~last.header

\* What the flush under way has found out and written so far.
Prepared ==
  /\ flush.at \in Counted =>
       /\ flush.count <= Capacity /\ flush.count <= event_count
       /\ before.whole \subseteq whole /\ \A s \in before.whole : s < flush.count
       /\ before.lost <= Lost
  /\ flush.at \in Counted \ {"dropped"} =>
       /\ flush.dropped >= before.lost
       /\ flush.dropped > 0 => Lost > 0
  /\ flush.at = "header" => offset = "start"
  /\ flush.at = "events" => HeaderWritten
  /\ flush.at = "close" => Told

\* The last flush begun writes the file, and has told what it should once the
\* file is closed.
FlushInv ==
  /\ FlushTypes /\ FileInv
  /\ ended => ~trace_fd
  /\ trace_open => trace_fd
  /\ flush.at = "clear" => ~trace_open
  /\ ~overlapped => IF trace_open THEN Prepared ELSE Told

LEMMA LostTyped == ASSUME SlotInv PROVE Lost \in Nat /\ (Lost = 0 => dropped = 0)
<1>1. event_count \in Nat /\ dropped \in Nat /\ Capacity \in Nat
  BY TraceAssumption DEF SlotInv
<1>2. Lost \in Nat
  BY <1>1 DEF Lost
<1>3. Cardinality(Dropping) \in Nat /\ Lost = dropped + Cardinality(Dropping)
  BY FiniteDropping DEF SlotInv
<1> QED  BY <1>1, <1>2, <1>3

\* A file with the events of c slots has few blanks: for each the thread that
\* is filling the slot.
LEMMA FewBlank ==
  ASSUME HookInv, SlotInv, NEW c \in Nat, c <= Capacity, c <= event_count
  PROVE  LET filled == {s \in whole : s < c} IN
         /\ filled \in SUBSET (0 .. Capacity - 1)
         /\ c - Cardinality(filled) <= Cardinality(Threads)
<1> DEFINE filled == {s \in whole : s < c}
           all == 0 .. c - 1
           blank == all \ filled
           filler == [s \in blank |->
                        CHOOSE t \in Threads : thread[t].at = "fill" /\ thread[t].slot = s]
<1>1. Capacity \in Nat /\ event_count \in Nat /\ whole \subseteq 0 .. Capacity - 1
      /\ IsFiniteSet(Threads) /\ Cardinality(Threads) \in Nat
  BY TraceAssumption, FS_CardinalityType DEF SlotInv
<1>2. filled \subseteq all /\ filled \subseteq 0 .. Capacity - 1
  <2>1. ASSUME NEW s \in filled PROVE s \in all /\ s \in 0 .. Capacity - 1
    <3>1. s \in 0 .. Capacity - 1 /\ s < c
      BY <1>1
    <3>2. s \in Nat
      BY <1>1, <3>1
    <3> QED  BY <3>1, <3>2
  <2> QED  BY <2>1
<1>3. IsFiniteSet(all) /\ Cardinality(all) = c
  <2>1. 0 \in Int /\ c - 1 \in Int
    OBVIOUS
  <2>2. IsFiniteSet(all) /\ Cardinality(all) = IF 0 > c - 1 THEN 0 ELSE (c - 1) - 0 + 1
    BY <2>1, FS_Interval
  <2> QED  BY <2>2
<1>4. /\ IsFiniteSet(filled) /\ IsFiniteSet(blank)
      /\ Cardinality(filled) \in Nat /\ Cardinality(blank) \in Nat
  BY <1>2, <1>3, FS_Subset, FS_CardinalityType
<1>5. Cardinality(blank) = c - Cardinality(filled)
  <2>1. all \cap filled = filled
    BY <1>2
  <2> HIDE DEF all, filled
  <2>2. Cardinality(all \ filled) = Cardinality(all) - Cardinality(all \cap filled)
    BY <1>3, <1>4, FS_Difference
  <2> QED  BY <1>3, <2>1, <2>2
<1>6. \A s \in blank : \E t \in Threads : thread[t].at = "fill" /\ thread[t].slot = s
  <2> SUFFICES ASSUME NEW s \in blank
               PROVE  \E t \in Threads : thread[t].at = "fill" /\ thread[t].slot = s
    OBVIOUS
  <2>1. s \in 0 .. Capacity - 1 /\ s < event_count /\ s \notin whole
    BY <1>1
  <2> QED  BY <2>1 DEF SlotInv
<1>7. \A s \in blank : filler[s] \in Threads /\ thread[filler[s]].slot = s
  BY <1>6
<1>8. Cardinality(blank) <= Cardinality(Threads)
  <2>1. filler \in [blank -> Threads]
    BY <1>7
  <2>2. \A r, s \in blank : filler[r] = filler[s] => r = s
    BY <1>7
  <2> HIDE DEF filler, blank
  <2>3. ~(Cardinality(Threads) < Cardinality(blank))
    BY <1>1, <1>4, <2>1, <2>2, FS_PigeonHole
  <2> QED  BY <1>1, <1>4, <2>3
<1> QED  BY <1>2, <1>5, <1>8

-----------------------------------------------------------------------------
(* The hooks only add to the buffer                                        *)

Grows ==
  /\ UNCHANGED <<ownVars, fileVars>>
  /\ event_count' \in Nat /\ event_count <= event_count' /\ whole \subseteq whole'

LEMMA HooksGrow ==
  ASSUME HookInv, SlotInv, NEW t \in Threads,
         \/ OpenMali(t) \/ OpenOther(t) \/ Mark(t) \/ Check(t)
         \/ \E fd \in Fds : Close(t, fd) \/ Call(t, fd)
         \/ \E fd, other \in Fds : Poll(t, fd, other)
         \/ Skip(t) \/ Reserve(t) \/ Drop(t) \/ Fill(t) \/ Unmark(t)
  PROVE  Grows
<1>1. event_count \in Nat
  BY DEF SlotInv
<1>2. CASE Reserve(t)
  BY <1>1, <1>2 DEF Reserve, Grows
<1>3. CASE Fill(t)
  BY <1>1, <1>3 DEF Fill, Grows
<1>4. CASE Drop(t)
  BY <1>1, <1>4 DEF Drop, Grows
<1>5. CASE \/ OpenMali(t) \/ OpenOther(t) \/ Mark(t) \/ Check(t)
           \/ \E fd \in Fds : Close(t, fd) \/ Call(t, fd)
           \/ \E fd, other \in Fds : Poll(t, fd, other)
           \/ Skip(t) \/ Unmark(t)
  <2>1. UNCHANGED <<bufferVars, ownVars, fileVars>>
    BY <1>5 DEF OpenMali, OpenOther, Mark, Check, Close, Call, Poll, Skip, Unmark
  <2> QED  BY <1>1, <2>1 DEF Grows, bufferVars
<1> QED  BY <1>2, <1>3, <1>4, <1>5

LEMMA GrowsKeeps ==
  ASSUME SlotInv, FlushInv, Grows
  PROVE  FlushInv'
<1>1. UNCHANGED <<flush, overlapped, trace_fd, trace_open, offset, file, ended, before, last>>
  BY DEF Grows, ownVars, fileVars
<1>2. event_count \in Nat /\ event_count' \in Nat /\ event_count <= event_count'
      /\ whole \subseteq whole' /\ Capacity \in Nat
  BY TraceAssumption DEF SlotInv, Grows
<1>3. Lost \in Nat /\ Lost' \in Nat /\ Lost <= Lost'
  <2>1. /\ Lost = IF event_count > Capacity THEN event_count - Capacity ELSE 0
        /\ Lost' = IF event_count' > Capacity THEN event_count' - Capacity ELSE 0
    BY DEF Lost
  <2>2. PICK n, m, l, k : n = event_count /\ m = event_count' /\ l = Lost /\ k = Lost'
    OBVIOUS
  <2>3. n \in Nat /\ m \in Nat /\ n <= m /\ Capacity \in Nat
    BY <1>2, <2>2
  <2>4. /\ l = IF n > Capacity THEN n - Capacity ELSE 0
        /\ k = IF m > Capacity THEN m - Capacity ELSE 0
    BY <2>1, <2>2
  <2>5. l \in Nat /\ k \in Nat /\ l <= k
    BY <2>3, <2>4
  <2> QED  BY <2>2, <2>5
<1>4. FlushTypes'
  BY <1>1 DEF FlushInv, FlushTypes
<1>5. FileInv'
  BY <1>1, <1>2, <1>3 DEF FlushInv, FileInv
<1>6. Told => Told'
  BY <1>1 DEF Told
<1>7. ASSUME Prepared PROVE Prepared'
  <2>1. flush.count \in Nat /\ before.lost \in Nat
    BY DEF FlushInv, FlushTypes, FlushRecord
  <2>2. flush.at \in Counted =>
          /\ flush.count <= Capacity /\ flush.count <= event_count'
          /\ before.whole \subseteq whole' /\ (\A s \in before.whole : s < flush.count)
          /\ before.lost <= Lost'
    BY <1>2, <1>3, <1>7, <2>1 DEF Prepared
  <2>3. flush.at \in Counted \ {"dropped"} =>
          /\ flush.dropped >= before.lost /\ (flush.dropped > 0 => Lost' > 0)
    BY <1>3, <1>7 DEF Prepared
  <2>4. HeaderWritten => HeaderWritten'
    BY <1>1 DEF HeaderWritten
  <2> QED  BY <1>1, <1>6, <1>7, <2>2, <2>3, <2>4 DEF Prepared
<1> QED  BY <1>1, <1>4, <1>5, <1>6, <1>7 DEF FlushInv

-----------------------------------------------------------------------------
(* A flush begins, and goes on                                             *)

\* The file and what was found out before it was written stay.
LEMMA FileStays ==
  ASSUME UNCHANGED <<event_count, whole, file>>
  PROVE  (FileInv => FileInv') /\ (UNCHANGED <<before, last>> /\ Told => Told')
<1>1. Lost' = Lost
  BY DEF Lost
<1> QED  BY <1>1 DEF FileInv, Told

LEMMA BeginFlush ==
  ASSUME FlushInv, NEW t \in Threads, NEW f \in Flushers, Begin(t, f)
  PROVE  FlushInv'
<1>1. /\ ~overlapped /\ flush' = [at |-> "count", by |-> t, count |-> 0, dropped |-> 0]
      /\ overlapped' \in BOOLEAN
      /\ UNCHANGED <<event_count, whole, trace_fd, trace_open, offset, file, ended,
                     before, last>>
  BY DEF Begin, bufferVars, FlushAt
<1>2. flush' \in FlushRecord /\ flush'.at = "count"
  BY <1>1 DEF FlushRecord, Places
<1>3. FlushTypes'
  BY <1>1, <1>2 DEF FlushInv, FlushTypes
<1>4. Prepared'
  BY <1>2 DEF Prepared, Counted
<1>5. FileInv' /\ (~trace_open => Told')
  BY <1>1, FileStays DEF FlushInv
<1> QED  BY <1>1, <1>2, <1>3, <1>4, <1>5 DEF FlushInv

\* What a step of a flush relies on.
LEMMA FlushParts ==
  ASSUME SlotInv, FlushInv, NEW place, Flushes(place)
  PROVE  /\ flush.at = place /\ ~overlapped
         /\ UNCHANGED <<event_count, dropped, whole, overlapped>>
         /\ Lost' = Lost /\ Lost \in Nat /\ (Lost = 0 => dropped = 0)
         /\ FlushTypes /\ FileInv
         /\ IF trace_open THEN Prepared ELSE Told
<1>1. /\ flush.at = place /\ ~overlapped
      /\ UNCHANGED <<event_count, dropped, whole, overlapped>>
  BY DEF Flushes, bufferVars, ownVars
<1> QED  BY <1>1, LostTyped DEF FlushInv, Lost

\* What is left to show of a step that moves the flush and may write the file.
LEMMA FlushKeeps ==
  ASSUME FlushInv, NEW place, Flushes(place),
         FlushTypes', FileInv', UNCHANGED <<trace_fd, trace_open, ended>>,
         flush'.at # "clear", trace_open => Prepared', ~trace_open => Told'
  PROVE  FlushInv'
<1>1. ~overlapped' /\ ~overlapped
  BY DEF Flushes, ownVars
<1> QED  BY <1>1 DEF FlushInv

LEMMA CountFlush ==
  ASSUME SlotInv, FlushInv, Count
  PROVE  FlushInv'
<1>1. /\ Flushes("count") /\ UNCHANGED <<trace_fd, trace_open, offset, file, ended, last>>
      /\ before' = IF trace_open THEN [whole |-> whole, lost |-> Lost] ELSE before
  BY DEF Count
<1>2. PICK c : c = IF event_count > Capacity THEN Capacity ELSE event_count
  OBVIOUS
<1>3. event_count \in Nat /\ Capacity \in Nat /\ whole \subseteq 0 .. Capacity - 1
      /\ \A s \in whole : s < event_count
  BY TraceAssumption DEF SlotInv
<1>4. c \in Nat /\ c <= Capacity /\ c <= event_count
  BY <1>2, <1>3
<1>5. \A s \in whole : s < c
  BY <1>2, <1>3
<1>6. /\ UNCHANGED <<event_count, whole, overlapped>> /\ Lost' = Lost /\ Lost \in Nat
      /\ FlushTypes /\ FileInv /\ (~trace_open => Told)
  BY <1>1, FlushParts
<1>7. flush' \in FlushRecord /\ flush'.at = "dropped" /\ flush'.count = c
  <2>1. flush' = [flush EXCEPT !.at = "dropped", !.count = c]
    BY <1>2 DEF Count
  <2> QED  BY <1>4, <1>6, <2>1 DEF FlushTypes, FlushRecord, Places
<1>8. trace_open => Prepared'
  <2> SUFFICES ASSUME trace_open PROVE Prepared'
    OBVIOUS
  <2>1. before'.whole = whole /\ before'.lost = Lost /\ Lost <= Lost
    BY <1>1, <1>6
  <2> QED  BY <1>4, <1>5, <1>6, <1>7, <2>1 DEF Prepared, Counted
<1>9. FlushTypes'
  <2>1. before' \in [whole : SUBSET (0 .. Capacity - 1), lost : Nat]
    BY <1>1, <1>3, <1>6 DEF FlushTypes
  <2> QED  BY <1>1, <1>6, <1>7, <2>1 DEF FlushTypes
<1>10. FileInv' /\ (~trace_open => Told')
  BY <1>1, <1>6, FileStays
<1> QED  BY <1>1, <1>7, <1>8, <1>9, <1>10, FlushKeeps

LEMMA DroppedFlush ==
  ASSUME SlotInv, FlushInv, Dropped
  PROVE  FlushInv'
<1>1. /\ Flushes("dropped")
      /\ UNCHANGED <<trace_fd, trace_open, offset, file, ended, before, last>>
  BY DEF Dropped
<1>2. /\ Lost \in Nat /\ dropped \in Nat /\ (Lost = 0 => dropped = 0)
      /\ UNCHANGED <<event_count, whole, overlapped>> /\ Lost' = Lost
      /\ FlushTypes /\ FileInv /\ (~trace_open => Told) /\ (trace_open => Prepared)
      /\ flush.at = "dropped"
  BY <1>1, FlushParts DEF SlotInv
<1>3. PICK d : d = dropped + Lost
  OBVIOUS
<1>4. d \in Nat /\ d >= Lost /\ (d > 0 => Lost > 0)
  BY <1>2, <1>3
<1>5. /\ flush' \in FlushRecord /\ flush'.at = "seek"
      /\ flush'.count = flush.count /\ flush'.dropped = d
  <2>1. flush' = [flush EXCEPT !.at = "seek", !.dropped = d]
    BY <1>3 DEF Dropped
  <2> QED  BY <1>2, <1>4, <2>1 DEF FlushTypes, FlushRecord, Places
<1>6. trace_open => Prepared'
  <2> SUFFICES ASSUME trace_open PROVE Prepared'
    OBVIOUS
  <2>1. before.lost <= Lost /\ before.lost \in Nat
    BY <1>2 DEF Prepared, Counted, FlushTypes
  <2>2. d >= before.lost
    BY <1>2, <1>4, <2>1
  <2> QED  BY <1>1, <1>2, <1>4, <1>5, <2>2 DEF Prepared, Counted
<1>7. FlushTypes' /\ FileInv' /\ (~trace_open => Told')
  BY <1>1, <1>2, <1>5, FileStays DEF FlushTypes
<1> QED  BY <1>1, <1>5, <1>6, <1>7, FlushKeeps

\* A flush that only moves on keeps its locals.
LEMMA Proceeds ==
  ASSUME FlushTypes, NEW place \in Places, flush' = [flush EXCEPT !.at = place]
  PROVE  /\ flush' \in FlushRecord /\ flush'.at = place
         /\ flush'.count = flush.count /\ flush'.dropped = flush.dropped
BY DEF FlushTypes, FlushRecord

LEMMA SeekFlush ==
  ASSUME SlotInv, FlushInv, Seek
  PROVE  FlushInv'
<1>1. /\ Flushes("seek") /\ UNCHANGED <<trace_fd, trace_open, file, ended, before, last>>
      /\ offset' = IF trace_open THEN "start" ELSE offset
      /\ flush' = [flush EXCEPT !.at = "header"] /\ "header" \in Places
  BY DEF Seek, Places
<1>2. /\ UNCHANGED <<event_count, whole, overlapped>> /\ Lost' = Lost /\ flush.at = "seek"
      /\ FlushTypes /\ FileInv /\ (~trace_open => Told) /\ (trace_open => Prepared)
  BY <1>1, FlushParts
<1>3. /\ flush' \in FlushRecord /\ flush'.at = "header"
      /\ flush'.count = flush.count /\ flush'.dropped = flush.dropped
  BY <1>1, <1>2, Proceeds
<1>4. trace_open => Prepared'
  BY <1>1, <1>2, <1>3 DEF Prepared, Counted
<1>5. FlushTypes' /\ FileInv' /\ (~trace_open => Told')
  BY <1>1, <1>2, <1>3, FileStays DEF FlushTypes
<1> QED  BY <1>1, <1>3, <1>4, <1>5, FlushKeeps

\* The header, whole or cut off, over what was in the file.
LEMMA HeaderFlush ==
  ASSUME SlotInv, FlushInv, Header
  PROVE  FlushInv'
<1>1. /\ Flushes("header") /\ UNCHANGED <<trace_fd, trace_open, ended, before>>
      /\ flush' = [flush EXCEPT !.at = "events"] /\ "events" \in Places
  BY DEF Header, Places
<1>2. /\ UNCHANGED <<event_count, whole, overlapped>> /\ Lost' = Lost /\ flush.at = "header"
      /\ FlushTypes /\ FileInv /\ (~trace_open => Told) /\ (trace_open => Prepared)
  BY <1>1, FlushParts
<1>3. /\ flush' \in FlushRecord /\ flush'.at = "events"
      /\ flush'.count = flush.count /\ flush'.dropped = flush.dropped
  BY <1>1, <1>2, Proceeds
<1>4. CASE ~trace_open
  <2>1. UNCHANGED <<offset, file, last>>
    BY <1>4 DEF Header
  <2>2. FlushTypes' /\ FileInv' /\ Told'
    BY <1>1, <1>2, <1>3, <1>4, <2>1, FileStays DEF FlushTypes
  <2> QED  BY <1>1, <1>3, <1>4, <2>2, FlushKeeps
<1>5. CASE trace_open
  <2>1. /\ flush.dropped \in Nat /\ (flush.dropped > 0 => Lost > 0) /\ offset = "start"
        /\ file \in FileRecord /\ last \in [header : BOOLEAN, wanted : Nat, got : Nat]
    BY <1>2, <1>5 DEF Prepared, Counted, FlushTypes, FlushRecord
  <2>2. PICK d, b, h :
          /\ file' = [file EXCEPT !.dropped = d, !.bad = b]
          /\ last' = [last EXCEPT !.header = h] /\ d \in {file.dropped, flush.dropped}
          /\ \/ h = TRUE /\ offset' = "body" /\ d = flush.dropped /\ b = file.bad \ {"header"}
             \/ h = FALSE /\ offset' = "short" /\ b = file.bad
    <3>1. CASE /\ offset' = "body"
               /\ file' = [file EXCEPT !.dropped = flush.dropped,
                             !.bad = IF offset = "start" THEN @ \ {"header"} ELSE Parts]
               /\ last' = [last EXCEPT !.header = TRUE]
      <4>1. file' = [file EXCEPT !.dropped = flush.dropped, !.bad = file.bad \ {"header"}]
        BY <2>1, <3>1
      <4> QED  BY <3>1, <4>1
    <3>2. CASE /\ offset' = "short"
               /\ \E d \in {file.dropped, flush.dropped} : file' = [file EXCEPT !.dropped = d]
               /\ last' = [last EXCEPT !.header = FALSE]
      <4>1. PICK d \in {file.dropped, flush.dropped} : file' = [file EXCEPT !.dropped = d]
        BY <3>2
      <4>2. file' = [file EXCEPT !.dropped = d, !.bad = file.bad]
        BY <2>1, <4>1 DEF FileRecord
      <4> QED  BY <3>2, <4>1, <4>2
    <3> QED  BY <1>5, <3>1, <3>2 DEF Header
  <2>3. /\ file' \in FileRecord /\ file'.dropped = d /\ file'.bad = b
        /\ file'.count = file.count /\ file'.whole = file.whole
    BY <2>1, <2>2 DEF FileRecord
  <2>4. last' \in [header : BOOLEAN, wanted : Nat, got : Nat] /\ last'.header = h
    BY <2>1, <2>2
  <2>5. HeaderWritten'
    BY <1>3, <2>2, <2>3, <2>4 DEF HeaderWritten
  <2>6. Prepared'
    BY <1>1, <1>2, <1>3, <1>5, <2>5 DEF Prepared, Counted
  <2>7. FileInv'
    BY <1>2, <2>1, <2>2, <2>3 DEF FileInv
  <2>8. FlushTypes'
    BY <1>1, <1>2, <1>3, <2>2, <2>3, <2>4 DEF FlushTypes
  <2> QED  BY <1>1, <1>3, <1>5, <2>6, <2>7, <2>8, FlushKeeps
<1> QED  BY <1>4, <1>5

\* n events where they belong: those of an earlier flush that lie beyond stay.
LEMMA EventsBlank ==
  ASSUME HookInv, SlotInv, FileInv, FlushTypes,
         NEW n \in Nat, n <= Capacity, n <= event_count,
         NEW count, count = IF n > file.count THEN n ELSE file.count,
         NEW all, all = file.whole \cup {s \in whole : s < n}
  PROVE  /\ count \in Nat /\ all \in SUBSET (0 .. Capacity - 1)
         /\ all \subseteq whole /\ (\A s \in all : s < count)
         /\ count - Cardinality(all) <= Cardinality(Threads)
<1> DEFINE filled == {s \in whole : s < n}
<1>1. /\ file.count \in Nat /\ file.whole \in SUBSET (0 .. Capacity - 1)
      /\ Capacity \in Nat /\ whole \subseteq 0 .. Capacity - 1
      /\ file.whole \subseteq whole /\ \A s \in file.whole : s < file.count
      /\ file.count - Cardinality(file.whole) <= Cardinality(Threads)
  BY TraceAssumption DEF FlushTypes, FileRecord, SlotInv, FileInv
<1>2. count \in Nat /\ n <= count /\ file.count <= count
  BY <1>1
<1>3. filled \in SUBSET (0 .. Capacity - 1) /\ n - Cardinality(filled) <= Cardinality(Threads)
  BY FewBlank
<1>4. all \in SUBSET (0 .. Capacity - 1) /\ all \subseteq whole
  BY <1>1, <1>3
<1>5. \A s \in all : s < count
  <2> SUFFICES ASSUME NEW s \in all PROVE s < count
    OBVIOUS
  <2>1. s \in Nat /\ (s < n \/ s < file.count)
    BY <1>1, <1>4
  <2> QED  BY <1>1, <1>2, <2>1
<1>6. CASE n > file.count
  <2>1. file.whole \subseteq filled
    <3> SUFFICES ASSUME NEW s \in file.whole PROVE s \in filled
      OBVIOUS
    <3>1. s \in Nat /\ s < file.count /\ s \in whole
      BY <1>1
    <3> QED  BY <1>1, <1>6, <3>1
  <2>2. all = filled /\ count = n
    BY <1>6, <2>1
  <2> QED  BY <1>2, <1>3, <1>4, <1>5, <2>2
<1>7. CASE ~(n > file.count)
  <2>1. IsFiniteSet(0 .. Capacity - 1)
    BY <1>1, FS_Interval
  <2>2. /\ IsFiniteSet(all) /\ IsFiniteSet(file.whole) /\ file.whole \subseteq all
    BY <1>1, <1>4, <2>1, FS_Subset
  <2>3. /\ Cardinality(all) \in Nat /\ Cardinality(file.whole) \in Nat
        /\ Cardinality(file.whole) <= Cardinality(all)
    BY <2>2, FS_Subset, FS_CardinalityType
  <2>4. Cardinality(Threads) \in Nat /\ count = file.count
    BY <1>7, TraceAssumption, FS_CardinalityType
  <2>5. count - Cardinality(all) <= Cardinality(Threads)
    BY <1>1, <2>3, <2>4
  <2> QED  BY <1>2, <1>4, <1>5, <2>5
<1> QED  BY <1>6, <1>7

LEMMA EventsFlush ==
  ASSUME HookInv, SlotInv, FlushInv, Events
  PROVE  FlushInv'
<1>1. /\ Flushes("events") /\ UNCHANGED <<trace_fd, trace_open, ended, before>>
      /\ flush' = [flush EXCEPT !.at = "close"] /\ "close" \in Places
  BY DEF Events, Places
<1>2. /\ UNCHANGED <<event_count, whole, overlapped>> /\ Lost' = Lost /\ flush.at = "events"
      /\ FlushTypes /\ FileInv /\ (~trace_open => Told) /\ (trace_open => Prepared)
  BY <1>1, FlushParts
<1>3. /\ flush' \in FlushRecord /\ flush'.at = "close"
      /\ flush'.count = flush.count /\ flush'.dropped = flush.dropped
  BY <1>1, <1>2, Proceeds
<1>4. CASE ~trace_open
  <2>1. UNCHANGED <<offset, file, last>>
    BY <1>4 DEF Events
  <2>2. FlushTypes' /\ FileInv' /\ Told'
    BY <1>1, <1>2, <1>3, <1>4, <2>1, FileStays DEF FlushTypes
  <2> QED  BY <1>1, <1>3, <1>4, <2>2, FlushKeeps
<1>5. CASE trace_open
  <2>1. /\ flush.count \in Nat /\ flush.count <= Capacity /\ flush.count <= event_count
        /\ before.whole \subseteq whole /\ (\A s \in before.whole : s < flush.count)
        /\ flush.dropped >= before.lost /\ HeaderWritten
        /\ file \in FileRecord /\ last \in [header : BOOLEAN, wanted : Nat, got : Nat]
        /\ event_count \in Nat /\ Capacity \in Nat
    BY <1>2, <1>5, TraceAssumption DEF Prepared, Counted, FlushTypes, FlushRecord, SlotInv
  <2>2. PICK n \in 0 .. flush.count, part \in BOOLEAN :
          /\ file' = EventsWritten(n, part) /\ offset' = "end"
          /\ last' = [last EXCEPT !.wanted = flush.count, !.got = n]
    BY <1>5 DEF Events
  <2>3. n \in Nat /\ n <= Capacity /\ n <= event_count
    BY <2>1
  <2>4. /\ last' \in [header : BOOLEAN, wanted : Nat, got : Nat]
        /\ last'.header = last.header /\ last'.wanted = flush.count /\ last'.got = n
    BY <2>1, <2>2, <2>3
  <2>5. ASSUME FileInv', file' \in FileRecord, Told' PROVE FlushInv'
    <3>1. FlushTypes'
      BY <1>1, <1>2, <1>3, <2>2, <2>4, <2>5 DEF FlushTypes
    <3>2. Prepared'
      BY <1>1, <1>2, <1>3, <1>5, <2>5 DEF Prepared, Counted
    <3> QED  BY <1>1, <1>3, <1>5, <2>5, <3>1, <3>2, FlushKeeps
  <2>6. CASE offset = "short"
    <3>1. file' = [file EXCEPT !.bad = IF n > 0 \/ part THEN Parts ELSE file.bad] /\ ~last.header
      BY <2>1, <2>2, <2>6 DEF EventsWritten, HeaderWritten
    <3>2. /\ file' \in FileRecord /\ file'.dropped = file.dropped
          /\ file'.count = file.count /\ file'.whole = file.whole
      BY <2>1, <3>1 DEF FileRecord
    <3>3. FileInv' /\ Told'
      BY <1>2, <2>4, <3>1, <3>2 DEF FileInv, Told
    <3> QED  BY <2>5, <3>2, <3>3
  <2>7. CASE offset = "body"
    <3>1. last.header /\ "header" \notin file.bad /\ file.dropped = flush.dropped
      BY <2>1, <2>7 DEF HeaderWritten
    <3>2. PICK count, all, b :
            /\ count = IF n > file.count THEN n ELSE file.count
            /\ all = file.whole \cup {s \in whole : s < n}
            /\ b = IF n = flush.count THEN file.bad \ {"events"} ELSE file.bad
      OBVIOUS
    <3>3. file' = [file EXCEPT !.count = count, !.whole = all, !.bad = b]
      BY <2>2, <2>7, <3>2 DEF EventsWritten
    <3>4. /\ count \in Nat /\ all \in SUBSET (0 .. Capacity - 1)
          /\ all \subseteq whole /\ (\A s \in all : s < count)
          /\ count - Cardinality(all) <= Cardinality(Threads)
      BY <1>2, <2>3, <3>2, EventsBlank
    <3>5. file.bad \in SUBSET Parts /\ b \in SUBSET Parts /\ "header" \notin b
          /\ (n = flush.count => b = {})
      BY <2>1, <3>1, <3>2 DEF FileRecord, Parts
    <3>6. /\ file' \in FileRecord /\ file'.dropped = file.dropped
          /\ file'.count = count /\ file'.whole = all /\ file'.bad = b
      BY <2>1, <3>3, <3>4, <3>5 DEF FileRecord
    <3>7. FileInv'
      BY <1>2, <3>4, <3>6 DEF FileInv
    <3>8. {s \in before.whole : s < n} \subseteq all /\ (n = flush.count => before.whole \subseteq all)
      BY <2>1, <3>2
    <3>9. Told'
      BY <1>1, <2>1, <2>4, <3>1, <3>5, <3>6, <3>8 DEF Told
    <3> QED  BY <2>5, <3>6, <3>7, <3>9
  <2> QED  BY <2>1, <2>6, <2>7 DEF HeaderWritten
<1> QED  BY <1>4, <1>5

LEMMA CloseFlush ==
  ASSUME SlotInv, FlushInv, CloseFile
  PROVE  FlushInv'
<1>1. /\ Flushes("close") /\ UNCHANGED <<trace_fd, offset, file, ended, before, last>>
      /\ trace_open' = FALSE /\ flush' = [flush EXCEPT !.at = "clear"] /\ "clear" \in Places
  BY DEF CloseFile, Places
<1>2. /\ UNCHANGED <<event_count, whole, overlapped>> /\ flush.at = "close"
      /\ FlushTypes /\ FileInv /\ (~trace_open => Told) /\ (trace_open => Prepared)
  BY <1>1, FlushParts
<1>3. flush' \in FlushRecord
  BY <1>1, <1>2, Proceeds
<1>4. Told /\ Told' /\ FileInv'
  BY <1>1, <1>2, FileStays DEF Prepared
<1>5. FlushTypes'
  BY <1>1, <1>2, <1>3 DEF FlushTypes
<1> QED  BY <1>1, <1>4, <1>5 DEF FlushInv

LEMMA ClearFlush ==
  ASSUME SlotInv, FlushInv, Clear
  PROVE  FlushInv'
<1>1. /\ Flushes("clear") /\ UNCHANGED <<trace_open, offset, file, ended, before, last>>
      /\ trace_fd' = FALSE
      /\ flush' = [flush EXCEPT !.at = "done", !.count = 0, !.dropped = 0]
  BY DEF Clear
<1>2. /\ UNCHANGED <<event_count, whole, overlapped>> /\ flush.at = "clear"
      /\ FlushTypes /\ FileInv /\ (~trace_open => Told)
  BY <1>1, FlushParts
<1>3. ~trace_open /\ ~trace_open'
  BY <1>1, <1>2 DEF FlushInv
<1>4. flush' \in FlushRecord /\ flush'.at = "done"
  BY <1>1, <1>2 DEF FlushTypes, FlushRecord, Places
<1>5. FlushTypes' /\ FileInv' /\ Told'
  BY <1>1, <1>2, <1>3, <1>4, FileStays DEF FlushTypes
<1> QED  BY <1>1, <1>3, <1>4, <1>5 DEF FlushInv

\* Nothing that the invariant speaks of but the end itself.
LEMMA StillFlush ==
  ASSUME FlushInv, ended' => ~trace_fd,
         UNCHANGED <<event_count, whole, flush, overlapped, trace_fd, trace_open, offset,
                     file, before, last>>
  PROVE  FlushInv'
<1>1. Lost' = Lost /\ (Told' <=> Told) /\ (HeaderWritten' <=> HeaderWritten)
  BY DEF Lost, Told, HeaderWritten
<1>2. (Prepared' <=> Prepared) /\ (FileInv' <=> FileInv)
  BY <1>1 DEF Prepared, FileInv
<1>3. FlushTypes'
  BY DEF FlushInv, FlushTypes
<1> QED  BY <1>1, <1>2, <1>3 DEF FlushInv

LEMMA EndFlush ==
  ASSUME FlushInv, End
  PROVE  FlushInv'
BY StillFlush DEF End, bufferVars, ownVars

LEMMA FlushInvStep ==
  ASSUME HookInv, SlotInv, FlushInv, [TraceNext]_traceVars
  PROVE  FlushInv'
<1>1. ASSUME NEW t \in Threads,
             \/ OpenMali(t) \/ OpenOther(t) \/ Mark(t) \/ Check(t)
             \/ \E fd \in Fds : Close(t, fd) \/ Call(t, fd)
             \/ \E fd, other \in Fds : Poll(t, fd, other)
             \/ Skip(t) \/ Reserve(t) \/ Drop(t) \/ Fill(t) \/ Unmark(t)
      PROVE  FlushInv'
  BY <1>1, HooksGrow, GrowsKeeps
<1>2. CASE UNCHANGED traceVars
  <2>1. UNCHANGED <<event_count, whole, flush, overlapped, trace_fd, trace_open,
                    offset, file, before, last, ended>>
    BY <1>2 DEF traceVars, bufferVars, ownVars, fileVars
  <2> QED  BY <2>1, StillFlush DEF FlushInv
<1> QED
  BY <1>1, <1>2, EveryStep, BeginFlush, CountFlush, DroppedFlush, SeekFlush, HeaderFlush,
     EventsFlush, CloseFlush, ClearFlush, EndFlush, Zenon DEF FlushStep

LEMMA FlushStarts == TraceInit => FlushInv
<1> SUFFICES ASSUME TraceInit PROVE FlushInv
  OBVIOUS
<1>1. /\ event_count = 0 /\ whole = {}
      /\ flush = [at |-> "off", by |-> Nobody, count |-> 0, dropped |-> 0]
      /\ trace_fd \in BOOLEAN /\ trace_open = trace_fd /\ offset \in {"body", "short"}
      /\ (offset = "short" => trace_fd)
      /\ file = [dropped |-> 0, count |-> 0, whole |-> {},
                 bad |-> IF offset = "short" THEN {"header"} ELSE {}]
      /\ last = [header |-> offset = "body", wanted |-> 0, got |-> 0]
      /\ ended = FALSE /\ before = [whole |-> {}, lost |-> 0] /\ overlapped = FALSE
  BY DEF TraceInit, FlushAt
<1>2. FlushTypes
  <2>1. flush \in FlushRecord
    BY <1>1 DEF FlushRecord, Places
  <2>2. file \in FileRecord
    BY <1>1 DEF FileRecord, Parts
  <2> QED  BY <1>1, <2>1, <2>2 DEF FlushTypes
<1>3. FileInv
  <2>1. Cardinality({}) = 0 /\ Cardinality(Threads) \in Nat
    BY TraceAssumption, FS_EmptySet, FS_CardinalityType
  <2> QED  BY <1>1, <2>1 DEF FileInv
<1>4. Prepared
  BY <1>1 DEF Prepared, Counted
<1>5. ~trace_open => Told
  BY <1>1 DEF Told
<1> QED  BY <1>1, <1>2, <1>3, <1>4, <1>5 DEF FlushInv

\* Whatever the threads are doing when the program exits or is signalled,
\* wherever a signal interrupts the destructor or the handler of the other, and
\* however much of the file is written: if the last flush wrote all it meant
\* to, there is one header and every event filled in before that flush began;
\* if its header was written, no loss is hidden and the events written are
\* there; in any case no loss is made up and no more events are blank than
\* there are threads (flush_trace_file, write_all, trace_signal,
\* mali_trace_fini).  Two threads that flush at once are excepted.
THEOREM FileCorrect == TraceSpec => []FileTruthful
<1>1. HookInv /\ SlotInv /\ FlushInv /\ [TraceNext]_traceVars => FlushInv'
  BY FlushInvStep
<1>2. FlushInv => FileTruthful
  BY DEF FlushInv, FileTruthful, FileInv, Told
<1> QED  BY <1>1, <1>2, FlushStarts, TraceInvariants, PTL DEF TraceSpec

=============================================================================
