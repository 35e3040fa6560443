------------------------------ MODULE MaliTrace ------------------------------
(***************************************************************************)
(* The preloaded tracer of /dev/mali0, tools/mali_trace/mali_trace.c: its  *)
(* hooks of open, close, ioctl and the other calls, run by the threads of  *)
(* the traced program; the lock-free event buffer they share; and the      *)
(* flush to a file, by the destructor or by a signal, which may come       *)
(* anywhere, also into the flush of the destructor or of the other signal. *)
(* A write to the file may fail or fall short (a full disk); write_all     *)
(* then returns without a word and the flush goes on.                      *)
(*                                                                         *)
(* A hook is several steps: the real call, the table of tracked            *)
(* descriptors, the atomic reservation of a slot, filling it.  The kernel  *)
(* hands out the lowest free descriptor.                                   *)
(*                                                                         *)
(* Left out: what an event holds, munmap (its event has descriptor -1,     *)
(* which is never tracked, so none is recorded), symbol resolution,        *)
(* descriptors that are closed or duplicated by calls without a hook, the  *)
(* reuse of the trace file's own number between close and trace_fd = -1,   *)
(* and what follows when two threads flush at once: they share the file's  *)
(* offset, and nothing can be said of the file.  Each signal is handled    *)
(* once: in the same thread it is blocked from then on, and in another     *)
(* its flush overlaps the first or finds trace_fd cleared.                 *)
(***************************************************************************)
EXTENDS Naturals, FiniteSets

CONSTANTS
  Threads,
  Signals,        \* the signals with a handler: SIGTERM and SIGINT
  NumFds,         \* bound: descriptors in use, numbered from 0
  MAX_TRACKED_FDS,
  Capacity,       \* TRACE_CAPACITY
  MaxCalls        \* bound: hooks called in one run, far below 2^32

ASSUME TraceAssumption ==
  /\ IsFiniteSet(Threads) /\ "fini" \notin Signals
  /\ NumFds \in Nat /\ MAX_TRACKED_FDS \in Nat
  /\ Capacity \in Nat \ {0} /\ MaxCalls \in Nat

Fds == 0 .. NumFds - 1
NoFd == NumFds                 \* a failing call returns no descriptor
Flushers == {"fini"} \cup Signals
Nobody == "nobody"
Parts == {"header", "events"}

VARIABLES
  kernel,       \* what a descriptor is: "none", "mali", "reader", "other"
  tracked,
  event_count, dropped,
  whole,        \* slots of events whose event is filled in
  calls,        \* hooks called
  thread,       \* where each thread is, and the locals of its hook
  begun,        \* the flushes begun
  flush,        \* where the last of them is, its thread and its locals
  trace_fd,     \* trace_fd >= 0
  trace_open,   \* ... and the file is open
  offset,       \* of the file: "start", "body" after the header, "end", or
                \* "short", where the header was cut off
  file,         \* what a reader of the file finds; bad: the parts that are
                \* not what or where they should be
  ended,
  doubtful,     \* history: open descriptors the table may have missed
  before,       \* history: slots filled and events lost as a flush began
  last,         \* history: whether the last header was written whole, how many
                \* events were to be written after it, and how many were
  overlapped    \* history: two threads flushed at once

bufferVars == <<event_count, dropped, whole>>
fileVars   == <<flush, trace_fd, trace_open, offset, file, ended, before, last>>
ownVars    == <<begun, overlapped>>
traceVars  == <<kernel, tracked, bufferVars, calls, thread, doubtful, ownVars, fileVars>>

FlushAt(place, t, count, lost) ==
  [at |-> place, by |-> t, count |-> count, dropped |-> lost]

Idle == [at |-> "idle", op |-> "none", fd |-> NoFd, slot |-> 0, new |-> NoFd]

\* After the constructor, which opens the file and writes a first header.
TraceInit ==
  /\ kernel = [fd \in Fds |-> "none"] /\ tracked = {}
  /\ event_count = 0 /\ dropped = 0 /\ whole = {}
  /\ calls = 0 /\ thread = [t \in Threads |-> Idle]
  /\ begun = {} /\ flush = FlushAt("off", Nobody, 0, 0)
  /\ trace_fd \in BOOLEAN /\ trace_open = trace_fd
  /\ offset \in {"body", "short"} /\ (offset = "short" => trace_fd)
  /\ file = [dropped |-> 0, count |-> 0, whole |-> {},
             bad |-> IF offset = "short" THEN {"header"} ELSE {}]
  /\ last = [header |-> offset = "body", wanted |-> 0, got |-> 0]
  /\ ended = FALSE
  /\ doubtful = {} /\ before = [whole |-> {}, lost |-> 0] /\ overlapped = FALSE

-----------------------------------------------------------------------------
(* The kernel and the table of descriptors                                 *)

Runs(t) == ~ended /\ ~overlapped /\ flush.by # t
At(t, place) == Runs(t) /\ thread[t].at = place

\* The program calls a hook in t.
Enters(t) == At(t, "idle") /\ calls < MaxCalls /\ calls' = calls + 1

Lowest == {fd \in Fds : kernel[fd] = "none" /\ \A g \in 0 .. fd - 1 : kernel[g] # "none"}

Closing(fd) == \E u \in Threads : thread[u].op = "close" /\ thread[u].fd = fd

\* Hand out fd.  The table is in doubt about it if another thread's close hook
\* has not finished with its number, or if missed is true.
Allocate(fd, kind, missed) ==
  /\ kernel' = [kernel EXCEPT ![fd] = kind]
  /\ doubtful' = IF missed \/ Closing(fd) THEN doubtful \cup {fd} ELSE doubtful

is_tracked(fd) == fd \in tracked
mark_fd(fd)   == tracked' = tracked \cup ({fd} \cap 0 .. MAX_TRACKED_FDS - 1)
unmark_fd(fd) == tracked' = tracked \ {fd}

\* The program has fd: it is open, and the hook that made it has returned.
Known(fd) == kernel[fd] # "none" /\ \A t \in Threads : thread[t].new # fd

\* Thread t is at a place of its hook for op.
Hook(t, place, op, fd, new) ==
  thread' = [thread EXCEPT ![t] =
    [at |-> place, op |-> op, fd |-> fd, slot |-> 0, new |-> new]]

Moves(t, place) == thread' = [thread EXCEPT ![t].at = place]
Returns(t) == thread' = [thread EXCEPT ![t] = Idle]

-----------------------------------------------------------------------------
(* The hooks                                                               *)

\* open, open64, openat, openat64 of /dev/mali0: the real call may fail.
OpenMali(t) ==
  /\ Enters(t)
  /\ \/ \E fd \in Lowest : Allocate(fd, "mali", fd >= MAX_TRACKED_FDS) /\ Hook(t, "mark", "open", fd, fd)
     \/ Hook(t, "record", "open", NoFd, NoFd) /\ UNCHANGED <<kernel, doubtful>>
  /\ UNCHANGED <<tracked, bufferVars, ownVars, fileVars>>

OpenOther(t) ==
  /\ Enters(t)
  /\ \E fd \in Lowest : Allocate(fd, "other", FALSE)
  /\ UNCHANGED <<tracked, bufferVars, thread, ownVars, fileVars>>

\* mark_fd: for an open before the event is recorded, for a set-up of
\* hardware counters, which returns the descriptor of a reader, after it.
Mark(t) ==
  /\ At(t, "mark")
  /\ mark_fd(thread[t].new)
  /\ IF thread[t].op = "open" THEN Moves(t, "record") ELSE Returns(t)
  /\ UNCHANGED <<calls, kernel, doubtful, bufferVars, ownVars, fileVars>>

\* close: whether fd was tracked is known before the real call.  A program
\* does not close what another of its threads is still using.
Close(t, fd) ==
  /\ Enters(t) /\ Known(fd)
  /\ \A u \in Threads : thread[u].fd = fd => thread[u].op = "close"
  /\ kernel' = [kernel EXCEPT ![fd] = "none"]
  /\ doubtful' = doubtful \ {fd}
  /\ IF is_tracked(fd) THEN Hook(t, "record", "close", fd, NoFd) ELSE UNCHANGED thread
  /\ UNCHANGED <<tracked, bufferVars, ownVars, fileVars>>

\* ioctl, mmap, read, write: the real call, which may set up a reader.
Call(t, fd) ==
  /\ Enters(t) /\ Known(fd)
  /\ \/ kernel[fd] = "mali" /\ \E new \in Lowest :
          /\ Allocate(new, "reader", new >= MAX_TRACKED_FDS \/ fd \in doubtful)
          /\ Hook(t, "check", "call", fd, new)
     \/ Hook(t, "check", "call", fd, NoFd) /\ UNCHANGED <<kernel, doubtful>>
  /\ UNCHANGED <<tracked, bufferVars, ownVars, fileVars>>

Check(t) ==
  /\ At(t, "check")
  /\ IF is_tracked(thread[t].fd) THEN Moves(t, "record") ELSE Returns(t)
  /\ UNCHANGED <<calls, kernel, doubtful, tracked, bufferVars, ownVars, fileVars>>

\* poll, ppoll: relevant if any descriptor is tracked, which is looked at
\* before the call; the event is of the first.
Poll(t, fd, other) ==
  /\ Enters(t) /\ Known(fd) /\ Known(other)
  /\ is_tracked(fd) \/ is_tracked(other)
  /\ Hook(t, "record", "poll", fd, NoFd)
  /\ UNCHANGED <<kernel, doubtful, tracked, bufferVars, ownVars, fileVars>>

-----------------------------------------------------------------------------
(* record_event                                                            *)

\* Mutant: the hook of close returns when its event is recorded.
Recorded_NoUnmark(t) ==
  CASE thread[t].op = "call" /\ thread[t].new # NoFd -> Moves(t, "mark")
    [] OTHER -> Returns(t)

\* What the hook still does after its event.
Recorded(t) ==
  CASE thread[t].op = "close" -> Moves(t, "unmark")
    [] thread[t].op = "call" /\ thread[t].new # NoFd -> Moves(t, "mark")
    [] OTHER -> Returns(t)

Wanted(t) == thread[t].op = "open" \/ is_tracked(thread[t].fd)

Skip(t) ==
  /\ At(t, "record") /\ ~Wanted(t)
  /\ Recorded(t)
  /\ UNCHANGED <<calls, kernel, doubtful, tracked, bufferVars, ownVars, fileVars>>

\* Mutant: the last slot is taken to be Capacity.
Reserve_OffByOne(t) ==
  /\ At(t, "record") /\ Wanted(t)
  /\ event_count' = event_count + 1
  /\ thread' = [thread EXCEPT ![t].slot = event_count,
                              ![t].at = IF event_count > Capacity THEN "drop" ELSE "fill"]
  /\ UNCHANGED <<calls, kernel, doubtful, tracked, dropped, whole, ownVars, fileVars>>

\* The atomic add that reserves a slot, or finds that there is none.
Reserve(t) ==
  /\ At(t, "record") /\ Wanted(t)
  /\ event_count' = event_count + 1
  /\ thread' = [thread EXCEPT ![t].slot = event_count,
                              ![t].at = IF event_count >= Capacity THEN "drop" ELSE "fill"]
  /\ UNCHANGED <<calls, kernel, doubtful, tracked, dropped, whole, ownVars, fileVars>>

Drop(t) ==
  /\ At(t, "drop")
  /\ dropped' = dropped + 1
  /\ Recorded(t)
  /\ UNCHANGED <<calls, kernel, doubtful, tracked, event_count, whole, ownVars, fileVars>>

Fill(t) ==
  /\ At(t, "fill")
  /\ whole' = whole \cup {thread[t].slot}
  /\ Recorded(t)
  /\ UNCHANGED <<calls, kernel, doubtful, tracked, event_count, dropped, ownVars, fileVars>>

Unmark(t) ==
  /\ At(t, "unmark")
  /\ unmark_fd(thread[t].fd)
  /\ Returns(t)
  /\ UNCHANGED <<calls, kernel, doubtful, bufferVars, ownVars, fileVars>>

-----------------------------------------------------------------------------
(* Flushing                                                                *)

Lost == IF event_count > Capacity THEN event_count - Capacity ELSE 0

\* The program exits, which runs the destructor in thread t, or a signal is
\* handled in it, wherever it is: in a hook, in the destructor, in the handler
\* of the other signal.  A handler does not return to what it interrupts.
Begin(t, f) ==
  /\ trace_fd /\ ~ended /\ ~overlapped /\ f \notin begun
  /\ f = "fini" => At(t, "idle")
  /\ begun' = begun \cup {f}
  /\ overlapped' = (flush.by \notin {Nobody, t})
  /\ flush' = FlushAt("count", t, 0, 0)
  /\ UNCHANGED <<kernel, tracked, bufferVars, calls, thread, doubtful, trace_fd,
                 trace_open, offset, file, ended, before, last>>

Flushes(place) ==
  /\ ~ended /\ ~overlapped /\ flush.at = place
  /\ UNCHANGED <<kernel, tracked, bufferVars, calls, thread, doubtful, ownVars>>

Count ==
  /\ Flushes("count")
  /\ flush' = [flush EXCEPT !.at = "dropped",
       !.count = IF event_count > Capacity THEN Capacity ELSE event_count]
  /\ before' = IF trace_open THEN [whole |-> whole, lost |-> Lost] ELSE before
  /\ UNCHANGED <<trace_fd, trace_open, offset, file, ended, last>>

\* Events beyond the capacity are counted twice, by dropped and event_count.
Dropped ==
  /\ Flushes("dropped")
  /\ flush' = [flush EXCEPT !.at = "seek", !.dropped = dropped + Lost]
  /\ UNCHANGED <<trace_fd, trace_open, offset, file, ended, before, last>>

\* Mutant: the header is written where the constructor's header ended.
Seek_Missing ==
  /\ Flushes("seek")
  /\ flush' = [flush EXCEPT !.at = "header"]
  /\ UNCHANGED <<trace_fd, trace_open, offset, file, ended, before, last>>

\* The three system calls on the file do nothing when it is closed.
Seek ==
  /\ Flushes("seek")
  /\ flush' = [flush EXCEPT !.at = "header"]
  /\ offset' = IF trace_open THEN "start" ELSE offset
  /\ UNCHANGED <<trace_fd, trace_open, file, ended, before, last>>

\* write_all of the header.  When it falls short, what is there of the header
\* before stays; the number of dropped events is the last thing in it.
Header ==
  /\ Flushes("header")
  /\ flush' = [flush EXCEPT !.at = "events"]
  /\ \/ /\ trace_open /\ offset' = "body"
        /\ file' = [file EXCEPT !.dropped = flush.dropped,
                                !.bad = IF offset = "start" THEN @ \ {"header"} ELSE Parts]
        /\ last' = [last EXCEPT !.header = TRUE]
     \/ /\ trace_open /\ offset' = "short"
        /\ \E d \in {file.dropped, flush.dropped} : file' = [file EXCEPT !.dropped = d]
        /\ last' = [last EXCEPT !.header = FALSE]
     \/ ~trace_open /\ UNCHANGED <<offset, file, last>>
  /\ UNCHANGED <<trace_fd, trace_open, ended, before>>

\* n events, and perhaps a part of the next, after the header, where those of
\* an earlier flush may be; or over the header, if that was cut off.
EventsWritten(n, part) ==
  IF offset = "body"
  THEN [file EXCEPT !.count = IF n > @ THEN n ELSE @,
                    !.whole = @ \cup {s \in whole : s < n},
                    !.bad = IF n = flush.count THEN @ \ {"events"} ELSE @]
  ELSE [file EXCEPT !.bad = IF n > 0 \/ part THEN Parts ELSE @]

\* write_all of the events.
Events ==
  /\ Flushes("events")
  /\ flush' = [flush EXCEPT !.at = "close"]
  /\ \/ /\ trace_open /\ offset' = "end"
        /\ \E n \in 0 .. flush.count, part \in BOOLEAN :
             /\ part => n < flush.count
             /\ file' = EventsWritten(n, part)
             /\ last' = [last EXCEPT !.wanted = flush.count, !.got = n]
     \/ ~trace_open /\ UNCHANGED <<offset, file, last>>
  /\ UNCHANGED <<trace_fd, trace_open, ended, before>>

CloseFile ==
  /\ Flushes("close")
  /\ flush' = [flush EXCEPT !.at = "clear"]
  /\ trace_open' = FALSE
  /\ UNCHANGED <<trace_fd, offset, file, ended, before, last>>

Clear ==
  /\ Flushes("clear")
  /\ flush' = [flush EXCEPT !.at = "done", !.count = 0, !.dropped = 0]
  /\ trace_fd' = FALSE
  /\ UNCHANGED <<trace_open, offset, file, ended, before, last>>

\* exit_group, after the flush; or without one, when trace_fd is cleared.
End ==
  /\ ~ended /\ ~overlapped /\ ~trace_fd
  /\ UNCHANGED <<kernel, tracked, bufferVars, calls, thread, doubtful, ownVars>>
  /\ ended' = TRUE
  /\ UNCHANGED <<flush, trace_fd, trace_open, offset, file, before, last>>

TraceNext ==
  \/ \E t \in Threads :
       \/ OpenMali(t) \/ OpenOther(t) \/ Mark(t) \/ Check(t)
       \/ \E fd \in Fds : Close(t, fd) \/ Call(t, fd)
       \/ \E fd, other \in Fds : Poll(t, fd, other)
       \/ Skip(t) \/ Reserve(t) \/ Drop(t) \/ Fill(t) \/ Unmark(t)
       \/ \E f \in Flushers : Begin(t, f)
  \/ Count \/ Dropped \/ Seek \/ Header \/ Events \/ CloseFile \/ Clear \/ End

TraceSpec == TraceInit /\ [][TraceNext]_traceVars

-----------------------------------------------------------------------------

Filling(s) == {t \in Threads : thread[t].at = "fill" /\ thread[t].slot = s}

\* Types, and the accounting of slots: of the slots reserved each is filled or
\* being filled by exactly one thread, no other slot is touched, and every
\* event beyond the capacity is counted as dropped or about to be.
SlotsExact ==
  /\ tracked \subseteq Fds
  /\ whole \subseteq 0 .. Capacity - 1
  /\ \A s \in 0 .. Capacity - 1 :
       Cardinality(Filling(s)) = IF s < event_count /\ s \notin whole THEN 1 ELSE 0
  /\ \A s \in whole : s < event_count
  /\ Lost = dropped + Cardinality({t \in Threads : thread[t].at = "drop"})

IsMali(fd) == kernel[fd] \in {"mali", "reader"}

\* The table of descriptors is right but for hooks under way, with one
\* exception: a number the kernel hands out while another thread is between
\* the real close and its unmark_fd (or above the table), and the readers set
\* up through it.
TrackingExact ==
  \A fd \in Fds \ doubtful :
    /\ is_tracked(fd) => IsMali(fd) \/ Closing(fd)
    /\ IsMali(fd) => \/ is_tracked(fd)
                     \/ \E t \in Threads : thread[t].new = fd

\* What the file says when the program has ended, unless two threads flushed
\* at once.  If the last flush wrote all it meant to, there is one header and
\* the events after it, with every event filled in before that flush began.  If
\* its header was written, that is whole and does not hide that events were
\* lost; if then the events fell short, those written are there.  Whatever fell
\* short, no loss is reported when there was none, and a file that can be read
\* has at most one blank event for each thread caught in the act.
FileTruthful ==
  ended /\ ~overlapped =>
    /\ last.header /\ last.got = last.wanted =>
         file.bad = {} /\ before.whole \subseteq file.whole
    /\ last.header =>
         /\ "header" \notin file.bad /\ file.dropped >= before.lost
         /\ {s \in before.whole : s < last.got} \subseteq file.whole
    /\ file.dropped > 0 => Lost > 0
    /\ file.bad = {} => file.count - Cardinality(file.whole) <= Cardinality(Threads)

=============================================================================
