-------------------------- MODULE WaylandEglProofs --------------------------
(***************************************************************************)
(* Theorems about WaylandEgl, for every list of configurations, every set  *)
(* of exposures, every array size and number of inputs.                    *)
(***************************************************************************)
EXTENDS WaylandEgl, WebosShellProofs

\* The callback chain.  A renderer that is ending may still be armed, but not
\* when hidden.
ChainInv ==
  /\ phase \in {"setup", "attached", "loop", "exited"}
  /\ running \in BOOLEAN /\ frame_cb \in BOOLEAN /\ frames \in {0, 1}
  /\ render_visible \in BOOLEAN /\ render_visible = effective_visible
  /\ phase \in {"setup", "attached"} => ~frame_cb
  /\ phase = "loop" /\ frame_cb => render_visible
  /\ EglOneChain

Samples == {samples \in Seq(1 .. MaxInputs) : Len(samples) <= MaxSamples}

\* The serials and samples.
TraceTypes ==
  /\ latency_trace \in BOOLEAN /\ unshown \in BOOLEAN /\ seen_callback \in BOOLEAN
  /\ input_serial \in 0 .. MaxInputs
  /\ rendered_input_serial \in 0 .. input_serial
  /\ unshown => input_serial # 0
  /\ batches \in Seq(1 .. MaxInputs)
  /\ callback_count \in 0 .. MaxSamples
  /\ input_submit_samples \in Samples /\ input_swap_samples \in Samples
  /\ input_callback_samples \in Samples

\* The renderer has rendered its last frame.
Done == ~running /\ (~frame_cb \/ phase # "loop")

SerialsDiffer == unshown <=> input_serial # rendered_input_serial

Paired == OfFirst(input_submit_samples, batches) /\ OfFirst(input_swap_samples, batches)

Ordered(samples) ==
  \A i \in 1 .. Len(samples) : \A j \in 1 .. i - 1 : samples[j] < samples[i]

\* Every callback sample is of a batch that a frame has shown.
AllShown(samples, b, rendered) ==
  \A i \in 1 .. Len(samples) : Among(samples[i], b) /\ samples[i] <= rendered

\* ... but perhaps the last.
MostShown(samples, b) ==
  \A i \in 1 .. Len(samples) : Among(samples[i], b) \/ i = Len(samples)

\* The accounting; the callback of the last batch may fire with no frame to
\* follow only when no later callback can.
TraceInv ==
  latency_trace =>
    /\ SerialsDiffer /\ Paired /\ Ordered(input_callback_samples)
    /\ IF Done THEN MostShown(input_callback_samples, batches)
       ELSE AllShown(input_callback_samples, batches, rendered_input_serial)

EglInv == ChainInv /\ TraceTypes /\ TraceInv

-----------------------------------------------------------------------------
(* What the parts of a handler do                                          *)

\* What a frame does to the trace.
Draws ==
  /\ running /\ unshown' = FALSE
  /\ batches' = IF unshown THEN Append(batches, input_serial) ELSE batches
  /\ TraceRender

\* render either draws, with exactly one callback after it, or leaves the
\* chain alone.
LEMMA RenderChain ==
  ASSUME ChainInv, NEW armed \in BOOLEAN,
         NEW live, live = IF armed THEN 1 ELSE 0,
         render(armed, live)
  PROVE  \/ /\ running /\ render_visible'
            /\ frame_cb' = TRUE /\ callbacks' = 1
            /\ frames' = 1 - frames /\ frames' \in {0, 1}
            /\ running' \in BOOLEAN /\ Draws
         \/ /\ ~(running /\ render_visible')
            /\ frame_cb' = armed /\ callbacks' = live
            /\ frames' = frames /\ running' = running
            /\ UNCHANGED <<shownVars, renderTrace>>
<1>1. frames = 0 \/ frames = 1
  BY DEF ChainInv
<1>2. 1 - frames \in {0, 1}
  BY <1>1
<1> QED  BY <1>2 DEF render, Chain, Draws, shownVars

\* A call of render in the loop, with no callback armed, keeps the chain.
LEMMA AfterRender ==
  ASSUME ChainInv, phase' = "loop",
         render_visible' \in BOOLEAN, render_visible' = effective_visible',
         \/ /\ running /\ render_visible'
            /\ frame_cb' = TRUE /\ callbacks' = 1
            /\ frames' = 1 - frames /\ frames' \in {0, 1} /\ running' \in BOOLEAN
         \/ /\ ~(running /\ render_visible')
            /\ frame_cb' = FALSE /\ callbacks' = 0
            /\ frames' = frames /\ running' = running
  PROVE  ChainInv'
<1>1. CASE running /\ render_visible'
  <2>1. /\ frame_cb' = TRUE /\ callbacks' = 1 /\ render_visible' = TRUE
        /\ frames' \in {0, 1} /\ running' \in BOOLEAN
    BY <1>1
  <2>2. EglOneChain'
    BY <2>1 DEF EglOneChain
  <2> QED  BY <2>1, <2>2 DEF ChainInv
<1>2. CASE ~(running /\ render_visible')
  <2>1. /\ frame_cb' = FALSE /\ callbacks' = 0
        /\ frames' = frames /\ running' = running
    BY <1>2
  <2>2. EglOneChain'
    BY <1>2, <2>1 DEF EglOneChain
  <2> QED  BY <2>1, <2>2 DEF ChainInv
<1> QED  BY <1>1, <1>2

\* A change of the flag reaches the renderer's copy.
LEMMA ReportCopies ==
  ASSUME ChainInv,
         \/ \E s \in ShellStates : handle_state_changed(s)
         \/ \E values \in Exposures : handle_exposed(values)
  PROVE  /\ effective_visible' \in BOOLEAN
         /\ render_visible' = effective_visible'
BY DEF ChainInv, handle_state_changed, handle_exposed, update_visibility

LEMMA SampleSerials ==
  ASSUME NEW s \in Samples
  PROVE  \A i \in 1 .. Len(s) : s[i] \in Nat
<1>1. s \in Seq(1 .. MaxInputs)
  BY DEF Samples
<1>2. ASSUME NEW i \in 1 .. Len(s) PROVE s[i] \in 1 .. MaxInputs
  <2>1. \A S : \A q \in Seq(S) : \A k \in 1 .. Len(q) : q[k] \in S
    OBVIOUS
  <2> QED  BY <1>1, <2>1, Zenon
<1>3. 1 .. MaxInputs \subseteq Nat
  OBVIOUS
<1> QED  BY <1>2, <1>3

\* What latency_record does to an array: nothing, or it appends the serial.
LEMMA RecordEntries ==
  ASSUME input_serial \in 1 .. MaxInputs, NEW s \in Samples, NEW r, r = latency_record(s)
  PROVE  /\ r \in Samples /\ Len(s) \in Nat
         /\ \/ Len(s) = MaxSamples /\ r = s
            \/ /\ Len(s) < MaxSamples /\ Len(r) = Len(s) + 1
               /\ r[Len(s) + 1] = input_serial
         /\ \A i \in 1 .. Len(s) : r[i] = s[i]
<1>1. /\ s \in Seq(1 .. MaxInputs) /\ Len(s) \in Nat /\ Len(s) <= MaxSamples
      /\ MaxSamples \in Nat
  BY EglAssumption DEF Samples
<1>2. CASE Len(s) < MaxSamples
  <2>1. r = Append(s, input_serial)
    BY <1>2 DEF latency_record
  <2>2. /\ r \in Seq(1 .. MaxInputs) /\ Len(r) = Len(s) + 1
        /\ r[Len(s) + 1] = input_serial /\ \A i \in 1 .. Len(s) : r[i] = s[i]
    BY <1>1, <2>1
  <2>3. Len(r) <= MaxSamples
    BY <1>1, <1>2, <2>2
  <2> QED  BY <1>1, <1>2, <2>2, <2>3 DEF Samples
<1>3. CASE ~(Len(s) < MaxSamples)
  <2>1. r = s /\ Len(s) = MaxSamples
    BY <1>1, <1>3 DEF latency_record
  <2> QED  BY <1>1, <2>1
<1> QED  BY <1>2, <1>3

\* An entry of the longer array is one of the old or the serial at its end.
LEMMA RecordEntry ==
  ASSUME input_serial \in 1 .. MaxInputs, NEW s \in Samples, NEW r, r = latency_record(s),
         NEW i \in 1 .. Len(r)
  PROVE  \/ i \in 1 .. Len(s) /\ r[i] = s[i]
         \/ i = Len(r) /\ r[i] = input_serial
<1>1. /\ Len(s) \in Nat /\ \A k \in 1 .. Len(s) : r[k] = s[k]
      /\ \/ r = s
         \/ Len(r) = Len(s) + 1 /\ r[Len(s) + 1] = input_serial
  BY RecordEntries
<1>2. CASE r = s
  BY <1>1, <1>2
<1>3. CASE Len(r) = Len(s) + 1 /\ r[Len(s) + 1] = input_serial
  <2>1. i \in 1 .. Len(s) \/ i = Len(s) + 1
    BY <1>1, <1>3
  <2> QED  BY <1>1, <1>3, <2>1
<1> QED  BY <1>1, <1>2, <1>3

\* A sample of a new batch goes with the batch.
LEMMA RecordOfFirst ==
  ASSUME input_serial \in 1 .. MaxInputs, NEW s \in Samples,
         NEW b \in Seq(1 .. MaxInputs), OfFirst(s, b)
  PROVE  OfFirst(latency_record(s), Append(b, input_serial))
<1>1. PICK r, c : r = latency_record(s) /\ c = Append(b, input_serial)
  OBVIOUS
<1>2. /\ Len(b) \in Nat /\ Len(c) = Len(b) + 1 /\ c[Len(b) + 1] = input_serial
      /\ \A i \in 1 .. Len(b) : c[i] = b[i]
  BY <1>1
<1>3. /\ Len(s) \in Nat /\ MaxSamples \in Nat
      /\ Len(s) = IF Len(b) < MaxSamples THEN Len(b) ELSE MaxSamples
      /\ \A i \in 1 .. Len(s) : s[i] = b[i]
  BY EglAssumption DEF OfFirst, Samples
<1>4. /\ \/ Len(s) = MaxSamples /\ r = s
         \/ /\ Len(s) < MaxSamples /\ Len(r) = Len(s) + 1
            /\ r[Len(s) + 1] = input_serial
      /\ \A i \in 1 .. Len(s) : r[i] = s[i]
  BY <1>1, RecordEntries
<1>5. CASE Len(s) = MaxSamples /\ r = s
  <2>1. Len(s) <= Len(b) /\ Len(r) = IF Len(c) < MaxSamples THEN Len(c) ELSE MaxSamples
    BY <1>2, <1>3, <1>5
  <2>2. \A i \in 1 .. Len(r) : r[i] = c[i]
    BY <1>2, <1>3, <1>5, <2>1
  <2> QED  BY <1>1, <2>1, <2>2 DEF OfFirst
<1>6. CASE Len(s) < MaxSamples /\ Len(r) = Len(s) + 1 /\ r[Len(s) + 1] = input_serial
  <2>1. Len(s) = Len(b) /\ Len(r) = IF Len(c) < MaxSamples THEN Len(c) ELSE MaxSamples
    BY <1>2, <1>3, <1>6
  <2>2. \A i \in 1 .. Len(r) : i \in 1 .. Len(s) \/ i = Len(s) + 1
    BY <1>3, <1>6
  <2>3. \A i \in 1 .. Len(r) : r[i] = c[i]
    BY <1>2, <1>3, <1>4, <1>6, <2>1, <2>2
  <2> QED  BY <1>1, <2>1, <2>3 DEF OfFirst
<1> QED  BY <1>4, <1>5, <1>6

\* A later serial keeps the order.
LEMMA RecordOrdered ==
  ASSUME input_serial \in 1 .. MaxInputs, NEW s \in Samples, Ordered(s),
         \A i \in 1 .. Len(s) : s[i] < input_serial
  PROVE  Ordered(latency_record(s))
<1>1. PICK r : r = latency_record(s)
  OBVIOUS
<1>2. /\ Len(s) \in Nat /\ \A i \in 1 .. Len(s) : r[i] = s[i]
      /\ \/ r = s
         \/ Len(r) = Len(s) + 1 /\ r[Len(s) + 1] = input_serial
  BY <1>1, RecordEntries
<1>3. CASE r = s
  BY <1>1, <1>3
<1>4. CASE Len(r) = Len(s) + 1 /\ r[Len(s) + 1] = input_serial
  <2> SUFFICES ASSUME NEW i \in 1 .. Len(r), NEW j \in 1 .. i - 1 PROVE r[j] < r[i]
    BY <1>1 DEF Ordered
  <2>1. j \in 1 .. Len(s) /\ (i \in 1 .. Len(s) \/ i = Len(s) + 1)
    BY <1>2, <1>4
  <2>2. CASE i \in 1 .. Len(s)
    <3>1. s[j] < s[i]
      BY <2>2 DEF Ordered
    <3> QED  BY <1>2, <2>1, <2>2, <3>1
  <2>3. CASE i = Len(s) + 1
    BY <1>2, <1>4, <2>1, <2>3
  <2> QED  BY <2>1, <2>2, <2>3
<1> QED  BY <1>2, <1>3, <1>4

LEMMA AmongAppend ==
  ASSUME NEW b \in Seq(1 .. MaxInputs), NEW y \in 1 .. MaxInputs
  PROVE  /\ Among(y, Append(b, y))
         /\ \A x : Among(x, b) => Among(x, Append(b, y))
<1>1. PICK c : c = Append(b, y)
  OBVIOUS
<1>2. /\ Len(b) \in Nat /\ Len(c) = Len(b) + 1 /\ c[Len(b) + 1] = y
      /\ \A i \in 1 .. Len(b) : c[i] = b[i]
  BY <1>1
<1>3. Len(b) + 1 \in 1 .. Len(c) /\ \A i \in 1 .. Len(b) : i \in 1 .. Len(c)
  BY <1>2
<1> QED  BY <1>1, <1>2, <1>3 DEF Among

LEMMA AllIsMost ==
  ASSUME NEW s, NEW b, NEW k, AllShown(s, b, k)
  PROVE  MostShown(s, b)
BY DEF AllShown, MostShown

\* Serials shown stay shown.
LEMMA ShownStays ==
  ASSUME NEW s \in Samples, NEW b, NEW nb, NEW k \in Nat, NEW nk \in Nat, k <= nk,
         \A x : Among(x, b) => Among(x, nb)
  PROVE  (AllShown(s, b, k) => AllShown(s, nb, nk)) /\ (MostShown(s, b) => MostShown(s, nb))
<1>1. \A i \in 1 .. Len(s) : s[i] \in Nat
  BY SampleSerials
<1>2. \A i \in 1 .. Len(s) : s[i] <= k => s[i] <= nk
  BY <1>1
<1> QED  BY <1>2 DEF AllShown, MostShown

\* A new sample is of the batch shown with it.
LEMMA RecordShown ==
  ASSUME input_serial \in 1 .. MaxInputs, NEW s \in Samples,
         NEW b \in Seq(1 .. MaxInputs), NEW k \in Nat, k < input_serial,
         AllShown(s, b, k)
  PROVE  AllShown(latency_record(s), Append(b, input_serial), input_serial)
<1>1. PICK r, c : r = latency_record(s) /\ c = Append(b, input_serial)
  OBVIOUS
<1>2. Among(input_serial, c) /\ \A x : Among(x, b) => Among(x, c)
  BY <1>1, AmongAppend
<1>3. input_serial \in Nat /\ \A i \in 1 .. Len(s) : s[i] \in Nat
  BY SampleSerials
<1>4. \A i \in 1 .. Len(s) : Among(s[i], c) /\ s[i] <= input_serial
  <2>1. \A i \in 1 .. Len(s) : Among(s[i], b) /\ s[i] <= k
    BY DEF AllShown
  <2>2. \A i \in 1 .. Len(s) : s[i] <= input_serial
    BY <1>3, <2>1
  <2> QED  BY <1>2, <2>1, <2>2
<1>5. ASSUME NEW i \in 1 .. Len(r) PROVE Among(r[i], c) /\ r[i] <= input_serial
  <2>1. \/ i \in 1 .. Len(s) /\ r[i] = s[i]
        \/ i = Len(r) /\ r[i] = input_serial
    BY <1>1, RecordEntry
  <2>2. input_serial <= input_serial
    BY <1>3
  <2> QED  BY <1>2, <1>4, <2>1, <2>2
<1> QED  BY <1>1, <1>5 DEF AllShown

\* A new sample is the last.
LEMMA RecordMostShown ==
  ASSUME input_serial \in 1 .. MaxInputs, NEW s \in Samples, NEW b, NEW k,
         AllShown(s, b, k)
  PROVE  MostShown(latency_record(s), b)
<1>1. PICK r : r = latency_record(s)
  OBVIOUS
<1>2. ASSUME NEW i \in 1 .. Len(r) PROVE Among(r[i], b) \/ i = Len(r)
  <2>1. \/ i \in 1 .. Len(s) /\ r[i] = s[i]
        \/ i = Len(r) /\ r[i] = input_serial
    BY <1>1, RecordEntry
  <2> QED  BY <2>1 DEF AllShown
<1> QED  BY <1>1, <1>2 DEF MostShown

-----------------------------------------------------------------------------
(* The chain                                                               *)

\* The promise's steps are defined over the mapped variables.
Step == [Promise!Next]_Promise!chain

\* The disjuncts of EglNext that touch neither chain nor visibility.
LEMMA QuietStep ==
  ASSUME ChainInv,
         UNCHANGED <<phase, running, render_visible, effective_visible,
                     frame_cb, callbacks, frames>>
  PROVE  ChainInv' /\ Step
BY DEF ChainInv, EglOneChain, Step, Promise!chain

\* Every handler keeps the chain and is one step of the promise, or none.
LEMMA ChainStep == ChainInv /\ [EglNext]_eglVars => ChainInv' /\ Step
<1> SUFFICES ASSUME ChainInv, [EglNext]_eglVars PROVE ChainInv' /\ Step
  OBVIOUS
<1>1. CASE BindShell
  BY <1>1, QuietStep DEF BindShell, ShellTryBind, visibility, chainVars
<1>2. CASE AttachSurface
  <2>1. /\ phase = "setup" /\ phase' = "attached"
        /\ UNCHANGED <<running, render_visible, effective_visible, frame_cb,
                       callbacks, frames>>
    BY <1>2 DEF AttachSurface, Attach, visibility, chainVars
  <2>2. ChainInv'
    BY <2>1 DEF ChainInv, EglOneChain
  <2>3. Step
    BY <2>1 DEF Step, Promise!chain
  <2> QED  BY <2>2, <2>3
<1>3. CASE SetupFails
  <2>1. /\ phase \in {"setup", "attached"} /\ phase' = "exited"
        /\ UNCHANGED <<running, render_visible, effective_visible, frame_cb,
                       callbacks, frames>>
        /\ frame_cb = FALSE /\ callbacks = 0
    BY <1>3 DEF SetupFails, shellVars, visibility, chainVars, ChainInv, EglOneChain
  <2>2. ChainInv'
    BY <2>1 DEF ChainInv, EglOneChain
  <2>3. Promise!End
    BY <2>1 DEF Promise!End
  <2> QED  BY <2>2, <2>3 DEF Step, Promise!Next
<1>4. CASE Start
  <2>1. /\ phase = "attached" /\ phase' = "loop"
        /\ render_visible' = render_visible
        /\ effective_visible' = effective_visible
        /\ frame_cb = FALSE /\ callbacks = 0 /\ render(frame_cb, callbacks)
    BY <1>4 DEF Start, shellVars, visibility, ChainInv, EglOneChain
  <2>2. \/ /\ running /\ render_visible'
           /\ frame_cb' = TRUE /\ callbacks' = 1
           /\ frames' = 1 - frames /\ frames' \in {0, 1} /\ running' \in BOOLEAN
        \/ /\ ~(running /\ render_visible')
           /\ frame_cb' = FALSE /\ callbacks' = 0
           /\ frames' = frames /\ running' = running
    BY <2>1, RenderChain
  <2>3. ChainInv'
    BY <2>1, <2>2, AfterRender DEF ChainInv
  <2>4. Promise!Begin
    BY <2>1, <2>2 DEF Promise!Begin, Promise!Draw, Promise!Rest, ChainInv
  <2> QED  BY <2>3, <2>4 DEF Step, Promise!Next
<1>5. CASE frame_done
  <2>1. /\ phase = "loop" /\ phase' = "loop"
        /\ render_visible' = render_visible
        /\ effective_visible' = effective_visible
        /\ render_visible = TRUE /\ frame_cb = TRUE
        /\ callbacks = 1 /\ callbacks - 1 = 0 /\ render(FALSE, callbacks - 1)
    <3>1. callbacks = 1 /\ render_visible = TRUE /\ frame_cb = TRUE
      BY <1>5 DEF frame_done, ChainInv, EglOneChain
    <3>2. callbacks - 1 = 0
      BY <3>1
    <3>3. render(FALSE, callbacks - 1)
      BY <1>5 DEF frame_done
    <3>4. /\ phase = "loop" /\ phase' = "loop"
          /\ render_visible' = render_visible
          /\ effective_visible' = effective_visible
      BY <1>5 DEF frame_done, shellVars, visibility
    <3> QED  BY <3>1, <3>2, <3>3, <3>4
  <2>2. \/ /\ running /\ render_visible'
           /\ frame_cb' = TRUE /\ callbacks' = 1
           /\ frames' = 1 - frames /\ frames' \in {0, 1} /\ running' \in BOOLEAN
        \/ /\ ~(running /\ render_visible')
           /\ frame_cb' = FALSE /\ callbacks' = 0
           /\ frames' = frames /\ running' = running
    BY <2>1, RenderChain
  <2>3. ChainInv'
    BY <2>1, <2>2, AfterRender DEF ChainInv
  <2>4. Promise!Fire
    BY <2>1, <2>2 DEF Promise!Fire, Promise!Draw, Promise!Rest, ChainInv
  <2> QED  BY <2>3, <2>4 DEF Step, Promise!Next
<1>6. CASE VisibilityReport
  <2>1. phase \in {"attached", "loop"} /\ phase' = phase
    BY <1>6 DEF VisibilityReport
  <2>2. effective_visible' \in BOOLEAN /\ render_visible' = effective_visible'
    BY <1>6, ReportCopies DEF VisibilityReport
  <2>3. CASE effective_visible' = effective_visible
    <3>1. UNCHANGED <<phase, running, render_visible, effective_visible,
                      frame_cb, callbacks, frames>>
      BY <1>6, <2>1, <2>2, <2>3 DEF VisibilityReport, ChainInv, chainVars
    <3> QED  BY <3>1, QuietStep
  <2>4. CASE effective_visible' # effective_visible
    <3>1. webos_visibility_changed /\ render_visible' # render_visible
      BY <1>6, <2>2, <2>4 DEF VisibilityReport, ChainInv
    <3>2. CASE ~render_visible'
      <4>1. /\ frames' = frames /\ running' = running
            /\ frame_cb' = FALSE /\ callbacks' = 0
        <5>1. CASE frame_cb = TRUE
          <6>1. callbacks = 1
            BY <2>1, <5>1 DEF ChainInv, EglOneChain
          <6>2. callbacks - 1 = 0
            BY <6>1
          <6> QED
            BY <3>1, <3>2, <5>1, <6>2 DEF webos_visibility_changed, Chain
        <5>2. CASE frame_cb = FALSE
          BY <2>1, <3>1, <3>2, <5>2
             DEF webos_visibility_changed, chainVars, ChainInv, EglOneChain
        <5> QED  BY <5>1, <5>2 DEF ChainInv
      <4>2. ChainInv'
        BY <2>1, <2>2, <3>2, <4>1 DEF ChainInv, EglOneChain
      <4>3. Promise!Hide
        BY <2>1, <2>2, <3>2, <4>1 DEF Promise!Hide
      <4> QED  BY <4>2, <4>3 DEF Step, Promise!Next
    <3>3. CASE render_visible'
      <4>1. render_visible = FALSE /\ frame_cb = FALSE /\ callbacks = 0
        BY <2>1, <2>2, <3>1, <3>3 DEF ChainInv, EglOneChain
      <4>2. CASE phase = "loop" /\ running = TRUE
        <5>1. render(frame_cb, callbacks)
          BY <3>1, <3>3, <4>1, <4>2 DEF webos_visibility_changed
        <5>2. /\ frame_cb' = TRUE /\ callbacks' = 1
              /\ frames' = 1 - frames /\ frames' \in {0, 1}
              /\ running' \in BOOLEAN
          BY <3>3, <4>1, <4>2, <5>1, RenderChain
        <5>3. ChainInv'
          BY <2>1, <2>2, <3>3, <4>2, <5>2 DEF ChainInv, EglOneChain
        <5>4. Promise!Show
          BY <2>1, <2>2, <3>3, <4>1, <4>2, <5>2 DEF Promise!Show, Promise!Draw
        <5> QED  BY <5>3, <5>4 DEF Step, Promise!Next
      <4>3. CASE phase # "loop" \/ running = FALSE
        <5>1. /\ frame_cb' = FALSE /\ callbacks' = 0
              /\ frames' = frames /\ running' = running
          BY <3>1, <3>3, <4>1, <4>3 DEF webos_visibility_changed, chainVars
        <5>2. ChainInv'
          BY <2>1, <2>2, <3>3, <4>3, <5>1 DEF ChainInv, EglOneChain
        <5>3. Promise!Show
          BY <2>1, <2>2, <3>3, <4>1, <4>3, <5>1 DEF Promise!Show, Promise!Rest
        <5> QED  BY <5>2, <5>3 DEF Step, Promise!Next
      <4> QED  BY <4>2, <4>3 DEF ChainInv
    <3> QED  BY <3>2, <3>3
  <2> QED  BY <2>3, <2>4
<1>7. CASE Input
  <2>1. /\ phase = "loop" /\ phase' = "loop" /\ running' \in {running, FALSE}
        /\ UNCHANGED <<render_visible, effective_visible, frame_cb, callbacks,
                       frames>>
    BY <1>7 DEF Input, shellVars, visibility, chainVars
  <2>2. ChainInv'
    BY <2>1 DEF ChainInv, EglOneChain
  <2>3. CASE running' = running
    BY <2>1, <2>3, QuietStep
  <2>4. CASE running' = FALSE
    BY <2>1, <2>2, <2>4 DEF Step, Promise!Next, Promise!Close
  <2> QED  BY <2>1, <2>3, <2>4
<1>8. CASE webos_close_requested
  <2>1. /\ phase' = phase /\ running' = FALSE
        /\ UNCHANGED <<render_visible, effective_visible, frame_cb, callbacks,
                       frames>>
    BY <1>8 DEF webos_close_requested, shellVars, visibility, chainVars
  <2>2. ChainInv'
    BY <2>1 DEF ChainInv, EglOneChain
  <2> QED  BY <2>1, <2>2 DEF Step, Promise!Next, Promise!Close
<1>9. CASE Exit
  <2>1. /\ phase = "loop" /\ phase' = "exited" /\ callbacks' = 0
        /\ UNCHANGED <<running, render_visible, effective_visible, frame_cb,
                       frames>>
    <3>1. CASE frame_cb = TRUE
      <4>1. callbacks - 1 = 0
        BY <1>9, <3>1 DEF Exit, ChainInv, EglOneChain
      <4> QED  BY <1>9, <3>1, <4>1 DEF Exit, Chain, ShellDestroy, visibility
    <3>2. CASE frame_cb = FALSE
      BY <1>9, <3>2 DEF Exit, Chain, ShellDestroy, visibility, ChainInv, EglOneChain
    <3> QED  BY <3>1, <3>2 DEF ChainInv
  <2>2. ChainInv'
    BY <2>1 DEF ChainInv, EglOneChain
  <2>3. Promise!End
    BY <2>1 DEF Promise!End
  <2> QED  BY <2>2, <2>3 DEF Step, Promise!Next
<1>10. CASE UNCHANGED eglVars
  BY <1>10, QuietStep DEF eglVars, shellVars, visibility, chainVars
<1> QED
  BY <1>1, <1>2, <1>3, <1>4, <1>5, <1>6, <1>7, <1>8, <1>9, <1>10 DEF EglNext

LEMMA ChainInvariance == EglSpec => []ChainInv
<1>1. EglInit => ChainInv
  BY DEF EglInit, ShellInit, ChainInv, EglOneChain
<1> QED  BY <1>1, ChainStep, PTL DEF EglSpec

\* One callback while armed, none otherwise; a running renderer is armed
\* exactly while it is shown.
THEOREM EglChainCorrect == EglSpec => []EglOneChain
<1>1. ChainInv => EglOneChain
  BY DEF ChainInv
<1> QED  BY <1>1, ChainInvariance, PTL

\* The GPU renderer keeps the promise about frame pacing and never starves.
THEOREM EglKeepsChain == EglSpec => KeepsChain
<1>1. EglInit => Promise!Init
  BY DEF EglInit, ShellInit, Promise!Init
<1>2. ChainInv /\ [EglNext]_eglVars => [Promise!Next]_Promise!chain
  BY ChainStep DEF Step
<1> QED
  BY <1>1, <1>2, ChainInvariance, PTL DEF EglSpec, KeepsChain, Promise!Spec

-----------------------------------------------------------------------------
(* The latency trace                                                       *)

\* What a step may do to the trace apart from input and callbacks: nothing,
\* or what rendering a frame does.
Rendered == UNCHANGED <<shownVars, renderTrace>> \/ Draws

\* What frame_done does to the callback samples.
CallbackSampled ==
  input_callback_samples' =
    IF latency_trace /\ input_serial # rendered_input_serial
    THEN latency_record(input_callback_samples) ELSE input_callback_samples

\* There is an input when the serials differ.
LEMMA SerialPositive ==
  ASSUME TraceTypes, unshown \/ input_serial # rendered_input_serial
  PROVE  input_serial \in 1 .. MaxInputs /\ rendered_input_serial \in Nat
         /\ rendered_input_serial <= input_serial
<1>1. /\ input_serial \in 0 .. MaxInputs /\ rendered_input_serial \in 0 .. input_serial
      /\ MaxInputs \in Nat /\ (unshown => input_serial # 0)
  BY EglAssumption DEF TraceTypes
<1>2. input_serial # 0
  BY <1>1
<1> QED  BY <1>1, <1>2

\* Types after a frame or none.
LEMMA RenderedTypes ==
  ASSUME TraceTypes, Rendered, input_serial' = input_serial
  PROVE  /\ rendered_input_serial' \in 0 .. input_serial
         /\ input_submit_samples' \in Samples /\ input_swap_samples' \in Samples
         /\ unshown' \in BOOLEAN /\ (unshown' => input_serial # 0)
         /\ batches' \in Seq(1 .. MaxInputs)
<1>1. CASE UNCHANGED <<shownVars, renderTrace>>
  BY <1>1 DEF shownVars, renderTrace, TraceTypes
<1>2. CASE Draws
  <2>1. batches' \in Seq(1 .. MaxInputs)
    <3>1. batches \in Seq(1 .. MaxInputs)
      BY DEF TraceTypes
    <3>2. CASE unshown = TRUE
      <4>1. input_serial \in 1 .. MaxInputs /\ batches' = Append(batches, input_serial)
        BY <1>2, <3>2, SerialPositive DEF Draws
      <4> QED  BY <3>1, <4>1
    <3>3. CASE unshown = FALSE
      BY <1>2, <3>1, <3>3 DEF Draws
    <3> QED  BY <3>2, <3>3 DEF TraceTypes
  <2>2. unshown' = FALSE
    BY <1>2 DEF Draws
  <2>3. CASE latency_trace /\ input_serial # rendered_input_serial
    <3>1. /\ rendered_input_serial' = input_serial
          /\ input_submit_samples' = latency_record(input_submit_samples)
          /\ input_swap_samples' = latency_record(input_swap_samples)
      BY <1>2, <2>3 DEF Draws, TraceRender
    <3>2. input_submit_samples' \in Samples /\ input_swap_samples' \in Samples
      BY <2>3, <3>1, SerialPositive, RecordEntries DEF TraceTypes
    <3>3. input_serial \in 0 .. input_serial
      BY EglAssumption DEF TraceTypes
    <3> QED  BY <2>1, <2>2, <3>1, <3>2, <3>3
  <2>4. CASE ~(latency_trace /\ input_serial # rendered_input_serial)
    <3>1. UNCHANGED renderTrace
      BY <1>2, <2>4 DEF Draws, TraceRender
    <3> QED  BY <2>1, <2>2, <3>1 DEF TraceTypes, renderTrace
  <2> QED  BY <2>3, <2>4
<1> QED  BY <1>1, <1>2 DEF Rendered

\* A frame under the trace: nothing new is shown, or the batch is recorded.
LEMMA DrawsTraced ==
  ASSUME TraceTypes, TraceInv, Draws, latency_trace = TRUE
  PROVE  /\ unshown' = FALSE
         /\ \/ /\ input_serial = rendered_input_serial
               /\ UNCHANGED <<batches, renderTrace>>
            \/ /\ input_serial # rendered_input_serial
               /\ batches' = Append(batches, input_serial)
               /\ rendered_input_serial' = input_serial
               /\ input_submit_samples' = latency_record(input_submit_samples)
               /\ input_swap_samples' = latency_record(input_swap_samples)
<1>1. SerialsDiffer
  BY DEF TraceInv
<1>2. CASE input_serial = rendered_input_serial
  BY <1>1, <1>2 DEF SerialsDiffer, Draws, TraceRender
<1>3. CASE input_serial # rendered_input_serial
  BY <1>1, <1>3 DEF SerialsDiffer, Draws, TraceRender
<1> QED  BY <1>2, <1>3

\* The serials agree after a frame, and otherwise as before; samples and
\* batches stay paired, and no batch is forgotten.
LEMMA RenderedAgrees ==
  ASSUME TraceTypes, TraceInv, Rendered, latency_trace = TRUE,
         input_serial' = input_serial
  PROVE  /\ SerialsDiffer' /\ Paired'
         /\ rendered_input_serial <= rendered_input_serial'
         /\ \A x : Among(x, batches) => Among(x, batches)'
<1>1. /\ SerialsDiffer /\ Paired /\ rendered_input_serial \in Nat
      /\ rendered_input_serial <= input_serial /\ batches \in Seq(1 .. MaxInputs)
      /\ input_submit_samples \in Samples /\ input_swap_samples \in Samples
  BY EglAssumption DEF TraceInv, TraceTypes
<1>2. CASE UNCHANGED <<unshown, batches, renderTrace>>
  <2>1. rendered_input_serial' = rendered_input_serial /\ batches' = batches
        /\ UNCHANGED <<input_submit_samples, input_swap_samples>> /\ unshown' = unshown
    BY <1>2 DEF renderTrace
  <2>2. SerialsDiffer'
    BY <1>1, <2>1 DEF SerialsDiffer
  <2>3. Paired' /\ \A x : Among(x, batches) => Among(x, batches)'
    BY <1>1, <2>1, Zenon DEF Paired, Among
  <2> QED  BY <1>1, <2>1, <2>2, <2>3
<1>3. CASE Draws
  <2>1. CASE input_serial = rendered_input_serial /\ UNCHANGED <<batches, renderTrace>>
    <3>1. rendered_input_serial' = rendered_input_serial /\ batches' = batches
          /\ UNCHANGED <<input_submit_samples, input_swap_samples>> /\ unshown' = FALSE
      BY <1>3, <2>1, DrawsTraced DEF renderTrace
    <3>2. SerialsDiffer'
      BY <2>1, <3>1 DEF SerialsDiffer
    <3>3. Paired' /\ \A x : Among(x, batches) => Among(x, batches)'
      BY <1>1, <3>1, Zenon DEF Paired, Among
    <3> QED  BY <1>1, <3>1, <3>2, <3>3
  <2>2. CASE /\ input_serial # rendered_input_serial
             /\ batches' = Append(batches, input_serial)
             /\ rendered_input_serial' = input_serial
             /\ input_submit_samples' = latency_record(input_submit_samples)
             /\ input_swap_samples' = latency_record(input_swap_samples)
    <3>1. input_serial \in 1 .. MaxInputs
      BY <2>2, SerialPositive
    <3>2. SerialsDiffer'
      BY <1>3, <2>2, DrawsTraced DEF SerialsDiffer
    <3>3. /\ OfFirst(latency_record(input_submit_samples), Append(batches, input_serial))
          /\ OfFirst(latency_record(input_swap_samples), Append(batches, input_serial))
      BY <1>1, <3>1, RecordOfFirst DEF Paired
    <3>4. Paired'
      BY <2>2, <3>3, Zenon DEF Paired
    <3>5. \A x : Among(x, batches) => Among(x, Append(batches, input_serial))
      BY <1>1, <3>1, AmongAppend
    <3>6. \A x : Among(x, batches) => Among(x, batches)'
      BY <2>2, <3>5, Zenon DEF Among
    <3> QED  BY <1>1, <2>2, <3>2, <3>4, <3>6
  <2> QED  BY <1>3, <2>1, <2>2, DrawsTraced
<1> QED  BY <1>2, <1>3 DEF Rendered, shownVars

\* Every step but an input leaves the trace good: it takes no callback sample,
\* or takes one at the last callback of all, or one with the frame it renders.
LEMMA TraceKept ==
  ASSUME TraceTypes, TraceInv, Rendered,
         \/ input_callback_samples' = input_callback_samples /\ (Done => Done')
         \/ /\ ~Done /\ CallbackSampled
            /\ Draws \/ (Done' /\ UNCHANGED <<shownVars, renderTrace>>),
         latency_trace' = latency_trace, input_serial' = input_serial,
         callback_count' \in 0 .. MaxSamples, seen_callback' \in BOOLEAN
  PROVE  TraceTypes' /\ TraceInv'
<1>1. input_callback_samples \in Samples /\ batches \in Seq(1 .. MaxInputs)
  BY DEF TraceTypes
<1>2. input_callback_samples' \in Samples
  <2>1. CASE input_callback_samples' = input_callback_samples
    BY <1>1, <2>1
  <2>2. CASE CallbackSampled /\ latency_trace /\ input_serial # rendered_input_serial
    <3>1. input_callback_samples' = latency_record(input_callback_samples)
      BY <2>2 DEF CallbackSampled
    <3> QED  BY <1>1, <2>2, <3>1, SerialPositive, RecordEntries
  <2> QED  BY <2>1, <2>2 DEF CallbackSampled
<1>3. TraceTypes'
  BY <1>2, RenderedTypes DEF TraceTypes
<1>4. PICK cs, nc, b, nb, k, nk :
        /\ cs = input_callback_samples /\ nc = input_callback_samples'
        /\ b = batches /\ nb = batches'
        /\ k = rendered_input_serial /\ nk = rendered_input_serial'
  OBVIOUS
<1>5. ASSUME latency_trace = TRUE
      PROVE  /\ SerialsDiffer' /\ Paired' /\ Ordered(nc)
             /\ IF Done' THEN MostShown(nc, nb) ELSE AllShown(nc, nb, nk)
  <2>1. /\ SerialsDiffer' /\ Paired'
        /\ k \in Nat /\ nk \in Nat /\ k <= nk /\ \A x : Among(x, b) => Among(x, nb)
    <3>1. k \in Nat /\ nk \in Nat
      BY <1>4, RenderedTypes, EglAssumption DEF TraceTypes
    <3> QED  BY <1>4, <1>5, <3>1, RenderedAgrees
  <2>2. /\ Ordered(cs) /\ cs \in Samples
        /\ IF Done THEN MostShown(cs, b) ELSE AllShown(cs, b, k)
    BY <1>1, <1>4, <1>5 DEF TraceInv
  <2>3. /\ AllShown(cs, b, k) => AllShown(cs, nb, nk)
        /\ MostShown(cs, b) => MostShown(cs, nb)
    BY <2>1, <2>2, ShownStays
  <2>4. CASE nc = cs /\ (Done => Done')
    BY <2>1, <2>2, <2>3, <2>4, AllIsMost
  <2>5. CASE ~Done /\ CallbackSampled /\ input_serial = rendered_input_serial
    <3>1. nc = cs
      BY <1>4, <2>5 DEF CallbackSampled
    <3> QED  BY <2>1, <2>2, <2>3, <2>5, <3>1, AllIsMost
  <2>6. CASE /\ ~Done /\ CallbackSampled /\ input_serial # rendered_input_serial
             /\ Draws \/ (Done' /\ UNCHANGED <<shownVars, renderTrace>>)
    <3>1. nc = latency_record(cs) /\ input_serial \in 1 .. MaxInputs /\ k < input_serial
      <4>1. input_serial \in 1 .. MaxInputs /\ k <= input_serial /\ k # input_serial
        BY <1>4, <2>6, SerialPositive
      <4> QED  BY <1>4, <1>5, <2>1, <2>6, <4>1, EglAssumption DEF CallbackSampled
    <3>2. AllShown(cs, b, k)
      BY <2>2, <2>6
    <3>3. Ordered(nc)
      <4>1. \A i \in 1 .. Len(cs) : cs[i] < input_serial
        <5>1. \A i \in 1 .. Len(cs) : cs[i] \in Nat /\ cs[i] <= k
          BY <2>2, <3>2, SampleSerials DEF AllShown
        <5> QED  BY <2>1, <3>1, <5>1
      <4> QED  BY <2>2, <3>1, <4>1, RecordOrdered
    <3>4. CASE Draws
      <4>1. nb = Append(b, input_serial) /\ nk = input_serial
        BY <1>4, <1>5, <2>6, <3>4, DrawsTraced
      <4>2. AllShown(nc, nb, nk)
        BY <1>1, <1>4, <2>2, <3>1, <3>2, <4>1, <2>1, RecordShown
      <4> QED  BY <2>1, <3>3, <4>2, AllIsMost
    <3>5. CASE Done' /\ UNCHANGED <<shownVars, renderTrace>>
      <4>1. nb = b
        BY <1>4, <3>5 DEF shownVars
      <4>2. MostShown(nc, nb)
        BY <2>2, <3>1, <3>2, <4>1, RecordMostShown
      <4> QED  BY <2>1, <3>3, <3>5, <4>2
    <3> QED  BY <2>6, <3>4, <3>5
  <2> QED  BY <1>4, <2>4, <2>5, <2>6
<1>6. TraceInv'
  BY <1>4, <1>5, Zenon DEF TraceInv
<1> QED  BY <1>3, <1>6

\* The disjuncts of EglNext that leave the trace alone and end nothing.
LEMMA TraceQuiet ==
  ASSUME TraceTypes, TraceInv, Done => Done',
         UNCHANGED <<latency_trace, input_serial, cbTrace>>, Rendered
  PROVE  TraceTypes' /\ TraceInv'
<1>1. /\ callback_count' \in 0 .. MaxSamples /\ seen_callback' \in BOOLEAN
      /\ input_callback_samples' = input_callback_samples
  BY DEF cbTrace, TraceTypes
<1> QED  BY <1>1, TraceKept

\* Every handler keeps the accounts.
LEMMA TraceStep ==
  ChainInv /\ TraceTypes /\ TraceInv /\ [EglNext]_eglVars
    => TraceTypes' /\ TraceInv'
<1> SUFFICES ASSUME ChainInv, TraceTypes, TraceInv, [EglNext]_eglVars
             PROVE  TraceTypes' /\ TraceInv'
  OBVIOUS
<1>1. CASE BindShell \/ AttachSurface \/ SetupFails
  <2>1. /\ UNCHANGED <<running, frame_cb, latency_trace, input_serial, cbTrace>>
        /\ UNCHANGED <<shownVars, renderTrace>>
        /\ phase' = phase \/ phase' = "attached" \/ phase' = "exited"
    BY <1>1 DEF BindShell, AttachSurface, SetupFails, chainVars, serialVars
  <2>2. Done => Done'
    BY <2>1 DEF Done
  <2> QED  BY <2>1, <2>2, TraceQuiet DEF Rendered
<1>2. CASE Start
  <2>1. /\ frame_cb = FALSE /\ callbacks = 0 /\ render(frame_cb, callbacks)
        /\ UNCHANGED <<latency_trace, input_serial, cbTrace>>
    BY <1>2 DEF Start, ChainInv, EglOneChain
  <2>2. \/ Draws
        \/ /\ frame_cb' = FALSE /\ running' = running
           /\ UNCHANGED <<shownVars, renderTrace>>
    BY <2>1, RenderChain
  <2>3. Done => Done'
    BY <2>2 DEF Done, Draws
  <2> QED  BY <2>1, <2>2, <2>3, TraceQuiet DEF Rendered
<1>3. CASE frame_done
  <2>1. /\ phase = "loop" /\ render_visible' = TRUE /\ frame_cb = TRUE
        /\ callbacks - 1 = 0 /\ render(FALSE, callbacks - 1)
        /\ TraceCallback
        /\ latency_trace' = latency_trace /\ input_serial' = input_serial
    <3>1. callbacks = 1 /\ frame_cb = TRUE
      BY <1>3 DEF frame_done, ChainInv, EglOneChain
    <3>2. callbacks - 1 = 0
      BY <3>1
    <3>3. phase = "loop" /\ render_visible' = TRUE
      BY <1>3 DEF frame_done, shellVars, visibility, ChainInv
    <3>4. /\ render(FALSE, callbacks - 1) /\ TraceCallback
          /\ latency_trace' = latency_trace /\ input_serial' = input_serial
      BY <1>3 DEF frame_done
    <3> QED  BY <3>1, <3>2, <3>3, <3>4
  <2>2. /\ callback_count' \in 0 .. MaxSamples /\ seen_callback' \in BOOLEAN
        /\ CallbackSampled
    <3>1. callback_count \in 0 .. MaxSamples /\ seen_callback \in BOOLEAN
          /\ MaxSamples \in Nat
      BY EglAssumption DEF TraceTypes
    <3>2. CASE latency_trace = TRUE
      BY <2>1, <3>1, <3>2 DEF TraceCallback, CallbackSampled
    <3>3. CASE latency_trace = FALSE
      BY <2>1, <3>1, <3>3 DEF TraceCallback, cbTrace, CallbackSampled
    <3> QED  BY <3>2, <3>3 DEF TraceTypes
  <2>3. CASE running = TRUE
    <3>1. Draws
      BY <2>1, <2>3, RenderChain
    <3>2. ~Done
      BY <2>3 DEF Done
    <3> QED  BY <2>1, <2>2, <3>1, <3>2, TraceKept DEF Rendered
  <2>4. CASE running = FALSE
    <3>1. /\ frame_cb' = FALSE /\ running' = FALSE
          /\ UNCHANGED <<shownVars, renderTrace>>
      BY <2>1, <2>4, RenderChain
    <3>2. ~Done /\ Done'
      BY <2>1, <2>4, <3>1 DEF Done
    <3> QED  BY <2>1, <2>2, <2>4, <3>1, <3>2, TraceKept DEF Rendered
  <2> QED  BY <2>3, <2>4 DEF ChainInv
<1>4. CASE VisibilityReport
  <2>1. /\ phase' = phase
        /\ UNCHANGED <<latency_trace, input_serial, cbTrace>>
    BY <1>4 DEF VisibilityReport
  <2>2. \/ Draws
        \/ /\ running' = running /\ frame_cb' \in {frame_cb, FALSE}
           /\ UNCHANGED <<shownVars, renderTrace>>
    <3>1. CASE UNCHANGED <<running, chainVars, shownVars, renderTrace>>
      BY <3>1 DEF chainVars
    <3>2. CASE Chain(FALSE, callbacks - 1)
               /\ UNCHANGED <<running, frames, shownVars, renderTrace>>
      BY <3>2 DEF Chain
    <3>3. CASE render_visible' /\ ~frame_cb /\ phase = "loop"
               /\ render(frame_cb, callbacks)
      <4>1. frame_cb = FALSE /\ callbacks = 0
        BY <3>3 DEF ChainInv, EglOneChain
      <4>2. \/ Draws
            \/ /\ frame_cb' = FALSE /\ running' = running
               /\ UNCHANGED <<shownVars, renderTrace>>
        BY <3>3, <4>1, RenderChain
      <4> QED  BY <4>2
    <3> QED
      BY <1>4, <3>1, <3>2, <3>3 DEF VisibilityReport, webos_visibility_changed
  <2>3. Done => Done'
    BY <2>1, <2>2 DEF Done, Draws
  <2> QED  BY <2>1, <2>2, <2>3, TraceQuiet DEF Rendered
<1>5. CASE Input
  <2>1. /\ input_serial' = input_serial + 1 /\ unshown' = TRUE /\ batches' = batches
        /\ input_serial < MaxInputs
        /\ UNCHANGED <<latency_trace, renderTrace, cbTrace, frame_cb, phase>>
        /\ running' \in {running, FALSE}
    BY <1>5 DEF Input, chainVars
  <2>2. /\ input_serial \in Nat /\ rendered_input_serial \in Nat
        /\ rendered_input_serial <= input_serial
    BY EglAssumption DEF TraceTypes
  <2>3. /\ input_serial' \in 0 .. MaxInputs
        /\ rendered_input_serial' \in 0 .. input_serial'
        /\ input_serial' # rendered_input_serial' /\ input_serial' # 0
    BY <2>1, <2>2, EglAssumption DEF renderTrace
  <2>4. TraceTypes'
    BY <2>1, <2>3 DEF TraceTypes, renderTrace, cbTrace
  <2>5. Done => Done'
    BY <2>1 DEF Done
  <2>6. /\ UNCHANGED <<batches, rendered_input_serial, input_submit_samples,
                       input_swap_samples, input_callback_samples>>
        /\ latency_trace' = latency_trace
    BY <2>1 DEF renderTrace, cbTrace
  <2>7. SerialsDiffer'
    BY <2>1, <2>3 DEF SerialsDiffer
  <2>8. AllShown(input_callback_samples, batches, rendered_input_serial)
          => MostShown(input_callback_samples, batches)
    BY AllIsMost
  <2> QED  BY <2>5, <2>4, <2>6, <2>7, <2>8, Zenon DEF TraceInv, Paired
<1>6. CASE webos_close_requested \/ Exit
  <2>1. /\ UNCHANGED <<latency_trace, input_serial, cbTrace>>
        /\ UNCHANGED <<shownVars, renderTrace>>
        /\ running' \in {running, FALSE}
        /\ phase' = "exited" \/ (phase' = phase /\ frame_cb' = frame_cb)
    BY <1>6 DEF webos_close_requested, Exit, chainVars, serialVars
  <2>2. Done => Done'
    BY <2>1 DEF Done
  <2> QED  BY <2>1, <2>2, TraceQuiet DEF Rendered
<1>7. CASE UNCHANGED eglVars
  <2>1. /\ UNCHANGED <<latency_trace, input_serial, cbTrace, phase, running, frame_cb>>
        /\ UNCHANGED <<shownVars, renderTrace>>
    BY <1>7 DEF eglVars, chainVars, serialVars
  <2>2. Done => Done'
    BY <2>1 DEF Done
  <2> QED  BY <2>1, <2>2, TraceQuiet DEF Rendered
<1> QED  BY <1>1, <1>2, <1>3, <1>4, <1>5, <1>6, <1>7 DEF EglNext

LEMMA TraceInvariance == EglSpec => [](TraceTypes /\ TraceInv)
<1>1. EglInit => TraceTypes /\ TraceInv
  <2> SUFFICES ASSUME EglInit PROVE TraceTypes /\ TraceInv
    OBVIOUS
  <2>1. TraceTypes
    <3>1. 0 \in 0 .. MaxInputs /\ 0 \in 0 .. MaxSamples /\ 0 \in 0 .. 0
      BY EglAssumption
    <3>2. latency_trace \in BOOLEAN /\ unshown \in BOOLEAN /\ seen_callback \in BOOLEAN
      BY DEF EglInit
    <3>3. <<>> \in Samples /\ <<>> \in Seq(1 .. MaxInputs)
      BY EglAssumption DEF Samples
    <3> QED  BY <3>1, <3>2, <3>3 DEF EglInit, TraceTypes
  <2>2. /\ batches = <<>> /\ input_submit_samples = <<>> /\ input_swap_samples = <<>>
        /\ input_callback_samples = <<>> /\ Len(<<>>) = 0 /\ MaxSamples \in Nat
    BY EglAssumption DEF EglInit
  <2>3. SerialsDiffer
    BY DEF EglInit, SerialsDiffer
  <2>4. OfFirst(<<>>, <<>>)
    BY <2>2 DEF OfFirst
  <2>5. /\ Ordered(<<>>) /\ MostShown(<<>>, <<>>)
        /\ AllShown(<<>>, <<>>, rendered_input_serial)
    BY DEF Ordered, MostShown, AllShown
  <2>6. TraceInv
    BY <2>2, <2>3, <2>4, <2>5 DEF TraceInv, Paired
  <2> QED  BY <2>1, <2>6
<1>2. ChainInv /\ TraceTypes /\ TraceInv /\ [EglNext]_eglVars
        => (TraceTypes /\ TraceInv)'
  BY TraceStep
<1> QED  BY <1>1, <1>2, ChainInvariance, PTL DEF EglSpec

\* Types; the sample arrays are never overrun.
THEOREM EglTypeCorrect == EglSpec => []EglTypeOK
<1>1. ChainInv /\ TraceTypes => EglTypeOK
  <2> SUFFICES ASSUME ChainInv, TraceTypes PROVE EglTypeOK
    OBVIOUS
  <2>1. callbacks \in 0 .. 1
    BY DEF ChainInv, EglOneChain
  <2>2. /\ phase \in {"setup", "attached", "loop", "exited"}
        /\ running \in BOOLEAN /\ frame_cb \in BOOLEAN
    BY DEF ChainInv
  <2>3. frames \in 0 .. 1
    BY DEF ChainInv
  <2>4. \A samples \in {input_submit_samples, input_swap_samples, input_callback_samples} :
          samples \in Seq(1 .. MaxInputs) /\ Len(samples) <= MaxSamples
    BY DEF TraceTypes, Samples
  <2> QED  BY <2>1, <2>2, <2>3, <2>4 DEF TraceTypes, EglTypeOK
<1> QED  BY <1>1, ChainInvariance, TraceInvariance, PTL

\* For every number of inputs and every array size the submit and the swap
\* samples go one for one with the first frames to show new input, and the
\* callback samples with some of them, each at most once, but perhaps the last.
THEOREM SamplesCorrect == EglSpec => []SamplesPaired
<1>1. TraceTypes /\ TraceInv => SamplesPaired
  <2> SUFFICES ASSUME TraceTypes, TraceInv, latency_trace PROVE SamplesPaired
    BY DEF SamplesPaired
  <2>1. SerialsDiffer /\ Paired /\ Ordered(input_callback_samples)
    BY DEF TraceInv
  <2>2. ASSUME NEW i \in 1 .. Len(input_callback_samples)
        PROVE  \/ Among(input_callback_samples[i], batches)
               \/ ~running /\ i = Len(input_callback_samples)
    <3>1. CASE Done
      BY <3>1 DEF TraceInv, MostShown, Done
    <3>2. CASE ~Done
      BY <3>2 DEF TraceInv, AllShown
    <3> QED  BY <3>1, <3>2
  <2> QED  BY <2>1, <2>2 DEF SamplesPaired, SerialsDiffer, Paired, Ordered
<1> QED  BY <1>1, TraceInvariance, PTL

-----------------------------------------------------------------------------
(* The configuration                                                       *)

\* The sizes drivers list: eight to sixteen bits a colour where more than 565
\* is asked for, and no shallow depth or stencil buffer.
RealSizes(c) ==
  /\ c.red <= 16 /\ c.green <= 16 /\ c.blue <= 16
  /\ c.depth = 0 \/ c.depth \in 16 .. 32
  /\ c.stencil = 0 \/ c.stencil \in 8 .. 16

\* With such sizes the weights of the score never outweigh one another.
LEMMA ScoreOrders ==
  ASSUME color_mode = "auto",
         NEW c \in ConfigType, NEW d \in ConfigType,
         RealSizes(c), RealSizes(d), Eligible(c), Eligible(d),
         Score(d) <= Score(c)
  PROVE  /\ d.alpha = 0 => c.alpha = 0
         /\ d.alpha = 0 /\ Plain(d) => Plain(c)
         /\ d.alpha = 0 /\ Plain(d) =>
              c.red + c.green + c.blue <= d.red + d.green + d.blue
<1> DEFINE Excess(e) == e.red + e.green + e.blue - 24
           Cost(e) == 10 * e.depth + 10 * e.stencil
<1>1. ASSUME NEW e \in {c, d}
      PROVE  /\ e.red \in 8 .. 16 /\ e.green \in 8 .. 16 /\ e.blue \in 8 .. 16
             /\ e.alpha \in Nat
             /\ e.depth = 0 \/ e.depth \in 16 .. 32
             /\ e.stencil = 0 \/ e.stencil \in 8 .. 16
  BY <1>1 DEF ConfigType, RealSizes, Eligible, Bits
<1>2. ASSUME NEW e \in {c, d}
      PROVE  /\ Excess(e) \in 0 .. 24
             /\ Cost(e) \in 0 .. 480
             /\ Plain(e) => Cost(e) = 0
             /\ ~Plain(e) => Cost(e) >= 80
  BY <1>1 DEF Plain
<1>3. ASSUME NEW e \in {c, d}
      PROVE  /\ e.alpha = 0 => Score(e) = 10000 - Cost(e) - Excess(e)
             /\ e.alpha # 0 => Score(e) <= 0 - Cost(e) - Excess(e)
  <2>1. /\ e.red \in Int /\ e.green \in Int /\ e.blue \in Int /\ e.depth \in Int
        /\ e.stencil \in Int /\ e.alpha \in Nat
    BY <1>1
  <2>2. CASE e.alpha = 0
    <3>1. Score(e) = 10000 - (100 * e.alpha + 10 * e.depth + 10 * e.stencil)
                     - (e.red + e.green + e.blue - 24)
      BY <2>2 DEF Score
    <3> QED  BY <2>1, <2>2, <3>1
  <2>3. CASE e.alpha # 0
    <3>1. Score(e) = 0 - (100 * e.alpha + 10 * e.depth + 10 * e.stencil)
                     - (e.red + e.green + e.blue - 24)
      BY <2>3 DEF Score
    <3> QED  BY <2>1, <2>3, <3>1
  <2> QED  BY <2>2, <2>3
<1>4. /\ Excess(c) \in Nat /\ Excess(d) \in 0 .. 24
      /\ Cost(c) \in Nat /\ Cost(d) \in 0 .. 480
      /\ ~Plain(c) => Cost(c) >= 80
      /\ Plain(d) => Cost(d) = 0
      /\ Score(c) \in Int /\ Score(d) \in Int
  <2>1. Excess(c) \in 0 .. 24 /\ Cost(c) \in 0 .. 480
    BY <1>2
  <2>2. /\ Excess(d) \in 0 .. 24 /\ Cost(d) \in 0 .. 480
        /\ ~Plain(c) => Cost(c) >= 80
        /\ Plain(d) => Cost(d) = 0
    BY <1>2
  <2>3. Score(c) \in Int /\ Score(d) \in Int
    BY DEF Score, ConfigType
  <2> QED  BY <2>1, <2>2, <2>3
<1>5. /\ d.alpha = 0 => Score(d) = 10000 - Cost(d) - Excess(d)
      /\ c.alpha = 0 => Score(c) = 10000 - Cost(c) - Excess(c)
      /\ c.alpha # 0 => Score(c) <= 0 - Cost(c) - Excess(c)
  BY <1>3
<1>6. /\ c.red + c.green + c.blue = Excess(c) + 24
      /\ d.red + d.green + d.blue = Excess(d) + 24
  BY <1>1
<1> HIDE DEF Cost, Excess
<1>7. ASSUME d.alpha = 0 PROVE c.alpha = 0
  BY <1>4, <1>5, <1>7, SMTT(30)
<1>8. ASSUME d.alpha = 0, Plain(d)
      PROVE  Plain(c) /\ c.red + c.green + c.blue <= d.red + d.green + d.blue
  <2>1. Cost(c) + Excess(c) <= Excess(d)
    BY <1>4, <1>5, <1>7, <1>8
  <2>2. Plain(c) /\ Excess(c) <= Excess(d)
    BY <1>4, <2>1
  <2>3. Excess(c) + 24 <= Excess(d) + 24
    BY <1>4, <2>2
  <2> QED  BY <1>6, <2>2, <2>3
<1> QED  BY <1>7, <1>8

\* For every list of configurations of real sizes, of any length and order,
\* the choice is suitable and follows the documented preferences.
THEOREM ChoicePreferred ==
  ASSUME \A o \in Offers : \A i \in DOMAIN o : RealSizes(o[i])
  PROVE  EglSpec => ConfigPreference
<1> DEFINE Offered == phase \in {"setup", "attached"} => offer \in Offers
<1> DEFINE Good(c) ==
       /\ c.window /\ c.gles2 /\ ~c.slow
       /\ color_mode = "auto" =>
          LET fit    == {offer[i] : i \in {k \in DOMAIN offer : Eligible(offer[k])}}
              opaque == {d \in fit : d.alpha = 0}
              plain  == {d \in opaque : Plain(d)}
          IN /\ c \in fit
             /\ opaque # {} => c \in opaque
             /\ plain # {} => c \in plain
             /\ \A d \in plain :
                  c.red + c.green + c.blue <= d.red + d.green + d.blue
<1>1. EglInit => Offered
  BY DEF EglInit
<1>2. Offered /\ [EglNext]_eglVars => Offered'
  BY DEF EglNext, eglVars, BindShell, AttachSurface, SetupFails, Start,
     frame_done, VisibilityReport, Input, webos_close_requested, Exit, configVars
<1>3. Offered /\ [EglNext]_eglVars
        => [\A c \in egl_config' \ egl_config : Good(c)]_eglVars
  <2> SUFFICES ASSUME Offered, EglNext, NEW c \in egl_config' \ egl_config
               PROVE  Good(c)
    OBVIOUS
  <2>1. Start
    BY DEF EglNext, BindShell, AttachSurface, SetupFails, frame_done,
       VisibilityReport, Input, webos_close_requested, Exit, configVars
  <2>2. offer \in Offers /\ c \in choose_config
    BY <2>1 DEF Start
  <2>3. offer \in Seq(ConfigType) /\ \A i \in DOMAIN offer : RealSizes(offer[i])
    BY <2>2, EglAssumption
  <2>4. \A i \in DOMAIN offer : offer[i] \in ConfigType
    BY <2>3
  <2>5. PICK i \in DOMAIN offer :
          /\ c = offer[i] /\ Eligible(c)
          /\ \A j \in DOMAIN offer : Eligible(offer[j]) =>
               \/ Score(offer[j]) < Score(c)
               \/ Score(offer[j]) = Score(c) /\ i <= j
    BY <2>2 DEF choose_config
  <2> DEFINE fit == {offer[k] : k \in {k \in DOMAIN offer : Eligible(offer[k])}}
  <2>6. c.window /\ c.gles2 /\ ~c.slow
    BY <2>5 DEF Eligible
  <2>7. c \in fit /\ \A d \in fit : Eligible(d) /\ d \in ConfigType /\ RealSizes(d)
    BY <2>3, <2>4, <2>5
  <2>8. ASSUME color_mode = "auto", NEW d \in fit
        PROVE  /\ d.alpha = 0 => c.alpha = 0
               /\ d.alpha = 0 /\ Plain(d) => Plain(c)
               /\ d.alpha = 0 /\ Plain(d) =>
                    c.red + c.green + c.blue <= d.red + d.green + d.blue
    <3>1. Score(c) \in Int /\ Score(d) \in Int
      BY <2>7 DEF Score, ConfigType
    <3>2. Score(d) <= Score(c)
      BY <2>5, <2>8, <3>1
    <3> QED  BY <2>7, <2>8, <3>2, ScoreOrders
  <2> QED  BY <2>6, <2>7, <2>8
<1> QED  BY <1>1, <1>2, <1>3, PTL DEF EglSpec, ConfigPreference

-----------------------------------------------------------------------------
(* The shell helper                                                        *)

LEMMA EglShell == [EglNext]_eglVars => ShellStep
BY Zenon DEF ShellStep, eglVars, EglNext, BindShell, AttachSurface,
   SetupFails, Start, frame_done, VisibilityReport, Input,
   webos_close_requested, Exit

\* The protocol objects are made and given up in order.
THEOREM EglShellTyped == EglSpec => []ShellTypeOK
<1>1. EglInit => ShellInv
  BY ShellStarts DEF EglInit
<1>2. ShellInv /\ [EglNext]_eglVars => ShellInv'
  BY EglShell, ShellKeeps
<1> QED  BY <1>1, <1>2, ShellInvImplies, PTL DEF EglSpec

\* The renderer's flag is the truth about the last two reports, for every
\* list of numbers an exposed event may carry.
THEOREM EglFlagTrue == EglSpec => []VisibilityTracks
<1>1. EglInit => ShellInv
  BY ShellStarts DEF EglInit
<1>2. ShellInv /\ [EglNext]_eglVars => ShellInv'
  BY EglShell, ShellKeeps
<1> QED  BY <1>1, <1>2, ShellInvImplies, PTL DEF EglSpec

=============================================================================
