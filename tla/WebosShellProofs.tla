-------------------------- MODULE WebosShellProofs --------------------------
(***************************************************************************)
(* Facts about WebosShell that hold in every renderer, for every list of   *)
(* numbers an exposed event may carry: the loop of handle_exposed finds    *)
(* what SomethingShown says without a loop, and every handler keeps the    *)
(* renderer's flag true to the last two reports.                           *)
(*                                                                         *)
(* The loop is a recursive function.  That some function satisfies its     *)
(* equation is shown by giving one (ShownFrom), and that there is no other *)
(* by looking at the last place where two of them would differ.            *)
(***************************************************************************)
EXTENDS WebosShell, WellFoundedInduction, TLAPS

\* A nonempty set of numbers has a least one.
LEMMA LeastNumber ==
  ASSUME NEW T \in SUBSET Nat, T # {}
  PROVE  \E x \in T : \A y \in T : x <= y
<1> DEFINE R == OpToRel(<, Nat)
<1>1. IsWellFoundedOn(R, Nat)
  BY NatLessThanWellFounded
<1>2. PICK x \in T : \A y \in T : ~(<<y, x>> \in R)
  BY <1>1, WFMin
<1>3. \A y \in T : ~(y < x)
  BY <1>2 DEF OpToRel
<1> QED
  BY <1>3

-----------------------------------------------------------------------------
(* The loop                                                                *)

\* There is a whole rectangle at i that is not the terminator.
Whole(values, i) ==
  i < Len(values) /\ values[i + 1] # -1 /\ Len(values) - i >= 4

\* The rectangle at i has an area.
Area(values, i) == values[i + 3] > 0 /\ values[i + 4] > 0

Indices(values) == 0 .. Len(values) + 4

\* The equation of the loop, as exposed_scan has it.
IsScan(values, f) ==
  f = [i \in 0 .. Len(values) + 4 |->
         /\ i < Len(values)
         /\ values[i + 1] # -1
         /\ Len(values) - i >= 4
         /\ (values[i + 3] > 0 /\ values[i + 4] > 0) \/ f[i + 4]]

\* From i on, some rectangle before the terminator has an area.
ShownFrom(values, i) ==
  \E r \in Nat :
    /\ i + 4 * r + 4 <= Len(values)
    /\ \A q \in 0 .. r : values[i + 4 * q + 1] # -1
    /\ values[i + 4 * r + 3] > 0 /\ values[i + 4 * r + 4] > 0

LEMMA ShownUnfolds ==
  ASSUME NEW values \in Seq(Int), NEW i \in Nat
  PROVE  ShownFrom(values, i) <=>
           Whole(values, i) /\ (Area(values, i) \/ ShownFrom(values, i + 4))
<1> DEFINE n == Len(values)
<1>0. n \in Nat
  OBVIOUS
<1>1. ASSUME ShownFrom(values, i)
      PROVE  Whole(values, i) /\ (Area(values, i) \/ ShownFrom(values, i + 4))
  <2>1. PICK r \in Nat :
          /\ i + 4 * r + 4 <= n
          /\ \A q \in 0 .. r : values[i + 4 * q + 1] # -1
          /\ values[i + 4 * r + 3] > 0 /\ values[i + 4 * r + 4] > 0
    BY <1>1 DEF ShownFrom
  <2>2. 0 \in 0 .. r /\ i + 4 * 0 + 1 = i + 1
    OBVIOUS
  <2>3. values[i + 1] # -1
    BY <2>1, <2>2
  <2>4. i < n /\ n - i >= 4
    BY <1>0, <2>1
  <2>5. CASE r = 0
    <3>1. i + 4 * r + 3 = i + 3 /\ i + 4 * r + 4 = i + 4
      BY <2>5
    <3> QED  BY <2>1, <2>3, <2>4, <3>1 DEF Whole, Area
  <2>6. CASE r # 0
    <3>1. /\ r - 1 \in Nat
          /\ (i + 4) + 4 * (r - 1) + 4 = i + 4 * r + 4
          /\ (i + 4) + 4 * (r - 1) + 3 = i + 4 * r + 3
      BY <2>6
    <3>2. ASSUME NEW q \in 0 .. r - 1
          PROVE  values[(i + 4) + 4 * q + 1] # -1
      <4>1. q + 1 \in 0 .. r /\ i + 4 * (q + 1) + 1 = (i + 4) + 4 * q + 1
        BY <3>1
      <4> QED  BY <2>1, <4>1
    <3>3. ShownFrom(values, i + 4)
      BY <2>1, <3>1, <3>2 DEF ShownFrom
    <3> QED  BY <2>3, <2>4, <3>3 DEF Whole
  <2> QED  BY <2>5, <2>6
<1>2. ASSUME Whole(values, i), Area(values, i)
      PROVE  ShownFrom(values, i)
  <2>1. i + 4 * 0 + 4 <= n /\ 0 \in Nat
    BY <1>0, <1>2 DEF Whole
  <2>2. /\ i + 4 * 0 + 1 = i + 1 /\ i + 4 * 0 + 3 = i + 3
        /\ i + 4 * 0 + 4 = i + 4
    OBVIOUS
  <2>3. \A q \in 0 .. 0 : values[i + 4 * q + 1] # -1
    <3>1. \A q \in 0 .. 0 : i + 4 * q + 1 = i + 1
      OBVIOUS
    <3> QED  BY <1>2, <3>1 DEF Whole
  <2>4. values[i + 4 * 0 + 3] > 0 /\ values[i + 4 * 0 + 4] > 0
    BY <1>2, <2>2 DEF Area
  <2> QED  BY <2>1, <2>3, <2>4 DEF ShownFrom
<1>3. ASSUME Whole(values, i), ShownFrom(values, i + 4)
      PROVE  ShownFrom(values, i)
  <2>1. PICK r \in Nat :
          /\ (i + 4) + 4 * r + 4 <= n
          /\ \A q \in 0 .. r : values[(i + 4) + 4 * q + 1] # -1
          /\ values[(i + 4) + 4 * r + 3] > 0 /\ values[(i + 4) + 4 * r + 4] > 0
    BY <1>3 DEF ShownFrom
  <2>2. /\ r + 1 \in Nat
        /\ i + 4 * (r + 1) + 4 = (i + 4) + 4 * r + 4
        /\ i + 4 * (r + 1) + 3 = (i + 4) + 4 * r + 3
    OBVIOUS
  <2>3. ASSUME NEW q \in 0 .. r + 1
        PROVE  values[i + 4 * q + 1] # -1
    <3>1. CASE q = 0
      <4>1. i + 4 * q + 1 = i + 1
        BY <3>1
      <4> QED  BY <1>3, <4>1 DEF Whole
    <3>2. CASE q # 0
      <4>1. q - 1 \in 0 .. r /\ (i + 4) + 4 * (q - 1) + 1 = i + 4 * q + 1
        BY <3>2
      <4> QED  BY <2>1, <4>1
    <3> QED  BY <3>1, <3>2
  <2> QED  BY <2>1, <2>2, <2>3 DEF ShownFrom
<1> QED  BY <1>1, <1>2, <1>3

\* The equation has a solution, and only one.
LEMMA ScanSolved ==
  ASSUME NEW values \in Seq(Int)
  PROVE  IsScan(values, [i \in Indices(values) |-> ShownFrom(values, i)])
<1> DEFINE g == [i \in Indices(values) |-> ShownFrom(values, i)]
<1>0. Len(values) \in Nat
  OBVIOUS
<1>1. ASSUME NEW i \in Indices(values)
      PROVE  ShownFrom(values, i) <=> Whole(values, i) /\ (Area(values, i) \/ g[i + 4])
  <2>0. i \in Nat
    BY <1>0 DEF Indices
  <2>1. CASE i < Len(values)
    <3>1. i + 4 \in Indices(values)
      BY <1>0, <2>0, <2>1 DEF Indices
    <3>2. g[i + 4] = ShownFrom(values, i + 4)
      BY <3>1
    <3> QED  BY <2>0, <3>2, ShownUnfolds
  <2>2. CASE ~(i < Len(values))
    <3>1. ~Whole(values, i)
      BY <2>2 DEF Whole
    <3>2. ~ShownFrom(values, i)
      BY <2>0, <3>1, ShownUnfolds
    <3> QED  BY <3>1, <3>2
  <2> QED  BY <2>1, <2>2
<1>2. \A i \in Indices(values) :
        ShownFrom(values, i) = (Whole(values, i) /\ (Area(values, i) \/ g[i + 4]))
  <2>1. \A i : ShownFrom(values, i) \in BOOLEAN
    BY DEF ShownFrom
  <2> QED  BY <1>1, <2>1 DEF Whole
<1>3. \A i \in Indices(values) :
        ShownFrom(values, i) =
          (/\ i < Len(values)
           /\ values[i + 1] # -1
           /\ Len(values) - i >= 4
           /\ (values[i + 3] > 0 /\ values[i + 4] > 0) \/ g[i + 4])
  BY <1>2, Zenon DEF Whole, Area
<1>4. g = [i \in Indices(values) |->
             /\ i < Len(values)
             /\ values[i + 1] # -1
             /\ Len(values) - i >= 4
             /\ (values[i + 3] > 0 /\ values[i + 4] > 0) \/ g[i + 4]]
  BY <1>3, Zenon
<1> QED  BY <1>4, Zenon DEF IsScan, Indices

LEMMA ScanUnique ==
  ASSUME NEW values \in Seq(Int), NEW f, IsScan(values, f),
         NEW i \in Indices(values)
  PROVE  f[i] = ShownFrom(values, i)
<1> DEFINE last == Len(values) + 4
           Differ == {k \in Nat : k <= last /\ f[last - k] # ShownFrom(values, last - k)}
<1>0. Len(values) \in Nat
  OBVIOUS
<1>1. \A j \in Indices(values) :
        f[j] = (Whole(values, j) /\ (Area(values, j) \/ f[j + 4]))
  <2>1. ASSUME NEW j \in Indices(values)
        PROVE  f[j] = (/\ j < Len(values)
                       /\ values[j + 1] # -1
                       /\ Len(values) - j >= 4
                       /\ (values[j + 3] > 0 /\ values[j + 4] > 0) \/ f[j + 4])
    BY Zenon DEF IsScan, Indices
  <2> QED  BY <2>1, Zenon DEF Whole, Area
<1>2. SUFFICES ASSUME f[i] # ShownFrom(values, i) PROVE FALSE
  OBVIOUS
<1>3. Differ # {}
  <2>1. last - i \in Nat /\ last - i <= last /\ last - (last - i) = i
    BY <1>0 DEF Indices
  <2> QED  BY <1>2, <2>1
<1>4. PICK k \in Differ : \A l \in Differ : k <= l
  BY <1>3, LeastNumber
<1> DEFINE j == last - k
<1>5. k \in Nat /\ k <= last /\ j \in Indices(values) /\ j \in Nat
      /\ f[j] # ShownFrom(values, j)
  BY <1>0, <1>4 DEF Indices
<1> HIDE DEF Differ
<1>6. CASE ~Whole(values, j)
  <2>1. f[j] = FALSE
    BY <1>1, <1>5, <1>6, Zenon
  <2>2. ShownFrom(values, j) = FALSE
    <3>1. ~ShownFrom(values, j)
      BY <1>5, <1>6, ShownUnfolds
    <3> QED  BY <3>1 DEF ShownFrom
  <2> QED  BY <1>5, <2>1, <2>2
<1>7. CASE Whole(values, j)
  <2>1. /\ k - 4 \in Nat /\ k - 4 <= last /\ ~(k <= k - 4)
        /\ last - (k - 4) = j + 4 /\ j + 4 \in Indices(values)
    BY <1>0, <1>5, <1>7 DEF Whole, Indices
  <2>2. f[j + 4] = ShownFrom(values, j + 4)
    BY <1>4, <2>1 DEF Differ
  <2>3. f[j] = (Whole(values, j) /\ (Area(values, j) \/ ShownFrom(values, j + 4)))
    BY <1>1, <1>5, <2>2, Zenon
  <2>4. ShownFrom(values, j) <=>
          Whole(values, j) /\ (Area(values, j) \/ ShownFrom(values, j + 4))
    BY <1>5, ShownUnfolds
  <2>5. ShownFrom(values, j) =
          (Whole(values, j) /\ (Area(values, j) \/ ShownFrom(values, j + 4)))
    <3>1. ShownFrom(values, j) \in BOOLEAN
      BY DEF ShownFrom
    <3> QED  BY <2>4, <3>1
  <2> QED  BY <1>5, <2>3, <2>5, Zenon
<1> QED  BY <1>6, <1>7

\* The sum of it: for every list the loop says whether something is shown.
LEMMA ScanIsShown ==
  ASSUME NEW values \in Seq(Int)
  PROVE  exposed_scan(values) = SomethingShown(values)
<1> DEFINE F == CHOOSE f : IsScan(values, f)
<1>0. Len(values) \in Nat
  OBVIOUS
<1>1. IsScan(values, F)
  BY ScanSolved, Zenon
<1>2. exposed_scan(values) = F[0]
  BY Zenon DEF exposed_scan, IsScan
<1>3. F[0] = ShownFrom(values, 0)
  <2>1. 0 \in Indices(values)
    BY <1>0 DEF Indices
  <2> QED  BY <1>1, <2>1, ScanUnique
<1>4. ShownFrom(values, 0) <=> SomethingShown(values)
  <2>1. ASSUME NEW r \in Nat
        PROVE  /\ 0 + 4 * r + 4 <= Len(values) <=> r \in 0 .. Len(values) \div 4 - 1
               /\ 0 + 4 * r + 3 = 4 * r + 3 /\ 0 + 4 * r + 4 = 4 * r + 4
               /\ \A q \in 0 .. r : 0 + 4 * q + 1 = 4 * q + 1
    BY <1>0
  <2>2. ASSUME ShownFrom(values, 0) PROVE SomethingShown(values)
    <3>1. PICK r \in Nat :
            /\ 0 + 4 * r + 4 <= Len(values)
            /\ \A q \in 0 .. r : values[0 + 4 * q + 1] # -1
            /\ values[0 + 4 * r + 3] > 0 /\ values[0 + 4 * r + 4] > 0
      BY <2>2 DEF ShownFrom
    <3>2. \A q \in 0 .. r : values[4 * q + 1] # -1
      BY <2>1, <3>1
    <3> QED  BY <2>1, <3>1, <3>2 DEF SomethingShown
  <2>3. ASSUME SomethingShown(values) PROVE ShownFrom(values, 0)
    <3>1. PICK r \in 0 .. Len(values) \div 4 - 1 :
            /\ \A q \in 0 .. r : values[4 * q + 1] # -1
            /\ values[4 * r + 3] > 0 /\ values[4 * r + 4] > 0
      BY <2>3 DEF SomethingShown
    <3>2. r \in Nat
      OBVIOUS
    <3>3. \A q \in 0 .. r : values[0 + 4 * q + 1] # -1
      BY <2>1, <3>1, <3>2
    <3> QED  BY <2>1, <3>1, <3>2, <3>3 DEF ShownFrom
  <2> QED  BY <2>2, <2>3
<1>5. ShownFrom(values, 0) = SomethingShown(values)
  <2>1. ShownFrom(values, 0) \in BOOLEAN /\ SomethingShown(values) \in BOOLEAN
    BY DEF ShownFrom, SomethingShown
  <2> QED  BY <1>4, <2>1
<1> QED  BY <1>2, <1>3, <1>5, Zenon

-----------------------------------------------------------------------------
(* The flag                                                                *)

\* Each part of the derived flag is what the last report of its kind said.
ReportInv ==
  /\ state \in ShellStates
  /\ state_visible = (state # "minimized")
  /\ exposed \subseteq Exposures
  /\ have_exposed = (exposed # {})
  /\ exposed_visible \in BOOLEAN
  /\ have_exposed => exposed_visible = (\A values \in exposed : SomethingShown(values))
  /\ effective_visible = (state_visible /\ (have_exposed => exposed_visible))
  /\ render_visible = effective_visible

\* The protocol objects.
ObjectInv ==
  /\ global \in BOOLEAN /\ surface \in BOOLEAN
  /\ surface => global /\ stage = "attached"
  /\ stage \in {"registry", "attached", "destroyed"}

ShellInv == ReportInv /\ ObjectInv

\* Every step of the helper, whichever renderer takes it.
ShellStep ==
  \/ \E version \in 0 .. 2 : ShellTryBind(version)
  \/ Attach
  \/ \E s \in ShellStates : handle_state_changed(s)
  \/ \E values \in Exposures : handle_exposed(values)
  \/ ShellDestroy
  \/ UNCHANGED shellVars

LEMMA UpdateKeeps ==
  ASSUME ReportInv, update_visibility
  PROVE  /\ effective_visible' = (state_visible' /\ (have_exposed' => exposed_visible'))
         /\ render_visible' = effective_visible'
<1>1. effective_visible' = (state_visible' /\ (have_exposed' => exposed_visible'))
  BY DEF update_visibility
<1>2. render_visible' = effective_visible'
  BY DEF update_visibility, ReportInv
<1> QED  BY <1>1, <1>2

LEMMA ShellKeeps ==
  ASSUME ShellInv, ShellStep
  PROVE  ShellInv'
<1>1. ASSUME UNCHANGED visibility PROVE ReportInv'
  <2>1. UNCHANGED <<state, state_visible, have_exposed, exposed_visible,
                    effective_visible, render_visible, exposed>>
    BY <1>1 DEF visibility
  <2>2. ReportInv
    BY DEF ShellInv
  <2> QED  BY <2>1, <2>2, Zenon DEF ReportInv
<1>2. ASSUME UNCHANGED <<global, surface, stage>> PROVE ObjectInv'
  BY <1>2 DEF ShellInv, ObjectInv
<1>3. ASSUME NEW s \in ShellStates, handle_state_changed(s) PROVE ShellInv'
  <2>1. /\ state' = s /\ state_visible' = (s # "minimized")
        /\ have_exposed' = have_exposed /\ exposed_visible' = exposed_visible
        /\ exposed' = exposed /\ update_visibility
        /\ UNCHANGED <<global, surface, stage>>
    BY <1>3 DEF handle_state_changed
  <2>2. ReportInv
    BY DEF ShellInv
  <2>3. ReportInv'
    BY <2>1, <2>2, UpdateKeeps, Zenon DEF ReportInv
  <2> QED  BY <1>2, <2>1, <2>3 DEF ShellInv
<1>4. ASSUME NEW values \in Exposures, handle_exposed(values) PROVE ShellInv'
  <2>1. /\ have_exposed' = TRUE /\ exposed_visible' = exposed_scan(values)
        /\ exposed' = {values}
        /\ state' = state /\ state_visible' = state_visible /\ update_visibility
        /\ UNCHANGED <<global, surface, stage>>
    BY <1>4 DEF handle_exposed
  <2>2. ReportInv
    BY DEF ShellInv
  <2>3. values \in Seq(Int)
    BY ExposuresAssumption
  <2>4. exposed_visible' = SomethingShown(values)
    BY <2>1, <2>3, ScanIsShown
  <2>5. /\ exposed_visible' \in BOOLEAN
        /\ exposed_visible' = (\A v \in exposed' : SomethingShown(v))
    <3>1. SomethingShown(values) \in BOOLEAN
      BY DEF SomethingShown
    <3>2. (\A v \in exposed' : SomethingShown(v)) <=> SomethingShown(values)
      BY <2>1
    <3> QED  BY <2>4, <3>1, <3>2
  <2>6. exposed' \subseteq Exposures /\ have_exposed' = (exposed' # {})
    BY <2>1
  <2>7. ReportInv'
    BY <2>1, <2>2, <2>5, <2>6, UpdateKeeps, Zenon DEF ReportInv
  <2> QED  BY <1>2, <2>1, <2>7 DEF ShellInv
<1>5. ASSUME NEW version \in 0 .. 2, ShellTryBind(version) PROVE ShellInv'
  <2>1. UNCHANGED visibility /\ UNCHANGED <<surface, stage>>
        /\ (global' = TRUE \/ global' = global)
    BY <1>5 DEF ShellTryBind
  <2>2. ObjectInv'
    BY <2>1 DEF ShellInv, ObjectInv
  <2> QED  BY <1>1, <2>1, <2>2 DEF ShellInv
<1>6. CASE Attach
  <2>1. /\ stage = "registry" /\ stage' = "attached"
        /\ global' = global /\ UNCHANGED visibility
        /\ (global /\ surface' = TRUE) \/ surface' = surface
    BY <1>6, Zenon DEF Attach
  <2>2. surface = FALSE /\ global \in BOOLEAN
    <3>1. stage # "attached"
      BY <2>1
    <3> QED  BY <3>1, Zenon DEF ShellInv, ObjectInv
  <2>3. surface' \in BOOLEAN /\ global' \in BOOLEAN /\ (surface' => global')
    <3>1. CASE surface' = surface
      <4>1. surface' = FALSE /\ global' \in BOOLEAN
        BY <2>1, <2>2, <3>1
      <4> QED  BY <4>1
    <3>2. CASE global /\ surface' = TRUE
      <4>1. global = TRUE
        BY <2>2, <3>2
      <4>2. global' = TRUE /\ surface' = TRUE
        BY <2>1, <3>2, <4>1
      <4> QED  BY <4>2
    <3> QED  BY <2>1, <3>1, <3>2
  <2>4. ObjectInv'
    BY <2>1, <2>3, Zenon DEF ObjectInv
  <2> QED  BY <1>1, <2>1, <2>4 DEF ShellInv
<1>7. CASE ShellDestroy
  <2>1. UNCHANGED visibility /\ ObjectInv'
    BY <1>7 DEF ShellDestroy, ShellInv, ObjectInv
  <2> QED  BY <1>1, <2>1 DEF ShellInv
<1>8. CASE UNCHANGED shellVars
  <2>1. UNCHANGED visibility /\ UNCHANGED <<global, surface, stage>>
    BY <1>8 DEF shellVars
  <2> QED  BY <1>1, <1>2, <2>1 DEF ShellInv
<1> QED
  BY <1>3, <1>4, <1>5, <1>6, <1>7, <1>8 DEF ShellStep

LEMMA ShellStarts == ShellInit => ShellInv
BY DEF ShellInit, ShellInv, ReportInv, ObjectInv, ShellStates

\* What the invariant says of the properties that the runs check.
LEMMA ShellInvImplies == ShellInv => ShellTypeOK /\ VisibilityTracks
<1> SUFFICES ASSUME ShellInv PROVE ShellTypeOK /\ VisibilityTracks
  OBVIOUS
<1>1. ShellTypeOK
  BY DEF ShellInv, ReportInv, ObjectInv, ShellTypeOK
<1>2. VisibilityTracks
  <2>1. CASE exposed = {}
    <3>1. \A values \in exposed : SomethingShown(values)
      BY <2>1
    <3>2. have_exposed = FALSE
      BY <2>1 DEF ShellInv, ReportInv
    <3> QED  BY <3>1, <3>2, Zenon DEF ShellInv, ReportInv, VisibilityTracks
  <2>2. CASE exposed # {}
    <3>1. have_exposed = TRUE
      BY <2>2 DEF ShellInv, ReportInv
    <3> QED  BY <3>1, Zenon DEF ShellInv, ReportInv, VisibilityTracks
  <2> QED  BY <2>1, <2>2
<1> QED  BY <1>1, <1>2

=============================================================================
