---------------------------- MODULE MCWaylandRect ---------------------------
(* Exposure lists for WaylandRect.                                         *)
EXTENDS WaylandRect

\* One that shows something and one that shows nothing.
MCExposures == {<<0, 0, 1, 1>>, <<-1>>}

\* Lists that end in nothing, a terminator or a fragment; rectangles with and
\* without area, alone or after one that shows nothing; -1 as an x, which ends
\* the list, and as a y, which does not.
MCExposureLists ==
  {<<>>, <<-1>>, <<0, 0, 1>>,
   <<0, 0, 1, 1>>, <<0, 0, 0, 1>>, <<0, 0, 1, -1>>, <<0, -1, 1, 1>>,
   <<0, 0, 1, 1, 0>>, <<0, 0, 1, 0, 0, 0, 1, 1, -1>>, <<-1, 0, 1, 1>>,
   <<0, 0, 0, 1, -1, 0, 1, 1>>}

=============================================================================
