----------------------------- MODULE MCWaylandEgl ---------------------------
(* Exposure lists and driver offers for WaylandEgl.                        *)
EXTENDS WaylandEgl

\* One that shows something and one that shows nothing.
MCExposures == {<<0, 0, 1, 1>>, <<-1>>}

Config(r, g, b, a, d, s) ==
  [window |-> TRUE, gles2 |-> TRUE, slow |-> FALSE,
   red |-> r, green |-> g, blue |-> b, alpha |-> a, depth |-> d, stencil |-> s]

\* Configurations Mali drivers list: the opaque, translucent, deep-colour,
\* half-float and small formats, with and without depth and stencil.
MCConfigs ==
  {Config(8, 8, 8, 0, 0, 0), Config(8, 8, 8, 8, 0, 0), Config(8, 8, 8, 0, 24, 8),
   Config(10, 10, 10, 2, 0, 0), Config(10, 10, 10, 0, 0, 0),
   Config(5, 6, 5, 0, 0, 0), Config(16, 16, 16, 0, 16, 0),
   [Config(8, 8, 8, 0, 0, 0) EXCEPT !.slow = TRUE]}

\* Every offer of up to two of them, in every order.
MCOffers == UNION {[1 .. n -> MCConfigs] : n \in 0 .. 2}

=============================================================================
