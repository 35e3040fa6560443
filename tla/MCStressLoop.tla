---------------------------- MODULE MCStressLoop ----------------------------
(* Exposure lists for StressLoop.                                          *)
EXTENDS StressLoop

\* One that shows something and one that shows nothing.
MCExposures == {<<0, 0, 1, 1>>, <<-1>>}

=============================================================================
