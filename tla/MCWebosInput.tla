---------------------------- MODULE MCWebosInput ----------------------------
(* Instances of WebosInput small enough for TLC.                           *)
EXTENDS WebosInput, TLC

\* Registry names are only compared for equality.
NameSymmetry == Permutations(Names)

=============================================================================
