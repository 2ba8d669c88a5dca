--------------------------- MODULE MCRunLifecycle ---------------------------
(***************************************************************************)
(* Small instances of RunLifecycle for TLC.  The driver slots are          *)
(* interchangeable; no property names one.                                 *)
(***************************************************************************)
EXTENDS RunLifecycle, TLC

Symmetry == Permutations(Tasks) \cup Permutations(Analysts)

=============================================================================
