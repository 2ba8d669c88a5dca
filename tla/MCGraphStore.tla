---------------------------- MODULE MCGraphStore ----------------------------
(***************************************************************************)
(* Small instances of GraphStore for TLC.  Sources are interchangeable and *)
(* so are techniques; no property names one.                               *)
(***************************************************************************)
EXTENDS GraphStore, TLC

Symmetry == Permutations(Sources) \cup Permutations(Techniques)

=============================================================================
