----------------------------- MODULE MCChunkFlow -----------------------------
(***************************************************************************)
(* Small instances of ChunkFlow for TLC.  Each scope lets one kind of      *)
(* review grow to the size at which its cases happen.                      *)
(***************************************************************************)
EXTENDS ChunkFlow

Least == [n |-> 3, passes |-> 1, gate |-> FALSE, detected |-> {TRUE},
          flags |-> {"detected"}, strays |-> 0, roots |-> 0, decisions |-> 0,
          edges |-> 0, added |-> 0, overrides |-> 0, conditions |-> 0,
          discards |-> 0, rejects |-> 0, reorders |-> 0, rows |-> 0, omitted |-> 0]

\* Two neighbours can go and still leave one chunk on either side.
Deciding == [Least EXCEPT !.n = 4, !.gate = TRUE, !.decisions = 2, !.added = 1]

\* The same on three chunks, one of them listing itself, a later or an unknown one.
Straying == [Least EXCEPT !.strays = 2, !.gate = TRUE, !.decisions = 2]

\* Edges to and from a chunk the same review drops, or adds.
Linking == [Least EXCEPT !.strays = 1, !.gate = TRUE, !.decisions = 1, !.edges = 2, !.added = 1]

\* A chunk discarded, one omitted, and one that branches, meets or lists itself.
Bundling == [Least EXCEPT !.n = 4, !.strays = 1, !.roots = 1, !.discards = 1,
                          !.rows = 1, !.omitted = 1]

Reordering == [Least EXCEPT !.strays = 1, !.roots = 1, !.discards = 1, !.reorders = 2]

\* Rejections of every gate, from one pass into the next.
Looping == [Least EXCEPT !.n = 2, !.strays = 1, !.passes = 2, !.gate = TRUE, !.roots = 1,
                         !.decisions = 2, !.added = 1, !.discards = 1, !.rejects = 1]

\* The sequentiality flag set and overridden either way, down to nothing approved.
Cataloguing == [Least EXCEPT !.gate = TRUE, !.detected = {TRUE, FALSE},
                             !.flags = {"detected", "on", "off"}, !.strays = 1,
                             !.overrides = 1, !.conditions = 1, !.discards = 3]

AllScopes == {Deciding, Straying, Linking, Bundling, Reordering, Looping, Cataloguing}

\* The smallest scopes that show a disagreement.
ConditionScopes == {[Least EXCEPT !.n = 2, !.gate = TRUE, !.conditions = 1]}
OverrideScopes  == {[Least EXCEPT !.gate = TRUE, !.overrides = 1, !.discards = 3]}
BranchScopes    == {[Least EXCEPT !.strays = 1]}
DiscardScopes   == {[Least EXCEPT !.discards = 1]}

=============================================================================
