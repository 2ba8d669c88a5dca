--------------------------- MODULE MCFeedbackLoop ---------------------------
(***************************************************************************)
(* A small instance of FeedbackLoop for TLC: two runs, two rules of one    *)
(* area, one of them already in the table.                                 *)
(***************************************************************************)
EXTENDS FeedbackLoop, TLC

CONSTANTS known, novel

MCAreaOf == known :> "techniques" @@ novel :> "techniques"
MCTextOf == [s \in Sources |-> s]
MCOneText == [s \in Sources |-> "article"]     \* one article, queued twice
MCFetches == <<"extract_techniques">>
MCAnswers == {<<>>, <<known>>, <<novel>>, <<novel, novel>>, <<novel, known>>}
MCAttendances == {{}, {"techniques"}}

Symmetry == Permutations(Sources)

=============================================================================
