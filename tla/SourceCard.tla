----------------------------- MODULE SourceCard -----------------------------
(***************************************************************************)
(* What the Kanban board promises an analyst about one source: it waits in *)
(* the queue, a run works on it, the run waits for a review or ends, and   *)
(* nothing but a Retry takes a failed card back into a run.  Which node    *)
(* runs, what an attempt leaves behind and who drives it are hidden.       *)
(***************************************************************************)
VARIABLE card

Cards == {"queued", "running", "waiting", "completed", "failed", "removed"}

Init == card = "queued"

\* Run or Retry.
Launch == card \in {"queued", "failed"} /\ card' = "running"

\* The run reaches a gate a person has to decide, and goes on once one has.
Pause  == card = "running" /\ card' = "waiting"
Resume == card = "waiting" /\ card' = "running"

Finish == card = "running" /\ card' = "completed"

\* A run that has shown its result may still die before it is torn down.
Fail == card \in {"running", "completed"} /\ card' = "failed"

Remove == card # "removed" /\ card' = "removed"

Next == Launch \/ Pause \/ Resume \/ Finish \/ Fail \/ Remove

\* What a card may show next.
Safety == Init /\ [][Next]_card

\* A card never shows work in progress forever.
ComesToRest == (card = "running") ~> (card # "running")

Spec == Safety /\ ComesToRest

=============================================================================
