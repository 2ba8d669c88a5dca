--------------------------- MODULE FigureExtraction ---------------------------
(***************************************************************************)
(* The figures of one source: parse_and_validate renders them into a stash *)
(* on disk, extract_figures loads them, sends each to the model behind a   *)
(* semaphore while the calls of other nodes share the adapter, and puts    *)
(* what came back in the place of the Nth placeholder.  The process may    *)
(* die at any await; a retry parses again, the stash and the cache remain. *)
(***************************************************************************)
EXTENDS LlmAdapter, Sequences

CONSTANTS Others,        \* calls of other nodes and of other sources
          OtherKeys,     \* what those request
          Documents,     \* per document: the picture behind each placeholder
          Concurrencies, \* values of figure_extraction_concurrency
          MaxRuns   \* runs of the source, the first one included

(***************************************************************************)
(* A picture is too small, came without bytes, or is an image.  An image   *)
(* is named by the cache key of its request: two copies of one image with  *)
(* one caption make the same request.                                      *)
(***************************************************************************)
Pictures == {"tiny", "blank"} \cup Keys

ASSUME FiguresAssumption ==
    /\ Concurrencies \subseteq Nat \ {0} /\ MaxRuns \in Nat \ {0}
    /\ Documents \subseteq Seq(Pictures)
    /\ \A d \in Documents : DOMAIN d \subseteq Calls \ Others
    /\ Others \subseteq Calls /\ OtherKeys \subseteq Keys
    /\ Keys \cap {"tiny", "blank", "placeholder", "removed"} = {}

VARIABLES doc,       \* the document, whether its figures are wanted, the setting
          attempt,   \* how often the source has been run
          node,      \* what the run does
          stash,     \* what the figure stash holds: {} without a manifest
          pictures,  \* what extract_figures loaded
          waiting,   \* figures queued for a slot
          slots,     \* free slots of the semaphore
          entries,   \* extracted_figures: per figure its outcome
          text       \* what stands at each placeholder

figureVars == <<doc, attempt, node, stash, pictures, waiting, slots, entries, text>>
vars == <<cache, call, figureVars>>

Figures == DOMAIN doc.pictures
Placeholders == [i \in Figures |-> "placeholder"]

Init ==
    /\ AdapterInit
    /\ doc \in [pictures: Documents, wanted: BOOLEAN, concurrency: Concurrencies]
    /\ attempt = 1 /\ node = "parse" /\ stash = {} /\ pictures = <<>>
    /\ waiting = {} /\ slots = doc.concurrency
    /\ entries = <<>> /\ text = <<>>

\* What _stash_figures leaves: a save clears first, and one that fails leaves no
\* manifest; nothing to save leaves what is there; not wanted clears.
Stashes ==
    IF ~doc.wanted THEN {{}}
    ELSE IF doc.pictures = <<>> THEN {stash} ELSE {{doc.pictures}, {}}

Parse ==
    /\ node = "parse"
    /\ text' = Placeholders
    /\ stash' \in Stashes
    /\ node' = "load"
    /\ UNCHANGED <<cache, call, doc, attempt, pictures, waiting, slots, entries>>

\* Switched off, or a text without placeholders.
SkipFigures ==
    /\ node = "load" /\ (~doc.wanted \/ Figures = {})
    /\ node' = "done" /\ entries' = <<>>
    /\ UNCHANGED <<cache, call, doc, attempt, stash, pictures, waiting, slots, text>>

\* What needs no call, or cannot get one, is settled before the semaphore.
AtOnce(ps) == {i \in DOMAIN ps : ps[i] \in {"tiny", "blank"}}

Entry(status, what) == [status |-> status, what |-> what]

FirstEntries(ps) ==
    [i \in DOMAIN ps |-> CASE ps[i] = "tiny"  -> Entry("skipped", "none")
                           [] ps[i] = "blank" -> Entry("failed", "none")
                           [] OTHER           -> Entry("pending", "none")]

\* From the stash, files of which may be gone; without a stash, by parsing again.
Loadable ==
    {[i \in DOMAIN ps |-> IF i \in lost THEN "blank" ELSE ps[i]] :
        ps \in stash, lost \in SUBSET Figures}
    \cup (IF stash = {} THEN {doc.pictures} ELSE {})

Gather ==
    /\ node = "load" /\ doc.wanted /\ Figures # {}
    /\ pictures' \in Loadable
    /\ node' = "gather"
    /\ entries' = FirstEntries(pictures')
    /\ waiting' = Figures \ AtOnce(pictures')
    /\ slots' = doc.concurrency
    /\ UNCHANGED <<cache, call, doc, attempt, stash, text>>

\* Neither a stash nor a second parse: one entry says so and the text stays.
LoadFails ==
    /\ node = "load" /\ doc.wanted /\ Figures # {} /\ stash = {}
    /\ node' = "done" /\ entries' = <<Entry("failed", "none")>>
    /\ UNCHANGED <<cache, call, doc, attempt, stash, pictures, waiting, slots, text>>

\* The tasks start in order, and the semaphore serves them first come, first served.
Acquire(i) ==
    /\ node = "gather" /\ i \in waiting /\ slots > 0
    /\ \A j \in waiting : i <= j
    /\ waiting' = waiting \ {i} /\ slots' = slots - 1
    /\ Invoke(i, pictures[i], FALSE)
    /\ UNCHANGED <<doc, attempt, node, stash, pictures, entries, text>>

\* A bug of the kind: only a call that returned gives its slot back.
SlotsAfterLeaking(pc) == IF pc = "returned" THEN slots + 1 ELSE slots

SlotsAfter(pc) == slots + 1     \* async with: on an exception too

\* What _process_one_figure makes of its call in the step in which it ends; it
\* never raises, a call that did leaves the placeholder.
Outcome(c) ==
    CASE c.pc = "raised"                -> Entry("failed", "none")
      [] c.answer.says = "decorative"   -> Entry("skipped", "none")
      [] OTHER                          -> Entry("extracted", c.key)

StepFigure(i) ==
    /\ node = "gather" /\ i \in Figures
    /\ CallStep(i)
    /\ IF call'[i].pc \in Ended
       THEN /\ entries' = [entries EXCEPT ![i] = Outcome(call'[i])]
            /\ slots' = SlotsAfter(call'[i].pc)
       ELSE UNCHANGED <<entries, slots>>
    /\ UNCHANGED <<doc, attempt, node, stash, pictures, waiting, text>>

Replacement(i) ==
    CASE entries[i].status = "extracted" -> entries[i].what
      [] entries[i].status = "skipped"   -> "removed"
      [] OTHER                           -> "placeholder"

\* A bug of the kind: a failed figure contributes nothing to the list.
ReplacedByTheRest ==
    LET rest == SelectSeq([i \in Figures |-> i], LAMBDA i : entries[i].status # "failed")
    IN [i \in Figures |-> IF i \in DOMAIN rest THEN Replacement(rest[i]) ELSE "placeholder"]

\* gather returns its results in the order of its arguments.
Replaced == [i \in Figures |-> Replacement(i)]

Place ==
    /\ node = "gather" /\ waiting = {} /\ \A i \in Figures : entries[i].status # "pending"
    /\ node' = "done" /\ text' = Replaced
    /\ UNCHANGED <<cache, call, doc, attempt, stash, pictures, waiting, slots, entries>>

\* The process dies, or a later node failed: the retry starts with a parse.
Restart ==
    /\ attempt < MaxRuns
    /\ attempt' = attempt + 1 /\ node' = "parse"
    /\ call' = [c \in Calls |-> Idle]
    /\ pictures' = <<>> /\ waiting' = {} /\ slots' = doc.concurrency
    /\ entries' = <<>> /\ text' = <<>>
    /\ UNCHANGED <<cache, doc, stash>>

\* A call of another node; a technique rerun after a rejection bypasses the cache.
InvokeOther(c) ==
    /\ c \in Others /\ call[c].pc = "idle"
    /\ \E k \in OtherKeys, bypass \in BOOLEAN : Invoke(c, k, bypass)
    /\ UNCHANGED figureVars

StepOther(c) == c \in Others /\ CallStep(c) /\ UNCHANGED figureVars

Node == Parse \/ SkipFigures \/ Gather \/ LoadFails \/ Place
            \/ \E i \in Figures : Acquire(i)

Next == \/ Node \/ Restart
        \/ \E c \in Calls : StepFigure(c) \/ InvokeOther(c) \/ StepOther(c)

Spec == Init /\ [][Next]_vars

\* One event loop runs the node and the calls; a model call returns or raises.
FairSpec == Spec /\ WF_vars(Node) /\ \A c \in Calls : WF_vars(StepFigure(c))

---------------------------------------------------------------------------

\* The text at the Nth placeholder is that of the Nth picture of the document,
\* in whatever order the calls came back and wherever the pictures were loaded
\* from; a picture that failed leaves its placeholder (figure_stash.py:25).
FigureInItsPlace ==
    node = "done" =>
        \A i \in Figures :
            /\ text[i] \in {"placeholder", "removed", doc.pictures[i]}
            /\ doc.pictures[i] = "blank" => text[i] = "placeholder"
            /\ DOMAIN entries = Figures =>
                  (text[i] = "placeholder" <=> entries[i].status = "failed")

\* One bad figure, refused, truncated or lost, never keeps the node from ending.
NodeSettles == (node = "parse") ~> (node = "done")
===========================================================================
