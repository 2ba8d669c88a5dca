--------------------------- MODULE MCFigureExtraction ---------------------------
(***************************************************************************)
(* Two images behind one slot or two, and one call of another node: calls  *)
(* wait, overlap on one key and come back in any order.                    *)
(***************************************************************************)
EXTENDS FigureExtraction

Answer(shape, items, bad, says) ==
    [shape |-> shape, items |-> items, bad |-> bad, says |-> says]

\* Figures have no list; of other answers one bad item of four is dropped, one
\* of three is too many.
SomeAnswers ==
    [k \in Keys |->
        IF k = "picks" THEN {Answer("flat", 4, 1, "content"), Answer("nested", 3, 1, "content")}
        ELSE {Answer("nested", 0, 0, "content"), Answer("wrong", 0, 0, "content")}
             \cup IF k = "logo" THEN {Answer("flat", 0, 0, "decorative")} ELSE {}]

\* Two copies of one image; a picture too small; one without bytes.
SomeDocuments == {<<"logo", "logo">>, <<"logo", "chain">>, <<"tiny", "logo">>, <<"blank">>, <<>>}
===========================================================================
