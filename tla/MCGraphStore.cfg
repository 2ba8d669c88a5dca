\* Two sources that are written at the same time, each retried once, with two
\* faults anywhere; one of two techniques may be missing from the catalogue.
CONSTANTS
    Sources = {s1, s2}
    Techniques = {t1, t2}
    MaxAttempts = 2
    MaxFaults = 2
SPECIFICATION Spec
INVARIANTS
    CatalogueUntouched
    CompletedIsWholeOrSaid
    OrphansAreOfBrokenRuns
    UndoneIsGone
    RowsAreOfFinishedIngests
SYMMETRY Symmetry
CHECK_DEADLOCK FALSE
