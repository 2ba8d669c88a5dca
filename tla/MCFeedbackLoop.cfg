\* Two sources at once, one known rule and one the synthesis may learn.
CONSTANTS
    known = known
    novel = novel
    Sources = {s1, s2}
    Rules = {known, novel}
    TextOf <- MCTextOf
    AreaOf <- MCAreaOf
    Fetches <- MCFetches
    Attendances <- MCAttendances
    Answers <- MCAnswers
    InitialRules = {known}
    MaxUpsets = 1
SPECIFICATION Spec
INVARIANTS
    EvidenceIsHuman
    CountersWithinEvidence
    OccurrencesAreWritten
    ShownIsLedgered
    LedgerIsClosed
SYMMETRY Symmetry
CHECK_DEADLOCK FALSE
