\* Two sources that hold the same article.
CONSTANTS
    known = known
    novel = novel
    Sources = {s1, s2}
    Rules = {known, novel}
    TextOf <- MCOneText
    AreaOf <- MCAreaOf
    Fetches <- MCFetches
    Attendances <- MCAttendances
    Answers <- MCAnswers
    InitialRules = {known}
    MaxUpsets = 1
SPECIFICATION Spec
INVARIANT ShownIsLedgered
SYMMETRY Symmetry
CHECK_DEADLOCK FALSE
