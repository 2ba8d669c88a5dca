\* One source, and a synthesis that may write a rule twice.
CONSTANTS
    known = known
    novel = novel
    Sources = {s1}
    Rules = {known, novel}
    TextOf <- MCTextOf
    AreaOf <- MCAreaOf
    Fetches <- MCFetches
    Attendances <- MCAttendances
    Answers <- MCAnswers
    InitialRules = {known}
    MaxUpsets = 1
SPECIFICATION Spec
INVARIANT OccurrencesAreRuns
CHECK_DEADLOCK FALSE
