CONSTANTS
    Calls = {1, 2, 3, 4}
    Others = {4}
    Keys = {"logo", "chain", "picks"}
    OtherKeys = {"picks"}
    Answers <- SomeAnswers
    Documents <- SomeDocuments
    ValidationRetries = 1
    Concurrencies = {1, 2}
    MaxRuns = 2
SPECIFICATION FairSpec
INVARIANTS
    RowsServe
    FigureInItsPlace
PROPERTIES
    RowsAreFinal
    NodeSettles
CHECK_DEADLOCK FALSE
