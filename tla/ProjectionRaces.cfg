CONSTANTS
    MaxOutput = 2
    PreviewUnits = 1
    maxWatchResyncs = 1
    MaxText = 3
SPECIFICATION FairSpec
INVARIANTS
    AnswerIsTheRuns
    ReasonTold
    SubscriptionsClosed
PROPERTIES
    TurnEnds
CHECK_DEADLOCK FALSE
