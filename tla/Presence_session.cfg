SPECIFICATION FairSpec
CONSTANTS
    MaxGames = 2
    MaxTurn = 2
    PublishInterval = 5
INVARIANTS
    TypeOK
    StoppedIsQuiet
    RetainedIsCurrent
    ShownIsLastSent
PROPERTIES
    CalledInSession
    StopReturns
    Converges
