SPECIFICATION FairSpec
CONSTANTS
    Threads = {t1, t2, t3}
INVARIANTS
    TypeOK
    PausesAreOwed
    NoStrayResume
PROPERTIES
    PausesAreAnswered
