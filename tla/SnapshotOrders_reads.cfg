SPECIFICATION Spec
CONSTANTS
    Readers = {r1, r2}
    MaxFrames = 4
    MaxCalls = 2
SYMMETRY ReaderSymmetry
CHECK_DEADLOCK FALSE
INVARIANTS
    TypeOK
    NoDataRace
PROPERTIES
    ReadsAreCausal
