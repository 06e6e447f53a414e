SPECIFICATION Spec
CONSTANTS
    Readers = {r1, r2}
    Fields = {sequence, payload}
    SequenceField = sequence
    SeqModulus = 3
    SpuriousCas = TRUE
SYMMETRY ReaderSymmetry
INVARIANTS
    TypeOK
    UsersCountReaders
    NoTornRead
    CopyIsStable
PROPERTIES
    ActiveSlotFrozen
    ReadsAreAtomic
