SPECIFICATION FairSpec
CONSTANTS
    Readers = {r1, r2}
    Fields = {sequence, payload}
    SequenceField = sequence
    SeqModulus = 2
    SpuriousCas = FALSE
PROPERTIES
    WriterWaitFree
    FramesKeepPublishing
    ReadersLockFree
