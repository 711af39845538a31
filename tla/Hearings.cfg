\* CHECK_DEADLOCK: with every key used and every hearing closed nothing is left to do.
SPECIFICATION Spec
CONSTANTS
    Workers = {w1, w2}
    Hearings = {1, 2, 3}
    Days = {1, 2}
SYMMETRY MCSymmetry
INVARIANTS
    TypeOK
    ChainSound
    TimelineTellsDate
PROPERTY
    ClosedChangesOnlyByRace
CHECK_DEADLOCK FALSE
