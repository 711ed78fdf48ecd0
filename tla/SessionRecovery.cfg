\* Three lane ids, two requests, two checkpoints, two lives of the daemon.
SPECIFICATION SessionSpec
CONSTANTS
    Lanes = {l1, l2, l3}
    NoLane = NoLane
    Requests = {r1, r2}
    MaxCheckpoints = 2
    MaxLives = 2
    Calls = {l1, l2, l3}
    NoObject = NoObject
SYMMETRY Symmetry
INVARIANTS
    LostOnlyByOverlap
    SequenceIsAge
    AppliedInOneLife
    RestAttempted
PROPERTIES
    NeverBackAlone
