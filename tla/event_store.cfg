SPECIFICATION Spec
CONSTANTS
    p1 = p1
    p2 = p2
    t1 = t1
    noTurn = noTurn
    Pairings = {p1, p2}
    Events <- MCEvents
    NoTurn = noTurn
    TerminalGrace = 0
    StaleAfter = 1
    MaxRows = 2
    MaxBytes = 3
    BatchSize = 1
    ReplayLimit = 2
    MaxCursor = 3
    MaxTime = 2
SYMMETRY PairingSymmetry
INVARIANTS
    ExactResume
    NoEventResumedTwice
PROPERTIES
    TurnsExpireWhole
    ImplementsLog
