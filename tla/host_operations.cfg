SPECIFICATION Spec
CONSTANTS
    MaxStops = 3
    MaxKills = 3
    Phones = {"p1", "p2"}
    MaxMishaps = 3
INVARIANTS
    SettledIsWhole
    DispatchIsFinal
    KeepsWhatItDoesNotOwn
    UninstalledIsClean
CHECK_DEADLOCK FALSE
