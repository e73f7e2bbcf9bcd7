SPECIFICATION FairSpec
CONSTANTS
  Originals = {p1, p2}
  Newcomers = {p3}
  Policies = {"preserve", "rotate"}
  Faults = {"crash", "fail", "unpair"}
  MaxFaults = 3
INVARIANTS RotationIsFinal ReadyIsWhole RolledBackRunsOld
PROPERTIES RevokesOnlyVerified UpdateSettles
CHECK_DEADLOCK FALSE
