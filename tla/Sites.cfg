SPECIFICATION Spec
CONSTANTS
    Dev = {d1}
    Release = {r1, r2, r3}
    MaxFaults = 1
    MaxLoad = 3
    None = None
    d1 = d1
    r1 = r1
    r2 = r2
    r3 = r3
SYMMETRY Symmetric
INVARIANTS TypeOK OneWriter NoStrayRelease ServingHoldsVolume
PROPERTIES  LeaseLeavesOnlyTheGone
