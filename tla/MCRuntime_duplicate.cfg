SPECIFICATION Spec
CONSTANTS
    Cycles = {c1}
    None = None
    MaxFaults = 0
    MaxCrashes = 1
PROPERTY DuplicatePulseSkipped
