SPECIFICATION Spec
CONSTANTS
    MaxEvents = 8
    Quorums = {q1, q2}
    q1 = q1
    q2 = q2
INVARIANTS TypeOK TripHolds CrashesAreRecoverable OpenMeansReset
PROPERTY NoStaleReset
