CONSTANTS
    Probes = {p, q}
    Hosts = {"h"}
    HostOf <- MCHostOf
    MaxAttempts = 2
    ReducedAttempts = 1
    SilentThreshold = 1
    MaxTracked = 1
    Ceiling = 2
    Limits = {1, 2}
    Batch = 1
    Rounds = 2
    Refusals = 2
    Watches = {"kernel", "frames"}
    RxDepth = 1
SPECIFICATION MCSpec
SYMMETRY Alike
INVARIANTS
    OneHome
    SlotsExact
    EveryProbeMoves
    BacklogBounded
PROPERTIES
    SilenceEarned
CONSTRAINT MCBound
