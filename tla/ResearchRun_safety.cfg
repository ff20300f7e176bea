\* One run contended by two Workers, the code's three attempts, a two-chunk plan.
SPECIFICATION Spec
CONSTANTS
    Runs = {r1}
    Workers = {w1, w2}
    NumChunks = 2
    MaxAttempts = 3
SYMMETRY Symmetry
INVARIANTS
    LedgerAgrees
    OneAuthority
    GenerationProtected
    ChainIntact
    NoFalseIntegrityFailure
    AttemptsBounded
PROPERTIES
    ImplementsContract
