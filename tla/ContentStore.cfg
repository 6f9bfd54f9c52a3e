SPECIFICATION Spec
CONSTANTS
    Manifests = {m, n}
    Chunks = {c}
    ChunksOf <- MCChunksOf
SYMMETRY Symmetry
INVARIANTS
    TypeOK
    PromisedIsStored
    VerifiedStays
PROPERTIES
    SweepSparesLive
