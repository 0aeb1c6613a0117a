\* Planes with different module counts: 2, 1 and 2 modules.
CONSTANTS
    NModule <- MC_Mixed
    ChanPerSlot = 5
    SimMaxSlot = 30
    StripsPerModule = 5
SPECIFICATION Spec
INVARIANTS
    RocKeyInjective
