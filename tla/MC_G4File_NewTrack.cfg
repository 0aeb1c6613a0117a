\* A file whose entry has a new track: an electron from the proton's vertex.
CONSTANTS
    E = E
    P = P
    V1 = V1
    V2 = V2
    Files <- MC_Files
    Source = 0
    NULLFILE = NULLFILE
    OPEN = OPEN
    NOTOPEN = NOTOPEN
SPECIFICATION G4Spec
CHECK_DEADLOCK FALSE
INVARIANT
    GenDataIsTrackSet
