\* Any subset of the five background files exists, zero to three are added
\* per event, the file number wraps at 5, and up to seven events are read:
\* the background loop adds files, runs past missing ones and wraps, more
\* than once in a run.  The pass stops at its end, so deadlock is
\* not checked.
CONSTANTS
    E = E  P = P  V1 = V1  V2 = V2
    NULLFILE = NULLFILE  OPEN = OPEN  NOTOPEN = NOTOPEN
    Source = 0
    Files <- MC_Files
    SigFiles <- MC_SigFiles
    BgNumbers = {0, 1, 2, 3, 4}
    BackToAdd = {0, 1, 2, 3}
    BgWrap = 5
    Nmax = 7
SPECIFICATION LoopSpec
INVARIANTS LoopTypeOK EntriesReadInOrder
PROPERTIES StreamRefinement
CHECK_DEADLOCK FALSE
