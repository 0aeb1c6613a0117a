\* Three background files exist, two are added per event: the second
\* event runs past the last file to the wrap and gets fewer than two.
CONSTANTS
    E = E  P = P  V1 = V1  V2 = V2
    NULLFILE = NULLFILE  OPEN = OPEN  NOTOPEN = NOTOPEN
    Source = 0
    Files <- MC_Files
    SigFiles <- MC_SigFiles
    BgNumbers = {0, 1, 2}
    BackToAdd = {2}
    BgWrap = 5
    Nmax = 4
SPECIFICATION LoopSpec
INVARIANT BgFilesPerEvent
CHECK_DEADLOCK FALSE
