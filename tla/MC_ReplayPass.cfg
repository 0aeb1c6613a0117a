\* The loop of DigitizationPass.C (signal, one background set, fill; twice), each entry replayed by the decoder.
CONSTANTS
    NStrips = 2
    NSamples = 1
    ClusterADCRows = 6
    CrossTalkOn = FALSE
    NCStripApart = 1
    ClearTime = 9999
    NChambers = 1
    HitTimes = {0}
    BgTimes = {3}
    Drifts = {1, 2}
    AvaResults <- MC_AvaResults
    NoIons = NoIons
    NULL = NULL
    SignalData <- MC_SignalData
    BgData <- MC_BgData
    MaxEvents = 2
    MaxBg = 1
    TreeEventAfterDigitize = FALSE
    TruthOnly = FALSE
    NModule <- MC_NModule
    ChanPerSlot = 5
    SimMaxSlot = 30
    ChamberPlane <- MC_ChamberPlane
    ChamberModule <- MC_ChamberModule
SPECIFICATION ReplaySpec
CHECK_DEADLOCK FALSE
INVARIANTS
    StripClusterRefsResolve
    ClusterSizeMatchesStrips
    StripTimeIsEarliestCluster
    MCInfoAssertsHold
    NoIonClusterHasNoStrips
