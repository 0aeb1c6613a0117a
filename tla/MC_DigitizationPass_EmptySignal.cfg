\* The loop of DigitizationPass.C with a signal event without GEM hits.
CONSTANTS
    NStrips = 2
    NSamples = 1
    ClusterADCRows = 6
    CrossTalkOn = FALSE
    NCStripApart = 1
    ClearTime = 9999
    NChambers = 1
    HitTimes = {0}
    BgTimes = {3}
    Drifts = {1, 2}
    AvaResults <- MC_AvaResults
    NoIons = NoIons
    NULL = NULL
    SignalData <- MC_SignalDataEmpty
    BgData <- MC_BgData
    MaxEvents = 2
    MaxBg = 1
    TreeEventAfterDigitize = FALSE
    TruthOnly = FALSE
SPECIFICATION Spec
CHECK_DEADLOCK FALSE
INVARIANTS
    TreeStripsShowPlanes
