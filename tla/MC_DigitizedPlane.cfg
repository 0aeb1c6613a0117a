\* Cross talk on: the over-threshold list and the per-strip truth records.
CONSTANTS
    NStrips = 3
    NSamples = 2
    ClusterADCRows = 6
    CrossTalkOn = TRUE
    NCStripApart = 1
    ClearTime = 9999
    Times = {1}
    ADCVectors <- MC_ADCVectors
    MaxVStrips = 2
    Thresholds = {0, 2}
    CrossFactors <- MC_CrossFactors
    MaxCumulate = 2
SPECIFICATION Spec
INVARIANTS
    TypeOK
    OverThrExact
    ClusterRecordsAligned
PROPERTIES
    SolPlaneRefinement
