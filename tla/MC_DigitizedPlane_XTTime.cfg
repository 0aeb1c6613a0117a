\* Cross talk on: an induced signal takes the time of its source strip.
CONSTANTS
    NStrips = 3
    NSamples = 2
    ClusterADCRows = 6
    CrossTalkOn = TRUE
    NCStripApart = 1
    ClearTime = 9999
    Times = {1, 2}
    ADCVectors <- MC_ADCVectors
    MaxVStrips = 2
    Thresholds = {0, 2}
    CrossFactors <- MC_CrossFactors
    MaxCumulate = 2
SPECIFICATION Spec
INVARIANTS
    EarliestArrival
