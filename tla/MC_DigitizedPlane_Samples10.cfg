\* Ten ADC samples, the constructor default and ReadDatabase's fallback.
CONSTANTS
    NStrips = 2
    NSamples = 10
    ClusterADCRows = 6
    CrossTalkOn = FALSE
    NCStripApart = 1
    ClearTime = 9999
    Times = {1}
    ADCVectors <- MC_ADCVectors10
    MaxVStrips = 1
    Thresholds = {0}
    CrossFactors <- MC_CrossFactors
    MaxCumulate = 1
SPECIFICATION Spec
INVARIANTS
    NoClusterADCOverrun
