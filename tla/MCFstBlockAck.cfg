\* The station sets up one FST session and one block-ack agreement for one
\* access category; no data frames, no losses, no teardowns.
CONSTANTS
    s_sta = s_sta
    s_ap = s_ap
    Sta <- s_sta
    Ap <- s_ap
    ACs = {"AC_BE"}
    LltAttrs <- MC_LltAttrs_Immediate
    Initiators = {s_sta}
    DataSenders = {}
    MaxSetups = 1
    MaxTeardowns = 0
    MaxFrames = 0
    MaxLoss = 0
    Originators = {s_sta}
    MaxBaSetups = 1
    MaxBaTeardowns = 0
SPECIFICATION Spec
INVARIANT OriginatorHasRecipient
CHECK_DEADLOCK FALSE
