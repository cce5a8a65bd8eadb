\* Liveness of the band switch: the station initiates up to two FST sessions
\* with LLT > 0 (the second one from the 5 GHz MAC, which again proposes
\* Band_4_9GHz) and sends one data frame; no frame is lost, no teardown.
CONSTANTS
    s_sta = s_sta
    s_ap = s_ap
    Sta <- s_sta
    Ap <- s_ap
    ACs = {"AC_BE"}
    LltAttrs <- MC_LltAttrs_Countdown
    Initiators = {s_sta}
    DataSenders = {s_sta}
    MaxSetups = 2
    MaxTeardowns = 0
    MaxFrames = 1
    MaxLoss = 0
SPECIFICATION FairSpec
PROPERTIES
    SwitchCompletes
    ImplementsBandSwitchFair
CHECK_DEADLOCK FALSE
