\* Both devices initiate an FST session at the same time; no data, no loss.
CONSTANTS
    s_sta = s_sta
    s_ap = s_ap
    Sta <- s_sta
    Ap <- s_ap
    ACs = {"AC_BE"}
    LltAttrs <- MC_LltAttrs_Both
    Initiators = {s_sta, s_ap}
    DataSenders = {s_sta}
    MaxSetups = 1
    MaxTeardowns = 0
    MaxFrames = 0
    MaxLoss = 0
SPECIFICATION Spec
INVARIANT
    SingleCountdown
CHECK_DEADLOCK FALSE
