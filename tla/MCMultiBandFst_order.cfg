\* Two data frames of one access category across the switch; no loss.
CONSTANTS
    s_sta = s_sta
    s_ap = s_ap
    Sta <- s_sta
    Ap <- s_ap
    ACs = {"AC_BE"}
    LltAttrs <- MC_LltAttrs_Countdown
    Initiators = {s_sta}
    DataSenders = {s_sta}
    MaxSetups = 1
    MaxTeardowns = 0
    MaxFrames = 2
    MaxLoss = 0
SPECIFICATION Spec
INVARIANT
    InOrderDelivery
CHECK_DEADLOCK FALSE
