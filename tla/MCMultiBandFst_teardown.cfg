\* A teardown sent while the initiator's countdown runs; no data, no loss.
CONSTANTS
    s_sta = s_sta
    s_ap = s_ap
    Sta <- s_sta
    Ap <- s_ap
    ACs = {"AC_BE"}
    LltAttrs <- MC_LltAttrs_Countdown
    Initiators = {s_sta}
    DataSenders = {s_sta}
    MaxSetups = 1
    MaxTeardowns = 1
    MaxFrames = 0
    MaxLoss = 0
SPECIFICATION Spec
INVARIANT
    NoCountdownAfterReset
CHECK_DEADLOCK FALSE
