\* Liveness of the confirmation: one session, LLT = 0, no loss.
CONSTANTS
    s_sta = s_sta
    s_ap = s_ap
    Sta <- s_sta
    Ap <- s_ap
    ACs = {"AC_BE"}
    LltAttrs <- MC_LltAttrs_Immediate
    Initiators = {s_sta}
    DataSenders = {s_sta}
    MaxSetups = 1
    MaxTeardowns = 0
    MaxFrames = 0
    MaxLoss = 0
SPECIFICATION FairSpec
PROPERTY
    InitiatorConfirmed
CHECK_DEADLOCK FALSE
