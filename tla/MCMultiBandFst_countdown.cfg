\* Station initiates one FST session, with LLT > 0 or LLT = 0; data flows
\* from the station; one teardown and one failed transmission are possible.
CONSTANTS
    s_sta = s_sta
    s_ap = s_ap
    Sta <- s_sta
    Ap <- s_ap
    ACs = {"AC_BE"}
    LltAttrs <- MC_LltAttrs_Either
    Initiators = {s_sta}
    DataSenders = {s_sta}
    MaxSetups = 1
    MaxTeardowns = 1
    MaxFrames = 2
    MaxLoss = 1
SPECIFICATION Spec
INVARIANTS
    TypeOK
    FramesConserved
    AssociatedOnActiveBand
    CountdownHonoursInactivity
PROPERTIES
    ImplementsBandSwitch
CHECK_DEADLOCK FALSE
