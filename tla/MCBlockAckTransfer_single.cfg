\* Agreements on one band: both devices set up and tear down.
CONSTANTS
    s_sta = s_sta
    s_ap = s_ap
    Sta <- s_sta
    Ap <- s_ap
    ACs = {"AC_BE"}
    Originators = {s_sta, s_ap}
    MaxSetups = 2
    MaxTeardowns = 1
    Switchers = {s_sta}
    MaxSwitches = 0
SPECIFICATION FairSpec
INVARIANTS OriginatorHasRecipient
PROPERTIES PendingResolves
CHECK_DEADLOCK FALSE
