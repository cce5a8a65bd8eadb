\* A band switch during the handshake, station as originator.
CONSTANTS
    s_sta = s_sta
    s_ap = s_ap
    Sta <- s_sta
    Ap <- s_ap
    ACs = {"AC_BE"}
    Originators = {s_sta}
    MaxSetups = 1
    MaxTeardowns = 0
    Switchers = {s_ap}
    MaxSwitches = 1
SPECIFICATION Spec
PROPERTIES ResponseFindsPending
CHECK_DEADLOCK FALSE
