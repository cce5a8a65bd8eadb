\* A band switch during the handshake, station as originator.
CONSTANTS
    s_sta = s_sta
    s_ap = s_ap
    Sta <- s_sta
    Ap <- s_ap
    ACs = {"AC_BE", "AC_VO"}
    Originators = {s_sta}
    MaxSetups = 2
    MaxTeardowns = 0
    Switchers = {s_sta}
    MaxSwitches = 1
SPECIFICATION Spec
PROPERTIES ResponseFindsPending
CHECK_DEADLOCK FALSE
