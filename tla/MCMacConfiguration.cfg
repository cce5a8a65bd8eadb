\* One MAC: every attribute value at construction, every standard, with and
\* without an HtConfiguration on the device.
CONSTANTS
    Standards <- MC_Standards
    StationTypes = {"STA", "AP", "DMG_ADHOC"}
    Thresholds <- MC_Thresholds
    Timeouts <- MC_Timeouts
SPECIFICATION Spec
INVARIANTS
    TypeOK
    ContentionWindowsOfStandard
    HighThroughputAggregates
    EdcaQueuesConfigured
CHECK_DEADLOCK FALSE
