--------------------------- MODULE MCCapabilities ---------------------------
(* Model-checking instance of Capabilities: the PHY supports HT, VHT and  *)
(* HE MCSs; size attribute values straddle every rounding and clamping    *)
(* boundary.                                                               *)
EXTENDS Capabilities

MC_McsSets == {{[cls |-> "HT", value |-> 7], [cls |-> "VHT", value |-> 9],
                [cls |-> "HE", value |-> 11]}}

\* 2^k - 1 and 2^k around the HT, VHT and HE limits.
MC_AmpduValues == {0, 8191, 8192, 65535, 65536, 1048576, 8388607, 8388608}

MC_AmsduValues == {0, 3839, 3840, 7935, 7936, 11398}

\* The configuration objects WifiHelper::Install creates per standard: none
\* (802.11a/b/g), HT, HT+VHT, HT+HE (2.4 GHz 11ax), HT+VHT+HE.
MC_Configs == {{}, {"HT"}, {"HT", "VHT"}, {"HT", "HE"}, {"HT", "VHT", "HE"}}

=============================================================================
