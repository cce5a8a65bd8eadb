--------------------------- MODULE MCMultiBandFst ---------------------------
(* Model-checking instance of MultiBandFst: two devices, two access        *)
(* categories, small bounds on setups, teardowns, frames and losses.      *)
EXTENDS MultiBandFst

CONSTANTS s_sta, s_ap

\* LLT attribute settings.  The responder takes the LLT of the Setup
\* Request, so only the initiator's value matters: a countdown of one 32 us
\* unit, or LLT = 0 (switch on the Setup Response).
MC_LLT_Countdown == [d \in {s_sta, s_ap} |-> IF d = s_sta THEN 1 ELSE 0]
MC_LLT_Immediate == [d \in {s_sta, s_ap} |-> 0]
MC_LLT_Both == [d \in {s_sta, s_ap} |-> 1]
\* Either setting of the station, or, when both devices initiate, both 1.
MC_LltAttrs_Either == {MC_LLT_Countdown, MC_LLT_Immediate}
MC_LltAttrs_Countdown == {MC_LLT_Countdown}
MC_LltAttrs_Immediate == {MC_LLT_Immediate}
MC_LltAttrs_Both == {MC_LLT_Both}

=============================================================================
