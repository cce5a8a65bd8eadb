------------------------- MODULE MCMacConfiguration -------------------------
(* Instance of MacConfiguration for TLC.                                   *)
EXTENDS MacConfiguration

\* Every standard FinishConfigureStandard accepts.
MC_Standards == AllStandards

\* Both ends of each block-ack attribute's range.
MC_Thresholds == {0, 64}
MC_Timeouts == {0, 65535}

=============================================================================
