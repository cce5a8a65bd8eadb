---------------------------- MODULE MCFstBlockAck ----------------------------
(* FstBlockAck for TLC: the devices are model values; the station starts  *)
(* the FST session with LLT = 0, so each device switches on the handshake *)
(* frame that completes its side of the setup.                            *)
EXTENDS FstBlockAck

CONSTANTS s_sta, s_ap

MC_LltAttrs_Immediate == {[d \in {s_sta, s_ap} |-> 0]}

=============================================================================
