------------------------- MODULE MCBlockAckTransfer -------------------------
(* BlockAckTransfer instantiated for TLC: the devices are model values.   *)
EXTENDS BlockAckTransfer

CONSTANTS s_sta, s_ap

=============================================================================
