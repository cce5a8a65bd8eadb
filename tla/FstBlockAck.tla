----------------------------- MODULE FstBlockAck -----------------------------
(***************************************************************************)
(* Block-ack agreements across a band switch that the FST handshake        *)
(* itself triggers.                                                        *)
(*                                                                         *)
(* MultiBandFst models the FST session state machine, the link-loss        *)
(* countdown and MultiBandNetDevice::BandChanged as far as data frames go; *)
(* BlockAckTransfer models the ADDBA / DELBA exchange and the part of      *)
(* BandChanged that moves the ADDBA frames and copies the originator       *)
(* agreements.  In the code both are one call: whenever an FST step        *)
(* (the Setup Response received, its acknowledgement, or the countdown    *)
(* expiring) makes BandChanged switch a device's m_mac, the same call      *)
(* transfers every EDCA queue and copies the agreements.  Here a step of   *)
(* the composition is a step of one component with the other's variables   *)
(* unchanged, except that an FST step changing a device's active MAC is    *)
(* joined with BlockAckTransfer's BandChanged towards the same standard.   *)
(*                                                                         *)
(* The ADDBA frames are kept in queues of their own (baQueues): their      *)
(* order relative to data frames of the same access category is not        *)
(* modelled.                                                               *)
(***************************************************************************)
EXTENDS Naturals

CONSTANTS
    Sta, Ap, ACs, LltAttrs, Initiators, DataSenders, MaxSetups, MaxTeardowns,
    MaxFrames, MaxLoss,     \* of MultiBandFst
    Originators,            \* devices whose QosTxops set agreements up
    MaxBaSetups,            \* bound: ADDBA Requests a MAC sends per AC
    MaxBaTeardowns          \* bound: DELBA frames an originator sends per AC

VARIABLES
    active, queues, inflight, sessions, fstId, countdowns, now, assoc,
    sent, rcvd, dropped, losses, teardowns, lastExchange, m_llt,
    baQueues,       \* the ADDBA / DELBA frames in the EDCA queues
    orig, recip,    \* originator and recipient agreements
    baSetups, baTeardowns, switches

fstVars == <<queues, inflight, sessions, fstId, countdowns, now, assoc,
             sent, rcvd, dropped, losses, teardowns, lastExchange, m_llt>>
baVars == <<baQueues, orig, recip, baSetups, baTeardowns, switches>>
vars == <<active, fstVars, baVars>>

FST == INSTANCE MultiBandFst

\* Every device may switch, and FST moves a device once, to 5 GHz.
BA == INSTANCE BlockAckTransfer
        WITH queues <- baQueues, setups <- baSetups, teardowns <- baTeardowns,
             MaxSetups <- MaxBaSetups, MaxTeardowns <- MaxBaTeardowns,
             Switchers <- {Sta, Ap}, MaxSwitches <- 1

Init == FST!Init /\ BA!Init

\* An FST step.  When it switches device d (BandChanged from SetupCompletion
\* or ChangeBand), the same BandChanged also carries d's ADDBA frames and
\* originator agreements to the new MAC.
FstStep ==
    /\ FST!Next
    /\ \/ /\ active' = active
          /\ UNCHANGED baVars
       \/ \E d \in {Sta, Ap} :
             /\ active'[d] # active[d]
             /\ BA!BandChanged(d, active'[d])

\* A step of the ADDBA / DELBA exchange; the FST state is untouched.
BlockAckStep ==
    /\ \E m \in BA!Macs, ac \in ACs :
          \/ BA!SetupBlockAck(m, ac)
          \/ BA!TearDownBlockAck(m, ac)
          \/ BA!RecipientTearDown(m, ac)
          \/ BA!Transmit(m, ac)
    /\ UNCHANGED fstVars

Next == FstStep \/ BlockAckStep

Spec == Init /\ [][Next]_vars

-----------------------------------------------------------------------------
(***************************************************************************)
(* An originator agreement a MAC holds as established is matched by a      *)
(* recipient agreement in the MacLow of the peer's MAC on the same band    *)
(* (or the recipient's DELBA is on its way), also after the FST handshake  *)
(* has moved both devices to 5 GHz.                                        *)
(***************************************************************************)
OriginatorHasRecipient == BA!OriginatorHasRecipient

=============================================================================
