-------------------------- MODULE BlockAckTransfer --------------------------
(***************************************************************************)
(* Block-ack agreements across a band switch.                              *)
(*                                                                         *)
(* Each device (station and access point) has a 60 GHz and a 5 GHz MAC.   *)
(* For every access category, a MAC holds the originator side of an       *)
(* agreement with the peer in its QosTxop (BlockAckManager: none, pending *)
(* after an ADDBA Request, established after the ADDBA Response) and the  *)
(* recipient side in its MacLow.  The ADDBA / DELBA exchange of            *)
(* RegularWifiMac::Receive and SendAddBaResponse runs between the two MACs *)
(* of a band.  MultiBandNetDevice::BandChanged, here invoked directly as   *)
(* the device's band-switch operation, moves the queued frames for the     *)
(* peer to the new MAC and copies the originator agreements               *)
(* (CopyBlockAckAgreements); recipient agreements stay where they are.    *)
(*                                                                         *)
(* Management frames of the exchange travel in the EDCA queue of their     *)
(* access category and are delivered reliably, in queue order.           *)
(***************************************************************************)
EXTENDS Integers, Sequences

CONSTANTS
    Sta, Ap,            \* the two devices
    ACs,                \* access categories (one agreement per peer and AC)
    Originators,        \* devices whose QosTxops set agreements up
    MaxSetups,          \* bound: ADDBA Requests a MAC sends per AC
    MaxTeardowns,       \* bound: DELBA frames an originator sends per AC
    Switchers,          \* devices that switch band
    MaxSwitches         \* bound: band switches per device

Devices == {Sta, Ap}
Peer(d) == IF d = Sta THEN Ap ELSE Sta
Standards == {"80211ad", "80211n_5GHZ"}
Macs == Devices \X Standards
Dev(m) == m[1]
PeerMac(m) == <<Peer(m[1]), m[2]>>

\* OriginatorBlockAckAgreement states kept by the BlockAckManager.
OrigStates == {"NONE", "PENDING", "ESTABLISHED"}

Frames == {"ADDBA_REQUEST", "ADDBA_RESPONSE", "DELBA_ORIGINATOR", "DELBA_RECIPIENT"}

VARIABLES
    active,     \* [Devices -> Standards]: m_mac of the device
    queues,     \* [Macs -> [ACs -> Seq(Frames)]]: the EDCA queues
    orig,       \* [Macs -> [ACs -> OrigStates]]: originator agreement with the peer
    recip,      \* [Macs -> [ACs -> BOOLEAN]]: MacLow holds a recipient agreement
    setups,     \* [Macs -> [ACs -> Nat]]: ADDBA Requests sent
    teardowns,  \* [Macs -> [ACs -> Nat]]: DELBA frames sent by the originator
    switches    \* [Devices -> Nat]: band switches

vars == <<active, queues, orig, recip, setups, teardowns, switches>>

Init ==
    /\ active = [d \in Devices |-> "80211ad"]
    /\ queues = [m \in Macs |-> [ac \in ACs |-> <<>>]]
    /\ orig = [m \in Macs |-> [ac \in ACs |-> "NONE"]]
    /\ recip = [m \in Macs |-> [ac \in ACs |-> FALSE]]
    /\ setups = [m \in Macs |-> [ac \in ACs |-> 0]]
    /\ teardowns = [m \in Macs |-> [ac \in ACs |-> 0]]
    /\ switches = [d \in Devices |-> 0]

-----------------------------------------------------------------------------
(* The originator's QosTxop (qos-txop.cc, outside the sources; after the  *)
(* spec): set an agreement up on the active MAC, or tear it down.         *)

SetupBlockAck(m, ac) ==
    /\ Dev(m) \in Originators
    /\ m = <<Dev(m), active[Dev(m)]>>
    /\ orig[m][ac] = "NONE"
    /\ setups[m][ac] < MaxSetups
    /\ orig' = [orig EXCEPT ![m][ac] = "PENDING"]
    /\ queues' = [queues EXCEPT ![m][ac] = Append(@, "ADDBA_REQUEST")]
    /\ setups' = [setups EXCEPT ![m][ac] = @ + 1]
    /\ UNCHANGED <<active, recip, teardowns, switches>>

TearDownBlockAck(m, ac) ==
    /\ orig[m][ac] = "ESTABLISHED"
    /\ teardowns[m][ac] < MaxTeardowns
    /\ orig' = [orig EXCEPT ![m][ac] = "NONE"]
    /\ queues' = [queues EXCEPT ![m][ac] = Append(@, "DELBA_ORIGINATOR")]
    /\ teardowns' = [teardowns EXCEPT ![m][ac] = @ + 1]
    /\ UNCHANGED <<active, recip, setups, switches>>

\* MacLow's recipient agreement times out (mac-low.cc, outside the sources):
\* it is destroyed and a DELBA from the recipient is sent.
RecipientTearDown(m, ac) ==
    /\ recip[m][ac]
    /\ recip' = [recip EXCEPT ![m][ac] = FALSE]
    /\ queues' = [queues EXCEPT ![m][ac] = Append(@, "DELBA_RECIPIENT")]
    /\ UNCHANGED <<active, orig, setups, teardowns, switches>>

-----------------------------------------------------------------------------
(* RegularWifiMac::Receive, BLOCK_ACK branch, at the peer MAC r.  Q is the *)
(* queues after the sender took the frame off its queue.                  *)

\* Mutant: MacLow is not told to create the recipient agreement.
SendAddBaResponse_noRecipient(Q, r, ac) ==
    /\ queues' = [Q EXCEPT ![r][ac] = <<"ADDBA_RESPONSE">> \o @]
    /\ UNCHANGED recip

\* SendAddBaResponse: accept every request, create the recipient agreement
\* in MacLow, and push the ADDBA Response to the head of the AC's queue.
SendAddBaResponse(Q, r, ac) ==
    /\ recip' = [recip EXCEPT ![r][ac] = TRUE]
    /\ queues' = [Q EXCEPT ![r][ac] = <<"ADDBA_RESPONSE">> \o @]

\* Mutant: the ADDBA Response is dropped by the originator.
GotAddBaResponse_ignored(r, ac) == orig' = orig

\* QosTxop::GotAddBaResponse (outside the sources): a pending agreement
\* with the peer becomes established.
GotAddBaResponse(r, ac) ==
    orig' = [orig EXCEPT ![r][ac] = IF @ = "PENDING" THEN "ESTABLISHED" ELSE @]

Receive(Q, r, ac, f) ==
    \/ /\ f = "ADDBA_REQUEST"
       /\ SendAddBaResponse(Q, r, ac)
       /\ UNCHANGED orig
    \/ /\ f = "ADDBA_RESPONSE"
       /\ GotAddBaResponse(r, ac)
       /\ queues' = Q
       /\ UNCHANGED recip
    \/ /\ f = "DELBA_ORIGINATOR"   \* m_low->DestroyBlockAckAgreement
       /\ recip' = [recip EXCEPT ![r][ac] = FALSE]
       /\ queues' = Q
       /\ UNCHANGED orig
    \/ /\ f = "DELBA_RECIPIENT"    \* m_edca[ac]->GotDelBaFrame
       /\ orig' = [orig EXCEPT ![r][ac] = "NONE"]
       /\ queues' = Q
       /\ UNCHANGED recip

\* The QosTxop of m transmits the head of its queue to the peer MAC.
Transmit(m, ac) ==
    /\ queues[m][ac] # <<>>
    /\ Receive([queues EXCEPT ![m][ac] = Tail(@)], PeerMac(m), ac, Head(queues[m][ac]))
    /\ UNCHANGED <<active, setups, teardowns, switches>>

-----------------------------------------------------------------------------
(***************************************************************************)
(* MultiBandNetDevice::BandChanged towards the device's other standard:    *)
(* switch m_mac, move the EDCA queues' frames for the peer to the new MAC  *)
(* (TransferPacketsByAddress) and copy the originator agreements           *)
(* (QosTxop::CopyBlockAckAgreements, after the spec: an existing agreement *)
(* replaces the target's, none leaves the target's as it is).  Nothing     *)
(* moves MacLow's recipient agreements.                                    *)
(***************************************************************************)
\* Mutant: the agreements are not copied.
CopyBlockAckAgreements_none(O, old, new) == O

CopyBlockAckAgreements(O, old, new) ==
    [O EXCEPT ![new] = [ac \in ACs |-> IF O[old][ac] # "NONE" THEN O[old][ac] ELSE @[ac]]]

BandChanged(d, standard) ==
    LET old == <<d, active[d]>>
        new == <<d, standard>>
    IN  /\ d \in Switchers
        /\ standard # active[d]
        /\ switches[d] < MaxSwitches
        /\ switches' = [switches EXCEPT ![d] = @ + 1]
        /\ active' = [active EXCEPT ![d] = standard]
        /\ queues' = [queues EXCEPT ![new] = [ac \in ACs |-> @[ac] \o queues[old][ac]],
                                    ![old] = [ac \in ACs |-> <<>>]]
        /\ orig' = CopyBlockAckAgreements(orig, old, new)
        /\ UNCHANGED <<recip, setups, teardowns>>

Next ==
    \/ \E m \in Macs, ac \in ACs :
          \/ SetupBlockAck(m, ac)
          \/ TearDownBlockAck(m, ac)
          \/ RecipientTearDown(m, ac)
          \/ Transmit(m, ac)
    \/ \E d \in Devices, s \in Standards : BandChanged(d, s)

\* Every QosTxop with a queued frame eventually transmits it.
Fairness == \A m \in Macs, ac \in ACs : WF_vars(Transmit(m, ac))

Spec == Init /\ [][Next]_vars

FairSpec == Spec /\ Fairness

-----------------------------------------------------------------------------
(* Properties *)

InQueue(m, ac, f) == \E i \in DOMAIN queues[m][ac] : queues[m][ac][i] = f

(***************************************************************************)
(* An originator agreement a MAC holds as established is matched by a      *)
(* recipient agreement in the MacLow of the peer's MAC on the same band,   *)
(* unless that recipient has already torn it down and its DELBA is on the  *)
(* way: otherwise the originator sends under block ack to a receiver that  *)
(* keeps no reordering buffer for it.                                      *)
(***************************************************************************)
OriginatorHasRecipient ==
    \A m \in Macs, ac \in ACs :
        orig[m][ac] = "ESTABLISHED" =>
            recip[PeerMac(m)][ac] \/ InQueue(PeerMac(m), ac, "DELBA_RECIPIENT")

(***************************************************************************)
(* A pending agreement (ADDBA Request sent) is eventually established or   *)
(* dropped on the MAC that holds it: the ADDBA Response comes back to it.  *)
(***************************************************************************)
PendingResolves ==
    \A m \in Macs, ac \in ACs :
        orig[m][ac] = "PENDING" ~> orig[m][ac] # "PENDING"

(***************************************************************************)
(* Every ADDBA Response a MAC transmits reaches a peer MAC whose           *)
(* originator agreement for that access category is pending: the          *)
(* response queued by SendAddBaResponse on one band is answered on the     *)
(* band of the request, so no handshake is answered into a MAC that did    *)
(* not start one (QosTxop::GotAddBaResponse drops such a response).        *)
(***************************************************************************)
ResponseFindsPending ==
    [][\A m \in Macs, ac \in ACs :
          (Transmit(m, ac) /\ Head(queues[m][ac]) = "ADDBA_RESPONSE")
              => orig[PeerMac(m)][ac] = "PENDING"]_vars

=============================================================================
