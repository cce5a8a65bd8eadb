---------------------------- MODULE MultiBandFst ----------------------------
(***************************************************************************)
(* Fast Session Transfer (FST) between two multi-band devices.            *)
(*                                                                         *)
(* Each device is a MultiBandNetDevice (multi-band-net-device.cc) holding  *)
(* one RegularWifiMac per technology: an 802.11ad (60 GHz) MAC and an      *)
(* 802.11n 5 GHz MAC.  The device routes outgoing frames to its active     *)
(* MAC (m_mac).  Every MAC keeps its own FST session table (m_fstSession-  *)
(* Map), its own FST session counter (m_fstId) and its own transmit queues *)
(* (the DCA Txop queue for management frames, one EDCA queue per access    *)
(* category for data).  The FST handshake of regular-wifi-mac.cc runs      *)
(* between the two MACs of one band; when a session reaches its switch     *)
(* point, ChangeBand calls the device's BandChanged, which switches the    *)
(* active technology, migrates the queued frames for the peer, copies the  *)
(* association state and notifies the new MAC (NotifyBandChanged).        *)
(*                                                                         *)
(* Each device talks to exactly one peer (the other device), so a MAC's    *)
(* session table has a single key and every frame in its queues is        *)
(* addressed to that peer; a session table is therefore one Session record *)
(* per MAC, and "the frames for address" are all frames of a queue.       *)
(*                                                                         *)
(* Time is the ns-3 simulation clock in units of 32 us: the only timed     *)
(* events of this subsystem are the link-loss countdowns, scheduled        *)
(* MicroSeconds (LLT * 32) ahead, so counting in 32 us units keeps their   *)
(* order.  Frame transmissions take an unspecified time.                  *)
(***************************************************************************)
EXTENDS Integers, Sequences, FiniteSets, FiniteSetsExt

CONSTANTS
    Sta,            \* the station device (its MACs are DMG_STA / STA)
    Ap,             \* the access point device (its MACs are DMG_AP / AP)
    ACs,            \* the access categories whose EDCA queues are modelled
    LltAttrs,       \* the "LLT" attribute (m_llt) settings: functions [Devices -> Nat]
    Initiators,     \* devices on which EstablishFastSessionTransferSession is called
    DataSenders,    \* devices whose upper layer sends data frames to the peer
    MaxSetups,      \* bound: FST sessions a device initiates
    MaxTeardowns,   \* bound: FST Tear Down frames a device sends
    MaxFrames,      \* bound: data frames a device sends
    MaxLoss         \* bound: transmissions that fail after all retries

Devices == {Sta, Ap}
Peer(d) == IF d = Sta THEN Ap ELSE Sta

\* WifiPhyStandard of the two technologies of every device.
Standards == {"80211ad", "80211n_5GHZ"}
Macs == Devices \X Standards
Dev(m) == m[1]
PeerMac(m) == <<Peer(m[1]), m[2]>>

\* m_txop (DCA, management frames) and the EDCA queues of m_edca.
QueueIds == {"DCA"} \cup ACs

ASSUME /\ Sta # Ap
       /\ ACs # {} /\ "DCA" \notin ACs
       /\ LltAttrs \subseteq [Devices -> Nat]
       /\ Initiators \subseteq Devices /\ DataSenders \subseteq Devices
       /\ {MaxSetups, MaxTeardowns, MaxFrames, MaxLoss} \subseteq Nat

(***************************************************************************)
(* Band identifiers carried in FST frames.  "NoBand" is the value-         *)
(* initialised BandID of a session created by operator[]; none of the      *)
(* branches of ChangeBand matches it.                                      *)
(***************************************************************************)
BandIDs == {"Band_60GHz", "Band_4_9GHz", "NoBand"}

\* The branches of RegularWifiMac::ChangeBand: band identifier -> standard.
\* (Band_2_4GHz is never the NewBandId of a session: SetupFSTSession always
\* proposes Band_4_9GHz and the responder copies the proposal.)
BandStandard == [b \in {"Band_60GHz", "Band_4_9GHz"} |->
                    IF b = "Band_60GHz" THEN "80211ad" ELSE "80211n_5GHZ"]

FstStates == {"FST_INITIAL_STATE", "FST_SETUP_COMPLETION_STATE",
              "FST_TRANSITION_DONE_STATE", "FST_TRANSITION_CONFIRMED_STATE"}

\* struct FstSession, without its EventId (pending countdowns are in
\* the variable countdowns).
Session == [id : Nat, state : FstStates, init : BOOLEAN, band : BandIDs, llt : Nat]

\* The entry operator[] inserts for an unknown peer: value-initialised.
DefaultSession == [id |-> 0, state |-> "FST_INITIAL_STATE", init |-> FALSE,
                   band |-> "NoBand", llt |-> 0]

MgmtKinds == {"FST_SETUP_REQUEST", "FST_SETUP_RESPONSE", "FST_ACK_REQUEST",
              "FST_ACK_RESPONSE", "FST_TEAR_DOWN"}

\* An FST action frame, reduced to the fields the receiver acts on:
\* the FSTS ID, the new band and the LLT.  Every Setup Response this code
\* sends has status code 0 (SendFstSetupResponse (.., 0, ..)).
MgmtFrame(kind, id, band, llt) == [kind |-> kind, id |-> id, band |-> band, llt |-> llt]
\* A data MSDU of the upper layer; seq numbers a device's frames in send order.
DataFrame(ac, seq) == [kind |-> "DATA", ac |-> ac, seq |-> seq]

MgmtFrames == [kind : MgmtKinds, id : Nat, band : BandIDs, llt : Nat]
DataFrames == [kind : {"DATA"}, ac : ACs, seq : Nat]
Frames == MgmtFrames \cup DataFrames

\* The frame a Txop is transmitting (m_currentPacket), and whether the
\* peer has already received it (so only its acknowledgement is pending).
NoFrame == [kind |-> "NONE"]
NoTx == [frame |-> NoFrame, rcvd |-> FALSE]
TxSlots == [frame : Frames, rcvd : BOOLEAN] \cup {NoTx}

\* A pending ChangeBand event of a link-loss countdown scheduled by a MAC.
\* owned: the session's LinkLossCountDownEvent still refers to it.
Countdown == [mac : Macs, band : BandIDs, init : BOOLEAN, at : Nat, owned : BOOLEAN]

VARIABLES
    active,       \* [Devices -> Standards]: m_standard / m_mac of the device
    queues,       \* [Macs -> [QueueIds -> Seq(Frames)]]: the WifiMacQueues
    inflight,     \* [Macs -> [QueueIds -> TxSlots]]: frame the Txop is sending
    sessions,     \* [Macs -> Session]: m_fstSessionMap[peer] of every MAC
    fstId,        \* [Macs -> Nat]: m_fstId
    countdowns,   \* SUBSET Countdown: scheduled ChangeBand events
    now,          \* simulation time, in units of 32 us
    assoc,        \* [Macs -> BOOLEAN]: the MAC holds its peer as associated
    sent,         \* [Devices -> Nat]: data frames the device has sent
    rcvd,         \* [Devices -> Seq(DataFrames)]: data frames forwarded up
    dropped,      \* [Devices -> SUBSET Nat]: seq of own data frames dropped
    losses,       \* transmissions failed so far
    teardowns,    \* [Devices -> Nat]: Tear Down frames sent
    m_llt,        \* [Devices -> Nat]: the LLT attribute, fixed at construction
    lastExchange  \* [Macs -> Nat]: time of the last data frame sent or
                  \* received successfully on that MAC (history variable)

vars == <<active, queues, inflight, sessions, fstId, countdowns, now, assoc,
          sent, rcvd, dropped, losses, teardowns, lastExchange, m_llt>>

-----------------------------------------------------------------------------
(* Helpers *)

Enq(Q, m, q, f) == [Q EXCEPT ![m][q] = Append(@, f)]

\* Events whose handle a session of m overwrites are no longer owned by it.
Disown(C, m) == {IF e.mac = m THEN [e EXCEPT !.owned = FALSE] ELSE e : e \in C}

OwnedCountdown(C, m) == {e \in C : e.mac = m /\ e.owned}

\* MicroSeconds (LLT * 32) with LLT a uint32_t: the product is taken modulo
\* 2^32, which in 32 us units is LLT modulo 2^27.
LltUnits(v) == v % 2^27

\* Simulator::Schedule (MicroSeconds (LLT * 32), &ChangeBand, ..) stored
\* in the session's LinkLossCountDownEvent.
ScheduleCountdown(C, m, band, isInitiator, llt) ==
    Disown(C, m) \cup
        {[mac |-> m, band |-> band, init |-> isInitiator, at |-> now + LltUnits(llt), owned |-> TRUE]}

\* Mutant: the frames are copied to the new MAC but left in the old queue.
TransferPacketsByAddress_copy(Q, old, new) ==
    IF old = new THEN Q
    ELSE [Q EXCEPT ![new] = [q \in QueueIds |-> @[q] \o Q[old][q]]]

(***************************************************************************)
(* WifiMacQueue::TransferPacketsByAddress (wifi-mac-queue.cc, outside the  *)
(* repository sources; after the spec, 4.1): every frame for the address   *)
(* leaves the source queue and is appended, in order, to the destination.  *)
(* BandChanged calls it for the DCA queue and for each EDCA queue.         *)
(***************************************************************************)
TransferPacketsByAddress(Q, old, new) ==
    IF old = new THEN Q
    ELSE [Q EXCEPT ![new] = [q \in QueueIds |-> @[q] \o Q[old][q]],
                   ![old] = [q \in QueueIds |-> <<>>]]

(***************************************************************************)
(* MultiBandNetDevice::BandChanged: switch the active technology, move the *)
(* peer's queued frames (DCA, VO, VI, BE, BK) from the old to the new MAC, *)
(* copy the association state, and call NotifyBandChanged on the new MAC.  *)
(* The association state is copied from the old MAC on a station; on an    *)
(* access point the new station manager records the peer as associated.   *)
(* (CopyBlockAckAgreements is not modelled here.)                          *)
(***************************************************************************)
NotifyBandChanged(Q, new, isInitiator) ==
    \* m_fstSessionMap[address] of the NEW MAC supplies the FSTS ID.
    IF isInitiator
    THEN Enq(Q, new, "DCA", MgmtFrame("FST_ACK_REQUEST", sessions[new].id, "NoBand", 0))
    ELSE Q

\* Mutant: the access point branch (RecordGotAssocTxOk) is missing.
BandChanged_noApAssoc(d, standard, isInitiator) ==
    LET old == <<d, active[d]>>
        new == <<d, standard>>
    IN  /\ active' = [active EXCEPT ![d] = standard]
        /\ queues' = NotifyBandChanged(TransferPacketsByAddress(queues, old, new),
                                       new, isInitiator)
        /\ assoc' = IF d = Sta THEN [assoc EXCEPT ![new] = assoc[old]] ELSE assoc

BandChanged(d, standard, isInitiator) ==
    LET old == <<d, active[d]>>
        new == <<d, standard>>
    IN  /\ active' = [active EXCEPT ![d] = standard]
        /\ queues' = NotifyBandChanged(TransferPacketsByAddress(queues, old, new),
                                       new, isInitiator)
        /\ assoc' = IF d = Sta
                    THEN [assoc EXCEPT ![new] = assoc[old]]
                    ELSE [assoc EXCEPT ![new] = TRUE]

\* Mutant: only the Band_60GHz branch of ChangeBand exists.
ChangeBand_only60(m, bandId, isInitiator) ==
    IF bandId = "Band_60GHz"
    THEN BandChanged(Dev(m), "80211ad", isInitiator)
    ELSE UNCHANGED <<active, queues, assoc>>

\* RegularWifiMac::ChangeBand: m_bandChangedCallback for a known band.
ChangeBand(m, bandId, isInitiator) ==
    IF bandId \in DOMAIN BandStandard
    THEN BandChanged(Dev(m), BandStandard[bandId], isInitiator)
    ELSE UNCHANGED <<active, queues, assoc>>

(***************************************************************************)
(* The switch point of a session whose setup completed: LLT = 0 switches   *)
(* at once (FST_TRANSITION_DONE_STATE), LLT > 0 arms the link-loss         *)
(* countdown.  The countdown handle is overwritten without cancelling any  *)
(* countdown the entry already held.                                       *)
(***************************************************************************)
SetupCompletion(m, isInitiator) ==
    LET s == [sessions[m] EXCEPT !.state = "FST_SETUP_COMPLETION_STATE"]
    IN  IF s.llt = 0
        THEN /\ sessions' = [sessions EXCEPT ![m] = [s EXCEPT !.state = "FST_TRANSITION_DONE_STATE"]]
             /\ ChangeBand(m, s.band, isInitiator)
             /\ UNCHANGED countdowns
        ELSE /\ sessions' = [sessions EXCEPT ![m] = s]
             /\ countdowns' = ScheduleCountdown(countdowns, m, s.band, isInitiator, s.llt)
             /\ UNCHANGED <<active, queues, assoc>>

\* MacTxOk / MacRxOk: a data frame exchanged with the peer while the
\* countdown runs cancels it and schedules it LLT * 32 us from now.
ResetLinkLossCountdown(C, m) ==
    LET s == sessions[m]
    IN  IF s.state = "FST_SETUP_COMPLETION_STATE" /\ OwnedCountdown(C, m) # {}
        THEN (C \ OwnedCountdown(C, m)) \cup
                {[mac |-> m, band |-> s.band, init |-> s.init, at |-> now + LltUnits(s.llt), owned |-> TRUE]}
        ELSE C

MacTxOk(C, m) == ResetLinkLossCountdown(C, m)

\* Mutant: a received frame does not re-arm the countdown.
MacRxOk_noReset(C, m) == C

MacRxOk(C, m) == ResetLinkLossCountdown(C, m)

-----------------------------------------------------------------------------
(***************************************************************************)
(* RegularWifiMac::Receive, FST branch: the MAC r receives frame f from    *)
(* its peer.  Data frames go up through ForwardUp.                         *)
(***************************************************************************)
RecvSetupRequest(r, f) ==
    /\ f.kind = "FST_SETUP_REQUEST"
    /\ sessions' = [sessions EXCEPT ![r] = [id |-> f.id, state |-> "FST_INITIAL_STATE",
                                            init |-> FALSE, band |-> f.band, llt |-> f.llt]]
    /\ countdowns' = Disown(countdowns, r)
    /\ queues' = Enq(queues, r, "DCA", MgmtFrame("FST_SETUP_RESPONSE", 0, "NoBand", 0))
    /\ UNCHANGED <<active, assoc, rcvd, lastExchange>>

RecvSetupResponse(r, f) ==
    /\ f.kind = "FST_SETUP_RESPONSE"
    /\ SetupCompletion(r, TRUE)
    /\ UNCHANGED <<rcvd, lastExchange>>

RecvTearDown(r, f) ==
    /\ f.kind = "FST_TEAR_DOWN"
    /\ sessions' = [sessions EXCEPT ![r].state = "FST_INITIAL_STATE"]
    /\ UNCHANGED <<active, queues, assoc, countdowns, rcvd, lastExchange>>

RecvAckRequest(r, f) ==
    /\ f.kind = "FST_ACK_REQUEST"
    /\ queues' = Enq(queues, r, "DCA", MgmtFrame("FST_ACK_RESPONSE", f.id, "NoBand", 0))
    /\ UNCHANGED <<active, assoc, sessions, countdowns, rcvd, lastExchange>>

RecvAckResponse(r, f) ==
    /\ f.kind = "FST_ACK_RESPONSE"
    /\ sessions' = [sessions EXCEPT ![r].state = "FST_TRANSITION_CONFIRMED_STATE"]
    /\ UNCHANGED <<active, queues, assoc, countdowns, rcvd, lastExchange>>

\* Mutant: frames are forwarded up whatever their type.
ForwardUp_anyFrame(r, f) ==
    /\ rcvd' = [rcvd EXCEPT ![Dev(r)] = Append(@, f)]
    /\ countdowns' = MacRxOk(countdowns, r)
    /\ lastExchange' = [lastExchange EXCEPT ![r] = now]
    /\ UNCHANGED <<active, queues, assoc, sessions>>

\* MultiBandNetDevice::ForwardUp of a data frame, and the station
\* manager's RxOk callback (MacRxOk).
ForwardUp(r, f) ==
    /\ f.kind = "DATA"
    /\ rcvd' = [rcvd EXCEPT ![Dev(r)] = Append(@, f)]
    /\ countdowns' = MacRxOk(countdowns, r)
    /\ lastExchange' = [lastExchange EXCEPT ![r] = now]
    /\ UNCHANGED <<active, queues, assoc, sessions>>

Receive(r, f) ==
    \/ RecvSetupRequest(r, f)
    \/ RecvSetupResponse(r, f)
    \/ RecvTearDown(r, f)
    \/ RecvAckRequest(r, f)
    \/ RecvAckResponse(r, f)
    \/ ForwardUp(r, f)

(***************************************************************************)
(* RegularWifiMac::TxOk: the sender m got the acknowledgement of f.        *)
(***************************************************************************)
TxOkSetupResponse(m, f) ==
    /\ f.kind = "FST_SETUP_RESPONSE"
    /\ SetupCompletion(m, FALSE)
    /\ UNCHANGED lastExchange

TxOkAckResponse(m, f) ==
    /\ f.kind = "FST_ACK_RESPONSE"
    /\ sessions' = [sessions EXCEPT ![m].state = "FST_TRANSITION_CONFIRMED_STATE"]
    /\ UNCHANGED <<active, queues, assoc, countdowns, lastExchange>>

\* Other frames only reach m_txOkCallback; data frames also MacTxOk.
TxOkOther(m, f) ==
    /\ f.kind \in {"FST_SETUP_REQUEST", "FST_ACK_REQUEST", "FST_TEAR_DOWN", "DATA"}
    /\ countdowns' = IF f.kind = "DATA" THEN MacTxOk(countdowns, m) ELSE countdowns
    /\ lastExchange' = IF f.kind = "DATA" THEN [lastExchange EXCEPT ![m] = now] ELSE lastExchange
    /\ UNCHANGED <<active, queues, assoc, sessions>>

TxOk(m, f) ==
    \/ TxOkSetupResponse(m, f)
    \/ TxOkAckResponse(m, f)
    \/ TxOkOther(m, f)

-----------------------------------------------------------------------------
(* Initial state: both devices associated over 60 GHz and active there. *)

Init ==
    /\ active = [d \in Devices |-> "80211ad"]
    /\ queues = [m \in Macs |-> [q \in QueueIds |-> <<>>]]
    /\ inflight = [m \in Macs |-> [q \in QueueIds |-> NoTx]]
    /\ sessions = [m \in Macs |-> DefaultSession]
    /\ fstId = [m \in Macs |-> 0]
    /\ countdowns = {}
    /\ now = 0
    /\ assoc = [m \in Macs |-> m[2] = "80211ad"]
    /\ sent = [d \in Devices |-> 0]
    /\ rcvd = [d \in Devices |-> <<>>]
    /\ dropped = [d \in Devices |-> {}]
    /\ losses = 0
    /\ teardowns = [d \in Devices |-> 0]
    /\ lastExchange = [m \in Macs |-> 0]
    /\ m_llt \in LltAttrs

Setups(d) == MapThenSumSet(LAMBDA s : fstId[<<d, s>>], Standards)

(***************************************************************************)
(* RegularWifiMac::SetupFSTSession on the device's active MAC, called by   *)
(* MultiBandNetDevice::EstablishFastSessionTransferSession: a new FSTS ID, *)
(* a new initiator entry for the peer (replacing any former one) and an    *)
(* FST Setup Request proposing Band_4_9GHz with this MAC's LLT.           *)
(***************************************************************************)
SetupFSTSession(m) ==
    LET id == fstId[m] + 1
    IN  /\ fstId' = [fstId EXCEPT ![m] = id]
        /\ sessions' = [sessions EXCEPT ![m] = [id |-> id, state |-> "FST_INITIAL_STATE",
                            init |-> TRUE, band |-> "Band_4_9GHz", llt |-> m_llt[Dev(m)]]]
        /\ countdowns' = Disown(countdowns, m)
        /\ queues' = Enq(queues, m, "DCA",
                         MgmtFrame("FST_SETUP_REQUEST", id, "Band_4_9GHz", m_llt[Dev(m)]))

EstablishFastSessionTransferSession(d) ==
    /\ d \in Initiators
    /\ Setups(d) < MaxSetups
    /\ SetupFSTSession(<<d, active[d]>>)
    /\ UNCHANGED <<m_llt, active, inflight, now, assoc, sent, rcvd, dropped, losses,
                   teardowns, lastExchange>>

\* MultiBandNetDevice::Send: the frame goes to the EDCA queue of its
\* access category on the active MAC.
Send(d, ac) ==
    /\ d \in DataSenders
    /\ sent[d] < MaxFrames
    /\ sent' = [sent EXCEPT ![d] = @ + 1]
    /\ queues' = Enq(queues, <<d, active[d]>>, ac, DataFrame(ac, sent[d] + 1))
    /\ UNCHANGED <<m_llt, active, inflight, sessions, fstId, countdowns, now, assoc,
                   rcvd, dropped, losses, teardowns, lastExchange>>

\* RegularWifiMac::SendFstTearDownFrame on the active MAC.
SendFstTearDownFrame(d) ==
    /\ teardowns[d] < MaxTeardowns
    /\ teardowns' = [teardowns EXCEPT ![d] = @ + 1]
    /\ queues' = Enq(queues, <<d, active[d]>>, "DCA", MgmtFrame("FST_TEAR_DOWN", 0, "NoBand", 0))
    /\ UNCHANGED <<m_llt, active, inflight, sessions, fstId, countdowns, now, assoc,
                   sent, rcvd, dropped, losses, lastExchange>>

(***************************************************************************)
(* Channel access of a Txop / QosTxop (txop.cc, outside the repository     *)
(* sources): the head of the queue becomes the frame in transmission.      *)
(* Both MACs of a device keep contending: the old band's radio stays up.  *)
(***************************************************************************)
StartTransmission(m, q) ==
    /\ inflight[m][q] = NoTx
    /\ queues[m][q] # <<>>
    /\ inflight' = [inflight EXCEPT ![m][q] = [frame |-> Head(queues[m][q]), rcvd |-> FALSE]]
    /\ queues' = [queues EXCEPT ![m][q] = Tail(@)]
    /\ UNCHANGED <<m_llt, active, sessions, fstId, countdowns, now, assoc, sent, rcvd,
                   dropped, losses, teardowns, lastExchange>>

\* The peer MAC on the same band receives the frame (and acknowledges it).
Deliver(m, q) ==
    /\ inflight[m][q] # NoTx
    /\ ~inflight[m][q].rcvd
    /\ inflight' = [inflight EXCEPT ![m][q].rcvd = TRUE]
    /\ Receive(PeerMac(m), inflight[m][q].frame)
    /\ UNCHANGED <<m_llt, fstId, now, sent, dropped, losses, teardowns>>

\* The acknowledgement reaches the sender: TxOk.
TxSuccess(m, q) ==
    /\ inflight[m][q] # NoTx
    /\ inflight[m][q].rcvd
    /\ inflight' = [inflight EXCEPT ![m][q] = NoTx]
    /\ TxOk(m, inflight[m][q].frame)
    /\ UNCHANGED <<m_llt, fstId, now, sent, rcvd, dropped, losses, teardowns>>

\* All retries fail (frame or acknowledgement lost): the frame is dropped
\* and TxFailed only reaches m_txErrCallback.
TxFailed(m, q) ==
    LET f == inflight[m][q].frame
    IN  /\ losses < MaxLoss
        /\ inflight[m][q] # NoTx
        /\ losses' = losses + 1
        /\ inflight' = [inflight EXCEPT ![m][q] = NoTx]
        /\ dropped' = IF f.kind = "DATA" /\ ~inflight[m][q].rcvd
                      THEN [dropped EXCEPT ![Dev(m)] = @ \cup {f.seq}]
                      ELSE dropped
        /\ UNCHANGED <<m_llt, active, queues, sessions, fstId, countdowns, now, assoc,
                       sent, rcvd, teardowns, lastExchange>>

\* A link-loss countdown expires: the scheduled ChangeBand runs.
CountdownExpires(e) ==
    /\ e.at = now
    /\ countdowns' = countdowns \ {e}
    /\ ChangeBand(e.mac, e.band, e.init)
    /\ UNCHANGED <<m_llt, inflight, sessions, fstId, now, sent, rcvd, dropped, losses,
                   teardowns, lastExchange>>

\* The simulator advances to the next scheduled event.
Tick ==
    /\ countdowns # {}
    /\ \A e \in countdowns : e.at > now
    /\ now' = now + 1
    /\ UNCHANGED <<m_llt, active, queues, inflight, sessions, fstId, countdowns, assoc,
                   sent, rcvd, dropped, losses, teardowns, lastExchange>>

Next ==
    \/ \E d \in Devices : EstablishFastSessionTransferSession(d)
    \/ \E d \in Devices, ac \in ACs : Send(d, ac)
    \/ \E d \in Devices : SendFstTearDownFrame(d)
    \/ \E m \in Macs, q \in QueueIds :
          \/ StartTransmission(m, q)
          \/ Deliver(m, q)
          \/ TxSuccess(m, q)
          \/ TxFailed(m, q)
    \/ \E e \in countdowns : CountdownExpires(e)
    \/ Tick

(***************************************************************************)
(* Fairness: the medium is never busy forever, so a Txop with a queued     *)
(* frame eventually transmits it and the outcome is eventually reported;   *)
(* the simulator runs every scheduled event and advances time.  Sending,   *)
(* FST setup and teardown are upper-layer choices and losses are not       *)
(* forced.                                                                 *)
(***************************************************************************)
Fairness ==
    /\ \A m \in Macs, q \in QueueIds :
          /\ WF_vars(StartTransmission(m, q))
          /\ WF_vars(Deliver(m, q))
          /\ WF_vars(TxSuccess(m, q))
    /\ WF_vars(\E e \in countdowns : CountdownExpires(e))
    /\ WF_vars(Tick)

Spec == Init /\ [][Next]_vars

FairSpec == Spec /\ Fairness

-----------------------------------------------------------------------------
(* Properties *)

TypeOK ==
    /\ active \in [Devices -> Standards]
    /\ queues \in [Macs -> [QueueIds -> Seq(Frames)]]
    /\ inflight \in [Macs -> [QueueIds -> TxSlots]]
    /\ sessions \in [Macs -> Session]
    /\ fstId \in [Macs -> Nat]
    /\ countdowns \subseteq Countdown
    /\ now \in Nat
    /\ assoc \in [Macs -> BOOLEAN]
    /\ m_llt \in LltAttrs
    /\ sent \in [Devices -> Nat]
    /\ rcvd \in [Devices -> Seq(DataFrames)]
    /\ dropped \in [Devices -> SUBSET Nat]
    /\ losses \in Nat
    /\ teardowns \in [Devices -> Nat]
    /\ lastExchange \in [Macs -> Nat]

MacsOf(d) == {<<d, s>> : s \in Standards}

CountSeq(s, n) == Cardinality({i \in DOMAIN s : s[i].kind = "DATA" /\ s[i].seq = n})

\* Where data frame n of device d is: queued on one of d's MACs, being
\* sent and not yet received, forwarded up at the peer, or dropped.
Copies(d, n) ==
    MapThenSumSet(LAMBDA mq : CountSeq(queues[mq[1]][mq[2]], n), MacsOf(d) \X QueueIds)
  + Cardinality({mq \in MacsOf(d) \X QueueIds :
                    LET t == inflight[mq[1]][mq[2]]
                    IN  t # NoTx /\ ~t.rcvd /\ t.frame.kind = "DATA" /\ t.frame.seq = n})
  + CountSeq(rcvd[Peer(d)], n)
  + (IF n \in dropped[d] THEN 1 ELSE 0)

(***************************************************************************)
(* Migration neither loses nor duplicates frames: every data frame a       *)
(* device sent is, at every moment, in exactly one place -- queued on one  *)
(* of its MACs, in transmission, delivered to the peer, or dropped after   *)
(* failed retries -- however BandChanged's TransferPacketsByAddress calls  *)
(* interleave with transmissions on both bands.                            *)
(***************************************************************************)
FramesConserved ==
    \A d \in Devices : \A n \in 1..MaxFrames :
        Copies(d, n) = IF n <= sent[d] THEN 1 ELSE 0

(***************************************************************************)
(* After any sequence of band switches, the MAC a device routes its        *)
(* traffic through holds the peer as associated: BandChanged copies the    *)
(* station's association state, and on the access point records the      *)
(* station as associated in the new station manager.                       *)
(***************************************************************************)
AssociatedOnActiveBand ==
    \A d \in Devices : assoc[<<d, active[d]>>]

(***************************************************************************)
(* The link-loss countdown is an inactivity timer: while a session is in   *)
(* FST_SETUP_COMPLETION_STATE, the countdown its entry holds expires no    *)
(* earlier than LLT (x 32 us) after the last data frame sent to or         *)
(* received from the peer on that MAC (MacTxOk / MacRxOk re-arm it).      *)
(***************************************************************************)
CountdownHonoursInactivity ==
    \A e \in countdowns :
        (e.owned /\ sessions[e.mac].state = "FST_SETUP_COMPLETION_STATE")
            => e.at >= lastExchange[e.mac] + sessions[e.mac].llt

(***************************************************************************)
(* Once an FST session has been initiated, and no frame is lost, both      *)
(* devices end up routing their traffic through the 5 GHz MAC: the         *)
(* initiator switches on the Setup Response, the responder on the          *)
(* acknowledgement of its Setup Response (each at once or when its         *)
(* countdown expires).                                                     *)
(***************************************************************************)
SwitchCompletes ==
    (\E m \in Macs : sessions[m].init) ~> (\A d \in Devices : active[d] = "80211n_5GHZ")

(***************************************************************************)
(* A Tear Down resets the session, and the spec requires that it cancel    *)
(* a running countdown: no link-loss countdown is pending for a MAC whose  *)
(* session is back in FST_INITIAL_STATE (RecvTearDown, RegularWifiMac::    *)
(* Receive FST_TEAR_DOWN).                                                 *)
(***************************************************************************)
NoCountdownAfterReset ==
    \A e \in countdowns : sessions[e.mac].state # "FST_INITIAL_STATE"

(***************************************************************************)
(* A session holds a single countdown handle: at most one link-loss        *)
(* countdown is pending per MAC, even when a new Setup Request or a new    *)
(* SetupFSTSession replaces the session entry.                             *)
(***************************************************************************)
SingleCountdown ==
    \A m \in Macs : Cardinality({e \in countdowns : e.mac = m}) <= 1

(***************************************************************************)
(* Every session a MAC initiated eventually reaches                        *)
(* FST_TRANSITION_CONFIRMED_STATE when no frame is lost (the initiator     *)
(* receives the FST Ack Response after the switch).                        *)
(***************************************************************************)
InitiatorConfirmed ==
    \A m \in Macs :
        sessions[m].init ~> sessions[m].state = "FST_TRANSITION_CONFIRMED_STATE"

(***************************************************************************)
(* The peer's upper layer receives the data frames of one access category  *)
(* in the order the device sent them, across a band switch.                *)
(***************************************************************************)
InOrderDelivery ==
    \A d \in Devices, ac \in ACs :
        LET s == SelectSeq(rcvd[d], LAMBDA f : f.ac = ac)
        IN  \A i, j \in DOMAIN s : i < j => s[i].seq < s[j].seq


-----------------------------------------------------------------------------
(***************************************************************************)
(* Refinement of BandSwitch.  A device is engaged once one of its MACs     *)
(* holds a session with an FSTS ID (SetupFSTSession on the initiator, the  *)
(* Setup Request on the responder); its band is m_standard; the frames     *)
(* forwarded up are named by their sequence numbers.                       *)
(***************************************************************************)
Engaged == {d \in Devices : \E s \in Standards : sessions[<<d, s>>].id > 0}

SeqNumbers(s) == [i \in DOMAIN s |-> s[i].seq]

BS == INSTANCE BandSwitch
        WITH band <- active,
             engaged <- Engaged,
             rcvd <- [d \in Devices |-> SeqNumbers(rcvd[d])]

(***************************************************************************)
(* Every behaviour of the device is one BandSwitch allows: MultiBandNet-   *)
(* Device switches a device's traffic only to 5 GHz, only after it took    *)
(* part in a session, never back, and the queue transfer on either band    *)
(* forwards each data frame up at most once and never after dropping it.   *)
(***************************************************************************)
ImplementsBandSwitch == BS!Spec

(***************************************************************************)
(* With the fairness of the channel and the simulator, also BandSwitch's   *)
(* promises come true: an engaged device switches and every frame sent is  *)
(* forwarded up or dropped.                                                *)
(***************************************************************************)
ImplementsBandSwitchFair == BS!FairSpec

=============================================================================
