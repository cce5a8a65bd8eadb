-------------------------- MODULE MacConfiguration --------------------------
(***************************************************************************)
(* How one RegularWifiMac is configured, from construction to the end of   *)
(* FinishConfigureStandard (regular-wifi-mac.cc).                           *)
(*                                                                         *)
(* The constructor sets the capability flags to false and creates the four *)
(* EDCA queues in priority order.  ConstructSelf then applies the          *)
(* attributes in the order GetTypeId declares them, through their setters, *)
(* with the value the helper gave or the default.  The MAC is not attached *)
(* to its device yet, so GetDevice () is null.  Finally the helper calls    *)
(* ConfigureStandard, whose FinishConfigureStandard sets the capabilities  *)
(* of the PHY standard (a switch with fall-through) and passes one         *)
(* contention-window range to the DCA and to every EDCA queue.             *)
(*                                                                         *)
(* The MAC is a record: each field is a member of RegularWifiMac, except   *)
(* msduAgg / mpduAgg (MacLow holds an aggregator) and htRifs (the RIFS     *)
(* flag of the device's HtConfiguration).  Every setter is an operator     *)
(* from record to record, so that a call sequence is a composition.        *)
(***************************************************************************)
EXTENDS Naturals, Sequences, SequencesExt, TLC

CONSTANTS
    Standards,          \* the PHY standards the helper may configure
    StationTypes,       \* TypeOfStation values a subclass constructor sets
    Thresholds,         \* values given to XX_BlockAckThreshold (0 .. 64)
    Timeouts            \* values given to XX_BlockAckInactivityTimeout

Ht5Standards  == {"80211ax_5GHZ", "80211ac", "80211n_5GHZ"}
Ht24Standards == {"80211ax_2_4GHZ", "80211n_2_4GHZ"}
HtStandards   == Ht5Standards \cup Ht24Standards
DmgStandards  == {"80211ad", "80211ay"}
OfdmStandards == {"holland", "80211a", "80211_10MHZ", "80211_5MHZ"}
AllStandards  == HtStandards \cup DmgStandards \cup OfdmStandards
                    \cup {"80211g", "80211b"}

ASSUME /\ Standards \subseteq AllStandards
       /\ Thresholds \subseteq 0 .. 64
       /\ Timeouts \subseteq 0 .. 65535

ACs == {"AC_VO", "AC_VI", "AC_BE", "AC_BK"}
\* The DCA Txop is configured as the special category AC_BE_NQOS.
Queues == ACs \cup {"AC_BE_NQOS"}
NotConfigured == [cwMin |-> 0, cwMax |-> 0, dsssOnly |-> FALSE]

ThresholdAttributes == {"VO_BlockAckThreshold", "VI_BlockAckThreshold",
                        "BE_BlockAckThreshold", "BK_BlockAckThreshold"}
TimeoutAttributes == {"VO_BlockAckInactivityTimeout", "VI_BlockAckInactivityTimeout",
                      "BE_BlockAckInactivityTimeout", "BK_BlockAckInactivityTimeout"}

\* The attributes of GetTypeId whose setter this module models, in
\* declaration order (HtSupported, VhtSupported, HeSupported have empty
\* setters; the FST and size attributes are modelled in MultiBandFst and
\* Capabilities).
AttributeOrder == <<"QosSupported", "DmgSupported", "EdmgSupported",
                    "CtsToSelfSupported",
                    "VO_BlockAckThreshold", "VI_BlockAckThreshold",
                    "BE_BlockAckThreshold", "BK_BlockAckThreshold",
                    "VO_BlockAckInactivityTimeout", "VI_BlockAckInactivityTimeout",
                    "BE_BlockAckInactivityTimeout", "BK_BlockAckInactivityTimeout",
                    "ShortSlotTimeSupported", "RifsSupported">>

\* The values the checker of each attribute admits, as the model enumerates them.
AttributeValues(a) ==
    IF a \in ThresholdAttributes THEN Thresholds
    ELSE IF a \in TimeoutAttributes THEN Timeouts ELSE BOOLEAN

VARIABLES
    mac,                \* the RegularWifiMac, a record (see above)
    htConfiguration,    \* the device holds an HtConfiguration
    applied,            \* number of attributes ConstructSelf has applied
    given,              \* the value ConstructSelf passed for each applied attribute
    standard,           \* the standard configured, or "none"
    stationManager,     \* the WifiRemoteStationManager of the technology
    node                \* MultiBandNetDevice::m_node is set

vars == <<mac, htConfiguration, applied, given, standard, stationManager, node>>

-----------------------------------------------------------------------------
(* The setters and helpers, as in the code.                                *)

SetQosSupported(m, enable) == [m EXCEPT !.qos = enable]

EnableAggregation(m) == [m EXCEPT !.msduAgg = TRUE, !.mpduAgg = TRUE]

DisableAggregation(m) == [m EXCEPT !.msduAgg = FALSE, !.mpduAgg = FALSE]

\* Mutant: DMG enables QoS but never creates the aggregators.
SetDmgSupported_noAgg(m, enable) ==
    LET m1 == [m EXCEPT !.dmg = enable]
    IN  IF enable THEN SetQosSupported(m1, TRUE) ELSE DisableAggregation(m1)

SetDmgSupported(m, enable) ==
    LET m1 == [m EXCEPT !.dmg = enable]
    IN  IF enable THEN EnableAggregation(SetQosSupported(m1, TRUE))
                  ELSE DisableAggregation(m1)

SetEdmgSupported(m, enable) ==
    LET m1 == [m EXCEPT !.edmg = enable]
    IN  IF enable THEN EnableAggregation(SetQosSupported(m1, TRUE))
                  ELSE DisableAggregation(m1)

SetDsssSupported(m, enable) == [m EXCEPT !.dsss = enable]

SetErpSupported(m, enable) ==
    [(IF enable THEN SetDsssSupported(m, TRUE) ELSE m) EXCEPT !.erp = enable]

\* htConf: GetDevice () is a WifiNetDevice holding an HtConfiguration.
SetRifsSupported(m, enable, htConf) ==
    [m EXCEPT !.htRifs = IF htConf THEN enable ELSE @, !.rifs = enable]

\* m_low->SetCtsToSelfSupported (enable): ctsToSelf is MacLow's flag.
SetCtsToSelfSupported(m, enable) == [m EXCEPT !.ctsToSelf = enable]

SetShortSlotTimeSupported(m, enable) == [m EXCEPT !.shortSlot = enable]

GetRifsSupported(m, htConf) == IF htConf THEN m.htRifs ELSE m.rifs

SetupEdcaQueue(m, ac) ==
    LET fresh == Assert(ac \notin ToSet(m.edca), "EDCA queue already configured")
    IN  IF fresh THEN [m EXCEPT !.edca = Append(@, ac)] ELSE m

\* GetVOQueue, GetVIQueue, ...: m_edca.find (ac)->second, which must exist.
GetQueue(m, ac) ==
    LET found == Assert(ac \in ToSet(m.edca), "no EDCA queue for the category")
    IN  IF found THEN ac ELSE ac

\* Mutant: SetViBlockAckThreshold forwards to GetVOQueue.
ThresholdQueue_viToVo(a) ==
    CASE a = "VO_BlockAckThreshold" -> "AC_VO"
      [] a = "VI_BlockAckThreshold" -> "AC_VO"
      [] a = "BE_BlockAckThreshold" -> "AC_BE"
      [] a = "BK_BlockAckThreshold" -> "AC_BK"

\* The queue each SetXxBlockAckThreshold forwards to.
ThresholdQueue(a) ==
    CASE a = "VO_BlockAckThreshold" -> "AC_VO"
      [] a = "VI_BlockAckThreshold" -> "AC_VI"
      [] a = "BE_BlockAckThreshold" -> "AC_BE"
      [] a = "BK_BlockAckThreshold" -> "AC_BK"

\* The queue each SetXxBlockAckInactivityTimeout forwards to.
TimeoutQueue(a) ==
    CASE a = "VO_BlockAckInactivityTimeout" -> "AC_VO"
      [] a = "VI_BlockAckInactivityTimeout" -> "AC_VI"
      [] a = "BE_BlockAckInactivityTimeout" -> "AC_BE"
      [] a = "BK_BlockAckInactivityTimeout" -> "AC_BK"

\* QosTxop::SetBlockAckThreshold / SetBlockAckInactivityTimeout on the queue.
SetBlockAckThreshold(m, a, v) ==
    [m EXCEPT !.ba[GetQueue(m, ThresholdQueue(a))].threshold = v]

SetBlockAckInactivityTimeout(m, a, v) ==
    [m EXCEPT !.ba[GetQueue(m, TimeoutQueue(a))].timeout = v]

\* The type goes to every EDCA queue that exists, then to m_type.
SetTypeOfStation(m, type) ==
    [m EXCEPT !.qtype = [ac \in ACs |-> IF ac \in ToSet(m.edca) THEN type ELSE @[ac]],
              !.type = type]

\* The setter ConstructSelf calls for attribute a; the device is not set.
ApplyAttribute(m, a, v) ==
    CASE a = "QosSupported"       -> SetQosSupported(m, v)
      [] a = "DmgSupported"       -> SetDmgSupported(m, v)
      [] a = "EdmgSupported"      -> SetEdmgSupported(m, v)
      [] a \in ThresholdAttributes -> SetBlockAckThreshold(m, a, v)
      [] a \in TimeoutAttributes   -> SetBlockAckInactivityTimeout(m, a, v)
      [] a = "CtsToSelfSupported" -> SetCtsToSelfSupported(m, v)
      [] a = "ShortSlotTimeSupported" -> SetShortSlotTimeSupported(m, v)
      [] a = "RifsSupported"      -> SetRifsSupported(m, v, FALSE)

\* The two HT cases of FinishConfigureStandard.
HtBranch(m) ==
    SetQosSupported([EnableAggregation(m) EXCEPT !.htRifs = m.rifs], TRUE)

\* The capability calls of the switch, with its fall-through: the 2.4 GHz
\* HT standards fall into 80211g, which falls into the OFDM group.
StandardCapabilities(m, std) ==
    CASE std = "80211ad"       -> SetDmgSupported(m, TRUE)
      [] std = "80211ay"       -> SetEdmgSupported(m, TRUE)
      [] std \in Ht5Standards  -> HtBranch(m)
      [] std \in Ht24Standards -> SetErpSupported(HtBranch(m), TRUE)
      [] std = "80211g"        -> SetErpSupported(m, TRUE)
      [] std \in OfdmStandards -> m
      [] std = "80211b"        -> SetDsssSupported(m, TRUE)

\* Mutant: the 80211ay case forgets cwmin, which keeps its initial 0.
StandardCw_ayUnset(std) ==
    CASE std = "80211b"  -> <<31, 1023>>
      [] std = "80211ay" -> <<0, 1023>>
      [] OTHER           -> <<15, 1023>>

\* <<cwmin, cwmax>> as the switch leaves them.
StandardCw(std) == IF std = "80211b" THEN <<31, 1023>> ELSE <<15, 1023>>

\* Mutant: isDsssOnly from the DSSS flag alone.
ConfigureContentionWindow_dsssFlag(m, cwMin, cwMax) ==
    LET params == [cwMin |-> cwMin, cwMax |-> cwMax, dsssOnly |-> m.dsss]
    IN  [m EXCEPT !.dcf = [q \in Queues |->
                             IF q \in ToSet(m.edca) \cup {"AC_BE_NQOS"}
                             THEN params ELSE @[q]]]

\* ConfigureDcf is called with the same arguments for the DCA and every
\* EDCA queue; the model records those arguments.
ConfigureContentionWindow(m, cwMin, cwMax) ==
    LET isDsssOnly == m.dsss /\ ~m.erp
        params == [cwMin |-> cwMin, cwMax |-> cwMax, dsssOnly |-> isDsssOnly]
    IN  [m EXCEPT !.dcf = [q \in Queues |->
                             IF q \in ToSet(m.edca) \cup {"AC_BE_NQOS"}
                             THEN params ELSE @[q]]]

\* SetWifiPhy: m_phy set, the PHY listener and MacLow's PHY installed.
SetWifiPhy(m) == [m EXCEPT !.phy = TRUE]

\* SetWifiRemoteStationManager, the station manager's side: the FST
\* callbacks MacTxOk / MacRxOk registered, the DMG and EDMG flags copied.
SetWifiRemoteStationManager(m, sm) ==
    [sm EXCEPT !.txOk = TRUE, !.rxOk = TRUE, !.dmg = m.dmg, !.edmg = m.edmg]

\* The MAC's side: m_stationManager, also given to MacLow, DCA and EDCAs.
AttachStationManager(m) == [m EXCEPT !.sm = TRUE]

\* SetForwardUpCallback, SetLinkUpCallback, SetLinkDownCallback.
SetCallbacks(m) == [m EXCEPT !.callbacks = {"ForwardUp", "LinkUp", "LinkDown"}]

\* DoInitialize: the DCA and every EDCA queue in m_edca.
DoInitialize(m) == [m EXCEPT !.init = ToSet(m.edca) \cup {"AC_BE_NQOS"}]

\* DoDispose: PHY and station manager dropped, DCA and EDCAs disposed; the
\* m_edca entries stay, holding null.
DoDispose(m) == [m EXCEPT !.phy = FALSE, !.sm = FALSE, !.init = {}, !.disposed = TRUE]

-----------------------------------------------------------------------------
(* The constructor: flags cleared, EDCA queues created VO, VI, BE, BK.     *)
(* m_rifsSupported, m_shortSlotTimeSupported and m_type are not in the     *)
(* initializer list: uninitialised until ConstructSelf or the subclass     *)
(* sets them.  The new MacLow does not use CTS-to-self.  A queue's         *)
(* own station type and block-ack parameters start as QosTxop leaves them  *)
(* ("unset", 0).                                                           *)
Constructed(rifs0, slot0, type0) ==
    FoldLeft(SetupEdcaQueue,
             [qos |-> FALSE, dmg |-> FALSE, edmg |-> FALSE, erp |-> FALSE,
              dsss |-> FALSE, rifs |-> rifs0, htRifs |-> FALSE,
              ctsToSelf |-> FALSE, shortSlot |-> slot0,
              msduAgg |-> FALSE, mpduAgg |-> FALSE, edca |-> <<>>,
              dcf |-> [q \in Queues |-> NotConfigured],
              type |-> type0, qtype |-> [ac \in ACs |-> "unset"],
              ba |-> [ac \in ACs |-> [threshold |-> 0, timeout |-> 0]],
              phy |-> FALSE, sm |-> FALSE, callbacks |-> {}, init |-> {},
              disposed |-> FALSE],
             <<"AC_VO", "AC_VI", "AC_BE", "AC_BK">>)

\* The subclass constructor (StaWifiMac, ApWifiMac, DmgAdhocWifiMac, ...)
\* runs after RegularWifiMac's and calls SetTypeOfStation.
Init ==
    /\ mac \in {SetTypeOfStation(Constructed(r, sl, t0), t) :
                    r \in BOOLEAN, sl \in BOOLEAN, t0 \in StationTypes, t \in StationTypes}
    /\ htConfiguration \in BOOLEAN
    /\ applied = 0
    /\ given = <<>>
    /\ standard = "none"
    /\ stationManager = [txOk |-> FALSE, rxOk |-> FALSE, dmg |-> FALSE,
                         edmg |-> FALSE, setup |-> FALSE]
    /\ node = FALSE

\* ConstructSelf applies the next attribute, with the helper's value or the
\* default (false).
ConstructAttribute ==
    /\ applied < Len(AttributeOrder)
    /\ LET a == AttributeOrder[applied + 1]
       IN  \E v \in AttributeValues(a) :
              /\ mac' = ApplyAttribute(mac, a, v)
              /\ given' = Append(given, v)
    /\ applied' = applied + 1
    /\ UNCHANGED <<htConfiguration, standard, stationManager, node>>

\* ConfigureStandard after construction.  An HT standard on a device
\* without HtConfiguration fails NS_ASSERT (htConfiguration).
FinishConfigureStandard(std) ==
    /\ applied = Len(AttributeOrder)
    /\ standard = "none"
    /\ std \in HtStandards => htConfiguration
    /\ mac' = ConfigureContentionWindow(StandardCapabilities(mac, std),
                                        StandardCw(std)[1], StandardCw(std)[2])
    /\ standard' = std
    /\ UNCHANGED <<htConfiguration, applied, given, stationManager, node>>

\* The helper adds the MAC to the device (AddNewWifiTechnology) and then
\* installs the device on its node: SetNode calls CompleteConfig, which
\* returns early once m_configComplete, and otherwise wires the MAC of the
\* (one) technology to its PHY and station manager.
SetNode ==
    /\ ~node
    /\ ~mac.disposed
    /\ node' = TRUE
    /\ mac' = SetCallbacks(AttachStationManager(SetWifiPhy(mac)))
    /\ stationManager' = [SetWifiRemoteStationManager(mac, stationManager)
                              EXCEPT !.setup = TRUE]
    /\ UNCHANGED <<htConfiguration, applied, given, standard>>

\* Simulator start: MultiBandNetDevice::DoInitialize initializes the PHY,
\* the MAC and the station manager of each technology.
Initialize ==
    /\ node
    /\ mac.init = {}
    /\ ~mac.disposed
    /\ mac' = DoInitialize(mac)
    /\ UNCHANGED <<htConfiguration, applied, given, standard, stationManager, node>>

\* Simulator::Destroy: MultiBandNetDevice::DoDispose clears m_node and
\* disposes the MAC.
Dispose ==
    /\ mac.init # {}
    /\ mac' = DoDispose(mac)
    /\ node' = FALSE
    /\ UNCHANGED <<htConfiguration, applied, given, standard, stationManager>>

Next ==
    \/ ConstructAttribute
    \/ \E std \in Standards : FinishConfigureStandard(std)
    \/ SetNode
    \/ Initialize
    \/ Dispose

Spec == Init /\ [][Next]_vars

-----------------------------------------------------------------------------
(* Properties.                                                             *)

DcfParams == [cwMin : 1 .. 1023, cwMax : 1 .. 1023, dsssOnly : BOOLEAN]

TypeOK ==
    /\ mac \in [qos : BOOLEAN, dmg : BOOLEAN, edmg : BOOLEAN, erp : BOOLEAN,
                dsss : BOOLEAN, rifs : BOOLEAN, htRifs : BOOLEAN,
                ctsToSelf : BOOLEAN, shortSlot : BOOLEAN,
                msduAgg : BOOLEAN, mpduAgg : BOOLEAN, edca : Seq(ACs),
                dcf : [Queues -> DcfParams \cup {NotConfigured}],
                type : StationTypes, qtype : [ACs -> StationTypes \cup {"unset"}],
                ba : [ACs -> [threshold : 0 .. 64, timeout : 0 .. 65535]],
                phy : BOOLEAN, sm : BOOLEAN,
                callbacks : SUBSET {"ForwardUp", "LinkUp", "LinkDown"},
                init : SUBSET Queues, disposed : BOOLEAN]
    /\ htConfiguration \in BOOLEAN
    /\ applied \in 0 .. Len(AttributeOrder)
    /\ Len(given) = applied
    /\ standard \in Standards \cup {"none"}
    /\ stationManager \in [txOk : BOOLEAN, rxOk : BOOLEAN, dmg : BOOLEAN,
                           edmg : BOOLEAN, setup : BOOLEAN]
    /\ node \in BOOLEAN

(***************************************************************************)
(* Once FinishConfigureStandard has run, the DCA and each of the four EDCA *)
(* queues were given the contention-window range of the standard's PHY:    *)
(* aCWmin 31 for the DSSS PHY of 802.11b and 15 for every other PHY,       *)
(* aCWmax 1023, and the DSSS-only parameters exactly for 802.11b.  The     *)
(* code reaches this through the switch's fall-through and through         *)
(* isDsssOnly = m_dsssSupported && !m_erpSupported, two flags that         *)
(* different cases set (SetErpSupported also sets DSSS).                   *)
(***************************************************************************)
ContentionWindowsOfStandard ==
    standard # "none" =>
        \A q \in Queues :
            mac.dcf[q] = [cwMin |-> IF standard = "80211b" THEN 31 ELSE 15,
                          cwMax |-> 1023,
                          dsssOnly |-> standard = "80211b"]

(***************************************************************************)
(* A MAC configured for an HT or DMG standard ends up with QoS and with    *)
(* both aggregators, whatever QosSupported, DmgSupported and EdmgSupported *)
(* ConstructSelf applied before: SetDmgSupported (false) and               *)
(* SetEdmgSupported (false), the defaults, remove the aggregators, and     *)
(* FinishConfigureStandard must create them again.                         *)
(***************************************************************************)
HighThroughputAggregates ==
    standard \in HtStandards \cup DmgStandards =>
        mac.qos /\ mac.msduAgg /\ mac.mpduAgg

\* The value ConstructSelf gave the attribute named name.
Given(name) == given[CHOOSE i \in DOMAIN AttributeOrder : AttributeOrder[i] = name]

AcPrefix == [AC_VO |-> "VO", AC_VI |-> "VI", AC_BE |-> "BE", AC_BK |-> "BK"]

(***************************************************************************)
(* Once ConstructSelf has applied every attribute, each of the four EDCA   *)
(* queues holds the station type of its MAC and the block-ack threshold    *)
(* and inactivity timeout of its own access category: the subclass        *)
(* constructor's SetTypeOfStation must reach the queues the base           *)
(* constructor created, and each of the eight XX_BlockAck... accessors     *)
(* must forward to the queue GetXXQueue returns for its category.          *)
(***************************************************************************)
EdcaQueuesConfigured ==
    applied = Len(AttributeOrder) =>
        \A ac \in ACs :
            /\ mac.qtype[ac] = mac.type
            /\ mac.ba[ac] = [threshold |-> Given(AcPrefix[ac] \o "_BlockAckThreshold"),
                             timeout |-> Given(AcPrefix[ac] \o "_BlockAckInactivityTimeout")]

=============================================================================
