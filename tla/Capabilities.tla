---------------------------- MODULE Capabilities ----------------------------
(***************************************************************************)
(* The capability elements a RegularWifiMac advertises                     *)
(* (GetHtCapabilities, GetVhtCapabilities, GetHeCapabilities in            *)
(* regular-wifi-mac.cc), computed from the MAC's per-access-category       *)
(* A-MSDU and A-MPDU size attributes and from its PHY.                     *)
(*                                                                         *)
(* The state is the configuration of one MAC: the size attributes, which   *)
(* the attribute system may set in any order to any value its checker      *)
(* admits, and the PHY parameters fixed at construction.  The element      *)
(* fields are operators of that state.                                     *)
(***************************************************************************)
EXTENDS Integers, FiniteSets, FiniteSetsExt, Bitwise

CONSTANTS
    ACs,            \* access categories whose size attributes are modelled
    AmpduValues,    \* values given to the XX_MaxAmpduSize attributes
    AmsduValues,    \* values given to the XX_MaxAmsduSize attributes
    Widths,         \* PHY channel widths, MHz
    Bands,          \* frequency bands of the PHY: "2_4GHz" or "5GHz"
    GuardIntervals, \* HeConfiguration GuardInterval, ns
    McsSets,        \* the MCS lists a PHY may support: sets of [cls, value]
    Configs,        \* the configuration objects a device may hold: sets of
                    \* "HT", "VHT", "HE" (HtConfiguration, VhtConfiguration, ...)
    MaxNss          \* bound: spatial streams of the PHY

\* MakeUintegerChecker<uint32_t> () and MakeUintegerChecker<uint16_t> (0, 11398).
ASSUME /\ AmpduValues \subseteq 0 .. 2^29
       /\ AmsduValues \subseteq 0 .. 11398

VARIABLES
    maxAmpduSize,   \* [ACs -> Nat]: m_voMaxAmpduSize, m_viMaxAmpduSize, ...
    maxAmsduSize,   \* [ACs -> Nat]: m_voMaxAmsduSize, ...
    phy             \* the PHY and HT/HE configuration the MAC reads

vars == <<maxAmpduSize, maxAmsduSize, phy>>

PhyConfigs == [width : Widths, band : Bands, sgi : BOOLEAN, greenfield : BOOLEAN,
               gi : GuardIntervals, mcs : McsSets, txNss : 1 .. MaxNss, rxNss : 1 .. MaxNss,
               conf : Configs]

\* Attribute defaults: VI and BE A-MPDU 65535, VO and BK 0, A-MSDU 0.
DefaultAmpdu(ac) == IF ac \in {"AC_VI", "AC_BE"} THEN 65535 ELSE 0

Init ==
    /\ maxAmpduSize = [ac \in ACs |-> DefaultAmpdu(ac)]
    /\ maxAmsduSize = [ac \in ACs |-> 0]
    /\ phy \in PhyConfigs

\* Mutant: the A-MPDU attribute accessor bound to the A-MSDU member.
SetMaxAmpduSize_wrongMember(ac, v) ==
    /\ maxAmsduSize' = [maxAmsduSize EXCEPT ![ac] = v]
    /\ UNCHANGED <<maxAmpduSize, phy>>

\* Config::Set of "XX_MaxAmpduSize" / "XX_MaxAmsduSize".
SetMaxAmpduSize(ac, v) ==
    /\ maxAmpduSize' = [maxAmpduSize EXCEPT ![ac] = v]
    /\ UNCHANGED <<maxAmsduSize, phy>>

SetMaxAmsduSize(ac, v) ==
    /\ maxAmsduSize' = [maxAmsduSize EXCEPT ![ac] = v]
    /\ UNCHANGED <<maxAmpduSize, phy>>

Next ==
    \/ \E ac \in ACs, v \in AmpduValues : SetMaxAmpduSize(ac, v)
    \/ \E ac \in ACs, v \in AmsduValues : SetMaxAmsduSize(ac, v)

Spec == Init /\ [][Next]_vars

-----------------------------------------------------------------------------
(* The computations *)

\* GetHtSupported, GetVhtSupported, GetHeSupported: the device holds the
\* configuration object.
GetHtSupported  == "HT" \in phy.conf
GetVhtSupported == "VHT" \in phy.conf
GetHeSupported  == "HE" \in phy.conf

\* GetExtendedCapabilities.
ExtendedCapabilities == [htSupported |-> GetHtSupported, vhtSupported |-> GetVhtSupported]

\* An element left as Create<...> () made it: the XxSupported field is 0.
Unsupported == [supported |-> 0]

\* std::max ({m_voMax.., m_viMax.., m_beMax.., m_bkMax..})
LargestOf(sizes) == Max({sizes[ac] : ac \in ACs})

\* Mutant: floor instead of ceil.
RECURSIVE FloorLog2(_)
FloorLog2(n) == IF n <= 1 THEN 0 ELSE 1 + FloorLog2(n \div 2)

\* static_cast<uint32_t> (std::ceil (std::log2 (n))), n >= 1.
RECURSIVE CeilLog2(_)
CeilLog2(n) == IF n <= 1 THEN 0 ELSE 1 + CeilLog2((n + 1) \div 2)

\* (1ul << ceil (log2 (x + 1))) - 1: "round to the next power of two minus one".
RoundUpPow2Minus1(x) == 2^CeilLog2(x + 1) - 1

Clamp(x, lo, hi) == IF x < lo THEN lo ELSE IF x > hi THEN hi ELSE x

\* std::min (std::max (maxAmpduLength, lo), hi) of the three elements.
AmpduLength(lo, hi) == Clamp(RoundUpPow2Minus1(LargestOf(maxAmpduSize)), lo, hi)

HtMaxAmsduLength(amsdu) == IF amsdu <= 3839 THEN 3839 ELSE 7935

\* Mutant: the first threshold of the Maximum MPDU Length one byte too high.
VhtMaxMpduLength_offByOne(amsdu) ==
    IF amsdu <= 3840 THEN 3895 ELSE IF amsdu <= 7935 THEN 7991 ELSE 11454

VhtMaxMpduLength(amsdu) ==
    IF amsdu <= 3839 THEN 3895 ELSE IF amsdu <= 7935 THEN 7991 ELSE 11454

\* Highest MCS value of a modulation class in the PHY's list, 0 if none.
MaxMcs(cls) == Max({0} \cup {m.value : m \in {x \in phy.mcs : x.cls = cls}})

\* The Rx MCS bitmask and highest data rates, computed from WifiMode rate
\* tables outside the sources, are left out of the three elements.
HtCapabilities ==
  IF ~GetHtSupported THEN Unsupported ELSE
    [supported             |-> 1,
     supportedChannelWidth |-> phy.width >= 40,
     shortGuardInterval20  |-> phy.sgi,
     shortGuardInterval40  |-> phy.width >= 40 /\ phy.sgi,
     greenfield            |-> phy.greenfield,
     maxAmsduLength        |-> HtMaxAmsduLength(LargestOf(maxAmsduSize)),
     maxAmpduLength        |-> AmpduLength(8191, 65535),
     lSigProtection        |-> ~phy.greenfield]

VhtCapabilities ==
  IF ~GetVhtSupported THEN Unsupported ELSE
    [supported                |-> 1,
     supportedChannelWidthSet |-> IF phy.width = 160 THEN 1 ELSE 0,
     maxMpduLength            |-> VhtMaxMpduLength(LargestOf(maxAmsduSize)),
     maxAmpduLength           |-> AmpduLength(8191, 1048575),
     sgi80                    |-> phy.width = 80 /\ phy.sgi,
     sgi160                   |-> phy.width = 160 /\ phy.sgi,
     rxMcsMap                 |-> [nss \in 1 .. phy.rxNss |-> MaxMcs("VHT")],
     txMcsMap                 |-> [nss \in 1 .. phy.txNss |-> MaxMcs("VHT")]]

HeChannelWidthSet ==
    (IF phy.width >= 40 /\ phy.band = "2_4GHz" THEN 1 ELSE 0)
      | (IF phy.width >= 80 /\ phy.band = "5GHz" THEN 2 ELSE 0)
      | (IF phy.width >= 160 /\ phy.band = "5GHz" THEN 4 ELSE 0)

HeGuardIntervals ==
    (IF phy.gi <= 1600 THEN 1 ELSE 0) | (IF phy.gi = 800 THEN 2 ELSE 0)

HeCapabilities ==
  IF ~GetHeSupported THEN Unsupported ELSE
    [supported        |-> 1,
     channelWidthSet  |-> HeChannelWidthSet,
     heLtfAndGi       |-> HeGuardIntervals,
     maxAmpduLength   |-> AmpduLength(1048575, 8388607),
     highestMcs       |-> MaxMcs("HE"),
     highestNss       |-> phy.txNss]


-----------------------------------------------------------------------------
(* Properties *)

TypeOK ==
    /\ maxAmpduSize \in [ACs -> AmpduValues \cup {0, 65535}]
    /\ maxAmsduSize \in [ACs -> AmsduValues \cup {0}]
    /\ phy \in PhyConfigs

\* The lengths a Maximum A-MPDU Length Exponent field can express:
\* 2^e - 1 for e in lo .. hi.
Encodable(lo, hi) == {2^e - 1 : e \in lo .. hi}

\* The smallest expressible length that covers the largest configured
\* A-MPDU size, or the element's largest one if none does.
AdvertisableAmpdu(lo, hi) ==
    Min({v \in Encodable(lo, hi) : v >= Min({LargestOf(maxAmpduSize), 2^hi - 1})})

(***************************************************************************)
(* For every configuration the attributes can reach, each capability       *)
(* element advertises as Maximum A-MPDU Length the smallest length its     *)
(* exponent field can encode that covers the largest of the four           *)
(* XX_MaxAmpduSize attributes, capped at the element's maximum (HT 2^16-1, *)
(* VHT 2^20-1, HE 2^23-1): the log2 / ceil rounding and the min/max clamp  *)
(* of GetHt/Vht/HeCapabilities together, for each element the device's   *)
(* configuration objects make it advertise.                               *)
(***************************************************************************)
AmpduLengthMatchesReference ==
    /\ GetHtSupported => HtCapabilities.maxAmpduLength = AdvertisableAmpdu(13, 16)
    /\ GetVhtSupported => VhtCapabilities.maxAmpduLength = AdvertisableAmpdu(13, 20)
    /\ GetHeSupported => HeCapabilities.maxAmpduLength = AdvertisableAmpdu(20, 23)

\* Bytes an MPDU adds to the A-MSDU it carries (3895 - 3839).
MpduOverhead == 56

(***************************************************************************)
(* The advertised A-MSDU (HT) and MPDU (VHT) length limits are the         *)
(* smallest allowed values that still carry the largest configured         *)
(* A-MSDU, up to the HT cap of 7935 bytes.                                 *)
(***************************************************************************)
AmsduLengthFits ==
    LET amsdu == LargestOf(maxAmsduSize)
    IN  /\ GetHtSupported => HtCapabilities.maxAmsduLength =
               Min({v \in {3839, 7935} : v >= Min({amsdu, 7935})})
        /\ GetVhtSupported => VhtCapabilities.maxMpduLength =
               Min({v \in {3895, 7991, 11454} : v >= amsdu + MpduOverhead})

=============================================================================
