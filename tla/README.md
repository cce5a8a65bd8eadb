# Fast Session Transfer and band switching: TLA+ models

The models cover the multi-band part of this ns-3 Wi-Fi code:

- the Fast Session Transfer (FST) handshake of `RegularWifiMac`, in
  `src/src/wifi/model/regular-wifi-mac.cc`;
- the band switch of `MultiBandNetDevice`, in `src/unnamed/part_001`, which is
  `multi-band-net-device.cc`.

## The system

A multi-band device (`MultiBandNetDevice`) owns one technology per PHY
standard. Each technology has its own PHY, its own `RegularWifiMac` and its own
station manager. Here the technologies are an 802.11ad (60 GHz) MAC and an
802.11n 5 GHz MAC. `m_mac` is the active MAC. `Send` enqueues every outgoing
frame there, and frames received on any MAC go up through `ForwardUp`.

Every `RegularWifiMac` has these parts of its own:

- transmit queues: the DCA `Txop` queue for management frames, and one
  `QosTxop` queue per access category;
- an FST session table, `m_fstSessionMap`, keyed by peer address;
- a session counter, `m_fstId`.

The FST handshake runs between the two MACs of one band:

1. `SetupFSTSession` creates an initiator session and queues a Setup Request.
2. The responder's `Receive` creates a responder session and queues a Setup
   Response.
3. Receiving that response (initiator) and getting its acknowledgement
   (responder, in `TxOk`) moves each side to `FST_SETUP_COMPLETION_STATE`.
   What happens next depends on the LLT:
   - with LLT = 0, the side goes to `FST_TRANSITION_DONE_STATE` and calls
     `ChangeBand` at once;
   - with LLT > 0, the side schedules a link-loss countdown, a `ChangeBand`
     event LLT·32 µs ahead. `MacTxOk`/`MacRxOk` push the countdown back on
     every successful exchange.
4. `ChangeBand` calls the device's `BandChanged`, which does the following:
   - switches `m_mac`;
   - moves the frames for the peer from the old MAC's queues to the new MAC's
     queues (`TransferPacketsByAddress`);
   - copies block-ack agreements;
   - copies the association state (a station copies its BSSID and state; an
     access point calls `RecordGotAssocTxOk`);
   - calls `NotifyBandChanged` on the new MAC. On the initiator, this queues an
     FST Ack Request on the new band.
5. The responder answers the Ack Request with an Ack Response. Both sides move
   to `FST_TRANSITION_CONFIRMED_STATE`.

A Tear Down frame resets the receiver's session to `FST_INITIAL_STATE`.

## Modules

| module | models |
|---|---|
| `MultiBandFst.tla` | The FST handshake and the band switch for two devices (a station and an access point), each with a 60 GHz MAC and a 5 GHz MAC, their queues, frames in transmission, link-loss countdowns, and data traffic. |
| `BandSwitch.tla` | The abstract specification of the band switch that `MultiBandFst` implements. |
| `MCMultiBandFst.tla` | The instance for TLC: model values for the devices and the LLT settings. |
| `BlockAckTransfer.tla` | Block-ack agreements of the two devices, the ADDBA/DELBA exchange of `Receive` and `SendAddBaResponse`, and what `BandChanged` does to them. |
| `MCBlockAckTransfer.tla` | The instance for TLC of `BlockAckTransfer`. |
| `FstBlockAck.tla` | The composition of `MultiBandFst` and `BlockAckTransfer`: the FST handshake drives the band switch, and the same `BandChanged` moves the ADDBA frames and copies the agreements. |
| `MCFstBlockAck.tla` | The instance for TLC of `FstBlockAck`. |
| `Capabilities.tla` | The HT, VHT and HE capability elements of `RegularWifiMac` (`GetHtCapabilities`, `GetVhtCapabilities`, `GetHeCapabilities`) as operators of the MAC's size attributes and PHY. |
| `MacConfiguration.tla` | One `RegularWifiMac` from construction to disposal: capability flags, aggregation, RIFS, block-ack attributes, station type, contention windows, the device's `CompleteConfig`, `DoInitialize` and `DoDispose`. |
| `MCMacConfiguration.tla` | The instance for TLC of `MacConfiguration`. |
| `MCCapabilities.tla` | The attribute values and PHY parameters TLC enumerates. |

### How `MultiBandFst` corresponds to the code

**Variables**

| variable | code |
|---|---|
| `active` | `MultiBandNetDevice::m_standard` / `m_mac` |
| `queues[m][q]` | the `WifiMacQueue` of MAC `m`'s DCA `Txop`, or of its `QosTxop` for access category `q` |
| `inflight[m][q]` | the frame that Txop is sending (`m_currentPacket`), and whether the peer already has it |
| `sessions[m]` | `m_fstSessionMap[peer]` of MAC `m`, without its `EventId` |
| `fstId[m]` | `m_fstId` |
| `countdowns` | the scheduled `ChangeBand` events. `owned` is true while a session's `LinkLossCountDownEvent` still refers to the event. An overwritten handle leaves the event scheduled and un-owned, exactly as the code does. |
| `assoc[m]` | MAC `m` holds the peer as associated |
| `now` | the simulation clock, in units of 32 µs |
| `m_llt[d]` | the `LLT` attribute of device `d`'s MACs (`m_llt`), chosen from `LltAttrs` at start |

Four variables are history kept for the properties:

- `sent`, `rcvd`, `dropped` track data frames;
- `lastExchange` is the time of the last data exchange on a MAC.

Two more count what the bounds limit: `losses` and `teardowns`.

**Actions**

- Every FST branch of `Receive` is its own action:
  - `RecvSetupRequest`
  - `RecvSetupResponse`
  - `RecvTearDown`
  - `RecvAckRequest`
  - `RecvAckResponse`
- Every branch of `TxOk` is also an action: `TxOkSetupResponse`,
  `TxOkAckResponse` and `TxOkOther`.
- `Deliver` hands a frame to the peer MAC's `Receive`. `TxSuccess` hands the
  acknowledgement to the sender's `TxOk`. They are separate because a frame can
  be received while its acknowledgement is lost.
- `TxFailed` drops a frame after all its retries have failed.
- `SetupCompletion` is the switch point shared by the initiator and the
  responder. It covers both LLT branches.
- `CountdownExpires` runs a scheduled `ChangeBand` as a whole: `BandChanged`,
  the queue transfer and `NotifyBandChanged` happen in one step, as they do in
  one simulator event.
- `Tick` advances time to the next event. It is enabled only while a countdown
  is pending.

`PROJECT.json` ("map") gives the source lines of every definition.

**Abstractions**

- Each device has one peer. Every queued frame is therefore addressed to that
  peer, and a session table has one entry.
- Frames keep only the fields the receiver acts on: kind, FSTS ID, band and
  LLT. Data frames keep their access category and a sequence number.
- Channel access, backoff and retransmission (`Txop`/`QosTxop`, outside the
  sources) become three steps: take the head of the queue, deliver it, report
  success or failure. Both MACs of a device keep contending after a switch,
  because `BandChanged` never stops the old radio.
- The station manager's RxOk/TxOk callbacks (`MacRxOk`/`MacTxOk`) are driven by
  data frames.
- The two MACs of a device share one MAC address, as the multi-band helper
  configures them. `ForwardUp`'s `to == m_mac->GetAddress ()` check therefore
  accepts frames that arrive on either band.
- `WifiMacQueue::TransferPacketsByAddress` is not in the sources. It is modelled
  from the spec (§4.1): the frames for the peer move, in order, to the end of
  the target queue.

## Runs

All runs use `MCMultiBandFst` with the cfg named below.

| run | cfg | expect | checks |
|---|---|---|---|
| countdown | `_countdown` | pass | `TypeOK`, `FramesConserved`, `AssociatedOnActiveBand`, `CountdownHonoursInactivity`, `ImplementsBandSwitch` |
| switch_live | `_live` | pass | `SwitchCompletes`, `ImplementsBandSwitchFair` under `FairSpec` |
| teardown_timer | `_teardown` | violation | `NoCountdownAfterReset` |
| crossed_setup | `_crossed` | violation | `SingleCountdown` |
| initiator_confirmed | `_confirm` | violation | `InitiatorConfirmed` |
| in_order | `_order` | violation | `InOrderDelivery` |

**Countdown run.** The station's `LLT` attribute is either 1 (a link-loss
countdown) or 0 (each side switches inside a receive or acknowledge handler);
the access point's is 0. Only the initiator's attribute matters: the responder
takes the LLT from the Setup Request (line 1341). The station initiates one session. It sends two
data frames while the handshake, the countdown and the switch go on. One Tear
Down per device and one failed transmission may happen. The run checks:

- every data frame is in exactly one place: a queue, in transmission, delivered,
  or dropped;
- the active MAC of each device holds the peer as associated;
- an armed countdown never expires sooner than LLT after the last data
  exchange;
- the device implements the abstract `BandSwitch` specification (below).

This run explores 1.7 M states in about three minutes.

**switch_live.** Once a session has started and no frame is lost, both devices
end up on 5 GHz, and the behaviours implement `BandSwitch` with its fairness.
The station may set up two sessions. `SetupFSTSession` always proposes
`Band_4_9GHz` (lines 996-1017), so the second one, started from the 5 GHz MAC,
ends in a switch from 5 GHz to 5 GHz. The run shows that this is a no-op for
the abstract band: there is no second `Switch`, and the frame is still
delivered. It also shows that FST has no way back to 60 GHz. This run has
129 k states and takes about 40 seconds.

### The abstract specification (`BandSwitch`)

`BandSwitch.tla` states what the multi-band device promises the layer above,
without frames, queues, sessions or timers. Each device routes through one
band. It moves from 60 GHz to 5 GHz at most once, and only after it has taken
part in an FST session. Each data frame it sends is forwarded up at the peer at
most once, or dropped, in any order. Under fairness an engaged device moves,
and every frame sent is eventually forwarded up or dropped.

`MultiBandFst` maps onto it with `BS == INSTANCE BandSwitch WITH ...`:

- `band` is `active`;
- `engaged` is `Engaged`, the devices with a session entry whose FSTS ID is not
  zero. Both `SetupFSTSession` and the responder's `RecvSetupRequest` give the
  entry a fresh ID, and a Tear Down keeps it;
- `rcvd` is the sequence numbers of the frames `ForwardUp` passed up;
- `sent` and `dropped` are the same history variables.

`ImplementsBandSwitch` (`BS!Spec`) is checked in the countdown run, with loss
and teardown. `ImplementsBandSwitchFair` (`BS!FairSpec`) is checked in the live
run, where no frame is lost.

**Violation runs.** Each one shows a behaviour of the code that contradicts
`spec.md` or the code's own comments. The findings in `PROJECT.json` give the
line of each.

- **teardown_timer:** a Tear Down does not cancel the running countdown, so the
  band still switches.
- **crossed_setup:** Setup Requests from both devices cross and leave two
  countdowns pending on one MAC.
- **initiator_confirmed:** `NotifyBandChanged` and the Ack Response both use a
  default entry of the new MAC's table. The Ack Request therefore carries FSTS
  ID 0, and the initiator's own session is never confirmed.
- **in_order:** a data frame that was already in transmission on 60 GHz is
  overtaken by a later frame sent on 5 GHz.

### Bounds

The bounds are set per cfg:

- `MaxSetups`: FST sessions a device initiates;
- `MaxTeardowns`: Tear Down frames a device sends;
- `MaxFrames`: data frames a device sends;
- `MaxLoss`: failed transmissions.

One access category is enough for ordering and conservation: the access
categories are independent queues that the transfer treats alike. A second one
multiplies the states by six without reaching new control paths.

Two data frames are the fewest that can overtake one another. With them, one
frame can be queued while another is in transmission at the moment of the
switch.

One loss is enough to reach both failure outcomes: a lost data frame, and a
lost acknowledgement after the peer received the frame.

Time only advances while a countdown is pending, and a countdown of one unit
already separates "before" from "after" expiry.

### Fairness

`FairSpec` assumes weak fairness of the following:

- each Txop's start, delivery and acknowledgement steps, because the medium is
  not held forever by others;
- the expiry of a due countdown and `Tick`, because the simulator runs every
  scheduled event.

Nothing forces the upper layer to send, set up or tear down.

Deadlock checking is off (`CHECK_DEADLOCK FALSE`) in every cfg, for two
reasons. A simulation with no pending event and no traffic simply ends. And the
bounds make every behaviour finite.

## Block-ack agreements (`BlockAckTransfer`)

Per MAC and access category the module keeps:

- `orig`: the originator agreement with the peer held by the `QosTxop`'s
  block-ack manager: `NONE`, `PENDING` after the ADDBA Request, `ESTABLISHED`
  after the ADDBA Response;
- `recip`: whether `MacLow` holds a recipient agreement for the peer;
- `queues`: the EDCA queue, holding the ADDBA/DELBA action frames.

`Transmit` takes the head of a queue and runs the `BLOCK_ACK` branch of the
peer MAC's `Receive` in the same step. An ADDBA Request runs
`SendAddBaResponse`, which creates the recipient agreement and pushes the
response to the head of the queue. `BandChanged` switches the active MAC,
appends the old MAC's queued frames to the new MAC's queues, and copies the
originator agreements. The QosTxop side (`SendAddBaRequest`, DELBA,
`GotAddBaResponse`) and the recipient's inactivity teardown are outside the
sources. They are modelled from the spec and marked so in the map.

| run | cfg | expect | checks |
|---|---|---|---|
| ba_single | `_single` | pass | `OriginatorHasRecipient`, `PendingResolves` (FairSpec, no switch) |
| ba_handshake | `_handshake` | pass | `ResponseFindsPending` (the station switches once) |
| ba_recipient | `MCFstBlockAck.cfg` | violation | `OriginatorHasRecipient` (the switch comes from the FST handshake, see below) |
| ba_moved | `_moved` | violation | `ResponseFindsPending` (the access point switches) |

What the runs show:

- On one band the ADDBA/DELBA exchange is sound.
- A switch after the agreement is established leaves the originator on the
  new band without a recipient agreement at the peer, because `MacLow`'s
  agreements are never copied.
- A switch by the recipient carries its queued ADDBA Response to the wrong
  band.
- A copied pending agreement never resolves on one of the two MACs. This is
  the copy semantics the spec leaves open (§9), so it is a hazard and not a
  run.

With originator teardowns and two setups per MAC, a recipient DELBA crossing
a new ADDBA Request also loses the response, even without a switch. That run
bounds teardowns to zero, and the race is listed as a hazard.

Fairness: weak fairness of every `Transmit`. Each `QosTxop` with a queued frame
eventually gets the medium.

### Agreements across an FST switch (`FstBlockAck`)

`FstBlockAck` instantiates both modules over one `active` variable. The
block-ack module's variables are renamed (`baQueues`, `baSetups`,
`baTeardowns`) where they clash with the FST module's. A step is one of two
kinds:

- `FstStep` is a step of `MultiBandFst`. If it switches a device (the Setup
  Response or its acknowledgement with LLT 0, or an expired countdown), it is
  joined with `BlockAckTransfer`'s `BandChanged` for that device and standard.
  In the code both halves are the one call `MultiBandNetDevice::BandChanged`.
  Otherwise the block-ack state is unchanged.
- `BlockAckStep` is a step of the ADDBA/DELBA exchange. The FST state is
  unchanged.

The ADDBA frames stay in queues of their own. Their order relative to the data
frames of the same access category is not modelled, and the cfg sends no data
frames.

The ba_recipient run uses this module. The station sets up one agreement and
starts one FST session with LLT 0. TLC finds the state the finding describes
in 9 steps:

1. The agreement is established on 802.11ad.
2. The FST Setup Request and Response are exchanged.
3. On the Response, the station switches to 5 GHz and copies its established
   originator agreement.
4. The AP's 5 GHz MAC has no recipient agreement for the station.

## Capabilities (`Capabilities`)

The state is the per-access-category A-MPDU and A-MSDU size attributes, which
can be set to any value their checker admits. The PHY configuration is chosen
at start. It includes which configuration objects the device holds: none,
HT, HT+VHT, HT+HE or HT+VHT+HE. These are the combinations `WifiHelper`
creates per standard. `GetHtSupported`, `GetVhtSupported` and `GetHeSupported`
test whether the object is present. An element whose getter is false is the
empty `Create<...> ()` element, `[supported |-> 0]`.
`GetExtendedCapabilities` copies the HT and VHT flags. The run `capabilities`
checks every element the device advertises, over every reachable
configuration:

- the Maximum A-MPDU Length is the smallest length the element can encode that
  covers the largest attribute. This covers the `ceil(log2)` rounding and the
  clamp at each boundary value;
- the HT A-MSDU length and the VHT MPDU length fit the largest A-MSDU.

The attribute values are taken at each boundary: 8191/8192, 65535/65536,
2^23-1/2^23, 3839/3840 and 7935/7936.

## Standard configuration (`MacConfiguration`)

`MacConfiguration.tla` follows one `RegularWifiMac` from construction to
`DoDispose`. The MAC is a record with these fields:

- its flags (`m_qosSupported`, `m_dmgSupported`, `m_edmgSupported`,
  `m_erpSupported`, `m_dsssSupported`, `m_rifsSupported`,
  `m_shortSlotTimeSupported`) and `m_type`;
- its EDCA queues in creation order, each with its own station type,
  block-ack threshold and inactivity timeout;
- the aggregators and the CTS-to-self flag `MacLow` holds, and the RIFS
  flag that `FinishConfigureStandard` copies into the device's
  `HtConfiguration`;
- the contention-window arguments each queue got from `ConfigureDcf`;
- whether the PHY, the station manager and the three device callbacks are
  attached, and which queues are initialized.

A second variable holds the station manager's side: the FST `MacTxOk` and
`MacRxOk` callbacks and the copied DMG and EDMG flags. Every
setter is an operator from record to record, so a call sequence (for example
`SetDmgSupported (true)` calling `SetQosSupported` and `EnableAggregation`) is
a composition.

- `Init` is the constructor: flags false, the queues VO, VI, BE, BK set up by
  `SetupEdcaQueue` in that order, and `m_rifsSupported`,
  `m_shortSlotTimeSupported` and `m_type` uninitialised (any value). The subclass constructor then calls
  `SetTypeOfStation`, and the device may or may not hold an `HtConfiguration`.
- `ConstructAttribute` is one step of ns-3's `ConstructSelf`. It applies the
  next attribute in declaration order, with any value the model enumerates.
  The attributes are `QosSupported`, `DmgSupported`, `EdmgSupported`,
  `CtsToSelfSupported`, the four `XX_BlockAckThreshold`, the four
  `XX_BlockAckInactivityTimeout`, `ShortSlotTimeSupported` and
  `RifsSupported`. The block-ack setters forward to `GetXXQueue ()`.
  `GetDevice ()` is still null, so `SetRifsSupported` cannot reach the
  `HtConfiguration`.
- `FinishConfigureStandard(std)` is the whole function: the switch with its
  fall-through (`StandardCapabilities`, `StandardCw`) and
  `ConfigureContentionWindow`. An HT standard without `HtConfiguration` fails
  the code's `NS_ASSERT`, so the step is disabled there.
- `SetNode` is `MultiBandNetDevice::SetNode` and the `CompleteConfig` it
  calls. For the MAC's technology it does `SetWifiPhy`,
  `SetWifiRemoteStationManager` and the three callback setters, then
  `SetupPhy` / `SetupMac` on the station manager. The helper adds the
  technology before it sets the node, so the early returns of
  `CompleteConfig` are not taken. Like `CompleteConfig`, the step does not
  require `ConfigureStandard` to have run. The helper's order
  (`ConfigureStandard` first) lives outside these sources and is not
  imposed.
- `Initialize` (`DoInitialize` of the device, then of the MAC) starts the DCA
  and the EDCA queues. `Dispose` is `DoDispose` of both.

| run | cfg | expect | checks |
|---|---|---|---|
| configuration | `MCMacConfiguration.cfg` | pass | `TypeOK`, `ContentionWindowsOfStandard`, `HighThroughputAggregates`, `EdcaQueuesConfigured` |

The run enumerates these inputs:

- every Boolean attribute value;
- both ends of the block-ack ranges (threshold 0 and 64, timeout 0 and
  65535);
- three station types;
- every one of the thirteen standards the switch accepts.

It reaches 10.3 M states in about 2 minutes and shows the following:

- all five queues get aCWmin 31 and the DSSS-only parameters exactly for
  802.11b, and aCWmin 15 otherwise, through the fall-through;
- HT and DMG MACs end with QoS and both aggregators, although the
  `EdmgSupported` default removes the aggregators that `DmgSupported = true`
  created at construction;
- every EDCA queue holds its MAC's station type and the block-ack threshold
  and timeout of its own category (`EdcaQueuesConfigured`).

The order of `ConfigureStandard`, `SetNode` and the simulator start is the
helper's and `Node`'s, not these sources'. For example, the station manager
copies the DMG flags in `SetWifiRemoteStationManager` only once, so a
`ConfigureStandard` after `SetNode` leaves them stale. No property is checked
about this order, and the hazards at `regular-wifi-mac.cc:194` and
`part_001:95` say so. The RIFS value the `HtConfiguration` object holds of its
own is also outside the sources, so no property compares it with the MAC's.

Attribute sets after `ConfigureStandard` (`Config::Set`) are not modelled.
A later `DmgSupported = false` would remove the aggregators of an HT MAC, and
this is listed as a hazard. There is no deadlock check: configuration ends.

## Not modelled

1. **LLT overflow.** `LLT * 32` is 32-bit unsigned arithmetic (lines 157, 176,
   1191, 1372). `LltUnits` computes the wrap (the countdown is LLT modulo 2^27
   in 32 µs units), but the runs keep the attribute to {0, 1}. An attribute of
   2^27 would make `CountdownHonoursInactivity` fail at the first countdown.
   No run checks that value. It is listed as a hazard.
2. **A-MPDU size 2^32 - 1.** `x + 1` wraps to 0 and `log2 (0)` is undefined
   (line 252). TLC's integers stop at 2^31 - 1, so the capability runs stop at
   2^23 + 1.
3. **`NS_ASSERT (htConfiguration)`** (line 1769) is an abort. The model
   disables the step instead. No invariant over states can express the abort.
4. **Link state.** `LinkUp` and `LinkDown` of every MAC set the one
   `m_linkUp` of the device. What calls them (the association state machines,
   the beacon watchdog) is not in these sources. It is listed as a hazard.
5. **Left out on purpose:**
   - the HT Rx MCS bitmask and data rates, computed from rate tables
     outside the sources;
   - the timing setters (`SetSlot`, `SetSifs`, ...), which only forward a
     value to `MacLow` or the `ChannelAccessManager`;
   - `ResetWifiPhy`, which nothing in the sources calls;
   - the `DmgAdhocWifiMac` declaration;
   - the example script (`part_002`), which has no multi-band logic.
