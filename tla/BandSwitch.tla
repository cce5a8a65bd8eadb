----------------------------- MODULE BandSwitch -----------------------------
(***************************************************************************)
(* What the multi-band device and its FST sessions promise the layer       *)
(* above, stated without frames, queues, sessions or timers.               *)
(*                                                                         *)
(* Each device routes its traffic through one band.  It moves to the 5 GHz *)
(* band at most once, and only after it has taken part in an FST session   *)
(* with the peer (initiated one, or answered a Setup Request).  Data       *)
(* frames the device sends are each forwarded up at the peer at most once, *)
(* or dropped, in any order.  Under fairness, an engaged device does move, *)
(* and every frame sent is eventually forwarded up or dropped.             *)
(***************************************************************************)
EXTENDS Naturals, Sequences, SequencesExt

CONSTANTS Sta, Ap, MaxFrames

Devices == {Sta, Ap}
Peer(d) == IF d = Sta THEN Ap ELSE Sta

VARIABLES
    band,       \* [Devices -> standard]: the band the device routes through
    engaged,    \* SUBSET Devices: devices that have taken part in a session
    sent,       \* [Devices -> Nat]: data frames sent
    rcvd,       \* [Devices -> Seq(Nat)]: numbers of frames forwarded up
    dropped     \* [Devices -> SUBSET Nat]: own frames dropped

vars == <<band, engaged, sent, rcvd, dropped>>

Init ==
    /\ band = [d \in Devices |-> "80211ad"]
    /\ engaged = {}
    /\ sent = [d \in Devices |-> 0]
    /\ rcvd = [d \in Devices |-> <<>>]
    /\ dropped = [d \in Devices |-> {}]

\* Frames of d neither forwarded up at the peer nor dropped.
Outstanding(d) == (1 .. sent[d]) \ (ToSet(rcvd[Peer(d)]) \cup dropped[d])

Engage(d) ==
    /\ d \notin engaged
    /\ engaged' = engaged \cup {d}
    /\ UNCHANGED <<band, sent, rcvd, dropped>>

Switch(d) ==
    /\ d \in engaged
    /\ band[d] = "80211ad"
    /\ band' = [band EXCEPT ![d] = "80211n_5GHZ"]
    /\ UNCHANGED <<engaged, sent, rcvd, dropped>>

Send(d) ==
    /\ sent[d] < MaxFrames
    /\ sent' = [sent EXCEPT ![d] = @ + 1]
    /\ UNCHANGED <<band, engaged, rcvd, dropped>>

Deliver(d, n) ==
    /\ n \in Outstanding(d)
    /\ rcvd' = [rcvd EXCEPT ![Peer(d)] = Append(@, n)]
    /\ UNCHANGED <<band, engaged, sent, dropped>>

Drop(d, n) ==
    /\ n \in Outstanding(d)
    /\ dropped' = [dropped EXCEPT ![d] = @ \cup {n}]
    /\ UNCHANGED <<band, engaged, sent, rcvd>>

Next ==
    \E d \in Devices :
        \/ Engage(d)
        \/ Switch(d)
        \/ Send(d)
        \/ \E n \in 1 .. MaxFrames : Deliver(d, n) \/ Drop(d, n)

Spec == Init /\ [][Next]_vars

FairSpec ==
    /\ Spec
    /\ \A d \in Devices :
          /\ WF_vars(Switch(d))
          /\ WF_vars(\E n \in 1 .. MaxFrames : Deliver(d, n) \/ Drop(d, n))

=============================================================================
