------------------------------ MODULE OtChannel ------------------------------
(***************************************************************************)
(* What the OT tunnel promises the SCADA side, without gateways, keys,     *)
(* tasks or a network: the frames accepted for a channel (a protocol and a *)
(* device) during one life of the egress gateway are frames the ingress    *)
(* sealed for that channel, with strictly increasing sequence numbers.     *)
(* Frames may be lost; none is accepted twice, late, or on behalf of       *)
(* another device.                                                         *)
(***************************************************************************)
EXTENDS Naturals, Sequences

CONSTANTS
    Channels,
    Pdus,
    Seqs        \* the sequence numbers in use; never 0

VARIABLES
    sealed,     \* the frames sealed so far
    accepted    \* per channel, the frames accepted in this life of the egress

vars == <<sealed, accepted>>

Messages == [chan : Channels, seq : Seqs, pdu : Pdus]

LastSeq(s) == IF s = <<>> THEN 0 ELSE s[Len(s)].seq

Init == sealed = {} /\ accepted = [c \in Channels |-> <<>>]

Seal(m) == sealed' = sealed \cup {m} /\ UNCHANGED accepted

Accept(m) ==
    /\ m \in sealed
    /\ m.seq > LastSeq(accepted[m.chan])
    /\ accepted' = [accepted EXCEPT ![m.chan] = Append(@, m)]
    /\ UNCHANGED sealed

Restart == accepted' = [c \in Channels |-> <<>>] /\ UNCHANGED sealed

Next == Restart \/ \E m \in Messages : Seal(m) \/ Accept(m)

Spec == Init /\ [][Next]_vars
=============================================================================
