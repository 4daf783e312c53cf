------------------------------- MODULE Gateway -------------------------------
(***************************************************************************)
(* The two gateways in KEM mode (rust/src/bin/ls_gateway.rs, main): the    *)
(* framing layer of OtFrame and the key exchange of KemExchange run over   *)
(* the same two SessionKeyStores, as tasks of one runtime on each side.    *)
(*                                                                         *)
(* A key enters a store exactly when a loop of KemExchange installs it     *)
(* under the wildcard, and a restart takes both components of a gateway    *)
(* down together.  The wait_for_key that delays the OT listeners ends with *)
(* the first key or after 120 seconds, so frames may arrive before any key *)
(* and are then dropped, as OtFrame has it.                                *)
(***************************************************************************)
EXTENDS Naturals, Sequences

CONSTANTS
    Protocols, Devices, Wildcard, Pdus, Keys, NoKey, NoFrame, PskFile,
    IngressTasks, EgressTasks, MaxSeq, MaxRestarts,     \* see OtFrame
    Conns, NoConn, Rekeys, MaxFaults                    \* see KemExchange

VARIABLES
    keyMode, sendState, recvState, ingressKeys, egressKeys, ingressTask, egressTask,
    wire, siem, accepted, ingressLife, egressLife,      \* see OtFrame
    initiator, responder, backlog, link, down, up, faults,  \* see KemExchange
    opening,    \* history: the blob each egress task has opened and not yet validated
    delivered   \* history: the blobs accepted in any life of the egress

Tunnel == INSTANCE OtFrame

Kem == INSTANCE KemExchange WITH
    ingressKey <- ingressKeys[Wildcard], egressKey <- egressKeys[Wildcard]

\* The assumptions of the two components.
ASSUME GatewayAssumption ==
    /\ NoKey \notin Keys
    /\ NoFrame \notin Tunnel!Frames
    /\ PskFile \in [Devices -> Keys \cup {NoKey}]
    /\ MaxSeq \in Nat
    /\ MaxRestarts \in Nat
    /\ NoConn \notin Conns
    /\ Rekeys \in BOOLEAN
    /\ MaxFaults \in Nat

kem == <<initiator, responder, backlog, link, down, up, faults>>
tunnel == <<keyMode, sendState, recvState, ingressKeys, egressKeys, ingressTask, egressTask,
            wire, siem, accepted, ingressLife, egressLife>>
history == <<opening, delivered>>
vars == <<tunnel, kem, history>>

Init ==
    /\ keyMode = "kem" /\ Tunnel!Init /\ Kem!Init
    /\ opening = [e \in EgressTasks |-> NoFrame]
    /\ delivered = {}

(* A step of a connection task *)

Ingress ==
    /\ \E i \in IngressTasks :
         \/ Tunnel!IngressSeal(i)
         \/ \E c \in Tunnel!Channels, p \in Pdus : Tunnel!IngressNumber(i, c, p)
    /\ UNCHANGED <<kem, history>>

\* Any frame on the wire arrives, at any time and any number of times.
EgressOpen(e) ==
    /\ \E blob \in wire :
         /\ Tunnel!EgressOpen(e, blob, blob.chan, blob.seq)
         /\ opening' = [opening EXCEPT ![e] = IF egressTask'[e] = NoFrame THEN @ ELSE blob]
    /\ UNCHANGED <<kem, delivered>>

EgressValidate(e) ==
    /\ Tunnel!EgressValidate(e)
    /\ opening' = [opening EXCEPT ![e] = NoFrame]
    /\ delivered' = IF accepted' = accepted THEN delivered
                    ELSE delivered \cup {[blob |-> opening[e], life |-> egressLife]}
    /\ UNCHANGED kem

(* A step of a key exchange loop *)

\* Encapsulation never repeats a key that sealed a frame.
Exchange ==
    /\ UNCHANGED <<tunnel, history>>
    /\ \/ \E c \in Conns : Kem!InitiatorConnect(c) \/ Kem!Reset(c)
       \/ \E k \in Keys : (\A blob \in wire : blob.key # k) /\ Kem!InitiatorEncapsulate(k)
       \/ Kem!InitiatorRefused \/ Kem!InitiatorAck \/ Kem!InitiatorFails \/ Kem!InitiatorWake
       \/ Kem!ResponderBind \/ Kem!ResponderBindFails
       \/ Kem!ResponderAccept \/ Kem!ResponderDecapsulate \/ Kem!ResponderFails

\* Fault: the initiator's key goes to the store of one device instead of the
\* wildcard.
InitiatorInstallMisplaced ==
    /\ initiator.pc = "install"
    /\ \E d \in Devices : ingressKeys' = [ingressKeys EXCEPT ![d] = initiator.key]
    /\ initiator' = Kem!At("sleep")
    /\ UNCHANGED <<keyMode, sendState, recvState, egressKeys, ingressTask, egressTask, wire,
                   siem, accepted, ingressLife, egressLife, responder, backlog, link, down, up, faults,
                   history>>

InitiatorInstall ==
    Tunnel!IngressInstall(initiator.key) /\ Kem!InitiatorInstall /\ UNCHANGED history

\* Fault: insert keeps an entry that is already there.
ResponderInstallOnce ==
    /\ responder.pc = "install"
    /\ responder' = Kem!At("accept")
    /\ egressKeys' = [egressKeys EXCEPT ![Wildcard] = IF @ = NoKey THEN responder.key ELSE @]
    /\ UNCHANGED <<keyMode, sendState, recvState, ingressKeys, ingressTask, egressTask, wire,
                   siem, accepted, ingressLife, egressLife, initiator, backlog, link, down, up, faults,
                   history>>

ResponderInstall ==
    Tunnel!EgressInstall(responder.key) /\ Kem!ResponderInstall /\ UNCHANGED history

IngressRestart == Tunnel!IngressRestart /\ Kem!InitiatorRestart /\ UNCHANGED history

\* Fault: the session key survives the restart, the replay window does not.
EgressRestartKeepsKey ==
    /\ egressLife < MaxRestarts
    /\ egressLife' = egressLife + 1
    /\ recvState' = [c \in Tunnel!Channels |-> 0]
    /\ egressTask' = [e \in EgressTasks |-> NoFrame]
    /\ accepted' = [c \in Tunnel!Channels |-> <<>>]
    /\ opening' = [e \in EgressTasks |-> NoFrame]
    /\ UNCHANGED <<keyMode, sendState, ingressKeys, egressKeys, ingressTask, wire, siem,
                   ingressLife, kem, delivered>>

EgressRestart ==
    /\ Tunnel!EgressRestart /\ Kem!ResponderRestart
    /\ opening' = [e \in EgressTasks |-> NoFrame]
    /\ UNCHANGED delivered

-----------------------------------------------------------------------------
Next ==
    \/ Ingress
    \/ \E e \in EgressTasks : EgressOpen(e) \/ EgressValidate(e)
    \/ Exchange
    \/ InitiatorInstall
    \/ ResponderInstall
    \/ IngressRestart
    \/ EgressRestart

Spec == Init /\ [][Next]_vars

-----------------------------------------------------------------------------
(* Properties *)

\* The egress could open this frame if it arrived now.
Openable(blob) ==
    Tunnel!Opens(blob, Tunnel!Load(egressKeys, blob.chan[2]), blob.chan, blob.seq)

\* While the ingress sleeps between two exchanges and the egress has installed
\* its key, no frame the ingress seals is lost to the exchange: every frame
\* under the current ingress key can be opened.
SettledFramesOpen ==
    initiator.pc = "sleep" /\ responder.pc # "install" /\ egressKeys[Wildcard] # NoKey =>
        \A blob \in wire : blob.key = Tunnel!Load(ingressKeys, blob.chan[2]) => Openable(blob)

\* No frame is ever accepted twice, not even across a restart of the egress, whose
\* replay window starts empty: the keys go with the window, and no exchange, also
\* one that was under way, brings an old one back (SequenceCounter::new, the empty
\* SessionKeyStore of main).
AcceptedOnceEver == \A a, b \in delivered : a.blob = b.blob => a.life = b.life

\* The composition implements the framing layer on its own, so what is proved
\* of that for arbitrary installs holds under the key exchange.
TunnelSpec == Tunnel!Spec

\* A re-key lets the frames in flight under the old key through: a frame that
\* could be opened still can be, until its number is accepted or overtaken.
InFlightFramesContinue ==
    [][\A blob \in wire :
         Openable(blob) /\ blob.seq > recvState[blob.chan]
             => Openable(blob)' \/ recvState'[blob.chan] >= blob.seq]_vars
=============================================================================
