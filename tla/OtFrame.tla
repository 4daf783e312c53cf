------------------------------- MODULE OtFrame -------------------------------
(***************************************************************************)
(* The OT framing layer (rust/src/ot_frame.rs) under the two gateways that *)
(* use it (rust/src/bin/ls_gateway.rs): the sequence counters with their   *)
(* replay window, the key stores, wrap_pdu and unwrap_pdu.                 *)
(*                                                                         *)
(* Each gateway runs one task per TCP connection, all over one shared      *)
(* GatewayState.  A step is one access to that shared state; parsing,      *)
(* sealing and opening are pure and belong to the step that needs them.    *)
(* The network keeps every envelope it was given: it can delay, drop,      *)
(* repeat and reorder them and change header fields.  The AEAD is ideal:   *)
(* a blob opens only under its key and its AAD.  Either gateway may        *)
(* restart; SequenceCounter lives in memory only.  The transport prefix    *)
(* that forward_envelope adds is the subject of GatewayWire, not of this   *)
(* module.                                                                 *)
(***************************************************************************)
EXTENDS Naturals, Sequences

CONSTANTS
    Protocols,      \* ProtocolId
    Devices,        \* the device ids in use, and possibly Wildcard
    Wildcard,       \* WILDCARD_DEVICE_ID
    Pdus,           \* the PDUs devices send
    Keys,           \* v8 keys
    NoKey,          \* an absent key store entry
    NoFrame,        \* what an idle task works on
    PskFile,        \* pre-shared mode: the key file, a function on Devices
    IngressTasks,   \* connection tasks of the ingress gateway
    EgressTasks,    \* connection tasks of the egress gateway
    MaxSeq,         \* bound: sequence numbers the ingress hands out per channel
    MaxRestarts     \* bound: restarts of each gateway

Channels == Protocols \X Devices        \* DeviceKey
Frames == [chan : Channels, seq : Nat, pdu : Pdus]
Store == [Devices \cup {Wildcard} -> Keys \cup {NoKey}]

ASSUME OtFrameAssumption ==
    /\ NoKey \notin Keys
    /\ NoFrame \notin Frames
    /\ PskFile \in [Devices -> Keys \cup {NoKey}]
    /\ MaxSeq \in Nat
    /\ MaxRestarts \in Nat

VARIABLES
    keyMode,        \* the configuration: KEM mode or pre-shared keys
    sendState,      \* ingress: SequenceCounter.send_state
    recvState,      \* egress: SequenceCounter.recv_state
    ingressKeys,    \* ingress: the key store
    egressKeys,     \* egress: the key store
    ingressTask,    \* the frame each ingress task has numbered and not yet sealed
    egressTask,     \* the frame each egress task has opened and not yet validated
    wire,           \* every blob the ingress has sealed and forwarded
    siem,           \* the last event the egress reported
    accepted,       \* history: per channel, frames accepted in this egress life
    ingressLife,    \* history: restarts of the ingress gateway
    egressLife      \* history: restarts of the egress gateway

ingress == <<sendState, ingressKeys, ingressTask>>
egress == <<recvState, egressKeys, egressTask, siem, accepted>>
lives == <<ingressLife, egressLife>>
vars == <<keyMode, ingress, egress, wire, lives>>

Garbage == [key |-> NoKey]      \* bytes no key opens
Blobs == [key : Keys, chan : Channels, seq : Nat, pdu : Pdus, life : Nat]

-----------------------------------------------------------------------------
(* Helpers *)

\* The initial content of a gateway's store: the key file, or nothing.
FreshStore(mode) ==
    [d \in Devices \cup {Wildcard} |-> IF mode = "kem" \/ d \notin Devices THEN NoKey ELSE PskFile[d]]

\* KeyStore::load of either store: the device's own key, else the wildcard's.
\* A FileKeyStore never has a wildcard entry.
Load(store, d) == IF store[d] # NoKey THEN store[d] ELSE store[Wildcard]

\* Fault: the AAD leaves the device id out.
OpensWithoutDevice(blob, key, c, s) == blob.key = key /\ blob.chan[1] = c[1] /\ blob.seq = s

\* decrypt_bytes_v8_key with the AAD rebuilt from the envelope header.
Opens(blob, key, c, s) == blob.key = key /\ blob.chan = c /\ blob.seq = s

-----------------------------------------------------------------------------
Init ==
    /\ keyMode \in {"kem", "psk"}
    /\ sendState = [c \in Channels |-> 0]
    /\ recvState = [c \in Channels |-> 0]
    /\ ingressKeys = FreshStore(keyMode)
    /\ egressKeys = FreshStore(keyMode)
    /\ ingressTask = [i \in IngressTasks |-> NoFrame]
    /\ egressTask = [e \in EgressTasks |-> NoFrame]
    /\ wire = {}
    /\ siem = "none"
    /\ accepted = [c \in Channels |-> <<>>]
    /\ ingressLife = 0 /\ egressLife = 0

(* Ingress: handle_ingress_modbus, handle_ingress_dnp3 *)

\* Fault: the counter is read but its increment is lost.
IngressNumberLost(i, c, p) ==
    /\ ingressTask[i] = NoFrame
    /\ sendState[c] < MaxSeq
    /\ ingressTask' = [ingressTask EXCEPT
         ![i] = [chan |-> c, seq |-> sendState[c] + 1, pdu |-> p]]
    /\ UNCHANGED <<keyMode, sendState, ingressKeys, egress, wire, lives>>

\* A frame is read and parsed, and next_seq numbers it.
IngressNumber(i, c, p) ==
    /\ ingressTask[i] = NoFrame
    /\ sendState[c] < MaxSeq
    /\ sendState' = [sendState EXCEPT ![c] = @ + 1]
    /\ ingressTask' = [ingressTask EXCEPT
         ![i] = [chan |-> c, seq |-> sendState[c] + 1, pdu |-> p]]
    /\ UNCHANGED <<keyMode, ingressKeys, egress, wire, lives>>

\* Fault: the frame is sealed whether or not a key was found.
IngressSealKeyless(i) ==
    LET f == ingressTask[i]
    IN  /\ f # NoFrame
        /\ ingressTask' = [ingressTask EXCEPT ![i] = NoFrame]
        /\ wire' = wire \cup {[key |-> Load(ingressKeys, f.chan[2]), chan |-> f.chan,
                               seq |-> f.seq, pdu |-> f.pdu, life |-> ingressLife]}
        /\ UNCHANGED <<keyMode, sendState, ingressKeys, egress, lives>>

\* The key is loaded; with none the frame is dropped and its number is spent.
\* Otherwise wrap_pdu seals it, and forward_envelope delivers or loses it.
IngressSeal(i) ==
    LET f == ingressTask[i]
        k == Load(ingressKeys, f.chan[2])
    IN  /\ f # NoFrame
        /\ ingressTask' = [ingressTask EXCEPT ![i] = NoFrame]
        /\ \/ k # NoKey /\ wire' = wire \cup {[key |-> k, chan |-> f.chan, seq |-> f.seq,
                                               pdu |-> f.pdu, life |-> ingressLife]}
           \/ UNCHANGED wire
        /\ UNCHANGED <<keyMode, sendState, ingressKeys, egress, lives>>

(* Egress: handle_egress and unwrap_pdu *)

\* Fault: the replay window is advanced before the tag is verified.
EgressOpenEager(e, blob, c, s) ==
    /\ egressTask[e] = NoFrame
    /\ Load(egressKeys, c[2]) # NoKey
    /\ s > recvState[c]
    /\ recvState' = [recvState EXCEPT ![c] = s]
    /\ UNCHANGED <<keyMode, ingress, egressKeys, egressTask, siem, accepted, wire, lives>>

\* An envelope with header (c, s) around some blob arrives: the key of the
\* device the header names is loaded and the blob is opened with the header as
\* AAD.  A missing key and a failed tag are reported and the frame is dropped.
EgressOpen(e, blob, c, s) ==
    LET k == Load(egressKeys, c[2])
    IN  /\ egressTask[e] = NoFrame
        /\ \/ /\ k = NoKey
              /\ siem' = "KEY_MISSING"
              /\ UNCHANGED egressTask
           \/ /\ k # NoKey /\ ~Opens(blob, k, c, s)
              /\ siem' = "AUTH_FAIL"
              /\ UNCHANGED egressTask
           \/ /\ k # NoKey /\ Opens(blob, k, c, s)
              /\ egressTask' = [egressTask EXCEPT
                   ![e] = [chan |-> c, seq |-> s, pdu |-> blob.pdu]]
              /\ UNCHANGED siem
        /\ UNCHANGED <<keyMode, ingress, recvState, egressKeys, accepted, wire, lives>>

\* Fault: a repeated number is taken for a new one (< instead of <=).
EgressValidateLax(e) ==
    LET f == egressTask[e]
    IN  /\ f # NoFrame
        /\ f.seq >= recvState[f.chan]
        /\ recvState' = [recvState EXCEPT ![f.chan] = f.seq]
        /\ accepted' = [accepted EXCEPT
             ![f.chan] = Append(@, f)]
        /\ egressTask' = [egressTask EXCEPT ![e] = NoFrame]
        /\ UNCHANGED <<keyMode, ingress, egressKeys, siem, wire, lives>>

\* validate_recv, under the recv_state mutex.  A number not above the last one
\* is reported as an AUTH_FAIL and dropped; otherwise the frame is accepted and
\* handed to the SCADA side (where the forward may still fail).
EgressValidate(e) ==
    LET f == egressTask[e]
    IN  /\ f # NoFrame
        /\ egressTask' = [egressTask EXCEPT ![e] = NoFrame]
        /\ \/ /\ f.seq <= recvState[f.chan]
              /\ siem' = "AUTH_FAIL"
              /\ UNCHANGED <<recvState, accepted>>
           \/ /\ f.seq > recvState[f.chan]
              /\ recvState' = [recvState EXCEPT ![f.chan] = f.seq]
              /\ accepted' = [accepted EXCEPT
                   ![f.chan] = Append(@, f)]
              /\ UNCHANGED siem
        /\ UNCHANGED <<keyMode, ingress, egressKeys, wire, lives>>

(* Key stores and restarts *)

\* SessionKeyStore::insert of the key a KEM exchange derived, under the wildcard.
IngressInstall(k) ==
    /\ keyMode = "kem"
    /\ ingressKeys' = [ingressKeys EXCEPT ![Wildcard] = k]
    /\ UNCHANGED <<keyMode, sendState, ingressTask, egress, wire, lives>>

EgressInstall(k) ==
    /\ keyMode = "kem"
    /\ egressKeys' = [egressKeys EXCEPT ![Wildcard] = k]
    /\ UNCHANGED <<keyMode, ingress, recvState, egressTask, siem, accepted, wire, lives>>

\* A restarted gateway has new counters and tasks, and its store is empty (KEM)
\* or read again from the key file.
IngressRestart ==
    /\ ingressLife < MaxRestarts
    /\ ingressLife' = ingressLife + 1
    /\ sendState' = [c \in Channels |-> 0]
    /\ ingressKeys' = FreshStore(keyMode)
    /\ ingressTask' = [i \in IngressTasks |-> NoFrame]
    /\ UNCHANGED <<keyMode, egress, wire, egressLife>>

EgressRestart ==
    /\ egressLife < MaxRestarts
    /\ egressLife' = egressLife + 1
    /\ recvState' = [c \in Channels |-> 0]
    /\ egressKeys' = FreshStore(keyMode)
    /\ egressTask' = [e \in EgressTasks |-> NoFrame]
    /\ siem' = "none"
    /\ accepted' = [c \in Channels |-> <<>>]
    /\ UNCHANGED <<keyMode, ingress, wire, ingressLife>>

-----------------------------------------------------------------------------
Next ==
    \/ \E i \in IngressTasks :
         IngressSeal(i) \/ \E c \in Channels, p \in Pdus : IngressNumber(i, c, p)
    \/ \E e \in EgressTasks :
         \/ EgressValidate(e)
         \/ \E blob \in wire \cup {Garbage}, c \in Channels, s \in 0..MaxSeq : EgressOpen(e, blob, c, s)
    \/ \E k \in Keys : IngressInstall(k) \/ EgressInstall(k)
    \/ IngressRestart
    \/ EgressRestart

Spec == Init /\ [][Next]_vars

-----------------------------------------------------------------------------
(* Properties *)

TypeOK ==
    /\ keyMode \in {"kem", "psk"}
    /\ sendState \in [Channels -> Nat]
    /\ recvState \in [Channels -> Nat]
    /\ ingressKeys \in Store
    /\ egressKeys \in Store
    /\ ingressTask \in [IngressTasks -> Frames \cup {NoFrame}]
    /\ egressTask \in [EgressTasks -> Frames \cup {NoFrame}]
    /\ wire \subseteq Blobs
    /\ siem \in {"none", "KEY_MISSING", "AUTH_FAIL"}
    /\ accepted \in [Channels -> Seq(Frames)]
    /\ ingressLife \in Nat /\ egressLife \in Nat

\* The message a blob carries.
MessageOf(blob) == [chan |-> blob.chan, seq |-> blob.seq, pdu |-> blob.pdu]

\* No two frames that one life of the ingress seals for a channel share a
\* sequence number, however many connection tasks number frames at once.
SequenceNumbersUnique ==
    \A a, b \in wire : a.life = b.life /\ a.chan = b.chan /\ a.seq = b.seq => a = b

\* Only an authenticated sequence number advances the replay window: its mark
\* is the number of a frame the ingress sealed for exactly that channel.
WindowIsAuthentic ==
    \A c \in Channels :
        recvState[c] > 0 => \E blob \in wire : blob.chan = c /\ blob.seq = recvState[c]

\* In one life of the egress the frames accepted for a channel have strictly
\* increasing numbers: none is accepted twice, whatever tasks race for it.
AcceptedInOrder ==
    \A c \in Channels : \A m, n \in DOMAIN accepted[c] :
        m < n => accepted[c][m].seq < accepted[c][n].seq

\* Every accepted frame is one the ingress sealed for that protocol, device and
\* number: rewritten header fields and rerouted blobs never get through.
AcceptedIsAuthentic ==
    \A c \in Channels : \A n \in DOMAIN accepted[c] :
        accepted[c][n].chan = c /\ \E blob \in wire : MessageOf(blob) = accepted[c][n]

\* The tunnel implements the abstract channel.
Channel == INSTANCE OtChannel WITH
    sealed <- {MessageOf(blob) : blob \in wire}, Seqs <- 1..MaxSeq

ChannelSpec == Channel!Spec
=============================================================================
